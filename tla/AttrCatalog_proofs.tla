------------------------- MODULE AttrCatalog_proofs -------------------------
(***************************************************************************)
(* Proofs about the attribute catalog, for any number of blocks and slots, *)
(* any relations, whatever blocks the frames replace at any read, and      *)
(* every disk that an earlier session may leave, as long as an index is    *)
(* one leaf (OneLeaf): with two levels the search of deleteRelation goes   *)
(* astray (AttrCatalogIndexed.cfg).  They hold until a record is inserted  *)
(* on a full disk under another number than E_DISKFULL (lost).             *)
(***************************************************************************)
EXTENDS AttrCatalog, SequenceLemmas, FiniteSetTheorems

\* an index is one leaf: AttrCatalogIndexed.cfg drops this
OneLeaf == Leaves = 1

-----------------------------------------------------------------------------
(* The inductive invariant.                                                *)

BlockType == {"UNUSED_BLK", "REC", "IND_LEAF", "IND_INTERNAL"}
Record    == [rel : Rel \cup {"free", "own"}, attr : Nat, root : BlockOrNo]
Bytes     == [lblock : BlockOrNo, rblock : BlockOrNo, slots : [Slot -> Record],
              kids : SUBSET Block]
Buffers   == [mem : [Block -> Bytes], run : [Block -> Bytes], alloc : [Block -> BlockType],
              held : SUBSET Block]

Scalars ==
  /\ firstBlk \in [Rel -> BlockOrNo \cup {NotCreated}] /\ numRecs \in Nat /\ deleted \in Nat
  /\ pc \in {"idle", "insert", "search", "delete"} /\ cur \in Rel \cup {"none"}
  /\ attr \in Nat /\ prev \in BlockOrNo /\ at \in BlockOrNo \X (1 .. SLOTS + 1)

Owned(u) == {b \in Block : u.alloc[b] # "UNUSED_BLK"}

\* only of released blocks may the bytes be replaced
Coherent(u) == \A b \in u.held : u.alloc[b] = "UNUSED_BLK"

\* the bytes of all blocks
Content == Buf.mem

\* the blocks of L are linked both ways, and none but the first is empty
List(L, D) ==
  /\ L \in Seq(Block) /\ Len(L) > 0 /\ L[1] = First
  /\ \A i, j \in 1 .. Len(L) : L[i] = L[j] => i = j
  /\ \A i \in 1 .. Len(L) : D[L[i]].rblock = IF i = Len(L) THEN -1 ELSE L[i + 1]
  /\ \A i \in 2 .. Len(L) : D[L[i]].lblock = L[i - 1]
  /\ D[First].slots[1] = OwnRec
  /\ \A i \in 2 .. Len(L) : \E s \in Slot : D[L[i]].slots[s] # NoRec

\* the records of the attributes of relations, each at its place
Entries(L, D) ==
  [p \in {q \in ToSet(L) \X Slot : D[q[1]].slots[q[2]].rel \in Rel} |-> D[p[1]].slots[p[2]]]

\* the attributes 1 .. n of r are there
Complete(K, r, n) == \A a \in 1 .. n : \E p \in DOMAIN K : K[p].rel = r /\ K[p].attr = a

\* each attribute has one record, but those of the relation at hand may be missing
Catalogued(K) ==
  /\ \A p \in DOMAIN K :
       /\ K[p].attr \in 1 .. NumAttrs[K[p].rel] /\ firstBlk[K[p].rel] # NotCreated
       /\ pc = "insert" /\ K[p].rel = cur => K[p].attr < attr
  /\ \A p, q \in DOMAIN K : K[p].rel = K[q].rel /\ K[p].attr = K[q].attr => p = q
  /\ \A r \in Rel : firstBlk[r] # NotCreated /\ r # cur => Complete(K, r, NumAttrs[r])
  /\ pc = "insert" => Complete(K, cur, attr - 1)

\* the relations that own a record block
Owners == {r \in Rel : firstBlk[r] \in Block /\ ~ (pc \in {"search", "delete"} /\ r = cur)}

\* every block has one owner or none
Accounts(L, K) ==
  /\ \A b \in ToSet(L) : alloc[b] = "REC"
  /\ \A r \in Owners : alloc[firstBlk[r]] = "REC" /\ firstBlk[r] \notin ToSet(L)
  /\ \A r, s \in Owners : firstBlk[r] = firstBlk[s] => r = s
  /\ \A b \in Block : alloc[b] = "REC" => b \in ToSet(L) \/ \E r \in Owners : firstBlk[r] = b
  /\ \A p \in DOMAIN K : K[p].root # -1 => alloc[K[p].root] = "IND_LEAF"
  /\ \A p, q \in DOMAIN K : K[p].root = K[q].root /\ K[p].root # -1 => p = q
  /\ \A b \in Block : alloc[b] = "IND_LEAF" => \E p \in DOMAIN K : K[p].root = b
  /\ \A b \in Block : alloc[b] # "IND_INTERNAL"

LeavesPlain(D) == \A b \in Block : alloc[b] = "IND_LEAF" => D[b].kids = {}

\* the cached count lags behind during a drop
Counted(K) ==
  /\ IsFiniteSet(DOMAIN K)
  /\ numRecs = OwnSlots + Cardinality(DOMAIN K) + deleted

\* no record of relation r lies before slot s of the k-th block
Ahead(L, K, r, k, s) ==
  \A p \in DOMAIN K : K[p].rel = r =>
    \E j \in k .. Len(L) : p[1] = L[j] /\ (j = k => s <= p[2])

\* a search for r that goes on at slot s of block b finds the records that are left
Finds(L, K, r, b, s) ==
  \/ b = -1 /\ \A p \in DOMAIN K : K[p].rel # r
  \/ \E k \in 1 .. Len(L) : b = L[k] /\ Ahead(L, K, r, k, s)

\* the search stands in a block that was released when it became empty
InReleased(L, D, K) ==
  /\ at[1] \in Block \ Owned(Buf) /\ at[1] \in held
  /\ \A s \in Slot : D[at[1]].slots[s] = NoRec
  /\ Finds(L, K, cur, D[at[1]].rblock, 1)

Position(L, D, K) ==
  /\ pc \in {"idle", "insert"} => deleted = 0
  /\ pc = "idle" => cur = "none"
  /\ pc # "idle" => cur \in Rel /\ firstBlk[cur] # NotCreated
  /\ pc = "insert" => /\ firstBlk[cur] = -1 /\ attr \in 1 .. NumAttrs[cur]
                      /\ IF at[1] = -1 THEN prev = L[Len(L)] ELSE at[1] \in ToSet(L)
  /\ pc = "search" => Finds(L, K, cur, at[1], at[2]) \/ InReleased(L, D, K)
  /\ pc = "delete" => /\ at \in DOMAIN K /\ K[at].rel = cur
                      /\ Finds(L, K, cur, at[1], at[2])

Sound(L, D, K) ==
  /\ List(L, D) /\ Catalogued(K) /\ Accounts(L, K) /\ LeavesPlain(D) /\ Counted(K)
  /\ Position(L, D, K)

Holds(L, D, K) ==
  /\ Buf \in Buffers /\ Coherent(Buf) /\ Scalars
  /\ D = Content /\ K = Entries(L, D) /\ Sound(L, D, K)

IInv == \E L, D, K : Holds(L, D, K)

\* with a record lost nothing is followed any more
Inv ==
  /\ lost \in BOOLEAN
  /\ ~ lost => IInv
  /\ lost => TypeOK /\ pc # "search"

-----------------------------------------------------------------------------
(* The buffer.                                                             *)

\* The least of a set of numbers.
LEMMA MinIs ==
  ASSUME NEW S, S \subseteq Nat, S # {}
  PROVE  Min(S) \in S /\ \A x \in S : Min(S) <= x
<1>1. PICK n \in S : \A m \in S : n <= m
  BY LeastNumber
<1> QED BY <1>1 DEF Min

LEMMA Sizes ==
  /\ Block \subseteq Nat /\ First \in Block /\ -1 \notin Block
  /\ IsFiniteSet(Block) /\ Cardinality(Block) = DISK_BLOCKS
  /\ IsFiniteSet(Slot) /\ Slot \subseteq Nat /\ 1 \in Slot
<1>1. DISK_BLOCKS \in Nat \ {0} /\ SLOTS \in Nat /\ OwnSlots \in 1 .. SLOTS
  BY CatalogAssumption
<1>2. IsFiniteSet(Block) /\ Cardinality(Block) = DISK_BLOCKS
  <2>1. /\ IsFiniteSet(0 .. DISK_BLOCKS - 1)
        /\ Cardinality(0 .. DISK_BLOCKS - 1)
             = IF 0 > DISK_BLOCKS - 1 THEN 0 ELSE DISK_BLOCKS - 1 - 0 + 1
    BY <1>1, FS_Interval
  <2> QED BY <1>1, <2>1 DEF Block
<1>3. IsFiniteSet(Slot)
  BY <1>1, FS_Interval DEF Slot
<1> QED BY <1>1, <1>2, <1>3 DEF Block, First, Slot

\* w has the bytes of all owned blocks of u
Keeps(u, w) ==
  w \in Buffers /\ Coherent(w) /\ w.alloc = u.alloc /\ \A c \in Owned(u) : w.mem[c] = u.mem[c]

\* Whatever frames are replaced, the blocks with an owner keep their bytes.
LEMMA ReplacedOk ==
  ASSUME NEW u \in Buffers, Coherent(u), NEW w \in Replaced(u)
  PROVE  Keeps(u, w)
<1>1. PICK h \in SUBSET u.held :
        w = [u EXCEPT !.held = h, !.mem = [b \in Block |-> IF b \in u.held \ h THEN u.run[b] ELSE @[b]]]
  BY Zenon DEF Replaced
<1> DEFINE m == [b \in Block |-> IF b \in u.held \ h THEN u.run[b] ELSE u.mem[b]]
<1>2. w = [u EXCEPT !.held = h, !.mem = m]
  BY <1>1
<1>3. m \in [Block -> Bytes] /\ h \in SUBSET Block
  BY DEF Buffers
<1> HIDE DEF m
<1>4. w \in Buffers /\ w.mem = m /\ w.held = h /\ w.alloc = u.alloc
  BY <1>2, <1>3 DEF Buffers
<1>5. Coherent(w)
  BY <1>4 DEF Coherent
<1>6. \A c \in Owned(u) : w.mem[c] = u.mem[c]
  <2>1. \A c \in Owned(u) : c \in Block /\ c \notin u.held
    BY DEF Owned, Coherent
  <2> QED BY <1>4, <2>1 DEF m
<1> QED BY <1>4, <1>5, <1>6 DEF Keeps

\* loadBlockAndGetBufferPtr changes no bytes.
LEMMA LoadOk ==
  ASSUME NEW u \in Buffers, Coherent(u), NEW b \in Block
  PROVE  /\ Load(u, b) \in Buffers /\ Coherent(Load(u, b))
         /\ Load(u, b).mem = u.mem /\ Load(u, b).alloc = u.alloc
<1>1. CASE u.alloc[b] # "UNUSED_BLK"
  BY <1>1 DEF Load
<1>2. CASE u.alloc[b] = "UNUSED_BLK"
  <2>1. Load(u, b) = [u EXCEPT !.held = u.held \cup {b}]
    BY <1>2 DEF Load
  <2> QED BY <1>2, <2>1 DEF Buffers, Coherent
<1> QED BY <1>1, <1>2

\* Nor does a read, whatever it replaces.
LEMMA ReadOk ==
  ASSUME NEW u \in Buffers, Coherent(u), NEW b \in Block, NEW w \in Read(u, b)
  PROVE  Keeps(u, w)
<1>1. PICK x \in Replaced(u) : w = Load(x, b)
  BY DEF Read
<1>2. Keeps(u, x)
  BY ReplacedOk
<1>3. w \in Buffers /\ Coherent(w) /\ w.mem = x.mem /\ w.alloc = x.alloc
  BY <1>1, <1>2, LoadOk DEF Keeps
<1> QED BY <1>2, <1>3 DEF Keeps

\* w has the bytes v in block b, which u owns, and otherwise those of u
Writes(u, w, b, v) ==
  /\ w \in Buffers /\ Coherent(w) /\ w.alloc = u.alloc /\ w.mem[b] = v
  /\ \A c \in Owned(u) \ {b} : w.mem[c] = u.mem[c]

\* Writing to an owned block.
LEMMA StoreOk ==
  ASSUME NEW u \in Buffers, Coherent(u), NEW b \in Owned(u), NEW v \in Bytes
  PROVE  Writes(u, Store(u, b, v), b, v)
<1>1. b \in Block /\ u.alloc[b] # "UNUSED_BLK"
  BY DEF Owned
<1>2. Store(u, b, v) = [u EXCEPT !.mem[b] = v]
  BY <1>1 DEF Store, Load
<1> QED BY <1>1, <1>2 DEF Writes, Buffers, Coherent, Owned

\* b is new in w, with the bytes v
Allocates(u, w, b, t, v) ==
  /\ w \in Buffers /\ Coherent(w) /\ w.alloc = [u.alloc EXCEPT ![b] = t] /\ w.mem[b] = v
  /\ \A c \in Owned(u) : w.mem[c] = u.mem[c]

\* getFreeBlock: the first unused block, in a frame of its own.
LEMMA NewOk ==
  ASSUME NEW u \in Buffers, Coherent(u), Block \ Owned(u) # {},
         NEW t \in BlockType \ {"UNUSED_BLK"}, NEW v \in Bytes
  PROVE  /\ NextUnused(u) \in Block \ Owned(u)
         /\ Allocates(u, New(u, t, v), NextUnused(u), t, v)
<1> DEFINE b == NextUnused(u)
<1>1. b \in Block /\ u.alloc[b] = "UNUSED_BLK"
  <2> DEFINE S == {c \in Block : u.alloc[c] = "UNUSED_BLK"}
  <2>1. S \subseteq Nat /\ S # {}
    BY Sizes DEF Owned
  <2> HIDE DEF S
  <2>2. Min(S) \in S
    BY <2>1, MinIs
  <2>3. NextUnused(u) = Min(S)
    BY DEF NextUnused, S
  <2> QED BY <2>2, <2>3 DEF S
<1> DEFINE M == [u.mem EXCEPT ![b] = v]
           A == [u.alloc EXCEPT ![b] = t]
           H == u.held \ {b}
           w == New(u, t, v)
<1>2. w = [u EXCEPT !.mem = M, !.alloc = A, !.held = H]
  BY DEF New
<1> HIDE DEF b, w
<1>3. /\ M \in [Block -> Bytes] /\ A \in [Block -> BlockType] /\ H \in SUBSET Block
      /\ M[b] = v /\ \A c \in Owned(u) : M[c] = u.mem[c]
      /\ \A c \in H : A[c] = "UNUSED_BLK"
  BY <1>1 DEF Buffers, Owned, Coherent
<1> HIDE DEF M, A, H
<1>4. w \in Buffers /\ w.mem = M /\ w.alloc = A /\ w.held = H
  BY <1>2, <1>3 DEF Buffers
<1>5. Coherent(w)
  BY <1>3, <1>4 DEF Coherent
<1> QED BY <1>1, <1>3, <1>4, <1>5 DEF Allocates, Owned, A, b, w

\* b is unused in w, a frame has its bytes, and no byte has changed
Releases(u, w, b) ==
  /\ w \in Buffers /\ Coherent(w) /\ w.alloc = [u.alloc EXCEPT ![b] = "UNUSED_BLK"]
  /\ w.mem = u.mem /\ b \in w.held /\ u.held \subseteq w.held

\* releaseBlock leaves the number and the bytes in the frame it frees.
LEMMA releaseOk ==
  ASSUME NEW u \in Buffers, Coherent(u), NEW b \in Block
  PROVE  Releases(u, releaseBlock(u, b), b)
<1> DEFINE A == [u.alloc EXCEPT ![b] = "UNUSED_BLK"]
           H == u.held \cup {b}
           w == releaseBlock(u, b)
<1>1. A \in [Block -> BlockType] /\ H \in SUBSET Block
  BY DEF Buffers, BlockType
<1>2. w = [u EXCEPT !.alloc = A, !.held = H]
  BY DEF releaseBlock
<1>3. \A c \in H : A[c] = "UNUSED_BLK"
  BY DEF Coherent, Buffers
<1> HIDE DEF w, A, H
<1>4. w \in Buffers /\ w.alloc = A /\ w.mem = u.mem /\ w.held = H
  BY <1>1, <1>2 DEF Buffers
<1>5. Coherent(w)
  BY <1>3, <1>4 DEF Coherent
<1> QED BY <1>4, <1>5 DEF Releases, w, A, H

\* What a step leaves in the buffer.
LEMMA BufIs ==
  ASSUME NEW w \in Buffers, SetBuf(w)
  PROVE  Buf' = w /\ alloc' = w.alloc
BY DEF Buffers, Buf, SetBuf

-----------------------------------------------------------------------------
(* The list.                                                               *)

\* The blocks of a list.
LEMMA ListIs ==
  ASSUME NEW L, NEW D, List(L, D)
  PROVE  /\ L \in Seq(Block) /\ Len(L) \in Nat \ {0} /\ First \in ToSet(L) /\ ToSet(L) \subseteq Block
         /\ \A i \in 1 .. Len(L) : L[i] \in ToSet(L) /\ L[i] \in Block
         /\ \A b \in ToSet(L) : \E i \in 1 .. Len(L) : L[i] = b
<1>1. L \in Seq(Block) /\ Len(L) > 0 /\ L[1] = First
  BY DEF List
<1>2. Len(L) \in Nat \ {0}
  BY <1>1
<1>3. ToSet(L) \subseteq Block /\ \A x : x \in ToSet(L) <=> \E i \in 1 .. Len(L) : L[i] = x
  BY <1>1, ToSetIs
<1>4. 1 \in 1 .. Len(L)
  BY <1>2
<1> QED BY <1>1, <1>2, <1>3, <1>4

\* The places of the records of relations.
LEMMA EntriesIs ==
  ASSUME NEW L, NEW D
  PROVE  /\ \A b \in ToSet(L), s \in Slot : <<b, s>> \in DOMAIN Entries(L, D) <=> D[b].slots[s].rel \in Rel
         /\ \A b, s : <<b, s>> \in DOMAIN Entries(L, D) => /\ b \in ToSet(L) /\ s \in Slot
                                                           /\ Entries(L, D)[<<b, s>>] = D[b].slots[s]
         /\ \A p \in DOMAIN Entries(L, D) :
              /\ p[1] \in ToSet(L) /\ p[2] \in Slot /\ p = <<p[1], p[2]>>
              /\ Entries(L, D)[p] = D[p[1]].slots[p[2]] /\ Entries(L, D)[p].rel \in Rel
<1>1. \A p \in DOMAIN Entries(L, D) :
              /\ p[1] \in ToSet(L) /\ p[2] \in Slot /\ p = <<p[1], p[2]>>
              /\ Entries(L, D)[p] = D[p[1]].slots[p[2]] /\ Entries(L, D)[p].rel \in Rel
  BY DEF Entries
<1>2. \A b \in ToSet(L), s \in Slot : <<b, s>> \in DOMAIN Entries(L, D) <=> D[b].slots[s].rel \in Rel
  BY DEF Entries
<1>3. ASSUME NEW b, NEW s, <<b, s>> \in DOMAIN Entries(L, D)
      PROVE  b \in ToSet(L) /\ s \in Slot /\ Entries(L, D)[<<b, s>>] = D[b].slots[s]
  <2>1. <<b, s>>[1] = b /\ <<b, s>>[2] = s
    OBVIOUS
  <2> QED BY <1>1, <1>3, <2>1
<1> QED BY <1>1, <1>2, <1>3

\* K2 differs from K at p alone
Changed(K, K2, p) ==
  \A q : q # p => (q \in DOMAIN K2 <=> q \in DOMAIN K) /\ (q \in DOMAIN K => K2[q] = K[q])

\* Where the bytes of its blocks are the same, so is the list.
LEMMA SameList ==
  ASSUME NEW L, NEW D, NEW D2, List(L, D), \A b \in ToSet(L) : D2[b] = D[b]
  PROVE  List(L, D2) /\ Entries(L, D2) = Entries(L, D)
<1>1. /\ First \in ToSet(L) /\ \A i \in 1 .. Len(L) : L[i] \in ToSet(L)
      /\ Len(L) \in Nat
  BY ListIs
<1>2. List(L, D2)
  <2>1. \A i \in 2 .. Len(L) : i \in 1 .. Len(L)
    BY <1>1
  <2> QED BY <1>1, <2>1 DEF List
<1>3. Entries(L, D2) = Entries(L, D)
  <2> DEFINE P == {q \in ToSet(L) \X Slot : D[q[1]].slots[q[2]].rel \in Rel}
             P2 == {q \in ToSet(L) \X Slot : D2[q[1]].slots[q[2]].rel \in Rel}
  <2>1. \A q \in ToSet(L) \X Slot : D2[q[1]].slots[q[2]] = D[q[1]].slots[q[2]]
    OBVIOUS
  <2>2. P = P2
    BY <2>1
  <2>3. \A q \in P : D2[q[1]].slots[q[2]] = D[q[1]].slots[q[2]]
    BY <2>1
  <2>4. [p \in P2 |-> D2[p[1]].slots[p[2]]] = [p \in P |-> D[p[1]].slots[p[2]]]
    <3> HIDE DEF P, P2
    <3> QED BY <2>2, <2>3
  <2> QED BY <2>4, Zenon DEF Entries
<1> QED BY <1>2, <1>3

\* slot s of block b is x, and the block not empty
SetsSlot(L, D, D2, b, s, x) ==
  /\ b \in ToSet(L) /\ s \in Slot /\ D[b] \in Bytes
  /\ D2[b] = [D[b] EXCEPT !.slots[s] = x] /\ \A c \in ToSet(L) \ {b} : D2[c] = D[c]
  /\ \E t \in Slot : D2[b].slots[t] # NoRec
  /\ D2[First].slots[1] = OwnRec

\* One slot of a block changes, and the block does not become empty.
LEMMA WriteSlot ==
  ASSUME NEW L, NEW D, NEW D2, List(L, D), NEW b, NEW s, NEW x, SetsSlot(L, D, D2, b, s, x)
  PROVE  /\ List(L, D2) /\ Changed(Entries(L, D), Entries(L, D2), <<b, s>>)
         /\ <<b, s>> \in DOMAIN Entries(L, D2) <=> x.rel \in Rel
         /\ x.rel \in Rel => Entries(L, D2)[<<b, s>>] = x
<1>1. /\ First \in ToSet(L) /\ \A i \in 1 .. Len(L) : L[i] \in ToSet(L)
      /\ Len(L) \in Nat
  BY ListIs
<1>0. /\ b \in ToSet(L) /\ s \in Slot /\ \A c \in ToSet(L) \ {b} : D2[c] = D[c]
      /\ \E t \in Slot : D2[b].slots[t] # NoRec
      /\ D2[First].slots[1] = OwnRec
  BY DEF SetsSlot
<1>2. /\ D2[b].lblock = D[b].lblock /\ D2[b].rblock = D[b].rblock /\ D2[b].slots[s] = x
      /\ \A t \in Slot \ {s} : D2[b].slots[t] = D[b].slots[t]
  BY DEF Bytes, SetsSlot
<1>3. List(L, D2)
  <2>1. \A i \in 1 .. Len(L) : D2[L[i]].lblock = D[L[i]].lblock /\ D2[L[i]].rblock = D[L[i]].rblock
    BY <1>0, <1>1, <1>2
  <2>2. \A i \in 2 .. Len(L) : i \in 1 .. Len(L)
    BY <1>1
  <2>3. ASSUME NEW i \in 2 .. Len(L) PROVE \E t \in Slot : D2[L[i]].slots[t] # NoRec
    <3>1. L[i] \in ToSet(L) /\ \E t \in Slot : D[L[i]].slots[t] # NoRec
      BY <1>1, <2>2 DEF List
    <3>2. CASE L[i] = b
      BY <1>0, <3>2
    <3>3. CASE L[i] # b
      BY <1>0, <3>1, <3>3
    <3> QED BY <3>2, <3>3
  <2>4. \A i \in 2 .. Len(L) : D2[L[i]].lblock = L[i - 1]
    BY <2>1, <2>2 DEF List
  <2>5. \A i \in 1 .. Len(L) : D2[L[i]].rblock = IF i = Len(L) THEN -1 ELSE L[i + 1]
    BY <2>1 DEF List
  <2> QED BY <1>0, <2>3, <2>4, <2>5 DEF List
<1>4. \A c \in ToSet(L), t \in Slot : <<c, t>> # <<b, s>> => D2[c].slots[t] = D[c].slots[t]
  BY <1>0, <1>2
<1> DEFINE K == Entries(L, D)
           K2 == Entries(L, D2)
<1>5. /\ \A c \in ToSet(L), t \in Slot : <<c, t>> \in DOMAIN K <=> D[c].slots[t].rel \in Rel
      /\ \A p \in DOMAIN K : /\ p[1] \in ToSet(L) /\ p[2] \in Slot /\ p = <<p[1], p[2]>>
                             /\ K[p] = D[p[1]].slots[p[2]]
  BY EntriesIs
<1>6. /\ \A c \in ToSet(L), t \in Slot : <<c, t>> \in DOMAIN K2 <=> D2[c].slots[t].rel \in Rel
      /\ \A p \in DOMAIN K2 : /\ p[1] \in ToSet(L) /\ p[2] \in Slot /\ p = <<p[1], p[2]>>
                              /\ K2[p] = D2[p[1]].slots[p[2]]
  BY EntriesIs
<1> HIDE DEF K, K2
<1>7. ASSUME NEW q, q # <<b, s>>
      PROVE  (q \in DOMAIN K2 <=> q \in DOMAIN K) /\ (q \in DOMAIN K => K2[q] = K[q])
  <2>1. ASSUME NEW c \in ToSet(L), NEW t \in Slot, q = <<c, t>>
        PROVE  (q \in DOMAIN K2 <=> q \in DOMAIN K) /\ (q \in DOMAIN K => K2[q] = K[q])
    <3>1. D2[c].slots[t] = D[c].slots[t]
      BY <1>4, <1>7, <2>1
    <3>2. q \in DOMAIN K2 <=> q \in DOMAIN K
      BY <1>5, <1>6, <2>1, <3>1
    <3>3. q[1] = c /\ q[2] = t
      BY <2>1
    <3>4. q \in DOMAIN K => K2[q] = K[q]
      BY <1>5, <1>6, <3>1, <3>2, <3>3
    <3> QED BY <3>2, <3>4
  <2> QED BY <1>5, <1>6, <2>1
<1>8. Changed(K, K2, <<b, s>>)
  BY <1>7 DEF Changed
<1>9. <<b, s>> \in DOMAIN K2 <=> x.rel \in Rel
  BY <1>0, <1>2, <1>6
<1>10. <<b, s>> \in DOMAIN K2 => K2[<<b, s>>] = x
  <2>1. <<b, s>>[1] = b /\ <<b, s>>[2] = s
    OBVIOUS
  <2> QED BY <1>2, <1>6, <2>1
<1> QED BY <1>3, <1>8, <1>9, <1>10 DEF K, K2

\* n, which is not in L, has one record x and is linked behind the last block m
Appends(L, D, D2, n, m, x) ==
  /\ n \in Block \ ToSet(L) /\ x.rel \in Rel /\ m = L[Len(L)] /\ D[m] \in Bytes
  /\ D2[m] = [D[m] EXCEPT !.rblock = n]
  /\ D2[n] = [Plain EXCEPT !.lblock = m, !.slots[1] = x]
  /\ \A c \in ToSet(L) \ {m} : D2[c] = D[c]

\* The end of a list: a block n with one record x.
LEMMA AppendBlock ==
  ASSUME NEW L, NEW D, NEW D2, List(L, D), NEW n, NEW m, NEW x, Appends(L, D, D2, n, m, x)
  PROVE  /\ List(Append(L, n), D2) /\ ToSet(Append(L, n)) = ToSet(L) \cup {n}
         /\ Changed(Entries(L, D), Entries(Append(L, n), D2), <<n, 1>>)
         /\ <<n, 1>> \notin DOMAIN Entries(L, D)
         /\ <<n, 1>> \in DOMAIN Entries(Append(L, n), D2)
         /\ Entries(Append(L, n), D2)[<<n, 1>>] = x
<1> DEFINE L2 == Append(L, n)
           N == Len(L)
           K == Entries(L, D)
           K2 == Entries(L2, D2)
<1>1. /\ L \in Seq(Block) /\ N \in Nat \ {0} /\ First \in ToSet(L)
      /\ \A i \in 1 .. N : L[i] \in ToSet(L) /\ L[i] \in Block
      /\ \A b \in ToSet(L) : \E i \in 1 .. N : L[i] = b
  BY ListIs
<1>16. n \in Block \ ToSet(L) /\ x.rel \in Rel /\ m = L[N]
  BY DEF Appends
<1>2. L2 \in Seq(Block) /\ Len(L2) = N + 1 /\ L2[N + 1] = n /\ \A i \in 1 .. N : L2[i] = L[i]
  BY <1>1, <1>16
<1>0. /\ L[1] = First /\ \A i, j \in 1 .. N : L[i] = L[j] => i = j
      /\ \A i \in 1 .. N : D[L[i]].rblock = IF i = N THEN -1 ELSE L[i + 1]
      /\ \A i \in 2 .. N : D[L[i]].lblock = L[i - 1] /\ \E t \in Slot : D[L[i]].slots[t] # NoRec
  BY DEF List
<1>3. ToSet(L2) = ToSet(L) \cup {n}
  <2> HIDE DEF L2, N
  <2>1. \A y : y \in ToSet(L2) <=> \E i \in 1 .. N + 1 : L2[i] = y
    BY <1>2, ToSetIs
  <2>2. \A i \in 1 .. N + 1 : i \in 1 .. N \/ i = N + 1
    BY <1>1
  <2>3. N + 1 \in 1 .. N + 1 /\ \A i \in 1 .. N : i \in 1 .. N + 1
    BY <1>1
  <2>4. ASSUME NEW y \in ToSet(L2) PROVE y \in ToSet(L) \cup {n}
    BY <1>1, <1>2, <2>1, <2>2
  <2>5. n \in ToSet(L2)
    BY <1>2, <2>1, <2>3
  <2>6. ASSUME NEW y \in ToSet(L) PROVE y \in ToSet(L2)
    BY <1>1, <1>2, <2>1, <2>3
  <2> QED BY <2>4, <2>5, <2>6
<1>4. 1 \in Slot /\ "free" \notin Rel
  BY Sizes, CatalogAssumption
<1>5. x # NoRec
  BY <1>4, <1>16 DEF NoRec
<1>6. /\ D2[n].lblock = m /\ D2[n].rblock = -1 /\ D2[n].slots[1] = x
      /\ \A t \in Slot \ {1} : D2[n].slots[t] = NoRec
  BY <1>4 DEF Plain, Appends
<1>7. m \in ToSet(L) /\ D2[m].lblock = D[m].lblock /\ D2[m].rblock = n /\ D2[m].slots = D[m].slots
  BY <1>1, <1>16 DEF Bytes, Appends
<1>17. \A c \in ToSet(L) \ {m} : D2[c] = D[c]
  BY DEF Appends
<1>8. \A c \in ToSet(L) : D2[c].slots = D[c].slots /\ D2[c].lblock = D[c].lblock
  BY <1>7, <1>17
<1> HIDE DEF L2, N
<1>9. List(L2, D2)
  <2>1. Len(L2) > 0 /\ L2[1] = First
    <3>1. 1 \in 1 .. N /\ N + 1 > 0
      BY <1>1
    <3> QED BY <1>0, <1>2, <3>1
  <2>2. \A i, j \in 1 .. Len(L2) : L2[i] = L2[j] => i = j
    <3> SUFFICES ASSUME NEW i \in 1 .. N + 1, NEW j \in 1 .. N + 1, L2[i] = L2[j] PROVE i = j
      BY <1>2
    <3>1. \A y \in 1 .. N : L2[y] \in ToSet(L) /\ L2[y] # n
      BY <1>1, <1>2, <1>16
    <3>2. \A y \in 1 .. N + 1 : y \in 1 .. N \/ y = N + 1
      BY <1>1
    <3>3. CASE i \in 1 .. N /\ j \in 1 .. N
      BY <1>0, <1>2, <3>3
    <3> QED BY <1>2, <3>1, <3>2, <3>3
  <2>3. \A i \in 1 .. Len(L2) : D2[L2[i]].rblock = IF i = Len(L2) THEN -1 ELSE L2[i + 1]
    <3> SUFFICES ASSUME NEW i \in 1 .. N + 1
                 PROVE  D2[L2[i]].rblock = IF i = N + 1 THEN -1 ELSE L2[i + 1]
      BY <1>2
    <3>1. CASE i = N + 1
      BY <1>2, <1>6, <3>1
    <3>2. CASE i = N
      <4>1. L2[i] = m /\ L2[i + 1] = n /\ i # N + 1
        BY <1>0, <1>1, <1>2, <1>16, <3>2
      <4> QED BY <1>7, <4>1
    <3>3. CASE i \in 1 .. N - 1
      <4>1. i \in 1 .. N /\ i + 1 \in 1 .. N /\ i # N + 1 /\ i # N
        BY <1>1, <3>3
      <4>2. D[L[i]].rblock = L[i + 1]
        BY <1>0, <4>1
      <4>3. L[i] # m
        <5>1. N \in 1 .. N
          BY <1>1
        <5> QED BY <1>0, <1>16, <4>1, <5>1
      <4>4. D2[L[i]] = D[L[i]]
        BY <1>1, <1>17, <4>1, <4>3
      <4>5. L2[i] = L[i] /\ L2[i + 1] = L[i + 1]
        BY <1>2, <4>1
      <4> QED BY <4>1, <4>2, <4>4, <4>5
    <3>4. i = N + 1 \/ i = N \/ i \in 1 .. N - 1
      BY <1>1
    <3> QED BY <3>1, <3>2, <3>3, <3>4
  <2>4. \A i \in 2 .. Len(L2) : D2[L2[i]].lblock = L2[i - 1] /\ \E t \in Slot : D2[L2[i]].slots[t] # NoRec
    <3> SUFFICES ASSUME NEW i \in 2 .. N + 1
                 PROVE  D2[L2[i]].lblock = L2[i - 1] /\ \E t \in Slot : D2[L2[i]].slots[t] # NoRec
      BY <1>2
    <3>1. CASE i = N + 1
      <4>1. L2[i] = n /\ L2[i - 1] = m
        BY <1>0, <1>1, <1>2, <1>16, <3>1
      <4> QED BY <1>4, <1>5, <1>6, <4>1
    <3>2. CASE i \in 2 .. N
      <4>1. i \in 1 .. N /\ i - 1 \in 1 .. N
        BY <1>1, <3>2
      <4>2. D[L[i]].lblock = L[i - 1] /\ \E t \in Slot : D[L[i]].slots[t] # NoRec
        BY <1>0, <3>2
      <4>3. L2[i] = L[i] /\ L2[i - 1] = L[i - 1]
        BY <1>2, <4>1
      <4>4. L[i] \in ToSet(L)
        BY <1>1, <4>1
      <4>5. D2[L[i]].slots = D[L[i]].slots /\ D2[L[i]].lblock = D[L[i]].lblock
        BY <1>8, <4>4
      <4> QED BY <4>2, <4>3, <4>5
    <3>3. i = N + 1 \/ i \in 2 .. N
      BY <1>1
    <3> QED BY <3>1, <3>2, <3>3
  <2>5. D2[First].slots[1] = OwnRec
    BY <1>1, <1>8 DEF List
  <2> QED BY <1>2, <2>1, <2>2, <2>3, <2>4, <2>5 DEF List
<1>10. /\ \A c \in ToSet(L), t \in Slot : <<c, t>> \in DOMAIN K <=> D[c].slots[t].rel \in Rel
       /\ \A p \in DOMAIN K : /\ p[1] \in ToSet(L) /\ p[2] \in Slot /\ p = <<p[1], p[2]>>
                              /\ K[p] = D[p[1]].slots[p[2]]
  BY EntriesIs
<1>11. /\ \A c \in ToSet(L2), t \in Slot : <<c, t>> \in DOMAIN K2 <=> D2[c].slots[t].rel \in Rel
       /\ \A p \in DOMAIN K2 : /\ p[1] \in ToSet(L2) /\ p[2] \in Slot /\ p = <<p[1], p[2]>>
                               /\ K2[p] = D2[p[1]].slots[p[2]]
  BY EntriesIs
<1> HIDE DEF K, K2
<1>12. <<n, 1>> \notin DOMAIN K
  <2>1. <<n, 1>>[1] = n
    OBVIOUS
  <2> QED BY <1>10, <1>16, <2>1
<1>13. <<n, 1>> \in DOMAIN K2 /\ K2[<<n, 1>>] = x
  <2>1. <<n, 1>>[1] = n /\ <<n, 1>>[2] = 1
    OBVIOUS
  <2> QED BY <1>3, <1>4, <1>6, <1>11, <1>16, <2>1
<1>14. ASSUME NEW q, q # <<n, 1>>
       PROVE  (q \in DOMAIN K2 <=> q \in DOMAIN K) /\ (q \in DOMAIN K => K2[q] = K[q])
  <2>1. ASSUME NEW c \in ToSet(L), NEW t \in Slot, q = <<c, t>>
        PROVE  (q \in DOMAIN K2 <=> q \in DOMAIN K) /\ (q \in DOMAIN K => K2[q] = K[q])
    <3>1. D2[c].slots[t] = D[c].slots[t] /\ c \in ToSet(L2)
      BY <1>3, <1>8
    <3>2. q \in DOMAIN K2 <=> q \in DOMAIN K
      BY <1>10, <1>11, <2>1, <3>1
    <3>3. q[1] = c /\ q[2] = t
      BY <2>1
    <3>4. q \in DOMAIN K => K2[q] = K[q]
      BY <1>10, <1>11, <3>1, <3>2, <3>3
    <3> QED BY <3>2, <3>4
  <2>2. ASSUME q \in DOMAIN K2, ~ (q[1] \in ToSet(L)) PROVE FALSE
    <3>1. q[1] = n /\ q[2] \in Slot /\ q = <<q[1], q[2]>>
      BY <1>3, <1>11, <2>2
    <3>2. q[2] # 1
      BY <1>14, <3>1
    <3>3. D2[n].slots[q[2]].rel \in Rel
      BY <1>11, <2>2, <3>1, <1>3
    <3>4. NoRec.rel \notin Rel
      BY <1>4 DEF NoRec
    <3> QED BY <1>6, <3>1, <3>2, <3>3, <3>4
  <2>3. q \in DOMAIN K2 => q[2] \in Slot /\ q = <<q[1], q[2]>>
    BY <1>11
  <2>4. q \in DOMAIN K => q[1] \in ToSet(L) /\ q[2] \in Slot /\ q = <<q[1], q[2]>>
    BY <1>10
  <2> QED BY <2>1, <2>2, <2>3, <2>4
<1>15. Changed(K, K2, <<n, 1>>)
  BY <1>14 DEF Changed
<1> QED BY <1>3, <1>9, <1>12, <1>13, <1>15 DEF K, K2, L2

\* L without its k-th block
Without(L, k) == [i \in 1 .. Len(L) - 1 |-> IF i < k THEN L[i] ELSE L[i + 1]]

LEMMA WithoutIs ==
  ASSUME NEW L \in Seq(Block), \A i, j \in 1 .. Len(L) : L[i] = L[j] => i = j,
         NEW k \in 2 .. Len(L)
  PROVE  /\ Len(L) \in Nat /\ Without(L, k) \in Seq(Block) /\ Len(Without(L, k)) = Len(L) - 1
         /\ \A i \in 1 .. k - 1 : Without(L, k)[i] = L[i]
         /\ \A i \in k .. Len(L) - 1 : Without(L, k)[i] = L[i + 1]
         /\ ToSet(Without(L, k)) = ToSet(L) \ {L[k]}
         /\ \A i, j \in 1 .. Len(Without(L, k)) : Without(L, k)[i] = Without(L, k)[j] => i = j
<1> DEFINE N == Len(L)
           L2 == Without(L, k)
<1>1. N \in Nat /\ N >= 2 /\ k \in Nat /\ k \in 1 .. N /\ \A i \in 1 .. N : L[i] \in Block
  BY LenProperties
<1>2. L2 = [i \in 1 .. N - 1 |-> IF i < k THEN L[i] ELSE L[i + 1]]
  BY DEF Without
<1> HIDE DEF L2, N
<1>3. \A i \in 1 .. N - 1 : /\ L2[i] = IF i < k THEN L[i] ELSE L[i + 1]
                            /\ i \in 1 .. N /\ i + 1 \in 1 .. N
  BY <1>1, <1>2
<1>4. L2 \in Seq(Block) /\ Len(L2) = N - 1
  <2>1. L2 \in [1 .. N - 1 -> Block] /\ N - 1 \in Nat
    BY <1>1, <1>2, <1>3
  <2> QED BY <2>1
<1>5. \A i \in 1 .. k - 1 : L2[i] = L[i]
  BY <1>1, <1>3
<1>6. \A i \in k .. N - 1 : L2[i] = L[i + 1]
  BY <1>1, <1>3
<1>7. ASSUME NEW i \in 1 .. N - 1, NEW j \in 1 .. N - 1, L2[i] = L2[j] PROVE i = j
  BY <1>1, <1>3, <1>7 DEF N
<1>8. \A y : y \in ToSet(L2) <=> \E i \in 1 .. N - 1 : L2[i] = y
  BY <1>4, ToSetIs
<1>9. \A y : y \in ToSet(L) <=> \E i \in 1 .. N : L[i] = y
  BY ToSetIs DEF N
<1>10. ToSet(L2) = ToSet(L) \ {L[k]}
  <2>1. ASSUME NEW i \in 1 .. N - 1 PROVE L2[i] \in ToSet(L) /\ L2[i] # L[k]
    <3>1. CASE i < k
      BY <1>1, <1>3, <1>9, <3>1 DEF N
    <3>2. CASE ~ (i < k)
      BY <1>1, <1>3, <1>9, <3>2 DEF N
    <3> QED BY <3>1, <3>2
  <2>2. ASSUME NEW i \in 1 .. N, L[i] # L[k] PROVE L[i] \in ToSet(L2)
    <3>1. CASE i < k
      <4>1. i \in 1 .. N - 1
        BY <1>1, <3>1
      <4> QED BY <1>3, <1>8, <3>1, <4>1
    <3>2. CASE i > k
      <4>1. i - 1 \in 1 .. N - 1 /\ ~ (i - 1 < k) /\ (i - 1) + 1 = i
        BY <1>1, <3>2
      <4>2. L2[i - 1] = L[i]
        BY <1>3, <4>1
      <4> QED BY <1>8, <4>1, <4>2
    <3> QED BY <1>1, <2>2, <3>1, <3>2
  <2> QED BY <1>8, <1>9, <2>1, <2>2
<1> QED BY <1>1, <1>4, <1>5, <1>6, <1>7, <1>10 DEF N, L2

\* the k-th block is taken out: its neighbours are linked to each other
Removes(L, D, D2, k) ==
  /\ k \in 2 .. Len(L)
  /\ \A c \in ToSet(L) \ {L[k]} :
       /\ D2[c].slots = D[c].slots
       /\ D2[c].rblock = IF c = L[k - 1] THEN D[L[k]].rblock ELSE D[c].rblock
       /\ D2[c].lblock = IF c = D[L[k]].rblock THEN L[k - 1] ELSE D[c].lblock

\* K2 is K without the records in block b
LessBlock(K, K2, b) ==
  /\ \A q : q \in DOMAIN K2 <=> q \in DOMAIN K /\ q[1] # b
  /\ \A q \in DOMAIN K2 : K2[q] = K[q]

\* A list without one of its blocks.
LEMMA RemoveBlock ==
  ASSUME NEW L, NEW D, NEW D2, List(L, D), NEW k, Removes(L, D, D2, k)
  PROVE  /\ List(Without(L, k), D2)
         /\ LessBlock(Entries(L, D), Entries(Without(L, k), D2), L[k])
<1> DEFINE N == Len(L)
           M == Without(L, k)
           b == L[k]
           K == Entries(L, D)
           K2 == Entries(M, D2)
<1>1. /\ L \in Seq(Block) /\ N \in Nat \ {0} /\ First \in ToSet(L)
      /\ \A i \in 1 .. N : L[i] \in ToSet(L) /\ L[i] \in Block
      /\ \A c \in ToSet(L) : \E i \in 1 .. N : L[i] = c
  BY ListIs
<1>2. /\ L[1] = First /\ \A i, j \in 1 .. N : L[i] = L[j] => i = j
      /\ \A i \in 1 .. N : D[L[i]].rblock = IF i = N THEN -1 ELSE L[i + 1]
      /\ \A i \in 2 .. N : D[L[i]].lblock = L[i - 1]
      /\ \A i \in 2 .. N : \E t \in Slot : D[L[i]].slots[t] # NoRec
      /\ D[First].slots[1] = OwnRec
  BY DEF List
<1>3. k \in 2 .. N /\ k \in 1 .. N /\ k - 1 \in 1 .. N /\ k - 1 # k
  BY <1>1 DEF Removes
<1>4. /\ M \in Seq(Block) /\ Len(M) = N - 1
      /\ \A i \in 1 .. k - 1 : M[i] = L[i]
      /\ \A i \in k .. N - 1 : M[i] = L[i + 1]
      /\ ToSet(M) = ToSet(L) \ {b}
      /\ \A i, j \in 1 .. Len(M) : M[i] = M[j] => i = j
  BY <1>1, <1>2, <1>3, WithoutIs
<1>5. \A c \in ToSet(L) \ {b} :
       /\ D2[c].slots = D[c].slots
       /\ D2[c].rblock = IF c = L[k - 1] THEN D[b].rblock ELSE D[c].rblock
       /\ D2[c].lblock = IF c = D[b].rblock THEN L[k - 1] ELSE D[c].lblock
  BY DEF Removes
<1> HIDE DEF N, M, b, K, K2
<1>6. D[b].rblock = IF k = N THEN -1 ELSE L[k + 1]
  BY <1>2, <1>3 DEF b
<1>7. First \in ToSet(M) /\ M[1] = First
  <2>1. 1 \in 1 .. k - 1 /\ 1 \in 1 .. N /\ 1 # k
    BY <1>1, <1>3
  <2>2. M[1] = First
    BY <1>2, <1>4, <2>1
  <2>3. First # b
    BY <1>2, <1>3, <2>1 DEF b
  <2> QED BY <1>1, <1>4, <2>2, <2>3
\* the i-th block of M is the j-th of L
<1>8. ASSUME NEW i \in 1 .. N - 1
      PROVE  \E j \in 1 .. N : /\ j = IF i < k THEN i ELSE i + 1
                               /\ M[i] = L[j] /\ L[j] \in ToSet(L) \ {b}
  <2>1. CASE i < k
    <3>1. i \in 1 .. k - 1 /\ i \in 1 .. N /\ i # k
      BY <1>1, <1>3, <2>1
    <3>2. L[i] \in ToSet(L) /\ L[i] # b
      BY <1>1, <1>2, <1>3, <3>1 DEF b
    <3> QED BY <1>4, <2>1, <3>1, <3>2
  <2>2. CASE ~ (i < k)
    <3>1. i \in k .. N - 1 /\ i + 1 \in 1 .. N /\ i + 1 # k
      BY <1>1, <1>3, <2>2
    <3>2. L[i + 1] \in ToSet(L) /\ L[i + 1] # b
      BY <1>1, <1>2, <1>3, <3>1 DEF b
    <3> QED BY <1>4, <2>2, <3>1, <3>2
  <2> QED BY <2>1, <2>2
<1>9. ASSUME NEW i \in 1 .. N - 1
      PROVE  D2[M[i]].rblock = IF i = N - 1 THEN -1 ELSE M[i + 1]
  <2>1. PICK j \in 1 .. N : /\ j = IF i < k THEN i ELSE i + 1
                            /\ M[i] = L[j] /\ L[j] \in ToSet(L) \ {b}
    BY <1>8
  <2>2. D[L[j]].rblock = IF j = N THEN -1 ELSE L[j + 1]
    BY <1>2, <2>1
  <2>3. L[j] = L[k - 1] <=> j = k - 1
    BY <1>2, <1>3, <2>1
  <2>4. D2[M[i]].rblock = IF j = k - 1 THEN D[b].rblock ELSE D[L[j]].rblock
    BY <1>5, <2>1, <2>3
  <2>5. CASE i = k - 1
    <3>1. j = k - 1 /\ (i = N - 1 <=> k = N)
      BY <1>1, <1>3, <2>1, <2>5
    <3>2. i # N - 1 => i + 1 \in k .. N - 1
      BY <1>1, <1>3, <2>5
    <3>3. i # N - 1 => M[i + 1] = L[k + 1]
      <4>1. i + 1 = k
        BY <1>1, <1>3, <2>5
      <4> QED BY <1>4, <3>2, <4>1
    <3> QED BY <1>6, <2>4, <3>1, <3>3
  <2>6. CASE i < k - 1
    <3>1. j = i /\ j # N /\ i # N - 1 /\ j # k - 1 /\ i + 1 \in 1 .. k - 1
      BY <1>1, <1>3, <2>1, <2>6
    <3>2. M[i + 1] = L[i + 1]
      BY <1>4, <3>1
    <3> QED BY <2>2, <2>4, <3>1, <3>2
  <2>7. CASE i > k - 1
    <3>1. j = i + 1 /\ (j = N <=> i = N - 1) /\ j # k - 1 /\ (i # N - 1 => i + 1 \in k .. N - 1)
      BY <1>1, <1>3, <2>1, <2>7
    <3>2. i # N - 1 => M[i + 1] = L[j + 1]
      BY <1>4, <3>1
    <3> QED BY <2>2, <2>4, <3>1, <3>2
  <2>8. i = k - 1 \/ i < k - 1 \/ i > k - 1
    BY <1>1, <1>3
  <2> QED BY <2>5, <2>6, <2>7, <2>8
<1>10. ASSUME NEW i \in 2 .. N - 1
       PROVE  D2[M[i]].lblock = M[i - 1] /\ \E t \in Slot : D2[M[i]].slots[t] # NoRec
  <2>0. i \in 1 .. N - 1
    BY <1>1
  <2>1. PICK j \in 1 .. N : /\ j = IF i < k THEN i ELSE i + 1
                            /\ M[i] = L[j] /\ L[j] \in ToSet(L) \ {b}
    BY <1>8, <2>0
  <2>2. j \in 2 .. N
    BY <1>1, <1>3, <2>1
  <2>3. \E t \in Slot : D2[M[i]].slots[t] # NoRec
    <3>1. \E t \in Slot : D[L[j]].slots[t] # NoRec
      BY <1>2, <2>2
    <3>2. D2[L[j]].slots = D[L[j]].slots
      BY <1>5, <2>1
    <3> QED BY <2>1, <3>1, <3>2
  <2>4. D[L[j]].lblock = L[j - 1]
    BY <1>2, <2>2
  <2>5. L[j] = D[b].rblock <=> j = k + 1
    <3>1. CASE k = N
      <4>1. D[b].rblock = -1 /\ L[j] \in Block /\ j # k + 1
        BY <1>1, <1>6, <2>1, <3>1
      <4> QED BY <4>1, Sizes
    <3>2. CASE k # N
      <4>1. k + 1 \in 1 .. N /\ D[b].rblock = L[k + 1]
        BY <1>1, <1>3, <1>6, <3>2
      <4> QED BY <1>2, <2>1, <4>1
    <3> QED BY <3>1, <3>2
  <2>6. D2[M[i]].lblock = IF j = k + 1 THEN L[k - 1] ELSE L[j - 1]
    BY <1>5, <2>1, <2>4, <2>5
  <2>7. CASE i = k
    <3>1. j = k + 1 /\ i - 1 = k - 1 /\ i - 1 \in 1 .. k - 1
      BY <1>1, <1>3, <2>1, <2>7
    <3>2. M[i - 1] = L[k - 1]
      BY <1>4, <3>1
    <3> QED BY <2>3, <2>6, <3>1, <3>2
  <2>8. CASE i < k
    <3>1. j = i /\ j # k + 1 /\ i - 1 \in 1 .. k - 1
      BY <1>1, <1>3, <2>1, <2>8
    <3>2. M[i - 1] = L[i - 1]
      BY <1>4, <3>1
    <3> QED BY <2>3, <2>6, <3>1, <3>2
  <2>9. CASE i > k
    <3>1. j = i + 1 /\ j # k + 1 /\ i - 1 \in k .. N - 1 /\ (i - 1) + 1 = j - 1
      BY <1>1, <1>3, <2>1, <2>9
    <3>2. M[i - 1] = L[(i - 1) + 1]
      BY <1>4, <3>1
    <3> QED BY <2>3, <2>6, <3>1, <3>2
  <2>10. i = k \/ i < k \/ i > k
    BY <1>1, <1>3
  <2> QED BY <2>7, <2>8, <2>9, <2>10
<1>11. D2[First].slots[1] = OwnRec
  BY <1>2, <1>4, <1>5, <1>7
<1>12. Len(M) > 0
  BY <1>1, <1>3, <1>4
<1>13. List(M, D2)
  <2>1. \A i \in 1 .. Len(M) : D2[M[i]].rblock = IF i = Len(M) THEN -1 ELSE M[i + 1]
    BY <1>4, <1>9
  <2>2. \A i \in 2 .. Len(M) : D2[M[i]].lblock = M[i - 1]
    BY <1>4, <1>10
  <2>3. \A i \in 2 .. Len(M) : \E t \in Slot : D2[M[i]].slots[t] # NoRec
    BY <1>4, <1>10
  <2> QED BY <1>4, <1>7, <1>11, <1>12, <2>1, <2>2, <2>3 DEF List
<1>14. /\ \A c \in ToSet(L), t \in Slot : <<c, t>> \in DOMAIN K <=> D[c].slots[t].rel \in Rel
       /\ \A p \in DOMAIN K : /\ p[1] \in ToSet(L) /\ p[2] \in Slot /\ p = <<p[1], p[2]>>
                              /\ K[p] = D[p[1]].slots[p[2]]
  BY EntriesIs DEF K
<1>15. /\ \A c \in ToSet(M), t \in Slot : <<c, t>> \in DOMAIN K2 <=> D2[c].slots[t].rel \in Rel
       /\ \A p \in DOMAIN K2 : /\ p[1] \in ToSet(M) /\ p[2] \in Slot /\ p = <<p[1], p[2]>>
                               /\ K2[p] = D2[p[1]].slots[p[2]]
  BY EntriesIs DEF K2
<1>16. \A c \in ToSet(M), t \in Slot : D2[c].slots[t] = D[c].slots[t]
  BY <1>4, <1>5
<1>17. ASSUME NEW q, q \in DOMAIN K, q[1] # b PROVE q \in DOMAIN K2
  <2>1. q[1] \in ToSet(L) /\ q[2] \in Slot /\ q = <<q[1], q[2]>>
    BY <1>14, <1>17
  <2>2. q[1] \in ToSet(M) /\ <<q[1], q[2]>> \in DOMAIN K
    BY <1>4, <1>17, <2>1
  <2>3. D[q[1]].slots[q[2]].rel \in Rel
    BY <1>14, <2>1, <2>2
  <2>4. <<q[1], q[2]>> \in DOMAIN K2
    BY <1>15, <1>16, <2>1, <2>2, <2>3
  <2> QED BY <2>1, <2>4
<1>18. ASSUME NEW q, q \in DOMAIN K2 PROVE q \in DOMAIN K /\ q[1] # b /\ K2[q] = K[q]
  <2>1. /\ q[1] \in ToSet(M) /\ q[2] \in Slot /\ q = <<q[1], q[2]>>
        /\ K2[q] = D2[q[1]].slots[q[2]]
    BY <1>15, <1>18
  <2>2. q[1] \in ToSet(L) /\ q[1] # b /\ <<q[1], q[2]>> \in DOMAIN K2
    BY <1>4, <1>18, <2>1
  <2>3. D2[q[1]].slots[q[2]].rel \in Rel
    BY <1>15, <2>1, <2>2
  <2>4. <<q[1], q[2]>> \in DOMAIN K
    BY <1>14, <1>16, <2>1, <2>2, <2>3
  <2>5. K[q] = D[q[1]].slots[q[2]]
    BY <1>14, <2>1, <2>4
  <2> QED BY <1>16, <2>1, <2>2, <2>4, <2>5
<1>19. LessBlock(K, K2, b)
  BY <1>17, <1>18 DEF LessBlock
<1> QED BY <1>13, <1>19 DEF K, K2, M, b

-----------------------------------------------------------------------------
(* What every step relies on.                                              *)

\* The invariant taken apart.
LEMMA HoldsIs ==
  ASSUME NEW L, NEW D, NEW K, Holds(L, D, K)
  PROVE  /\ Buf \in Buffers /\ Coherent(Buf) /\ Scalars /\ D = Content /\ K = Entries(L, D)
         /\ List(L, D) /\ Catalogued(K) /\ Accounts(L, K) /\ LeavesPlain(D) /\ Counted(K)
         /\ Position(L, D, K)
         /\ alloc \in [Block -> BlockType] /\ Buf.alloc = alloc
         /\ \A b \in Block : D[b] = mem[b] /\ D[b] \in Bytes
         /\ ToSet(L) \subseteq Owned(Buf) /\ \A b : b \in Owned(Buf) <=> b \in Block /\ alloc[b] # "UNUSED_BLK"
<1>1. /\ Buf \in Buffers /\ Coherent(Buf) /\ Scalars /\ D = Content /\ K = Entries(L, D)
      /\ List(L, D) /\ Catalogued(K) /\ Accounts(L, K) /\ LeavesPlain(D) /\ Counted(K)
      /\ Position(L, D, K)
  BY DEF Holds, Sound
<1>2. Buf.alloc = alloc
  BY DEF Buf
<1>3. alloc \in [Block -> BlockType]
  BY <1>1, <1>2 DEF Buffers
<1>4. \A b \in Block : D[b] = mem[b]
  BY <1>1 DEF Content, Buf
<1>5. \A b \in Block : D[b] \in Bytes
  BY <1>1 DEF Content, Buffers
<1>6. \A b : b \in Owned(Buf) <=> b \in Block /\ alloc[b] # "UNUSED_BLK"
  BY <1>2 DEF Owned
<1>7. ToSet(L) \subseteq Owned(Buf)
  <2>1. ToSet(L) \subseteq Block /\ \A b \in ToSet(L) : alloc[b] = "REC"
    BY <1>1, ListIs DEF Accounts
  <2> QED BY <1>6, <2>1
<1> QED BY <1>1, <1>2, <1>3, <1>4, <1>5, <1>6, <1>7

\* A buffer that has the bytes of the owned blocks.
LEMMA KeepsIs ==
  ASSUME NEW L, NEW D, NEW K, Holds(L, D, K), NEW u, Keeps(Buf, u)
  PROVE  /\ u \in Buffers /\ Coherent(u) /\ u.alloc = alloc /\ Owned(u) = Owned(Buf)
         /\ \A c \in Owned(Buf) : c \in Block /\ u.mem[c] = D[c]
<1>1. u.alloc = Buf.alloc /\ Buf.alloc = alloc
  BY HoldsIs DEF Keeps
<1>2. \A c \in Owned(Buf) : c \in Block /\ Buf.mem[c] = D[c]
  BY HoldsIs DEF Owned, Content
<1> QED BY <1>1, <1>2 DEF Keeps, Owned

\* A search that begins in the first block finds all records.
LEMMA FindsAll ==
  ASSUME NEW L, NEW D, NEW K, List(L, D), K = Entries(L, D), NEW r
  PROVE  Finds(L, K, r, First, 1)
<1>1. /\ \A b \in ToSet(L) : \E j \in 1 .. Len(L) : L[j] = b
      /\ 1 \in 1 .. Len(L) /\ First = L[1]
  BY ListIs DEF List
<1>2. \A p \in DOMAIN K : p[1] \in ToSet(L) /\ 1 <= p[2]
  <2>1. \A s \in Slot : 1 <= s
    BY DEF Slot
  <2> QED BY <2>1, EntriesIs
<1>3. Ahead(L, K, r, 1, 1)
  BY <1>1, <1>2 DEF Ahead
<1> QED BY <1>1, <1>3 DEF Finds

\* The relation of a record is a relation.
LEMMA RelOf ==
  ASSUME NEW L, NEW D, NEW p, p \in DOMAIN Entries(L, D)
  PROVE  Entries(L, D)[p].rel \in Rel
BY EntriesIs

\* the bytes are those the list needs, after a step that leaves them
Kept(L, D2, K) ==
  /\ Buf' \in Buffers /\ Coherent(Buf') /\ alloc' = alloc /\ D2 = Content'
  /\ List(L, D2) /\ K = Entries(L, D2) /\ LeavesPlain(D2)'

\* A step that at most loads blocks keeps the list.
LEMMA KeptOk ==
  ASSUME NEW L, NEW D, NEW K, Holds(L, D, K), NEW w, Keeps(Buf, w), SetBuf(w), NEW D2, D2 = Content'
  PROVE  Kept(L, D2, K)
<1>1. /\ w \in Buffers /\ Coherent(w) /\ w.alloc = alloc
      /\ \A c \in Owned(Buf) : w.mem[c] = D[c]
  BY KeepsIs
<1>2. Buf' = w /\ alloc' = alloc
  BY <1>1, BufIs
<1>3. \A b \in Block : D2[b] = w.mem[b]
  BY <1>2 DEF Content
<1>4. \A c \in Owned(Buf) : D2[c] = D[c]
  BY <1>1, <1>3 DEF Owned
<1>5. List(L, D2) /\ K = Entries(L, D2)
  <2>1. \A c \in ToSet(L) : D2[c] = D[c]
    BY <1>4, HoldsIs
  <2> QED BY <2>1, HoldsIs, SameList
<1>6. LeavesPlain(D2)'
  <2>1. \A b \in Block : alloc[b] = "IND_LEAF" => b \in Owned(Buf) /\ D[b].kids = {}
    BY HoldsIs DEF LeavesPlain
  <2> QED BY <1>2, <1>4, <2>1 DEF LeavesPlain
<1> QED BY <1>1, <1>2, <1>5, <1>6 DEF Kept

\* A step that leaves the buffer alone.
LEMMA StillOk ==
  ASSUME NEW L, NEW D, NEW K, Holds(L, D, K), UNCHANGED buffer
  PROVE  Kept(L, D, K) /\ D = Content'
<1>1. Buf' = Buf /\ alloc' = alloc
  BY DEF buffer, Buf
<1>2. Content' = Content
  BY <1>1 DEF Content
<1>3. LeavesPlain(D)'
  BY <1>1, HoldsIs DEF LeavesPlain
<1> QED BY <1>1, <1>2, <1>3, HoldsIs DEF Kept

\* Put together again.
LEMMA HoldsAgain ==
  ASSUME NEW L, NEW D2, NEW K, Kept(L, D2, K), Scalars',
         Catalogued(K)', Accounts(L, K)', Counted(K)', Position(L, D2, K)'
  PROVE  IInv'
<1>1. Holds(L, D2, K)'
  BY DEF Kept, Holds, Sound
<1> QED BY <1>1 DEF IInv

\* The blocks have the same owners when the relations with a record block do.
LEMMA AccountsAgain ==
  ASSUME NEW L, NEW K, Accounts(L, K), alloc' = alloc, Owners' = Owners,
         \A r \in Owners : firstBlk'[r] = firstBlk[r]
  PROVE  Accounts(L, K)'
<1>1. /\ \A b \in ToSet(L) : alloc'[b] = "REC"
      /\ \A b \in Block : alloc'[b] = "REC" => b \in ToSet(L) \/ \E r \in Owners' : firstBlk'[r] = b
  BY DEF Accounts
<1>2. \A r \in Owners' : alloc'[firstBlk'[r]] = "REC" /\ firstBlk'[r] \notin ToSet(L)
  BY DEF Accounts
<1>3. \A r, s \in Owners' : firstBlk'[r] = firstBlk'[s] => r = s
  BY DEF Accounts
<1> QED BY <1>1, <1>2, <1>3 DEF Accounts

-----------------------------------------------------------------------------
(* The steps that leave the list as it is.                                 *)

LEMMA StutterOk ==
  ASSUME IInv, UNCHANGED vars
  PROVE  IInv'
<1>1. PICK L, D, K : Holds(L, D, K)
  BY DEF IInv
<1>2. Kept(L, D, K)
  BY <1>1, StillOk DEF vars, buffer
<1>3. /\ Scalars /\ Catalogued(K) /\ Accounts(L, K) /\ Counted(K) /\ Position(L, D, K)
  BY <1>1, HoldsIs
<1>4. Buf' = Buf
  BY DEF vars, Buf
<1>5. Scalars'
  BY <1>3 DEF vars, Scalars
<1>6. Catalogued(K)'
  BY <1>3 DEF vars, Catalogued
<1>7. Owners' = Owners /\ alloc' = alloc /\ firstBlk' = firstBlk
  BY DEF vars, Owners
<1>8. Accounts(L, K)'
  BY <1>3, <1>7, AccountsAgain
<1>9. Counted(K)'
  BY <1>3 DEF vars, Counted
<1>10. Position(L, D, K)'
  <2>1. InReleased(L, D, K) => InReleased(L, D, K)'
    BY <1>4 DEF vars, InReleased, Buf
  <2> QED BY <1>3, <2>1 DEF vars, Position
<1> QED BY <1>2, <1>5, <1>6, <1>8, <1>9, <1>10, HoldsAgain

LEMMA CreateRelOk ==
  ASSUME IInv, NEW r \in Rel, CreateRel(r)
  PROVE  IInv'
<1>1. PICK L, D, K : Holds(L, D, K)
  BY DEF IInv
<1>2. Kept(L, D, K)
  BY <1>1, StillOk DEF CreateRel, buffer
<1>3. /\ Scalars /\ Catalogued(K) /\ Accounts(L, K) /\ Counted(K) /\ Position(L, D, K)
      /\ K = Entries(L, D) /\ List(L, D)
  BY <1>1, HoldsIs
<1>4. /\ pc = "idle" /\ firstBlk[r] = NotCreated /\ firstBlk' = [firstBlk EXCEPT ![r] = -1]
      /\ pc' = "insert" /\ cur' = r /\ attr' = 1 /\ prev' = -1 /\ at' = <<First, 1>>
      /\ numRecs' = numRecs /\ deleted' = deleted /\ alloc' = alloc
  BY DEF CreateRel, buffer
<1>5. cur = "none" /\ "none" \notin Rel /\ deleted = 0 /\ NumAttrs \in [Rel -> Nat \ {0}] /\ NotCreated = -2
  BY <1>3, <1>4, CatalogAssumption DEF Position, NotCreated
<1>6. firstBlk \in [Rel -> BlockOrNo \cup {NotCreated}] /\ firstBlk'[r] = -1
      /\ \A s \in Rel \ {r} : firstBlk'[s] = firstBlk[s]
  BY <1>3, <1>4 DEF Scalars
<1>7. Scalars'
  <2>1. firstBlk' \in [Rel -> BlockOrNo \cup {NotCreated}]
    BY <1>4, <1>6 DEF BlockOrNo
  <2>2. <<First, 1>> \in BlockOrNo \X (1 .. SLOTS + 1)
    BY Sizes, CatalogAssumption DEF BlockOrNo
  <2> QED BY <1>3, <1>4, <2>1, <2>2 DEF Scalars, BlockOrNo
<1>8. \A p \in DOMAIN K : K[p].rel \in Rel /\ K[p].rel # r
  BY <1>3, <1>4, RelOf DEF Catalogued
<1>9. Catalogued(K)'
  <2>1. \A p \in DOMAIN K : firstBlk'[K[p].rel] # NotCreated
    BY <1>3, <1>6, <1>8 DEF Catalogued
  <2>2. \A s \in Rel : firstBlk'[s] # NotCreated /\ s # cur' => Complete(K, s, NumAttrs[s])
    BY <1>3, <1>4, <1>5, <1>6 DEF Catalogued
  <2>3. Complete(K, cur', attr' - 1)
    BY <1>4 DEF Complete
  <2> QED BY <1>3, <1>4, <1>8, <2>1, <2>2, <2>3 DEF Catalogued
<1>10. Owners' = Owners /\ r \notin Owners
  <2>1. -1 \notin Block /\ NotCreated \notin Block
    BY <1>5 DEF Block
  <2> QED BY <1>4, <1>6, <2>1 DEF Owners
<1>11. Accounts(L, K)'
  <2>1. \A s \in Owners : firstBlk'[s] = firstBlk[s]
    BY <1>6, <1>10 DEF Owners
  <2> QED BY <1>3, <1>4, <1>10, <2>1, AccountsAgain
<1>12. Counted(K)'
  BY <1>3, <1>4 DEF Counted
<1>13. Position(L, D, K)'
  <2>1. First \in ToSet(L) /\ First # -1
    BY <1>3, ListIs, Sizes
  <2>2. at'[1] = First
    BY <1>4
  <2>3. attr' \in 1 .. NumAttrs[cur']
    BY <1>4, <1>5
  <2> QED BY <1>4, <1>5, <1>6, <2>1, <2>2, <2>3 DEF Position
<1> QED BY <1>2, <1>7, <1>9, <1>11, <1>12, <1>13, HoldsAgain

LEMMA ExtendListFullOk ==
  ASSUME IInv, ExtendListFull
  PROVE  IInv'
<1>1. PICK L, D, K : Holds(L, D, K)
  BY DEF IInv
<1>2. Kept(L, D, K)
  BY <1>1, StillOk DEF ExtendListFull, buffer
<1>3. /\ Scalars /\ Catalogued(K) /\ Accounts(L, K) /\ Counted(K) /\ Position(L, D, K)
      /\ K = Entries(L, D) /\ List(L, D)
  BY <1>1, HoldsIs
<1>4. /\ pc = "insert" /\ firstBlk' = firstBlk
      /\ pc' = "search" /\ cur' = cur /\ attr' = 0 /\ prev' = -1 /\ at' = <<First, 1>>
      /\ numRecs' = numRecs /\ deleted' = 0 /\ alloc' = alloc
  BY DEF ExtendListFull, BeginSearch, buffer
<1>5. cur \in Rel /\ firstBlk[cur] = -1 /\ deleted = 0 /\ firstBlk[cur] # NotCreated
  BY <1>3, <1>4 DEF Position
<1>7. Scalars'
  <2>2. <<First, 1>> \in BlockOrNo \X (1 .. SLOTS + 1)
    BY Sizes, CatalogAssumption DEF BlockOrNo
  <2> QED BY <1>3, <1>4, <2>2 DEF Scalars, BlockOrNo
<1>9. Catalogued(K)'
  BY <1>3, <1>4 DEF Catalogued
<1>10. Owners' = Owners
  <2>1. firstBlk[cur] \notin Block
    BY <1>5, Sizes
  <2> QED BY <1>4, <2>1 DEF Owners
<1>11. Accounts(L, K)'
  BY <1>3, <1>4, <1>10, AccountsAgain
<1>12. Counted(K)'
  BY <1>3, <1>4, <1>5 DEF Counted
<1>13. Position(L, D, K)'
  <2>1. Finds(L, K, cur, First, 1)
    BY <1>3, FindsAll
  <2>2. at'[1] = First /\ at'[2] = 1
    BY <1>4
  <2> QED BY <1>4, <1>5, <2>1, <2>2 DEF Position
<1> QED BY <1>2, <1>7, <1>9, <1>11, <1>12, <1>13, HoldsAgain

LEMMA DropEndsOk ==
  ASSUME IInv, DropEnds
  PROVE  IInv'
<1>1. PICK L, D, K : Holds(L, D, K)
  BY DEF IInv
<1>2. Kept(L, D, K)
  BY <1>1, StillOk DEF DropEnds
<1>3. /\ Scalars /\ Catalogued(K) /\ Accounts(L, K) /\ Counted(K) /\ Position(L, D, K)
      /\ K = Entries(L, D) /\ List(L, D)
  BY <1>1, HoldsIs
<1>4. /\ pc = "search" /\ at[1] = -1 /\ firstBlk' = [firstBlk EXCEPT ![cur] = NotCreated]
      /\ numRecs' = numRecs - deleted
      /\ pc' = "idle" /\ cur' = "none" /\ attr' = 0 /\ prev' = -1 /\ at' = <<-1, 1>> /\ deleted' = 0
      /\ alloc' = alloc
  BY DEF DropEnds, Return, buffer
<1>5. /\ cur \in Rel /\ "none" \notin Rel /\ firstBlk \in [Rel -> BlockOrNo \cup {NotCreated}]
      /\ firstBlk'[cur] = NotCreated /\ \A s \in Rel \ {cur} : firstBlk'[s] = firstBlk[s]
  BY <1>3, <1>4, CatalogAssumption DEF Position, Scalars
<1>6. \A p \in DOMAIN K : K[p].rel # cur /\ K[p].rel \in Rel
  <2>1. -1 \notin Block /\ \A k \in 1 .. Len(L) : L[k] \in Block
    BY <1>3, ListIs, Sizes
  <2>2. ~ InReleased(L, D, K) /\ (Finds(L, K, cur, at[1], at[2]) => \A p \in DOMAIN K : K[p].rel # cur)
    BY <1>4, <2>1 DEF InReleased, Finds
  <2>3. \A p \in DOMAIN K : K[p].rel # cur
    BY <1>3, <1>4, <2>2 DEF Position
  <2> QED BY <1>3, <2>3, RelOf
<1>7. Scalars'
  <2>1. firstBlk' \in [Rel -> BlockOrNo \cup {NotCreated}]
    BY <1>4, <1>5
  <2>2. <<-1, 1>> \in BlockOrNo \X (1 .. SLOTS + 1)
    BY CatalogAssumption DEF BlockOrNo
  <2>3. numRecs' \in Nat
    <3>1. IsFiniteSet(DOMAIN K) /\ numRecs = OwnSlots + Cardinality(DOMAIN K) + deleted
      BY <1>3 DEF Counted
    <3>2. Cardinality(DOMAIN K) \in Nat
      BY <3>1, FS_CardinalityType
    <3>3. OwnSlots \in Nat /\ deleted \in Nat
      BY <1>3, CatalogAssumption DEF Scalars
    <3> QED BY <1>4, <3>1, <3>2, <3>3
  <2> QED BY <1>4, <2>1, <2>2, <2>3 DEF Scalars, BlockOrNo
<1>9. Catalogued(K)'
  <2>1. \A p \in DOMAIN K : firstBlk'[K[p].rel] # NotCreated
    BY <1>3, <1>5, <1>6 DEF Catalogued
  <2>2. \A s \in Rel : firstBlk'[s] # NotCreated /\ s # cur' => Complete(K, s, NumAttrs[s])
    BY <1>3, <1>5 DEF Catalogued
  <2> QED BY <1>3, <1>4, <2>1, <2>2 DEF Catalogued
<1>10. Owners' = Owners
  <2>1. NotCreated \notin Block
    BY DEF NotCreated, Block
  <2> QED BY <1>4, <1>5, <2>1 DEF Owners
<1>11. Accounts(L, K)'
  <2>1. \A s \in Owners : firstBlk'[s] = firstBlk[s]
    BY <1>4, <1>5 DEF Owners
  <2> QED BY <1>3, <1>4, <1>10, <2>1, AccountsAgain
<1>12. Counted(K)'
  <2>1. IsFiniteSet(DOMAIN K) /\ numRecs = OwnSlots + Cardinality(DOMAIN K) + deleted
    BY <1>3 DEF Counted
  <2>2. Cardinality(DOMAIN K) \in Nat
    BY <2>1, FS_CardinalityType
  <2>3. OwnSlots \in Nat /\ deleted \in Nat
    BY <1>3, CatalogAssumption DEF Scalars
  <2> QED BY <1>4, <2>1, <2>2, <2>3 DEF Counted
<1>13. Position(L, D, K)'
  BY <1>4 DEF Position
<1> QED BY <1>2, <1>7, <1>9, <1>11, <1>12, <1>13, HoldsAgain

\* The link of a block of the list.
LEMMA NextIs ==
  ASSUME NEW L, NEW D, List(L, D), NEW k \in 1 .. Len(L)
  PROVE  D[L[k]].rblock = IF k = Len(L) THEN -1 ELSE L[k + 1]
BY DEF List

\* Nothing of r in the rest of the k-th block: the search goes on in the next one.
LEMMA FindsNext ==
  ASSUME NEW L, NEW D, NEW K, List(L, D), K = Entries(L, D), NEW r, NEW k \in 1 .. Len(L), NEW s,
         Ahead(L, K, r, k, s),
         \A p \in DOMAIN K : K[p].rel = r /\ p[1] = L[k] => ~ (s <= p[2])
  PROVE  Finds(L, K, r, D[L[k]].rblock, 1)
<1>1. Len(L) \in Nat /\ \A p \in DOMAIN K : 1 <= p[2]
  <2>1. \A t \in Slot : 1 <= t
    BY DEF Slot
  <2> QED BY <2>1, ListIs, EntriesIs
<1>2. \A p \in DOMAIN K : K[p].rel = r => \E j \in k + 1 .. Len(L) : p[1] = L[j]
  <2> SUFFICES ASSUME NEW p \in DOMAIN K, K[p].rel = r PROVE \E j \in k + 1 .. Len(L) : p[1] = L[j]
    OBVIOUS
  <2>1. PICK j \in k .. Len(L) : p[1] = L[j] /\ (j = k => s <= p[2])
    BY DEF Ahead
  <2>2. j # k
    BY <2>1
  <2> QED BY <1>1, <2>1, <2>2
<1>3. CASE k = Len(L)
  <2>1. \A p \in DOMAIN K : K[p].rel # r
    BY <1>1, <1>2, <1>3
  <2>2. D[L[k]].rblock = -1
    BY <1>3, NextIs
  <2> QED BY <2>1, <2>2 DEF Finds
<1>4. CASE k # Len(L)
  <2>1. D[L[k]].rblock = L[k + 1] /\ k + 1 \in 1 .. Len(L)
    BY <1>1, <1>4, NextIs
  <2>2. Ahead(L, K, r, k + 1, 1)
    BY <1>1, <1>2 DEF Ahead
  <2> QED BY <2>1, <2>2 DEF Finds
<1> QED BY <1>3, <1>4

LEMMA linearSearchOk ==
  ASSUME IInv, linearSearch
  PROVE  IInv'
<1>1. PICK L, D, K : Holds(L, D, K)
  BY DEF IInv
<1> DEFINE b == at[1]
           hits == {s \in Slot : s >= at[2] /\ mem[b].slots[s].rel = cur}
<1>2. /\ pc = "search" /\ b # -1 /\ \E u \in Read(Buf, b) : SetBuf(u)
      /\ \/ hits # {} /\ pc' = "delete" /\ at' = <<b, Min(hits)>>
         \/ hits = {} /\ at' = <<mem[b].rblock, 1>> /\ pc' = pc
      /\ firstBlk' = firstBlk /\ numRecs' = numRecs /\ cur' = cur /\ attr' = attr
      /\ prev' = prev /\ deleted' = deleted
  BY Zenon DEF linearSearch
<1>3. /\ Scalars /\ Catalogued(K) /\ Accounts(L, K) /\ Counted(K) /\ Position(L, D, K)
      /\ K = Entries(L, D) /\ List(L, D) /\ Buf \in Buffers /\ Coherent(Buf)
      /\ ToSet(L) \subseteq Owned(Buf)
      /\ \A c \in Block : D[c] = mem[c] /\ D[c] \in Bytes
  BY <1>1, HoldsIs
<1>4. /\ cur \in Rel /\ firstBlk[cur] # NotCreated
      /\ Finds(L, K, cur, b, at[2]) \/ InReleased(L, D, K)
  BY <1>2, <1>3 DEF Position
<1> HIDE DEF b, hits
<1>5. b \in Block /\ mem[b] = D[b]
  <2>1. CASE InReleased(L, D, K)
    BY <1>3, <2>1 DEF InReleased, b
  <2>2. CASE Finds(L, K, cur, b, at[2])
    BY <1>2, <1>3, <2>2, ListIs DEF Finds
  <2> QED BY <1>4, <2>1, <2>2
<1>6. PICK D2 : D2 = Content'
  OBVIOUS
<1>7. Kept(L, D2, K) /\ alloc' = alloc
  <2>1. PICK u \in Read(Buf, b) : SetBuf(u)
    BY <1>2
  <2>2. Keeps(Buf, u)
    BY <1>3, <1>5, ReadOk
  <2> QED BY <1>1, <1>6, <2>1, <2>2, KeptOk DEF Kept
<1>8. hits = {s \in Slot : s >= at[2] /\ D[b].slots[s].rel = cur}
  BY <1>5 DEF hits
<1>9. Slot \subseteq Nat /\ Slot = 1 .. SLOTS /\ SLOTS \in Nat /\ at[2] \in Nat
      /\ at \in BlockOrNo \X (1 .. SLOTS + 1)
  BY <1>3, CatalogAssumption DEF Slot, Scalars
\* a miss in a block of the list
<1>10. ASSUME hits = {} PROVE Finds(L, K, cur, D[b].rblock, 1)
  <2>1. CASE InReleased(L, D, K)
    BY <2>1 DEF InReleased, b
  <2>2. CASE Finds(L, K, cur, b, at[2])
    <3>1. PICK k \in 1 .. Len(L) : b = L[k] /\ Ahead(L, K, cur, k, at[2])
      BY <1>2, <2>2 DEF Finds
    <3>2. \A p \in DOMAIN K : K[p].rel = cur /\ p[1] = L[k] => ~ (at[2] <= p[2])
      <4> SUFFICES ASSUME NEW p \in DOMAIN K, K[p].rel = cur, p[1] = b, at[2] <= p[2] PROVE FALSE
        BY <3>1
      <4>1. p[2] \in Slot /\ D[b].slots[p[2]].rel = cur
        BY <1>3, EntriesIs
      <4> QED BY <1>8, <1>9, <1>10, <4>1
    <3> QED BY <1>3, <3>1, <3>2, FindsNext
  <2> QED BY <1>4, <2>1, <2>2
\* a hit
<1>11. ASSUME hits # {}
       PROVE  /\ <<b, Min(hits)>> \in DOMAIN K /\ K[<<b, Min(hits)>>].rel = cur
              /\ Finds(L, K, cur, b, Min(hits)) /\ Min(hits) \in Slot
  <2>1. Min(hits) \in hits /\ \A s \in hits : Min(hits) <= s
    BY <1>8, <1>9, <1>11, MinIs
  <2>2. Min(hits) \in Slot /\ Min(hits) >= at[2] /\ D[b].slots[Min(hits)].rel = cur
    BY <1>8, <2>1
  <2>3. cur # "free"
    BY <1>4, CatalogAssumption
  <2>4. ~ InReleased(L, D, K)
    BY <2>2, <2>3 DEF InReleased, b, NoRec
  <2>5. PICK k \in 1 .. Len(L) : b = L[k] /\ Ahead(L, K, cur, k, at[2])
    BY <1>2, <1>4, <2>4 DEF Finds
  <2>6. b \in ToSet(L)
    BY <1>3, <2>5, ListIs
  <2>7. <<b, Min(hits)>> \in DOMAIN K /\ K[<<b, Min(hits)>>].rel = cur
    BY <1>3, <1>4, <2>2, <2>6, EntriesIs
  <2>8. Ahead(L, K, cur, k, Min(hits))
    <3> SUFFICES ASSUME NEW p \in DOMAIN K, K[p].rel = cur
                 PROVE  \E j \in k .. Len(L) : p[1] = L[j] /\ (j = k => Min(hits) <= p[2])
      BY DEF Ahead
    <3>1. PICK j \in k .. Len(L) : p[1] = L[j] /\ (j = k => at[2] <= p[2])
      BY <2>5 DEF Ahead
    <3>2. j = k => Min(hits) <= p[2]
      <4> SUFFICES ASSUME j = k PROVE p[2] \in hits
        BY <2>1
      <4>1. p[1] = b /\ at[2] <= p[2] /\ p[2] \in Slot /\ D[p[1]].slots[p[2]].rel = cur
        BY <1>3, <2>5, <3>1, EntriesIs
      <4> QED BY <1>8, <1>9, <4>1
    <3> QED BY <3>1, <3>2
  <2> QED BY <2>2, <2>5, <2>7, <2>8 DEF Finds
<1>12. Scalars'
  <2>1. at' \in BlockOrNo \X (1 .. SLOTS + 1)
    <3>1. CASE hits # {}
      <4>1. at' = <<b, Min(hits)>> /\ Min(hits) \in 1 .. SLOTS + 1 /\ b \in BlockOrNo
        BY <1>2, <1>5, <1>9, <1>11, <3>1 DEF BlockOrNo
      <4> QED BY <4>1
    <3>2. CASE hits = {}
      <4>1. at' = <<D[b].rblock, 1>> /\ D[b].rblock \in BlockOrNo /\ 1 \in 1 .. SLOTS + 1
        BY <1>2, <1>3, <1>5, <1>9, <3>2 DEF Bytes
      <4> QED BY <4>1
    <3> QED BY <3>1, <3>2
  <2> QED BY <1>2, <1>3, <2>1 DEF Scalars
<1>13. Catalogued(K)'
  BY <1>2, <1>3 DEF Catalogued
<1>14. Accounts(L, K)'
  <2>1. Owners' = Owners
    BY <1>2 DEF Owners
  <2> QED BY <1>2, <1>3, <1>7, <2>1, AccountsAgain
<1>15. Counted(K)'
  BY <1>2, <1>3 DEF Counted
<1>16. Position(L, D2, K)'
  <2>1. CASE hits # {}
    <3>1. pc' = "delete" /\ at' = <<b, Min(hits)>> /\ at'[1] = b /\ at'[2] = Min(hits)
      BY <1>2, <2>1
    <3>2. at' \in DOMAIN K /\ K[at'].rel = cur' /\ Finds(L, K, cur', at'[1], at'[2])
      BY <1>2, <1>11, <2>1, <3>1
    <3> QED BY <1>2, <1>4, <3>1, <3>2 DEF Position
  <2>2. CASE hits = {}
    <3>1. pc' = "search" /\ at'[1] = D[b].rblock /\ at'[2] = 1
      BY <1>2, <1>5, <2>2
    <3>2. Finds(L, K, cur', at'[1], at'[2])
      BY <1>2, <1>10, <2>2, <3>1
    <3> QED BY <1>2, <1>4, <3>1, <3>2 DEF Position
  <2> QED BY <2>1, <2>2
<1> QED BY <1>7, <1>12, <1>13, <1>14, <1>15, <1>16, HoldsAgain

-----------------------------------------------------------------------------
(* createRel stores a record.                                              *)

\* K2 is K with a record x at p
Added(K, K2, p, x) ==
  Changed(K, K2, p) /\ p \notin DOMAIN K /\ p \in DOMAIN K2 /\ K2[p] = x

LEMMA AddedIs ==
  ASSUME NEW K, NEW K2, NEW p, NEW x, Added(K, K2, p, x)
  PROVE  /\ DOMAIN K2 = DOMAIN K \cup {p} /\ p \notin DOMAIN K /\ K2[p] = x
         /\ \A q \in DOMAIN K : K2[q] = K[q] /\ q # p
BY DEF Added, Changed

\* where createRel stands after a record
After(L2) ==
  \/ pc' = "idle" /\ cur' = "none"
  \/ pc' = "insert" /\ cur' = cur /\ at' = <<First, 1>> /\ attr' \in 1 .. NumAttrs[cur]

\* The record of the next attribute is in the catalog, and counted.
LEMMA StoredOk ==
  ASSUME NEW L, NEW D, NEW K, Holds(L, D, K), pc = "insert", Stored,
         NEW K2, NEW p, Added(K, K2, p, Rec(cur, attr))
  PROVE  /\ Scalars' /\ Catalogued(K2)' /\ Counted(K2)' /\ Owners' = Owners
         /\ firstBlk' = firstBlk /\ deleted' = 0 /\ After(L)
<1>1. /\ Scalars /\ Catalogued(K) /\ Counted(K) /\ Position(L, D, K) /\ K = Entries(L, D)
  BY HoldsIs
<1>2. /\ cur \in Rel /\ cur # "none" /\ firstBlk[cur] = -1 /\ firstBlk[cur] # NotCreated /\ deleted = 0
      /\ attr \in 1 .. NumAttrs[cur] /\ NumAttrs[cur] \in Nat \ {0} /\ attr \in Nat
  BY <1>1, CatalogAssumption DEF Position
<1>3. /\ numRecs' = numRecs + 1 /\ firstBlk' = firstBlk
      /\ \/ /\ attr = NumAttrs[cur]
            /\ pc' = "idle" /\ cur' = "none" /\ attr' = 0 /\ prev' = -1 /\ at' = <<-1, 1>> /\ deleted' = 0
         \/ /\ attr # NumAttrs[cur] /\ attr' = attr + 1
            /\ prev' = -1 /\ at' = <<First, 1>> /\ pc' = pc /\ cur' = cur /\ deleted' = deleted
  BY DEF Stored, Return
<1>4. /\ DOMAIN K2 = DOMAIN K \cup {p} /\ p \notin DOMAIN K /\ K2[p] = Rec(cur, attr)
      /\ \A q \in DOMAIN K : K2[q] = K[q] /\ q # p
  BY AddedIs
<1>5. K2[p].rel = cur /\ K2[p].attr = attr
  BY <1>4 DEF Rec
<1>6. After(L) /\ deleted' = 0
  BY <1>2, <1>3 DEF After
<1>7. Scalars'
  <2>1. <<-1, 1>> \in BlockOrNo \X (1 .. SLOTS + 1) /\ <<First, 1>> \in BlockOrNo \X (1 .. SLOTS + 1)
    BY Sizes, CatalogAssumption DEF BlockOrNo
  <2>2. -1 \in BlockOrNo
    BY DEF BlockOrNo
  <2> QED BY <1>1, <1>2, <1>3, <2>1, <2>2 DEF Scalars
<1>8. Counted(K2)'
  <2>1. IsFiniteSet(DOMAIN K) /\ numRecs = OwnSlots + Cardinality(DOMAIN K) + deleted
    BY <1>1 DEF Counted
  <2>2. IsFiniteSet(DOMAIN K2) /\ Cardinality(DOMAIN K2) = Cardinality(DOMAIN K) + 1
    BY <1>4, <2>1, FS_AddElement
  <2>3. Cardinality(DOMAIN K) \in Nat /\ OwnSlots \in Nat
    BY <2>1, FS_CardinalityType, CatalogAssumption
  <2> QED BY <1>2, <1>3, <1>6, <2>1, <2>2, <2>3 DEF Counted
\* of the records there were, none is of this attribute
<1>9. \A q \in DOMAIN K : K[q].rel = cur => K[q].attr < attr
  BY <1>1 DEF Catalogued
<1>10. \A q \in DOMAIN K : K[q].rel \in Rel /\ K[q].attr \in 1 .. NumAttrs[K[q].rel] /\ firstBlk[K[q].rel] # NotCreated
  BY <1>1, RelOf DEF Catalogued
<1>11. \A q \in DOMAIN K2 : K2[q].attr \in 1 .. NumAttrs[K2[q].rel] /\ firstBlk'[K2[q].rel] # NotCreated
  BY <1>2, <1>3, <1>4, <1>5, <1>10
<1>12. ASSUME NEW q \in DOMAIN K2, pc' = "insert", K2[q].rel = cur' PROVE K2[q].attr < attr'
  <2>1. cur' = cur /\ attr' = attr + 1
    BY <1>3, <1>12
  <2>2. CASE q = p
    BY <1>2, <1>5, <2>1, <2>2
  <2>3. CASE q \in DOMAIN K
    <3>1. K[q].attr < attr /\ K2[q] = K[q] /\ K[q].attr \in Nat
      BY <1>4, <1>9, <1>10, <1>12, <2>1, <2>3, CatalogAssumption
    <3> QED BY <1>2, <2>1, <3>1
  <2> QED BY <1>4, <2>2, <2>3
<1>13. ASSUME NEW q \in DOMAIN K2, NEW s \in DOMAIN K2, K2[q].rel = K2[s].rel, K2[q].attr = K2[s].attr
       PROVE  q = s
  <2>1. \A t \in DOMAIN K : ~ (K2[t].rel = cur /\ K2[t].attr = attr)
    <3> SUFFICES ASSUME NEW t \in DOMAIN K, K[t].rel = cur, K[t].attr = attr PROVE FALSE
      BY <1>4
    <3>1. attr < attr
      BY <1>9
    <3> QED BY <1>2, <3>1
  <2>2. q \in DOMAIN K /\ s \in DOMAIN K => q = s
    BY <1>1, <1>4, <1>13 DEF Catalogued
  <2> QED BY <1>4, <1>5, <1>13, <2>1, <2>2
<1>14. \A r, n : Complete(K, r, n) => Complete(K2, r, n)
  BY <1>4 DEF Complete
<1>15. Complete(K2, cur, attr)
  <2>1. Complete(K2, cur, attr - 1)
    BY <1>1, <1>14 DEF Catalogued
  <2>2. \A a \in 1 .. attr : a = attr \/ a \in 1 .. attr - 1
    BY <1>2
  <2> QED BY <1>4, <1>5, <2>1, <2>2 DEF Complete
<1>16. ASSUME NEW r \in Rel, firstBlk'[r] # NotCreated, r # cur' PROVE Complete(K2, r, NumAttrs[r])
  <2>1. CASE r = cur
    <3>1. attr = NumAttrs[cur]
      BY <1>3, <1>16, <2>1
    <3> QED BY <1>15, <2>1, <3>1
  <2>2. CASE r # cur
    BY <1>1, <1>3, <1>14, <1>16, <2>2 DEF Catalogued
  <2> QED BY <2>1, <2>2
<1>17. pc' = "insert" => Complete(K2, cur', attr' - 1)
  <2>1. pc' = "insert" => cur' = cur /\ attr' - 1 = attr
    BY <1>2, <1>3
  <2> QED BY <1>15, <2>1
<1>18. Catalogued(K2)'
  BY <1>11, <1>12, <1>13, <1>16, <1>17 DEF Catalogued
<1>19. Owners' = Owners
  BY <1>3 DEF Owners
<1> QED BY <1>3, <1>6, <1>7, <1>8, <1>18, <1>19

\* block n of the list is taken for it, or was taken before
Grows(L, L2, n) ==
  /\ ToSet(L2) = ToSet(L) \cup {n} /\ n \in Block
  /\ n \in ToSet(L) \/ alloc[n] = "UNUSED_BLK"
  /\ \A c \in Block : alloc'[c] = IF c = n THEN "REC" ELSE alloc[c]

\* The blocks keep their owners when a record without index is added.
LEMMA PlacedOk ==
  ASSUME NEW L, NEW D, NEW K, Holds(L, D, K), NEW L2, NEW n, Grows(L, L2, n),
         NEW K2, NEW p, NEW x, Added(K, K2, p, x), x.root = -1,
         Owners' = Owners, firstBlk' = firstBlk
  PROVE  Accounts(L2, K2)'
<1>1. /\ Scalars /\ Accounts(L, K) /\ K = Entries(L, D) /\ List(L, D)
      /\ \A c \in Block : D[c] \in Bytes
  BY HoldsIs
<1>2. /\ DOMAIN K2 = DOMAIN K \cup {p} /\ p \notin DOMAIN K /\ K2[p] = x
      /\ \A q \in DOMAIN K : K2[q] = K[q] /\ q # p
  BY AddedIs
<1>3. /\ \A b \in ToSet(L) : alloc[b] = "REC" /\ b \in Block
      /\ \A r \in Owners : firstBlk[r] \in Block /\ alloc[firstBlk[r]] = "REC" /\ firstBlk[r] \notin ToSet(L)
      /\ \A r, s \in Owners : firstBlk[r] = firstBlk[s] => r = s
      /\ \A b \in Block : alloc[b] = "REC" => b \in ToSet(L) \/ \E r \in Owners : firstBlk[r] = b
      /\ \A q \in DOMAIN K : K[q].root # -1 => alloc[K[q].root] = "IND_LEAF"
      /\ \A q, s \in DOMAIN K : K[q].root = K[s].root /\ K[q].root # -1 => q = s
      /\ \A b \in Block : alloc[b] = "IND_LEAF" => \E q \in DOMAIN K : K[q].root = b
      /\ \A b \in Block : alloc[b] # "IND_INTERNAL"
  BY <1>1, ListIs DEF Accounts, Owners
<1>4. /\ ToSet(L2) = ToSet(L) \cup {n} /\ n \in Block
      /\ n \in ToSet(L) \/ alloc[n] = "UNUSED_BLK"
      /\ \A c \in Block : alloc'[c] = IF c = n THEN "REC" ELSE alloc[c]
  BY DEF Grows
<1>5. \A b \in ToSet(L2) : alloc'[b] = "REC"
  BY <1>3, <1>4
<1>6. \A r \in Owners : firstBlk[r] # n
  BY <1>3, <1>4
<1>7. \A r \in Owners : alloc'[firstBlk[r]] = "REC" /\ firstBlk[r] \notin ToSet(L2)
  BY <1>3, <1>4, <1>6
<1>8. \A b \in Block : alloc'[b] = "REC" => b \in ToSet(L2) \/ \E r \in Owners : firstBlk[r] = b
  BY <1>3, <1>4
<1>9. \A q \in DOMAIN K : K[q].root \in BlockOrNo
  <2>1. \A q \in DOMAIN K : q[1] \in Block /\ q[2] \in Slot /\ K[q] = D[q[1]].slots[q[2]]
    BY <1>1, <1>3, EntriesIs
  <2> QED BY <1>1, <2>1 DEF Bytes, Record
<1>10. \A q \in DOMAIN K2 : K2[q].root # -1 => alloc'[K2[q].root] = "IND_LEAF"
  <2> SUFFICES ASSUME NEW q \in DOMAIN K, K[q].root # -1 PROVE alloc'[K[q].root] = "IND_LEAF"
    BY <1>2
  <2>1. K[q].root \in Block /\ alloc[K[q].root] = "IND_LEAF"
    BY <1>3, <1>9 DEF BlockOrNo
  <2>2. K[q].root # n
    BY <1>3, <1>4, <2>1
  <2> QED BY <1>4, <2>1, <2>2
<1>11. \A q, s \in DOMAIN K2 : K2[q].root = K2[s].root /\ K2[q].root # -1 => q = s
  <2> SUFFICES ASSUME NEW q \in DOMAIN K2, NEW s \in DOMAIN K2, K2[q].root = K2[s].root, K2[q].root # -1
               PROVE  q = s
    OBVIOUS
  <2>1. q \in DOMAIN K /\ s \in DOMAIN K
    BY <1>2
  <2> QED BY <1>2, <1>3, <2>1
<1>12. \A b \in Block : alloc'[b] = "IND_LEAF" => \E q \in DOMAIN K2 : K2[q].root = b
  <2> SUFFICES ASSUME NEW b \in Block, alloc'[b] = "IND_LEAF" PROVE \E q \in DOMAIN K2 : K2[q].root = b
    OBVIOUS
  <2>1. alloc[b] = "IND_LEAF"
    BY <1>4
  <2>2. PICK q \in DOMAIN K : K[q].root = b
    BY <1>3, <2>1
  <2> QED BY <1>2, <2>2
<1>13. \A b \in Block : alloc'[b] # "IND_INTERNAL"
  BY <1>3, <1>4
<1> QED BY <1>3, <1>5, <1>7, <1>8, <1>10, <1>11, <1>12, <1>13 DEF Accounts

\* Put together again, with another list.
LEMMA HoldsNew ==
  ASSUME NEW L2, NEW D2, NEW K2, Buf' \in Buffers, Coherent(Buf'), D2 = Content', K2 = Entries(L2, D2),
         List(L2, D2), Scalars', Catalogued(K2)', Accounts(L2, K2)', LeavesPlain(D2)', Counted(K2)',
         Position(L2, D2, K2)'
  PROVE  IInv'
<1>1. Holds(L2, D2, K2)'
  BY DEF Holds, Sound
<1> QED BY <1>1 DEF IInv

\* Where createRel stands after a record.
LEMMA AfterOk ==
  ASSUME NEW L, NEW D, NEW K, Holds(L, D, K), pc = "insert", firstBlk' = firstBlk, deleted' = 0, After(L),
         NEW L2, NEW D2, NEW K2, List(L2, D2)
  PROVE  Position(L2, D2, K2)'
<1>1. cur \in Rel /\ firstBlk[cur] = -1 /\ firstBlk[cur] # NotCreated
  BY HoldsIs DEF Position
<1>2. First \in ToSet(L2) /\ First # -1
  BY ListIs, Sizes
<1>3. CASE pc' = "idle" /\ cur' = "none"
  BY <1>3 DEF Position
<1>4. CASE pc' = "insert" /\ cur' = cur /\ at' = <<First, 1>> /\ attr' \in 1 .. NumAttrs[cur]
  <2>1. at'[1] = First
    BY <1>4
  <2> QED BY <1>1, <1>2, <1>4, <2>1 DEF Position
<1> QED BY <1>3, <1>4 DEF After

\* Setting a slot of a block.
LEMMA SetSlotIs ==
  ASSUME NEW e \in Bytes, NEW s \in Slot, NEW x
  PROVE  /\ [e EXCEPT !.slots[s] = x].slots[s] = x
         /\ \A t \in Slot \ {s} : [e EXCEPT !.slots[s] = x].slots[t] = e.slots[t]
BY DEF Bytes

LEMMA FindSlotOk ==
  ASSUME IInv, FindSlot
  PROVE  IInv'
<1>1. PICK L, D, K : Holds(L, D, K)
  BY DEF IInv
<1> DEFINE b == at[1]
           block == mem[b]
           free == {s \in Slot : block.slots[s] = NoRec}
           m == Min(free)
           v == [block EXCEPT !.slots[m] = Rec(cur, attr)]
<1>2. /\ pc = "insert" /\ b # -1
      /\ \/ free # {} /\ (\E u \in Read(Buf, b) : SetBuf(Store(u, b, v))) /\ Stored
         \/ /\ free = {} /\ (\E u \in Read(Buf, b) : SetBuf(u)) /\ prev' = b /\ at' = <<block.rblock, 1>>
            /\ firstBlk' = firstBlk /\ numRecs' = numRecs /\ pc' = pc /\ cur' = cur /\ attr' = attr
            /\ deleted' = deleted
  BY Zenon DEF FindSlot
<1>3. /\ Scalars /\ Catalogued(K) /\ Accounts(L, K) /\ Counted(K) /\ Position(L, D, K)
      /\ K = Entries(L, D) /\ List(L, D) /\ Buf \in Buffers /\ Coherent(Buf) /\ LeavesPlain(D)
      /\ ToSet(L) \subseteq Owned(Buf) /\ D = Content
      /\ \A c \in Block : D[c] = mem[c] /\ D[c] \in Bytes
      /\ Buf.alloc = alloc /\ alloc \in [Block -> BlockType]
  BY <1>1, HoldsIs
<1>4. /\ cur \in Rel /\ firstBlk[cur] = -1 /\ firstBlk[cur] # NotCreated /\ attr \in 1 .. NumAttrs[cur]
      /\ b \in ToSet(L) /\ b \in Block /\ b \in Owned(Buf) /\ block = D[b] /\ alloc[b] = "REC"
  <2>1. cur \in Rel /\ firstBlk[cur] = -1 /\ firstBlk[cur] # NotCreated /\ attr \in 1 .. NumAttrs[cur] /\ b \in ToSet(L)
    BY <1>2, <1>3 DEF Position
  <2>2. b \in Block /\ b \in Owned(Buf)
    BY <1>3, <2>1, ListIs
  <2>3. alloc[b] = "REC"
    BY <1>3, <2>1 DEF Accounts
  <2> QED BY <1>3, <2>1, <2>2, <2>3
<1>5. PICK D2 : D2 = Content'
  OBVIOUS
<1>6. Slot \subseteq Nat /\ 1 \in Slot
  BY Sizes
<1> HIDE DEF b, block, m, v
\* the record fits
<1>7. ASSUME free # {}, NEW u \in Read(Buf, b), SetBuf(Store(u, b, v)), Stored
      PROVE  IInv'
  <2>1. m \in free
    BY <1>6, <1>7, MinIs DEF m
  <2>2. m \in Slot /\ D[b].slots[m] = NoRec
    BY <1>4, <2>1
  <2> DEFINE x == Rec(cur, attr)
             w == Store(u, b, v)
  <2>3. x \in Record /\ x # NoRec /\ x.rel = cur /\ x.root = -1
    <3>1. NumAttrs[cur] \in Nat
      BY <1>4, CatalogAssumption
    <3>2. attr \in Nat /\ cur # "free"
      BY <1>3, <1>4, CatalogAssumption DEF Scalars
    <3> QED BY <1>4, <3>2 DEF Rec, Record, BlockOrNo, NoRec
  <2>4. v \in Bytes
    <3>1. D[b] \in Bytes /\ v = [D[b] EXCEPT !.slots[m] = x]
      BY <1>3, <1>4 DEF v
    <3> HIDE DEF x
    <3> QED BY <2>2, <2>3, <3>1 DEF Bytes
  <2>19. /\ u \in Buffers /\ Coherent(u) /\ u.alloc = alloc /\ Owned(u) = Owned(Buf)
         /\ \A c \in Owned(Buf) : u.mem[c] = D[c]
    <3>1. Keeps(Buf, u)
      BY <1>3, <1>4, ReadOk
    <3> QED BY <1>1, <3>1, KeepsIs
  <2>5. Writes(u, w, b, v)
    BY <1>4, <2>4, <2>19, StoreOk
  <2> HIDE DEF w, x
  <2>6. w \in Buffers /\ Coherent(w) /\ w.alloc = alloc /\ w.mem[b] = v /\ \A c \in Owned(Buf) \ {b} : w.mem[c] = D[c]
    BY <2>5, <2>19 DEF Writes
  <2>7. Buf' = w /\ alloc' = alloc
    BY <1>7, <2>6, BufIs DEF w
  <2>8. D2[b] = [D[b] EXCEPT !.slots[m] = x] /\ \A c \in Owned(Buf) \ {b} : D2[c] = D[c]
    <3>1. \A c \in Block : D2[c] = w.mem[c]
      BY <1>5, <2>7 DEF Content
    <3>2. v = [D[b] EXCEPT !.slots[m] = x]
      BY <1>4 DEF v, x
    <3>3. \A c \in Owned(Buf) : c \in Block
      BY DEF Owned
    <3> QED BY <1>4, <2>6, <3>1, <3>2, <3>3
  <2>9. /\ D2[b].slots[m] = x /\ \A t \in Slot \ {m} : D2[b].slots[t] = D[b].slots[t]
    <3>1. D[b] \in Bytes
      BY <1>3, <1>4
    <3>2. m \in Slot
      BY <2>2
    <3>3. /\ [D[b] EXCEPT !.slots[m] = x].slots[m] = x
          /\ \A t \in Slot \ {m} : [D[b] EXCEPT !.slots[m] = x].slots[t] = D[b].slots[t]
      BY <3>1, <3>2, SetSlotIs
    <3>4. D2[b] = [D[b] EXCEPT !.slots[m] = x]
      BY <2>8
    <3> QED BY <3>3, <3>4, Zenon
  <2>10. D2[First].slots[1] = OwnRec
    <3>4. OwnRec # NoRec
      BY DEF OwnRec, NoRec
    <3>5. First \in ToSet(L)
      BY <1>3, ListIs
    <3>1. D[First].slots[1] = OwnRec /\ First \in ToSet(L) /\ OwnRec # NoRec
      BY <1>3, <3>4, <3>5 DEF List
    <3>2. CASE b = First
      <4>1. m # 1
        BY <2>2, <3>1, <3>2
      <4> QED BY <1>6, <2>9, <3>1, <3>2, <4>1
    <3>3. CASE b # First
      <4>1. First \in Owned(Buf) \ {b}
        BY <1>3, <3>1, <3>3
      <4> QED BY <2>8, <3>1, <4>1
    <3> QED BY <3>2, <3>3
  <2> DEFINE K2 == Entries(L, D2)
  <2>11. /\ List(L, D2) /\ Changed(K, K2, <<b, m>>) /\ <<b, m>> \in DOMAIN K2 /\ K2[<<b, m>>] = x
    <3>1. D[b] \in Bytes /\ D2[b] = [D[b] EXCEPT !.slots[m] = x] /\ \A c \in ToSet(L) \ {b} : D2[c] = D[c]
      BY <1>3, <1>4, <2>8
    <3>2. \E t \in Slot : D2[b].slots[t] # NoRec
      BY <2>2, <2>3, <2>9
    <3>3. x.rel \in Rel
      BY <1>4, <2>3
    <3>4. SetsSlot(L, D, D2, b, m, x)
      BY <1>4, <2>2, <2>10, <3>1, <3>2 DEF SetsSlot
    <3> QED BY <1>3, <3>3, <3>4, WriteSlot
  <2>12. <<b, m>> \notin DOMAIN K
    <3>1. NoRec.rel \notin Rel
      BY CatalogAssumption DEF NoRec
    <3> QED BY <1>3, <1>4, <2>2, <3>1, EntriesIs
  <2> HIDE DEF K2
  <2>13. Added(K, K2, <<b, m>>, Rec(cur, attr))
    BY <2>11, <2>12 DEF Added, x
  <2>14. /\ Scalars' /\ Catalogued(K2)' /\ Counted(K2)' /\ Owners' = Owners
         /\ firstBlk' = firstBlk /\ deleted' = 0 /\ After(L)
    BY <1>1, <1>2, <1>7, <2>13, StoredOk
  <2>15. Accounts(L, K2)'
    <3>1. Grows(L, L, b)
      BY <1>4, <2>7 DEF Grows
    <3>2. Rec(cur, attr).root = -1
      BY <2>3 DEF x
    <3> QED BY <1>1, <2>13, <2>14, <3>1, <3>2, PlacedOk
  <2>16. LeavesPlain(D2)'
    <3>1. \A c \in Block : alloc[c] = "IND_LEAF" => c \in Owned(Buf) \ {b} /\ D[c].kids = {}
      BY <1>1, <1>3, <1>4, HoldsIs DEF LeavesPlain
    <3> QED BY <2>7, <2>8, <3>1 DEF LeavesPlain
  <2>17. Position(L, D2, K2)'
    BY <1>1, <1>2, <2>11, <2>14, AfterOk
  <2>18. K2 = Entries(L, D2)
    BY DEF K2
  <2> QED BY <1>5, <2>6, <2>7, <2>11, <2>14, <2>15, <2>16, <2>17, <2>18, HoldsNew
\* the block is full
<1>8. ASSUME NEW u \in Read(Buf, b), SetBuf(u), prev' = b, at' = <<block.rblock, 1>>, firstBlk' = firstBlk,
             numRecs' = numRecs, pc' = pc, cur' = cur, attr' = attr, deleted' = deleted
      PROVE  IInv'
  <2>1. Keeps(Buf, u)
    BY <1>3, <1>4, ReadOk
  <2>2. Kept(L, D2, K) /\ alloc' = alloc
    BY <1>1, <1>5, <1>8, <2>1, KeptOk DEF Kept
  <2>3. D[b].rblock \in BlockOrNo /\ b \in BlockOrNo /\ 1 \in 1 .. SLOTS + 1
    BY <1>3, <1>4, CatalogAssumption DEF Bytes, BlockOrNo
  <2>4. Scalars'
    <3>1. at' \in BlockOrNo \X (1 .. SLOTS + 1)
      BY <1>4, <1>8, <2>3
    <3> QED BY <1>3, <1>8, <2>3, <3>1 DEF Scalars
  <2>5. Catalogued(K)'
    BY <1>3, <1>8 DEF Catalogued
  <2>6. Accounts(L, K)'
    <3>1. Owners' = Owners
      BY <1>8 DEF Owners
    <3> QED BY <1>3, <1>8, <2>2, <3>1, AccountsAgain
  <2>7. Counted(K)'
    BY <1>3, <1>8 DEF Counted
  <2>8. IF at'[1] = -1 THEN prev' = L[Len(L)] ELSE at'[1] \in ToSet(L)
    <3>1. at'[1] = D[b].rblock
      BY <1>4, <1>8
    <3>2. PICK k \in 1 .. Len(L) : L[k] = b
      BY <1>3, <1>4, ListIs
    <3>3. D[b].rblock = IF k = Len(L) THEN -1 ELSE L[k + 1]
      BY <1>3, <3>2, NextIs
    <3>4. k # Len(L) => L[k + 1] \in ToSet(L) /\ L[k + 1] # -1
      <4>1. k # Len(L) => k + 1 \in 1 .. Len(L)
        BY <1>3, ListIs
      <4> QED BY <1>3, <4>1, ListIs, Sizes
    <3> QED BY <1>8, <3>1, <3>2, <3>3, <3>4
  <2>9. Position(L, D2, K)'
    BY <1>2, <1>3, <1>4, <1>8, <2>8 DEF Position
  <2> QED BY <2>2, <2>4, <2>5, <2>6, <2>7, <2>9, HoldsAgain
<1> QED BY <1>2, <1>7, <1>8

LEMMA ExtendListOk ==
  ASSUME IInv, ExtendList
  PROVE  IInv'
<1>1. PICK L, D, K : Holds(L, D, K)
  BY DEF IInv
<1>0. PICK n : n = NextUnused(Buf)
  OBVIOUS
<1> DEFINE x == Rec(cur, attr)
           y == [Plain EXCEPT !.lblock = prev, !.slots[1] = x]
<1>25. PICK u0 \in Replaced(Buf) :
         SetBuf(Store(New(u0, "REC", y), prev, [New(u0, "REC", y).mem[prev] EXCEPT !.rblock = n]))
  BY <1>0, Zenon DEF ExtendList
<1> DEFINE u == New(u0, "REC", y)
           z == [u.mem[prev] EXCEPT !.rblock = n]
           w == Store(u, prev, z)
<1>2. pc = "insert" /\ at[1] = -1 /\ Unused # {} /\ SetBuf(w) /\ Stored
  BY <1>25, Zenon DEF ExtendList
<1>3. /\ Scalars /\ Accounts(L, K) /\ Position(L, D, K)
      /\ K = Entries(L, D) /\ List(L, D) /\ Buf \in Buffers /\ Coherent(Buf) /\ LeavesPlain(D)
      /\ ToSet(L) \subseteq Owned(Buf) /\ D = Content
      /\ \A c \in Block : D[c] = mem[c] /\ D[c] \in Bytes
      /\ Buf.alloc = alloc /\ alloc \in [Block -> BlockType]
  BY <1>1, HoldsIs
<1>4. /\ cur \in Rel /\ prev = L[Len(L)] /\ prev \in ToSet(L) /\ prev \in Block /\ prev \in Owned(Buf)
  <2>1. cur \in Rel /\ prev = L[Len(L)]
    BY <1>2, <1>3 DEF Position
  <2>2. Len(L) \in 1 .. Len(L)
    BY <1>3, ListIs
  <2>3. prev \in ToSet(L)
    BY <1>3, <2>1, <2>2, ListIs
  <2> QED BY <1>3, <2>1, <2>3, ListIs
<1>5. PICK D2 : D2 = Content'
  OBVIOUS
<1>6. Slot \subseteq Nat /\ 1 \in Slot
  BY Sizes
<1>7. x \in Record /\ x.rel = cur /\ x.root = -1
  <2>1. attr \in Nat
    BY <1>3 DEF Scalars
  <2> QED BY <1>4, <2>1 DEF Rec, Record, BlockOrNo
<1> HIDE DEF x
<1>8. y \in Bytes
  <2>1. NoRec \in Record
    BY DEF NoRec, Record, BlockOrNo
  <2>2. Plain \in Bytes
    BY <2>1 DEF Plain, Bytes, BlockOrNo
  <2> QED BY <1>4, <1>6, <1>7, <2>2 DEF Bytes, BlockOrNo
<1> HIDE DEF y, u, z, w
<1>26. /\ u0 \in Buffers /\ Coherent(u0) /\ u0.alloc = alloc /\ Owned(u0) = Owned(Buf)
       /\ \A c \in Owned(Buf) : c \in Block /\ u0.mem[c] = D[c]
  <2>1. Keeps(Buf, u0)
    BY <1>3, ReplacedOk
  <2> QED BY <1>1, <2>1, KeepsIs
<1>9. n \in Block \ Owned(Buf) /\ Allocates(u0, u, n, "REC", y)
  <2>1. Block \ Owned(u0) # {}
    BY <1>2, <1>3, <1>26 DEF Unused, Owned
  <2>2. n = NextUnused(u0)
    BY <1>0, <1>3, <1>26 DEF NextUnused
  <2> QED BY <1>8, <1>26, <2>1, <2>2, NewOk DEF u, BlockType
<1>10. /\ u \in Buffers /\ Coherent(u) /\ u.alloc = [alloc EXCEPT ![n] = "REC"] /\ u.mem[n] = y
       /\ \A c \in Owned(Buf) : u.mem[c] = D[c]
  BY <1>9, <1>26 DEF Allocates
<1>11. Owned(u) = Owned(Buf) \cup {n}
  BY <1>3, <1>9, <1>10 DEF Owned
<1>12. z \in Bytes /\ z = [D[prev] EXCEPT !.rblock = n]
  <2>1. z = [D[prev] EXCEPT !.rblock = n]
    BY <1>4, <1>10 DEF z
  <2>2. D[prev] \in Bytes
    BY <1>3, <1>4
  <2> QED BY <1>9, <2>1, <2>2 DEF Bytes, BlockOrNo
<1>13. Writes(u, w, prev, z)
  BY <1>4, <1>10, <1>11, <1>12, StoreOk DEF w
<1>14. /\ w \in Buffers /\ Coherent(w) /\ w.alloc = [alloc EXCEPT ![n] = "REC"] /\ w.mem[prev] = z
       /\ \A c \in Owned(Buf) \ {prev} : w.mem[c] = D[c]
       /\ w.mem[n] = y
  BY <1>4, <1>9, <1>10, <1>11, <1>13 DEF Writes
<1>15. Buf' = w /\ alloc' = [alloc EXCEPT ![n] = "REC"]
  BY <1>2, <1>14, BufIs
<1>16. /\ D2[prev] = [D[prev] EXCEPT !.rblock = n] /\ D2[n] = y
       /\ \A c \in Owned(Buf) \ {prev} : D2[c] = D[c]
  <2>1. \A c \in Block : D2[c] = w.mem[c]
    BY <1>5, <1>15 DEF Content
  <2>2. \A c \in Owned(Buf) : c \in Block
    BY DEF Owned
  <2> QED BY <1>4, <1>9, <1>12, <1>14, <2>1, <2>2
<1> DEFINE L2 == Append(L, n)
           K2 == Entries(L2, D2)
<1>17. Appends(L, D, D2, n, prev, x)
  <2>1. n \in Block \ ToSet(L) /\ x.rel \in Rel
    BY <1>3, <1>4, <1>7, <1>9
  <2>2. D[prev] \in Bytes /\ D2[n] = [Plain EXCEPT !.lblock = prev, !.slots[1] = x]
    BY <1>3, <1>4, <1>16 DEF y
  <2>3. \A c \in ToSet(L) \ {prev} : D2[c] = D[c]
    BY <1>3, <1>16
  <2> QED BY <1>4, <1>16, <2>1, <2>2, <2>3 DEF Appends
<1>18. /\ List(L2, D2) /\ ToSet(L2) = ToSet(L) \cup {n}
       /\ Changed(K, K2, <<n, 1>>) /\ <<n, 1>> \notin DOMAIN K
       /\ <<n, 1>> \in DOMAIN K2 /\ K2[<<n, 1>>] = x
  BY <1>3, <1>17, AppendBlock
<1> HIDE DEF L2, K2
<1>19. Added(K, K2, <<n, 1>>, Rec(cur, attr))
  BY <1>18 DEF Added, x
<1>20. /\ Scalars' /\ Catalogued(K2)' /\ Counted(K2)' /\ Owners' = Owners
       /\ firstBlk' = firstBlk /\ deleted' = 0 /\ After(L)
  BY <1>1, <1>2, <1>19, StoredOk
<1>21. Accounts(L2, K2)'
  <2>1. alloc[n] = "UNUSED_BLK" /\ \A c \in Block : alloc'[c] = IF c = n THEN "REC" ELSE alloc[c]
    BY <1>3, <1>9, <1>15 DEF Owned
  <2>2. Grows(L, L2, n)
    BY <1>9, <1>18, <2>1 DEF Grows
  <2>3. Rec(cur, attr).root = -1
    BY <1>7 DEF x
  <2> QED BY <1>1, <1>19, <1>20, <2>2, <2>3, PlacedOk
<1>22. LeavesPlain(D2)'
  <2>1. \A c \in Block : alloc[c] = "IND_LEAF" => c \in Owned(Buf) /\ D[c].kids = {}
    BY <1>1, <1>3, HoldsIs DEF LeavesPlain
  <2>2. alloc[prev] = "REC"
    BY <1>3, <1>4 DEF Accounts
  <2>3. \A c \in Block : alloc'[c] = "IND_LEAF" => alloc[c] = "IND_LEAF" /\ c # prev
    BY <1>3, <1>9, <1>15, <2>2
  <2> QED BY <1>16, <2>1, <2>3 DEF LeavesPlain
<1>23. Position(L2, D2, K2)'
  BY <1>1, <1>2, <1>18, <1>20, AfterOk
<1>24. K2 = Entries(L2, D2)
  BY DEF K2
<1> QED BY <1>5, <1>14, <1>15, <1>18, <1>20, <1>21, <1>22, <1>23, <1>24, HoldsNew

-----------------------------------------------------------------------------
(* Steps that give up or take a block and leave the list.                  *)

\* Reading a block of a relation and releasing it.
LEMMA ReleaseOwned ==
  ASSUME NEW L, NEW D, NEW K, Holds(L, D, K), NEW b \in Owned(Buf), b \notin ToSet(L),
         NEW D2, D2 = Content', NEW u \in Read(Buf, b), SetBuf(releaseBlock(u, b))
  PROVE  /\ Buf' \in Buffers /\ Coherent(Buf') /\ alloc' = [alloc EXCEPT ![b] = "UNUSED_BLK"]
         /\ List(L, D2) /\ K = Entries(L, D2) /\ LeavesPlain(D2)'
<1>1. /\ K = Entries(L, D) /\ List(L, D) /\ Buf \in Buffers /\ Coherent(Buf) /\ LeavesPlain(D)
      /\ ToSet(L) \subseteq Owned(Buf) /\ D = Content
      /\ \A c \in Block : D[c] = mem[c] /\ D[c] \in Bytes
      /\ Buf.alloc = alloc /\ alloc \in [Block -> BlockType]
      /\ \A c : c \in Owned(Buf) <=> c \in Block /\ alloc[c] # "UNUSED_BLK"
  BY HoldsIs
<1> DEFINE w == releaseBlock(u, b)
<1>2. u \in Buffers /\ Coherent(u) /\ u.alloc = alloc /\ \A c \in Owned(Buf) : u.mem[c] = D[c]
  <2>1. Keeps(Buf, u)
    BY <1>1, ReadOk
  <2> QED BY <2>1, KeepsIs
<1>3. b \in Block
  BY <1>1
<1>4. Releases(u, w, b)
  BY <1>2, <1>3, releaseOk
<1> HIDE DEF w
<1>5. w \in Buffers /\ Coherent(w) /\ w.alloc = [alloc EXCEPT ![b] = "UNUSED_BLK"] /\ \A c \in Owned(Buf) : w.mem[c] = D[c]
  BY <1>2, <1>4 DEF Releases
<1>6. Buf' = w /\ alloc' = [alloc EXCEPT ![b] = "UNUSED_BLK"]
  BY <1>5, BufIs DEF w
<1>7. \A c \in Owned(Buf) : D2[c] = D[c]
  <2>1. \A c \in Block : D2[c] = w.mem[c]
    BY <1>6 DEF Content
  <2> QED BY <1>1, <1>5, <2>1
<1>8. List(L, D2) /\ K = Entries(L, D2)
  <2>1. \A c \in ToSet(L) : D2[c] = D[c]
    BY <1>1, <1>7
  <2> QED BY <1>1, <2>1, SameList
<1>9. LeavesPlain(D2)'
  <2>1. \A c \in Block : alloc'[c] = "IND_LEAF" => alloc[c] = "IND_LEAF"
    BY <1>1, <1>6
  <2>2. \A c \in Block : alloc[c] = "IND_LEAF" => c \in Owned(Buf) /\ D[c].kids = {}
    BY <1>1 DEF LeavesPlain
  <2> QED BY <1>7, <2>1, <2>2 DEF LeavesPlain
<1> QED BY <1>5, <1>6, <1>8, <1>9

LEMMA DropRelOk ==
  ASSUME IInv, NEW r \in Rel, DropRel(r)
  PROVE  IInv'
<1>1. PICK L, D, K : Holds(L, D, K)
  BY DEF IInv
<1> DEFINE b == firstBlk[r]
<1>2. /\ pc = "idle" /\ b # NotCreated
      /\ IF b = -1 THEN UNCHANGED buffer ELSE \E u \in Read(Buf, b) : SetBuf(releaseBlock(u, b))
      /\ pc' = "search" /\ cur' = r /\ attr' = 0 /\ prev' = -1 /\ at' = <<First, 1>> /\ deleted' = 0
      /\ firstBlk' = firstBlk /\ numRecs' = numRecs
  BY DEF DropRel, BeginSearch
<1>3. /\ Scalars /\ Catalogued(K) /\ Accounts(L, K) /\ Counted(K) /\ Position(L, D, K)
      /\ K = Entries(L, D) /\ List(L, D) /\ alloc \in [Block -> BlockType]
      /\ \A c : c \in Owned(Buf) <=> c \in Block /\ alloc[c] # "UNUSED_BLK"
  BY <1>1, HoldsIs
<1>4. deleted = 0 /\ cur = "none" /\ "none" \notin Rel /\ b \in BlockOrNo \cup {NotCreated}
  BY <1>2, <1>3, CatalogAssumption DEF Position, Scalars
<1>5. Scalars'
  <2>1. <<First, 1>> \in BlockOrNo \X (1 .. SLOTS + 1)
    BY Sizes, CatalogAssumption DEF BlockOrNo
  <2> QED BY <1>2, <1>3, <2>1 DEF Scalars, BlockOrNo
<1>6. Catalogued(K)'
  <2>1. \A s \in Rel : firstBlk'[s] # NotCreated /\ s # cur' => Complete(K, s, NumAttrs[s])
    BY <1>2, <1>3, <1>4 DEF Catalogued
  <2> QED BY <1>2, <1>3, <2>1 DEF Catalogued
<1>7. Counted(K)'
  BY <1>2, <1>3, <1>4 DEF Counted
<1>8. PICK D2 : D2 = Content'
  OBVIOUS
<1>9. \A D3 : Position(L, D3, K)'
  <2>1. Finds(L, K, r, First, 1)
    BY <1>3, FindsAll
  <2>2. at'[1] = First /\ at'[2] = 1
    BY <1>2
  <2> QED BY <1>2, <2>1, <2>2 DEF Position
<1>10. Owners' = Owners \ {r}
  BY <1>2, <1>4 DEF Owners
<1>11. CASE b = -1
  <2>1. UNCHANGED buffer
    BY <1>2, <1>11
  <2>2. Kept(L, D, K)
    BY <1>1, <2>1, StillOk
  <2>3. Owners' = Owners
    BY <1>10, <1>11, Sizes DEF Owners
  <2>4. Accounts(L, K)'
    BY <1>2, <1>3, <2>1, <2>3, AccountsAgain DEF buffer
  <2> QED BY <1>5, <1>6, <1>7, <1>9, <2>2, <2>4, HoldsAgain
<1>12. CASE b # -1
  <2>1. b \in Block /\ r \in Owners
    BY <1>2, <1>4, <1>12 DEF Owners, BlockOrNo
  <2>2. alloc[b] = "REC" /\ b \notin ToSet(L) /\ b \in Owned(Buf)
    <3>1. alloc[b] = "REC" /\ b \notin ToSet(L)
      BY <1>3, <2>1 DEF Accounts
    <3> QED BY <1>3, <2>1, <3>1
  <2>3. PICK u \in Read(Buf, b) : SetBuf(releaseBlock(u, b))
    BY <1>2, <1>12
  <2> HIDE DEF b
  <2>4. /\ Buf' \in Buffers /\ Coherent(Buf') /\ alloc' = [alloc EXCEPT ![b] = "UNUSED_BLK"]
        /\ List(L, D2) /\ K = Entries(L, D2) /\ LeavesPlain(D2)'
    BY <1>1, <1>8, <2>2, <2>3, ReleaseOwned
  <2>5. Accounts(L, K)'
    <3>1. \A c \in Block : alloc'[c] = IF c = b THEN "UNUSED_BLK" ELSE alloc[c]
      BY <1>3, <2>4
    <3>2. \A c \in ToSet(L) : c # b /\ c \in Block
      BY <1>3, <2>2, ListIs
    <3>3. \A s \in Owners \ {r} : firstBlk[s] # b
      BY <1>3, <2>1 DEF Accounts, b
    <3>4. \A c \in ToSet(L) : alloc'[c] = "REC"
      BY <1>3, <3>1, <3>2 DEF Accounts
    <3>5. \A s \in Owners \ {r} : alloc'[firstBlk[s]] = "REC" /\ firstBlk[s] \notin ToSet(L)
      BY <1>3, <3>1, <3>3 DEF Accounts, Owners
    <3>6. \A c \in Block : alloc'[c] = "REC" => c \in ToSet(L) \/ \E s \in Owners \ {r} : firstBlk[s] = c
      <4> SUFFICES ASSUME NEW c \in Block, alloc'[c] = "REC", c \notin ToSet(L)
                   PROVE  \E s \in Owners \ {r} : firstBlk[s] = c
        OBVIOUS
      <4>1. alloc[c] = "REC" /\ c # b
        BY <3>1
      <4>2. PICK s \in Owners : firstBlk[s] = c
        BY <1>3, <4>1 DEF Accounts
      <4>3. s # r
        BY <4>1, <4>2 DEF b
      <4> QED BY <4>2, <4>3
    <3>7. \A c \in Block : alloc'[c] = "IND_LEAF" <=> alloc[c] = "IND_LEAF"
      BY <2>2, <3>1
    <3>8. \A p \in DOMAIN K : K[p].root # -1 => alloc'[K[p].root] = "IND_LEAF"
      <4> SUFFICES ASSUME NEW p \in DOMAIN K, K[p].root # -1 PROVE alloc'[K[p].root] = "IND_LEAF"
        OBVIOUS
      <4>1. alloc[K[p].root] = "IND_LEAF"
        BY <1>3 DEF Accounts
      <4>2. K[p].root # b
        BY <2>2, <4>1
      <4> QED BY <1>3, <2>4, <4>1, <4>2
    <3>9. \A c \in Block : alloc'[c] # "IND_INTERNAL"
      BY <1>3, <3>1 DEF Accounts
    <3>10. \A s, t \in Owners \ {r} : firstBlk[s] = firstBlk[t] => s = t
      BY <1>3 DEF Accounts
    <3>11. \A p, q \in DOMAIN K : K[p].root = K[q].root /\ K[p].root # -1 => p = q
      BY <1>3 DEF Accounts
    <3>12. \A c \in Block : alloc'[c] = "IND_LEAF" => \E p \in DOMAIN K : K[p].root = c
      BY <1>3, <3>7 DEF Accounts
    <3> QED BY <1>2, <1>10, <3>4, <3>5, <3>6, <3>8, <3>9, <3>10, <3>11, <3>12 DEF Accounts
  <2> QED BY <1>5, <1>6, <1>7, <1>8, <1>9, <2>4, <2>5, HoldsNew
<1> QED BY <1>11, <1>12

LEMMA RestartOk ==
  ASSUME IInv, Restart
  PROVE  IInv'
<1>1. PICK L, D, K : Holds(L, D, K)
  BY DEF IInv
<1>2. /\ Scalars /\ Catalogued(K) /\ Accounts(L, K) /\ Counted(K) /\ Position(L, D, K)
      /\ K = Entries(L, D) /\ List(L, D) /\ Buf \in Buffers /\ Coherent(Buf) /\ LeavesPlain(D)
      /\ ToSet(L) \subseteq Owned(Buf) /\ D = Content
      /\ \A c \in Block : D[c] = mem[c] /\ D[c] \in Bytes
      /\ Buf.alloc = alloc /\ alloc \in [Block -> BlockType]
      /\ \A c : c \in Owned(Buf) <=> c \in Block /\ alloc[c] # "UNUSED_BLK"
  BY <1>1, HoldsIs
<1> DEFINE image == [b \in Block |-> IF alloc[b] # "UNUSED_BLK" THEN mem[b] ELSE run[b]]
<1>3. /\ pc = "idle" /\ mem' = image /\ run' = image /\ held' = {}
      /\ UNCHANGED <<alloc, firstBlk, numRecs, pc, cur, attr, prev, at, deleted>>
  BY Zenon DEF Restart
<1>4. mem \in [Block -> Bytes] /\ run \in [Block -> Bytes]
  BY <1>2 DEF Buf, Buffers
<1>5. image \in [Block -> Bytes] /\ \A b \in Owned(Buf) : image[b] = D[b]
  BY <1>2, <1>4
<1> HIDE DEF image
<1>9. PICK D2 : D2 = Content'
  OBVIOUS
<1>11. Buf' = [mem |-> image, run |-> image, alloc |-> alloc, held |-> {}]
  BY <1>3 DEF Buf
<1>13. Buf' \in Buffers /\ Coherent(Buf')
  BY <1>2, <1>5, <1>11 DEF Buffers, Coherent
<1>14. \A b \in Owned(Buf) : D2[b] = D[b]
  BY <1>5, <1>9, <1>11 DEF Content
<1>15. List(L, D2) /\ K = Entries(L, D2)
  <2>1. \A b \in ToSet(L) : D2[b] = D[b]
    BY <1>2, <1>14
  <2> QED BY <1>2, <2>1, SameList
<1>16. Scalars'
  BY <1>2, <1>3 DEF Scalars
<1>17. Catalogued(K)'
  BY <1>2, <1>3 DEF Catalogued
<1>18. Accounts(L, K)'
  <2>1. Owners' = Owners
    BY <1>3 DEF Owners
  <2> QED BY <1>2, <1>3, <2>1, AccountsAgain
<1>19. LeavesPlain(D2)'
  <2>1. \A b \in Block : alloc[b] = "IND_LEAF" => b \in Owned(Buf) /\ D[b].kids = {}
    BY <1>2 DEF LeavesPlain
  <2> QED BY <1>3, <1>14, <2>1 DEF LeavesPlain
<1>20. Counted(K)'
  BY <1>2, <1>3 DEF Counted
<1>21. Position(L, D2, K)'
  BY <1>2, <1>3 DEF Position
<1> QED BY <1>9, <1>13, <1>15, <1>16, <1>17, <1>18, <1>19, <1>20, <1>21, HoldsNew

\* What is written to the run copy is what the block has.
LEMMA EvictOk ==
  ASSUME IInv, NEW b \in Block, Evict(b)
  PROVE  IInv'
<1>1. PICK L, D, K : Holds(L, D, K)
  BY DEF IInv
<1>2. /\ Scalars /\ Catalogued(K) /\ Accounts(L, K) /\ Counted(K) /\ Position(L, D, K)
      /\ K = Entries(L, D) /\ List(L, D) /\ Buf \in Buffers /\ Coherent(Buf) /\ LeavesPlain(D)
      /\ D = Content
  BY <1>1, HoldsIs
<1>3. /\ run' = [run EXCEPT ![b] = mem[b]]
      /\ UNCHANGED <<mem, alloc, held, firstBlk, numRecs, pc, cur, attr, prev, at, deleted>>
  BY DEF Evict
<1>4. Buf' \in Buffers /\ Coherent(Buf') /\ Content' = D
  <2>1. run' \in [Block -> Bytes] /\ mem' = mem /\ alloc' = alloc /\ held' = held
    BY <1>2, <1>3 DEF Buf, Buffers
  <2> QED BY <1>2, <2>1 DEF Buf, Buffers, Coherent, Content
<1>5. LeavesPlain(D)'
  BY <1>2, <1>3 DEF LeavesPlain
<1>6. Kept(L, D, K)
  BY <1>2, <1>3, <1>4, <1>5 DEF Kept
<1>7. Scalars'
  BY <1>2, <1>3 DEF Scalars
<1>8. Catalogued(K)'
  BY <1>2, <1>3 DEF Catalogued
<1>9. Accounts(L, K)'
  <2>1. Owners' = Owners
    BY <1>3 DEF Owners
  <2> QED BY <1>2, <1>3, <2>1, AccountsAgain
<1>10. Counted(K)'
  BY <1>2, <1>3 DEF Counted
<1>11. Position(L, D, K)'
  <2>1. Owned(Buf)' = Owned(Buf)
    BY <1>3 DEF Owned, Buf
  <2>2. InReleased(L, D, K) => InReleased(L, D, K)'
    BY <1>3, <2>1 DEF InReleased
  <2> QED BY <1>2, <1>3, <2>2 DEF Position
<1> QED BY <1>6, <1>7, <1>8, <1>9, <1>10, <1>11, HoldsAgain

-----------------------------------------------------------------------------
(* deleteRelation frees a slot.                                            *)

\* z has the bytes of u but for the neighbours l and r of a block
Unlinked(u, z, l, r) ==
  /\ z \in Buffers /\ Coherent(z) /\ z.alloc = u.alloc
  /\ z.mem[l] = [u.mem[l] EXCEPT !.rblock = r]
  /\ r # -1 => z.mem[r] = [u.mem[r] EXCEPT !.lblock = l]
  /\ \A c \in Owned(u) \ {l, r} : z.mem[c] = u.mem[c]

\* The neighbours l and r are linked to each other.
LEMMA UnlinkOk ==
  ASSUME NEW u \in Buffers, Coherent(u), NEW block, NEW l, NEW r, l = block.lblock, r = block.rblock,
         l \in Owned(u), r # -1 => r \in Owned(u) \ {l}
  PROVE  Unlinked(u, Unlink(u, block), l, r)
<1> DEFINE x == [u.mem[l] EXCEPT !.rblock = r]
           v == Store(u, l, x)
           y == [v.mem[r] EXCEPT !.lblock = l]
           z == Store(v, r, y)
<1>1. Unlink(u, block) = IF r = -1 THEN v ELSE z
  BY DEF Unlink
<1>2. l \in Block /\ r \in BlockOrNo /\ (r # -1 => r \in Block /\ r # l) /\ l \in BlockOrNo
  BY DEF Owned, BlockOrNo
<1>3. x \in Bytes
  <2>1. u.mem[l] \in Bytes
    BY <1>2 DEF Buffers
  <2> QED BY <1>2, <2>1 DEF Bytes
<1> HIDE DEF x
<1>4. Writes(u, v, l, x)
  BY <1>3, StoreOk
<1> HIDE DEF v
<1>5. /\ v \in Buffers /\ Coherent(v) /\ v.alloc = u.alloc /\ v.mem[l] = x
      /\ \A c \in Owned(u) \ {l} : v.mem[c] = u.mem[c]
      /\ Owned(v) = Owned(u)
  BY <1>4 DEF Writes, Owned
<1>6. CASE r = -1
  BY <1>1, <1>5, <1>6 DEF Unlinked, x
<1>7. CASE r # -1
  <2>1. r \in Owned(v) /\ r # l /\ r \in Block /\ v.mem[r] = u.mem[r]
    BY <1>2, <1>5, <1>7
  <2>2. y \in Bytes
    <3>1. v.mem[r] \in Bytes
      BY <1>5, <2>1 DEF Buffers
    <3> QED BY <1>2, <3>1 DEF Bytes
  <2>3. y = [u.mem[r] EXCEPT !.lblock = l]
    BY <2>1
  <2> HIDE DEF y
  <2>4. Writes(v, z, r, y)
    BY <1>5, <2>1, <2>2, StoreOk
  <2> HIDE DEF z
  <2>5. /\ z \in Buffers /\ Coherent(z) /\ z.alloc = u.alloc /\ z.mem[r] = y
        /\ \A c \in Owned(u) \ {r} : z.mem[c] = v.mem[c]
    BY <1>5, <2>4 DEF Writes
  <2>6. z.mem[l] = x /\ \A c \in Owned(u) \ {l, r} : z.mem[c] = u.mem[c]
    BY <1>5, <2>1, <2>5
  <2>7. Unlinked(u, z, l, r)
    BY <2>3, <2>5, <2>6 DEF Unlinked, x
  <2> QED BY <1>1, <1>7, <2>7
<1> QED BY <1>6, <1>7

\* K2 is K without the record at p
Dropped(K, K2, p) == DOMAIN K2 = DOMAIN K \ {p} /\ \A q \in DOMAIN K2 : K2[q] = K[q]

\* the bytes of u
ContentOf(u) == u.mem

\* the record at hand is in slot s of block b, the k-th of the list
AtHand(L, D, K, b, s, k) ==
  /\ Holds(L, D, K) /\ pc = "delete" /\ at = <<b, s>> /\ k \in 1 .. Len(L) /\ b = L[k]
  /\ Ahead(L, K, cur, k, s)

\* so slot s of block b of the list has a record of a relation
InSlot(L, D, K, b, s) ==
  /\ b \in ToSet(L) /\ b \in Block /\ b \in Owned(Buf) /\ s \in Slot /\ alloc[b] = "REC"
  /\ <<b, s>> \in DOMAIN K /\ D[b].slots[s] = K[<<b, s>>] /\ D[b].slots[s].rel \in Rel
  /\ cur \in Rel
  /\ b = First => s # 1

LEMMA AtHandIs ==
  ASSUME NEW L, NEW D, NEW K, NEW b, NEW s, NEW k, AtHand(L, D, K, b, s, k)
  PROVE  InSlot(L, D, K, b, s)
<1>1. /\ Accounts(L, K) /\ Position(L, D, K) /\ K = Entries(L, D) /\ List(L, D)
      /\ ToSet(L) \subseteq Owned(Buf)
  BY HoldsIs DEF AtHand
<1>2. at = <<b, s>> /\ <<b, s>> \in DOMAIN K /\ cur \in Rel
  BY <1>1 DEF AtHand, Position
<1>3. b \in ToSet(L) /\ s \in Slot /\ K[<<b, s>>] = D[b].slots[s]
  BY <1>1, <1>2, EntriesIs
<1>4. K[<<b, s>>].rel \in Rel
  BY <1>1, <1>2, EntriesIs
<1>5. alloc[b] = "REC" /\ b \in Owned(Buf) /\ b \in Block
  BY <1>1, <1>3, ListIs DEF Accounts
<1>6. b = First => s # 1
  <2>1. D[First].slots[1] = OwnRec /\ OwnRec.rel \notin Rel
    BY <1>1, CatalogAssumption DEF List, OwnRec
  <2> QED BY <1>3, <1>4, <2>1
<1> QED BY <1>2, <1>3, <1>4, <1>5, <1>6 DEF InSlot

\* y are the bytes x with slot s free
FreeIn(x, s, y) ==
  /\ y \in Bytes /\ y.lblock = x.lblock /\ y.rblock = x.rblock /\ y.slots[s] = NoRec
  /\ \A t \in Slot \ {s} : y.slots[t] = x.slots[t]

LEMMA FreedIs ==
  ASSUME NEW x \in Bytes, NEW s \in Slot
  PROVE  FreeIn(x, s, [x EXCEPT !.slots[s] = NoRec])
<1>1. NoRec \in Record
  BY DEF NoRec, Record, BlockOrNo
<1> HIDE DEF NoRec
<1> QED BY <1>1 DEF Bytes, FreeIn

\* slot s is the only one of block b in use
Empties(D, b, s) == \A t \in Slot : [D[b] EXCEPT !.slots[s] = NoRec].slots[t] = NoRec

\* what is left of the list when others stay in the block
Stays(L, D, K, w, D2, K2, b, s) ==
  /\ w \in Buffers /\ Coherent(w) /\ w.alloc = alloc /\ List(L, D2)
  /\ Dropped(K, K2, <<b, s>>) /\ Finds(L, K2, cur, b, s + 1)
  /\ \A c \in Owned(Buf) : alloc[c] = "IND_LEAF" => D2[c] = D[c]

\* The slot is freed, and others of the block are in use.
LEMMA StaysOk ==
  ASSUME NEW L, NEW D, NEW K, NEW b, NEW s, NEW k, AtHand(L, D, K, b, s, k),
         NEW u, Keeps(Buf, u), NEW w, w = FreeSlot(u, b, s), NEW D2, D2 = ContentOf(w), NEW K2, K2 = Entries(L, D2),
         ~ Empties(D, b, s)
  PROVE  Stays(L, D, K, w, D2, K2, b, s)
<1>0. /\ u \in Buffers /\ Coherent(u) /\ u.alloc = alloc /\ Owned(u) = Owned(Buf)
      /\ \A c \in Owned(Buf) : c \in Block /\ u.mem[c] = D[c]
  BY KeepsIs DEF AtHand
<1>1. /\ K = Entries(L, D) /\ List(L, D) /\ Buf \in Buffers /\ Coherent(Buf) /\ Accounts(L, K)
      /\ ToSet(L) \subseteq Owned(Buf) /\ Buf.alloc = alloc
      /\ \A c \in Block : D[c] = mem[c] /\ D[c] \in Bytes
  BY HoldsIs DEF AtHand
<1>2. /\ b \in ToSet(L) /\ b \in Block /\ b \in Owned(Buf) /\ s \in Slot /\ alloc[b] = "REC"
      /\ <<b, s>> \in DOMAIN K /\ D[b].slots[s].rel \in Rel /\ cur \in Rel /\ (b = First => s # 1)
  <2>1. InSlot(L, D, K, b, s)
    BY AtHandIs
  <2> QED BY <2>1 DEF InSlot
<1>3. k \in 1 .. Len(L) /\ b = L[k] /\ Ahead(L, K, cur, k, s)
  BY DEF AtHand
<1>14. PICK y : y = [D[b] EXCEPT !.slots[s] = NoRec]
  OBVIOUS
<1> DEFINE v == Store(u, b, y)
<1>4. w = v /\ \E t \in Slot : y.slots[t] # NoRec
  <2>1. y = [u.mem[b] EXCEPT !.slots[s] = NoRec]
    BY <1>0, <1>2, <1>14
  <2>2. \E t \in Slot : y.slots[t] # NoRec
    BY <1>14 DEF Empties
  <2> QED BY <2>1, <2>2 DEF FreeSlot
<1>5. /\ y \in Bytes /\ y.slots[s] = NoRec /\ \A t \in Slot \ {s} : y.slots[t] = D[b].slots[t]
  <2>1. D[b] \in Bytes
    BY <1>1, <1>2
  <2>2. FreeIn(D[b], s, y)
    BY <1>2, <1>14, <2>1, FreedIs
  <2> QED BY <2>2 DEF FreeIn
<1>6. Writes(u, w, b, y)
  BY <1>0, <1>2, <1>4, <1>5, StoreOk
<1> HIDE DEF v
<1>7. /\ w \in Buffers /\ Coherent(w) /\ w.alloc = alloc /\ D2[b] = y
      /\ \A c \in Owned(Buf) \ {b} : D2[c] = D[c]
  BY <1>0, <1>6 DEF Writes, ContentOf
<1>8. D2[First].slots[1] = OwnRec
  <2>1. D[First].slots[1] = OwnRec /\ First \in ToSet(L) /\ 1 \in Slot
    BY <1>1, ListIs, Sizes DEF List
  <2>2. CASE b = First
    BY <1>2, <1>5, <1>7, <2>1, <2>2
  <2>3. CASE b # First
    BY <1>1, <1>7, <2>1, <2>3
  <2> QED BY <2>2, <2>3
<1>9. SetsSlot(L, D, D2, b, s, NoRec)
  <2>1. D[b] \in Bytes /\ \A c \in ToSet(L) \ {b} : D2[c] = D[c]
    BY <1>1, <1>2, <1>7
  <2> QED BY <1>2, <1>4, <1>7, <1>8, <1>14, <2>1 DEF SetsSlot
<1>10. /\ List(L, D2) /\ Changed(K, K2, <<b, s>>) /\ <<b, s>> \notin DOMAIN K2
  <2>1. NoRec.rel \notin Rel
    BY CatalogAssumption DEF NoRec
  <2> HIDE DEF NoRec
  <2> QED BY <1>1, <1>9, <2>1, WriteSlot
<1>11. Dropped(K, K2, <<b, s>>)
  BY <1>2, <1>10 DEF Changed, Dropped
<1>12. Finds(L, K2, cur, b, s + 1)
  <2>1. \A p \in DOMAIN K2 : p \in DOMAIN K /\ p # <<b, s>> /\ K2[p] = K[p]
    BY <1>11 DEF Dropped
  <2>2. Ahead(L, K2, cur, k, s + 1)
    <3> SUFFICES ASSUME NEW p \in DOMAIN K2, K2[p].rel = cur
                 PROVE  \E j \in k .. Len(L) : p[1] = L[j] /\ (j = k => s + 1 <= p[2])
      BY DEF Ahead
    <3>1. PICK j \in k .. Len(L) : p[1] = L[j] /\ (j = k => s <= p[2])
      BY <1>3, <2>1 DEF Ahead
    <3>2. p[2] \in Slot /\ p = <<p[1], p[2]>>
      BY <1>1, <2>1, EntriesIs
    <3>3. j = k => p[2] # s
      BY <1>3, <2>1, <3>1, <3>2
    <3>4. s \in Nat /\ p[2] \in Nat
      BY <1>2, <3>2, Sizes
    <3>5. j = k => s + 1 <= p[2]
      BY <3>1, <3>3, <3>4
    <3> QED BY <3>1, <3>5
  <2> QED BY <1>3, <2>2 DEF Finds
<1>13. \A c \in Owned(Buf) : alloc[c] = "IND_LEAF" => D2[c] = D[c]
  BY <1>2, <1>7
<1> QED BY <1>7, <1>10, <1>11, <1>12, <1>13 DEF Stays

\* what is left of the list when the block is taken out, released, and a frame still has it
BlockGoes(L, D, K, w, D2, L2, K2, b, s) ==
  /\ w \in Buffers /\ Coherent(w) /\ w.alloc = [alloc EXCEPT ![b] = "UNUSED_BLK"] /\ List(L2, D2)
  /\ ToSet(L2) = ToSet(L) \ {b} /\ Dropped(K, K2, <<b, s>>)
  /\ b \in w.held /\ \A t \in Slot : D2[b].slots[t] = NoRec
  /\ Finds(L2, K2, cur, D2[b].rblock, 1)
  /\ \A c \in Owned(Buf) : alloc[c] = "IND_LEAF" => D2[c] = D[c]

\* the bytes when the block is empty: it is linked out and released
Emptied(L, D, D2, w, b, s, k) ==
  /\ w \in Buffers /\ Coherent(w) /\ w.alloc = [alloc EXCEPT ![b] = "UNUSED_BLK"]
  /\ b \in w.held /\ Removes(L, D, D2, k) /\ FreeIn(D[b], s, D2[b])
  /\ \A t \in Slot : D2[b].slots[t] = NoRec
  /\ \A c \in Owned(Buf) \ ToSet(L) : D2[c] = D[c]

LEMMA EmptyBytes ==
  ASSUME NEW L, NEW D, NEW K, NEW b, NEW s, NEW k, AtHand(L, D, K, b, s, k),
         NEW u, Keeps(Buf, u), NEW w, w = FreeSlot(u, b, s), NEW D2, D2 = ContentOf(w), Empties(D, b, s)
  PROVE  Emptied(L, D, D2, w, b, s, k)
<1>0. /\ u \in Buffers /\ Coherent(u) /\ u.alloc = alloc /\ Owned(u) = Owned(Buf)
      /\ \A c \in Owned(Buf) : c \in Block /\ u.mem[c] = D[c]
  BY KeepsIs DEF AtHand
<1>1. /\ K = Entries(L, D) /\ List(L, D) /\ Buf \in Buffers /\ Coherent(Buf) /\ Accounts(L, K)
      /\ ToSet(L) \subseteq Owned(Buf) /\ Buf.alloc = alloc
      /\ \A c \in Block : D[c] = mem[c] /\ D[c] \in Bytes
  BY HoldsIs DEF AtHand
<1>2. /\ b \in ToSet(L) /\ b \in Block /\ b \in Owned(Buf) /\ s \in Slot
      /\ b = First => s # 1
  <2>1. InSlot(L, D, K, b, s)
    BY AtHandIs
  <2> QED BY <2>1 DEF InSlot
<1>3. k \in 1 .. Len(L) /\ b = L[k] /\ Len(L) \in Nat /\ L[1] = First
  BY <1>1, ListIs DEF AtHand, List
<1>4. PICK y : y = [D[b] EXCEPT !.slots[s] = NoRec]
  OBVIOUS
<1>5. FreeIn(D[b], s, y) /\ \A t \in Slot : y.slots[t] = NoRec
  <2>1. D[b] \in Bytes
    BY <1>1, <1>2
  <2> QED BY <1>2, <1>4, <2>1, FreedIs DEF Empties
<1>6. y \in Bytes /\ y.lblock = D[b].lblock /\ y.rblock = D[b].rblock
  BY <1>5 DEF FreeIn
\* it is not the first block
<1>7. k \in 2 .. Len(L)
  <2>1. D[First].slots[1] = OwnRec /\ 1 \in Slot
    BY <1>1, Sizes DEF List
  <2>2. OwnRec # NoRec
    BY DEF OwnRec, NoRec
  <2>3. b # First
    <3> SUFFICES ASSUME b = First PROVE FALSE
      OBVIOUS
    <3>1. y.slots[1] = D[b].slots[1]
      BY <1>2, <1>5, <2>1 DEF FreeIn
    <3> QED BY <1>5, <2>1, <2>2, <3>1
  <2> QED BY <1>3, <2>3
<1> DEFINE l == L[k - 1]
           r == D[b].rblock
           v == Store(u, b, y)
           z == Unlink(v, y)
<1>8. /\ l = D[b].lblock /\ r = IF k = Len(L) THEN -1 ELSE L[k + 1]
      /\ l \in ToSet(L) /\ l # b /\ r # b /\ (r # -1 => r \in ToSet(L) /\ r # l)
  <2>1. l = D[b].lblock /\ r = IF k = Len(L) THEN -1 ELSE L[k + 1]
    BY <1>1, <1>3, <1>7 DEF List
  <2>2. k - 1 \in 1 .. Len(L) /\ (k # Len(L) => k + 1 \in 1 .. Len(L))
    BY <1>3, <1>7
  <2>3. \A i, j \in 1 .. Len(L) : L[i] = L[j] => i = j
    BY <1>1 DEF List
  <2>4. l \in ToSet(L) /\ (k # Len(L) => L[k + 1] \in ToSet(L) /\ L[k + 1] # -1)
    BY <1>1, <2>2, ListIs, Sizes
  <2>5. k - 1 # k /\ k + 1 # k /\ k - 1 # k + 1
    BY <1>3
  <2>6. l # b
    BY <1>3, <2>2, <2>3, <2>5
  <2>7. k # Len(L) => L[k + 1] # b /\ L[k + 1] # l
    BY <1>3, <2>2, <2>3, <2>5
  <2>8. b # -1
    BY <1>2, Sizes
  <2> QED BY <2>1, <2>4, <2>6, <2>7, <2>8
<1>9. w = releaseBlock(z, b)
  <2>1. y = [u.mem[b] EXCEPT !.slots[s] = NoRec]
    BY <1>0, <1>2, <1>4
  <2> QED BY <1>5, <2>1 DEF FreeSlot
<1> HIDE DEF l, r, z
<1>10. Writes(u, v, b, y)
  BY <1>0, <1>2, <1>6, StoreOk
<1> HIDE DEF v
<1>11. /\ v \in Buffers /\ Coherent(v) /\ v.alloc = alloc /\ v.mem[b] = y
       /\ \A c \in Owned(Buf) \ {b} : v.mem[c] = D[c]
       /\ Owned(v) = Owned(Buf)
  <2>1. v.alloc = u.alloc
    BY <1>10 DEF Writes
  <2>2. Owned(v) = Owned(u)
    BY <2>1 DEF Owned
  <2> QED BY <1>0, <1>10, <2>2 DEF Writes
<1>12. Unlinked(v, z, l, r)
  <2>1. l \in Owned(v) /\ (r # -1 => r \in Owned(v) \ {l})
    BY <1>1, <1>2, <1>8, <1>11
  <2>2. l = y.lblock /\ r = y.rblock
    BY <1>6, <1>8 DEF r
  <2> QED BY <1>11, <2>1, <2>2, UnlinkOk DEF z
<1>13. Releases(z, w, b)
  BY <1>2, <1>9, <1>12, releaseOk DEF Unlinked
<1>14. /\ w \in Buffers /\ Coherent(w) /\ w.alloc = [alloc EXCEPT ![b] = "UNUSED_BLK"]
       /\ b \in w.held /\ w.mem = z.mem
  BY <1>11, <1>12, <1>13 DEF Releases, Unlinked
<1>15. /\ D2[b] = y /\ D2[l] = [D[l] EXCEPT !.rblock = r]
       /\ r # -1 => D2[r] = [D[r] EXCEPT !.lblock = l]
       /\ \A c \in Owned(Buf) \ {b, l, r} : D2[c] = D[c]
  <2>1. \A c \in Block : D2[c] = z.mem[c]
    BY <1>14 DEF ContentOf
  <2>2. l \in Block /\ l \in Owned(Buf) /\ (r # -1 => r \in Block /\ r \in Owned(Buf))
    BY <1>1, <1>8, ListIs
  <2>3. \A c \in Owned(Buf) : c \in Block
    BY DEF Owned
  <2>4. v.mem[l] = D[l] /\ (r # -1 => v.mem[r] = D[r])
    BY <1>8, <1>11, <2>2
  <2>5. z.mem[l] = [v.mem[l] EXCEPT !.rblock = r]
    BY <1>12 DEF Unlinked
  <2>6. r # -1 => z.mem[r] = [v.mem[r] EXCEPT !.lblock = l]
    BY <1>12 DEF Unlinked
  <2>7. \A c \in Owned(Buf) \ {l, r} : z.mem[c] = v.mem[c]
    BY <1>11, <1>12 DEF Unlinked
  <2>8. D2[b] = y
    BY <1>2, <1>8, <1>11, <2>1, <2>7
  <2>9. D2[l] = [D[l] EXCEPT !.rblock = r]
    BY <2>1, <2>2, <2>4, <2>5
  <2>10. r # -1 => D2[r] = [D[r] EXCEPT !.lblock = l]
    BY <2>1, <2>2, <2>4, <2>6
  <2>11. \A c \in Owned(Buf) \ {b, l, r} : D2[c] = D[c]
    BY <1>11, <2>1, <2>3, <2>7
  <2> QED BY <2>8, <2>9, <2>10, <2>11
<1>16. Removes(L, D, D2, k)
  <2> SUFFICES ASSUME NEW c \in ToSet(L) \ {b}
               PROVE  /\ D2[c].slots = D[c].slots
                      /\ D2[c].rblock = IF c = l THEN r ELSE D[c].rblock
                      /\ D2[c].lblock = IF c = r THEN l ELSE D[c].lblock
    BY <1>3, <1>7 DEF Removes, l, r
  <2>1. D[c] \in Bytes /\ c # -1
    BY <1>1, ListIs, Sizes
  <2>2. CASE c = l
    <3>1. D2[c] = [D[c] EXCEPT !.rblock = r] /\ c # r
      BY <1>8, <1>15, <2>1, <2>2
    <3> QED BY <2>1, <2>2, <3>1 DEF Bytes
  <2>3. CASE c = r
    <3>1. D2[c] = [D[c] EXCEPT !.lblock = l] /\ c # l
      BY <1>8, <1>15, <2>1, <2>3
    <3> QED BY <2>1, <2>3, <3>1 DEF Bytes
  <2>4. CASE c # l /\ c # r
    BY <1>1, <1>15, <2>4
  <2> QED BY <2>2, <2>3, <2>4
<1>17. \A c \in Owned(Buf) \ ToSet(L) : D2[c] = D[c]
  <2> SUFFICES ASSUME NEW c \in Owned(Buf) \ ToSet(L) PROVE D2[c] = D[c]
    OBVIOUS
  <2>1. c # b /\ c # l /\ (r # -1 => c # r) /\ c # -1
    BY <1>2, <1>8, Sizes DEF Owned
  <2> QED BY <1>15, <2>1
<1> QED BY <1>5, <1>14, <1>15, <1>16, <1>17 DEF Emptied

\* The block of the slot becomes empty.
LEMMA EmptyOk ==
  ASSUME NEW L, NEW D, NEW K, NEW b, NEW s, NEW k, AtHand(L, D, K, b, s, k),
         NEW u, Keeps(Buf, u), NEW w, w = FreeSlot(u, b, s), NEW D2, D2 = ContentOf(w), Empties(D, b, s),
         NEW L2, L2 = Without(L, k), NEW K2, K2 = Entries(L2, D2)
  PROVE  BlockGoes(L, D, K, w, D2, L2, K2, b, s)
<1>1. K = Entries(L, D) /\ List(L, D) /\ Accounts(L, K)
  BY HoldsIs DEF AtHand
<1>2. /\ b \in ToSet(L) /\ b \in Block /\ s \in Slot /\ <<b, s>> \in DOMAIN K
  <2>1. InSlot(L, D, K, b, s)
    BY AtHandIs
  <2> QED BY <2>1 DEF InSlot
<1>3. k \in 1 .. Len(L) /\ b = L[k] /\ Ahead(L, K, cur, k, s)
  BY DEF AtHand
<1>12. Emptied(L, D, D2, w, b, s, k)
  BY EmptyBytes
<1>4. /\ Removes(L, D, D2, k) /\ FreeIn(D[b], s, D2[b])
      /\ \A t \in Slot : D2[b].slots[t] = NoRec
      /\ \A c \in Owned(Buf) \ ToSet(L) : D2[c] = D[c]
  BY <1>12 DEF Emptied
<1>5. /\ List(L2, D2) /\ \A q : q \in DOMAIN K2 <=> q \in DOMAIN K /\ q[1] # L[k]
      /\ \A q \in DOMAIN K2 : K2[q] = K[q]
  <2>1. Removes(L, D, D2, k) /\ List(L, D)
    BY <1>1, <1>4
  <2>2. /\ List(Without(L, k), D2)
        /\ LessBlock(Entries(L, D), Entries(Without(L, k), D2), L[k])
    BY <2>1, RemoveBlock
  <2> QED BY <1>1, <2>2 DEF LessBlock
<1>6. /\ Len(L) \in Nat /\ Len(L2) = Len(L) - 1 /\ k \in 2 .. Len(L)
      /\ \A i \in k .. Len(L) - 1 : L2[i] = L[i + 1]
      /\ ToSet(L2) = ToSet(L) \ {b}
  <2>1. k \in 2 .. Len(L)
    BY <1>4 DEF Removes
  <2> QED BY <1>1, <1>3, <2>1, WithoutIs DEF List
<1>7. Dropped(K, K2, <<b, s>>)
  <2>1. \A q \in DOMAIN K : q[1] = b => q = <<b, s>>
    <3> SUFFICES ASSUME NEW q \in DOMAIN K, q[1] = b, q # <<b, s>> PROVE FALSE
      OBVIOUS
    <3>1. q[2] \in Slot /\ q = <<q[1], q[2]>> /\ K[q] = D[b].slots[q[2]] /\ K[q].rel \in Rel
      BY <1>1, EntriesIs
    <3>2. q[2] # s
      BY <3>1
    <3>3. D2[b].slots[q[2]] = D[b].slots[q[2]]
      BY <1>4, <3>1, <3>2 DEF FreeIn
    <3>4. NoRec.rel \notin Rel
      BY CatalogAssumption DEF NoRec
    <3> QED BY <1>4, <3>1, <3>3, <3>4
  <2>2. <<b, s>>[1] = b
    OBVIOUS
  <2>3. \A q : q \in DOMAIN K2 <=> q \in DOMAIN K /\ q # <<b, s>>
    BY <1>3, <1>5, <2>1, <2>2
  <2>4. DOMAIN K2 = DOMAIN K \ {<<b, s>>}
    BY <2>3
  <2> QED BY <1>5, <2>4 DEF Dropped
\* what is left for the search lies behind the block
<1>8. ASSUME NEW p \in DOMAIN K2, K2[p].rel = cur
      PROVE  \E j \in k .. Len(L2) : p[1] = L2[j]
  <2>1. p \in DOMAIN K /\ p[1] # L[k] /\ K[p].rel = cur
    BY <1>5, <1>8
  <2>2. PICK j \in k .. Len(L) : p[1] = L[j]
    BY <1>3, <2>1 DEF Ahead
  <2>3. j # k
    BY <2>1, <2>2
  <2>4. j - 1 \in k .. Len(L) - 1 /\ (j - 1) + 1 = j
    BY <1>6, <2>3
  <2>5. L2[j - 1] = L[j]
    BY <1>6, <2>4
  <2> QED BY <1>6, <2>2, <2>4, <2>5
<1>9. \A p \in DOMAIN K2 : 1 <= p[2]
  <2>1. \A t \in Slot : 1 <= t
    BY DEF Slot
  <2> QED BY <2>1, EntriesIs
<1>10. Finds(L2, K2, cur, D2[b].rblock, 1)
  <2>1. D2[b].rblock = IF k = Len(L) THEN -1 ELSE L[k + 1]
    BY <1>1, <1>3, <1>4, NextIs DEF FreeIn
  <2>2. CASE k = Len(L)
    <3>1. \A p \in DOMAIN K2 : K2[p].rel # cur
      BY <1>6, <1>8, <2>2
    <3> QED BY <2>1, <2>2, <3>1 DEF Finds
  <2>3. CASE k # Len(L)
    <3>1. k \in 1 .. Len(L2) /\ L2[k] = L[k + 1]
      BY <1>6, <2>3
    <3>2. Ahead(L2, K2, cur, k, 1)
      BY <1>8, <1>9 DEF Ahead
    <3> QED BY <2>1, <2>3, <3>1, <3>2 DEF Finds
  <2> QED BY <2>2, <2>3
<1>11. \A c \in Owned(Buf) : alloc[c] = "IND_LEAF" => D2[c] = D[c]
  BY <1>1, <1>4 DEF Accounts
<1> QED BY <1>4, <1>5, <1>6, <1>7, <1>10, <1>11, <1>12 DEF BlockGoes, Emptied

\* w has the bytes of u, and block c is unused if it is one
Destroyed(u, w, c) ==
  /\ w \in Buffers /\ Coherent(w) /\ w.mem = u.mem /\ u.held \subseteq w.held
  /\ \A b \in Block : w.alloc[b] = IF b = c THEN "UNUSED_BLK" ELSE u.alloc[b]

\* bPlusDestroy of an index of one leaf, or of none.
LEMMA DestroyOk ==
  ASSUME NEW u \in Buffers, Coherent(u), NEW c, c # -1 => c \in Block /\ u.alloc[c] = "IND_LEAF",
         NEW w \in bPlusDestroy(u, c)
  PROVE  Destroyed(u, w, c)
<1>1. CASE c = -1
  <2>1. bPlusDestroy(u, -1) = {u}
    BY SMT DEF bPlusDestroy
  <2>3. w = u
    BY <1>1, <2>1
  <2>2. \A b \in Block : b # c
    BY <1>1, Sizes
  <2> QED BY <2>2, <2>3 DEF Destroyed
<1>2. CASE c # -1
  <2>1. w = releaseBlock(u, c)
    BY <1>2 DEF bPlusDestroy
  <2>2. Releases(u, w, c)
    BY <1>2, <2>1, releaseOk
  <2>3. u.alloc \in [Block -> BlockType]
    BY DEF Buffers
  <2> QED BY <1>2, <2>2, <2>3 DEF Destroyed, Releases
<1> QED BY <1>1, <1>2

\* the blocks G of the list and the root of the record at p are given up
GivesUp(L, L2, K, p, G) ==
  /\ G \subseteq ToSet(L) /\ ToSet(L2) = ToSet(L) \ G
  /\ \A c \in Block : alloc'[c] = IF c \in G \/ c = K[p].root THEN "UNUSED_BLK" ELSE alloc[c]

\* The blocks keep their owners when a record goes, with its index.
LEMMA GoneOk ==
  ASSUME NEW L, NEW D, NEW K, Holds(L, D, K), NEW p \in DOMAIN K, NEW K2, Dropped(K, K2, p),
         NEW L2, NEW G, GivesUp(L, L2, K, p, G), Owners' = Owners, firstBlk' = firstBlk
  PROVE  Accounts(L2, K2)'
<1>1. /\ Accounts(L, K) /\ K = Entries(L, D) /\ List(L, D)
      /\ \A c \in Block : D[c] \in Bytes
  BY HoldsIs
<1>2. DOMAIN K2 = DOMAIN K \ {p} /\ \A q \in DOMAIN K2 : K2[q] = K[q]
  BY DEF Dropped
<1>3. /\ \A b \in ToSet(L) : alloc[b] = "REC" /\ b \in Block
      /\ \A r \in Owners : firstBlk[r] \in Block /\ alloc[firstBlk[r]] = "REC" /\ firstBlk[r] \notin ToSet(L)
      /\ \A r, s \in Owners : firstBlk[r] = firstBlk[s] => r = s
      /\ \A b \in Block : alloc[b] = "REC" => b \in ToSet(L) \/ \E r \in Owners : firstBlk[r] = b
      /\ \A q \in DOMAIN K : K[q].root # -1 => alloc[K[q].root] = "IND_LEAF"
      /\ \A q, s \in DOMAIN K : K[q].root = K[s].root /\ K[q].root # -1 => q = s
      /\ \A b \in Block : alloc[b] = "IND_LEAF" => \E q \in DOMAIN K : K[q].root = b
      /\ \A b \in Block : alloc[b] # "IND_INTERNAL"
  BY <1>1, ListIs DEF Accounts, Owners
<1>4. /\ G \subseteq ToSet(L) /\ ToSet(L2) = ToSet(L) \ G
      /\ \A c \in Block : alloc'[c] = IF c \in G \/ c = K[p].root THEN "UNUSED_BLK" ELSE alloc[c]
  BY DEF GivesUp
<1>5. \A q \in DOMAIN K : K[q].root \in BlockOrNo
  <2>1. \A q \in DOMAIN K : q[1] \in Block /\ q[2] \in Slot /\ K[q] = D[q[1]].slots[q[2]]
    BY <1>1, <1>3, EntriesIs
  <2> QED BY <1>1, <2>1 DEF Bytes, Record
<1>6. \A c \in Block : alloc[c] = "REC" => c # K[p].root
  <2> SUFFICES ASSUME NEW c \in Block, alloc[c] = "REC", c = K[p].root PROVE FALSE
    OBVIOUS
  <2>1. c # -1
    BY Sizes
  <2> QED BY <1>3, <2>1
<1>7. \A b \in ToSet(L2) : alloc'[b] = "REC"
  BY <1>3, <1>4, <1>6
<1>8. \A r \in Owners : alloc'[firstBlk[r]] = "REC" /\ firstBlk[r] \notin ToSet(L2)
  BY <1>3, <1>4, <1>6
<1>9. \A b \in Block : alloc'[b] = "REC" => b \in ToSet(L2) \/ \E r \in Owners : firstBlk[r] = b
  BY <1>3, <1>4
<1>10. \A q \in DOMAIN K2 : K2[q].root # -1 => alloc'[K2[q].root] = "IND_LEAF"
  <2> SUFFICES ASSUME NEW q \in DOMAIN K, q # p, K[q].root # -1 PROVE alloc'[K[q].root] = "IND_LEAF"
    BY <1>2
  <2>1. K[q].root \in Block /\ alloc[K[q].root] = "IND_LEAF"
    BY <1>3, <1>5 DEF BlockOrNo
  <2>2. K[q].root \notin G
    BY <1>3, <1>4, <2>1
  <2>3. K[q].root # K[p].root
    BY <1>3
  <2> QED BY <1>4, <2>1, <2>2, <2>3
<1>11. \A q, s \in DOMAIN K2 : K2[q].root = K2[s].root /\ K2[q].root # -1 => q = s
  BY <1>2, <1>3
<1>12. \A b \in Block : alloc'[b] = "IND_LEAF" => \E q \in DOMAIN K2 : K2[q].root = b
  <2> SUFFICES ASSUME NEW b \in Block, alloc'[b] = "IND_LEAF" PROVE \E q \in DOMAIN K2 : K2[q].root = b
    OBVIOUS
  <2>1. alloc[b] = "IND_LEAF" /\ b # K[p].root
    BY <1>4
  <2>2. PICK q \in DOMAIN K : K[q].root = b
    BY <1>3, <2>1
  <2>3. q # p
    BY <2>1, <2>2
  <2> QED BY <1>2, <2>2, <2>3
<1>13. \A b \in Block : alloc'[b] # "IND_INTERNAL"
  BY <1>3, <1>4
<1> QED BY <1>3, <1>7, <1>8, <1>9, <1>10, <1>11, <1>12, <1>13 DEF Accounts

LEMMA DeleteAttrOk ==
  ASSUME IInv, DeleteAttr
  PROVE  IInv'
<1>1. PICK L, D, K : Holds(L, D, K)
  BY DEF IInv
<1>2. PICK b, s : b = at[1] /\ s = at[2]
  OBVIOUS
<1>25. PICK u0 \in Read(Buf, b) : \E w \in bPlusDestroy(FreeSlot(u0, b, s), mem[b].slots[s].root) : SetBuf(w)
  BY <1>2 DEF DeleteAttr
<1>3. PICK u, c : u = FreeSlot(u0, b, s) /\ c = mem[b].slots[s].root
  OBVIOUS
<1>12. PICK w \in bPlusDestroy(u, c) : SetBuf(w)
  BY <1>3, <1>25
<1>4. /\ pc = "delete" /\ deleted' = deleted + 1
      /\ pc' = "search" /\ at' = <<b, s + 1>>
      /\ firstBlk' = firstBlk /\ numRecs' = numRecs /\ cur' = cur /\ attr' = attr /\ prev' = prev
  BY <1>2 DEF DeleteAttr
<1>5. /\ Scalars /\ Catalogued(K) /\ Counted(K) /\ Position(L, D, K) /\ Accounts(L, K)
      /\ K = Entries(L, D) /\ List(L, D) /\ LeavesPlain(D)
      /\ \A i \in Block : D[i] = mem[i] /\ D[i] \in Bytes
      /\ alloc \in [Block -> BlockType]
      /\ \A i : i \in Owned(Buf) <=> i \in Block /\ alloc[i] # "UNUSED_BLK"
  BY <1>1, HoldsIs
<1>6. at = <<b, s>> /\ at \in DOMAIN K /\ K[at].rel = cur /\ Finds(L, K, cur, b, s) /\ cur \in Rel /\ firstBlk[cur] # NotCreated
  <2>1. at = <<b, s>>
    BY <1>2, <1>5 DEF Scalars
  <2> QED BY <1>2, <1>4, <1>5, <2>1 DEF Position
<1>7. PICK k : AtHand(L, D, K, b, s, k)
  <2>1. b # -1
    <3>1. at[1] \in ToSet(L)
      BY <1>5, <1>6, EntriesIs
    <3> QED BY <1>2, <1>5, <3>1, ListIs, Sizes
  <2>2. PICK k \in 1 .. Len(L) : b = L[k] /\ Ahead(L, K, cur, k, s)
    BY <1>6, <2>1 DEF Finds
  <2> QED BY <1>1, <1>4, <1>6, <2>2 DEF AtHand
<1>8. /\ b \in ToSet(L) /\ b \in Block /\ b \in Owned(Buf) /\ s \in Slot /\ alloc[b] = "REC"
      /\ D[b].slots[s] = K[at]
  <2>1. InSlot(L, D, K, b, s)
    BY <1>7, AtHandIs
  <2> QED BY <1>6, <2>1 DEF InSlot
<1>9. c = K[at].root /\ c \in BlockOrNo /\ (c # -1 => c \in Block /\ alloc[c] = "IND_LEAF" /\ c # b)
  <2>1. c = K[at].root
    BY <1>3, <1>5, <1>8
  <2>2. D[b].slots[s] \in Record
    BY <1>5, <1>8 DEF Bytes
  <2>3. c \in BlockOrNo
    BY <1>8, <2>1, <2>2 DEF Record
  <2>4. c # -1 => alloc[c] = "IND_LEAF"
    BY <1>5, <1>6, <2>1 DEF Accounts
  <2> QED BY <1>8, <2>1, <2>3, <2>4 DEF BlockOrNo
<1>10. PICK D2 : D2 = ContentOf(u)
  OBVIOUS
<1>26. Keeps(Buf, u0)
  BY <1>1, <1>8, HoldsIs, ReadOk
\* the list that is left, its records, and the blocks it gives up
<1>11. PICK L2, K2, G : /\ u \in Buffers /\ Coherent(u) /\ K2 = Entries(L2, D2) /\ List(L2, D2)
                        /\ G \subseteq {b} /\ ToSet(L2) = ToSet(L) \ G /\ Dropped(K, K2, at)
                        /\ \A i \in Block : u.alloc[i] = IF i \in G THEN "UNUSED_BLK" ELSE alloc[i]
                        /\ \/ Finds(L2, K2, cur, b, s + 1)
                           \/ /\ b \in G /\ b \in u.held /\ \A t \in Slot : D2[b].slots[t] = NoRec
                              /\ Finds(L2, K2, cur, D2[b].rblock, 1)
                        /\ \A i \in Owned(Buf) : alloc[i] = "IND_LEAF" => D2[i] = D[i]
  <2>1. CASE Empties(D, b, s)
    <3>1. PICK L2, K2 : L2 = Without(L, k) /\ K2 = Entries(L2, D2)
      OBVIOUS
    <3>2. BlockGoes(L, D, K, u, D2, L2, K2, b, s)
      BY <1>3, <1>7, <1>10, <1>26, <2>1, <3>1, EmptyOk
    <3>3. \A i \in Block : u.alloc[i] = IF i \in {b} THEN "UNUSED_BLK" ELSE alloc[i]
      BY <1>5, <3>2 DEF BlockGoes
    <3> QED BY <1>6, <3>1, <3>2, <3>3 DEF BlockGoes
  <2>2. CASE ~ Empties(D, b, s)
    <3>1. PICK K2 : K2 = Entries(L, D2)
      OBVIOUS
    <3>2. Stays(L, D, K, u, D2, K2, b, s)
      BY <1>3, <1>7, <1>10, <1>26, <2>2, <3>1, StaysOk
    <3>3. PICK G : G = {}
      OBVIOUS
    <3>4. \A i \in Block : u.alloc[i] = IF i \in G THEN "UNUSED_BLK" ELSE alloc[i]
      BY <3>2, <3>3 DEF Stays
    <3>5. ToSet(L) = ToSet(L) \ G /\ G \subseteq {b}
      BY <3>3
    <3>6. /\ u \in Buffers /\ Coherent(u) /\ List(L, D2) /\ Dropped(K, K2, at)
          /\ Finds(L, K2, cur, b, s + 1)
          /\ \A i \in Owned(Buf) : alloc[i] = "IND_LEAF" => D2[i] = D[i]
      BY <1>6, <3>2 DEF Stays
    <3> QED BY <3>1, <3>4, <3>5, <3>6
  <2> QED BY <2>1, <2>2
<1>13. Destroyed(u, w, c)
  <2>1. c # -1 => c \in Block /\ u.alloc[c] = "IND_LEAF"
    BY <1>9, <1>11
  <2> QED BY <1>11, <1>12, <2>1, DestroyOk
<1>14. w \in Buffers /\ Coherent(w) /\ Buf' = w /\ alloc' = w.alloc
  <2>1. w \in Buffers /\ Coherent(w)
    BY <1>13 DEF Destroyed
  <2> QED BY <1>12, <2>1, BufIs
<1>15. \A i \in Block : alloc'[i] = IF i \in G \/ i = K[at].root THEN "UNUSED_BLK" ELSE alloc[i]
  BY <1>9, <1>11, <1>13, <1>14 DEF Destroyed
<1>16. D2 = Content'
  <2>1. Content' = ContentOf(w)
    BY <1>14 DEF Content, ContentOf
  <2>2. ContentOf(w) = ContentOf(u)
    BY <1>13 DEF Destroyed, ContentOf
  <2> QED BY <1>10, <2>1, <2>2
<1>17. Owners' = Owners
  BY <1>4 DEF Owners
<1>18. Accounts(L2, K2)'
  <2>1. GivesUp(L, L2, K, at, G)
    BY <1>8, <1>11, <1>15 DEF GivesUp
  <2>2. PICK p : p = at
    OBVIOUS
  <2> QED BY <1>1, <1>4, <1>6, <1>11, <1>17, <2>1, <2>2, GoneOk
<1>19. Scalars'
  <2>1. s + 1 \in 1 .. SLOTS + 1 /\ b \in BlockOrNo
    BY <1>8, CatalogAssumption DEF Slot, BlockOrNo
  <2>2. at' \in BlockOrNo \X (1 .. SLOTS + 1)
    BY <1>4, <2>1
  <2>3. deleted' \in Nat
    BY <1>4, <1>5 DEF Scalars
  <2> QED BY <1>4, <1>5, <2>2, <2>3 DEF Scalars
<1>20. DOMAIN K2 = DOMAIN K \ {at} /\ \A q \in DOMAIN K2 : K2[q] = K[q]
  BY <1>11 DEF Dropped
<1>21. Catalogued(K2)'
  <2>1. \A p \in DOMAIN K2 : K2[p].attr \in 1 .. NumAttrs[K2[p].rel] /\ firstBlk'[K2[p].rel] # NotCreated
    BY <1>4, <1>5, <1>20 DEF Catalogued
  <2>2. \A p, q \in DOMAIN K2 : K2[p].rel = K2[q].rel /\ K2[p].attr = K2[q].attr => p = q
    BY <1>5, <1>20 DEF Catalogued
  <2>3. ASSUME NEW r \in Rel, firstBlk'[r] # NotCreated, r # cur' PROVE Complete(K2, r, NumAttrs[r])
    <3>1. Complete(K, r, NumAttrs[r]) /\ r # cur
      BY <1>4, <1>5, <2>3 DEF Catalogued
    <3>2. \A p \in DOMAIN K : K[p].rel = r => p # at
      BY <1>6, <3>1
    <3> QED BY <1>20, <3>1, <3>2 DEF Complete
  <2> QED BY <1>4, <2>1, <2>2, <2>3 DEF Catalogued
<1>22. LeavesPlain(D2)'
  <2>1. \A i \in Block : alloc'[i] = "IND_LEAF" => alloc[i] = "IND_LEAF"
    BY <1>15
  <2>2. \A i \in Block : alloc[i] = "IND_LEAF" => D2[i] = D[i] /\ D[i].kids = {}
    BY <1>5, <1>11 DEF LeavesPlain
  <2> QED BY <2>1, <2>2 DEF LeavesPlain
<1>23. Counted(K2)'
  <2>1. IsFiniteSet(DOMAIN K) /\ numRecs = OwnSlots + Cardinality(DOMAIN K) + deleted
    BY <1>5 DEF Counted
  <2>2. IsFiniteSet(DOMAIN K2) /\ Cardinality(DOMAIN K2) = Cardinality(DOMAIN K) - 1
    BY <1>6, <1>20, <2>1, FS_RemoveElement
  <2>3. Cardinality(DOMAIN K) \in Nat /\ OwnSlots \in Nat /\ deleted \in Nat
    BY <1>5, <2>1, FS_CardinalityType, CatalogAssumption DEF Scalars
  <2> QED BY <1>4, <2>1, <2>2, <2>3 DEF Counted
<1>24. Position(L2, D2, K2)'
  <2>1. at'[1] = b /\ at'[2] = s + 1
    BY <1>4
  <2>2. Finds(L2, K2, cur', at'[1], at'[2]) \/ InReleased(L2, D2, K2)'
    <3>1. CASE Finds(L2, K2, cur, b, s + 1)
      BY <1>4, <2>1, <3>1
    <3>2. CASE /\ b \in G /\ b \in u.held /\ \A t \in Slot : D2[b].slots[t] = NoRec
               /\ Finds(L2, K2, cur, D2[b].rblock, 1)
      <4>1. w.alloc[b] = "UNUSED_BLK" /\ b \in w.held
        BY <1>8, <1>13, <1>14, <1>15, <3>2 DEF Destroyed
      <4>2. b \in Block \ Owned(w)
        BY <1>8, <4>1 DEF Owned
      <4>3. held' = w.held
        BY <1>14 DEF Buf
      <4> QED BY <1>4, <1>14, <2>1, <3>2, <4>1, <4>2, <4>3 DEF InReleased
    <3> QED BY <1>11, <3>1, <3>2
  <2> QED BY <1>4, <1>6, <2>2 DEF Position
<1> QED BY <1>11, <1>14, <1>16, <1>18, <1>19, <1>21, <1>22, <1>23, <1>24, HoldsNew

-----------------------------------------------------------------------------
(* The list as the model walks it.                                         *)

\* what the walk along the links t yields
Links(t) ==
  [i \in 1 .. DISK_BLOCKS |->
     IF i = 1 THEN First
     ELSE LET b == t[i - 1] IN IF b = -1 THEN -1 ELSE mem[b].rblock]

\* No block is twice in the list, which is no longer than the disk.
LEMMA ListFits ==
  ASSUME NEW L, NEW D, List(L, D)
  PROVE  Len(L) \in 1 .. DISK_BLOCKS
<1>1. Len(L) \in Nat \ {0} /\ \A i \in 1 .. Len(L) : L[i] \in Block
  BY ListIs
<1>2. DISK_BLOCKS \in Nat \ {0} /\ IsFiniteSet(Block) /\ Cardinality(Block) = DISK_BLOCKS
  BY Sizes, CatalogAssumption
<1> DEFINE S == 1 .. Len(L)
           g == [i \in S |-> L[i]]
<1>3. IsFiniteSet(S) /\ Cardinality(S) = Len(L)
  BY <1>1, FS_Interval
<1>4. g \in [S -> Block]
  BY <1>1
<1>5. \A i, j \in S : g[i] = g[j] => i = j
  BY DEF List
<1> HIDE DEF S, g
<1>6. ~ (Cardinality(Block) < Cardinality(S))
  <2> SUFFICES ASSUME Cardinality(Block) < Cardinality(S) PROVE FALSE
    OBVIOUS
  <2>1. \E x, y \in S : x # y /\ g[x] = g[y]
    BY <1>2, <1>3, <1>4, FS_PigeonHole
  <2> QED BY <1>5, <2>1
<1> QED BY <1>1, <1>2, <1>3, <1>6

\* The walk finds the list.
LEMMA CatalogIs ==
  ASSUME NEW L, NEW D, NEW K, Holds(L, D, K)
  PROVE  Catalog = L
<1> DEFINE N == Len(L)
           link == CHOOSE t : t = Links(t)
           F == [i \in 1 .. DISK_BLOCKS |-> IF i <= N THEN L[i] ELSE -1]
<1>1. /\ List(L, D) /\ \A c \in Block : D[c] = mem[c]
  BY HoldsIs
<1>2. /\ L \in Seq(Block) /\ N \in Nat \ {0} /\ N \in 1 .. DISK_BLOCKS /\ DISK_BLOCKS \in Nat \ {0}
      /\ L[1] = First /\ \A i \in 1 .. N : L[i] \in Block /\ L[i] # -1
  <2>1. \A b \in Block : b # -1
    BY Sizes
  <2>2. L[1] = First
    BY <1>1 DEF List
  <2> QED BY <1>1, <2>1, <2>2, ListIs, ListFits, CatalogAssumption
<1>3. \A i \in 1 .. N : mem[L[i]].rblock = IF i = N THEN -1 ELSE L[i + 1]
  BY <1>1, <1>2, NextIs
<1> HIDE DEF N
<1>4. F = Links(F)
  <2>1. ASSUME NEW i \in 1 .. DISK_BLOCKS
        PROVE  F[i] = IF i = 1 THEN First
                      ELSE LET b == F[i - 1] IN IF b = -1 THEN -1 ELSE mem[b].rblock
    <3>1. CASE i = 1
      BY <1>2, <3>1
    <3>2. CASE i # 1
      <4>1. i - 1 \in 1 .. DISK_BLOCKS /\ (i - 1) + 1 = i
        BY <1>2, <3>2
      <4>2. F[i - 1] = IF i - 1 <= N THEN L[i - 1] ELSE -1
        BY <4>1
      <4>3. CASE i - 1 <= N
        <5>1. i - 1 \in 1 .. N /\ F[i - 1] = L[i - 1] /\ L[i - 1] # -1
          BY <1>2, <4>1, <4>2, <4>3
        <5>2. mem[L[i - 1]].rblock = IF i - 1 = N THEN -1 ELSE L[i]
          BY <1>3, <4>1, <5>1
        <5>3. F[i] = IF i - 1 = N THEN -1 ELSE L[i]
          BY <1>2, <4>1, <4>3
        <5> HIDE DEF F
        <5> QED BY <3>2, <5>1, <5>2, <5>3
      <4>4. CASE ~ (i - 1 <= N)
        <5>1. F[i - 1] = -1 /\ F[i] = -1
          BY <1>2, <4>1, <4>2, <4>4
        <5> HIDE DEF F
        <5> QED BY <3>2, <5>1
      <4> QED BY <4>3, <4>4
    <3> QED BY <3>1, <3>2
  <2>2. F = [i \in 1 .. DISK_BLOCKS |-> F[i]]
    OBVIOUS
  <2> HIDE DEF F
  <2> QED BY <2>1, <2>2 DEF Links
<1>5. link = Links(link)
  <2>1. \E t : t = Links(t)
    BY <1>4, Zenon
  <2> QED BY <2>1, Zenon
<1>6. Catalog = [i \in 1 .. Cardinality({j \in 1 .. DISK_BLOCKS : link[j] # -1}) |-> link[i]]
  BY Zenon DEF Catalog, Links
<1> HIDE DEF link
<1>7. ASSUME NEW t, t = Links(t), NEW i \in 1 .. DISK_BLOCKS
      PROVE  t[i] = IF i = 1 THEN First ELSE IF t[i - 1] = -1 THEN -1 ELSE mem[t[i - 1]].rblock
  <2>1. Links(t)[i] = IF i = 1 THEN First ELSE IF t[i - 1] = -1 THEN -1 ELSE mem[t[i - 1]].rblock
    BY DEF Links
  <2> QED BY <1>7, <2>1, Zenon
\* the walk has only one result
<1>8. \A i \in 1 .. DISK_BLOCKS : link[i] = F[i]
  <2> HIDE DEF F
  <2> DEFINE T == {i \in 1 .. DISK_BLOCKS : link[i] # F[i]}
  <2> SUFFICES ASSUME T # {} PROVE FALSE
    OBVIOUS
  <2>1. PICK i \in T : \A m \in T : i <= m
    <3>1. T \subseteq Nat
      OBVIOUS
    <3> HIDE DEF T
    <3> QED BY <3>1, LeastNumber
  <2>2. /\ link[i] = IF i = 1 THEN First ELSE IF link[i - 1] = -1 THEN -1 ELSE mem[link[i - 1]].rblock
        /\ F[i] = IF i = 1 THEN First ELSE IF F[i - 1] = -1 THEN -1 ELSE mem[F[i - 1]].rblock
    BY <1>4, <1>5, <1>7
  <2>3. i # 1 => i - 1 \in 1 .. DISK_BLOCKS /\ ~ (i <= i - 1)
    BY <1>2
  <2>4. i # 1 => link[i - 1] = F[i - 1]
    BY <2>1, <2>3
  <2> QED BY <2>2, <2>4
<1>9. {j \in 1 .. DISK_BLOCKS : link[j] # -1} = 1 .. N
  <2>1. \A j \in 1 .. DISK_BLOCKS : link[j] = IF j <= N THEN L[j] ELSE -1
    BY <1>8
  <2>2. \A j \in 1 .. DISK_BLOCKS : link[j] # -1 <=> j <= N
    BY <1>2, <2>1
  <2> QED BY <1>2, <2>2
<1>10. Cardinality(1 .. N) = N
  BY <1>2, FS_Interval
<1>11. Catalog = [i \in 1 .. N |-> link[i]]
  BY <1>6, <1>9, <1>10
<1>12. \A i \in 1 .. N : link[i] = L[i]
  <2>1. \A i \in 1 .. N : i \in 1 .. DISK_BLOCKS /\ i <= N
    BY <1>2
  <2> QED BY <1>8, <2>1
<1>13. L = [i \in 1 .. N |-> L[i]]
  BY <1>2 DEF N
<1> QED BY <1>11, <1>12, <1>13

\* The records of a relation between the operations.
LEMMA PlacesIs ==
  ASSUME NEW L, NEW D, NEW K, Holds(L, D, K), NEW r \in Rel
  PROVE  Places(r) = {p \in DOMAIN K : K[p].rel = r}
<1>1. /\ Catalog = L /\ ToSet(L) \subseteq Block /\ \A c \in Block : D[c] = mem[c]
      /\ K = Entries(L, D)
  BY CatalogIs, HoldsIs, ListIs
<1>2. /\ \A c \in ToSet(L), t \in Slot : <<c, t>> \in DOMAIN K <=> D[c].slots[t].rel \in Rel
      /\ \A p \in DOMAIN K : /\ p[1] \in ToSet(L) /\ p[2] \in Slot /\ p = <<p[1], p[2]>>
                             /\ K[p] = D[p[1]].slots[p[2]]
  BY <1>1, EntriesIs
<1>3. Places(r) = {p \in ToSet(L) \X Slot : D[p[1]].slots[p[2]].rel = r}
  BY <1>1 DEF Places
<1>4. ASSUME NEW p \in ToSet(L) \X Slot
      PROVE  D[p[1]].slots[p[2]].rel = r <=> p \in DOMAIN K /\ K[p].rel = r
  <2>1. p[1] \in ToSet(L) /\ p[2] \in Slot /\ p = <<p[1], p[2]>>
    OBVIOUS
  <2> QED BY <1>2, <2>1
<1>5. \A p \in DOMAIN K : p \in ToSet(L) \X Slot
  BY <1>2
<1> HIDE DEF Places
<1> QED BY <1>3, <1>4, <1>5

-----------------------------------------------------------------------------
(* Steps of an open relation.                                              *)

\* Bytes without records.
LEMMA PlainIs ==
  Plain \in Bytes /\ Plain.kids = {}
<1>1. NoRec \in Record
  BY DEF NoRec, Record, BlockOrNo
<1> QED BY <1>1 DEF Plain, Bytes, BlockOrNo

LEMMA FirstRecordOk ==
  ASSUME IInv, NEW r \in Rel, FirstRecord(r)
  PROVE  IInv'
<1>1. PICK L, D, K : Holds(L, D, K)
  BY DEF IInv
<1>0. PICK n : n = NextUnused(Buf)
  OBVIOUS
<1>2. /\ pc = "idle" /\ firstBlk[r] = -1 /\ Unused # {}
      /\ \E u \in Replaced(Buf) : SetBuf(New(u, "REC", Plain))
      /\ firstBlk' = [firstBlk EXCEPT ![r] = n]
      /\ numRecs' = numRecs /\ pc' = pc /\ cur' = cur /\ attr' = attr /\ prev' = prev
      /\ at' = at /\ deleted' = deleted
  BY <1>0 DEF FirstRecord
<1>3. /\ Scalars /\ Catalogued(K) /\ Accounts(L, K) /\ Counted(K) /\ Position(L, D, K)
      /\ K = Entries(L, D) /\ List(L, D) /\ Buf \in Buffers /\ Coherent(Buf) /\ LeavesPlain(D)
      /\ ToSet(L) \subseteq Owned(Buf)
      /\ \A c \in Block : D[c] = mem[c] /\ D[c] \in Bytes
      /\ Buf.alloc = alloc /\ alloc \in [Block -> BlockType]
      /\ \A c : c \in Owned(Buf) <=> c \in Block /\ alloc[c] # "UNUSED_BLK"
  BY <1>1, HoldsIs
<1>4. deleted = 0 /\ cur = "none" /\ "none" \notin Rel /\ firstBlk \in [Rel -> BlockOrNo \cup {NotCreated}]
  BY <1>2, <1>3, CatalogAssumption DEF Position, Scalars
<1>5. PICK u \in Replaced(Buf) : SetBuf(New(u, "REC", Plain))
  BY <1>2
<1>6. /\ u \in Buffers /\ Coherent(u) /\ u.alloc = alloc /\ Owned(u) = Owned(Buf)
      /\ \A c \in Owned(Buf) : u.mem[c] = D[c]
  <2>1. Keeps(Buf, u)
    BY <1>3, ReplacedOk
  <2> QED BY <1>1, <2>1, KeepsIs
<1>7. PICK w : w = New(u, "REC", Plain)
  OBVIOUS
<1>8. n \in Block \ Owned(Buf) /\ Allocates(u, w, n, "REC", Plain)
  <2>1. Block \ Owned(u) # {}
    BY <1>2, <1>3, <1>6 DEF Unused
  <2>2. n = NextUnused(u)
    BY <1>0, <1>3, <1>6 DEF NextUnused
  <2> QED BY <1>6, <1>7, <2>1, <2>2, PlainIs, NewOk DEF BlockType
<1>9. /\ w \in Buffers /\ Coherent(w) /\ w.alloc = [alloc EXCEPT ![n] = "REC"]
      /\ \A c \in Owned(Buf) : w.mem[c] = D[c]
  BY <1>6, <1>8 DEF Allocates
<1>10. Buf' = w /\ alloc' = [alloc EXCEPT ![n] = "REC"]
  BY <1>5, <1>7, <1>9, BufIs
<1>11. PICK D2 : D2 = Content'
  OBVIOUS
<1>12. \A c \in Owned(Buf) : D2[c] = D[c]
  <2>1. \A c \in Block : D2[c] = w.mem[c]
    BY <1>10, <1>11 DEF Content
  <2> QED BY <1>3, <1>9, <2>1
<1>13. List(L, D2) /\ K = Entries(L, D2)
  <2>1. \A c \in ToSet(L) : D2[c] = D[c]
    BY <1>3, <1>12
  <2> QED BY <1>3, <2>1, SameList
<1>14. n \in Block /\ alloc[n] = "UNUSED_BLK" /\ n # -1 /\ n # NotCreated
       /\ \A c \in Block : alloc'[c] = IF c = n THEN "REC" ELSE alloc[c]
  <2>1. n \in Nat
    BY <1>8, Sizes
  <2> QED BY <1>3, <1>8, <1>10, <2>1 DEF NotCreated
<1>15. LeavesPlain(D2)'
  <2>1. \A c \in Block : alloc[c] = "IND_LEAF" => c \in Owned(Buf) /\ D[c].kids = {}
    BY <1>3 DEF LeavesPlain
  <2> QED BY <1>12, <1>14, <2>1 DEF LeavesPlain
<1>16. /\ firstBlk' \in [Rel -> BlockOrNo \cup {NotCreated}] /\ firstBlk'[r] = n
       /\ \A s \in Rel \ {r} : firstBlk'[s] = firstBlk[s]
       /\ \A s \in Rel : firstBlk'[s] # NotCreated <=> firstBlk[s] # NotCreated
  <2>1. firstBlk[r] # NotCreated
    BY <1>2 DEF NotCreated
  <2> QED BY <1>2, <1>4, <1>14, <2>1 DEF BlockOrNo
<1>17. Scalars'
  BY <1>2, <1>3, <1>16 DEF Scalars
<1>18. Catalogued(K)'
  <2>1. \A p \in DOMAIN K : K[p].rel \in Rel
    BY <1>3, RelOf
  <2> QED BY <1>2, <1>3, <1>16, <2>1 DEF Catalogued
<1>19. Counted(K)'
  BY <1>2, <1>3 DEF Counted
<1>20. Position(L, D2, K)'
  BY <1>2, <1>3, <1>4 DEF Position
<1>21. Owners' = Owners \cup {r} /\ r \notin Owners
  <2>1. \A s \in Rel : s \in Owners <=> firstBlk[s] \in Block
    BY <1>2 DEF Owners
  <2>2. \A s \in Rel : s \in Owners' <=> firstBlk'[s] \in Block
    BY <1>2 DEF Owners
  <2>3. Owners \subseteq Rel /\ Owners' \subseteq Rel /\ -1 \notin Block
    BY Sizes DEF Owners
  <2> QED BY <1>2, <1>14, <1>16, <2>1, <2>2, <2>3
<1>22. Accounts(L, K)'
  <2>1. /\ \A b \in ToSet(L) : alloc[b] = "REC" /\ b \in Block
        /\ \A s \in Owners : firstBlk[s] \in Block /\ alloc[firstBlk[s]] = "REC" /\ firstBlk[s] \notin ToSet(L)
        /\ \A s, t \in Owners : firstBlk[s] = firstBlk[t] => s = t
        /\ \A b \in Block : alloc[b] = "REC" => b \in ToSet(L) \/ \E s \in Owners : firstBlk[s] = b
    BY <1>3, ListIs DEF Accounts, Owners
  <2>2. \A s \in Owners : firstBlk'[s] = firstBlk[s] /\ firstBlk[s] # n
    BY <1>14, <1>16, <1>21, <2>1 DEF Owners
  <2>3. \A b \in ToSet(L) : alloc'[b] = "REC" /\ b # n
    BY <1>14, <2>1
  <2>4. \A s \in Owners' : alloc'[firstBlk'[s]] = "REC" /\ firstBlk'[s] \notin ToSet(L)
    BY <1>14, <1>16, <1>21, <2>1, <2>2, <2>3
  <2>5. \A s, t \in Owners' : firstBlk'[s] = firstBlk'[t] => s = t
    BY <1>16, <1>21, <2>1, <2>2
  <2>6. \A b \in Block : alloc'[b] = "REC" => b \in ToSet(L) \/ \E s \in Owners' : firstBlk'[s] = b
    BY <1>14, <1>16, <1>21, <2>1, <2>2
  <2>7. \A p \in DOMAIN K : K[p].root # -1 => alloc'[K[p].root] = "IND_LEAF"
    <3> SUFFICES ASSUME NEW p \in DOMAIN K, K[p].root # -1 PROVE alloc'[K[p].root] = "IND_LEAF"
      OBVIOUS
    <3>1. alloc[K[p].root] = "IND_LEAF"
      BY <1>3 DEF Accounts
    <3>2. K[p].root # n
      BY <1>14, <3>1
    <3> QED BY <1>3, <1>10, <3>1, <3>2
  <2>8. \A p, q \in DOMAIN K : K[p].root = K[q].root /\ K[p].root # -1 => p = q
    BY <1>3 DEF Accounts
  <2>9. \A b \in Block : alloc'[b] = "IND_LEAF" => \E p \in DOMAIN K : K[p].root = b
    BY <1>3, <1>14 DEF Accounts
  <2>10. \A b \in Block : alloc'[b] # "IND_INTERNAL"
    BY <1>3, <1>14 DEF Accounts
  <2> QED BY <2>3, <2>4, <2>5, <2>6, <2>7, <2>8, <2>9, <2>10 DEF Accounts
<1> QED BY <1>9, <1>10, <1>11, <1>13, <1>15, <1>17, <1>18, <1>19, <1>20, <1>22, HoldsNew

\* Where createIndex stores the root.
LEMMA PlaceIs ==
  ASSUME NEW L, NEW D, NEW K, Holds(L, D, K), pc = "idle",
         NEW r \in Rel, firstBlk[r] # NotCreated, NEW a \in 1 .. NumAttrs[r]
  PROVE  Place(r, a) \in DOMAIN K /\ K[Place(r, a)].rel = r /\ K[Place(r, a)].attr = a
<1>1. /\ Catalogued(K) /\ Position(L, D, K) /\ K = Entries(L, D)
      /\ Places(r) = {p \in DOMAIN K : K[p].rel = r}
      /\ \A c \in ToSet(L) : c \in Block /\ D[c] = mem[c]
  BY HoldsIs, PlacesIs, ListIs
<1>2. \A p \in DOMAIN K : K[p] = mem[p[1]].slots[p[2]]
  BY <1>1, EntriesIs
<1>3. \E p \in Places(r) : mem[p[1]].slots[p[2]].attr = a
  <2>1. r # cur
    BY <1>1, CatalogAssumption DEF Position
  <2>2. PICK p \in DOMAIN K : K[p].rel = r /\ K[p].attr = a
    BY <1>1, <2>1 DEF Catalogued, Complete
  <2> QED BY <1>1, <1>2, <2>2
<1>4. Place(r, a) \in Places(r) /\ mem[Place(r, a)[1]].slots[Place(r, a)[2]].attr = a
  BY <1>3, Zenon DEF Place
<1>5. Place(r, a) \in DOMAIN K /\ K[Place(r, a)].rel = r
  BY <1>1, <1>4
<1> QED BY <1>2, <1>4, <1>5

\* the record at p gets the root n, a new leaf
Indexes(K, K2, p, n) ==
  /\ p \in DOMAIN K /\ K[p].root = -1 /\ n \in Block /\ alloc[n] = "UNUSED_BLK"
  /\ DOMAIN K2 = DOMAIN K /\ \A q \in DOMAIN K \ {p} : K2[q] = K[q]
  /\ K2[p].root = n /\ K2[p].rel = K[p].rel /\ K2[p].attr = K[p].attr
  /\ alloc' = [alloc EXCEPT ![n] = "IND_LEAF"]
  /\ UNCHANGED <<firstBlk, numRecs, pc, cur, attr, prev, at, deleted>>

\* The new leaf has one owner, and the records are of the same attributes.
LEMMA IndexesOk ==
  ASSUME NEW L, NEW D, NEW K, Holds(L, D, K), NEW K2, NEW p, NEW n, Indexes(K, K2, p, n)
  PROVE  Scalars' /\ Catalogued(K2)' /\ Accounts(L, K2)' /\ Counted(K2)'
<1>1. /\ Scalars /\ Catalogued(K) /\ Accounts(L, K) /\ Counted(K) /\ List(L, D)
      /\ alloc \in [Block -> BlockType]
  BY HoldsIs
<1>2. /\ p \in DOMAIN K /\ K[p].root = -1 /\ n \in Block /\ alloc[n] = "UNUSED_BLK"
      /\ DOMAIN K2 = DOMAIN K /\ \A q \in DOMAIN K \ {p} : K2[q] = K[q]
      /\ K2[p].root = n /\ alloc' = [alloc EXCEPT ![n] = "IND_LEAF"]
      /\ firstBlk' = firstBlk /\ numRecs' = numRecs /\ pc' = pc /\ cur' = cur /\ attr' = attr
      /\ prev' = prev /\ at' = at /\ deleted' = deleted
  BY DEF Indexes
<1>3. \A q \in DOMAIN K : K2[q].rel = K[q].rel /\ K2[q].attr = K[q].attr
  <2>1. K2[p].rel = K[p].rel /\ K2[p].attr = K[p].attr
    BY DEF Indexes
  <2> QED BY <1>2, <2>1
<1>4. \A c \in Block : alloc'[c] = IF c = n THEN "IND_LEAF" ELSE alloc[c]
  BY <1>1, <1>2
<1>5. Scalars'
  BY <1>1, <1>2 DEF Scalars
<1>6. Counted(K2)'
  BY <1>1, <1>2 DEF Counted
<1>7. Catalogued(K2)'
  <2>1. \A q \in DOMAIN K2 : /\ K2[q].attr \in 1 .. NumAttrs[K2[q].rel] /\ firstBlk'[K2[q].rel] # NotCreated
                             /\ pc' = "insert" /\ K2[q].rel = cur' => K2[q].attr < attr'
    BY <1>1, <1>2, <1>3 DEF Catalogued
  <2>2. \A q, s \in DOMAIN K2 : K2[q].rel = K2[s].rel /\ K2[q].attr = K2[s].attr => q = s
    BY <1>1, <1>2, <1>3 DEF Catalogued
  <2>3. \A r, m : Complete(K, r, m) => Complete(K2, r, m)
    BY <1>2, <1>3 DEF Complete
  <2>4. \A r \in Rel : firstBlk'[r] # NotCreated /\ r # cur' => Complete(K2, r, NumAttrs[r])
    BY <1>1, <1>2, <2>3 DEF Catalogued
  <2>5. pc' = "insert" => Complete(K2, cur', attr' - 1)
    BY <1>1, <1>2, <2>3 DEF Catalogued
  <2> QED BY <2>1, <2>2, <2>4, <2>5 DEF Catalogued
<1>8. Accounts(L, K2)'
  <2>1. Owners' = Owners
    BY <1>2 DEF Owners
  <2>2. \A b \in ToSet(L) : alloc'[b] = "REC"
    <3>1. \A b \in ToSet(L) : b \in Block /\ alloc[b] = "REC"
      BY <1>1, ListIs DEF Accounts
    <3> QED BY <1>2, <1>4, <3>1
  <2>3. \A r \in Owners : alloc'[firstBlk[r]] = "REC" /\ firstBlk[r] \notin ToSet(L)
    <3>1. \A r \in Owners : firstBlk[r] \in Block /\ alloc[firstBlk[r]] = "REC" /\ firstBlk[r] \notin ToSet(L)
      BY <1>1 DEF Accounts, Owners
    <3> QED BY <1>2, <1>4, <3>1
  <2>4. \A b \in Block : alloc'[b] = "REC" => b \in ToSet(L) \/ \E r \in Owners : firstBlk[r] = b
    BY <1>1, <1>4 DEF Accounts
  <2>5. \A q \in DOMAIN K \ {p} : K2[q].root # -1 => alloc[K2[q].root] = "IND_LEAF" /\ K2[q].root # n
    <3> SUFFICES ASSUME NEW q \in DOMAIN K \ {p}, K[q].root # -1
                 PROVE  alloc[K[q].root] = "IND_LEAF" /\ K[q].root # n
      BY <1>2
    <3>1. alloc[K[q].root] = "IND_LEAF"
      BY <1>1 DEF Accounts
    <3> QED BY <1>2, <3>1
  <2>6. \A q \in DOMAIN K2 : K2[q].root # -1 => alloc'[K2[q].root] = "IND_LEAF"
    <3> SUFFICES ASSUME NEW q \in DOMAIN K2, K2[q].root # -1 PROVE alloc'[K2[q].root] = "IND_LEAF"
      OBVIOUS
    <3>1. CASE q = p
      BY <1>2, <1>4, <3>1
    <3>2. CASE q # p
      <4>1. alloc[K2[q].root] = "IND_LEAF" /\ K2[q].root # n
        BY <1>2, <2>5, <3>2
      <4>2. alloc'[K2[q].root] = alloc[K2[q].root]
        BY <1>1, <1>2, <4>1
      <4> QED BY <4>1, <4>2
    <3> QED BY <3>1, <3>2
  <2>7. \A q, s \in DOMAIN K2 : K2[q].root = K2[s].root /\ K2[q].root # -1 => q = s
    <3>1. \A q, s \in DOMAIN K : K[q].root = K[s].root /\ K[q].root # -1 => q = s
      BY <1>1 DEF Accounts
    <3>2. \A q \in DOMAIN K \ {p} : K2[q].root # n
      <4>1. n # -1
        BY <1>2, Sizes
      <4> QED BY <2>5, <4>1
    <3> QED BY <1>2, <3>1, <3>2
  <2>8. \A b \in Block : alloc'[b] = "IND_LEAF" => \E q \in DOMAIN K2 : K2[q].root = b
    <3> SUFFICES ASSUME NEW b \in Block, alloc'[b] = "IND_LEAF" PROVE \E q \in DOMAIN K2 : K2[q].root = b
      OBVIOUS
    <3>1. CASE b = n
      BY <1>2, <3>1
    <3>2. CASE b # n
      <4>1. alloc[b] = "IND_LEAF" /\ b # -1
        BY <1>4, <3>2, Sizes
      <4>2. PICK q \in DOMAIN K : K[q].root = b
        BY <1>1, <4>1 DEF Accounts
      <4>3. q # p
        BY <1>2, <4>1, <4>2
      <4> QED BY <1>2, <4>2, <4>3
    <3> QED BY <3>1, <3>2
  <2>9. \A b \in Block : alloc'[b] # "IND_INTERNAL"
    BY <1>1, <1>4 DEF Accounts
  <2>10. \A r, s \in Owners : firstBlk[r] = firstBlk[s] => r = s
    BY <1>1 DEF Accounts
  <2> QED BY <1>2, <2>1, <2>2, <2>3, <2>4, <2>6, <2>7, <2>8, <2>9, <2>10 DEF Accounts
<1> QED BY <1>5, <1>6, <1>7, <1>8

LEMMA CreateIndexOk ==
  ASSUME OneLeaf, IInv, NEW r, NEW a, CreateIndex(r, a)
  PROVE  IInv'
<1>1. PICK L, D, K : Holds(L, D, K)
  BY DEF IInv
<1>0. PICK p, f : p = Place(r, a) /\ f = firstBlk[r]
  OBVIOUS
<1>2. PICK u \in Replaced(Buf) :
        SetBuf(Store(New(u, "IND_LEAF", Plain), p[1],
                     [mem[p[1]] EXCEPT !.slots[p[2]].root = NextUnused(u)]))
  BY <1>0 DEF CreateIndex, OneLeaf
<1>3. PICK n, v : n = NextUnused(u) /\ v = New(u, "IND_LEAF", Plain)
  OBVIOUS
<1>4. PICK z, w : z = [mem[p[1]] EXCEPT !.slots[p[2]].root = n] /\ w = Store(v, p[1], z)
  OBVIOUS
<1>5. /\ pc = "idle" /\ <<r, a>> \in Indexed /\ f \in Block
      /\ mem[p[1]].slots[p[2]].root = -1
      /\ Cardinality(Unused) >= (IF Leaves = 1 THEN 1 ELSE 3)
      /\ UNCHANGED <<firstBlk, numRecs, pc, cur, attr, prev, at, deleted>>
  BY <1>0, Zenon DEF CreateIndex
<1>6. SetBuf(w)
  BY <1>2, <1>3, <1>4
<1>7. /\ Scalars /\ Catalogued(K) /\ Accounts(L, K) /\ Position(L, D, K)
      /\ K = Entries(L, D) /\ List(L, D) /\ Buf \in Buffers /\ Coherent(Buf) /\ LeavesPlain(D)
      /\ ToSet(L) \subseteq Owned(Buf)
      /\ \A c \in Block : D[c] = mem[c] /\ D[c] \in Bytes
      /\ Buf.alloc = alloc /\ alloc \in [Block -> BlockType]
      /\ \A c : c \in Owned(Buf) <=> c \in Block /\ alloc[c] # "UNUSED_BLK"
  BY <1>1, HoldsIs
<1>8. r \in Rel /\ a \in 1 .. NumAttrs[r] /\ f \in Block /\ f = firstBlk[r] /\ firstBlk[r] # NotCreated
  <2>1. <<r, a>>[1] = r /\ <<r, a>>[2] = a
    OBVIOUS
  <2>2. r \in Rel /\ a \in 1 .. NumAttrs[r]
    BY <1>5, <2>1, CatalogAssumption
  <2>3. f \in Nat
    BY <1>5, Sizes
  <2> QED BY <1>0, <1>5, <2>2, <2>3 DEF NotCreated
<1>9. p \in DOMAIN K /\ K[p].rel = r /\ K[p].root = -1
  <2>1. p \in DOMAIN K /\ K[p].rel = r
    BY <1>0, <1>1, <1>5, <1>8, PlaceIs
  <2>2. K[p] = D[p[1]].slots[p[2]] /\ p[1] \in Block
    BY <1>7, <2>1, EntriesIs, ListIs
  <2> QED BY <1>5, <1>7, <2>1, <2>2
<1>10. PICK b, s : b = p[1] /\ s = p[2]
  OBVIOUS
<1>11. b \in ToSet(L) /\ s \in Slot /\ p = <<b, s>> /\ b \in Block /\ b \in Owned(Buf) /\ D[b].slots[s] = K[p]
  <2>1. b \in ToSet(L) /\ s \in Slot /\ p = <<b, s>> /\ K[p] = D[b].slots[s]
    BY <1>7, <1>9, <1>10, EntriesIs
  <2> QED BY <1>7, <2>1, ListIs
<1>12. PICK x : x = [D[b].slots[s] EXCEPT !.root = n]
  OBVIOUS
\* the calls
<1>13. /\ u \in Buffers /\ Coherent(u) /\ u.alloc = alloc /\ Owned(u) = Owned(Buf)
       /\ \A c \in Owned(Buf) : u.mem[c] = D[c]
  <2>1. Keeps(Buf, u)
    BY <1>7, ReplacedOk
  <2> QED BY <1>1, <2>1, KeepsIs
<1>14. n \in Block \ Owned(Buf) /\ Allocates(u, v, n, "IND_LEAF", Plain)
  <2>1. Unused # {}
    <3>1. Cardinality({}) = 0 /\ Cardinality(Unused) >= 1
      BY <1>5, FS_EmptySet DEF OneLeaf
    <3> QED BY <3>1
  <2>2. Block \ Owned(u) # {}
    BY <1>7, <1>13, <2>1 DEF Unused
  <2> QED BY <1>3, <1>13, <2>2, PlainIs, NewOk DEF BlockType
<1>15. /\ v \in Buffers /\ Coherent(v) /\ v.alloc = [alloc EXCEPT ![n] = "IND_LEAF"] /\ v.mem[n] = Plain
       /\ \A c \in Owned(Buf) : v.mem[c] = D[c]
  BY <1>13, <1>14 DEF Allocates
<1>16. Owned(v) = Owned(Buf) \cup {n} /\ n \in Block /\ alloc[n] = "UNUSED_BLK" /\ n # b
  BY <1>7, <1>11, <1>14, <1>15 DEF Owned
<1>17. x.root = n /\ x.rel = r /\ x.attr = K[p].attr /\ x \in Record
  <2>1. D[b].slots[s] \in Record
    BY <1>7, <1>11 DEF Bytes
  <2>2. x.root = n /\ x.rel = D[b].slots[s].rel /\ x.attr = D[b].slots[s].attr /\ x \in Record
    BY <1>12, <1>16, <2>1 DEF Record, BlockOrNo
  <2> QED BY <1>9, <1>11, <2>2
<1>18. z = [D[b] EXCEPT !.slots[s] = x] /\ z \in Bytes
  <2>1. mem[p[1]] = D[b]
    BY <1>7, <1>10, <1>11
  <2>2. D[b] \in Bytes /\ D[b].slots \in [Slot -> Record]
    BY <1>7, <1>11 DEF Bytes
  <2>3. z = [D[b] EXCEPT !.slots[s].root = n]
    BY <1>4, <1>10, <2>1
  <2>4. z = [D[b] EXCEPT !.slots = [D[b].slots EXCEPT ![s] = x]]
    BY <1>11, <1>12, <2>2, <2>3
  <2>5. z = [D[b] EXCEPT !.slots[s] = x]
    BY <2>4
  <2>6. [D[b].slots EXCEPT ![s] = x] \in [Slot -> Record]
    BY <1>17, <2>2
  <2> QED BY <2>2, <2>4, <2>5, <2>6 DEF Bytes
<1>19. Writes(v, w, b, z)
  BY <1>4, <1>10, <1>11, <1>15, <1>16, <1>18, StoreOk
<1>20. /\ w \in Buffers /\ Coherent(w) /\ w.alloc = [alloc EXCEPT ![n] = "IND_LEAF"] /\ w.mem[b] = z
       /\ w.mem[n] = Plain
       /\ \A c \in Owned(Buf) \ {b} : w.mem[c] = D[c]
  BY <1>15, <1>16, <1>19 DEF Writes
<1>21. Buf' = w /\ alloc' = [alloc EXCEPT ![n] = "IND_LEAF"]
  BY <1>6, <1>20, BufIs
<1>22. PICK D2 : D2 = Content'
  OBVIOUS
<1>23. D2[b] = z /\ D2[n] = Plain /\ \A c \in Owned(Buf) \ {b} : D2[c] = D[c]
  <2>1. \A c \in Block : D2[c] = w.mem[c]
    BY <1>21, <1>22 DEF Content
  <2> QED BY <1>7, <1>11, <1>16, <1>20, <2>1
\* the list
<1>24. SetsSlot(L, D, D2, b, s, x)
  <2>1. D2[b].slots[s] = x /\ \A t \in Slot \ {s} : D2[b].slots[t] = D[b].slots[t]
    BY <1>7, <1>11, <1>18, <1>23 DEF Bytes
  <2>2. D2[b].slots[s] # NoRec
    BY <1>8, <1>17, <2>1, CatalogAssumption DEF NoRec
  <2>3. D2[First].slots[1] = OwnRec
    <3>1. D[First].slots[1] = OwnRec /\ First \in ToSet(L) /\ 1 \in Slot
      BY <1>7, ListIs, Sizes DEF List
    <3>2. CASE b = First
      <4>1. D[b].slots[s].rel = r /\ OwnRec.rel = "own" /\ r # "own"
        BY <1>8, <1>9, <1>11, CatalogAssumption DEF OwnRec
      <4>2. s # 1
        BY <3>1, <3>2, <4>1
      <4> QED BY <2>1, <3>1, <3>2, <4>2
    <3>3. CASE b # First
      BY <1>7, <1>23, <3>1, <3>3
    <3> QED BY <3>2, <3>3
  <2>4. \A c \in ToSet(L) \ {b} : D2[c] = D[c]
    BY <1>7, <1>23
  <2>5. D[b] \in Bytes /\ D2[b] = [D[b] EXCEPT !.slots[s] = x]
    BY <1>7, <1>11, <1>18, <1>23
  <2> QED BY <1>11, <2>2, <2>3, <2>4, <2>5 DEF SetsSlot
<1>25. PICK K2 : K2 = Entries(L, D2)
  OBVIOUS
<1>26. /\ List(L, D2) /\ Changed(K, K2, p) /\ p \in DOMAIN K2 /\ K2[p] = x
  <2>1. x.rel \in Rel
    BY <1>8, <1>17
  <2>2. /\ List(L, D2) /\ Changed(Entries(L, D), Entries(L, D2), <<b, s>>)
        /\ <<b, s>> \in DOMAIN Entries(L, D2) /\ Entries(L, D2)[<<b, s>>] = x
    BY <1>7, <1>24, <2>1, WriteSlot
  <2> QED BY <1>7, <1>11, <1>25, <2>2
<1>27. Indexes(K, K2, p, n)
  <2>1. DOMAIN K2 = DOMAIN K /\ \A q \in DOMAIN K \ {p} : K2[q] = K[q]
    BY <1>9, <1>26 DEF Changed
  <2> QED BY <1>5, <1>9, <1>16, <1>17, <1>21, <1>26, <2>1 DEF Indexes
<1>28. Scalars' /\ Catalogued(K2)' /\ Accounts(L, K2)' /\ Counted(K2)'
  BY <1>1, <1>27, IndexesOk
<1>29. LeavesPlain(D2)'
  <2>1. \A c \in Block : alloc[c] = "IND_LEAF" => c \in Owned(Buf) /\ D[c].kids = {}
    BY <1>7 DEF LeavesPlain
  <2>2. alloc[b] = "REC"
    BY <1>7, <1>11 DEF Accounts
  <2>3. \A c \in Block : alloc'[c] = "IND_LEAF" => c = n \/ (alloc[c] = "IND_LEAF" /\ c # b)
    BY <1>7, <1>16, <1>21, <2>2
  <2> QED BY <1>23, <2>1, <2>3, PlainIs DEF LeavesPlain
<1>30. Position(L, D2, K2)'
  BY <1>5, <1>7 DEF Position
<1> QED BY <1>20, <1>21, <1>22, <1>25, <1>26, <1>28, <1>29, <1>30, HoldsNew

-----------------------------------------------------------------------------
(* The properties.                                                         *)

\* A record lost on a full disk: every variable has its type still.
LEMMA LostOk ==
  ASSUME IInv, NEW g, ExtendListLost(g)
  PROVE  Inv'
<1>1. PICK L, D, K : Holds(L, D, K)
  BY DEF IInv
<1>2. /\ Buf \in Buffers /\ Coherent(Buf) /\ Scalars /\ List(L, D) /\ Position(L, D, K)
      /\ ToSet(L) \subseteq Owned(Buf) /\ Buf.alloc = alloc
  BY <1>1, HoldsIs
<1> DEFINE new == [Plain EXCEPT !.lblock = prev, !.slots[1] = Rec(cur, attr)]
           u   == IF g \in Block THEN Store(Buf, g, new) ELSE Buf
           w   == Store(u, prev, [u.mem[prev] EXCEPT !.rblock = g])
<1>3. pc = "insert" /\ at[1] = -1 /\ Unused = {} /\ SetBuf(w) /\ Stored /\ lost' = TRUE
  BY Zenon DEF ExtendListLost
<1>4. /\ cur \in Rel /\ attr \in 1 .. NumAttrs[cur] /\ NumAttrs[cur] \in Nat
      /\ prev \in Block /\ deleted = 0
  <2>1. prev = L[Len(L)] /\ Len(L) \in 1 .. Len(L)
    BY <1>2, <1>3, ListIs DEF Position
  <2> QED BY <1>2, <1>3, <2>1, ListIs, CatalogAssumption DEF Position
\* no block is unused, so no released block gets a frame
<1>5. \A v, b, x : b \in Block /\ v.alloc = alloc => Store(v, b, x) = [v EXCEPT !.mem[b] = x]
  BY <1>3 DEF Store, Load, Unused
<1>6. u = (IF g \in Block THEN [Buf EXCEPT !.mem[g] = new] ELSE Buf) /\ u.alloc = alloc /\ u.held = held
  <2>1. Buf.held = held
    BY DEF Buf
  <2>2. g \in Block => Store(Buf, g, new) = [Buf EXCEPT !.mem[g] = new]
    BY <1>2, <1>5
  <2> HIDE DEF new
  <2> QED BY <1>2, <2>1, <2>2 DEF Buf
<1> HIDE DEF u, new
<1>7. w.alloc = alloc /\ w.held = held
  <2>1. PICK y : y = Buf
    OBVIOUS
  <2>2. {"alloc", "held"} \subseteq DOMAIN y
    BY <2>1 DEF Buf
  <2>3. PICK m : m = [u.mem[prev] EXCEPT !.rblock = g]
    OBVIOUS
  <2>4. w = Store(u, prev, m)
    BY <2>3
  <2>5. w = [u EXCEPT !.mem[prev] = m]
    <3> HIDE DEF w
    <3>1. u.alloc = alloc /\ prev \in Block
      BY <1>4, <1>6
    <3> QED BY <1>5, <2>4, <3>1
  <2>6. u = y \/ u = [y EXCEPT !.mem[g] = new]
    BY <1>6, <2>1
  <2>7. {"alloc", "held"} \subseteq DOMAIN u
    BY <2>2, <2>6
  <2> HIDE DEF w
  <2> QED BY <1>6, <2>5, <2>7
<1> HIDE DEF w
<1>8. held' = held /\ alloc' = alloc
  BY <1>3, <1>7 DEF SetBuf
<1>9. /\ numRecs' = numRecs + 1 /\ firstBlk' = firstBlk
      /\ \/ /\ attr = NumAttrs[cur]
            /\ pc' = "idle" /\ cur' = "none" /\ attr' = 0 /\ prev' = -1 /\ at' = <<-1, 1>> /\ deleted' = 0
         \/ /\ attr # NumAttrs[cur] /\ attr' = attr + 1
            /\ prev' = -1 /\ at' = <<First, 1>> /\ pc' = pc /\ cur' = cur /\ deleted' = deleted
  BY <1>3 DEF Stored, Return
<1>10. <<-1, 1>> \in BlockOrNo \X (1 .. SLOTS + 1) /\ <<First, 1>> \in BlockOrNo \X (1 .. SLOTS + 1)
       /\ -1 \in BlockOrNo
  BY Sizes, CatalogAssumption DEF BlockOrNo
<1>11. held \in SUBSET Block /\ alloc \in [Block -> BlockType]
  BY <1>2 DEF Buf, Buffers
<1>12. TypeOK'
  BY <1>2, <1>3, <1>4, <1>8, <1>9, <1>10, <1>11 DEF TypeOK, Scalars, BlockType
<1>13. pc' # "search"
  BY <1>3, <1>9
<1> QED BY <1>3, <1>12, <1>13 DEF Inv

LEMMA NextOk ==
  ASSUME OneLeaf, Inv, [Next]_vars
  PROVE  Inv'
<1>1. CASE lost
  <2>1. UNCHANGED vars
    BY <1>1 DEF Next
  <2>2. TypeOK /\ pc # "search"
    BY <1>1 DEF Inv
  <2>3. TypeOK' /\ pc' # "search" /\ lost' = lost
    BY <2>1, <2>2 DEF vars, TypeOK
  <2> QED BY <1>1, <2>3 DEF Inv
<1>2. CASE ~ lost
  <2>1. IInv
    BY <1>2 DEF Inv
  <2>2. ASSUME IInv', lost' = lost PROVE Inv'
    BY <1>2, <2>2 DEF Inv
  <2>3. ASSUME NEW r \in Rel, CreateRel(r) \/ DropRel(r) \/ FirstRecord(r) PROVE Inv'
    <3>1. lost' = lost
      BY <2>3 DEF CreateRel, DropRel, FirstRecord
    <3> QED BY <2>1, <2>2, <2>3, <3>1, CreateRelOk, DropRelOk, FirstRecordOk
  <2>4. ASSUME NEW p \in Indexed, CreateIndex(p[1], p[2]) PROVE Inv'
    <3>1. lost' = lost
      BY <2>4, Zenon DEF CreateIndex
    <3>2. IInv'
      BY <2>1, <2>4, CreateIndexOk
    <3> QED BY <2>2, <3>1, <3>2
  <2>5. ASSUME NEW b \in Block, Evict(b) PROVE Inv'
    <3>1. lost' = lost
      BY <2>5 DEF Evict
    <3> QED BY <2>1, <2>2, <2>5, <3>1, EvictOk
  <2>6. ASSUME NEW g \in Handed, ExtendListLost(g) PROVE Inv'
    BY <2>1, <2>6, LostOk
  <2>7. ASSUME Step PROVE Inv'
    <3>1. CASE FindSlot
      BY <2>1, <2>2, <3>1, FindSlotOk DEF FindSlot
    <3>2. CASE ExtendList
      BY <2>1, <2>2, <3>2, ExtendListOk DEF ExtendList
    <3>3. CASE ExtendListFull
      BY <2>1, <2>2, <3>3, ExtendListFullOk DEF ExtendListFull
    <3>4. CASE linearSearch
      BY <2>1, <2>2, <3>4, linearSearchOk DEF linearSearch
    <3>5. CASE DeleteAttr
      BY <2>1, <2>2, <3>5, DeleteAttrOk DEF DeleteAttr
    <3>6. CASE DropEnds
      BY <2>1, <2>2, <3>6, DropEndsOk DEF DropEnds
    <3> QED BY <2>7, <3>1, <3>2, <3>3, <3>4, <3>5, <3>6 DEF Step
  <2>8. ASSUME Restart PROVE Inv'
    <3>1. lost' = lost
      BY <2>8 DEF Restart
    <3> QED BY <2>1, <2>2, <2>8, <3>1, RestartOk
  <2>9. ASSUME UNCHANGED vars PROVE Inv'
    <3>1. lost' = lost
      BY <2>9 DEF vars
    <3> QED BY <2>1, <2>2, <2>9, <3>1, StutterOk
  <2>10. \/ \E r \in Rel : CreateRel(r) \/ DropRel(r) \/ FirstRecord(r)
         \/ \E p \in Indexed : CreateIndex(p[1], p[2])
         \/ \E b \in Block : Evict(b)
         \/ \E g \in Handed : ExtendListLost(g)
         \/ Step \/ Restart \/ UNCHANGED vars
    BY <1>2 DEF Next
  <2> QED BY <2>3, <2>4, <2>5, <2>6, <2>7, <2>8, <2>9, <2>10
<1> QED BY <1>1, <1>2

LEMMA TypeIs ==
  ASSUME Inv
  PROVE  TypeOK
<1>1. CASE ~ lost
  <2>1. PICK L, D, K : Holds(L, D, K)
    BY <1>1 DEF IInv, Inv
  <2>2. Buf \in Buffers /\ Scalars /\ alloc \in [Block -> BlockType]
    BY <2>1, HoldsIs
  <2>3. held \in SUBSET Block
    BY <2>2 DEF Buffers, Buf
  <2> QED BY <2>2, <2>3 DEF TypeOK, Scalars, BlockType, Inv
<1> QED BY <1>1 DEF Inv

LEMMA SearchIs ==
  ASSUME Inv
  PROVE  SearchBlockPresent
<1> SUFFICES ASSUME pc = "search", at[1] # -1 PROVE alloc[at[1]] = "REC" \/ at[1] \in held
  BY DEF SearchBlockPresent
<1>1. PICK L, D, K : Holds(L, D, K)
  BY DEF IInv, Inv
<1>2. Position(L, D, K) /\ Accounts(L, K) /\ List(L, D)
  BY <1>1, HoldsIs
<1>3. CASE Finds(L, K, cur, at[1], at[2])
  <2>1. at[1] \in ToSet(L)
    BY <1>2, <1>3, ListIs DEF Finds
  <2> QED BY <1>2, <2>1 DEF Accounts
<1>4. CASE InReleased(L, D, K)
  BY <1>4 DEF InReleased
<1> QED BY <1>2, <1>3, <1>4 DEF Position

LEMMA LinkedIs ==
  ASSUME Inv
  PROVE  ListLinked
<1> SUFFICES ASSUME ~ lost PROVE ListLinked
  BY DEF ListLinked
<1>1. PICK L, D, K : Holds(L, D, K)
  BY DEF IInv, Inv
<1>2. Catalog = L /\ List(L, D) /\ \A b \in Block : D[b] = mem[b]
  BY <1>1, HoldsIs, CatalogIs
<1>3. ASSUME NEW i \in 1 .. Len(L) - 1
      PROVE  mem[L[i + 1]].lblock = L[i] /\ \E s \in Slot : mem[L[i + 1]].slots[s] # NoRec
  <2>1. Len(L) \in Nat /\ i + 1 \in 2 .. Len(L) /\ (i + 1) - 1 = i /\ i + 1 \in 1 .. Len(L)
    BY <1>2, ListIs
  <2>2. L[i + 1] \in Block
    BY <1>2, <2>1, ListIs
  <2>3. D[L[i + 1]].lblock = L[(i + 1) - 1] /\ \E s \in Slot : D[L[i + 1]].slots[s] # NoRec
    BY <1>2, <2>1 DEF List
  <2> QED BY <1>2, <2>1, <2>2, <2>3
<1> QED BY <1>2, <1>3 DEF ListLinked

\* The records of the relations there are.
LEMMA AllPlaces ==
  ASSUME NEW L, NEW D, NEW K, Holds(L, D, K)
  PROVE  UNION {Places(r) : r \in Created} = DOMAIN K
<1>1. \A r \in Created : r \in Rel /\ Places(r) = {p \in DOMAIN K : K[p].rel = r}
  BY PlacesIs DEF Created
<1>2. \A p \in DOMAIN K : K[p].rel \in Created
  BY HoldsIs, RelOf DEF Catalogued, Created
<1> DEFINE P == [r \in Created |-> Places(r)]
<1>3. \A r \in Created : P[r] = {p \in DOMAIN K : K[p].rel = r}
  BY <1>1
<1>4. UNION {Places(r) : r \in Created} = UNION {P[r] : r \in Created}
  OBVIOUS
<1> HIDE DEF P
<1>5. UNION {P[r] : r \in Created} = DOMAIN K
  BY <1>2, <1>3
<1> QED BY <1>4, <1>5

LEMMA LeakIs ==
  ASSUME Inv
  PROVE  NoLeak
<1> SUFFICES ASSUME ~ lost PROVE NoLeak
  BY Zenon DEF NoLeak
<1>1. PICK L, D, K : Holds(L, D, K)
  BY DEF IInv, Inv
<1>2. /\ Catalog = L /\ List(L, D) /\ Accounts(L, K) /\ LeavesPlain(D) /\ Scalars /\ Catalogued(K)
      /\ K = Entries(L, D) /\ alloc \in [Block -> BlockType]
      /\ \A b \in Block : D[b] = mem[b] /\ D[b] \in Bytes
      /\ \A r \in Rel : Places(r) = {p \in DOMAIN K : K[p].rel = r}
  BY <1>1, HoldsIs, CatalogIs, PlacesIs
<1>3. \A p \in DOMAIN K : /\ p[1] \in Block /\ p[2] \in Slot /\ K[p] = mem[p[1]].slots[p[2]]
                          /\ K[p].rel \in Created /\ K[p].root \in BlockOrNo
  <2>1. \A p \in DOMAIN K : p[1] \in Block /\ p[2] \in Slot /\ K[p] = D[p[1]].slots[p[2]]
    BY <1>2, EntriesIs, ListIs
  <2>2. \A p \in DOMAIN K : K[p].rel \in Created
    BY <1>2, RelOf DEF Catalogued, Created
  <2>3. \A p \in DOMAIN K : K[p] \in Record
    BY <1>2, <2>1 DEF Bytes
  <2> QED BY <1>2, <2>1, <2>2, <2>3 DEF Record
<1>4. UNION {Places(r) : r \in Created} = DOMAIN K
  BY <1>1, AllPlaces
<1> DEFINE catalog == ToSet(Catalog)
           records == {firstBlk[r] : r \in Rel} \ {-1, NotCreated}
           roots   == {mem[p[1]].slots[p[2]].root : p \in UNION {Places(r) : r \in Created}} \ {-1}
           trees   == roots \cup UNION {mem[b].kids : b \in roots}
<1> SUFFICES ASSUME pc = "idle"
             PROVE  /\ Block \ Unused = catalog \cup records \cup trees
                    /\ catalog \cap records = {} /\ (catalog \cup records) \cap trees = {}
  BY Zenon DEF NoLeak
<1>5. roots = {K[p].root : p \in DOMAIN K} \ {-1}
  BY <1>3, <1>4
<1> HIDE DEF roots
<1>6. \A b \in roots : b \in Block /\ alloc[b] = "IND_LEAF"
  <2> SUFFICES ASSUME NEW b \in roots PROVE b \in Block /\ alloc[b] = "IND_LEAF"
    OBVIOUS
  <2>1. PICK p \in DOMAIN K : b = K[p].root /\ K[p].root # -1
    BY <1>5
  <2> QED BY <1>2, <1>3, <2>1 DEF Accounts, BlockOrNo
<1>7. trees = roots
  BY <1>2, <1>6 DEF LeavesPlain
<1>8. \A b : b \in records <=> \E r \in Owners : firstBlk[r] = b
  <2>1. \A r \in Rel : r \in Owners <=> firstBlk[r] # -1 /\ firstBlk[r] # NotCreated
    <3>1. \A b \in Block : b # -1 /\ b # NotCreated
      BY Sizes DEF NotCreated
    <3> QED BY <1>2, <3>1 DEF Owners, Scalars, BlockOrNo
  <2> QED BY <2>1 DEF Owners
<1>9. \A b \in catalog : b \in Block /\ alloc[b] = "REC"
  BY <1>2, ListIs DEF Accounts
<1>10. \A b \in records : b \in Block /\ alloc[b] = "REC" /\ b \notin catalog
  BY <1>2, <1>8 DEF Accounts, Owners
<1>11. \A b \in Block : alloc[b] = "REC" => b \in catalog \/ b \in records
  BY <1>2, <1>8 DEF Accounts
<1>12. \A b \in Block : alloc[b] = "IND_LEAF" => b \in roots
  <2> SUFFICES ASSUME NEW b \in Block, alloc[b] = "IND_LEAF" PROVE b \in roots
    OBVIOUS
  <2>1. PICK p \in DOMAIN K : K[p].root = b
    BY <1>2 DEF Accounts
  <2>2. b # -1
    BY Sizes
  <2> QED BY <1>5, <2>1, <2>2
<1>13. \A b \in Block : b \in Unused \/ alloc[b] = "REC" \/ alloc[b] = "IND_LEAF"
  BY <1>2 DEF Unused, BlockType, Accounts
<1>14. \A b \in Unused : alloc[b] = "UNUSED_BLK"
  BY DEF Unused
<1> HIDE DEF catalog, records, roots, trees
<1> QED BY <1>6, <1>7, <1>9, <1>10, <1>11, <1>12, <1>13, <1>14

LEMMA ExactIs ==
  ASSUME Inv
  PROVE  CatalogExact
<1> SUFFICES ASSUME ~ lost PROVE CatalogExact
  BY DEF CatalogExact
<1>1. PICK L, D, K : Holds(L, D, K)
  BY DEF IInv, Inv
<1>2. /\ Catalog = L /\ List(L, D) /\ Catalogued(K) /\ Counted(K) /\ Position(L, D, K)
      /\ K = Entries(L, D)
      /\ \A b \in Block : D[b] = mem[b]
      /\ \A r \in Rel : Places(r) = {p \in DOMAIN K : K[p].rel = r}
  BY <1>1, HoldsIs, CatalogIs, PlacesIs
<1>3. \A p \in DOMAIN K : K[p] = mem[p[1]].slots[p[2]] /\ K[p].rel \in Created
  <2>1. \A p \in DOMAIN K : p[1] \in Block /\ K[p] = D[p[1]].slots[p[2]]
    BY <1>2, EntriesIs, ListIs
  <2>2. \A p \in DOMAIN K : K[p].rel \in Created
    BY <1>2, RelOf DEF Catalogued, Created
  <2> QED BY <1>2, <2>1, <2>2
<1> SUFFICES ASSUME pc = "idle"
             PROVE  /\ \A r \in Rel \ Created : Places(r) = {}
                    /\ \A r \in Created :
                         /\ Cardinality(Places(r)) = NumAttrs[r]
                         /\ {mem[p[1]].slots[p[2]].attr : p \in Places(r)} = 1 .. NumAttrs[r]
                    /\ numRecs = OwnSlots + Cardinality(UNION {Places(r) : r \in Created})
  BY DEF CatalogExact
<1>4. cur \notin Rel /\ deleted = 0
  BY <1>2, CatalogAssumption DEF Position
<1>5. \A r \in Rel \ Created : Places(r) = {}
  BY <1>2, <1>3
<1>6. ASSUME NEW r \in Created
      PROVE  /\ Cardinality(Places(r)) = NumAttrs[r]
             /\ {mem[p[1]].slots[p[2]].attr : p \in Places(r)} = 1 .. NumAttrs[r]
  <2>1. r \in Rel /\ r # cur /\ NumAttrs[r] \in Nat /\ Complete(K, r, NumAttrs[r])
    BY <1>2, <1>4, CatalogAssumption DEF Created, Catalogued
  <2> DEFINE P == Places(r)
             N == NumAttrs[r]
             f == [p \in P |-> K[p].attr]
  <2>2. \A p : p \in P <=> p \in DOMAIN K /\ K[p].rel = r
    BY <1>2, <2>1
  <2>3. \A p \in P : f[p] \in 1 .. N
    BY <1>2, <2>2 DEF Catalogued
  <2>4. \A p, q \in P : f[p] = f[q] => p = q
    BY <1>2, <2>2 DEF Catalogued
  <2>5. \A a \in 1 .. N : \E p \in P : f[p] = a
    BY <2>1, <2>2 DEF Complete
  <2>6. {mem[p[1]].slots[p[2]].attr : p \in P} = 1 .. N
    BY <1>3, <2>2, <2>3, <2>5
  <2>7. f \in [P -> 1 .. N]
    BY <2>3
  <2> HIDE DEF f
  <2>8. f \in Bijection(P, 1 .. N)
    BY <2>4, <2>5, <2>7 DEF Bijection, Injection, Surjection, IsInjective
  <2>9. IsFiniteSet(1 .. N) /\ Cardinality(1 .. N) = N
    BY <2>1, FS_Interval
  <2>10. IsFiniteSet(P)
    <3>1. P \subseteq DOMAIN K /\ IsFiniteSet(DOMAIN K)
      BY <1>2, <2>2 DEF Counted
    <3> QED BY <3>1, FS_Subset
  <2>11. Cardinality(P) = N
    BY <2>8, <2>9, <2>10, FS_Bijection DEF ExistsBijection
  <2> QED BY <2>6, <2>11
<1>7. UNION {Places(r) : r \in Created} = DOMAIN K
  BY <1>1, AllPlaces
<1>8. numRecs = OwnSlots + Cardinality(DOMAIN K)
  <2>1. IsFiniteSet(DOMAIN K) /\ numRecs = OwnSlots + Cardinality(DOMAIN K) + deleted
    BY <1>2 DEF Counted
  <2>2. Cardinality(DOMAIN K) \in Nat /\ OwnSlots \in Nat
    BY <2>1, FS_CardinalityType, CatalogAssumption
  <2> QED BY <1>4, <2>1, <2>2
<1> QED BY <1>5, <1>6, <1>7, <1>8

-----------------------------------------------------------------------------
(* The disk of the first session.                                          *)

\* What Databases has, for indexes of one leaf.
Start(list, first) ==
  /\ list \in Seq([Slot -> {NoRec, OwnRec} \cup AttrRec]) /\ Len(list) \in 1 .. DISK_BLOCKS
  /\ first \in [Rel -> (Len(list) .. DISK_BLOCKS - 1) \cup {-1, NotCreated}]
  /\ \A p \in (1 .. Len(list)) \X Slot : list[p[1]][p[2]] = OwnRec <=> p[1] = 1 /\ p[2] <= OwnSlots
  /\ \A i \in 2 .. Len(list) : \E s \in Slot : list[i][s] # NoRec
  /\ \A p \in Recorded(list) : /\ first[list[p[1]][p[2]].rel] # NotCreated
                               /\ list[p[1]][p[2]].attr \in 1 .. NumAttrs[list[p[1]][p[2]].rel]
  /\ \A p, q \in Recorded(list) :
       list[p[1]][p[2]].rel = list[q[1]][q[2]].rel /\ list[p[1]][p[2]].attr = list[q[1]][q[2]].attr => p = q
  /\ \A r \in Rel : first[r] # NotCreated =>
       \A a \in 1 .. NumAttrs[r] :
         \E p \in Recorded(list) : list[p[1]][p[2]].rel = r /\ list[p[1]][p[2]].attr = a
  /\ \A q, r \in Rel : first[q] \in Len(list) .. DISK_BLOCKS - 1 /\ first[q] = first[r] => q = r
  /\ \A p \in Recorded(list) : list[p[1]][p[2]].root # -1 =>
       /\ list[p[1]][p[2]].root \in Len(list) .. DISK_BLOCKS - 1
       /\ \A r \in Rel : first[r] # list[p[1]][p[2]].root
       /\ \A q \in Recorded(list) : list[q[1]][q[2]].root = list[p[1]][p[2]].root => p = q

LEMMA StartIs ==
  ASSUME OneLeaf, NEW d, Consistent(d)
  PROVE  Start(d.list, d.firstBlk)
<1> DEFINE rec(p)     == d.list[p[1]][p[2]]
           behind     == Len(d.list) .. DISK_BLOCKS - 1
           records    == Recorded(d.list)
           indexed    == {p \in records : rec(p).root # -1}
<1>1. \A p \in indexed :
       /\ Tree(rec(p).root) \subseteq behind \ {d.firstBlk[r] : r \in Rel}
       /\ \A q \in indexed \ {p} : Tree(rec(p).root) \cap Tree(rec(q).root) = {}
  BY Zenon DEF Consistent
<1>2. \A x : Tree(x) = {x}
  BY DEF Tree, OneLeaf
<1>3. ASSUME NEW p \in records, rec(p).root # -1
      PROVE  /\ rec(p).root \in behind /\ \A r \in Rel : d.firstBlk[r] # rec(p).root
             /\ \A q \in records : rec(q).root = rec(p).root => p = q
  <2>1. p \in indexed
    BY <1>3
  <2>2. /\ {rec(p).root} \subseteq behind \ {d.firstBlk[r] : r \in Rel}
        /\ \A q \in indexed \ {p} : {rec(p).root} \cap {rec(q).root} = {}
    BY <1>1, <1>2, <2>1
  <2>3. ASSUME NEW q \in records, rec(q).root = rec(p).root PROVE p = q
    <3>1. q \in indexed
      BY <1>3, <2>3
    <3> QED BY <2>2, <2>3, <3>1
  <2> QED BY <2>2, <2>3
<1>4. /\ d.list \in Seq([Slot -> {NoRec, OwnRec} \cup AttrRec]) /\ Len(d.list) \in 1 .. DISK_BLOCKS
      /\ d.firstBlk \in [Rel -> behind \cup {-1, NotCreated}]
      /\ \A p \in (1 .. Len(d.list)) \X Slot : rec(p) = OwnRec <=> p[1] = 1 /\ p[2] <= OwnSlots
      /\ \A i \in 2 .. Len(d.list) : \E s \in Slot : d.list[i][s] # NoRec
  BY Zenon DEF Consistent
<1>5. /\ \A p \in records : d.firstBlk[rec(p).rel] # NotCreated /\ rec(p).attr \in 1 .. NumAttrs[rec(p).rel]
      /\ \A p, q \in records : rec(p).rel = rec(q).rel /\ rec(p).attr = rec(q).attr => p = q
  BY Zenon DEF Consistent
<1>6. /\ \A r \in Rel : d.firstBlk[r] # NotCreated =>
           \A a \in 1 .. NumAttrs[r] : \E p \in records : rec(p).rel = r /\ rec(p).attr = a
      /\ \A q, r \in Rel : d.firstBlk[q] \in behind /\ d.firstBlk[q] = d.firstBlk[r] => q = r
  BY Zenon DEF Consistent
<1>7. \A p \in Recorded(d.list) : d.list[p[1]][p[2]].root # -1 =>
        /\ d.list[p[1]][p[2]].root \in Len(d.list) .. DISK_BLOCKS - 1
        /\ \A r \in Rel : d.firstBlk[r] # d.list[p[1]][p[2]].root
        /\ \A q \in Recorded(d.list) : d.list[q[1]][q[2]].root = d.list[p[1]][p[2]].root => p = q
  BY <1>3
<1> QED BY <1>4, <1>5, <1>6, <1>7, Zenon DEF Start

\* block b of the image: of the list, of a relation, of an index or unused
Laid(list, first, I, b) ==
  /\ I.run[b] \in Bytes /\ I.run[b].kids = {}
  /\ b < Len(list) => /\ I.run[b].slots = list[b + 1] /\ I.run[b].lblock = b - 1
                      /\ I.run[b].rblock = IF b + 1 < Len(list) THEN b + 1 ELSE -1
  /\ ~ (b < Len(list)) => I.run[b] = Plain
  /\ I.alloc[b] \in BlockType /\ I.alloc[b] # "IND_INTERNAL"
  /\ I.alloc[b] = "REC" <=> b < Len(list) \/ \E r \in Rel : first[r] = b
  /\ I.alloc[b] = "IND_LEAF" <=> \E p \in Recorded(list) : list[p[1]][p[2]].root = b

LEMMA ImageIs ==
  ASSUME OneLeaf, NEW list, NEW first, Start(list, first), NEW I, I = Image(list, first), NEW b \in Block
  PROVE  Laid(list, first, I, b)
<1> DEFINE roots == Roots(list)
           N == Len(list)
<1>1. /\ list \in Seq([Slot -> {NoRec, OwnRec} \cup AttrRec]) /\ N \in 1 .. DISK_BLOCKS
      /\ DISK_BLOCKS \in Nat /\ b \in 0 .. DISK_BLOCKS - 1 /\ b \in Nat /\ N \in Nat
  BY CatalogAssumption DEF Start, Block
<1>2. DOMAIN list = 1 .. N /\ \A i \in 1 .. N, s \in Slot : list[i][s] \in {NoRec, OwnRec} \cup AttrRec
  BY <1>1
<1>3. b \in roots <=> \E p \in Recorded(list) : list[p[1]][p[2]].root = b
  <2>1. NoRec.root = -1 /\ OwnRec.root = -1 /\ b # -1
    BY Sizes DEF NoRec, OwnRec
  <2>2. ASSUME b \in roots PROVE \E p \in Recorded(list) : list[p[1]][p[2]].root = b
    <3>1. PICK i \in 1 .. N, s \in Slot : list[i][s].root = b
      BY <1>2, <2>2 DEF Roots
    <3>2. list[i][s] \in AttrRec
      BY <1>2, <2>1, <3>1
    <3> DEFINE p == <<i, s>>
    <3>3. p[1] = i /\ p[2] = s /\ p \in (1 .. Len(list)) \X Slot
      OBVIOUS
    <3> HIDE DEF p
    <3>4. p \in Recorded(list) /\ list[p[1]][p[2]].root = b
      BY <3>1, <3>2, <3>3 DEF Recorded
    <3> QED BY <3>4
  <2>3. ASSUME NEW p \in Recorded(list), list[p[1]][p[2]].root = b PROVE b \in roots
    <3>1. p[1] \in DOMAIN list /\ p[2] \in Slot
      BY <1>2 DEF Recorded
    <3> QED BY <2>1, <2>3, <3>1 DEF Roots
  <2> QED BY <2>2, <2>3
<1>4. b \in roots => ~ (b < N) /\ \A r \in Rel : first[r] # b
  <2> SUFFICES ASSUME b \in roots PROVE ~ (b < N) /\ \A r \in Rel : first[r] # b
    OBVIOUS
  <2>1. PICK p \in Recorded(list) : list[p[1]][p[2]].root = b
    BY <1>3
  <2>2. b # -1
    BY <1>1
  <2>3. b \in N .. DISK_BLOCKS - 1 /\ \A r \in Rel : first[r] # b
    BY <2>1, <2>2 DEF Start
  <2> QED BY <1>1, <2>3
<1>5. UNION {Tree(x) : x \in roots} = roots /\ Leaves # 2 /\ Leaves = 1
  <2>1. \A x : Tree(x) = {x}
    BY DEF Tree, OneLeaf
  <2> HIDE DEF roots
  <2> QED BY <2>1 DEF OneLeaf
<1> DEFINE Row  == [Plain EXCEPT !.slots = list[b + 1], !.lblock = b - 1,
                                 !.rblock = IF b + 1 < N THEN b + 1 ELSE -1]
<1>10. I.run[b] = BytesOf(list, b) /\ I.alloc[b] = TypeOf(list, first, b)
  BY DEF Image
<1>6. I.run[b] = IF b < N THEN Row ELSE Plain
  BY <1>5, <1>10 DEF BytesOf
<1>7. I.alloc[b] = IF b < N \/ b \in {first[r] : r \in Rel} THEN "REC"
                   ELSE IF b \in roots THEN "IND_LEAF" ELSE "UNUSED_BLK"
  <2>1. TypeOf(list, first, b) = IF b < N \/ b \in {first[r] : r \in Rel} THEN "REC"
                   ELSE IF b \in roots THEN "IND_LEAF" ELSE "UNUSED_BLK"
    <3> DEFINE T == UNION {Tree(x) : x \in roots}
               F == {first[r] : r \in Rel}
    <3>1. T = roots
      BY <1>5
    <3>2. b \in roots => ~ (b < N) /\ b \notin F
      BY <1>4
    <3> HIDE DEF T, F
    <3>3. CASE b < N \/ b \in F
      BY <1>5, <3>1, <3>2, <3>3 DEF T, F, TypeOf
    <3>4. CASE ~ (b < N \/ b \in F) /\ b \in roots
      BY <1>5, <3>1, <3>4 DEF T, F, TypeOf
    <3>5. CASE ~ (b < N \/ b \in F) /\ b \notin roots
      BY <1>5, <3>1, <3>5 DEF T, F, TypeOf
    <3> QED BY <3>3, <3>4, <3>5
  <2> QED BY <1>10, <2>1
<1>8. CASE b < N
  <2>1. b + 1 \in 1 .. N
    BY <1>1, <1>8
  <2>2. list[b + 1] \in [Slot -> {NoRec, OwnRec} \cup AttrRec]
    BY <1>1, <2>1
  <2>3. {NoRec, OwnRec} \cup AttrRec \subseteq Record
    BY DEF NoRec, OwnRec, AttrRec, Record, BlockOrNo
  <2>4. list[b + 1] \in [Slot -> Record]
    BY <2>2, <2>3
  <2>5. b - 1 \in BlockOrNo /\ (b + 1 < N => b + 1 \in BlockOrNo) /\ -1 \in BlockOrNo
    BY <1>1, <1>8 DEF BlockOrNo, Block
  <2>6. I.run[b] \in Bytes /\ I.run[b].kids = {} /\ I.run[b].slots = list[b + 1] /\ I.run[b].lblock = b - 1
        /\ I.run[b].rblock = IF b + 1 < N THEN b + 1 ELSE -1
    BY <1>6, <1>8, <2>4, <2>5, PlainIs DEF Bytes
  <2>7. I.alloc[b] = "REC" /\ b \notin roots
    BY <1>4, <1>7, <1>8
  <2> QED BY <1>3, <1>8, <2>6, <2>7 DEF Laid, BlockType
<1>9. CASE ~ (b < N)
  <2>1. I.run[b] = Plain /\ I.run[b] \in Bytes /\ I.run[b].kids = {}
    BY <1>6, <1>9, PlainIs
  <2>2. /\ I.alloc[b] \in BlockType /\ I.alloc[b] # "IND_INTERNAL"
        /\ I.alloc[b] = "REC" <=> \E r \in Rel : first[r] = b
        /\ I.alloc[b] = "IND_LEAF" <=> b \in roots
    BY <1>4, <1>7, <1>9 DEF BlockType
  <2> QED BY <1>3, <1>9, <2>1, <2>2 DEF Laid
<1> QED BY <1>8, <1>9

\* the records of the image, at block number and slot
Down(q) == <<q[1] - 1, q[2]>>
Up(p)   == <<p[1] + 1, p[2]>>

\* the catalog of the image
StartsWith(list, K) ==
  /\ \A p \in DOMAIN K : /\ Up(p) \in Recorded(list) /\ Down(Up(p)) = p
                         /\ K[p] = list[Up(p)[1]][Up(p)[2]]
  /\ \A q \in Recorded(list) : Down(q) \in DOMAIN K /\ K[Down(q)] = list[q[1]][q[2]]

LEMMA StartEntries ==
  ASSUME NEW list, NEW first, Start(list, first), NEW I, \A b \in Block : Laid(list, first, I, b),
         NEW L, NEW D, List(L, D), \A b \in Block : D[b] = I.run[b],
         \A b \in Block : b \in ToSet(L) <=> b < Len(list)
  PROVE  StartsWith(list, Entries(L, D))
<1>1. /\ list \in Seq([Slot -> {NoRec, OwnRec} \cup AttrRec]) /\ Len(list) \in 1 .. DISK_BLOCKS
      /\ DISK_BLOCKS \in Nat /\ Block = 0 .. DISK_BLOCKS - 1
  BY CatalogAssumption DEF Start, Block
<1>2. \A i \in 1 .. Len(list), s \in Slot : list[i][s] \in {NoRec, OwnRec} \cup AttrRec
  BY <1>1
<1>3. NoRec.rel \notin Rel /\ OwnRec.rel \notin Rel
  BY CatalogAssumption DEF NoRec, OwnRec
<1>4. \A i \in 1 .. Len(list), s \in Slot : list[i][s].rel \in Rel <=> list[i][s] \in AttrRec
  <2>1. \A x \in AttrRec : x.rel \in Rel
    BY DEF AttrRec
  <2> QED BY <1>2, <1>3, <2>1
<1> DEFINE K == Entries(L, D)
<1>5. /\ \A c \in ToSet(L), t \in Slot : <<c, t>> \in DOMAIN K <=> D[c].slots[t].rel \in Rel
      /\ \A p \in DOMAIN K : /\ p[1] \in ToSet(L) /\ p[2] \in Slot /\ p = <<p[1], p[2]>>
                             /\ K[p] = D[p[1]].slots[p[2]]
  BY EntriesIs
<1> HIDE DEF K
<1>6. \A b \in Block : b < Len(list) => D[b].slots = list[b + 1] /\ b \in ToSet(L)
  BY DEF Laid
<1>7. \A b \in ToSet(L) : b \in Block /\ b < Len(list)
  BY ListIs
<1>8. ASSUME NEW p \in DOMAIN K
      PROVE  Up(p) \in Recorded(list) /\ Down(Up(p)) = p /\ K[p] = list[Up(p)[1]][Up(p)[2]]
  <2>1. PICK b, s : b = p[1] /\ s = p[2]
    OBVIOUS
  <2>2. b \in Block /\ b < Len(list) /\ s \in Slot /\ p = <<b, s>> /\ b \in Nat
    BY <1>1, <1>5, <1>7, <2>1
  <2>3. K[p] = list[b + 1][s]
    BY <1>5, <1>6, <2>1, <2>2
  <2>4. b + 1 \in 1 .. Len(list)
    BY <1>1, <2>2
  <2>5. K[p].rel \in Rel
    BY <1>5, <2>1, <2>2
  <2>6. list[b + 1][s] \in AttrRec
    BY <1>4, <2>2, <2>3, <2>4, <2>5
  <2>7. Up(p) = <<b + 1, s>>
    BY <2>1 DEF Up
  <2>8. <<b + 1, s>>[1] = b + 1 /\ <<b + 1, s>>[2] = s
    OBVIOUS
  <2>9. Down(<<b + 1, s>>) = p
    BY <2>2, <2>8 DEF Down
  <2>10. <<b + 1, s>> \in Recorded(list)
    BY <2>2, <2>4, <2>6, <2>8 DEF Recorded
  <2> QED BY <2>3, <2>7, <2>8, <2>9, <2>10
<1>9. ASSUME NEW q \in Recorded(list)
      PROVE  Down(q) \in DOMAIN K /\ K[Down(q)] = list[q[1]][q[2]]
  <2>1. PICK i, s : i = q[1] /\ s = q[2]
    OBVIOUS
  <2>2. i \in 1 .. Len(list) /\ s \in Slot /\ list[i][s] \in AttrRec
    BY <2>1 DEF Recorded
  <2>3. i - 1 \in Block /\ i - 1 < Len(list) /\ (i - 1) + 1 = i
    BY <1>1, <2>2
  <2>4. D[i - 1].slots = list[i] /\ i - 1 \in ToSet(L)
    BY <1>6, <2>3
  <2>5. <<i - 1, s>> \in DOMAIN K
    <3>1. D[i - 1].slots[s].rel \in Rel
      BY <1>4, <2>2, <2>4
    <3> QED BY <1>5, <2>2, <2>4, <3>1
  <2>6. <<i - 1, s>>[1] = i - 1 /\ <<i - 1, s>>[2] = s
    OBVIOUS
  <2>7. K[<<i - 1, s>>] = list[i][s]
    BY <1>5, <2>4, <2>5, <2>6
  <2>8. Down(q) = <<i - 1, s>>
    BY <2>1 DEF Down
  <2> QED BY <2>1, <2>5, <2>7, <2>8
<1> QED BY <1>8, <1>9 DEF StartsWith, K

\* Each relation has a record of each of its attributes.
LEMMA StartCatalogued ==
  ASSUME NEW list, NEW first, Start(list, first), NEW K, StartsWith(list, K),
         firstBlk = first, pc = "idle"
  PROVE  Catalogued(K)
<1>1. \A p \in DOMAIN K : /\ Up(p) \in Recorded(list) /\ Down(Up(p)) = p
                          /\ K[p] = list[Up(p)[1]][Up(p)[2]]
  BY DEF StartsWith
<1>2. \A q \in Recorded(list) : Down(q) \in DOMAIN K /\ K[Down(q)] = list[q[1]][q[2]]
  BY DEF StartsWith
<1>3. \A p \in DOMAIN K : K[p].attr \in 1 .. NumAttrs[K[p].rel] /\ firstBlk[K[p].rel] # NotCreated
  BY <1>1 DEF Start
<1>4. ASSUME NEW p \in DOMAIN K, NEW q \in DOMAIN K, K[p].rel = K[q].rel, K[p].attr = K[q].attr PROVE p = q
  <2> DEFINE rec(t) == list[t[1]][t[2]]
  <2>2. \A t, u \in Recorded(list) : rec(t).rel = rec(u).rel /\ rec(t).attr = rec(u).attr => t = u
    BY DEF Start
  <2>3. rec(Up(p)) = K[p] /\ rec(Up(q)) = K[q] /\ Up(p) \in Recorded(list) /\ Up(q) \in Recorded(list)
    BY <1>1
  <2> HIDE DEF rec
  <2>1. Up(p) = Up(q)
    BY <1>4, <2>2, <2>3
  <2> QED BY <1>1, <2>1
<1>5. ASSUME NEW r \in Rel, firstBlk[r] # NotCreated PROVE Complete(K, r, NumAttrs[r])
  <2> SUFFICES ASSUME NEW a \in 1 .. NumAttrs[r] PROVE \E p \in DOMAIN K : K[p].rel = r /\ K[p].attr = a
    BY DEF Complete
  <2>1. PICK q \in Recorded(list) : list[q[1]][q[2]].rel = r /\ list[q[1]][q[2]].attr = a
    BY <1>5 DEF Start
  <2> QED BY <1>2, <2>1
<1> QED BY <1>3, <1>4, <1>5 DEF Catalogued

\* The blocks of the list, of relations and of indexes are different ones.
LEMMA StartAccounts ==
  ASSUME NEW list, NEW first, Start(list, first), NEW K, StartsWith(list, K),
         NEW I, \A b \in Block : Laid(list, first, I, b), alloc = I.alloc,
         NEW L, ToSet(L) \subseteq Block, \A b \in Block : b \in ToSet(L) <=> b < Len(list),
         firstBlk = first, pc = "idle"
  PROVE  Accounts(L, K)
<1>1. \A p \in DOMAIN K : /\ Up(p) \in Recorded(list) /\ Down(Up(p)) = p
                          /\ K[p] = list[Up(p)[1]][Up(p)[2]]
  BY DEF StartsWith
<1>2. \A q \in Recorded(list) : Down(q) \in DOMAIN K /\ K[Down(q)] = list[q[1]][q[2]]
  BY DEF StartsWith
<1>3. \A b \in Block : /\ alloc[b] = "REC" <=> b \in ToSet(L) \/ \E r \in Rel : firstBlk[r] = b
                       /\ alloc[b] = "IND_LEAF" <=> \E q \in Recorded(list) : list[q[1]][q[2]].root = b
                       /\ alloc[b] # "IND_INTERNAL"
  BY DEF Laid
<1>4. /\ Len(list) \in Nat /\ Block = 0 .. DISK_BLOCKS - 1 /\ DISK_BLOCKS \in Nat
      /\ first \in [Rel -> (Len(list) .. DISK_BLOCKS - 1) \cup {-1, NotCreated}]
  BY CatalogAssumption DEF Start, Block
<1>5. \A r : r \in Owners <=> r \in Rel /\ first[r] \in Len(list) .. DISK_BLOCKS - 1
  BY <1>4 DEF Owners, NotCreated
<1>6. \A b \in ToSet(L) : alloc[b] = "REC"
  BY <1>3
<1>7. \A r \in Owners : alloc[firstBlk[r]] = "REC" /\ firstBlk[r] \notin ToSet(L)
  <2> SUFFICES ASSUME NEW r \in Owners PROVE alloc[firstBlk[r]] = "REC" /\ firstBlk[r] \notin ToSet(L)
    OBVIOUS
  <2>1. r \in Rel /\ firstBlk[r] \in Block /\ ~ (firstBlk[r] < Len(list))
    BY <1>4, <1>5
  <2> QED BY <1>3, <2>1
<1>8. \A r, s \in Owners : firstBlk[r] = firstBlk[s] => r = s
  BY <1>5 DEF Start
<1>9. \A b \in Block : alloc[b] = "REC" => b \in ToSet(L) \/ \E r \in Owners : firstBlk[r] = b
  <2> SUFFICES ASSUME NEW b \in Block, NEW r \in Rel, firstBlk[r] = b, b \notin ToSet(L) PROVE r \in Owners
    BY <1>3
  <2>1. b \in Len(list) .. DISK_BLOCKS - 1
    BY <1>4
  <2> QED BY <1>5, <2>1
<1>10. \A p \in DOMAIN K : K[p].root # -1 => alloc[K[p].root] = "IND_LEAF"
  <2> SUFFICES ASSUME NEW p \in DOMAIN K, K[p].root # -1 PROVE alloc[K[p].root] = "IND_LEAF"
    OBVIOUS
  <2>1. PICK q : q = Up(p)
    OBVIOUS
  <2>2. q \in Recorded(list) /\ list[q[1]][q[2]].root = K[p].root
    BY <1>1, <2>1
  <2>3. K[p].root \in Len(list) .. DISK_BLOCKS - 1
    BY <2>2 DEF Start
  <2>4. K[p].root \in Block
    BY <1>4, <2>3
  <2> QED BY <1>3, <2>2, <2>4
<1>11. ASSUME NEW p \in DOMAIN K, NEW q \in DOMAIN K, K[p].root = K[q].root, K[p].root # -1 PROVE p = q
  <2>1. Up(p) = Up(q)
    BY <1>1, <1>11 DEF Start
  <2> QED BY <1>1, <2>1
<1>12. \A b \in Block : alloc[b] = "IND_LEAF" => \E p \in DOMAIN K : K[p].root = b
  BY <1>2, <1>3
<1> QED BY <1>3, <1>6, <1>7, <1>8, <1>9, <1>10, <1>11, <1>12 DEF Accounts

\* The records of the image are those of the catalogs and those of relations.
LEMMA StartCounted ==
  ASSUME NEW list, NEW first, Start(list, first), NEW K, StartsWith(list, K),
         NEW I, \A b \in Block : Laid(list, first, I, b), deleted = 0,
         numRecs = Cardinality({p \in Block \X Slot : I.run[p[1]].slots[p[2]] # NoRec})
  PROVE  Counted(K)
<1>1. \A p \in DOMAIN K : /\ Up(p) \in Recorded(list) /\ Down(Up(p)) = p
                          /\ K[p] = list[Up(p)[1]][Up(p)[2]]
  BY DEF StartsWith
<1>2. \A q \in Recorded(list) : Down(q) \in DOMAIN K /\ K[Down(q)] = list[q[1]][q[2]]
  BY DEF StartsWith
<1>3. /\ list \in Seq([Slot -> {NoRec, OwnRec} \cup AttrRec]) /\ Len(list) \in 1 .. DISK_BLOCKS
      /\ DISK_BLOCKS \in Nat /\ Block = 0 .. DISK_BLOCKS - 1
      /\ OwnSlots \in 1 .. SLOTS /\ SLOTS \in Nat /\ Slot = 1 .. SLOTS
  BY CatalogAssumption DEF Start, Block, Slot
<1>4. \A i \in 1 .. Len(list), s \in Slot : list[i][s] \in {NoRec, OwnRec} \cup AttrRec
  BY <1>3
<1>5. NoRec # OwnRec /\ NoRec \notin AttrRec /\ OwnRec \notin AttrRec
  BY CatalogAssumption DEF NoRec, OwnRec, AttrRec
<1> DEFINE A == {p \in Block \X Slot : I.run[p[1]].slots[p[2]] # NoRec}
           O == {First} \X (1 .. OwnSlots)
<1>6. \A i \in 1 .. Len(list), s \in Slot : list[i][s] = OwnRec <=> i = 1 /\ s <= OwnSlots
  <2> SUFFICES ASSUME NEW i \in 1 .. Len(list), NEW s \in Slot
               PROVE  list[i][s] = OwnRec <=> i = 1 /\ s <= OwnSlots
    OBVIOUS
  <2>1. <<i, s>> \in (1 .. Len(list)) \X Slot /\ <<i, s>>[1] = i /\ <<i, s>>[2] = s
    OBVIOUS
  <2> QED BY <2>1 DEF Start
<1>7. ASSUME NEW i, NEW s
      PROVE  <<i, s>> \in Recorded(list) <=> i \in 1 .. Len(list) /\ s \in Slot /\ list[i][s] \in AttrRec
  <2>1. <<i, s>>[1] = i /\ <<i, s>>[2] = s
    OBVIOUS
  <2> QED BY <2>1 DEF Recorded
<1>8. ASSUME NEW b \in Block, NEW s \in Slot
      PROVE  /\ <<b, s>> \in A <=> b < Len(list) /\ list[b + 1][s] # NoRec
             /\ <<b, s>> \in O <=> b < Len(list) /\ list[b + 1][s] = OwnRec
             /\ <<b, s>> \in DOMAIN K <=> b < Len(list) /\ list[b + 1][s] \in AttrRec
  <2>1. <<b, s>>[1] = b /\ <<b, s>>[2] = s /\ b \in Nat
    BY <1>3
  <2>2. b < Len(list) => b + 1 \in 1 .. Len(list) /\ I.run[b].slots = list[b + 1]
    BY <1>3 DEF Laid
  <2>3. ~ (b < Len(list)) => I.run[b].slots[s] = NoRec
    BY DEF Laid, Plain
  <2>4. <<b, s>> \in A <=> b < Len(list) /\ list[b + 1][s] # NoRec
    BY <2>1, <2>2, <2>3
  <2>5. <<b, s>> \in O <=> b = 0 /\ s <= OwnSlots
    BY <1>3 DEF First
  <2>6. <<b, s>> \in O <=> b < Len(list) /\ list[b + 1][s] = OwnRec
    BY <1>3, <1>6, <2>2, <2>5
  <2>7. <<b, s>> \in DOMAIN K => b < Len(list) /\ list[b + 1][s] \in AttrRec
    <3> SUFFICES ASSUME <<b, s>> \in DOMAIN K PROVE b < Len(list) /\ list[b + 1][s] \in AttrRec
      OBVIOUS
    <3>1. <<b + 1, s>> \in Recorded(list)
      BY <1>1, <2>1 DEF Up
    <3>2. b + 1 \in 1 .. Len(list) /\ list[b + 1][s] \in AttrRec
      BY <1>7, <3>1
    <3> QED BY <1>3, <2>1, <3>2
  <2>8. b < Len(list) /\ list[b + 1][s] \in AttrRec => <<b, s>> \in DOMAIN K
    <3> SUFFICES ASSUME b < Len(list), list[b + 1][s] \in AttrRec PROVE <<b, s>> \in DOMAIN K
      OBVIOUS
    <3>1. <<b + 1, s>> \in Recorded(list)
      BY <1>7, <2>2
    <3>2. Down(<<b + 1, s>>) = <<b, s>>
      <4>1. <<b + 1, s>>[1] = b + 1 /\ <<b + 1, s>>[2] = s /\ (b + 1) - 1 = b
        BY <2>1
      <4> QED BY <4>1 DEF Down
    <3> QED BY <1>2, <3>1, <3>2
  <2> QED BY <2>4, <2>6, <2>7, <2>8
<1>9. DOMAIN K \subseteq Block \X Slot
  <2> SUFFICES ASSUME NEW p \in DOMAIN K PROVE p \in Block \X Slot
    OBVIOUS
  <2>1. PICK q : q = Up(p)
    OBVIOUS
  <2>2. q[1] \in 1 .. Len(list) /\ q[2] \in Slot /\ p = <<q[1] - 1, q[2]>>
    BY <1>1, <2>1 DEF Recorded, Down
  <2>3. q[1] - 1 \in Block
    BY <1>3, <2>2
  <2> QED BY <2>2, <2>3
<1>10. O \subseteq Block \X Slot /\ A \subseteq Block \X Slot
  BY <1>3, Sizes
<1> HIDE DEF A, O
<1>11. \A b \in Block, s \in Slot : b < Len(list) => list[b + 1][s] \in {NoRec, OwnRec} \cup AttrRec
  <2>1. \A b \in Block : b < Len(list) => b + 1 \in 1 .. Len(list)
    BY <1>3
  <2> QED BY <1>4, <2>1
<1>12. A = O \cup DOMAIN K /\ O \cap DOMAIN K = {}
  <2>1. ASSUME NEW b \in Block, NEW s \in Slot
        PROVE  /\ <<b, s>> \in A <=> <<b, s>> \in O \/ <<b, s>> \in DOMAIN K
               /\ ~ (<<b, s>> \in O /\ <<b, s>> \in DOMAIN K)
    BY <1>5, <1>8, <1>11
  <2> QED BY <1>9, <1>10, <2>1
<1>13. IsFiniteSet(O) /\ Cardinality(O) = OwnSlots
  <2>1. IsFiniteSet({First}) /\ Cardinality({First}) = 1
    BY FS_Singleton
  <2>4. OwnSlots \in Int /\ 1 \in Int /\ ~ (1 > OwnSlots) /\ OwnSlots - 1 + 1 = OwnSlots
    BY <1>3
  <2>2. IsFiniteSet(1 .. OwnSlots) /\ Cardinality(1 .. OwnSlots) = OwnSlots
    BY <2>4, FS_Interval
  <2> DEFINE S == {First}
             T == 1 .. OwnSlots
  <2> HIDE DEF S, T
  <2>5. IsFiniteSet(S \X T) /\ Cardinality(S \X T) = Cardinality(S) * Cardinality(T)
    BY <2>1, <2>2, FS_Product DEF S, T
  <2>6. O = S \X T
    BY DEF O, S, T
  <2>3. IsFiniteSet(O) /\ Cardinality(O) = 1 * OwnSlots
    BY <2>1, <2>2, <2>5, <2>6 DEF S, T
  <2> QED BY <1>3, <2>3
<1>14. IsFiniteSet(DOMAIN K)
  <2>1. IsFiniteSet(Block \X Slot)
    BY Sizes, FS_Product
  <2> QED BY <1>9, <2>1, FS_Subset
<1>15. Cardinality(A) = OwnSlots + Cardinality(DOMAIN K)
  <2>1. Cardinality(O \cup DOMAIN K) = Cardinality(O) + Cardinality(DOMAIN K) - Cardinality(O \cap DOMAIN K)
    BY <1>13, <1>14, FS_Union
  <2>2. Cardinality(O \cap DOMAIN K) = 0
    BY <1>12, FS_EmptySet
  <2>3. Cardinality(DOMAIN K) \in Nat /\ OwnSlots \in Nat
    BY <1>3, <1>14, FS_CardinalityType
  <2>4. A = O \cup DOMAIN K
    BY <1>12
  <2> QED BY <1>13, <2>1, <2>2, <2>3, <2>4
<1>16. numRecs = Cardinality(A)
  BY DEF A
<1>17. Cardinality(DOMAIN K) \in Nat /\ OwnSlots \in Nat
  BY <1>3, <1>14, FS_CardinalityType
<1> QED BY <1>14, <1>15, <1>16, <1>17 DEF Counted

LEMMA InitOk ==
  ASSUME OneLeaf, Init
  PROVE  Inv
<1>1. PICK d \in Databases : /\ run = Image(d.list, d.firstBlk).run
                             /\ alloc = Image(d.list, d.firstBlk).alloc
                             /\ firstBlk = d.firstBlk
  BY DEF Init
<1>2. PICK list, first, N, I : list = d.list /\ first = d.firstBlk /\ N = Len(list) /\ I = Image(list, first)
  OBVIOUS
<1>3. Start(list, first)
  BY <1>2, DatabasesAssumption, StartIs
<1>4. \A b \in Block : Laid(list, first, I, b)
  BY <1>2, <1>3, ImageIs
<1>5. /\ numRecs = Cardinality({p \in Block \X Slot : run[p[1]].slots[p[2]] # NoRec})
      /\ mem = run /\ held = {} /\ lost = FALSE /\ pc = "idle" /\ cur = "none" /\ attr = 0
      /\ prev = -1 /\ at = <<-1, 1>> /\ deleted = 0
  BY DEF Init
<1>6. run = I.run /\ alloc = I.alloc /\ firstBlk = first
  BY <1>1, <1>2
<1>7. /\ N \in 1 .. DISK_BLOCKS /\ N \in Nat /\ DISK_BLOCKS \in Nat /\ Block = 0 .. DISK_BLOCKS - 1
      /\ first \in [Rel -> (N .. DISK_BLOCKS - 1) \cup {-1, NotCreated}]
      /\ SLOTS \in Nat /\ OwnSlots \in 1 .. SLOTS /\ Slot = 1 .. SLOTS /\ First = 0
  BY <1>2, <1>3, CatalogAssumption DEF Start, Block, Slot, First
<1>8. run \in [Block -> Bytes] /\ alloc \in [Block -> BlockType]
  <2>1. run = [b \in Block |-> I.run[b]] /\ alloc = [b \in Block |-> I.alloc[b]]
    BY <1>2, <1>6 DEF Image
  <2>2. \A b \in Block : I.run[b] \in Bytes /\ I.alloc[b] \in BlockType
    BY <1>4 DEF Laid
  <2> QED BY <2>1, <2>2
<1>9. First \in Block /\ alloc[First] # "UNUSED_BLK"
  <2>1. First \in Block /\ First < Len(list)
    BY <1>2, <1>7
  <2> QED BY <1>4, <1>6, <2>1 DEF Laid
<1>10. Buf \in Buffers /\ Coherent(Buf) /\ \A b \in Block : mem[b] = run[b]
  BY <1>5, <1>8 DEF Buf, Buffers, Coherent
<1>11. PICK L, D, K : L = [i \in 1 .. N |-> i - 1] /\ D = Content /\ K = Entries(L, D)
  OBVIOUS
<1>12. \A b \in Block : D[b] = I.run[b]
  BY <1>6, <1>10, <1>11 DEF Content, Buf
<1>13. /\ L \in Seq(Block) /\ Len(L) = N /\ \A i \in 1 .. N : L[i] = i - 1 /\ i - 1 \in Block /\ i - 1 < N
       /\ \A b \in Block : b < N => b + 1 \in 1 .. N /\ L[b + 1] = b
  <2>1. \A i \in 1 .. N : i - 1 \in Block /\ i - 1 < N
    BY <1>7
  <2>2. L \in Seq(Block) /\ Len(L) = N
    BY <1>7, <1>11, <2>1
  <2>3. \A b \in Block : b < N => b + 1 \in 1 .. N /\ (b + 1) - 1 = b
    BY <1>7
  <2> QED BY <1>11, <2>1, <2>2, <2>3
<1>14. List(L, D)
  <2>1. \A i \in 1 .. N : /\ D[L[i]].lblock = i - 2 /\ D[L[i]].slots = list[i]
                          /\ D[L[i]].rblock = IF i < N THEN i ELSE -1
    <3> SUFFICES ASSUME NEW i \in 1 .. N
                 PROVE  /\ D[L[i]].lblock = i - 2 /\ D[L[i]].slots = list[i]
                        /\ D[L[i]].rblock = IF i < N THEN i ELSE -1
      OBVIOUS
    <3>1. PICK b : b = L[i]
      OBVIOUS
    <3>2. b \in Block /\ b < Len(list) /\ b + 1 = i /\ b - 1 = i - 2
      BY <1>2, <1>7, <1>13, <3>1
    <3>3. /\ I.run[b].slots = list[b + 1] /\ I.run[b].lblock = b - 1
          /\ I.run[b].rblock = IF b + 1 < N THEN b + 1 ELSE -1
      BY <1>2, <1>4, <3>2 DEF Laid
    <3> QED BY <1>12, <3>1, <3>2, <3>3
  <2>2. \A i, j \in 1 .. Len(L) : L[i] = L[j] => i = j
    BY <1>13
  <2>3. \A i \in 1 .. Len(L) : D[L[i]].rblock = IF i = Len(L) THEN -1 ELSE L[i + 1]
    <3>1. \A i \in 1 .. N : i # N => i + 1 \in 1 .. N /\ (i + 1) - 1 = i /\ i < N
      BY <1>7
    <3> QED BY <1>7, <1>13, <2>1, <3>1
  <2>4. \A i \in 2 .. Len(L) : D[L[i]].lblock = L[i - 1]
    <3>1. \A i \in 2 .. N : i \in 1 .. N /\ i - 1 \in 1 .. N /\ (i - 1) - 1 = i - 2
      BY <1>7
    <3> QED BY <1>13, <2>1, <3>1
  <2>5. D[First].slots[1] = OwnRec
    <3>1. 1 \in 1 .. N /\ L[1] = First /\ 1 \in Slot /\ 1 <= OwnSlots
      BY <1>7, <1>13
    <3>2. D[First].slots = list[1]
      BY <2>1, <3>1
    <3>3. list[1][1] = OwnRec
      <4>1. <<1, 1>> \in (1 .. Len(list)) \X Slot /\ <<1, 1>>[1] = 1 /\ <<1, 1>>[2] = 1
        BY <1>2, <3>1
      <4> QED BY <1>3, <3>1, <4>1 DEF Start
    <3> QED BY <3>2, <3>3
  <2>6. \A i \in 2 .. Len(L) : \E s \in Slot : D[L[i]].slots[s] # NoRec
    <3> SUFFICES ASSUME NEW i \in 2 .. N PROVE \E s \in Slot : D[L[i]].slots[s] # NoRec
      BY <1>13
    <3>1. i \in 1 .. N
      BY <1>7
    <3>2. \E s \in Slot : list[i][s] # NoRec
      BY <1>2, <1>3 DEF Start
    <3> QED BY <2>1, <3>1, <3>2
  <2>7. Len(L) > 0 /\ L[1] = First
    BY <1>7, <1>13
  <2> QED BY <1>13, <2>2, <2>3, <2>4, <2>5, <2>6, <2>7 DEF List
<1>15. ToSet(L) \subseteq Block /\ \A b \in Block : b \in ToSet(L) <=> b < Len(list)
  <2>1. ToSet(L) \subseteq Block /\ \A i \in 1 .. Len(L) : L[i] \in ToSet(L)
    BY <1>14, ListIs
  <2>2. \A b \in ToSet(L) : \E i \in 1 .. Len(L) : L[i] = b
    BY <1>14, ListIs
  <2>3. \A b \in Block : b \in ToSet(L) => b < N
    BY <1>13, <2>2
  <2>4. \A b \in Block : b < N => b \in ToSet(L)
    BY <1>13, <2>1
  <2> QED BY <1>2, <2>1, <2>3, <2>4
<1>16. StartsWith(list, K)
  BY <1>3, <1>4, <1>11, <1>12, <1>14, <1>15, StartEntries
<1>17. Catalogued(K)
  BY <1>3, <1>5, <1>6, <1>16, StartCatalogued
<1>18. Accounts(L, K)
  BY <1>3, <1>4, <1>5, <1>6, <1>15, <1>16, StartAccounts
<1>19. Counted(K)
  BY <1>3, <1>4, <1>5, <1>6, <1>16, StartCounted
<1>20. LeavesPlain(D)
  BY <1>4, <1>12 DEF LeavesPlain, Laid
<1>21. Position(L, D, K)
  BY <1>5 DEF Position
<1>22. Scalars
  <2>1. firstBlk \in [Rel -> BlockOrNo \cup {NotCreated}]
    BY <1>6, <1>7 DEF BlockOrNo
  <2>2. numRecs \in Nat
    <3>1. IsFiniteSet(DOMAIN K) /\ numRecs = OwnSlots + Cardinality(DOMAIN K) + deleted
      BY <1>19 DEF Counted
    <3>2. Cardinality(DOMAIN K) \in Nat
      BY <3>1, FS_CardinalityType
    <3> QED BY <1>5, <1>7, <3>1, <3>2
  <2>3. at \in BlockOrNo \X (1 .. SLOTS + 1) /\ prev \in BlockOrNo
    BY <1>5, <1>7 DEF BlockOrNo
  <2> QED BY <1>5, <2>1, <2>2, <2>3 DEF Scalars
<1>23. Holds(L, D, K)
  BY <1>10, <1>11, <1>14, <1>17, <1>18, <1>19, <1>20, <1>21, <1>22 DEF Holds, Sound
<1>24. IInv
  BY <1>23 DEF IInv
<1> QED BY <1>5, <1>24 DEF Inv

-----------------------------------------------------------------------------
(* The theorems.                                                           *)

\* The blocks of the list, the records in them and the owners of the blocks
\* keep agreeing through every operation, every replacement of frames and every
\* new session, until a record is lost on a full disk.
THEOREM CatalogInvariant ==
  ASSUME OneLeaf
  PROVE  Spec => []Inv
<1>1. Init => Inv
  BY InitOk
<1>2. Inv /\ [Next]_vars => Inv'
  BY NextOk
<1> QED BY <1>1, <1>2, PTL DEF Spec

\* Every variable keeps its type.
THEOREM TypeCorrect ==
  ASSUME OneLeaf
  PROVE  Spec => []TypeOK
<1>1. Inv => TypeOK
  BY TypeIs
<1> QED BY <1>1, CatalogInvariant, PTL

\* Between operations the catalog has one record of each attribute of each
\* relation and no other, and the cached count is theirs, unless a record was
\* lost on a full disk: createRel, also when it takes everything back, and
\* deleteRel, whose search goes on in a block that was released, miss none.
THEOREM CatalogIsExact ==
  ASSUME OneLeaf
  PROVE  Spec => []CatalogExact
<1>1. Inv => CatalogExact
  BY ExactIs
<1> QED BY <1>1, CatalogInvariant, PTL

\* Between operations the blocks of the list are linked both ways, and none
\* but the first is empty, unless a record was lost on a full disk.
THEOREM ListIsLinked ==
  ASSUME OneLeaf
  PROVE  Spec => []ListLinked
<1>1. Inv => ListLinked
  BY LinkedIs
<1> QED BY <1>1, CatalogInvariant, PTL

\* Between operations each allocated block has one owner, the list, a relation
\* or an index, unless a record was lost on a full disk.
THEOREM NothingLeaks ==
  ASSUME OneLeaf
  PROVE  Spec => []NoLeak
<1>1. Inv => NoLeak
  BY LeakIs
<1> QED BY <1>1, CatalogInvariant, PTL

\* When the search of deleteRel goes on in a block that was released, a frame
\* still has the bytes of that block.
THEOREM SearchFindsItsBlock ==
  ASSUME OneLeaf
  PROVE  Spec => []SearchBlockPresent
<1>1. Inv => SearchBlockPresent
  BY SearchIs
<1> QED BY <1>1, CatalogInvariant, PTL
=============================================================================
