-------------------------- MODULE BPlusTree_proofs --------------------------
(***************************************************************************)
(* The blocks of the index form one tree whose parent links, keys and      *)
(* leaves agree, and no block of it is lost, wherever an insertion runs    *)
(* out of blocks.  The leaves are linked in the order of the tree through  *)
(* all steps, so that a search finds what it should.                       *)
(***************************************************************************)
EXTENDS BPlusTree_inv, FiniteSetTheorems

-----------------------------------------------------------------------------
(* What follows from the inductive invariant.                              *)

\* The invariant is one: the tree is whole whichever way the calls of an
\* insertion, of bPlusCreate and of bPlusDestroy follow each other.
THEOREM TreeInvariant ==
  ASSUME Distinct, Numeric
  PROVE  Spec => []IInv
<1>1. Init => IInv
  BY InitOk
<1>2. IInv /\ [Next]_vars => IInv'
  BY NextOk
<1> QED BY <1>1, <1>2, PTL DEF Spec

\* Every variable keeps its type, and a block never gets more entries than fit.
THEOREM TypeCorrect ==
  ASSUME Distinct, Numeric
  PROVE  Spec => []TypeOK
<1>1. IInv => TypeOK
  <2> SUFFICES ASSUME IInv
               PROVE  TypeOK
    OBVIOUS
  <2>1. TypeInv
    BY DEF IInv
  <2>2. ASSUME NEW b \in Block
        PROVE  /\ blk[b] \in Blocks /\ Fits(b)
               /\ ToSet(blk[b].recs) \subseteq Recs /\ ToSet(blk[b].keys) \subseteq Vals
               /\ ToSet(blk[b].kids) \subseteq Block
    BY <2>1 DEF TypeInv, Blocks, ToSet
  <2>3. ASSUME NEW b \in Block
        PROVE  Len(blk[b].kids) = IF IsInternal(b) THEN Len(blk[b].keys) + 1 ELSE 0
    BY <2>2 DEF Fits
  <2>4. ASSUME NEW b \in Block
        PROVE  /\ blk[b].type \in {"UNUSED_BLK", "REC", "IND_LEAF", "IND_INTERNAL"}
               /\ {blk[b].pblock, blk[b].lblock, blk[b].rblock} \subseteq Block \cup {-1}
               /\ Len(blk[b].recs) <= MAX_KEYS_LEAF /\ Len(blk[b].keys) <= MAX_KEYS_INTERNAL
    BY <2>2 DEF Blocks, BlockType, Fits
  <2>5. /\ root \in Block \cup {-1} /\ at \in Block \cup {-1}
        /\ rows \in Seq(Recs) /\ todo \in Seq(Recs) /\ rec \in ToSet(rows) \cup {NoRec}
        /\ pc \in {"idle", "next", "find", "internal", "newroot"}
    BY <2>1 DEF TypeInv
  <2> QED BY <2>2, <2>3, <2>4, <2>5 DEF TypeOK
<1> QED BY <1>1, TreeInvariant, PTL

\* The parent links that splits climb by are those of the tree.
THEOREM ParentsAgree ==
  ASSUME Distinct, Numeric
  PROVE  Spec => []ParentLinks
<1>1. IInv => ParentLinks
  <2> SUFFICES ASSUME IInv, Indexed
               PROVE  /\ blk[root].pblock = -1
                      /\ \A b \in Block : \A k \in ToSet(blk[b].kids) : blk[k].pblock = b
    BY DEF ParentLinks
  <2>1. TypeInv /\ Control
    BY DEF IInv
  <2>2. PICK range \in [Block -> SUBSET Vals], level \in [Block -> Nat] : Tree(range, level)
    BY DEF IInv
  <2>3. blk[root].pblock = -1
    BY <2>1 DEF Control, Indexed
  <2>4. ASSUME NEW b \in Block, NEW k \in ToSet(blk[b].kids)
        PROVE  blk[k].pblock = b
    <3>1. blk[b].kids \in Seq(Block) /\ Fits(b)
      BY <2>1 DEF TypeInv, Blocks
    <3>2. PICK i \in 1 .. Len(blk[b].kids) : k = blk[b].kids[i]
      <4>1. DOMAIN blk[b].kids = 1 .. Len(blk[b].kids)
        BY <3>1
      <4> QED BY <2>4, <4>1 DEF ToSet
    <3>3. IsInternal(b)
      <4>1. Len(blk[b].kids) # 0
        BY <3>1, <3>2
      <4> QED BY <3>1, <4>1 DEF Fits
    <3>4. InternalOk(b, range, level)
      BY <2>2, <3>3 DEF Tree
    <3> QED BY <3>2, <3>4 DEF InternalOk, ChildOk
  <2> QED BY <2>3, <2>4
<1> QED BY <1>1, TreeInvariant, PTL

\* The keys of every internal block ascend.
THEOREM KeysSorted ==
  ASSUME Distinct, Numeric
  PROVE  Spec => []KeysAscend
<1>1. IInv => KeysAscend
  <2> SUFFICES ASSUME IInv, NEW b \in Block
               PROVE  IsSorted(blk[b].keys, <)
    BY DEF KeysAscend
  <2>1. TypeInv
    BY DEF IInv
  <2>2. PICK range \in [Block -> SUBSET Vals], level \in [Block -> Nat] : Tree(range, level)
    BY DEF IInv
  <2>3. CASE IsInternal(b)
    <3>1. Ascend(blk[b].keys)
      BY <2>2, <2>3 DEF Tree, InternalOk
    <3> QED BY <3>1 DEF Ascend, IsSorted
  <2>4. CASE ~ IsInternal(b)
    <3>1. Len(blk[b].keys) = 0
      BY <2>1, <2>4 DEF TypeInv, Fits
    <3> QED BY <3>1 DEF IsSorted
  <2> QED BY <2>3, <2>4
<1> QED BY <1>1, TreeInvariant, PTL

\* No split, failed split or destruction loses a block of the index.
THEOREM NoneLost ==
  ASSUME Distinct, Numeric
  PROVE  Spec => []NoOrphans
<1>1. IInv => NoOrphans
  <2> SUFFICES ASSUME IInv, pc = "idle"
               PROVE  Index = IF root = -1 THEN {} ELSE Subtree(root)
    BY DEF NoOrphans, Index
  <2>1. TypeInv /\ Control /\ ~ Splitting
    BY DEF IInv, Splitting
  <2>2. PICK range \in [Block -> SUBSET Vals], level \in [Block -> Nat] : Tree(range, level)
    BY DEF IInv
  <2>3. CASE root = -1
    BY <2>1, <2>3 DEF Control
  <2>4. CASE root # -1
    BY <2>1, <2>2, <2>4, Whole
  <2> QED BY <2>3, <2>4
<1> QED BY <1>1, TreeInvariant, PTL

-----------------------------------------------------------------------------
(* The height of the tree.                                                 *)

\* the recursion of Depths
Deep(t) ==
  [c \in Block |-> IF IsLeaf(c) THEN {0}
                   ELSE {d + 1 : d \in UNION {t[k] : k \in ToSet(blk[c].kids)}}]

\* what the levels say of an internal block
OneLower(c, level) ==
  /\ ToSet(blk[c].kids) # {} /\ ToSet(blk[c].kids) \subseteq Index
  /\ \A k \in ToSet(blk[c].kids) : level[c] = level[k] + 1

\* One step of the recursion, where the children have one depth each.
LEMMA DeepStep ==
  ASSUME NEW level \in [Block -> Nat], NEW c \in Block, IsInternal(c), OneLower(c, level),
         NEW t, \A k \in ToSet(blk[c].kids) : t[k] = {level[k]}
  PROVE  Deep(t)[c] = {level[c]}
<1> DEFINE K == ToSet(blk[c].kids)
           U == UNION {t[k] : k \in K}
<1>1. ~ IsLeaf(c)
  BY DEF IsLeaf, IsInternal
<1>2. Deep(t)[c] = {d + 1 : d \in U}
  BY <1>1 DEF Deep
<1>3. K \subseteq Block /\ K # {} /\ \A k \in K : level[k] \in Nat /\ level[k] = level[c] - 1
  <2>1. K \subseteq Block
    BY DEF OneLower, Index
  <2>2. ASSUME NEW k \in K PROVE level[k] \in Nat /\ level[k] = level[c] - 1
    <3>1. level[k] \in Nat /\ level[c] \in Nat /\ level[c] = level[k] + 1
      BY <2>1, <2>2 DEF OneLower
    <3> QED BY <3>1
  <2> QED BY <2>1, <2>2 DEF OneLower
<1>4. U = {level[c] - 1}
  <2>1. \A k \in K : t[k] = {level[c] - 1}
    BY <1>3
  <2> HIDE DEF K
  <2> QED BY <1>3, <2>1
<1> HIDE DEF U, K
<1>5. level[c] \in Nat
  OBVIOUS
<1>6. {d + 1 : d \in {level[c] - 1}} = {level[c]}
  BY <1>5
<1> QED BY <1>2, <1>4, <1>6

\* All leaves below a block are as far below it as its level says.
LEMMA DepthsIs ==
  ASSUME NEW level \in [Block -> Nat],
         \A c \in Block : IsLeaf(c) => level[c] = 0,
         \A c \in Block : IsInternal(c) => OneLower(c, level),
         \A c \in Block : c \notin Index => ToSet(blk[c].kids) = {}
  PROVE  \A c \in Index : Depths(c) = {level[c]}
<1> DEFINE F == [c \in Block |-> IF c \in Index THEN {level[c]} ELSE {}]
           s == CHOOSE t : t = Deep(t)
           T == {n \in Nat : \E c \in Index : level[c] = n /\ s[c] # {n}}
<1>1. Index \subseteq Block /\ \A c \in Index : IsLeaf(c) \/ IsInternal(c)
  BY DEF Index
<1>2. ASSUME NEW c \in Block PROVE F[c] = Deep(F)[c]
  <2>1. CASE IsLeaf(c)
    <3>1. F[c] = {0}
      BY <2>1 DEF Index
    <3> HIDE DEF F
    <3> QED BY <2>1, <3>1 DEF Deep
  <2>2. CASE IsInternal(c)
    <3>1. F[c] = {level[c]} /\ \A k \in ToSet(blk[c].kids) : F[k] = {level[k]}
      BY <1>1, <2>2 DEF OneLower, Index
    <3> HIDE DEF F
    <3> QED BY <2>2, <3>1, DeepStep
  <2>3. CASE c \notin Index
    <3>1. F[c] = {} /\ ToSet(blk[c].kids) = {} /\ ~ IsLeaf(c)
      BY <2>3 DEF Index
    <3> HIDE DEF F
    <3>2. Deep(F)[c] = {d + 1 : d \in UNION {F[k] : k \in {}}}
      BY <3>1 DEF Deep
    <3> QED BY <3>1, <3>2
  <2> QED BY <2>1, <2>2, <2>3 DEF Index
<1>3. F = Deep(F)
  <2>1. F = [c \in Block |-> F[c]] /\ Deep(F) = [c \in Block |-> Deep(F)[c]]
    BY DEF Deep
  <2> HIDE DEF F
  <2> QED BY <1>2, <2>1
<1>4. s = Deep(s)
  <2> HIDE DEF F
  <2> QED BY <1>3, Zenon
<1>5. \A c : Depths(c) = s[c]
  BY Zenon DEF Depths, Deep
<1> HIDE DEF s, F
<1>6. T = {}
  <2> SUFFICES ASSUME T # {} PROVE FALSE
    OBVIOUS
  <2>1. T \subseteq Nat
    OBVIOUS
  <2>2. PICK n \in T : \A m \in T : n <= m
    <3> HIDE DEF T
    <3> QED BY <2>1, LeastNumber
  <2>3. PICK c \in Index : level[c] = n /\ s[c] # {n}
    BY <2>2
  <2>4. CASE IsLeaf(c)
    <3>1. Deep(s)[c] = {0}
      BY <1>1, <2>4 DEF Deep
    <3> QED BY <1>1, <1>4, <2>3, <2>4, <3>1
  <2>5. CASE IsInternal(c)
    <3>1. OneLower(c, level)
      BY <1>1, <2>5
    <3>2. ASSUME NEW k \in ToSet(blk[c].kids) PROVE s[k] = {level[k]}
      <4>1. k \in Index /\ level[k] \in Nat /\ n = level[k] + 1
        BY <1>1, <2>3, <3>1 DEF OneLower
      <4>2. level[k] \notin T
        BY <2>2, <4>1
      <4> QED BY <4>1, <4>2
    <3>3. Deep(s)[c] = {level[c]}
      BY <1>1, <2>5, <3>1, <3>2, DeepStep
    <3> QED BY <1>4, <2>3, <3>3
  <2> QED BY <1>1, <2>4, <2>5
<1>7. ASSUME NEW c \in Index PROVE s[c] = {level[c]}
  <2>1. level[c] \in Nat
    BY <1>1
  <2> QED BY <1>6, <2>1
<1> QED BY <1>5, <1>7

\* All leaves are at the same depth, however often the tree has been split.
THEOREM HeightBalanced ==
  ASSUME Distinct, Numeric
  PROVE  Spec => []Balanced
<1>1. IInv => Balanced
  <2> SUFFICES ASSUME IInv, Indexed PROVE Cardinality(Depths(root)) = 1
    BY DEF Balanced
  <2>1. TypeInv /\ Control
    BY DEF IInv
  <2>2. PICK range \in [Block -> SUBSET Vals], level \in [Block -> Nat] : Tree(range, level)
    BY DEF IInv
  <2>3. ASSUME NEW c \in Block
        PROVE  /\ blk[c].kids \in Seq(Block) /\ Fits(c)
               /\ \A k : k \in ToSet(blk[c].kids) <=>
                    \E i \in 1 .. Len(blk[c].kids) : k = blk[c].kids[i]
    <3>1. blk[c].kids \in Seq(Block) /\ Fits(c)
      BY <2>1 DEF TypeInv, Blocks
    <3>2. DOMAIN blk[c].kids = 1 .. Len(blk[c].kids)
      BY <3>1
    <3> QED BY <3>1, <3>2 DEF ToSet
  <2>4. ASSUME NEW c \in Block, IsLeaf(c) PROVE level[c] = 0
    BY <2>2, <2>4 DEF Tree, LeafOk
  <2>5. ASSUME NEW c \in Block, IsInternal(c) PROVE OneLower(c, level)
    <3>1. InternalOk(c, range, level)
      BY <2>2, <2>5 DEF Tree
    <3>2. Len(blk[c].kids) = Len(blk[c].keys) + 1 /\ blk[c].keys \in Seq(Vals)
      BY <2>1, <2>3, <2>5 DEF Fits, TypeInv, Blocks
    <3>3. blk[c].kids[1] \in ToSet(blk[c].kids)
      <4>1. 1 \in 1 .. Len(blk[c].kids)
        BY <3>2
      <4> QED BY <2>3, <4>1
    <3>4. ASSUME NEW k \in ToSet(blk[c].kids) PROVE k \in Index /\ level[c] = level[k] + 1
      <4>1. PICK i \in 1 .. Len(blk[c].kids) : k = blk[c].kids[i]
        BY <2>3, Zenon
      <4>2. ChildOk(c, k, range, level, Slice(range[c], blk[c].keys, i))
        BY <3>1, <4>1 DEF InternalOk
      <4> QED BY <4>2 DEF ChildOk
    <3> QED BY <3>3, <3>4, Zenon DEF OneLower
  <2>6. ASSUME NEW c \in Block, c \notin Index PROVE ToSet(blk[c].kids) = {}
    <3>1. Len(blk[c].kids) = 0
      BY <2>3, <2>6 DEF Fits, Index
    <3>2. ~ \E i \in 1 .. Len(blk[c].kids) : TRUE
      BY <3>1
    <3>3. \A k : k \notin ToSet(blk[c].kids)
      BY <2>3, <3>2, Zenon
    <3> QED BY <3>3, Zenon
  <2>7. root \in Index
    BY <2>1 DEF Control, Indexed
  <2>8. Depths(root) = {level[root]}
    BY <2>4, <2>5, <2>6, <2>7, DepthsIs
  <2> QED BY <2>8, FS_Singleton
<1> QED BY <1>1, TreeInvariant, PTL

-----------------------------------------------------------------------------
(* The leaves and their chain.                                             *)

Leaf == {b \in Block : IsLeaf(b)}

\* record r has been put into a leaf
InLeaf(r) == \E b \in Leaf : r \in ToSet(blk[b].recs)

\* v is the value of such a record
HasValue(v) == \E r \in Recs : InLeaf(r) /\ ValOf[r] = v

\* the values in leaf b are smaller than those in leaf c
Below(b, c) == \A r \in ToSet(blk[b].recs), s \in ToSet(blk[c].recs) : ValOf[r] < ValOf[s]

\* L lists the leaves as rblock links them, in the order of their values
Linked(L) ==
  /\ L \in Seq(Block) /\ OnceOnly(L) /\ ToSet(L) = Leaf
  /\ \A i \in 1 .. Len(L) : blk[L[i]].rblock = IF i = Len(L) THEN -1 ELSE L[i + 1]
  /\ \A i, j \in 1 .. Len(L) : i < j => Below(L[i], L[j])
  /\ Len(L) > 1 => \A i \in 1 .. Len(L) : blk[L[i]].recs # <<>>

\* the records whose insertion is complete are in the leaves
RecordsIn == root # -1 => \A r \in ToSet(rows) \ Waiting : InLeaf(r)

\* a key is the value of a record: the last one in the leaves on its left
KeysFound ==
  /\ \A b \in Block : IsInternal(b) => \A v \in ToSet(blk[b].keys) : HasValue(v)
  /\ Splitting => HasValue(up.key)

JInv ==
  /\ pc = "idle" => todo = <<>>
  /\ RecordsIn /\ KeysFound
  /\ \E L \in Seq(Block) : Linked(L)

\* Without index blocks there is nothing to link.
LEMMA NoLeaves ==
  ASSUME IInv', root' = -1, todo' = <<>>, ~ Splitting'
  PROVE  JInv'
<1>1. Index' = {}
  BY DEF IInv, Control
<1>2. Leaf' = {} /\ \A b \in Block : ~ IsInternal(b)'
  BY <1>1 DEF Index, Leaf
<1>3. KeysFound' /\ RecordsIn'
  BY <1>2 DEF KeysFound, RecordsIn
<1>4. Linked(<<>>)'
  <2>1. <<>> \in Seq(Block) /\ Len(<<>>) = 0 /\ ToSet(<<>>) = {}
    BY DEF ToSet
  <2> QED BY <1>2, <2>1 DEF Linked, OnceOnly
<1>5. <<>> \in Seq(Block)
  OBVIOUS
<1> QED BY <1>3, <1>4, <1>5 DEF JInv

\* What a step leaves as it is that does not change the leaves.
LEMMA SameLeaves ==
  ASSUME Leaf' = Leaf,
         \A b \in Leaf : blk'[b].recs = blk[b].recs /\ blk'[b].rblock = blk[b].rblock
  PROVE  /\ \A L \in Seq(Block) : Linked(L) => Linked(L)'
         /\ \A r : InLeaf(r)' <=> InLeaf(r)
         /\ \A v : HasValue(v)' <=> HasValue(v)
<1>1. \A r : InLeaf(r)' <=> InLeaf(r)
  BY DEF InLeaf
<1>2. \A v : HasValue(v)' <=> HasValue(v)
  BY <1>1 DEF HasValue
<1>3. ASSUME NEW L \in Seq(Block), Linked(L)
      PROVE  Linked(L)'
  <2>1. \A i \in 1 .. Len(L) : L[i] \in Leaf
    BY <1>3, ToSetIs DEF Linked
  <2>2. \A i \in 1 .. Len(L) : blk'[L[i]].recs = blk[L[i]].recs /\ blk'[L[i]].rblock = blk[L[i]].rblock
    BY <2>1
  <2>3. \A i, j \in 1 .. Len(L) : i < j => Below(L[i], L[j])'
    BY <1>3, <2>2 DEF Linked, Below
  <2> QED BY <1>3, <2>2, <2>3 DEF Linked
<1> QED BY <1>1, <1>2, <1>3

\* A step that does not change the leaves keeps what is said of them.
LEMMA Kept ==
  ASSUME JInv, Leaf' = Leaf,
         \A b \in Leaf : blk'[b].recs = blk[b].recs /\ blk'[b].rblock = blk[b].rblock,
         root # -1, ToSet(rows') \ Waiting' \subseteq ToSet(rows) \ Waiting,
         \A b \in Block : IsInternal(b)' => \A v \in ToSet(blk'[b].keys) : HasValue(v),
         Splitting' => HasValue(up'.key),
         pc' = "idle" => todo' = <<>>
  PROVE  JInv'
<1>1. /\ \A L \in Seq(Block) : Linked(L) => Linked(L)'
      /\ \A r : InLeaf(r)' <=> InLeaf(r)
      /\ \A v : HasValue(v)' <=> HasValue(v)
  BY SameLeaves
<1>2. RecordsIn'
  BY <1>1 DEF JInv, RecordsIn
<1>3. KeysFound'
  BY <1>1 DEF KeysFound
<1> QED BY <1>1, <1>2, <1>3 DEF JInv

\* At first there is no leaf.
LEMMA InitLinked ==
  ASSUME Init
  PROVE  JInv
<1>1. IInv /\ root = -1 /\ todo = <<>> /\ pc = "idle" /\ ~ Splitting
  BY InitOk DEF Init, Splitting
<1>2. Index = {}
  BY <1>1 DEF IInv, Control
<1>3. Leaf = {} /\ \A b \in Block : ~ IsInternal(b)
  BY <1>2 DEF Index, Leaf
<1>4. KeysFound /\ RecordsIn
  BY <1>1, <1>3 DEF KeysFound, RecordsIn
<1>5. Linked(<<>>)
  <2>1. <<>> \in Seq(Block) /\ Len(<<>>) = 0 /\ ToSet(<<>>) = {}
    BY DEF ToSet
  <2> QED BY <1>3, <2>1 DEF Linked, OnceOnly
<1>6. <<>> \in Seq(Block)
  OBVIOUS
<1> QED BY <1>1, <1>4, <1>5, <1>6 DEF JInv

-----------------------------------------------------------------------------
(* The values that searches take to the leaves.                            *)

\* Slices follow each other.
LEMMA SlicesApart ==
  ASSUME NEW R \in SUBSET Vals, NEW keys \in Seq(Vals), Ascend(keys),
         NEW i \in 1 .. Len(keys) + 1, NEW j \in 1 .. Len(keys) + 1, i < j,
         NEW u \in Slice(R, keys, i), NEW w \in Slice(R, keys, j)
  PROVE  u < w
<1>1. Len(keys) \in Nat /\ \A k \in 1 .. Len(keys) : keys[k] \in Nat
  <2>1. \A k \in 1 .. Len(keys) : keys[k] \in Vals
    BY ElementOfSeq
  <2> QED BY <2>1, Values, LenProperties
<1>2. i \in 1 .. Len(keys) /\ j - 1 \in 1 .. Len(keys) /\ i <= j - 1 /\ i <= Len(keys) /\ j > 1
  BY <1>1
<1>3. u <= keys[i] /\ keys[j - 1] < w /\ u \in Nat /\ w \in Nat
  BY <1>2, Values DEF Slice
<1>4. i = j - 1 \/ keys[i] < keys[j - 1]
  BY <1>2 DEF Ascend
<1> QED BY <1>1, <1>2, <1>3, <1>4

\* A tree with no split under way.
Settled(range, level) ==
  /\ TypeInv /\ Control /\ root # -1 /\ ~ Splitting
  /\ range \in [Block -> SUBSET Vals] /\ level \in [Block -> Nat] /\ Tree(range, level)

\* b is the i-th child of p
Child(p, i, b, range, level) ==
  /\ p \in Index /\ IsInternal(p) /\ i \in 1 .. Len(blk[p].kids) /\ blk[p].kids[i] = b
  /\ level[p] = level[b] + 1 /\ range[b] = Slice(range[p], blk[p].keys, i)

\* the keys and children of an internal block
LEMMA KeysAre ==
  ASSUME NEW range, NEW level, Settled(range, level), NEW p \in Block, IsInternal(p)
  PROVE  /\ blk[p].keys \in Seq(Vals) /\ Ascend(blk[p].keys) /\ ToSet(blk[p].keys) \subseteq range[p]
         /\ blk[p].kids \in Seq(Block) /\ Len(blk[p].kids) = Len(blk[p].keys) + 1
         /\ Len(blk[p].keys) \in Nat
         /\ \A i \in 1 .. Len(blk[p].kids) :
              blk[p].kids[i] \in Index /\ Child(p, i, blk[p].kids[i], range, level)
<1>1. InternalOk(p, range, level) /\ p \in Index
  BY DEF Settled, Tree, Index
<1>2. /\ blk[p].keys \in Seq(Vals) /\ blk[p].kids \in Seq(Block)
      /\ Len(blk[p].kids) = Len(blk[p].keys) + 1
  BY DEF Settled, TypeInv, Blocks, Fits
<1>3. ASSUME NEW i \in 1 .. Len(blk[p].kids)
      PROVE  blk[p].kids[i] \in Index /\ Child(p, i, blk[p].kids[i], range, level)
  <2>1. ChildOk(p, blk[p].kids[i], range, level, Slice(range[p], blk[p].keys, i))
    BY <1>1 DEF InternalOk
  <2>2. Cut(blk[p].kids[i]) = Vals /\ range[p] \subseteq Vals
    BY DEF Settled, Cut
  <2>3. Slice(range[p], blk[p].keys, i) \subseteq Vals
    BY <2>2 DEF Slice
  <2> QED BY <1>1, <2>1, <2>2, <2>3 DEF ChildOk, Child
<1> QED BY <1>1, <1>2, <1>3, LenProperties DEF InternalOk

\* A block that is not the root is a child.
LEMMA ParentIs ==
  ASSUME NEW range, NEW level, Settled(range, level), NEW b \in Index, b # root
  PROVE  \E p \in Index, i \in Nat : Child(p, i, b, range, level)
<1>1. HasParent(b)
  BY DEF Settled, Tree, Roots
<1>2. PICK p \in Block : IsInternal(p) /\ b \in ToSet(blk[p].kids)
  BY <1>1 DEF HasParent
<1>3. /\ blk[p].kids \in Seq(Block)
      /\ \A i \in 1 .. Len(blk[p].kids) : Child(p, i, blk[p].kids[i], range, level)
  BY <1>2, KeysAre
<1>4. PICK i \in 1 .. Len(blk[p].kids) : blk[p].kids[i] = b
  BY <1>2, <1>3, ToSetIs
<1> QED BY <1>3, <1>4 DEF Child

\* Blocks on the same level have no value in common.
LEMMA RangesApart ==
  ASSUME NEW range, NEW level, Settled(range, level)
  PROVE  \A b, c \in Index : level[b] = level[c] /\ b # c => range[b] \cap range[c] = {}
<1> DEFINE Bad(n) == \E b, c \in Index : /\ level[root] - level[b] = n /\ level[b] = level[c] /\ b # c
                                         /\ range[b] \cap range[c] # {}
           T == {n \in Nat : Bad(n)}
<1>1. /\ root \in Index /\ \A b \in Index : level[b] \in Nat /\ level[b] <= level[root]
      /\ \A b \in Index : b \in Block /\ range[b] \in SUBSET Vals
  BY DEF Settled, Control, Tree, Index
<1>2. T = {}
  <2> SUFFICES ASSUME T # {} PROVE FALSE
    OBVIOUS
  <2>1. T \subseteq Nat
    OBVIOUS
  <2>2. PICK n \in T : \A m \in T : n <= m
    <3> HIDE DEF T
    <3> QED BY <2>1, LeastNumber
  <2>3. PICK b \in Index, c \in Index : /\ level[root] - level[b] = n /\ level[b] = level[c] /\ b # c
                                        /\ range[b] \cap range[c] # {}
    BY <2>2
  <2>4. ASSUME NEW d \in Index, level[d] = level[root] PROVE d = root
    <3> SUFFICES ASSUME d # root PROVE FALSE
      OBVIOUS
    <3>1. PICK p \in Index, i \in Nat : Child(p, i, d, range, level)
      BY ParentIs
    <3> QED BY <1>1, <2>4, <3>1 DEF Child
  <2>5. b # root /\ c # root
    BY <2>3, <2>4
  <2>6. PICK p \in Index, i \in Nat : Child(p, i, b, range, level)
    BY <2>5, ParentIs
  <2>7. PICK q \in Index, j \in Nat : Child(q, j, c, range, level)
    BY <2>5, ParentIs
  <2>8. PICK v \in range[b] \cap range[c] : TRUE
    BY <2>3
  <2>9. /\ v \in Slice(range[p], blk[p].keys, i) /\ v \in Slice(range[q], blk[q].keys, j)
        /\ v \in Vals
    BY <1>1, <2>6, <2>7, <2>8 DEF Child
  <2>10. CASE p = q
    <3>1. /\ blk[p].keys \in Seq(Vals) /\ Ascend(blk[p].keys) /\ range[p] \in SUBSET Vals
          /\ Len(blk[p].kids) = Len(blk[p].keys) + 1
      BY <1>1, <2>6, KeysAre DEF Child
    <3>2. i # j /\ i \in 1 .. Len(blk[p].keys) + 1 /\ j \in 1 .. Len(blk[p].keys) + 1
      BY <2>3, <2>6, <2>7, <2>10, <3>1 DEF Child
    <3>3. v \in Nat
      BY <2>9, Values
    <3>4. CASE i < j
      <4>1. v < v
        BY <2>9, <2>10, <3>1, <3>2, <3>4, SlicesApart
      <4> QED BY <3>3, <4>1
    <3>5. CASE j < i
      <4>1. v < v
        BY <2>9, <2>10, <3>1, <3>2, <3>5, SlicesApart
      <4> QED BY <3>3, <4>1
    <3> QED BY <3>2, <3>4, <3>5
  <2>11. CASE p # q
    <3>1. v \in range[p] \cap range[q]
      BY <2>9 DEF Slice
    <3>2. level[p] = level[q] /\ level[root] - level[p] = n - 1 /\ n - 1 \in Nat
      <4>1. level[p] = level[b] + 1 /\ level[q] = level[c] + 1
        BY <2>6, <2>7 DEF Child
      <4> QED BY <1>1, <2>3, <4>1
    <3>3. n - 1 \in T
      BY <2>11, <3>1, <3>2
    <3> HIDE DEF T
    <3> QED BY <2>1, <2>2, <3>3
  <2> QED BY <2>10, <2>11
<1>3. ASSUME NEW b \in Index, NEW c \in Index, level[b] = level[c], b # c,
             range[b] \cap range[c] # {}
      PROVE  FALSE
  <2>1. level[root] - level[b] \in Nat
    BY <1>1
  <2>2. Bad(level[root] - level[b])
    BY <1>3
  <2> HIDE DEF Bad
  <2> QED BY <1>2, <2>1, <2>2
<1> QED BY <1>3

\* The values of a block follow each other without a gap.
LEMMA NoGap ==
  ASSUME NEW range, NEW level, Settled(range, level)
  PROVE  \A b \in Index : \A u, w \in range[b] : \A v \in Vals : u < v /\ v < w => v \in range[b]
<1> DEFINE Gap(b)  == \E u, w \in range[b] : \E v \in Vals : u < v /\ v < w /\ v \notin range[b]
           T == {n \in Nat : \E b \in Index : level[root] - level[b] = n /\ Gap(b)}
<1>1. /\ root \in Index /\ \A b \in Index : level[b] \in Nat /\ level[b] <= level[root]
      /\ \A b \in Index : b \in Block /\ range[b] \in SUBSET Vals
  BY DEF Settled, Control, Tree, Index
<1>2. T = {}
  <2> SUFFICES ASSUME T # {} PROVE FALSE
    OBVIOUS
  <2>1. T \subseteq Nat
    OBVIOUS
  <2>2. PICK n \in T : \A m \in T : n <= m
    <3> HIDE DEF T
    <3> QED BY <2>1, LeastNumber
  <2>3. PICK b \in Index : level[root] - level[b] = n /\ Gap(b)
    BY <2>2
  <2>4. PICK u \in range[b], w \in range[b], v \in Vals : u < v /\ v < w /\ v \notin range[b]
    BY <2>3
  <2>5. b # root
    <3>1. range[root] = Vals
      BY DEF Settled, Tree, Cut
    <3> QED BY <2>4, <3>1
  <2>6. PICK p \in Index, i \in Nat : Child(p, i, b, range, level)
    BY <2>5, ParentIs
  <2>7. /\ u \in Slice(range[p], blk[p].keys, i) /\ w \in Slice(range[p], blk[p].keys, i)
        /\ v \notin Slice(range[p], blk[p].keys, i)
    BY <2>4, <2>6 DEF Child
  <2>8. v \notin range[p]
    <3>1. /\ blk[p].keys \in Seq(Vals) /\ Len(blk[p].keys) \in Nat
          /\ i \in 1 .. Len(blk[p].keys) + 1
      BY <1>1, <2>6, KeysAre DEF Child
    <3>2. u \in Nat /\ v \in Nat /\ w \in Nat
      BY <1>1, <2>4, Values
    <3>3. \A k \in 1 .. Len(blk[p].keys) : blk[p].keys[k] \in Nat
      <4>1. \A k \in 1 .. Len(blk[p].keys) : blk[p].keys[k] \in Vals
        BY <3>1, ElementOfSeq
      <4> QED BY <4>1, Values
    <3>4. i > 1 => blk[p].keys[i - 1] < v
      <4> SUFFICES ASSUME i > 1 PROVE blk[p].keys[i - 1] < v
        OBVIOUS
      <4>1. i - 1 \in 1 .. Len(blk[p].keys) /\ blk[p].keys[i - 1] < u
        BY <2>7, <3>1 DEF Slice
      <4>2. blk[p].keys[i - 1] \in Nat
        BY <3>3, <4>1
      <4> QED BY <2>4, <3>2, <4>1, <4>2
    <3>5. i <= Len(blk[p].keys) => v <= blk[p].keys[i]
      <4> SUFFICES ASSUME i <= Len(blk[p].keys) PROVE v <= blk[p].keys[i]
        OBVIOUS
      <4>1. i \in 1 .. Len(blk[p].keys) /\ w <= blk[p].keys[i]
        BY <2>7, <3>1 DEF Slice
      <4>2. blk[p].keys[i] \in Nat
        BY <3>3, <4>1
      <4> QED BY <2>4, <3>2, <4>1, <4>2
    <3> QED BY <2>7, <3>4, <3>5 DEF Slice
  <2>9. Gap(p)
    <3>1. u \in range[p] /\ w \in range[p]
      BY <2>7 DEF Slice
    <3> QED BY <2>4, <2>8, <3>1
  <2>10. level[root] - level[p] = n - 1 /\ n - 1 \in Nat
    <3>1. level[p] = level[b] + 1
      BY <2>6 DEF Child
    <3> QED BY <1>1, <2>3, <3>1
  <2>11. n - 1 \in T
    BY <2>9, <2>10
  <2> HIDE DEF T
  <2> QED BY <2>1, <2>2, <2>11
<1>3. ASSUME NEW b \in Index, Gap(b)
      PROVE  FALSE
  <2>1. level[root] - level[b] \in Nat
    BY <1>1
  <2> HIDE DEF Gap
  <2> QED BY <1>2, <1>3, <2>1
<1> QED BY <1>3

-----------------------------------------------------------------------------
(* A record goes into a leaf.                                              *)

\* What is known of a leaf.
LEMMA LeafIs ==
  ASSUME NEW range, NEW level, Settled(range, level), NEW b \in Leaf
  PROVE  /\ b \in Block /\ b \in Index /\ level[b] = 0 /\ range[b] \in SUBSET Vals
         /\ blk[b].recs \in Seq(Recs) /\ Rising(blk[b].recs)
         /\ \A r \in ToSet(blk[b].recs) : r \in Recs /\ ValOf[r] \in range[b] /\ ValOf[r] \in Nat
<1>1. b \in Block /\ b \in Index /\ IsLeaf(b)
  BY DEF Leaf, Index
<1>2. LeafOk(b, range, level) /\ blk[b].recs \in Seq(Recs) /\ range[b] \in SUBSET Vals
  BY <1>1 DEF Settled, Tree, TypeInv, Blocks
<1>3. \A r \in ToSet(blk[b].recs) : r \in Recs /\ ValOf[r] \in range[b]
  BY <1>2, ToSetIs DEF LeafOk
<1> QED BY <1>1, <1>2, <1>3, Values DEF LeafOk, Rising

\* the records of the k-th leaf, with the one that is to go into it
Filled(L, k, i) == ToSet(blk[L[i]].recs) \cup (IF i = k THEN {rec} ELSE {})

\* The leaf that findLeafToInsert comes to is the right one in the chain, too.
LEMMA RightLeaf ==
  ASSUME NEW range, NEW level, Settled(range, level), pc = "find",
         NEW L, Linked(L), NEW k \in 1 .. Len(L), L[k] = at,
         NEW i \in 1 .. Len(L), NEW j \in 1 .. Len(L), i < j,
         NEW r \in Filled(L, k, i), NEW s \in Filled(L, k, j)
  PROVE  ValOf[r] < ValOf[s]
<1>1. L \in Seq(Block) /\ OnceOnly(L) /\ ToSet(L) = Leaf /\ Len(L) \in Nat
  BY LenProperties DEF Linked
<1>2. \A a \in 1 .. Len(L) : L[a] \in Leaf
  BY <1>1, ToSetIs
<1>3. Len(L) > 1
  BY <1>1
<1>4. ASSUME NEW a \in 1 .. Len(L)
      PROVE  \E t \in ToSet(blk[L[a]].recs) : TRUE
  <2>1. blk[L[a]].recs # <<>> /\ blk[L[a]].recs \in Seq(Recs)
    BY <1>2, <1>3, LeafIs DEF Linked
  <2>2. Len(blk[L[a]].recs) \in Nat /\ Len(blk[L[a]].recs) # 0
    BY <2>1, EmptySeq, LenProperties
  <2>3. 1 \in 1 .. Len(blk[L[a]].recs)
    BY <2>2
  <2>4. blk[L[a]].recs[1] \in ToSet(blk[L[a]].recs)
    BY <2>1, <2>3, ToSetIs
  <2> QED BY <2>4
<1>5. \A a, b \in 1 .. Len(L) : a < b =>
        \A t \in ToSet(blk[L[a]].recs), u \in ToSet(blk[L[b]].recs) : ValOf[t] < ValOf[u]
  BY DEF Linked, Below
<1>6. at \in Leaf /\ ValOf[rec] \in range[at] /\ ValOf[rec] \in Nat /\ range[at] \in SUBSET Vals
  <2>1. at \in Leaf
    BY <1>2
  <2> QED BY <2>1, LeafIs, Values DEF Settled, Tree
<1>7. ASSUME NEW a \in 1 .. Len(L), a # k, NEW t \in ToSet(blk[L[a]].recs)
      PROVE  (a < k => ValOf[t] < ValOf[rec]) /\ (a > k => ValOf[rec] < ValOf[t])
  <2>1. L[a] \in Leaf /\ L[a] # at
    BY <1>1, <1>2, <1>7 DEF OnceOnly
  <2>2. ValOf[t] \in range[L[a]] /\ ValOf[t] \in Nat /\ ValOf[t] \in Vals
    BY <2>1, <1>7, LeafIs
  <2>3. range[L[a]] \cap range[at] = {}
    BY <1>6, <2>1, LeafIs, RangesApart
  <2>4. ValOf[t] \notin range[at] /\ ValOf[t] # ValOf[rec]
    BY <1>6, <2>2, <2>3
  <2>5. PICK u \in ToSet(blk[at].recs) : TRUE
    BY <1>4
  <2>6. ValOf[u] \in range[at] /\ ValOf[u] \in Nat
    BY <1>6, LeafIs
  <2>7. \A x, y \in range[at] : x < ValOf[t] /\ ValOf[t] < y => FALSE
    BY <1>6, <2>2, <2>4, LeafIs, NoGap
  <2>8. CASE a < k
    <3>1. ValOf[t] < ValOf[u]
      BY <1>5, <1>7, <2>5, <2>8
    <3>2. ~ (ValOf[rec] < ValOf[t])
      BY <1>6, <2>6, <2>7, <3>1
    <3>3. ValOf[t] < ValOf[rec]
      BY <1>6, <2>2, <2>4, <3>2
    <3> QED BY <2>8, <3>3
  <2>9. CASE a > k
    <3>1. ValOf[u] < ValOf[t]
      BY <1>5, <1>7, <2>5, <2>9
    <3>2. ~ (ValOf[t] < ValOf[rec])
      BY <1>6, <2>6, <2>7, <3>1
    <3>3. ValOf[rec] < ValOf[t]
      BY <1>6, <2>2, <2>4, <3>2
    <3> QED BY <2>9, <3>3
  <2> QED BY <1>7, <2>8, <2>9
<1>8. CASE r \in ToSet(blk[L[i]].recs) /\ s \in ToSet(blk[L[j]].recs)
  BY <1>5, <1>8
<1>9. CASE i = k /\ r = rec
  <2>1. j # k /\ s \in ToSet(blk[L[j]].recs) /\ j > k
    BY <1>9 DEF Filled
  <2> QED BY <1>7, <1>9, <2>1
<1>10. CASE j = k /\ s = rec
  <2>1. i # k /\ r \in ToSet(blk[L[i]].recs) /\ i < k
    BY <1>10 DEF Filled
  <2> QED BY <1>7, <1>10, <2>1
<1> QED BY <1>8, <1>9, <1>10 DEF Filled

\* The elements of a sequence with one inserted.
LEMMA InsertAtSet ==
  ASSUME NEW S, NEW s \in Seq(S), NEW r \in S, NEW i \in 1 .. Len(s) + 1
  PROVE  ToSet(InsertAt(s, i, r)) = ToSet(s) \cup {r}
<1>1. InsertAt(s, i, r) \in Seq(S) /\ Inserted(InsertAt(s, i, r), s, i, r)
  BY InsertAtIs
<1> QED BY <1>1, InsertedSet

\* What insertIntoLeaf puts together are the old records and the new one.
LEMMA EntriesAll ==
  ASSUME Distinct, TypeInv, Control, RecordsOnce, NEW range, NEW level, Tree(range, level),
         pc = "find", IsLeaf(at),
         NEW i, i = FirstIndex(blk[at].recs, LAMBDA r : ValOf[r] > ValOf[rec]),
         NEW e, e = InsertAt(blk[at].recs, i, rec)
  PROVE  ToSet(e) = ToSet(blk[at].recs) \cup {rec}
<1>1. at \in Block /\ rec \in Recs /\ e \in Seq(Recs)
  BY Entries
<1>2. blk[at].recs \in Seq(Recs)
  BY <1>1 DEF TypeInv, Blocks
<1>3. i \in 1 .. Len(blk[at].recs) + 1
  BY <1>1, <1>2, LeafPlaceIs
<1>4. PICK s \in Seq(Recs) : s = blk[at].recs
  BY <1>2
<1>5. i \in 1 .. Len(s) + 1 /\ e = InsertAt(s, i, rec)
  BY <1>3, <1>4
<1>6. ToSet(InsertAt(s, i, rec)) = ToSet(s) \cup {rec}
  <2>1. \A q \in Seq(Recs) : \A r \in Recs : \A j \in 1 .. Len(q) + 1 :
          ToSet(InsertAt(q, j, r)) = ToSet(q) \cup {r}
    BY InsertAtSet
  <2> QED BY <1>1, <1>5, <2>1
<1> QED BY <1>4, <1>5, <1>6

\* The chain stays in order when a leaf takes a record.
LEMMA GrownLinked ==
  ASSUME NEW range, NEW level, Settled(range, level), pc = "find",
         NEW L, Linked(L), NEW k \in 1 .. Len(L), L[k] = at, Leaf' = Leaf,
         \A c \in Leaf : blk'[c].rblock = blk[c].rblock,
         \A c \in Leaf \ {at} : blk'[c].recs = blk[c].recs,
         ToSet(blk'[at].recs) = ToSet(blk[at].recs) \cup {rec}
  PROVE  Linked(L)'
<1>1. L \in Seq(Block) /\ OnceOnly(L) /\ ToSet(L) = Leaf /\ Len(L) \in Nat
  BY LenProperties DEF Linked
<1>2. \A a \in 1 .. Len(L) : L[a] \in Leaf /\ (L[a] = at => a = k)
  BY <1>1, ToSetIs DEF OnceOnly
<1>3. \A a \in 1 .. Len(L) : ToSet(blk'[L[a]].recs) = Filled(L, k, a)
  BY <1>2 DEF Filled
<1>4. \A i, j \in 1 .. Len(L) : i < j => Below(L[i], L[j])'
  BY <1>3, RightLeaf DEF Below
<1>5. \A i \in 1 .. Len(L) : blk'[L[i]].rblock = IF i = Len(L) THEN -1 ELSE L[i + 1]
  BY <1>2 DEF Linked
<1>6. ASSUME Len(L) > 1, NEW i \in 1 .. Len(L)
      PROVE  blk'[L[i]].recs # <<>>
  <2>1. CASE i = k
    <3>1. rec \in ToSet(blk'[L[i]].recs) /\ ToSet(<<>>) = {}
      BY <2>1 DEF ToSet
    <3> QED BY <3>1
  <2>2. CASE i # k
    <3>1. L[i] \in Leaf \ {at}
      BY <1>2, <2>2
    <3> QED BY <1>6, <3>1 DEF Linked
  <2> QED BY <2>1, <2>2
<1> QED BY <1>1, <1>4, <1>5, <1>6 DEF Linked

\* The chain stays in order when a leaf is split.
LEMMA SplitLinked ==
  ASSUME NEW range, NEW level, Settled(range, level), pc = "find",
         NEW L, Linked(L), NEW k \in 1 .. Len(L), L[k] = at,
         NEW n \in Block, n \notin Leaf, Leaf' = Leaf \cup {n},
         \A c \in Leaf \ {at} : blk'[c].recs = blk[c].recs /\ blk'[c].rblock = blk[c].rblock,
         blk'[at].rblock = n, blk'[n].rblock = blk[at].rblock,
         NEW lo, lo = blk'[at].recs, NEW hi, hi = blk'[n].recs, lo # <<>>, hi # <<>>,
         ToSet(lo) \cup ToSet(hi) \subseteq ToSet(blk[at].recs) \cup {rec},
         \A r \in ToSet(lo), s \in ToSet(hi) : ValOf[r] < ValOf[s]
  PROVE  \E M \in Seq(Block) : Linked(M)'
<1>1. L \in Seq(Block) /\ OnceOnly(L) /\ ToSet(L) = Leaf /\ Len(L) \in Nat
  BY LenProperties DEF Linked
<1>2. \A a \in 1 .. Len(L) : L[a] \in Leaf /\ (L[a] = at => a = k) /\ L[a] # n
  BY <1>1, ToSetIs DEF OnceOnly
<1>3. PICK M : M = InsertAt(L, k + 1, n)
  OBVIOUS
<1>4. M \in Seq(Block) /\ Inserted(M, L, k + 1, n)
  <2>1. k + 1 \in 1 .. Len(L) + 1
    BY <1>1
  <2> QED BY <1>1, <1>3, <2>1, InsertAtIs
<1>5. /\ Len(M) = Len(L) + 1
      /\ \A a \in 1 .. Len(L) + 1 :
           M[a] = IF a <= k THEN L[a] ELSE IF a = k + 1 THEN n ELSE L[a - 1]
  BY <1>1, <1>4 DEF Inserted
<1> DEFINE old(a) == IF a <= k THEN a ELSE a - 1
<1>6. \A a \in 1 .. Len(L) + 1 : /\ old(a) \in 1 .. Len(L)
                                 /\ a # k + 1 => M[a] = L[old(a)]
                                 /\ a # k + 1 /\ a # k => old(a) # k
                                 /\ a = k \/ a = k + 1 => old(a) = k
  BY <1>1, <1>5
<1>7. ASSUME NEW a \in 1 .. Len(L) + 1
      PROVE  ToSet(blk'[M[a]].recs) \subseteq Filled(L, k, old(a))
  <2>1. CASE a = k + 1
    <3>1. M[a] = n /\ old(a) = k
      BY <1>1, <1>5, <2>1
    <3> QED BY <3>1 DEF Filled
  <2>2. CASE a = k
    <3>1. M[a] = at /\ old(a) = k
      BY <1>1, <1>5, <2>2
    <3> QED BY <3>1 DEF Filled
  <2>3. CASE a # k /\ a # k + 1
    <3>1. M[a] = L[old(a)] /\ old(a) \in 1 .. Len(L) /\ old(a) # k
      BY <1>6, <2>3
    <3> HIDE DEF old
    <3>2. M[a] \in Leaf \ {at}
      BY <1>2, <3>1
    <3> QED BY <3>1, <3>2 DEF Filled
  <2> QED BY <2>1, <2>2, <2>3
<1>8. ASSUME NEW i \in 1 .. Len(M), NEW j \in 1 .. Len(M), i < j
      PROVE  Below(M[i], M[j])'
  <2>1. CASE i = k /\ j = k + 1
    <3>1. M[i] = at /\ M[j] = n
      BY <1>1, <1>5, <2>1
    <3> QED BY <3>1 DEF Below
  <2>2. CASE ~ (i = k /\ j = k + 1)
    <3>1. old(i) < old(j) /\ old(i) \in 1 .. Len(L) /\ old(j) \in 1 .. Len(L)
      BY <1>1, <1>5, <1>8, <2>2
    <3>2. /\ ToSet(blk'[M[i]].recs) \subseteq Filled(L, k, old(i))
          /\ ToSet(blk'[M[j]].recs) \subseteq Filled(L, k, old(j))
      BY <1>5, <1>7
    <3> HIDE DEF old
    <3>3. \A r \in Filled(L, k, old(i)), s \in Filled(L, k, old(j)) : ValOf[r] < ValOf[s]
      BY <3>1, RightLeaf
    <3> QED BY <3>2, <3>3 DEF Below
  <2> QED BY <2>1, <2>2
<1>9. ASSUME NEW i \in 1 .. Len(M)
      PROVE  blk'[M[i]].rblock = IF i = Len(M) THEN -1 ELSE M[i + 1]
  <2>1. \A a \in 1 .. Len(L) : blk[L[a]].rblock = IF a = Len(L) THEN -1 ELSE L[a + 1]
    BY DEF Linked
  <2>2. CASE i < k
    <3>1. /\ i \in 1 .. Len(L) /\ i # k /\ M[i] = L[i] /\ M[i + 1] = L[i + 1] /\ i # Len(L)
          /\ i # Len(M)
      BY <1>1, <1>5, <2>2
    <3>2. L[i] \in Leaf \ {at}
      BY <1>2, <3>1
    <3>3. blk[L[i]].rblock = L[i + 1]
      BY <2>1, <3>1
    <3> QED BY <3>1, <3>2, <3>3
  <2>3. CASE i = k
    <3>1. M[i] = at /\ M[i + 1] = n /\ i # Len(M)
      BY <1>1, <1>5, <2>3
    <3> QED BY <3>1
  <2>4. CASE i = k + 1
    <3>1. M[i] = n /\ blk[at].rblock = IF k = Len(L) THEN -1 ELSE L[k + 1]
      BY <1>1, <1>5, <2>1, <2>4
    <3>2. (i = Len(M) <=> k = Len(L)) /\ (k # Len(L) => M[i + 1] = L[k + 1])
      BY <1>1, <1>5, <2>4
    <3> QED BY <3>1, <3>2
  <2>5. CASE i > k + 1
    <3>1. /\ i - 1 \in 1 .. Len(L) /\ i - 1 # k /\ M[i] = L[i - 1]
          /\ (i = Len(M) <=> i - 1 = Len(L))
          /\ i # Len(M) => M[i + 1] = L[(i - 1) + 1]
      BY <1>1, <1>5, <2>5
    <3>2. L[i - 1] \in Leaf \ {at}
      BY <1>2, <3>1
    <3>3. blk[L[i - 1]].rblock = IF i - 1 = Len(L) THEN -1 ELSE L[(i - 1) + 1]
      BY <2>1, <3>1
    <3> QED BY <3>1, <3>2, <3>3
  <2> QED BY <1>1, <1>5, <2>2, <2>3, <2>4, <2>5
<1>10. OnceOnly(M)
  <2>1. ASSUME NEW i \in 1 .. Len(M), NEW j \in 1 .. Len(M), M[i] = M[j], i < j
        PROVE  FALSE
    <3>1. CASE i = k + 1 \/ j = k + 1
      BY <1>1, <1>2, <1>5, <1>6, <2>1, <3>1
    <3>2. CASE i # k + 1 /\ j # k + 1
      <4>1. L[old(i)] = L[old(j)] /\ old(i) \in 1 .. Len(L) /\ old(j) \in 1 .. Len(L)
        BY <1>5, <1>6, <2>1, <3>2
      <4>2. old(i) = old(j)
        BY <1>1, <4>1 DEF OnceOnly
      <4> QED BY <1>1, <1>5, <2>1, <3>2, <4>2
    <3> QED BY <3>1, <3>2
  <2>2. \A i, j \in 1 .. Len(M) : M[i] = M[j] => ~ (i < j) /\ ~ (j < i)
    BY <2>1
  <2>3. \A i, j \in 1 .. Len(M) : ~ (i < j) /\ ~ (j < i) => i = j
    BY <1>1, <1>5
  <2> QED BY <2>2, <2>3 DEF OnceOnly
<1>11. ToSet(M) = Leaf'
  <2>1. ASSUME NEW x \in ToSet(M)
        PROVE  x \in Leaf'
    <3>1. PICK a \in 1 .. Len(L) + 1 : M[a] = x
      BY <1>4, <1>5, <2>1, ToSetIs
    <3> QED BY <1>2, <1>5, <1>6, <3>1
  <2>2. ASSUME NEW x \in Leaf'
        PROVE  x \in ToSet(M)
    <3>1. CASE x = n
      <4>1. k + 1 \in 1 .. Len(M) /\ M[k + 1] = n
        BY <1>1, <1>5
      <4> QED BY <1>4, <3>1, <4>1, ToSetIs
    <3>2. CASE x # n
      <4>1. PICK a \in 1 .. Len(L) : L[a] = x
        BY <1>1, <2>2, <3>2, ToSetIs
      <4>2. CASE a <= k
        <5>1. a \in 1 .. Len(M) /\ M[a] = x
          BY <1>1, <1>5, <4>1, <4>2
        <5> QED BY <1>4, <5>1, ToSetIs
      <4>3. CASE a > k
        <5>1. a + 1 \in 1 .. Len(M) /\ M[a + 1] = x
          BY <1>1, <1>5, <4>1, <4>3
        <5> QED BY <1>4, <5>1, ToSetIs
      <4> QED BY <1>1, <4>2, <4>3
    <3> QED BY <3>1, <3>2
  <2> QED BY <2>1, <2>2
<1>12. ASSUME NEW i \in 1 .. Len(M), Len(M) > 1
       PROVE  blk'[M[i]].recs # <<>>
  <2>1. CASE i = k
    <3>1. M[i] = at
      BY <1>1, <1>5, <2>1
    <3> QED BY <3>1
  <2>2. CASE i = k + 1
    <3>1. M[i] = n
      BY <1>1, <1>5, <2>2
    <3> QED BY <3>1
  <2>3. CASE i # k /\ i # k + 1
    <3>1. M[i] = L[old(i)] /\ old(i) \in 1 .. Len(L) /\ old(i) # k /\ Len(L) > 1
      BY <1>1, <1>5, <1>6, <2>3
    <3> HIDE DEF old
    <3>2. M[i] \in Leaf \ {at}
      BY <1>2, <3>1
    <3> QED BY <3>1, <3>2 DEF Linked
  <2> QED BY <2>1, <2>2, <2>3
<1> QED BY <1>4, <1>8, <1>9, <1>10, <1>11, <1>12 DEF Linked

\* A record that a leaf takes is no longer waiting.
LEMMA TakenIn ==
  ASSUME JInv, root # -1, pc = "find", rows' = rows, todo' = todo, pc' # "find",
         pc' = "idle" => todo = <<>>,
         \A r : InLeaf(r) \/ r = rec => InLeaf(r)',
         \A b \in Block : IsInternal(b)' => IsInternal(b) /\ blk'[b].keys = blk[b].keys,
         Splitting' => \E r \in Recs : InLeaf(r)' /\ ValOf[r] = up'.key,
         \E L \in Seq(Block) : Linked(L)'
  PROVE  JInv'
<1>1. \A v : HasValue(v) => HasValue(v)'
  BY DEF HasValue
<1>2. KeysFound'
  <2>1. Splitting' => HasValue(up.key)'
    BY DEF HasValue
  <2> QED BY <1>1, <2>1 DEF JInv, KeysFound
<1>3. RecordsIn'
  <2>1. Waiting = ToSet(todo) \cup {rec} /\ Waiting' = ToSet(todo)
    BY DEF Waiting
  <2>2. \A r \in ToSet(rows) \ Waiting : InLeaf(r)
    BY DEF JInv, RecordsIn
  <2>3. \A r \in ToSet(rows') \ Waiting' : InLeaf(r)'
    BY <2>1, <2>2
  <2> QED BY <2>3 DEF RecordsIn
<1> QED BY <1>2, <1>3 DEF JInv

\* A leaf takes a record.
LEMMA LeafFitsLinked ==
  ASSUME IInv, JInv, pc = "find", IsLeaf(at), NEW e, ToSet(e) = ToSet(blk[at].recs) \cup {rec},
         blk' = [blk EXCEPT ![at].recs = e], Return, UNCHANGED <<root, todo, up, rows>>
  PROVE  JInv'
<1>1. PICK range \in [Block -> SUBSET Vals], level \in [Block -> Nat] : Tree(range, level)
  BY DEF IInv
<1>2. Settled(range, level) /\ at \in Leaf /\ at \in Block /\ root # -1
  BY <1>1 DEF Settled, IInv, Control, Splitting, Leaf, Index
<1>3. /\ blk \in [Block -> Blocks] /\ blk[at] \in Blocks
  BY <1>2 DEF IInv, TypeInv
<1>4. /\ blk'[at].recs = e /\ blk'[at].type = blk[at].type /\ blk'[at].rblock = blk[at].rblock
      /\ blk'[at].keys = blk[at].keys
      /\ \A c \in Block \ {at} : blk'[c] = blk[c]
  BY <1>2, <1>3 DEF Blocks
<1>5. \A c \in Block : /\ IsLeaf(c)' <=> IsLeaf(c)
                       /\ IsInternal(c)' <=> IsInternal(c)
                       /\ blk'[c].keys = blk[c].keys /\ blk'[c].rblock = blk[c].rblock
                       /\ c # at => blk'[c].recs = blk[c].recs
  BY <1>4 DEF IsLeaf, IsInternal
<1>6. Leaf' = Leaf /\ Leaf \subseteq Block
  BY <1>5 DEF Leaf
<1>7. PICK L \in Seq(Block) : Linked(L)
  BY DEF JInv
<1>8. PICK k \in 1 .. Len(L) : L[k] = at
  BY <1>2, <1>7, ToSetIs DEF Linked
<1>9. Linked(L)'
  <2>1. \A c \in Leaf : blk'[c].rblock = blk[c].rblock
    BY <1>5, <1>6
  <2>2. \A c \in Leaf \ {at} : blk'[c].recs = blk[c].recs
    BY <1>5, <1>6
  <2> QED BY <1>2, <1>4, <1>6, <1>7, <1>8, <2>1, <2>2, GrownLinked
<1>10. \A r : InLeaf(r) \/ r = rec => InLeaf(r)'
  <2>1. \A b \in Leaf : ToSet(blk[b].recs) \subseteq ToSet(blk'[b].recs)
    BY <1>4, <1>5, <1>6
  <2>2. rec \in ToSet(blk'[at].recs)
    BY <1>4
  <2> QED BY <1>2, <1>6, <2>1, <2>2 DEF InLeaf
<1>11. pc' \in {"idle", "next"} /\ (pc' = "idle" => todo = <<>>)
  BY DEF Return
<1>12. pc' # "find" /\ ~ Splitting'
  BY <1>11 DEF Splitting
<1> QED BY <1>2, <1>5, <1>7, <1>9, <1>10, <1>11, <1>12, TakenIn

\* The halves of a sequence hold all of its elements.
LEMMA HalvesHold ==
  ASSUME NEW h \in Nat \ {0}, NEW e \in Seq(Recs), Len(e) = 2 * h,
         NEW lo \in Seq(Recs), NEW hi \in Seq(Recs), Halves(lo, hi, e, h)
  PROVE  /\ ToSet(lo) \cup ToSet(hi) = ToSet(e)
         /\ e[h] \in ToSet(lo) /\ lo # <<>> /\ hi # <<>>
<1>1. /\ Len(lo) = h /\ \A j \in 1 .. h : lo[j] = e[j]
      /\ Len(hi) = h /\ \A j \in 1 .. h : hi[j] = e[h + j]
  BY DEF Halves
<1>2. /\ \A x : x \in ToSet(lo) <=> \E j \in 1 .. h : lo[j] = x
      /\ \A x : x \in ToSet(hi) <=> \E j \in 1 .. h : hi[j] = x
      /\ \A x : x \in ToSet(e) <=> \E j \in 1 .. 2 * h : e[j] = x
  BY <1>1, ToSetIs
<1>3. ASSUME NEW x \in ToSet(lo) \cup ToSet(hi)
      PROVE  x \in ToSet(e)
  <2>1. CASE x \in ToSet(lo)
    <3>1. PICK j \in 1 .. h : e[j] = x
      BY <1>1, <1>2, <2>1
    <3>2. j \in 1 .. 2 * h
      OBVIOUS
    <3> QED BY <1>2, <3>1, <3>2
  <2>2. CASE x \in ToSet(hi)
    <3>1. PICK j \in 1 .. h : e[h + j] = x
      BY <1>1, <1>2, <2>2
    <3>2. h + j \in 1 .. 2 * h
      OBVIOUS
    <3> QED BY <1>2, <3>1, <3>2
  <2> QED BY <1>3, <2>1, <2>2
<1>4. ASSUME NEW x \in ToSet(e)
      PROVE  x \in ToSet(lo) \cup ToSet(hi)
  <2>1. PICK j \in 1 .. 2 * h : e[j] = x
    BY <1>2, <1>4
  <2>2. CASE j <= h
    <3>1. j \in 1 .. h /\ lo[j] = x
      BY <1>1, <2>1, <2>2
    <3> QED BY <1>2, <3>1
  <2>3. CASE j > h
    <3>1. j - h \in 1 .. h /\ e[h + (j - h)] = x
      BY <2>1, <2>3
    <3>2. hi[j - h] = x
      BY <1>1, <3>1
    <3> QED BY <1>2, <3>1, <3>2
  <2> QED BY <2>2, <2>3
<1>5. e[h] \in ToSet(lo)
  <2>1. h \in 1 .. h /\ lo[h] = e[h]
    BY <1>1
  <2> QED BY <1>2, <2>1
<1>6. lo # <<>> /\ hi # <<>>
  <2>1. Len(<<>>) = 0
    OBVIOUS
  <2> QED BY <1>1, <2>1
<1> QED BY <1>3, <1>4, <1>5, <1>6

\* A full leaf is split for the record it takes.
LEMMA LeafSplitLinked ==
  ASSUME Distinct, IInv, JInv, pc = "find", IsLeaf(at), Unused # {}, NEW e \in Seq(Recs),
         \A range, level : Tree(range, level) => Stores(e, range[at]),
         ToSet(e) = ToSet(blk[at].recs) \cup {rec}, Len(e) = MAX_KEYS_LEAF + 1,
         blk' = splitLeaf(at, NewBlock, e), PutUp(at, NewBlock, ValOf[e[(MAX_KEYS_LEAF + 1) \div 2]]),
         rows' = rows
  PROVE  JInv'
<1>1. PICK range \in [Block -> SUBSET Vals], level \in [Block -> Nat] : Tree(range, level)
  BY DEF IInv
<1>2. Settled(range, level) /\ at \in Leaf /\ at \in Block /\ root # -1 /\ TypeInv
  BY <1>1 DEF Settled, IInv, Control, Splitting, Leaf, Index
<1>3. PICK n \in Block : n = NewBlock /\ n \in Unused
  BY NewBlockIs DEF Unused
<1>4. PICK h \in Nat \ {0} : h = (MAX_KEYS_LEAF + 1) \div 2 /\ 2 * h = MAX_KEYS_LEAF + 1
  BY LeafHalf
<1>5. PICK lo, hi : lo = SubSeq(e, 1, h) /\ hi = SubSeq(e, h + 1, 2 * h)
  OBVIOUS
<1>6. lo \in Seq(Recs) /\ hi \in Seq(Recs) /\ Halves(lo, hi, e, h)
  BY <1>4, <1>5, HalvesIs
<1>7. PICK key : key = ValOf[e[h]]
  OBVIOUS
<1>8. Stores(lo, Low(range[at], key)) /\ Stores(hi, High(range[at], key))
  <2>1. Stores(e, range[at]) /\ Len(e) = 2 * h /\ range[at] \in SUBSET Vals
    BY <1>1, <1>2, <1>4
  <2>2. Halved(e, h, range[at], lo, hi)
    BY <1>6, <2>1, RisingHalves
  <2> QED BY <1>7, <2>2 DEF Halved
<1>9. ToSet(lo) \cup ToSet(hi) = ToSet(e) /\ e[h] \in ToSet(lo) /\ lo # <<>> /\ hi # <<>>
  <2>1. Len(e) = 2 * h
    BY <1>4
  <2> QED BY <1>6, <2>1, HalvesHold
<1>10. /\ at # n /\ n \notin Leaf /\ IsLeaf(at) /\ ~ IsInternal(at) /\ ~ IsInternal(n)
  BY <1>3 DEF Unused, Leaf, IsLeaf, IsInternal
<1>11. /\ \A c \in Block \ {at, n} : blk'[c] = blk[c]
       /\ blk'[at].type = blk[at].type /\ blk'[at].recs = lo /\ blk'[at].rblock = n
       /\ blk'[n].type = "IND_LEAF" /\ blk'[n].recs = hi /\ blk'[n].rblock = blk[at].rblock
  <2>1. PICK new : new = splitLeaf(at, n, e)
    OBVIOUS
  <2>2. LeafCut(new, at, n, lo, hi)
    <3>1. /\ lo = SubSeq(e, 1, (MAX_KEYS_LEAF + 1) \div 2)
          /\ hi = SubSeq(e, (MAX_KEYS_LEAF + 1) \div 2 + 1, 2 * ((MAX_KEYS_LEAF + 1) \div 2))
      BY <1>4, <1>5
    <3> QED BY <1>2, <1>6, <1>10, <2>1, <3>1, splitLeafIs
  <2>3. blk' = new
    BY <1>3, <2>1
  <2> QED BY <2>2, <2>3 DEF LeafCut
<1>12. \A c \in Block : /\ IsLeaf(c)' <=> IsLeaf(c) \/ c = n
                        /\ IsInternal(c)' => IsInternal(c) /\ c \notin {at, n}
  <2> TAKE c \in Block
  <2>1. CASE c = at
    BY <1>10, <1>11, <2>1 DEF IsLeaf, IsInternal
  <2>2. CASE c = n
    BY <1>10, <1>11, <2>2 DEF IsLeaf, IsInternal
  <2>3. CASE c \notin {at, n}
    BY <1>11, <2>3 DEF IsLeaf, IsInternal
  <2> QED BY <2>1, <2>2, <2>3
<1>13. Leaf' = Leaf \cup {n} /\ Leaf \subseteq Block
  BY <1>12 DEF Leaf
<1>14. PICK L \in Seq(Block) : Linked(L)
  BY DEF JInv
<1>15. PICK k \in 1 .. Len(L) : L[k] = at
  BY <1>2, <1>14, ToSetIs DEF Linked
<1>16. \A r \in ToSet(lo), s \in ToSet(hi) : ValOf[r] < ValOf[s]
  <2>1. /\ \A j \in 1 .. Len(lo) : ValOf[lo[j]] \in Low(range[at], key)
        /\ \A j \in 1 .. Len(hi) : ValOf[hi[j]] \in High(range[at], key)
    BY <1>8 DEF Stores
  <2>2. /\ \A r \in ToSet(lo) : ValOf[r] \in Low(range[at], key)
        /\ \A s \in ToSet(hi) : ValOf[s] \in High(range[at], key)
    <3>1. /\ \A r \in ToSet(lo) : \E j \in 1 .. Len(lo) : lo[j] = r
          /\ \A s \in ToSet(hi) : \E j \in 1 .. Len(hi) : hi[j] = s
      BY <1>6, ToSetIs
    <3> QED BY <2>1, <3>1
  <2>3. range[at] \subseteq Nat /\ key \in Nat
    <3>1. range[at] \in SUBSET Vals
      BY <1>2
    <3>2. e[h] \in Recs
      BY <1>6, <1>9, ToSetIs
    <3> QED BY <1>7, <3>1, <3>2, Values
  <2>4. \A u \in Low(range[at], key), w \in High(range[at], key) : u < w
    BY <2>3 DEF Low, High
  <2> QED BY <2>2, <2>4
<1>17. \E M \in Seq(Block) : Linked(M)'
  <2>1. \A c \in Leaf \ {at} : blk'[c].recs = blk[c].recs /\ blk'[c].rblock = blk[c].rblock
    BY <1>10, <1>11, <1>13
  <2>2. ToSet(lo) \cup ToSet(hi) \subseteq ToSet(blk[at].recs) \cup {rec}
    BY <1>9
  <2>3. blk'[at].rblock = n /\ blk'[n].rblock = blk[at].rblock /\ lo = blk'[at].recs /\ hi = blk'[n].recs
    BY <1>11
  <2>4. lo # <<>> /\ hi # <<>> /\ n \notin Leaf
    BY <1>9, <1>10
  <2> QED BY <1>2, <1>13, <1>14, <1>15, <1>16, <2>1, <2>2, <2>3, <2>4, SplitLinked
<1>18. \A r : InLeaf(r) \/ r = rec => InLeaf(r)'
  <2>1. /\ \A b \in Leaf \ {at} : ToSet(blk[b].recs) = ToSet(blk'[b].recs)
        /\ ToSet(blk[at].recs) \cup {rec} = ToSet(blk'[at].recs) \cup ToSet(blk'[n].recs)
    BY <1>9, <1>10, <1>11, <1>13
  <2> QED BY <1>2, <1>13, <2>1 DEF InLeaf
<1>19. /\ root # -1 /\ todo' = todo /\ pc' \in {"internal", "newroot"}
       /\ up'.key = key
  BY <1>2, <1>4, <1>7 DEF PutUp
<1>20. \E r \in Recs : InLeaf(r)' /\ ValOf[r] = up'.key
  <2>1. e[h] \in Recs /\ e[h] \in ToSet(blk'[at].recs)
    BY <1>6, <1>9, <1>11, ToSetIs
  <2>2. InLeaf(e[h])'
    BY <1>2, <1>13, <2>1 DEF InLeaf
  <2> QED BY <1>7, <1>19, <2>1, <2>2
<1>21. \A b \in Block : IsInternal(b)' => IsInternal(b) /\ blk'[b].keys = blk[b].keys
  BY <1>11, <1>12
<1> QED BY <1>17, <1>18, <1>19, <1>20, <1>21, TakenIn

\* insertIntoLeaf keeps the chain in order, whatever becomes of the leaf.
LEMMA insertIntoLeafLinked ==
  ASSUME Distinct, IInv, JInv, insertIntoLeaf
  PROVE  JInv'
<1>1. TypeInv /\ Control /\ RecordsOnce
  BY DEF IInv
<1>2. PICK range \in [Block -> SUBSET Vals], level \in [Block -> Nat] : Tree(range, level)
  BY DEF IInv
<1>3. PICK i : i = FirstIndex(blk[at].recs, LAMBDA r : ValOf[r] > ValOf[rec])
  OBVIOUS
<1>4. PICK e : e = InsertAt(blk[at].recs, i, rec)
  OBVIOUS
<1>5. /\ pc = "find" /\ IsLeaf(at) /\ rows' = rows
      /\ \/ /\ Len(e) <= MAX_KEYS_LEAF /\ blk' = [blk EXCEPT ![at].recs = e] /\ Return
            /\ UNCHANGED <<root, todo, up>>
         \/ /\ Len(e) > MAX_KEYS_LEAF /\ Unused # {} /\ blk' = splitLeaf(at, NewBlock, e)
            /\ PutUp(at, NewBlock, ValOf[e[(MAX_KEYS_LEAF + 1) \div 2]])
         \/ Len(e) > MAX_KEYS_LEAF /\ Unused = {} /\ Unwind({})
  BY <1>3, <1>4 DEF insertIntoLeaf
<1>6. \A range2, level2 : Tree(range2, level2) => Stores(e, range2[at])
  <2>1. ASSUME NEW range2, NEW level2, Tree(range2, level2)
        PROVE  Rising(e) /\ \A j \in 1 .. Len(e) : ValOf[e[j]] \in range2[at]
    BY <1>1, <1>3, <1>4, <1>5, <2>1, Entries
  <2> QED BY <2>1 DEF Stores
<1>7. at \in Block /\ e \in Seq(Recs) /\ Len(e) = Len(blk[at].recs) + 1
  BY <1>1, <1>2, <1>3, <1>4, <1>5, Entries
<1>8. ToSet(e) = ToSet(blk[at].recs) \cup {rec}
  BY <1>1, <1>2, <1>3, <1>4, <1>5, EntriesAll
<1>9. Len(e) \in Nat /\ MAX_KEYS_LEAF \in Nat
  BY <1>7, TreeAssumption
<1>10. CASE /\ Len(e) <= MAX_KEYS_LEAF /\ blk' = [blk EXCEPT ![at].recs = e] /\ Return
            /\ UNCHANGED <<root, todo, up>>
  BY <1>5, <1>8, <1>10, LeafFitsLinked
<1>11. CASE /\ Len(e) > MAX_KEYS_LEAF /\ Unused # {} /\ blk' = splitLeaf(at, NewBlock, e)
            /\ PutUp(at, NewBlock, ValOf[e[(MAX_KEYS_LEAF + 1) \div 2]])
  <2>1. Len(e) = MAX_KEYS_LEAF + 1
    <3>1. Len(blk[at].recs) <= MAX_KEYS_LEAF /\ Len(blk[at].recs) \in Nat
      BY <1>1, <1>7 DEF TypeInv, Fits, Blocks
    <3> QED BY <1>7, <1>9, <1>11, <3>1
  <2> QED BY <1>5, <1>6, <1>7, <1>8, <1>11, <2>1, LeafSplitLinked
<1>12. CASE Unwind({})
  <2>1. IInv'
    BY insertIntoLeafOk
  <2>2. root' = -1 /\ todo' = <<>> /\ ~ Splitting'
    BY <1>12 DEF Unwind, Splitting
  <2> QED BY <2>1, <2>2, NoLeaves
<1> QED BY <1>5, <1>10, <1>11, <1>12

-----------------------------------------------------------------------------
(* An entry goes into an internal block: the leaves stay as they are.      *)

\* A step that puts keys and the entry into internal blocks keeps the chain.
LEMMA KeysMoved ==
  ASSUME JInv, root # -1, Splitting, ~ pc' = "find", rows' = rows, todo' = todo,
         pc' = "idle" => todo = <<>>,
         \A b \in Block : IsLeaf(b)' <=> IsLeaf(b),
         \A b \in Leaf : blk'[b].recs = blk[b].recs /\ blk'[b].rblock = blk[b].rblock,
         \A b \in Block : IsInternal(b)' =>
           \A v \in ToSet(blk'[b].keys) :
             v = up.key \/ \E c \in Block : IsInternal(c) /\ v \in ToSet(blk[c].keys),
         Splitting' => up'.key = up.key \/ \E c \in Block : IsInternal(c) /\ up'.key \in ToSet(blk[c].keys)
  PROVE  JInv'
<1>1. Leaf' = Leaf
  BY DEF Leaf
<1>2. \A v : (v = up.key \/ \E c \in Block : IsInternal(c) /\ v \in ToSet(blk[c].keys)) => HasValue(v)
  BY DEF JInv, KeysFound
<1>3. \A b \in Block : IsInternal(b)' => \A v \in ToSet(blk'[b].keys) : HasValue(v)
  BY <1>2
<1>4. Splitting' => HasValue(up'.key)
  BY <1>2
<1>5. Waiting' = ToSet(todo) /\ Waiting = ToSet(todo)
  BY DEF Waiting, Splitting
<1> QED BY <1>1, <1>3, <1>4, <1>5, Kept

\* The entry and the internal block it goes into.
LEMMA EntryKnown ==
  ASSUME IInv, pc = "internal", NEW K, NEW C, Placed(K, C)
  PROVE  /\ at \in Block /\ IsInternal(at) /\ ~ IsLeaf(at) /\ at \in Index /\ at \notin Leaf
         /\ root # -1 /\ Splitting /\ blk \in [Block -> Blocks] /\ blk[at] \in Blocks
         /\ K \in Seq(Vals) /\ Len(K) = Len(blk[at].keys) + 1 /\ C \in Seq(Block) /\ Len(C) = Len(K) + 1
         /\ ToSet(K) = ToSet(blk[at].keys) \cup {up.key}
         /\ ToSet(C) \subseteq Index \ {at}
<1>1. PICK range \in [Block -> SUBSET Vals], level \in [Block -> Nat] : Tree(range, level)
  BY DEF IInv
<1>2. EntryOk(at, range, level, K, C)
  BY <1>1 DEF Placed
<1>3. at \in Block /\ IsInternal(at) /\ ~ IsLeaf(at) /\ at \in Index /\ at \notin Leaf /\ Splitting
  BY <1>1 DEF Tree, SplitOk, Splitting, Index, IsLeaf, IsInternal, Leaf
<1>4. root # -1 /\ blk \in [Block -> Blocks] /\ blk[at] \in Blocks
  BY <1>3 DEF IInv, Control, TypeInv
<1>5. ASSUME NEW c \in ToSet(C)
      PROVE  c \in Index \ {at}
  <2>1. C \in Seq(Block)
    BY <1>2 DEF EntryOk
  <2>2. PICK j \in 1 .. Len(C) : C[j] = c
    BY <1>5, <2>1, ToSetIs
  <2>3. c \in Index /\ level[at] = level[c] + 1
    BY <1>2, <2>2 DEF EntryOk
  <2>4. level[c] \in Nat
    BY <2>3 DEF Index
  <2> QED BY <2>3, <2>4
<1> QED BY <1>2, <1>3, <1>4, <1>5 DEF EntryOk

\* An internal block takes an entry.
LEMMA InternalFitsLinked ==
  ASSUME IInv, JInv, pc = "internal", NEW K, NEW C, Placed(K, C),
         blk' = [blk EXCEPT ![at].keys = K, ![at].kids = C], Return, UNCHANGED <<root, todo, rows>>
  PROVE  JInv'
<1>1. /\ at \in Block /\ IsInternal(at) /\ at \notin Leaf /\ root # -1 /\ Splitting
      /\ blk \in [Block -> Blocks] /\ blk[at] \in Blocks
      /\ ToSet(K) = ToSet(blk[at].keys) \cup {up.key}
  BY EntryKnown
<1>2. /\ blk'[at].keys = K /\ blk'[at].type = blk[at].type
      /\ \A c \in Block \ {at} : blk'[c] = blk[c]
  BY <1>1 DEF Blocks
<1>3. \A c \in Block : (IsLeaf(c)' <=> IsLeaf(c)) /\ (IsInternal(c)' <=> IsInternal(c))
  BY <1>2 DEF IsLeaf, IsInternal
<1>4. pc' \in {"idle", "next"} /\ (pc' = "idle" => todo = <<>>)
  BY DEF Return
<1>5. pc' # "find" /\ ~ Splitting'
  BY <1>4 DEF Splitting
<1>6. \A b \in Leaf : blk'[b].recs = blk[b].recs /\ blk'[b].rblock = blk[b].rblock
  BY <1>1, <1>2 DEF Leaf
<1>7. \A b \in Block : IsInternal(b)' =>
        \A v \in ToSet(blk'[b].keys) :
          v = up.key \/ \E c \in Block : IsInternal(c) /\ v \in ToSet(blk[c].keys)
  <2> TAKE b \in Block
  <2>1. CASE b = at
    BY <1>1, <1>2, <2>1
  <2>2. CASE b # at
    BY <1>2, <1>3, <2>2
  <2> QED BY <2>1, <2>2
<1> QED BY <1>1, <1>3, <1>4, <1>5, <1>6, <1>7, KeysMoved

\* A part of a sequence has no other elements.
LEMMA PartOf ==
  ASSUME NEW S, NEW s \in Seq(S), NEW m \in Nat \ {0}, NEW n \in 0 .. Len(s), m <= n + 1
  PROVE  SubSeq(s, m, n) \in Seq(S) /\ ToSet(SubSeq(s, m, n)) \subseteq ToSet(s)
<1>1. PICK t : t = SubSeq(s, m, n)
  OBVIOUS
<1>2. t \in Seq(S) /\ Len(t) = n - m + 1 /\ \A i \in 1 .. n - m + 1 : t[i] = s[m + i - 1]
  BY <1>1, SubSeqIs
<1>3. ASSUME NEW x \in ToSet(t)
      PROVE  x \in ToSet(s)
  <2>1. PICK i \in 1 .. n - m + 1 : t[i] = x
    BY <1>2, <1>3, ToSetIs
  <2>2. m + i - 1 \in 1 .. Len(s) /\ s[m + i - 1] = x
    BY <1>2, <2>1, LenProperties
  <2> QED BY <2>2, ToSetIs
<1> QED BY <1>1, <1>2, <1>3

\* A full internal block is split for the entry.
LEMMA InternalSplitLinked ==
  ASSUME IInv, JInv, pc = "internal", Unused # {}, NEW K, NEW C, Placed(K, C),
         Len(K) = MAX_KEYS_INTERNAL + 1,
         blk' = splitInternal(at, NewBlock, K, C), PutUp(at, NewBlock, K[MAX_KEYS_INTERNAL \div 2 + 1]),
         rows' = rows
  PROVE  JInv'
<1>1. /\ at \in Block /\ IsInternal(at) /\ ~ IsLeaf(at) /\ at \in Index /\ at \notin Leaf
      /\ root # -1 /\ Splitting
      /\ K \in Seq(Vals) /\ C \in Seq(Block) /\ Len(C) = Len(K) + 1
      /\ ToSet(K) = ToSet(blk[at].keys) \cup {up.key} /\ ToSet(C) \subseteq Index \ {at}
  BY EntryKnown
<1>2. PICK n \in Block : n = NewBlock /\ n \in Unused
  BY NewBlockIs DEF Unused
<1>3. /\ n \notin Index /\ n \notin Leaf /\ ~ IsLeaf(n) /\ ~ IsInternal(n) /\ at # n
  BY <1>1, <1>2 DEF Unused, Index, Leaf, IsLeaf, IsInternal
<1>4. PICK h \in Nat \ {0} : h = MAX_KEYS_INTERNAL \div 2 /\ 2 * h = MAX_KEYS_INTERNAL
  BY InternalHalf
<1>5. Len(K) = 2 * h + 1 /\ Len(C) = 2 * h + 2
  BY <1>1, <1>4
<1>6. PICK L, G : L = SubSeq(K, 1, h) /\ G = SubSeq(K, h + 2, 2 * h + 1)
  OBVIOUS
<1>7. PICK CL, CR : CL = SubSeq(C, 1, h + 1) /\ CR = SubSeq(C, h + 2, 2 * h + 2)
  OBVIOUS
<1>8. /\ 1 \in Nat \ {0} /\ h + 2 \in Nat \ {0}
      /\ h \in 0 .. Len(K) /\ 2 * h + 1 \in 0 .. Len(K) /\ h + 2 <= (2 * h + 1) + 1 /\ 1 <= h + 1
      /\ h + 1 \in 0 .. Len(C) /\ 2 * h + 2 \in 0 .. Len(C) /\ h + 2 <= (2 * h + 2) + 1
      /\ 1 <= (h + 1) + 1
  BY <1>5
<1>9. /\ L \in Seq(Vals) /\ ToSet(L) \subseteq ToSet(K)
      /\ G \in Seq(Vals) /\ ToSet(G) \subseteq ToSet(K)
  <2>1. L \in Seq(Vals) /\ ToSet(L) \subseteq ToSet(K)
    BY <1>1, <1>6, <1>8, PartOf
  <2>2. G \in Seq(Vals) /\ ToSet(G) \subseteq ToSet(K)
    BY <1>1, <1>6, <1>8, PartOf
  <2> QED BY <2>1, <2>2
<1>10. /\ CL \in Seq(Block) /\ CR \in Seq(Block) /\ ToSet(CR) \subseteq ToSet(C)
  <2>1. CL \in Seq(Block)
    BY <1>1, <1>7, <1>8, PartOf
  <2>2. CR \in Seq(Block) /\ ToSet(CR) \subseteq ToSet(C)
    BY <1>1, <1>7, <1>8, PartOf
  <2> QED BY <2>1, <2>2
<1>11. InternalCut(blk', at, n, L, CL, G, CR)
  <2>1. PICK new : new = splitInternal(at, n, K, C)
    OBVIOUS
  <2>2. at \notin ToSet(CR) /\ n \notin ToSet(CR) /\ TypeInv
    BY <1>1, <1>3, <1>10 DEF IInv
  <2>3. InternalCut(new, at, n, L, CL, G, CR)
    BY <1>3, <1>1, <1>4, <1>6, <1>7, <1>9, <1>10, <2>1, <2>2, splitInternalIs
  <2>4. blk' = new
    BY <1>2, <2>1
  <2> QED BY <2>3, <2>4
<1>12. /\ blk'[at].type = blk[at].type /\ blk'[at].keys = L
       /\ blk'[n].type = "IND_INTERNAL" /\ blk'[n].keys = G
       /\ \A c \in Block \ {at, n} :
            /\ blk'[c].type = blk[c].type /\ blk'[c].recs = blk[c].recs
            /\ blk'[c].rblock = blk[c].rblock /\ blk'[c].keys = blk[c].keys
  BY <1>11 DEF InternalCut
<1>13. \A c \in Block : IsLeaf(c)' <=> IsLeaf(c)
  BY <1>3, <1>12 DEF IsLeaf
<1>14. \A b \in Leaf : blk'[b].recs = blk[b].recs /\ blk'[b].rblock = blk[b].rblock
  BY <1>1, <1>3, <1>12 DEF Leaf
<1>15. \A v \in ToSet(K) : v = up.key \/ \E c \in Block : IsInternal(c) /\ v \in ToSet(blk[c].keys)
  BY <1>1
<1>16. \A b \in Block : IsInternal(b)' =>
         \A v \in ToSet(blk'[b].keys) :
           v = up.key \/ \E c \in Block : IsInternal(c) /\ v \in ToSet(blk[c].keys)
  <2> TAKE b \in Block
  <2>1. CASE b \in {at, n}
    BY <1>9, <1>12, <1>15, <2>1
  <2>2. CASE b \notin {at, n}
    BY <1>12, <2>2 DEF IsInternal
  <2> QED BY <2>1, <2>2
<1>17. /\ todo' = todo /\ pc' \in {"internal", "newroot"} /\ up'.key = K[h + 1]
  BY <1>4 DEF PutUp
<1>18. up'.key \in ToSet(K)
  <2>1. h + 1 \in 1 .. Len(K)
    BY <1>5
  <2> QED BY <1>1, <1>17, <2>1, ToSetIs
<1> QED BY <1>1, <1>13, <1>14, <1>15, <1>16, <1>17, <1>18, KeysMoved

\* insertIntoInternal leaves the chain of the leaves as it is.
LEMMA insertIntoInternalLinked ==
  ASSUME Numeric, IInv, JInv, insertIntoInternal
  PROVE  JInv'
<1>1. PICK order \in InternalOrders :
        LET old  == blk[at]
            i    == Place(old.keys, order, up.key)
            keys == InsertAt(old.keys, i, up.key)
            kids == SubSeq(old.kids, 1, i - 1) \o <<up.lChild, up.rChild>>
                      \o SubSeq(old.kids, i + 1, Len(old.kids))
            mid  == keys[MAX_KEYS_INTERNAL \div 2 + 1]
        IN
        /\ pc = "internal"
        /\ \/ /\ Len(keys) <= MAX_KEYS_INTERNAL
              /\ blk' = [blk EXCEPT ![at].keys = keys, ![at].kids = kids]
              /\ Return
              /\ at' = -1 /\ up' = NoEntry
              /\ UNCHANGED <<root, todo>>
           \/ /\ Len(keys) > MAX_KEYS_INTERNAL /\ Unused # {}
              /\ blk' = splitInternal(at, NewBlock, keys, kids)
              /\ PutUp(at, NewBlock, mid)
           \/ /\ Len(keys) > MAX_KEYS_INTERNAL /\ Unused = {}
              /\ Unwind(Subtree(up.rChild))
              /\ at' = -1
        /\ UNCHANGED rows
  BY DEF insertIntoInternal
<1>2. PICK i : i = Place(blk[at].keys, order, up.key)
  OBVIOUS
<1>3. PICK K : K = InsertAt(blk[at].keys, i, up.key)
  OBVIOUS
<1>4. PICK C : C = TwoFor(blk[at].kids, i, up.lChild, up.rChild)
  OBVIOUS
<1>5. C = SubSeq(blk[at].kids, 1, i - 1) \o <<up.lChild, up.rChild>>
            \o SubSeq(blk[at].kids, i + 1, Len(blk[at].kids))
  BY <1>4 DEF TwoFor
<1>6. /\ pc = "internal" /\ rows' = rows
      /\ \/ /\ Len(K) <= MAX_KEYS_INTERNAL
            /\ blk' = [blk EXCEPT ![at].keys = K, ![at].kids = C]
            /\ Return
            /\ UNCHANGED <<root, todo>>
         \/ /\ Len(K) > MAX_KEYS_INTERNAL /\ Unused # {}
            /\ blk' = splitInternal(at, NewBlock, K, C)
            /\ PutUp(at, NewBlock, K[MAX_KEYS_INTERNAL \div 2 + 1])
         \/ Unwind(Subtree(up.rChild))
  BY <1>1, <1>2, <1>3, <1>5
<1>7. Placed(K, C)
  BY <1>2, <1>3, <1>4, <1>6, PlacedIs DEF IInv
<1>8. CASE /\ Len(K) <= MAX_KEYS_INTERNAL
           /\ blk' = [blk EXCEPT ![at].keys = K, ![at].kids = C]
           /\ Return
           /\ UNCHANGED <<root, todo>>
  BY <1>6, <1>7, <1>8, InternalFitsLinked
<1>9. CASE /\ Len(K) > MAX_KEYS_INTERNAL /\ Unused # {}
           /\ blk' = splitInternal(at, NewBlock, K, C)
           /\ PutUp(at, NewBlock, K[MAX_KEYS_INTERNAL \div 2 + 1])
  <2>1. at \in Block /\ Len(K) = Len(blk[at].keys) + 1 /\ blk[at] \in Blocks
    BY <1>6, <1>7, EntryKnown
  <2>2. Len(blk[at].keys) <= MAX_KEYS_INTERNAL /\ Len(blk[at].keys) \in Nat
    BY <2>1, LenProperties DEF IInv, TypeInv, Fits, Blocks
  <2>3. Len(K) = MAX_KEYS_INTERNAL + 1
    <3>1. MAX_KEYS_INTERNAL \in Nat /\ Len(K) > MAX_KEYS_INTERNAL
      BY <1>9, TreeAssumption
    <3> QED BY <2>1, <2>2, <3>1
  <2> QED BY <1>6, <1>7, <1>9, <2>3, InternalSplitLinked
<1>10. CASE Unwind(Subtree(up.rChild))
  <2>1. IInv'
    BY insertIntoInternalOk
  <2>2. root' = -1 /\ todo' = <<>> /\ ~ Splitting'
    BY <1>10 DEF Unwind, Splitting
  <2> QED BY <2>1, <2>2, NoLeaves
<1> QED BY <1>6, <1>8, <1>9, <1>10

\* createNewRoot leaves the chain of the leaves as it is.
LEMMA createNewRootLinked ==
  ASSUME IInv, JInv, createNewRoot
  PROVE  JInv'
<1>1. PICK range \in [Block -> SUBSET Vals], level \in [Block -> Nat] : Tree(range, level)
  BY DEF IInv
<1>2. TypeInv /\ Control /\ Splitting /\ pc = "newroot" /\ rows' = rows
  BY DEF IInv, createNewRoot, Splitting
<1>3. CASE Unused = {}
  <2>1. IInv'
    BY createNewRootOk
  <2>2. root' = -1 /\ todo' = <<>> /\ ~ Splitting'
    BY <1>3 DEF createNewRoot, Unwind, Splitting
  <2> QED BY <2>1, <2>2, NoLeaves
<1>4. CASE Unused # {}
  <2>1. PICK n \in Block : n = NewBlock /\ n \in Unused
    BY <1>4, NewBlockIs DEF Unused
  <2>2. PICK l, r, key : l = up.lChild /\ r = up.rChild /\ key = up.key
    OBVIOUS
  <2>3. PICK right : right = [Node("IND_INTERNAL") EXCEPT !.keys = <<key>>, !.kids = <<l, r>>]
    OBVIOUS
  <2>4. /\ blk' = [blk EXCEPT ![n] = right, ![l].pblock = n, ![r].pblock = n]
        /\ Return /\ up' = NoEntry /\ todo' = todo
    BY <1>4, <2>1, <2>2, <2>3 DEF createNewRoot
  <2>5. l \in Index /\ r \in Index /\ Index \subseteq Block /\ key \in Vals /\ root # -1
    BY <1>1, <1>2, <2>2 DEF Tree, SplitOk, Index, Control
  <2>6. n \notin Index /\ n # l /\ n # r /\ ~ IsInternal(n) /\ ~ IsLeaf(n) /\ n \notin Leaf
    BY <2>1, <2>5 DEF Index, Leaf, Unused, IsLeaf, IsInternal
  <2>7. blk \in [Block -> Blocks]
    BY <1>2 DEF TypeInv
  <2>8. right.type = "IND_INTERNAL" /\ right.keys = <<key>>
    BY <2>3 DEF Node
  <2>9. \A c \in Block :
          blk'[c] = IF c = n THEN right
                    ELSE IF c \in {l, r} THEN [blk[c] EXCEPT !.pblock = n] ELSE blk[c]
    BY <2>4, <2>5, <2>6, <2>7
  <2>10. /\ blk'[n] = right
         /\ \A c \in Block \ {n} :
              /\ blk'[c].type = blk[c].type /\ blk'[c].recs = blk[c].recs
              /\ blk'[c].keys = blk[c].keys /\ blk'[c].rblock = blk[c].rblock
    <3>1. ASSUME NEW c \in Block \ {n}
          PROVE  /\ blk'[c].type = blk[c].type /\ blk'[c].recs = blk[c].recs
                 /\ blk'[c].keys = blk[c].keys /\ blk'[c].rblock = blk[c].rblock
      <4>1. blk[c] \in Blocks
        BY <2>7
      <4>2. blk'[c] = IF c \in {l, r} THEN [blk[c] EXCEPT !.pblock = n] ELSE blk[c]
        BY <2>9, <3>1
      <4> QED BY <4>1, <4>2 DEF Blocks
    <3>2. blk'[n] = right
      BY <2>1, <2>9
    <3> QED BY <3>1, <3>2
  <2>11. \A c \in Block : IsLeaf(c)' <=> IsLeaf(c)
    BY <2>6, <2>8, <2>10 DEF IsLeaf
  <2>12. \A b \in Leaf : blk'[b].recs = blk[b].recs /\ blk'[b].rblock = blk[b].rblock
    BY <2>6, <2>10 DEF Leaf
  <2>13. \A b \in Block : IsInternal(b)' =>
           \A v \in ToSet(blk'[b].keys) :
             v = up.key \/ \E c \in Block : IsInternal(c) /\ v \in ToSet(blk[c].keys)
    <3> TAKE b \in Block
    <3>1. CASE b = n
      <4>1. blk'[b].keys = <<key>> /\ ToSet(<<key>>) = {key}
        BY <2>8, <2>10, <3>1 DEF ToSet
      <4> QED BY <2>2, <4>1
    <3>2. CASE b # n
      BY <2>10, <3>2 DEF IsInternal
    <3> QED BY <3>1, <3>2
  <2>14. pc' \in {"idle", "next"} /\ (pc' = "idle" => todo = <<>>)
    BY <2>4 DEF Return
  <2>15. pc' # "find" /\ ~ Splitting'
    BY <2>14 DEF Splitting
  <2> QED BY <1>2, <2>4, <2>5, <2>11, <2>12, <2>13, <2>14, <2>15, KeysMoved
<1> QED BY <1>3, <1>4

-----------------------------------------------------------------------------
(* The other steps.                                                        *)

\* A step that leaves the blocks as they are keeps the chain.
LEMMA SameBlocks ==
  ASSUME JInv, blk' = blk, root # -1, ~ Splitting', pc' = "idle" => todo' = <<>>,
         ToSet(rows') \ Waiting' \subseteq ToSet(rows) \ Waiting
  PROVE  JInv'
<1>1. \A b \in Block : (IsLeaf(b)' <=> IsLeaf(b)) /\ (IsInternal(b)' <=> IsInternal(b))
  BY DEF IsLeaf, IsInternal
<1>2. Leaf' = Leaf
  BY <1>1 DEF Leaf
<1>3. \A b \in Block : IsInternal(b)' => \A v \in ToSet(blk'[b].keys) : HasValue(v)
  BY <1>1 DEF JInv, KeysFound
<1> QED BY <1>2, <1>3, Kept

\* BlockAccess::insert has the new record wait for the index.
LEMMA InsertLinked ==
  ASSUME IInv, JInv, NEW r \in NewRecs, Insert(r)
  PROVE  JInv'
<1>1. TypeInv /\ IInv'
  BY InsertOk DEF IInv
<1>2. pc = "idle" /\ todo = <<>> /\ blk' = blk /\ root' = root /\ rows' = Append(rows, r)
  BY DEF Insert, JInv
<1>3. CASE root = -1
  <2>1. root' = -1 /\ todo' = <<>> /\ ~ Splitting'
    BY <1>2, <1>3 DEF Insert, Splitting
  <2> QED BY <1>1, <2>1, NoLeaves
<1>4. CASE root # -1
  <2>1. pc' = "next" /\ todo' = <<r>>
    BY <1>4 DEF Insert
  <2>2. r \in Recs /\ rows \in Seq(Recs)
    BY <1>1, RowsAssumption, TreeAssumption DEF TypeInv
  <2>3. ToSet(rows') = ToSet(rows) \cup {r}
    BY <1>2, <2>2, AppendTail
  <2>4. Waiting = {} /\ Waiting' = {r}
    BY <1>2, <2>1 DEF Waiting, ToSet
  <2>5. ~ Splitting'
    BY <2>1 DEF Splitting
  <2> QED BY <1>2, <1>4, <2>1, <2>3, <2>4, <2>5, SameBlocks
<1> QED BY <1>3, <1>4

\* bPlusCreate begins with one leaf, and all records wait.
LEMMA CreateIndexLinked ==
  ASSUME IInv, JInv, CreateIndex
  PROVE  JInv'
<1>1. TypeInv /\ Control /\ root = -1
  BY DEF IInv, CreateIndex
<1>2. PICK n \in Block : n = NewBlock
  BY NewBlockIs DEF CreateIndex, Unused
<1>3. /\ blk' = [blk EXCEPT ![n] = Node("IND_LEAF")] /\ todo' = rows /\ rows' = rows
      /\ pc' = IF rows = <<>> THEN "idle" ELSE "next"
  BY <1>2 DEF CreateIndex
<1>4. \A b \in Block : ~ IsLeaf(b) /\ ~ IsInternal(b)
  BY <1>1 DEF Control, Index
<1>5. blk'[n] = Node("IND_LEAF") /\ \A b \in Block \ {n} : blk'[b] = blk[b]
  BY <1>1, <1>3 DEF TypeInv
<1>6. blk'[n].type = "IND_LEAF" /\ blk'[n].rblock = -1
  BY <1>5 DEF Node
<1>7. \A b \in Block : (IsLeaf(b)' <=> b = n) /\ ~ IsInternal(b)'
  BY <1>4, <1>5, <1>6 DEF IsLeaf, IsInternal
<1>8. Leaf' = {n}
  BY <1>7 DEF Leaf
<1>9. ~ Splitting' /\ (pc' = "idle" => todo' = <<>>)
  BY <1>3 DEF Splitting
<1>10. KeysFound'
  BY <1>7, <1>9 DEF KeysFound
<1>11. RecordsIn'
  <2>1. ToSet(rows') \subseteq Waiting'
    BY <1>3 DEF Waiting
  <2> QED BY <2>1 DEF RecordsIn
<1>12. Linked(<<n>>)'
  <2>1. <<n>> \in Seq(Block) /\ Len(<<n>>) = 1 /\ ToSet(<<n>>) = {n} /\ <<n>>[1] = n
    BY DEF ToSet
  <2>2. \A i \in 1 .. Len(<<n>>) : i = 1
    BY <2>1
  <2>3. OnceOnly(<<n>>)
    BY <2>2 DEF OnceOnly
  <2>4. \A i, j \in 1 .. Len(<<n>>) : i < j => Below(<<n>>[i], <<n>>[j])'
    BY <2>2
  <2>5. \A i \in 1 .. Len(<<n>>) : blk'[<<n>>[i]].rblock = IF i = Len(<<n>>) THEN -1 ELSE <<n>>[i + 1]
    BY <1>6, <2>1, <2>2
  <2>6. ~ (Len(<<n>>) > 1)
    BY <2>1
  <2> QED BY <1>8, <2>1, <2>3, <2>4, <2>5, <2>6 DEF Linked
<1>13. <<n>> \in Seq(Block)
  OBVIOUS
<1> QED BY <1>9, <1>10, <1>11, <1>12, <1>13 DEF JInv

\* Schema::dropIndex leaves no leaf.
LEMMA DropIndexLinked ==
  ASSUME IInv, JInv, DropIndex
  PROVE  JInv'
<1>1. IInv'
  BY DropIndexOk
<1>2. root' = -1 /\ todo' = <<>> /\ ~ Splitting'
  BY DEF DropIndex, JInv, Splitting
<1> QED BY <1>1, <1>2, NoLeaves

\* bPlusInsert and findLeafToInsert change no block.
LEMMA DescentLinked ==
  ASSUME IInv, JInv, bPlusInsert \/ findLeafToInsert
  PROVE  JInv'
<1>1. TypeInv /\ Control
  BY DEF IInv
<1>2. CASE bPlusInsert
  <2>1. pc = "next" /\ pc' = "find" /\ rec' = Head(todo) /\ todo' = Tail(todo) /\ blk' = blk /\ rows' = rows
    BY <1>2 DEF bPlusInsert
  <2>2. todo \in Seq(Recs) /\ todo # <<>> /\ root # -1
    BY <1>1, <2>1 DEF TypeInv, Control
  <2>3. ToSet(todo) \subseteq ToSet(Tail(todo)) \cup {Head(todo)}
    <3>1. ASSUME NEW x \in ToSet(todo)
          PROVE  x \in ToSet(Tail(todo)) \cup {Head(todo)}
      <4>1. PICK i \in 1 .. Len(todo) : todo[i] = x
        BY <2>2, <3>1, ToSetIs
      <4>2. CASE i = 1
        BY <2>2, <4>1, <4>2
      <4>3. CASE i # 1
        <5>1. /\ Tail(todo) \in Seq(Recs) /\ i - 1 \in 1 .. Len(Tail(todo))
              /\ Tail(todo)[i - 1] = x
          BY <2>2, <4>1, <4>3
        <5>2. \A y : y \in ToSet(Tail(todo)) <=> \E j \in 1 .. Len(Tail(todo)) : Tail(todo)[j] = y
          BY <5>1, ToSetIs
        <5> QED BY <5>1, <5>2
      <4> QED BY <4>2, <4>3
    <3> QED BY <3>1
  <2>4. Waiting \subseteq Waiting'
    BY <2>1, <2>3 DEF Waiting
  <2>5. ~ Splitting'
    BY <2>1 DEF Splitting
  <2> QED BY <2>1, <2>2, <2>4, <2>5, SameBlocks
<1>3. CASE findLeafToInsert
  <2>1. pc = "find" /\ UNCHANGED <<blk, root, rows, pc, todo, rec, up>> /\ root # -1
    BY <1>1, <1>3 DEF findLeafToInsert, Control
  <2>2. Waiting' = Waiting /\ ~ Splitting'
    BY <2>1 DEF Waiting, Splitting
  <2> QED BY <2>1, <2>2, SameBlocks
<1> QED BY <1>2, <1>3

\* Every step keeps the leaves linked in order.
LEMMA NextLinked ==
  ASSUME Distinct, Numeric, IInv, JInv, [Next]_vars
  PROVE  JInv'
<1>1. ASSUME NEW r \in NewRecs, Insert(r)
      PROVE  JInv'
  BY <1>1, InsertLinked
<1>2. CASE CreateIndex
  BY <1>2, CreateIndexLinked
<1>3. CASE DropIndex
  BY <1>3, DropIndexLinked
<1>4. CASE bPlusInsert \/ findLeafToInsert
  BY <1>4, DescentLinked
<1>5. CASE insertIntoLeaf
  BY <1>5, insertIntoLeafLinked
<1>6. CASE insertIntoInternal
  BY <1>6, insertIntoInternalLinked
<1>7. CASE createNewRoot
  BY <1>7, createNewRootLinked
<1>8. CASE UNCHANGED vars
  <2>1. UNCHANGED <<blk, root, rows, pc, todo, rec, at, up>>
    BY <1>8 DEF vars
  <2>2. \A b : (IsLeaf(b)' <=> IsLeaf(b)) /\ (IsInternal(b)' <=> IsInternal(b))
    BY <2>1 DEF IsLeaf, IsInternal
  <2>3. Leaf' = Leaf
    BY <2>2 DEF Leaf
  <2>4. \A v : HasValue(v)' <=> HasValue(v)
    BY <2>1, <2>3 DEF HasValue, InLeaf
  <2>5. KeysFound' /\ RecordsIn'
    BY <2>1, <2>2, <2>3, <2>4 DEF JInv, KeysFound, RecordsIn, Splitting, Waiting, InLeaf
  <2>6. \E L \in Seq(Block) : Linked(L)'
    BY <2>1, <2>3 DEF JInv, Linked, Below
  <2> QED BY <2>1, <2>5, <2>6 DEF JInv
<1> QED BY <1>1, <1>2, <1>3, <1>4, <1>5, <1>6, <1>7, <1>8 DEF Next, InsertStep

-----------------------------------------------------------------------------
(* Where a search starts.                                                  *)

\* the blocks a search passes from b on, given the child it goes to from each
Onward(child, S) == \A b \in S : IsInternal(b) => child[b] \in S
Passed(child, b) == {c \in Index : \A S \in SUBSET Index : b \in S /\ Onward(child, S) => c \in S}
End(child, b)    == CHOOSE c : c \in Passed(child, b) /\ ~ IsInternal(c)

\* one level of the recursion of bPlusSearch's way down
Down(child, f) == [b \in Block |-> IF IsInternal(b) THEN f[child[b]] ELSE b]

\* The blocks passed from an internal block are it and those passed from its child.
LEMMA PassedIs ==
  ASSUME NEW child, \A b \in Index : IsInternal(b) => child[b] \in Index
  PROVE  /\ \A b \in Index : IsInternal(b) => Passed(child, b) = {b} \cup Passed(child, child[b])
         /\ \A b \in Index : ~ IsInternal(b) => Passed(child, b) = {b}
<1>1. ASSUME NEW b \in Index
      PROVE  b \in Passed(child, b) /\ Onward(child, Passed(child, b))
  <2>1. b \in Passed(child, b)
    BY DEF Passed
  <2>2. ASSUME NEW c \in Passed(child, b), IsInternal(c)
        PROVE  child[c] \in Passed(child, b)
    <3>1. c \in Index /\ child[c] \in Index
      BY <2>2 DEF Passed
    <3>2. ASSUME NEW S \in SUBSET Index, b \in S, Onward(child, S)
          PROVE  child[c] \in S
      <4>1. c \in S
        BY <2>2, <3>2 DEF Passed
      <4> QED BY <2>2, <3>2, <4>1 DEF Onward
    <3> QED BY <3>1, <3>2 DEF Passed
  <2> QED BY <2>1, <2>2 DEF Onward
<1>2. ASSUME NEW b \in Index, IsInternal(b)
      PROVE  Passed(child, b) = {b} \cup Passed(child, child[b])
  <2>1. PICK c \in Index : c = child[b]
    BY <1>2
  <2>2. PICK S : S = {b} \cup Passed(child, c)
    OBVIOUS
  <2>3. S \in SUBSET Index /\ b \in S
    BY <2>2 DEF Passed
  <2>4. Onward(child, S)
    <3>1. c \in Passed(child, c) /\ Onward(child, Passed(child, c))
      BY <1>1
    <3> QED BY <2>1, <2>2, <3>1 DEF Onward
  <2>5. Passed(child, b) \subseteq S
    BY <2>3, <2>4 DEF Passed
  <2>6. b \in Passed(child, b)
    BY <1>1
  <2>7. ASSUME NEW x \in Passed(child, c)
        PROVE  x \in Passed(child, b)
    <3>1. x \in Index
      BY <2>7 DEF Passed
    <3>2. ASSUME NEW U \in SUBSET Index, b \in U, Onward(child, U)
          PROVE  x \in U
      <4>1. c \in U
        BY <1>2, <2>1, <3>2 DEF Onward
      <4> QED BY <2>7, <3>2, <4>1 DEF Passed
    <3> QED BY <3>1, <3>2 DEF Passed
  <2> QED BY <2>1, <2>2, <2>5, <2>6, <2>7
<1>3. ASSUME NEW b \in Index, ~ IsInternal(b)
      PROVE  Passed(child, b) = {b}
  <2>1. {b} \in SUBSET Index /\ Onward(child, {b})
    BY <1>3 DEF Onward
  <2>2. Passed(child, b) \subseteq {b}
    BY <2>1 DEF Passed
  <2> QED BY <1>1, <2>2
<1> QED BY <1>2, <1>3

\* The recursion has a solution.
LEMMA DownHasSolution ==
  ASSUME NEW child, \A b \in Index : IsInternal(b) => child[b] \in Index
  PROVE  \E f : f = Down(child, f)
<1>1. PICK F : F = [b \in Block |-> IF IsInternal(b) THEN End(child, b) ELSE b]
  OBVIOUS
<1>2. ASSUME NEW b \in Block
      PROVE  F[b] = IF IsInternal(b) THEN F[child[b]] ELSE b
  <2>1. CASE ~ IsInternal(b)
    BY <1>1, <2>1
  <2>2. CASE IsInternal(b)
    <3>1. PICK c \in Index : c = child[b]
      BY <2>2 DEF Index
    <3>2. b \in Index /\ c \in Block
      BY <2>2, <3>1 DEF Index
    <3>3. Passed(child, b) = {b} \cup Passed(child, c)
      BY <2>2, <3>1, <3>2, PassedIs
    <3>4. \A x : (x \in Passed(child, b) /\ ~ IsInternal(x)) <=> (x \in Passed(child, c) /\ ~ IsInternal(x))
      BY <2>2, <3>3
    <3>5. End(child, b) = End(child, c)
      BY <3>4 DEF End
    <3>6. ~ IsInternal(c) => End(child, c) = c
      <4>1. ~ IsInternal(c) => Passed(child, c) = {c}
        BY PassedIs
      <4> QED BY <4>1 DEF End
    <3> QED BY <1>1, <2>2, <3>1, <3>2, <3>5, <3>6
  <2> QED BY <2>1, <2>2
<1>3. F = Down(child, F)
  BY <1>1, <1>2 DEF Down
<1> QED BY <1>3

\* A search starts in a leaf, which is in each set that the way down stays in.
LEMMA StartIn ==
  ASSUME NEW range, NEW level, Settled(range, level), NEW op, NEW v,
         \A b \in Index : IsInternal(b) => ChildFor(b, op, v) \in Kids(b),
         NEW Good \in SUBSET Index, root \in Good,
         \A b \in Good : IsInternal(b) => ChildFor(b, op, v) \in Good
  PROVE  StartLeaf(op, v) \in Good /\ StartLeaf(op, v) \in Leaf
<1>1. PICK child : child = [b \in Block |-> ChildFor(b, op, v)]
  OBVIOUS
<1>2. /\ Index \subseteq Block /\ \A b \in Index : level[b] \in Nat
      /\ \A b \in Index : IsInternal(b) => child[b] \in Kids(b)
      /\ \A b \in Good : IsInternal(b) => child[b] \in Good
  BY <1>1 DEF Index, Settled
<1>3. \A b \in Index : IsInternal(b) => child[b] \in Index /\ level[b] = level[child[b]] + 1
  BY <1>2, KidsBelow DEF Settled
<1>4. PICK d : d = CHOOSE f : f = Down(child, f)
  OBVIOUS
<1>5. d = Down(child, d)
  BY <1>3, <1>4, DownHasSolution
<1>6. StartLeaf(op, v) = d[root]
  <2>1. \A f : Down(child, f) = [b \in Block |-> IF IsInternal(b) THEN f[ChildFor(b, op, v)] ELSE b]
    BY <1>1 DEF Down
  <2>2. d = CHOOSE f : f = [b \in Block |-> IF IsInternal(b) THEN f[ChildFor(b, op, v)] ELSE b]
    BY <1>4, <2>1
  <2> QED BY <2>2 DEF StartLeaf
<1>7. \A b \in Block : d[b] = IF IsInternal(b) THEN d[child[b]] ELSE b
  BY <1>5 DEF Down
<1> DEFINE T == {n \in Nat : \E b \in Good : level[b] = n /\ d[b] \notin Good \cap Leaf}
<1>8. T = {}
  <2> SUFFICES ASSUME T # {} PROVE FALSE
    OBVIOUS
  <2>1. T \subseteq Nat
    OBVIOUS
  <2>2. PICK n \in T : \A m \in T : n <= m
    <3> HIDE DEF T
    <3> QED BY <2>1, LeastNumber
  <2>3. PICK b \in Good : level[b] = n /\ d[b] \notin Good \cap Leaf
    BY <2>2
  <2>4. b \in Index /\ b \in Block
    BY <1>2
  <2>5. CASE ~ IsInternal(b)
    <3>1. d[b] = b /\ b \in Leaf
      BY <1>7, <2>4, <2>5 DEF Index, Leaf
    <3> QED BY <2>3, <3>1
  <2>6. CASE IsInternal(b)
    <3>1. child[b] \in Good /\ level[b] = level[child[b]] + 1 /\ d[child[b]] = d[b]
      BY <1>2, <1>3, <1>7, <2>4, <2>6
    <3>2. level[child[b]] \in Nat
      BY <1>2, <3>1
    <3>3. level[child[b]] \in T
      BY <2>3, <3>1, <3>2
    <3> HIDE DEF T
    <3> QED BY <2>2, <2>3, <3>1, <3>2, <3>3
  <2> QED BY <2>5, <2>6
<1>9. level[root] \in Nat
  BY <1>2
<1>10. d[root] \in Good \cap Leaf
  BY <1>8, <1>9
<1> QED BY <1>6, <1>10

\* The first key that is not smaller than v.
LEMMA AtLeastIs ==
  ASSUME NEW keys \in Seq(Vals), NEW v \in Vals,
         NEW i, i = FirstIndex(keys, LAMBDA k : k >= v)
  PROVE  /\ i \in 1 .. Len(keys) + 1
         /\ i <= Len(keys) => keys[i] >= v
         /\ \A j \in 1 .. i - 1 : keys[j] < v
<1> DEFINE T == {j \in 1 .. Len(keys) : keys[j] >= v}
<1>1. Len(keys) \in Nat /\ DOMAIN keys = 1 .. Len(keys) /\ \A j \in 1 .. Len(keys) : keys[j] \in Nat
  BY Values
<1>2. v \in Nat
  BY Values
<1>3. CASE T = {}
  <2>1. i = Len(keys) + 1
    BY <1>1, <1>3 DEF FirstIndex
  <2>2. \A j \in 1 .. Len(keys) : keys[j] < v
    BY <1>1, <1>2, <1>3
  <2> HIDE DEF T
  <2>3. i \in 1 .. Len(keys) + 1 /\ ~ (i <= Len(keys)) /\ 1 .. i - 1 = 1 .. Len(keys)
    BY <1>1, <2>1
  <2> QED BY <2>2, <2>3
<1>4. CASE T # {}
  <2>1. \E k \in T : \A j \in 1 .. k - 1 : j \notin T
    BY <1>1, <1>4, FirstIs
  <2>2. \E k \in 1 .. Len(keys) : keys[k] >= v /\ \A j \in 1 .. k - 1 : ~ (keys[j] >= v)
    BY <1>1, <2>1
  <2>3. i = CHOOSE k \in 1 .. Len(keys) : keys[k] >= v /\ \A j \in 1 .. k - 1 : ~ (keys[j] >= v)
    BY <1>1, <2>2 DEF FirstIndex
  <2>4. i \in 1 .. Len(keys) /\ keys[i] >= v /\ \A j \in 1 .. i - 1 : ~ (keys[j] >= v)
    BY <2>2, <2>3
  <2> HIDE DEF T
  <2>5. \A j \in 1 .. i - 1 : j \in 1 .. Len(keys)
    BY <1>1, <2>4
  <2>6. ASSUME NEW j \in 1 .. i - 1
        PROVE  keys[j] < v
    <3>1. ~ (keys[j] >= v) /\ keys[j] \in Nat
      BY <1>1, <2>4, <2>5
    <3> QED BY <1>2, <3>1
  <2>7. i \in 1 .. Len(keys) + 1
    BY <1>1, <2>4
  <2> QED BY <2>4, <2>6, <2>7
<1> QED BY <1>3, <1>4

\* The first key that is larger than v.
LEMMA AboveIs ==
  ASSUME NEW keys \in Seq(Vals), NEW v \in Vals,
         NEW i, i = FirstIndex(keys, LAMBDA k : k > v)
  PROVE  /\ i \in 1 .. Len(keys) + 1
         /\ i <= Len(keys) => keys[i] > v
         /\ \A j \in 1 .. i - 1 : keys[j] <= v
<1> DEFINE T == {j \in 1 .. Len(keys) : keys[j] > v}
<1>1. Len(keys) \in Nat /\ DOMAIN keys = 1 .. Len(keys) /\ \A j \in 1 .. Len(keys) : keys[j] \in Nat
  BY Values
<1>2. v \in Nat
  BY Values
<1>3. CASE T = {}
  <2>1. i = Len(keys) + 1
    BY <1>1, <1>3 DEF FirstIndex
  <2>2. \A j \in 1 .. Len(keys) : keys[j] <= v
    BY <1>1, <1>2, <1>3
  <2> HIDE DEF T
  <2>3. i \in 1 .. Len(keys) + 1 /\ ~ (i <= Len(keys)) /\ 1 .. i - 1 = 1 .. Len(keys)
    BY <1>1, <2>1
  <2> QED BY <2>2, <2>3
<1>4. CASE T # {}
  <2>1. \E k \in T : \A j \in 1 .. k - 1 : j \notin T
    BY <1>1, <1>4, FirstIs
  <2>2. \E k \in 1 .. Len(keys) : keys[k] > v /\ \A j \in 1 .. k - 1 : ~ (keys[j] > v)
    BY <1>1, <2>1
  <2>3. i = CHOOSE k \in 1 .. Len(keys) : keys[k] > v /\ \A j \in 1 .. k - 1 : ~ (keys[j] > v)
    BY <1>1, <2>2 DEF FirstIndex
  <2>4. i \in 1 .. Len(keys) /\ keys[i] > v /\ \A j \in 1 .. i - 1 : ~ (keys[j] > v)
    BY <2>2, <2>3
  <2> HIDE DEF T
  <2>5. \A j \in 1 .. i - 1 : j \in 1 .. Len(keys)
    BY <1>1, <2>4
  <2>6. ASSUME NEW j \in 1 .. i - 1
        PROVE  keys[j] <= v
    <3>1. ~ (keys[j] > v) /\ keys[j] \in Nat
      BY <1>1, <2>4, <2>5
    <3> QED BY <1>2, <3>1
  <2>7. i \in 1 .. Len(keys) + 1
    BY <1>1, <2>4
  <2> QED BY <2>4, <2>6, <2>7
<1> QED BY <1>3, <1>4

\* w is the least value that satisfies a condition of the form "at least" or "above"
Aims(op, v, w) ==
  /\ op \in {"EQ", "GE", "GT"} /\ v \in Vals /\ w \in Vals
  /\ \A u \in Vals : u >= w <=> IF op = "GT" THEN u > v ELSE u >= v

\* Such a search goes to the child that takes w.
LEMMA ChildAims ==
  ASSUME NEW range, NEW level, Settled(range, level), NEW op, NEW v, NEW w, Aims(op, v, w),
         NEW b \in Block, IsInternal(b)
  PROVE  \E i \in 1 .. Len(blk[b].kids) :
           /\ ChildFor(b, op, v) = blk[b].kids[i]
           /\ w \in range[b] => w \in Slice(range[b], blk[b].keys, i)
<1>1. PICK keys \in Seq(Vals) : keys = blk[b].keys
  BY KeysAre
<1>2. PICK kids \in Seq(Block) : kids = blk[b].kids /\ Len(kids) = Len(keys) + 1
  BY <1>1, KeysAre
<1>3. Len(keys) \in Nat /\ \A j \in 1 .. Len(keys) : keys[j] \in Vals /\ keys[j] \in Nat
  BY LenProperties, ElementOfSeq, Values
<1>4. w \in Nat /\ v \in Vals
  BY Values DEF Aims
<1>5. ASSUME NEW i \in 1 .. Len(keys) + 1, i <= Len(keys) => keys[i] >= w,
             \A j \in 1 .. i - 1 : ~ (keys[j] >= w), w \in range[b]
      PROVE  w \in Slice(range[b], keys, i)
  <2>1. i > 1 => keys[i - 1] < w
    <3>1. i > 1 => i - 1 \in 1 .. i - 1 /\ i - 1 \in 1 .. Len(keys)
      BY <1>3
    <3>2. i > 1 => ~ (keys[i - 1] >= w) /\ keys[i - 1] \in Nat
      BY <1>3, <1>5, <3>1
    <3> QED BY <1>4, <3>2
  <2>2. i <= Len(keys) => w <= keys[i]
    <3>1. i <= Len(keys) => keys[i] \in Nat
      BY <1>3
    <3> QED BY <1>4, <1>5, <3>1
  <2> QED BY <1>5, <2>1, <2>2 DEF Slice
<1>6. CASE op \in {"EQ", "GE"}
  <2>1. PICK i : i = FirstIndex(keys, LAMBDA k : k >= v)
    OBVIOUS
  <2>2. ChildFor(b, op, v) = kids[i]
    BY <1>1, <1>2, <1>6, <2>1 DEF ChildFor
  <2>3. /\ i \in 1 .. Len(keys) + 1 /\ (i <= Len(keys) => keys[i] >= v)
        /\ \A j \in 1 .. i - 1 : keys[j] < v
    BY <1>4, <2>1, AtLeastIs
  <2>4. \A u \in Vals : u >= w <=> u >= v
    BY <1>6 DEF Aims
  <2>5. /\ i <= Len(keys) => keys[i] >= w
        /\ \A j \in 1 .. i - 1 : ~ (keys[j] >= w)
    <3>1. \A j \in 1 .. i - 1 : j \in 1 .. Len(keys)
      BY <1>3, <2>3
    <3>2. i <= Len(keys) => i \in 1 .. Len(keys)
      BY <1>3, <2>3
    <3>3. v \in Nat
      BY <1>4, Values
    <3>4. \A j \in 1 .. i - 1 : ~ (keys[j] >= v)
      BY <1>3, <2>3, <3>1, <3>3
    <3> QED BY <1>3, <2>3, <2>4, <3>1, <3>2, <3>4
  <2>6. w \in range[b] => w \in Slice(range[b], keys, i)
    BY <1>5, <2>3, <2>5
  <2> QED BY <1>1, <1>2, <2>2, <2>3, <2>6
<1>7. CASE op = "GT"
  <2>1. PICK i : i = FirstIndex(keys, LAMBDA k : k > v)
    OBVIOUS
  <2>2. ChildFor(b, op, v) = kids[i]
    BY <1>1, <1>2, <1>7, <2>1 DEF ChildFor
  <2>3. /\ i \in 1 .. Len(keys) + 1 /\ (i <= Len(keys) => keys[i] > v)
        /\ \A j \in 1 .. i - 1 : keys[j] <= v
    BY <1>4, <2>1, AboveIs
  <2>4. \A u \in Vals : u >= w <=> u > v
    BY <1>7 DEF Aims
  <2>5. /\ i <= Len(keys) => keys[i] >= w
        /\ \A j \in 1 .. i - 1 : ~ (keys[j] >= w)
    <3>1. \A j \in 1 .. i - 1 : j \in 1 .. Len(keys)
      BY <1>3, <2>3
    <3>2. i <= Len(keys) => i \in 1 .. Len(keys)
      BY <1>3, <2>3
    <3>3. v \in Nat
      BY <1>4, Values
    <3>4. \A j \in 1 .. i - 1 : ~ (keys[j] > v)
      BY <1>3, <2>3, <3>1, <3>3
    <3> QED BY <1>3, <2>3, <2>4, <3>1, <3>2, <3>4
  <2>6. w \in range[b] => w \in Slice(range[b], keys, i)
    BY <1>5, <2>3, <2>5
  <2> QED BY <1>1, <1>2, <2>2, <2>3, <2>6
<1> QED BY <1>6, <1>7 DEF Aims

\* A search for larger values starts in the leaf that takes the least of them.
LEMMA StartAims ==
  ASSUME NEW range, NEW level, Settled(range, level), NEW op, NEW v, NEW w, Aims(op, v, w)
  PROVE  StartLeaf(op, v) \in Leaf /\ w \in range[StartLeaf(op, v)]
<1>1. /\ root \in Index /\ Index \subseteq Block /\ range[root] = Vals
  BY DEF Settled, Control, Tree, Index, Cut
<1>2. \A b \in Index : IsInternal(b) => ChildFor(b, op, v) \in Kids(b)
  <2> SUFFICES ASSUME NEW b \in Index, IsInternal(b) PROVE ChildFor(b, op, v) \in ToSet(blk[b].kids)
    BY DEF Kids
  <2>1. PICK i \in 1 .. Len(blk[b].kids) : ChildFor(b, op, v) = blk[b].kids[i]
    BY <1>1, ChildAims
  <2>2. blk[b].kids \in Seq(Block)
    BY <1>1, KeysAre
  <2> QED BY <2>1, <2>2, ToSetIs
<1>3. PICK Good : Good = {b \in Index : w \in range[b]}
  OBVIOUS
<1>4. root \in Good /\ Good \in SUBSET Index
  BY <1>1, <1>3 DEF Aims
<1>5. ASSUME NEW b \in Good, IsInternal(b)
      PROVE  ChildFor(b, op, v) \in Good
  <2>1. b \in Block /\ w \in range[b]
    BY <1>1, <1>3
  <2>2. PICK i \in 1 .. Len(blk[b].kids) : /\ ChildFor(b, op, v) = blk[b].kids[i]
                                           /\ w \in Slice(range[b], blk[b].keys, i)
    BY <1>5, <2>1, ChildAims
  <2>3. blk[b].kids[i] \in Index /\ range[blk[b].kids[i]] = Slice(range[b], blk[b].keys, i)
    BY <1>5, <2>1, <2>2, KeysAre DEF Child
  <2> QED BY <1>3, <2>2, <2>3
<1>6. StartLeaf(op, v) \in Good /\ StartLeaf(op, v) \in Leaf
  BY <1>2, <1>4, <1>5, StartIn
<1> QED BY <1>3, <1>6

\* The other searches start in the leaf that takes the smallest values.
LEMMA StartFirst ==
  ASSUME NEW range, NEW level, Settled(range, level), NEW op \in {"NE", "LT", "LE"}, NEW v
  PROVE  /\ StartLeaf(op, v) \in Leaf
         /\ \A w \in range[StartLeaf(op, v)], u \in Vals : u < w => u \in range[StartLeaf(op, v)]
<1>1. /\ root \in Index /\ Index \subseteq Block /\ range[root] = Vals
  BY DEF Settled, Control, Tree, Index, Cut
<1>2. ASSUME NEW b \in Index, IsInternal(b)
      PROVE  /\ ChildFor(b, op, v) = blk[b].kids[1] /\ 1 \in 1 .. Len(blk[b].kids)
             /\ blk[b].kids \in Seq(Block) /\ blk[b].kids[1] \in Index
             /\ range[blk[b].kids[1]] = Slice(range[b], blk[b].keys, 1)
             /\ blk[b].keys \in Seq(Vals) /\ Len(blk[b].keys) \in Nat
  <2>1. ChildFor(b, op, v) = blk[b].kids[1]
    BY DEF ChildFor
  <2>2. /\ blk[b].keys \in Seq(Vals) /\ Len(blk[b].keys) \in Nat /\ blk[b].kids \in Seq(Block)
        /\ Len(blk[b].kids) = Len(blk[b].keys) + 1
        /\ \A i \in 1 .. Len(blk[b].kids) :
             blk[b].kids[i] \in Index /\ Child(b, i, blk[b].kids[i], range, level)
    BY <1>1, <1>2, KeysAre
  <2>3. 1 \in 1 .. Len(blk[b].kids)
    BY <2>2
  <2> QED BY <2>1, <2>2, <2>3 DEF Child
<1>3. \A b \in Index : IsInternal(b) => ChildFor(b, op, v) \in Kids(b)
  BY <1>2, ToSetIs DEF Kids
<1>4. PICK Good : Good = {b \in Index : \A w \in range[b], u \in Vals : u < w => u \in range[b]}
  OBVIOUS
<1>5. root \in Good /\ Good \in SUBSET Index
  BY <1>1, <1>4
<1>6. ASSUME NEW b \in Good, IsInternal(b)
      PROVE  ChildFor(b, op, v) \in Good
  <2>1. PICK c : c = ChildFor(b, op, v)
    OBVIOUS
  <2>2. /\ c \in Index /\ range[c] = Slice(range[b], blk[b].keys, 1)
        /\ blk[b].keys \in Seq(Vals) /\ Len(blk[b].keys) \in Nat
    BY <1>2, <1>4, <1>6, <2>1
  <2>3. ASSUME NEW w \in range[c], NEW u \in Vals, u < w
        PROVE  u \in range[c]
    <3>1. w \in range[b] /\ (1 <= Len(blk[b].keys) => w <= blk[b].keys[1])
      BY <2>2 DEF Slice
    <3>2. u \in range[b]
      BY <1>4, <2>3, <3>1
    <3>3. w \in Nat /\ u \in Nat
      <4>1. range[b] \in SUBSET Vals
        BY <1>1, <1>4 DEF Settled
      <4> QED BY <3>1, <4>1, Values
    <3>4. 1 <= Len(blk[b].keys) => blk[b].keys[1] \in Nat
      <4>1. 1 <= Len(blk[b].keys) => 1 \in 1 .. Len(blk[b].keys)
        BY <2>2
      <4> QED BY <2>2, <4>1, ElementOfSeq, Values
    <3>5. 1 <= Len(blk[b].keys) => u <= blk[b].keys[1]
      BY <2>3, <3>1, <3>3, <3>4
    <3> QED BY <2>2, <3>2, <3>5 DEF Slice
  <2> QED BY <1>4, <2>1, <2>2, <2>3
<1>7. StartLeaf(op, v) \in Good /\ StartLeaf(op, v) \in Leaf
  BY <1>3, <1>5, <1>6, StartIn
<1> QED BY <1>4, <1>7

\* The largest value of a block, if there are larger ones beyond it, is in a leaf.
Ended(b, range) ==
  \/ \E k \in range[b] : HasValue(k) /\ \A u \in range[b] : u <= k
  \/ \A w \in range[b], u \in Vals : u > w => u \in range[b]

LEMMA EndedAll ==
  ASSUME NEW range, NEW level, Settled(range, level), KeysFound
  PROVE  \A b \in Index : range[b] # {} => Ended(b, range)
<1> DEFINE Open(b) == range[b] # {} /\ ~ Ended(b, range)
           T       == {n \in Nat : \E b \in Index : level[root] - level[b] = n /\ Open(b)}
<1>1. /\ root \in Index /\ \A b \in Index : level[b] \in Nat /\ level[b] <= level[root]
      /\ \A b \in Index : b \in Block /\ range[b] \in SUBSET Vals
  BY DEF Settled, Control, Tree, Index
<1>2. T = {}
  <2> SUFFICES ASSUME T # {} PROVE FALSE
    OBVIOUS
  <2>1. T \subseteq Nat
    OBVIOUS
  <2>2. PICK n \in T : \A m \in T : n <= m
    <3> HIDE DEF T
    <3> QED BY <2>1, LeastNumber
  <2>3. PICK b \in Index : level[root] - level[b] = n /\ Open(b)
    BY <2>2
  <2>4. b # root
    <3>1. range[root] = Vals
      BY DEF Settled, Tree, Cut
    <3> QED BY <2>3, <3>1 DEF Ended
  <2>5. PICK p \in Index, i \in Nat : Child(p, i, b, range, level)
    BY <2>4, ParentIs
  <2>6. PICK keys \in Seq(Vals) : keys = blk[p].keys
    BY <1>1, <2>5, KeysAre DEF Child
  <2>7. /\ Len(keys) \in Nat /\ Ascend(keys) /\ ToSet(keys) \subseteq range[p]
        /\ i \in 1 .. Len(keys) + 1 /\ range[b] = Slice(range[p], keys, i)
        /\ IsInternal(p) /\ level[p] = level[b] + 1
    BY <1>1, <2>5, <2>6, KeysAre DEF Child
  <2>8. \A j \in 1 .. Len(keys) : keys[j] \in Vals /\ keys[j] \in Nat /\ keys[j] \in range[p]
    <3>1. \A j \in 1 .. Len(keys) : keys[j] \in ToSet(keys)
      BY <2>6, ToSetIs
    <3>2. \A j \in 1 .. Len(keys) : keys[j] \in Vals
      BY <2>6, ElementOfSeq
    <3> QED BY <2>7, <3>1, <3>2, Values
  <2>9. range[p] \subseteq Vals /\ Vals \subseteq Nat
    BY <1>1, Values
  <2>10. i = Len(keys) + 1
    <3> SUFFICES ASSUME i \in 1 .. Len(keys) PROVE FALSE
      BY <2>7
    <3>1. keys[i] \in range[b]
      <4>1. i > 1 => keys[i - 1] < keys[i]
        <5>1. i > 1 => i - 1 \in 1 .. Len(keys) /\ i - 1 < i
          BY <2>7
        <5> QED BY <2>7, <5>1 DEF Ascend
      <4>2. keys[i] <= keys[i]
        BY <2>8
      <4> QED BY <2>7, <2>8, <4>1, <4>2 DEF Slice
    <3>2. \A u \in range[b] : u <= keys[i]
      BY <2>7 DEF Slice
    <3>3. HasValue(keys[i])
      <4>1. keys[i] \in ToSet(blk[p].keys)
        BY <2>6, ToSetIs
      <4> QED BY <1>1, <2>7, <4>1 DEF KeysFound
    <3> QED BY <2>3, <3>1, <3>2, <3>3 DEF Ended
  <2>11. \A u : u \in range[b] <=> u \in range[p] /\ (i > 1 => keys[i - 1] < u)
    <3>1. ~ (i <= Len(keys))
      BY <2>7, <2>10
    <3> QED BY <2>7, <3>1 DEF Slice
  <2>12. i > 1 => keys[i - 1] \in Nat
    <3>1. i > 1 => i - 1 \in 1 .. Len(keys)
      BY <2>7
    <3> QED BY <2>8, <3>1
  <2>13. PICK w \in range[b] : TRUE
    BY <2>3
  <2>14. w \in range[p] /\ w \in Nat
    BY <2>9, <2>11, <2>13
  <2>15. ~ Ended(p, range)
    <3>1. ASSUME NEW k \in range[p], HasValue(k), \A u \in range[p] : u <= k
          PROVE  FALSE
      <4>1. w <= k /\ k \in Nat
        BY <2>9, <2>14, <3>1
      <4>2. i > 1 => keys[i - 1] < k
        BY <2>11, <2>12, <2>13, <2>14, <4>1
      <4>3. k \in range[b] /\ \A u \in range[b] : u <= k
        BY <2>11, <3>1, <4>2
      <4> QED BY <2>3, <3>1, <4>3 DEF Ended
    <3>2. ASSUME \A x \in range[p], u \in Vals : u > x => u \in range[p]
          PROVE  FALSE
      <4>1. ASSUME NEW x \in range[b], NEW u \in Vals, u > x
            PROVE  u \in range[b]
        <5>1. x \in range[p] /\ x \in Nat /\ u \in Nat
          BY <2>9, <2>11, <4>1
        <5>2. i > 1 => keys[i - 1] < u
          BY <2>11, <2>12, <4>1, <5>1
        <5> QED BY <2>11, <3>2, <4>1, <5>1, <5>2
      <4> QED BY <2>3, <4>1 DEF Ended
    <3> QED BY <3>1, <3>2 DEF Ended
  <2>16. Open(p)
    BY <2>14, <2>15
  <2>17. level[root] - level[p] = n - 1 /\ n - 1 \in Nat
    <3>1. level[p] = level[b] + 1 /\ level[root] - level[b] = n
      BY <2>3, <2>7
    <3>2. level[p] \in Nat /\ level[b] \in Nat /\ level[root] \in Nat /\ level[p] <= level[root]
      BY <1>1
    <3> QED BY <3>1, <3>2
  <2>18. n - 1 \in T
    BY <2>16, <2>17
  <2> HIDE DEF T
  <2> QED BY <2>1, <2>2, <2>18
<1>3. ASSUME NEW b \in Index, Open(b)
      PROVE  FALSE
  <2>1. level[root] - level[b] \in Nat
    BY <1>1
  <2> HIDE DEF Open
  <2> QED BY <1>2, <1>3, <2>1
<1> QED BY <1>3

-----------------------------------------------------------------------------
(* What a search goes through.                                             *)

\* The chain from a leaf on.
LEMMA ChainIs ==
  ASSUME NEW L, Linked(L), NEW k \in 1 .. Len(L)
  PROVE  ChainFrom(L[k]) = SubSeq(L, k, Len(L))
<1> DEFINE D    == Leaf \cup {-1}
           C(f) == [c \in D |-> IF c = -1 THEN <<>> ELSE <<c>> \o f[blk[c].rblock]]
<1>1. L \in Seq(Block) /\ OnceOnly(L) /\ ToSet(L) = Leaf /\ Len(L) \in Nat
  BY LenProperties DEF Linked
<1>2. \A i \in 1 .. Len(L) : L[i] \in Leaf /\ L[i] # -1
  BY <1>1, ToSetIs, TreeAssumption DEF Leaf, Block
<1>3. \A i \in 1 .. Len(L) : blk[L[i]].rblock = IF i = Len(L) THEN -1 ELSE L[i + 1]
  BY DEF Linked
<1>4. \A i \in 1 .. Len(L) : SubSeq(L, i, Len(L)) = <<L[i]>> \o SubSeq(L, i + 1, Len(L))
  BY <1>1, SubSeqRecursiveFirst
<1>5. SubSeq(L, Len(L) + 1, Len(L)) = <<>>
  BY <1>1, SubSeqEmpty
<1>6. PICK pos : pos = [c \in Leaf |-> CHOOSE i \in 1 .. Len(L) : L[i] = c]
  OBVIOUS
<1>7. /\ \A c \in Leaf : pos[c] \in 1 .. Len(L) /\ L[pos[c]] = c
      /\ \A i \in 1 .. Len(L) : pos[L[i]] = i
  <2>1. \A c \in Leaf : \E i \in 1 .. Len(L) : L[i] = c
    BY <1>1, ToSetIs
  <2>2. \A c \in Leaf : pos[c] \in 1 .. Len(L) /\ L[pos[c]] = c
    BY <1>6, <2>1
  <2> QED BY <1>1, <1>2, <2>2 DEF OnceOnly
<1>8. \E f : f = C(f)
  <2>1. PICK F : F = [c \in D |-> IF c = -1 THEN <<>> ELSE SubSeq(L, pos[c], Len(L))]
    OBVIOUS
  <2>2. ASSUME NEW c \in D
        PROVE  F[c] = IF c = -1 THEN <<>> ELSE <<c>> \o F[blk[c].rblock]
    <3>1. CASE c = -1
      BY <2>1, <3>1
    <3>2. CASE c # -1
      <4>1. PICK i \in 1 .. Len(L) : L[i] = c /\ pos[c] = i
        BY <1>7, <3>2
      <4>2. F[c] = <<c>> \o SubSeq(L, i + 1, Len(L))
        BY <1>4, <2>1, <3>2, <4>1
      <4>3. F[blk[c].rblock] = SubSeq(L, i + 1, Len(L))
        <5>1. CASE i = Len(L)
          BY <1>3, <1>5, <2>1, <4>1, <5>1
        <5>2. CASE i # Len(L)
          <6>1. i + 1 \in 1 .. Len(L) /\ blk[c].rblock = L[i + 1]
            BY <1>1, <1>3, <4>1, <5>2
          <6>2. L[i + 1] \in Leaf /\ L[i + 1] # -1 /\ pos[L[i + 1]] = i + 1
            BY <1>2, <1>7, <6>1
          <6> QED BY <2>1, <6>1, <6>2
        <5> QED BY <5>1, <5>2
      <4> QED BY <3>2, <4>2, <4>3
    <3> QED BY <3>1, <3>2
  <2>3. F = C(F)
    BY <2>1, <2>2
  <2> QED BY <2>3
<1>9. PICK s : s = CHOOSE f : f = C(f)
  OBVIOUS
<1>10. s = C(s)
  <2> HIDE DEF C
  <2> QED BY <1>8, <1>9
<1>11. ChainFrom(L[k]) = s[L[k]]
  BY <1>9 DEF ChainFrom, Leaf
<1>12. s[-1] = <<>> /\ \A i \in 1 .. Len(L) : s[L[i]] = <<L[i]>> \o s[blk[L[i]].rblock]
  <2>1. \A c \in D : s[c] = IF c = -1 THEN <<>> ELSE <<c>> \o s[blk[c].rblock]
    BY <1>10
  <2> QED BY <1>2, <2>1
<1> DEFINE T == {n \in Nat : \E i \in 1 .. Len(L) : Len(L) - i = n /\ s[L[i]] # SubSeq(L, i, Len(L))}
<1> HIDE DEF C, D
<1>13. T = {}
  <2> SUFFICES ASSUME T # {} PROVE FALSE
    OBVIOUS
  <2>1. T \subseteq Nat
    OBVIOUS
  <2>2. PICK n \in T : \A m \in T : n <= m
    <3> HIDE DEF T
    <3> QED BY <2>1, LeastNumber
  <2>3. PICK i \in 1 .. Len(L) : Len(L) - i = n /\ s[L[i]] # SubSeq(L, i, Len(L))
    BY <2>2
  <2>4. CASE i = Len(L)
    BY <1>3, <1>4, <1>5, <1>12, <2>3, <2>4
  <2>5. CASE i # Len(L)
    <3>1. i + 1 \in 1 .. Len(L) /\ blk[L[i]].rblock = L[i + 1]
      BY <1>1, <1>3, <2>3, <2>5
    <3>2. s[L[i + 1]] # SubSeq(L, i + 1, Len(L))
      BY <1>4, <1>12, <2>3, <3>1
    <3>3. Len(L) - (i + 1) = n - 1 /\ n - 1 \in Nat
      BY <1>1, <2>3, <3>1
    <3>4. n - 1 \in T
      BY <3>1, <3>2, <3>3
    <3> HIDE DEF T
    <3> QED BY <2>1, <2>2, <3>4
  <2> QED BY <2>4, <2>5
<1>14. Len(L) - k \in Nat
  BY <1>1
<1>15. s[L[k]] = SubSeq(L, k, Len(L))
  BY <1>13, <1>14
<1> QED BY <1>11, <1>15

\* the entries of the leaves S, in the order a search goes through them
Places(S)     == {p \in (1 .. Len(S)) \X (1 .. MAX_KEYS_LEAF) : p[2] <= Len(blk[S[p[1]]].recs)}
RecAt(S, p)   == blk[S[p[1]]].recs[p[2]]
Earlier(p, q) == p[1] < q[1] \/ (p[1] = q[1] /\ p[2] < q[2])
Hit(S, p, op, v) == Satisfies(ValOf[RecAt(S, p)], op, v)

\* the search gives up at p
Stops(S, p, op, v) ==
  /\ ~ Hit(S, p, op, v)
  /\ \/ p[2] = Len(blk[S[p[1]]].recs) /\ op # "NE"
     \/ ValOf[RecAt(S, p)] > v /\ op \in {"EQ", "LE", "LT"}

LEMMA FoundIs ==
  ASSUME NEW op, NEW v, NEW S, S = ChainFrom(StartLeaf(op, v))
  PROVE  Found(op, v) = {RecAt(S, p) : p \in {q \in Places(S) :
           /\ Hit(S, q, op, v)
           /\ \A e \in Places(S) : Earlier(e, q) => ~ Stops(S, e, op, v)}}
BY DEF Found, Places, RecAt, Earlier, Hit, Stops

\* A search that never gives up before a hit finds all of them.
LEMMA FoundAll ==
  ASSUME NEW op, NEW v, NEW S, S = ChainFrom(StartLeaf(op, v)), NEW W,
         \A p \in Places(S) : Hit(S, p, op, v) => RecAt(S, p) \in W,
         \A r \in W : \E p \in Places(S) : RecAt(S, p) = r /\ Hit(S, p, op, v),
         \A p, q \in Places(S) : Earlier(p, q) /\ Hit(S, q, op, v) => ~ Stops(S, p, op, v)
  PROVE  Found(op, v) = W
<1>1. PICK Q : Q = {q \in Places(S) : /\ Hit(S, q, op, v)
                                      /\ \A e \in Places(S) : Earlier(e, q) => ~ Stops(S, e, op, v)}
  OBVIOUS
<1>2. Found(op, v) = {RecAt(S, p) : p \in Q}
  BY <1>1, FoundIs
<1>3. \A p : p \in Q <=> p \in Places(S) /\ Hit(S, p, op, v)
  BY <1>1
<1>4. \A p \in Q : RecAt(S, p) \in W
  BY <1>3
<1>5. \A r \in W : \E p \in Q : RecAt(S, p) = r
  BY <1>3
<1> QED BY <1>2, <1>4, <1>5

\* a search has S to go through: the leaves from the k-th on
Through(S, L, k) ==
  /\ Linked(L) /\ k \in 1 .. Len(L) /\ S = SubSeq(L, k, Len(L))

\* What is known of a place.
LEMMA PlaceOf ==
  ASSUME NEW range, NEW level, Settled(range, level), NEW S, NEW L, NEW k, Through(S, L, k)
  PROVE  /\ \A p \in Places(S) :
              /\ p[1] \in 1 .. Len(S) /\ p[1] \in Nat /\ p[2] \in 1 .. Len(blk[S[p[1]]].recs) /\ p[2] \in Nat
              /\ S[p[1]] \in Leaf /\ Len(blk[S[p[1]]].recs) \in Nat
              /\ RecAt(S, p) \in Recs /\ RecAt(S, p) \in ToSet(blk[S[p[1]]].recs)
              /\ ValOf[RecAt(S, p)] \in Vals /\ ValOf[RecAt(S, p)] \in Nat
              /\ k + p[1] - 1 \in k .. Len(L) /\ S[p[1]] = L[k + p[1] - 1]
         /\ \A i \in k .. Len(L) : \A r \in ToSet(blk[L[i]].recs) :
              \E p \in Places(S) : RecAt(S, p) = r /\ p[1] = i - k + 1
         /\ \A p, q \in Places(S) : Earlier(p, q) => ValOf[RecAt(S, p)] < ValOf[RecAt(S, q)]
<1>1. L \in Seq(Block) /\ Len(L) \in Nat /\ ToSet(L) = Leaf /\ k \in 1 .. Len(L)
  BY LenProperties DEF Through, Linked
<1>2. /\ S \in Seq(Block) /\ Len(S) = Len(L) - k + 1
      /\ \A a \in 1 .. Len(L) - k + 1 : S[a] = L[k + a - 1]
  <2>1. S = SubSeq(L, k, Len(L)) /\ k \in Nat \ {0} /\ Len(L) \in 0 .. Len(L) /\ k <= Len(L) + 1
    BY <1>1 DEF Through
  <2> QED BY <1>1, <2>1, SubSeqIs
<1>3. \A a \in 1 .. Len(S) : /\ a \in Nat /\ k + a - 1 \in k .. Len(L) /\ k + a - 1 \in 1 .. Len(L)
                             /\ S[a] = L[k + a - 1]
  BY <1>1, <1>2
<1>4. \A i \in 1 .. Len(L) : L[i] \in Leaf
  BY <1>1, ToSetIs
<1>5. ASSUME NEW b \in Leaf
      PROVE  /\ blk[b].recs \in Seq(Recs) /\ Len(blk[b].recs) \in Nat /\ Rising(blk[b].recs)
             /\ Len(blk[b].recs) <= MAX_KEYS_LEAF
             /\ \A j \in 1 .. Len(blk[b].recs) : blk[b].recs[j] \in ToSet(blk[b].recs)
             /\ \A r \in ToSet(blk[b].recs) : /\ r \in Recs /\ ValOf[r] \in Vals /\ ValOf[r] \in Nat
                                              /\ \E j \in 1 .. Len(blk[b].recs) : blk[b].recs[j] = r
  <2>1. blk[b].recs \in Seq(Recs) /\ Rising(blk[b].recs) /\ b \in Block
    BY LeafIs
  <2>2. Len(blk[b].recs) <= MAX_KEYS_LEAF
    BY <2>1 DEF Settled, TypeInv, Fits
  <2>3. /\ ToSet(blk[b].recs) \subseteq Recs
        /\ \A x : x \in ToSet(blk[b].recs) <=> \E j \in 1 .. Len(blk[b].recs) : blk[b].recs[j] = x
    BY <2>1, ToSetIs
  <2> QED BY <2>1, <2>2, <2>3, LenProperties, Values
<1>6. ASSUME NEW p \in Places(S)
      PROVE  /\ p[1] \in 1 .. Len(S) /\ p[1] \in Nat /\ p[2] \in 1 .. Len(blk[S[p[1]]].recs) /\ p[2] \in Nat
             /\ S[p[1]] \in Leaf /\ Len(blk[S[p[1]]].recs) \in Nat
             /\ RecAt(S, p) \in Recs /\ RecAt(S, p) \in ToSet(blk[S[p[1]]].recs)
             /\ ValOf[RecAt(S, p)] \in Vals /\ ValOf[RecAt(S, p)] \in Nat
             /\ k + p[1] - 1 \in k .. Len(L) /\ S[p[1]] = L[k + p[1] - 1]
  <2>1. PICK a, j : a = p[1] /\ j = p[2]
    OBVIOUS
  <2>2. a \in 1 .. Len(S) /\ j \in 1 .. MAX_KEYS_LEAF /\ j <= Len(blk[S[a]].recs)
    BY <2>1 DEF Places
  <2>3. S[a] \in Leaf /\ a \in Nat /\ k + a - 1 \in k .. Len(L) /\ S[a] = L[k + a - 1]
    BY <1>3, <1>4, <2>2
  <2>4. j \in 1 .. Len(blk[S[a]].recs) /\ j \in Nat /\ Len(blk[S[a]].recs) \in Nat
    BY <1>5, <2>2, <2>3
  <2>5. blk[S[a]].recs[j] \in ToSet(blk[S[a]].recs)
    BY <1>5, <2>3, <2>4
  <2>6. RecAt(S, p) = blk[S[a]].recs[j]
    BY <2>1 DEF RecAt
  <2> QED BY <1>5, <2>1, <2>2, <2>3, <2>4, <2>5, <2>6
<1>7. ASSUME NEW i \in k .. Len(L), NEW r \in ToSet(blk[L[i]].recs)
      PROVE  \E p \in Places(S) : RecAt(S, p) = r /\ p[1] = i - k + 1
  <2>1. L[i] \in Leaf
    BY <1>1, <1>4, <1>7
  <2>2. PICK j \in 1 .. Len(blk[L[i]].recs) : blk[L[i]].recs[j] = r
    BY <1>5, <1>7, <2>1
  <2>3. i - k + 1 \in 1 .. Len(S) /\ S[i - k + 1] = L[i]
    <3>1. i - k + 1 \in 1 .. Len(S) /\ k + (i - k + 1) - 1 = i
      BY <1>1, <1>2, <1>7
    <3> QED BY <1>3, <3>1
  <2>4. j \in 1 .. MAX_KEYS_LEAF /\ j <= Len(blk[L[i]].recs)
    <3>1. Len(blk[L[i]].recs) \in Nat /\ Len(blk[L[i]].recs) <= MAX_KEYS_LEAF /\ MAX_KEYS_LEAF \in Nat
      BY <1>5, <2>1, TreeAssumption
    <3> QED BY <2>2, <3>1
  <2>5. PICK p : p = <<i - k + 1, j>>
    OBVIOUS
  <2>6. p[1] = i - k + 1 /\ p[2] = j /\ p \in (1 .. Len(S)) \X (1 .. MAX_KEYS_LEAF)
    BY <2>3, <2>4, <2>5
  <2>7. p \in Places(S)
    BY <2>3, <2>4, <2>6 DEF Places
  <2> QED BY <2>2, <2>3, <2>6, <2>7 DEF RecAt
<1>8. ASSUME NEW p \in Places(S), NEW q \in Places(S), Earlier(p, q)
      PROVE  ValOf[RecAt(S, p)] < ValOf[RecAt(S, q)]
  <2>1. CASE p[1] < q[1]
    <3>1. /\ k + p[1] - 1 \in 1 .. Len(L) /\ k + q[1] - 1 \in 1 .. Len(L)
          /\ k + p[1] - 1 < k + q[1] - 1
      BY <1>1, <1>6, <2>1
    <3>2. Below(L[k + p[1] - 1], L[k + q[1] - 1])
      BY <3>1 DEF Through, Linked
    <3> QED BY <1>6, <3>2 DEF Below
  <2>2. CASE p[1] = q[1] /\ p[2] < q[2]
    <3>1. Rising(blk[S[p[1]]].recs)
      BY <1>5, <1>6
    <3> QED BY <1>6, <2>2, <3>1 DEF Rising, RecAt
  <2> QED BY <1>8, <2>1, <2>2 DEF Earlier
<1> QED BY <1>6, <1>7, <1>8

\* The leaf in which a search for larger values starts, and its neighbours.
LEMMA StartLarger ==
  ASSUME NEW range, NEW level, Settled(range, level), KeysFound, NEW L, Linked(L),
         NEW op, NEW v, NEW w, Aims(op, v, w)
  PROVE  \E k \in 1 .. Len(L) :
           /\ StartLeaf(op, v) = L[k]
           /\ \A i \in 1 .. Len(L) : \A r \in ToSet(blk[L[i]].recs) :
                (i < k => ValOf[r] < w) /\ (i > k => ValOf[r] > w)
           /\ k = Len(L) \/ \E r \in ToSet(blk[L[k]].recs) : ValOf[r] >= w
<1>1. L \in Seq(Block) /\ OnceOnly(L) /\ ToSet(L) = Leaf /\ Len(L) \in Nat
  BY LenProperties DEF Linked
<1>2. \A i \in 1 .. Len(L) : L[i] \in Leaf
  BY <1>1, ToSetIs
<1>3. PICK k \in 1 .. Len(L) : StartLeaf(op, v) = L[k] /\ w \in range[L[k]]
  <2>1. StartLeaf(op, v) \in Leaf /\ w \in range[StartLeaf(op, v)]
    BY StartAims
  <2>2. PICK k \in 1 .. Len(L) : L[k] = StartLeaf(op, v)
    BY <1>1, <2>1, ToSetIs
  <2> QED BY <2>1, <2>2
<1>4. PICK b \in Leaf : b = L[k]
  BY <1>2
<1>5. b \in Index /\ range[b] \in SUBSET Vals /\ w \in range[b] /\ w \in Nat /\ w \in Vals /\ level[b] = 0
  <2>1. b \in Index /\ range[b] \in SUBSET Vals /\ level[b] = 0
    BY LeafIs
  <2> QED BY <1>3, <1>4, <2>1, Values
<1>6. ASSUME NEW i \in 1 .. Len(L), i # k, NEW r \in ToSet(blk[L[i]].recs)
      PROVE  /\ ValOf[r] \in Vals /\ ValOf[r] \in Nat /\ ValOf[r] \notin range[b]
             /\ \A t \in ToSet(blk[b].recs) : /\ ValOf[t] \in range[b] /\ ValOf[t] \in Nat
                                              /\ i < k => ValOf[r] < ValOf[t]
                                              /\ i > k => ValOf[t] < ValOf[r]
             /\ \E t \in ToSet(blk[b].recs) : TRUE
             /\ i < k => ValOf[r] < w
             /\ i > k => ValOf[r] > w
  <2>1. L[i] \in Leaf /\ L[i] # b
    BY <1>1, <1>2, <1>4, <1>6 DEF OnceOnly
  <2>2. /\ ValOf[r] \in range[L[i]] /\ ValOf[r] \in Nat /\ L[i] \in Index /\ level[L[i]] = 0
        /\ range[L[i]] \in SUBSET Vals
    BY <1>6, <2>1, LeafIs
  <2>3. ValOf[r] \in Vals /\ ValOf[r] \notin range[b]
    <3>1. range[L[i]] \cap range[b] = {}
      BY <1>5, <2>1, <2>2, RangesApart
    <3> QED BY <2>2, <3>1
  <2>4. ASSUME NEW t \in ToSet(blk[b].recs)
        PROVE  /\ ValOf[t] \in range[b] /\ ValOf[t] \in Nat
               /\ i < k => ValOf[r] < ValOf[t]
               /\ i > k => ValOf[t] < ValOf[r]
    <3>1. ValOf[t] \in range[b] /\ ValOf[t] \in Nat
      BY LeafIs
    <3>2. (i < k => Below(L[i], L[k])) /\ (i > k => Below(L[k], L[i]))
      BY <1>6 DEF Linked
    <3> QED BY <1>4, <1>6, <3>1, <3>2 DEF Below
  <2>5. \E t \in ToSet(blk[b].recs) : TRUE
    <3>1. blk[b].recs # <<>> /\ blk[b].recs \in Seq(Recs)
      <4>1. Len(L) > 1
        BY <1>1, <1>6
      <4> QED BY <1>4, <4>1, LeafIs DEF Linked
    <3>2. Len(blk[b].recs) \in Nat \ {0}
      BY <3>1, EmptySeq
    <3>3. 1 \in 1 .. Len(blk[b].recs)
      BY <3>2
    <3>4. blk[b].recs[1] \in ToSet(blk[b].recs)
      BY <3>1, <3>3, ToSetIs
    <3> QED BY <3>4
  <2>6. PICK t \in ToSet(blk[b].recs) : TRUE
    BY <2>5
  <2>7. \A x, y \in range[b] : ~ (x < ValOf[r] /\ ValOf[r] < y)
    BY <1>5, <2>3, NoGap
  <2>8. ValOf[r] # w
    BY <1>5, <2>3
  <2>9. i < k => ValOf[r] < w
    BY <1>5, <2>2, <2>4, <2>6, <2>7, <2>8
  <2>10. i > k => ValOf[r] > w
    BY <1>5, <2>2, <2>4, <2>6, <2>7, <2>8
  <2> QED BY <2>2, <2>3, <2>4, <2>5, <2>9, <2>10
<1>7. k = Len(L) \/ \E r \in ToSet(blk[L[k]].recs) : ValOf[r] >= w
  <2>1. Ended(b, range)
    BY <1>5, EndedAll
  <2>2. CASE \E x \in range[b] : HasValue(x) /\ \A u \in range[b] : u <= x
    <3>1. PICK x \in range[b] : HasValue(x) /\ \A u \in range[b] : u <= x
      BY <2>2
    <3>2. PICK r \in Recs : InLeaf(r) /\ ValOf[r] = x
      BY <3>1 DEF HasValue
    <3>3. PICK c \in Leaf : r \in ToSet(blk[c].recs)
      BY <3>2 DEF InLeaf
    <3>4. x \in range[c] /\ c \in Index /\ level[c] = 0
      BY <3>2, <3>3, LeafIs
    <3>5. c = b
      BY <1>5, <3>1, <3>4, RangesApart
    <3>6. x \in Nat /\ w <= x
      BY <1>5, <3>1, Values
    <3> QED BY <1>4, <1>5, <3>2, <3>3, <3>5, <3>6
  <2>3. CASE \A x \in range[b], u \in Vals : u > x => u \in range[b]
    <3> SUFFICES ASSUME k # Len(L) PROVE FALSE
      OBVIOUS
    <3>1. PICK i \in 1 .. Len(L) : i > k
      BY <1>1
    <3>2. \E r \in ToSet(blk[L[i]].recs) : TRUE
      <4>1. blk[L[i]].recs # <<>> /\ blk[L[i]].recs \in Seq(Recs)
        <5>1. Len(L) > 1 /\ L[i] \in Leaf
          BY <1>1, <1>2, <3>1
        <5> QED BY <5>1, LeafIs DEF Linked
      <4>2. Len(blk[L[i]].recs) \in Nat \ {0}
        BY <4>1, EmptySeq
      <4>3. 1 \in 1 .. Len(blk[L[i]].recs)
        BY <4>2
      <4>4. blk[L[i]].recs[1] \in ToSet(blk[L[i]].recs)
        BY <4>1, <4>3, ToSetIs
      <4> QED BY <4>4
    <3>3. PICK r \in ToSet(blk[L[i]].recs) : TRUE
      BY <3>2
    <3>4. i # k
      BY <3>1
    <3>5. ValOf[r] \in Vals /\ ValOf[r] \notin range[b] /\ ValOf[r] > w
      BY <1>6, <3>1, <3>3, <3>4
    <3> QED BY <1>5, <2>3, <3>5
  <2> QED BY <2>1, <2>2, <2>3 DEF Ended
<1>8. \A i \in 1 .. Len(L) : \A r \in ToSet(blk[L[i]].recs) :
        (i < k => ValOf[r] < w) /\ (i > k => ValOf[r] > w)
  <2> TAKE i \in 1 .. Len(L)
  <2> TAKE r \in ToSet(blk[L[i]].recs)
  <2>1. CASE i = k
    BY <2>1
  <2>2. CASE i # k
    BY <1>6, <2>2
  <2> QED BY <2>1, <2>2
<1> QED BY <1>3, <1>7, <1>8

\* The other searches start in the first leaf of the chain.
LEMMA StartSmallest ==
  ASSUME NEW range, NEW level, Settled(range, level), NEW L, Linked(L),
         NEW op \in {"NE", "LT", "LE"}, NEW v
  PROVE  1 \in 1 .. Len(L) /\ StartLeaf(op, v) = L[1]
<1>1. L \in Seq(Block) /\ OnceOnly(L) /\ ToSet(L) = Leaf /\ Len(L) \in Nat
  BY LenProperties DEF Linked
<1>2. \A i \in 1 .. Len(L) : L[i] \in Leaf
  BY <1>1, ToSetIs
<1>3. PICK b \in Leaf : b = StartLeaf(op, v) /\ \A w \in range[b], u \in Vals : u < w => u \in range[b]
  BY StartFirst
<1>4. PICK k \in 1 .. Len(L) : L[k] = b
  BY <1>1, ToSetIs
<1>5. k = 1
  <2> SUFFICES ASSUME k # 1 PROVE FALSE
    OBVIOUS
  <2>1. 1 \in 1 .. Len(L) /\ 1 < k /\ Len(L) > 1
    BY <1>1
  <2>2. \A i \in 1 .. Len(L) : \E r \in ToSet(blk[L[i]].recs) : TRUE
    <3> TAKE i \in 1 .. Len(L)
    <3>1. blk[L[i]].recs # <<>> /\ blk[L[i]].recs \in Seq(Recs)
      BY <1>2, <2>1, LeafIs DEF Linked
    <3>2. Len(blk[L[i]].recs) \in Nat \ {0}
      BY <3>1, EmptySeq
    <3>3. 1 \in 1 .. Len(blk[L[i]].recs)
      BY <3>2
    <3>4. blk[L[i]].recs[1] \in ToSet(blk[L[i]].recs)
      BY <3>1, <3>3, ToSetIs
    <3> QED BY <3>4
  <2>3. PICK r \in ToSet(blk[L[1]].recs) : TRUE
    BY <2>1, <2>2
  <2>4. PICK t \in ToSet(blk[b].recs) : TRUE
    BY <1>4, <2>2
  <2>5. ValOf[r] < ValOf[t]
    <3>1. Below(L[1], L[k])
      BY <2>1 DEF Linked
    <3> QED BY <1>4, <2>3, <2>4, <3>1 DEF Below
  <2>6. L[1] \in Leaf /\ L[1] # b
    BY <1>1, <1>2, <1>4, <2>1 DEF OnceOnly
  <2>7. /\ ValOf[r] \in range[L[1]] /\ L[1] \in Index /\ level[L[1]] = 0 /\ range[L[1]] \in SUBSET Vals
        /\ ValOf[t] \in range[b] /\ b \in Index /\ level[b] = 0
    BY <2>3, <2>4, <2>6, LeafIs
  <2>8. ValOf[r] \in range[b]
    BY <1>3, <2>5, <2>7
  <2> QED BY <2>6, <2>7, <2>8, RangesApart
<1> QED BY <1>1, <1>3, <1>4, <1>5

-----------------------------------------------------------------------------
(* What a search finds.                                                    *)

\* W is what a search should find
Wanted(W, op, v) == \A r : r \in W <=> InLeaf(r) /\ Satisfies(ValOf[r], op, v)

\* When no insertion is under way, the leaves hold the records of the relation.
LEMMA AllIn ==
  ASSUME IInv, JInv, Indexed
  PROVE  \A r : r \in ToSet(rows) <=> InLeaf(r)
<1>1. Waiting = {} /\ root # -1
  <2>1. todo = <<>> /\ pc # "find"
    BY DEF Indexed, JInv
  <2>2. ToSet(todo) = {}
    BY <2>1 DEF ToSet
  <2> QED BY <2>1, <2>2 DEF Waiting, Indexed
<1>2. ASSUME NEW r \in ToSet(rows)
      PROVE  InLeaf(r)
  BY <1>1, <1>2 DEF JInv, RecordsIn
<1>3. ASSUME NEW r, InLeaf(r)
      PROVE  r \in ToSet(rows)
  BY <1>3 DEF InLeaf, Leaf, IInv, RecordsOnce
<1> QED BY <1>2, <1>3

\* A record in a leaf is in one of the leaves of the list.
LEMMA InList ==
  ASSUME NEW L, Linked(L)
  PROVE  /\ Len(L) \in Nat /\ \A i \in 1 .. Len(L) : L[i] \in Leaf
         /\ \A b \in Leaf : \E i \in 1 .. Len(L) : L[i] = b
         /\ \A r : InLeaf(r) <=> \E i \in 1 .. Len(L) : r \in ToSet(blk[L[i]].recs)
<1>1. L \in Seq(Block) /\ ToSet(L) = Leaf /\ Len(L) \in Nat
  BY LenProperties DEF Linked
<1>2. \A b : b \in Leaf <=> \E i \in 1 .. Len(L) : L[i] = b
  BY <1>1, ToSetIs
<1> QED BY <1>1, <1>2 DEF InLeaf

\* What is hit is wanted.
LEMMA HitsWanted ==
  ASSUME NEW range, NEW level, Settled(range, level), NEW S, NEW L, NEW k, Through(S, L, k),
         NEW op, NEW v, NEW W, Wanted(W, op, v)
  PROVE  \A p \in Places(S) : Hit(S, p, op, v) => RecAt(S, p) \in W
<1> SUFFICES ASSUME NEW p \in Places(S), Hit(S, p, op, v)
             PROVE  RecAt(S, p) \in W
  OBVIOUS
<1>1. S[p[1]] \in Leaf /\ RecAt(S, p) \in ToSet(blk[S[p[1]]].recs)
  BY PlaceOf
<1>2. InLeaf(RecAt(S, p))
  BY <1>1 DEF InLeaf
<1> QED BY <1>2 DEF Wanted, Hit

\* A record of one of the leaves has a place.
LEMMA PlaceIn ==
  ASSUME NEW range, NEW level, Settled(range, level), NEW S, NEW L, NEW k, Through(S, L, k),
         NEW i \in k .. Len(L), NEW r \in ToSet(blk[L[i]].recs)
  PROVE  \E p \in Places(S) : RecAt(S, p) = r /\ (i = k => p[1] = 1)
<1>1. PICK p \in Places(S) : RecAt(S, p) = r /\ p[1] = i - k + 1
  BY PlaceOf
<1>2. k \in Nat /\ i \in Nat
  <2>1. Len(L) \in Nat /\ k \in 1 .. Len(L)
    BY InList DEF Through
  <2> QED BY <2>1
<1>3. i = k => p[1] = 1
  BY <1>1, <1>2
<1> QED BY <1>1, <1>3

\* A search from the first leaf on finds what it should.
LEMMA FoundSmaller ==
  ASSUME NEW range, NEW level, Settled(range, level), NEW L, Linked(L),
         NEW op \in {"NE", "LT", "LE"}, NEW v \in Vals, NEW W, Wanted(W, op, v)
  PROVE  Found(op, v) = W
<1>1. 1 \in 1 .. Len(L) /\ StartLeaf(op, v) = L[1]
  BY StartSmallest
<1>2. PICK S : S = SubSeq(L, 1, Len(L))
  OBVIOUS
<1>3. S = ChainFrom(StartLeaf(op, v))
  BY <1>1, <1>2, ChainIs
<1>4. Through(S, L, 1)
  BY <1>1, <1>2 DEF Through
<1>5. \A p \in Places(S) : Hit(S, p, op, v) => RecAt(S, p) \in W
  BY <1>4, HitsWanted
<1>6. /\ \A p \in Places(S) : ValOf[RecAt(S, p)] \in Nat
      /\ \A i \in 1 .. Len(L) : \A r \in ToSet(blk[L[i]].recs) :
           \E p \in Places(S) : RecAt(S, p) = r
      /\ \A p, q \in Places(S) : Earlier(p, q) => ValOf[RecAt(S, p)] < ValOf[RecAt(S, q)]
  <2>1. \A p \in Places(S) : ValOf[RecAt(S, p)] \in Nat
    BY <1>4, PlaceOf
  <2>2. \A i \in 1 .. Len(L) : \A r \in ToSet(blk[L[i]].recs) :
          \E p \in Places(S) : RecAt(S, p) = r
    <3> SUFFICES ASSUME NEW i \in 1 .. Len(L), NEW r \in ToSet(blk[L[i]].recs)
                 PROVE  \E p \in Places(S) : RecAt(S, p) = r
      OBVIOUS
    <3>1. PICK k \in Nat : k = 1
      OBVIOUS
    <3>2. i \in k .. Len(L) /\ Through(S, L, k)
      BY <1>4, <3>1
    <3> QED BY <3>2, PlaceIn
  <2>3. \A p, q \in Places(S) : Earlier(p, q) => ValOf[RecAt(S, p)] < ValOf[RecAt(S, q)]
    BY <1>4, PlaceOf
  <2> QED BY <2>1, <2>2, <2>3
<1>7. ASSUME NEW r \in W
      PROVE  \E p \in Places(S) : RecAt(S, p) = r /\ Hit(S, p, op, v)
  <2>1. InLeaf(r) /\ Satisfies(ValOf[r], op, v)
    BY DEF Wanted
  <2>2. PICK i \in 1 .. Len(L) : r \in ToSet(blk[L[i]].recs)
    BY <2>1, InList
  <2>3. PICK p \in Places(S) : RecAt(S, p) = r
    BY <1>6, <2>2
  <2> QED BY <2>1, <2>3 DEF Hit
<1>8. ASSUME NEW p \in Places(S), NEW q \in Places(S), Earlier(p, q), Hit(S, q, op, v)
      PROVE  ~ Stops(S, p, op, v)
  <2>1. PICK x \in Nat, y \in Nat : x = ValOf[RecAt(S, p)] /\ y = ValOf[RecAt(S, q)] /\ x < y
    BY <1>6, <1>8
  <2>2. Satisfies(y, op, v) /\ v \in Nat
    BY <1>8, <2>1, Values DEF Hit
  <2>3. CASE op = "NE"
    BY <2>3 DEF Stops
  <2>4. CASE op = "LT"
    <3>1. y < v
      BY <2>2, <2>4 DEF Satisfies
    <3>2. Satisfies(x, op, v)
      BY <2>1, <2>2, <2>4, <3>1 DEF Satisfies
    <3> QED BY <2>1, <3>2 DEF Stops, Hit
  <2>5. CASE op = "LE"
    <3>1. y <= v
      BY <2>2, <2>5 DEF Satisfies
    <3>2. Satisfies(x, op, v)
      BY <2>1, <2>2, <2>5, <3>1 DEF Satisfies
    <3> QED BY <2>1, <3>2 DEF Stops, Hit
  <2> QED BY <2>3, <2>4, <2>5
<1> QED BY <1>3, <1>5, <1>7, <1>8, FoundAll

\* A search for larger values finds what it should.
LEMMA FoundLarger ==
  ASSUME NEW range, NEW level, Settled(range, level), KeysFound, NEW L, Linked(L),
         NEW op, NEW v, NEW w, Aims(op, v, w), NEW W, Wanted(W, op, v)
  PROVE  Found(op, v) = W
<1>1. PICK k \in 1 .. Len(L) :
        /\ StartLeaf(op, v) = L[k]
        /\ \A i \in 1 .. Len(L) : \A r \in ToSet(blk[L[i]].recs) :
             (i < k => ValOf[r] < w) /\ (i > k => ValOf[r] > w)
        /\ k = Len(L) \/ \E r \in ToSet(blk[L[k]].recs) : ValOf[r] >= w
  BY StartLarger
<1>2. PICK S : S = SubSeq(L, k, Len(L))
  OBVIOUS
<1>3. S = ChainFrom(StartLeaf(op, v))
  BY <1>1, <1>2, ChainIs
<1>4. Through(S, L, k)
  BY <1>2 DEF Through
<1>5. \A p \in Places(S) : Hit(S, p, op, v) => RecAt(S, p) \in W
  BY <1>4, HitsWanted
<1>6. /\ v \in Nat /\ w \in Nat /\ op \in {"EQ", "GE", "GT"} /\ v \in Vals /\ w \in Vals
      /\ \A u \in Vals : Satisfies(u, op, v) => u >= w
      /\ op # "EQ" => \A u \in Vals : u >= w => Satisfies(u, op, v)
      /\ op = "EQ" => w = v
  <2>1. v \in Vals /\ w \in Vals /\ v \in Nat /\ w \in Nat /\ op \in {"EQ", "GE", "GT"}
    BY Values DEF Aims
  <2>2. \A u \in Vals : u \in Nat /\ (u >= w <=> IF op = "GT" THEN u > v ELSE u >= v)
    BY Values DEF Aims
  <2>3. op = "EQ" => w = v
    <3> SUFFICES ASSUME op = "EQ" PROVE w = v
      OBVIOUS
    <3>1. (w >= w <=> w >= v) /\ (v >= w <=> v >= v)
      BY <2>1, <2>2
    <3> QED BY <2>1, <3>1
  <2>4. CASE op = "EQ"
    BY <2>1, <2>2, <2>3, <2>4 DEF Satisfies
  <2>5. CASE op = "GE"
    BY <2>1, <2>2, <2>5 DEF Satisfies
  <2>6. CASE op = "GT"
    BY <2>1, <2>2, <2>6 DEF Satisfies
  <2> QED BY <2>1, <2>3, <2>4, <2>5, <2>6
<1>7. /\ \A p \in Places(S) :
           /\ p[1] \in Nat /\ p[1] >= 1 /\ p[2] \in 1 .. Len(blk[S[p[1]]].recs) /\ p[2] \in Nat
           /\ Len(blk[S[p[1]]].recs) \in Nat
           /\ ValOf[RecAt(S, p)] \in Vals /\ ValOf[RecAt(S, p)] \in Nat
      /\ \A i \in k .. Len(L) : \A r \in ToSet(blk[L[i]].recs) :
           \E p \in Places(S) : RecAt(S, p) = r /\ (i = k => p[1] = 1)
      /\ \A p, q \in Places(S) : Earlier(p, q) => ValOf[RecAt(S, p)] < ValOf[RecAt(S, q)]
  <2>1. \A p \in Places(S) :
           /\ p[1] \in Nat /\ p[1] >= 1 /\ p[2] \in 1 .. Len(blk[S[p[1]]].recs) /\ p[2] \in Nat
           /\ Len(blk[S[p[1]]].recs) \in Nat
           /\ ValOf[RecAt(S, p)] \in Vals /\ ValOf[RecAt(S, p)] \in Nat
    BY <1>4, PlaceOf
  <2>2. \A i \in k .. Len(L) : \A r \in ToSet(blk[L[i]].recs) :
          \E p \in Places(S) : RecAt(S, p) = r /\ (i = k => p[1] = 1)
    <3> SUFFICES ASSUME NEW i \in k .. Len(L), NEW r \in ToSet(blk[L[i]].recs)
                 PROVE  \E p \in Places(S) : RecAt(S, p) = r /\ (i = k => p[1] = 1)
      OBVIOUS
    <3> QED BY <1>4, PlaceIn
  <2>3. \A p, q \in Places(S) : Earlier(p, q) => ValOf[RecAt(S, p)] < ValOf[RecAt(S, q)]
    BY <1>4, PlaceOf
  <2> QED BY <2>1, <2>2, <2>3
<1>8. ASSUME NEW p \in Places(S), p[1] > 1
      PROVE  ValOf[RecAt(S, p)] > w /\ k # Len(L)
  <2>1. /\ p[1] \in Nat /\ k + p[1] - 1 \in k .. Len(L) /\ S[p[1]] = L[k + p[1] - 1]
        /\ RecAt(S, p) \in ToSet(blk[S[p[1]]].recs)
    BY <1>4, PlaceOf
  <2>2. k + p[1] - 1 \in 1 .. Len(L) /\ k + p[1] - 1 > k /\ k # Len(L)
    <3>1. Len(L) \in Nat
      BY InList
    <3> QED BY <1>8, <2>1, <3>1
  <2>3. RecAt(S, p) \in ToSet(blk[L[k + p[1] - 1]].recs)
    BY <2>1
  <2> QED BY <1>1, <2>2, <2>3
<1>9. ASSUME NEW r \in W
      PROVE  \E p \in Places(S) : RecAt(S, p) = r /\ Hit(S, p, op, v)
  <2>1. InLeaf(r) /\ Satisfies(ValOf[r], op, v)
    BY DEF Wanted
  <2>2. PICK i \in 1 .. Len(L) : r \in ToSet(blk[L[i]].recs)
    BY <2>1, InList
  <2>3. ValOf[r] \in Vals /\ ValOf[r] \in Nat
    <3>1. L[i] \in Leaf
      BY InList
    <3>2. r \in Recs
      BY <2>2, <3>1, LeafIs
    <3> QED BY <3>2, Values
  <2>4. ~ (i < k)
    <3>1. ValOf[r] >= w
      BY <1>6, <2>1, <2>3
    <3>2. ~ (ValOf[r] < w)
      BY <1>6, <2>3, <3>1
    <3> QED BY <1>1, <2>2, <3>2
  <2>5. i \in k .. Len(L)
    <3>1. Len(L) \in Nat
      BY InList
    <3> QED BY <2>4, <3>1
  <2>6. PICK p \in Places(S) : RecAt(S, p) = r
    BY <1>7, <2>2, <2>5
  <2> QED BY <2>1, <2>6 DEF Hit
<1>10. ASSUME NEW p \in Places(S), NEW q \in Places(S), Earlier(p, q), Hit(S, q, op, v),
              Stops(S, p, op, v)
       PROVE  FALSE
  <2>1. PICK x \in Vals, y \in Vals : /\ x = ValOf[RecAt(S, p)] /\ y = ValOf[RecAt(S, q)]
                                      /\ x \in Nat /\ y \in Nat /\ x < y
    BY <1>7, <1>10
  <2>2. Satisfies(y, op, v) /\ ~ Satisfies(x, op, v)
    BY <1>10, <2>1 DEF Hit, Stops
  <2>3. /\ p[1] \in Nat /\ p[2] \in Nat /\ p[1] >= 1 /\ q[1] \in Nat /\ q[2] \in Nat /\ q[1] >= 1
        /\ p[2] <= Len(blk[S[p[1]]].recs) /\ q[2] <= Len(blk[S[q[1]]].recs)
        /\ Len(blk[S[p[1]]].recs) \in Nat
    BY <1>7
  <2>4. q[1] = 1 => p[1] = 1 /\ p[2] # Len(blk[S[p[1]]].recs)
    BY <1>10, <2>3 DEF Earlier
  <2>5. CASE op = "EQ"
    <3>1. y = v /\ w = v
      BY <1>6, <2>2, <2>5 DEF Satisfies
    <3>2. q[1] = 1
      <4>1. q[1] > 1 => y > w
        BY <1>8, <2>1
      <4> QED BY <1>6, <2>1, <2>3, <3>1, <4>1
    <3>3. ~ (x > v)
      BY <1>6, <2>1, <3>1
    <3> QED BY <1>10, <2>1, <2>4, <3>2, <3>3 DEF Stops
  <2>6. CASE op # "EQ"
    <3>1. x < w
      <4>1. ~ (x >= w)
        BY <1>6, <2>2, <2>6
      <4> QED BY <1>6, <2>1, <4>1
    <3>2. p[1] = 1
      BY <1>6, <1>8, <2>1, <2>3, <3>1
    <3>3. p[2] = Len(blk[S[p[1]]].recs)
      BY <1>6, <1>10, <2>6 DEF Stops
    <3>4. q[1] > 1
      BY <2>3, <2>4, <3>3
    <3>5. PICK r \in ToSet(blk[L[k]].recs) : ValOf[r] >= w
      BY <1>1, <1>8, <3>4
    <3>6. PICK t \in Places(S) : RecAt(S, t) = r /\ t[1] = 1
      <4>1. k \in k .. Len(L)
        BY InList
      <4> QED BY <1>7, <3>5, <4>1
    <3>7. PICK z \in Nat : z = ValOf[RecAt(S, t)] /\ z >= w
      BY <1>7, <3>5, <3>6
    <3>8. t[2] \in Nat /\ t[2] <= p[2]
      BY <1>7, <3>2, <3>3, <3>6
    <3>9. CASE t[2] = p[2]
      <4>1. RecAt(S, t) = RecAt(S, p)
        BY <3>2, <3>6, <3>9 DEF RecAt
      <4> QED BY <1>6, <2>1, <3>1, <3>7, <4>1
    <3>10. CASE t[2] < p[2]
      <4>1. Earlier(t, p)
        BY <3>2, <3>6, <3>10 DEF Earlier
      <4>2. z < x
        BY <1>7, <2>1, <3>7, <4>1
      <4> QED BY <1>6, <2>1, <3>1, <3>7, <4>2
    <3> QED BY <2>3, <3>8, <3>9, <3>10
  <2> QED BY <2>5, <2>6
<1>11. \A p, q \in Places(S) : Earlier(p, q) /\ Hit(S, q, op, v) => ~ Stops(S, p, op, v)
  BY <1>10
<1> QED BY <1>3, <1>5, <1>9, <1>11, FoundAll

\* A search for values above the largest finds nothing.
LEMMA FoundNone ==
  ASSUME NEW range, NEW level, Settled(range, level), NEW L, Linked(L),
         NEW v \in Vals, \A u \in Vals : ~ (u > v), NEW W, Wanted(W, "GT", v)
  PROVE  Found("GT", v) = W
<1>1. \A b \in Index : IsInternal(b) => ChildFor(b, "GT", v) \in Kids(b)
  <2> SUFFICES ASSUME NEW b \in Index, IsInternal(b) PROVE ChildFor(b, "GT", v) \in ToSet(blk[b].kids)
    BY DEF Kids
  <2>1. b \in Block
    BY DEF Index
  <2>2. PICK keys \in Seq(Vals) : keys = blk[b].keys
    BY <2>1, KeysAre
  <2>3. blk[b].kids \in Seq(Block) /\ Len(blk[b].kids) = Len(keys) + 1
    BY <2>1, <2>2, KeysAre
  <2>4. PICK i : i = FirstIndex(keys, LAMBDA k : k > v)
    OBVIOUS
  <2>5. i \in 1 .. Len(blk[b].kids)
    BY <2>3, <2>4, AboveIs
  <2>6. ChildFor(b, "GT", v) = blk[b].kids[i]
    BY <2>2, <2>4 DEF ChildFor
  <2> QED BY <2>3, <2>5, <2>6, ToSetIs
<1>2. StartLeaf("GT", v) \in Leaf
  <2>1. /\ Index \in SUBSET Index /\ root \in Index
        /\ \A b \in Index : IsInternal(b) => ChildFor(b, "GT", v) \in Index
    <3>1. root \in Index
      BY DEF Settled, Control
    <3>2. ASSUME NEW b \in Index, IsInternal(b) PROVE ChildFor(b, "GT", v) \in Index
      <4>1. ChildFor(b, "GT", v) \in Kids(b)
        BY <1>1, <3>2
      <4>2. b \in Block
        BY DEF Index
      <4> QED BY <3>2, <4>1, <4>2, KeysAre, ToSetIs DEF Kids
    <3> QED BY <3>1, <3>2
  <2> QED BY <1>1, <2>1, StartIn
<1>3. PICK k \in 1 .. Len(L) : L[k] = StartLeaf("GT", v)
  BY <1>2, InList
<1>4. PICK S : S = SubSeq(L, k, Len(L))
  OBVIOUS
<1>5. S = ChainFrom(StartLeaf("GT", v)) /\ Through(S, L, k)
  BY <1>3, <1>4, ChainIs DEF Through
<1>6. \A p \in Places(S) : ~ Hit(S, p, "GT", v)
  <2> SUFFICES ASSUME NEW p \in Places(S) PROVE ~ (ValOf[RecAt(S, p)] > v)
    BY DEF Hit, Satisfies
  <2>1. ValOf[RecAt(S, p)] \in Vals
    BY <1>5, PlaceOf
  <2> QED BY <2>1
<1>7. W = {}
  <2> SUFFICES ASSUME NEW r \in W PROVE FALSE
    OBVIOUS
  <2>1. InLeaf(r) /\ ValOf[r] > v
    BY DEF Wanted, Satisfies
  <2>2. PICK b \in Leaf : r \in ToSet(blk[b].recs)
    BY <2>1 DEF InLeaf
  <2>3. r \in Recs
    BY <2>2, LeafIs
  <2> QED BY <2>1, <2>3, Values
<1>8. /\ \A p \in Places(S) : Hit(S, p, "GT", v) => RecAt(S, p) \in W
      /\ \A r \in W : \E p \in Places(S) : RecAt(S, p) = r /\ Hit(S, p, "GT", v)
      /\ \A p, q \in Places(S) : Earlier(p, q) /\ Hit(S, q, "GT", v) => ~ Stops(S, p, "GT", v)
  BY <1>6, <1>7
<1> QED BY <1>5, <1>8, FoundAll

\* In a settled tree every search finds what it should.
LEMMA FoundWanted ==
  ASSUME NEW range, NEW level, Settled(range, level), KeysFound, NEW L, Linked(L),
         NEW op \in Op, NEW v \in Vals, NEW W, Wanted(W, op, v)
  PROVE  Found(op, v) = W
<1>1. CASE op \in {"NE", "LT", "LE"}
  BY <1>1, FoundSmaller
<1>2. CASE op \in {"EQ", "GE"}
  <2>1. Aims(op, v, v)
    BY <1>2 DEF Aims
  <2> QED BY <2>1, FoundLarger
<1>3. CASE op = "GT" /\ \A u \in Vals : ~ (u > v)
  <2>1. Wanted(W, "GT", v)
    BY <1>3
  <2> QED BY <1>3, <2>1, FoundNone
<1>4. CASE op = "GT" /\ \E u \in Vals : u > v
  <2>1. PICK T : T = {u \in Vals : u > v}
    OBVIOUS
  <2>2. T \subseteq Nat /\ T # {} /\ v \in Nat
    BY <1>4, <2>1, Values
  <2>3. PICK w \in T : \A u \in T : w <= u
    BY <2>2, LeastNumber
  <2>4. w \in Vals /\ w > v /\ w \in Nat
    BY <2>1, <2>2, <2>3
  <2>5. \A u \in Vals : u >= w <=> u > v
    <3> TAKE u \in Vals
    <3>1. u \in Nat
      BY Values
    <3>2. u > v => w <= u
      BY <2>1, <2>3
    <3> QED BY <2>2, <2>4, <3>1, <3>2
  <2>6. Aims(op, v, w)
    BY <1>4, <2>4, <2>5 DEF Aims
  <2> QED BY <2>6, FoundLarger
<1> QED BY <1>1, <1>2, <1>3, <1>4 DEF Op

\* A search of the finished tree finds exactly the records of the relation that
\* satisfy its condition, for every value of an attribute without duplicates.
THEOREM SearchesComplete ==
  ASSUME Distinct, Numeric
  PROVE  Spec => []SearchComplete
<1>1. Init => IInv /\ JInv
  BY InitOk, InitLinked
<1>2. IInv /\ JInv /\ [Next]_vars => IInv' /\ JInv'
  BY NextOk, NextLinked
<1>3. IInv /\ JInv => SearchComplete
  <2> SUFFICES ASSUME IInv, JInv, Indexed, NEW op \in Op, NEW v \in Vals
               PROVE  Found(op, v) = {r \in ToSet(rows) : Satisfies(ValOf[r], op, v)}
    BY DEF SearchComplete
  <2>1. PICK range \in [Block -> SUBSET Vals], level \in [Block -> Nat] : Tree(range, level)
    BY DEF IInv
  <2>2. Settled(range, level)
    BY <2>1 DEF Settled, IInv, Indexed, Splitting
  <2>3. PICK L \in Seq(Block) : Linked(L)
    BY DEF JInv
  <2>4. PICK W : W = {r \in ToSet(rows) : Satisfies(ValOf[r], op, v)}
    OBVIOUS
  <2>5. Wanted(W, op, v)
    BY <2>4, AllIn DEF Wanted
  <2> QED BY <2>2, <2>3, <2>4, <2>5, FoundWanted DEF JInv
<1> QED BY <1>1, <1>2, <1>3, PTL DEF Spec

-----------------------------------------------------------------------------
(* The leaves below a block.                                               *)

\* one level of the recursion of LeavesLinked
ListOf(f, b) == IF IsLeaf(b) THEN <<b>>
                ELSE FlattenSeq([i \in DOMAIN blk[b].kids |-> f[blk[b].kids[i]]])
Listing(f)   == [b \in Block |-> ListOf(f, b)]

\* f lists the leaves below each block
Lists(f) == f = Listing(f)

\* What is listed below a block depends on its children alone.
LEMMA SameList ==
  ASSUME NEW f, NEW g, NEW b, \A i \in DOMAIN blk[b].kids : f[blk[b].kids[i]] = g[blk[b].kids[i]]
  PROVE  ListOf(f, b) = ListOf(g, b)
<1>1. [i \in DOMAIN blk[b].kids |-> f[blk[b].kids[i]]] = [i \in DOMAIN blk[b].kids |-> g[blk[b].kids[i]]]
  OBVIOUS
<1> QED BY <1>1 DEF ListOf

\* The recursion has a solution.
LEMMA ListingHasSolution ==
  ASSUME NEW range, NEW level, Settled(range, level)
  PROVE  \E f : Lists(f)
<1> DEFINE Good(f, n) == \A b \in Block : (b \in Index => level[b] < n) => f[b] = ListOf(f, b)
           T == {n \in Nat : ~ \E f : Good(f, n)}
<1>1. ASSUME NEW b \in Block
      PROVE  /\ b \in Index => level[b] \in Nat /\ level[b] <= level[root]
             /\ \A i \in DOMAIN blk[b].kids :
                  LET k == blk[b].kids[i] IN
                  b \in Index /\ k \in Block /\ k \in Index /\ level[b] = level[k] + 1 /\ level[k] \in Nat
  <2>1. b \in Index => level[b] \in Nat /\ level[b] <= level[root]
    BY DEF Settled, Tree
  <2>2. ASSUME NEW i \in DOMAIN blk[b].kids
        PROVE  LET k == blk[b].kids[i] IN
               b \in Index /\ k \in Block /\ k \in Index /\ level[b] = level[k] + 1 /\ level[k] \in Nat
    <3>1. blk[b].kids \in Seq(Block) /\ (~ IsInternal(b) => Len(blk[b].kids) = 0)
      BY DEF Settled, TypeInv, Blocks, Fits
    <3>2. i \in 1 .. Len(blk[b].kids) /\ IsInternal(b)
      BY <2>2, <3>1
    <3>3. blk[b].kids[i] \in Index /\ level[b] = level[blk[b].kids[i]] + 1
      BY <3>2, KeysAre DEF Child
    <3> QED BY <3>2, <3>3 DEF Index, Settled
  <2> QED BY <2>1, <2>2
<1>2. ASSUME NEW n \in Nat, NEW f, n > 0 => Good(f, n - 1)
      PROVE  Good(Listing(f), n)
  <2> SUFFICES ASSUME NEW b \in Block, b \in Index => level[b] < n
               PROVE  Listing(f)[b] = ListOf(Listing(f), b)
    OBVIOUS
  <2>1. ASSUME NEW i \in DOMAIN blk[b].kids
        PROVE  f[blk[b].kids[i]] = Listing(f)[blk[b].kids[i]]
    <3>1. PICK k : k = blk[b].kids[i]
      OBVIOUS
    <3>2. b \in Index /\ k \in Block /\ k \in Index /\ level[b] = level[k] + 1 /\ level[k] \in Nat
      BY <1>1, <2>1, <3>1
    <3>3. n > 0 /\ level[k] < n - 1
      BY <3>2
    <3>4. f[k] = ListOf(f, k)
      BY <1>2, <3>2, <3>3
    <3> QED BY <3>1, <3>2, <3>4 DEF Listing
  <2>2. ListOf(f, b) = ListOf(Listing(f), b)
    BY <2>1, SameList
  <2> QED BY <2>2 DEF Listing
<1>3. T = {}
  <2> SUFFICES ASSUME T # {} PROVE FALSE
    OBVIOUS
  <2>1. T \subseteq Nat
    OBVIOUS
  <2>2. PICK n \in T : \A m \in T : n <= m
    <3> HIDE DEF T
    <3> QED BY <2>1, LeastNumber
  <2>3. n \in Nat /\ ~ \E f : Good(f, n)
    BY <2>2
  <2>4. n > 0 => n - 1 \in Nat /\ n - 1 \notin T
    <3> HIDE DEF T
    <3> QED BY <2>1, <2>2
  <2>5. \E f : n > 0 => Good(f, n - 1)
    BY <2>4
  <2> HIDE DEF Good
  <2> QED BY <1>2, <2>3, <2>5
<1>4. level[root] \in Nat /\ level[root] + 1 \in Nat
  BY DEF Settled, Control, Index
<1>5. PICK f : Good(f, level[root] + 1)
  <2> HIDE DEF Good
  <2> QED BY <1>3, <1>4
<1>6. \A b \in Block : f[b] = ListOf(f, b)
  <2> TAKE b \in Block
  <2>1. b \in Index => level[b] < level[root] + 1
    BY <1>1, <1>4
  <2> QED BY <1>5, <2>1
<1>7. PICK g : g = Listing(f)
  OBVIOUS
<1>8. ASSUME NEW b \in Block
      PROVE  g[b] = ListOf(g, b)
  <2>1. \A c \in Block : g[c] = f[c]
    BY <1>6, <1>7 DEF Listing
  <2>2. \A i \in DOMAIN blk[b].kids : g[blk[b].kids[i]] = f[blk[b].kids[i]]
    BY <1>1, <2>1
  <2>3. ListOf(g, b) = ListOf(f, b)
    BY <2>2, SameList
  <2> QED BY <1>6, <2>1, <2>3
<1>9. g = [b \in Block |-> g[b]]
  BY <1>7 DEF Listing
<1>10. g = Listing(g)
  BY <1>8, <1>9 DEF Listing
<1> QED BY <1>10 DEF Lists

\* the leaves below b are those from position a to position z of the list
Segment(L, b, range, a, z) ==
  /\ a \in 1 .. Len(L) /\ z \in a .. Len(L)
  /\ \A i \in a .. z : range[L[i]] \subseteq range[b]
  /\ \A v \in range[b] : \E i \in a .. z : v \in range[L[i]]

\* A leaf that is not alone, or in a tree that has a value at all, has a record.
LEMMA LeafValue ==
  ASSUME NEW range, NEW level, Settled(range, level), NEW L, Linked(L), NEW i \in 1 .. Len(L),
         Len(L) > 1 \/ \E v : HasValue(v)
  PROVE  \E r \in ToSet(blk[L[i]].recs) :
           ValOf[r] \in range[L[i]] /\ ValOf[r] \in Vals /\ ValOf[r] \in Nat
<1>1. L[i] \in Leaf /\ Len(L) \in Nat
  BY InList
<1>2. \A r \in ToSet(blk[L[i]].recs) : ValOf[r] \in range[L[i]] /\ ValOf[r] \in Vals /\ ValOf[r] \in Nat
  BY <1>1, LeafIs
<1>3. CASE Len(L) > 1
  <2>1. blk[L[i]].recs # <<>> /\ blk[L[i]].recs \in Seq(Recs)
    BY <1>1, <1>3, LeafIs DEF Linked
  <2>2. Len(blk[L[i]].recs) \in Nat \ {0}
    BY <2>1, EmptySeq
  <2>3. 1 \in 1 .. Len(blk[L[i]].recs)
    BY <2>2
  <2>4. blk[L[i]].recs[1] \in ToSet(blk[L[i]].recs)
    BY <2>1, <2>3, ToSetIs
  <2> QED BY <1>2, <2>4
<1>4. CASE ~ (Len(L) > 1)
  <2>1. PICK r : InLeaf(r)
    BY <1>4 DEF HasValue
  <2>2. PICK j \in 1 .. Len(L) : r \in ToSet(blk[L[j]].recs)
    BY <2>1, InList
  <2>3. j = i
    BY <1>1, <1>4
  <2> QED BY <1>2, <2>2, <2>3
<1> QED BY <1>3, <1>4

\* Leaves with a common value are one, and the values of the list ascend.
LEMMA ListValues ==
  ASSUME NEW range, NEW level, Settled(range, level), NEW L, Linked(L)
  PROVE  \A s, t \in 1 .. Len(L) :
           /\ range[L[s]] \cap range[L[t]] # {} => s = t
           /\ \A r \in ToSet(blk[L[s]].recs), q \in ToSet(blk[L[t]].recs) :
                s < t => ValOf[r] < ValOf[q]
<1> SUFFICES ASSUME NEW s \in 1 .. Len(L), NEW t \in 1 .. Len(L)
             PROVE  /\ range[L[s]] \cap range[L[t]] # {} => s = t
                    /\ \A r \in ToSet(blk[L[s]].recs), q \in ToSet(blk[L[t]].recs) :
                         s < t => ValOf[r] < ValOf[q]
  OBVIOUS
<1>1. L[s] \in Leaf /\ L[t] \in Leaf
  BY InList
<1>2. L[s] \in Index /\ L[t] \in Index /\ level[L[s]] = 0 /\ level[L[t]] = 0
  BY <1>1, LeafIs
<1>3. range[L[s]] \cap range[L[t]] # {} => L[s] = L[t]
  BY <1>2, RangesApart
<1>4. L[s] = L[t] => s = t
  BY DEF Linked, OnceOnly
<1>5. s < t => Below(L[s], L[t])
  BY DEF Linked
<1> QED BY <1>3, <1>4, <1>5 DEF Below

\* The leaves below a child come before those below a later one.
LEMMA SegmentsApart ==
  ASSUME NEW range, NEW level, Settled(range, level), KeysFound, NEW L, Linked(L),
         NEW p \in Block, IsInternal(p),
         NEW i \in 1 .. Len(blk[p].kids), NEW j \in 1 .. Len(blk[p].kids), i < j,
         NEW a, NEW z, Segment(L, blk[p].kids[i], range, a, z),
         NEW c, NEW d, Segment(L, blk[p].kids[j], range, c, d)
  PROVE  z < c
<1>1. PICK keys \in Seq(Vals) : keys = blk[p].keys
  BY KeysAre
<1>2. /\ Ascend(keys) /\ Len(keys) \in Nat /\ Len(blk[p].kids) = Len(keys) + 1
      /\ range[blk[p].kids[i]] = Slice(range[p], keys, i)
      /\ range[blk[p].kids[j]] = Slice(range[p], keys, j)
  BY <1>1, KeysAre DEF Child
<1>3. i \in 1 .. Len(keys) /\ j - 1 \in 1 .. Len(keys) /\ i <= j - 1 /\ j > 1 /\ i <= Len(keys)
  BY <1>2
<1>4. keys[i] \in Nat /\ keys[j - 1] \in Nat /\ keys[i] <= keys[j - 1]
  <2>1. keys[i] \in Vals /\ keys[j - 1] \in Vals
    BY <1>1, <1>3, ElementOfSeq
  <2>2. keys[i] \in Nat /\ keys[j - 1] \in Nat
    BY <2>1, Values
  <2>3. i < j - 1 => keys[i] < keys[j - 1]
    BY <1>2, <1>3 DEF Ascend
  <2>4. i < j - 1 \/ i = j - 1
    BY <1>3
  <2> QED BY <2>2, <2>3, <2>4
<1>5. HasValue(keys[i])
  <2>1. keys[i] \in ToSet(blk[p].keys)
    BY <1>1, <1>3, ToSetIs
  <2> QED BY <2>1 DEF KeysFound
<1>6. /\ Len(L) \in Nat /\ z \in 1 .. Len(L) /\ c \in 1 .. Len(L) /\ z \in a .. z /\ c \in c .. d
  <2>1. Len(L) \in Nat
    BY InList
  <2> QED BY <2>1 DEF Segment
<1>7. \E r \in ToSet(blk[L[z]].recs) : ValOf[r] \in range[L[z]] /\ ValOf[r] \in Nat
  BY <1>5, <1>6, LeafValue
<1>8. \E q \in ToSet(blk[L[c]].recs) : ValOf[q] \in range[L[c]] /\ ValOf[q] \in Nat
  BY <1>5, <1>6, LeafValue
<1>9. PICK r \in ToSet(blk[L[z]].recs) : ValOf[r] \in range[L[z]] /\ ValOf[r] \in Nat
  BY <1>7
<1>10. PICK q \in ToSet(blk[L[c]].recs) : ValOf[q] \in range[L[c]] /\ ValOf[q] \in Nat
  BY <1>8
<1>11. \A x \in range[L[z]] : x <= keys[i]
  <2>1. range[L[z]] \subseteq Slice(range[p], keys, i)
    BY <1>2, <1>6 DEF Segment
  <2> QED BY <1>3, <2>1 DEF Slice
<1>12. \A x \in range[L[c]] : keys[j - 1] < x
  <2>1. range[L[c]] \subseteq Slice(range[p], keys, j)
    BY <1>2, <1>6 DEF Segment
  <2> QED BY <1>3, <2>1 DEF Slice
<1>13. ValOf[r] < ValOf[q]
  <2>1. ValOf[r] <= keys[i] /\ keys[j - 1] < ValOf[q]
    BY <1>9, <1>10, <1>11, <1>12
  <2> QED BY <1>4, <1>9, <1>10, <2>1
<1>14. z # c
  <2> SUFFICES ASSUME z = c PROVE FALSE
    OBVIOUS
  <2>1. ValOf[r] <= keys[i] /\ keys[j - 1] < ValOf[r]
    BY <1>9, <1>11, <1>12
  <2> QED BY <1>4, <1>9, <2>1
<1>15. ~ (c < z)
  <2> SUFFICES ASSUME c < z PROVE FALSE
    OBVIOUS
  <2>1. ValOf[q] < ValOf[r]
    BY <1>6, <1>9, <1>10, ListValues
  <2> QED BY <1>9, <1>10, <1>13, <2>1
<1> QED BY <1>6, <1>14, <1>15

\* A value that searches take to a block is taken to one of its children.
LEMMA KidTakes ==
  ASSUME NEW range, NEW level, Settled(range, level), NEW p \in Block, IsInternal(p), NEW v \in range[p]
  PROVE  \E j \in 1 .. Len(blk[p].kids) : v \in range[blk[p].kids[j]]
<1>1. v \in Vals
  BY DEF Settled
<1>2. Aims("EQ", v, v)
  BY <1>1 DEF Aims
<1>3. PICK j \in 1 .. Len(blk[p].kids) : v \in Slice(range[p], blk[p].keys, j)
  BY <1>2, ChildAims
<1>4. range[blk[p].kids[j]] = Slice(range[p], blk[p].keys, j)
  BY KeysAre DEF Child
<1> QED BY <1>3, <1>4

\* the leaves below each child of p
Segments(L, p, range, a, z) ==
  \A j \in 1 .. Len(blk[p].kids) : Segment(L, blk[p].kids[j], range, a[j], z[j])

\* The leaves below a child follow those below the one before it.
LEMMA SegmentsAdjacent ==
  ASSUME NEW range, NEW level, Settled(range, level), KeysFound, NEW L, Linked(L),
         NEW p \in Block, IsInternal(p), NEW a, NEW z, Segments(L, p, range, a, z),
         NEW i \in 1 .. Len(blk[p].kids), i > 1
  PROVE  a[i] = z[i - 1] + 1
<1>1. PICK n \in Nat : n = Len(blk[p].kids)
  BY KeysAre
<1>2. \A j \in 1 .. n : /\ a[j] \in 1 .. Len(L) /\ z[j] \in 1 .. Len(L) /\ a[j] <= z[j]
                        /\ a[j] \in Nat /\ z[j] \in Nat
                        /\ range[L[a[j]]] \subseteq range[blk[p].kids[j]]
                        /\ range[L[z[j]]] \subseteq range[blk[p].kids[j]]
                        /\ \A v \in range[blk[p].kids[j]] :
                             \E t \in 1 .. Len(L) : a[j] <= t /\ t <= z[j] /\ v \in range[L[t]]
  <2> TAKE j \in 1 .. n
  <2>1. Len(L) \in Nat /\ Segment(L, blk[p].kids[j], range, a[j], z[j])
    BY <1>1, InList DEF Segments
  <2>2. a[j] \in a[j] .. z[j] /\ z[j] \in a[j] .. z[j] /\ \A t \in a[j] .. z[j] : t \in 1 .. Len(L)
    BY <2>1 DEF Segment
  <2> QED BY <2>1, <2>2 DEF Segment
<1>3. \A j, k \in 1 .. n : j < k => z[j] < a[k]
  BY <1>1, SegmentsApart DEF Segments
<1>4. i \in 1 .. n /\ i - 1 \in 1 .. n /\ i - 1 < i /\ i \in Nat
  BY <1>1
<1>5. z[i - 1] < a[i]
  BY <1>3, <1>4
<1>6. ~ (z[i - 1] + 1 < a[i])
  <2> SUFFICES ASSUME z[i - 1] + 1 < a[i] PROVE FALSE
    OBVIOUS
  <2>1. PICK b \in 1 .. Len(L), m \in 1 .. Len(L), c \in 1 .. Len(L) :
          b = z[i - 1] /\ m = b + 1 /\ c = a[i] /\ b < m /\ m < c
    <3>1. Len(L) \in Nat
      BY InList
    <3> QED BY <1>2, <1>4, <3>1
  <2>2. Len(L) > 1
    <3>1. Len(L) \in Nat
      BY InList
    <3> QED BY <2>1, <3>1
  <2>3. \A t \in 1 .. Len(L) : \E r \in ToSet(blk[L[t]].recs) :
          ValOf[r] \in range[L[t]] /\ ValOf[r] \in Vals /\ ValOf[r] \in Nat
    BY <2>2, LeafValue
  <2>4. PICK r \in ToSet(blk[L[b]].recs) : ValOf[r] \in range[L[b]] /\ ValOf[r] \in Nat
    BY <2>3
  <2>5. PICK q \in ToSet(blk[L[m]].recs) :
          ValOf[q] \in range[L[m]] /\ ValOf[q] \in Vals /\ ValOf[q] \in Nat
    BY <2>3
  <2>6. PICK s \in ToSet(blk[L[c]].recs) : ValOf[s] \in range[L[c]] /\ ValOf[s] \in Nat
    BY <2>3
  <2>7. ValOf[r] < ValOf[q] /\ ValOf[q] < ValOf[s]
    <3>1. \A g, h \in 1 .. Len(L) : \A x \in ToSet(blk[L[g]].recs), y \in ToSet(blk[L[h]].recs) :
            g < h => ValOf[x] < ValOf[y]
      BY ListValues
    <3>2. b < m /\ m < c
      BY <2>1
    <3>3. ValOf[r] < ValOf[q]
      BY <2>4, <2>5, <3>1, <3>2, Zenon
    <3>4. ValOf[q] < ValOf[s]
      BY <2>5, <2>6, <3>1, <3>2, Zenon
    <3> QED BY <3>3, <3>4
  <2>8. \A j \in 1 .. n : range[blk[p].kids[j]] \subseteq range[p]
    <3>1. \A j \in 1 .. n : range[blk[p].kids[j]] = Slice(range[p], blk[p].keys, j)
      BY <1>1, KeysAre DEF Child
    <3> QED BY <3>1 DEF Slice
  <2>9. ValOf[r] \in range[p] /\ ValOf[s] \in range[p]
    BY <1>2, <1>4, <2>1, <2>4, <2>6, <2>8
  <2>10. ValOf[q] \in range[p]
    <3>1. p \in Index
      BY DEF Index
    <3> QED BY <2>5, <2>7, <2>9, <3>1, NoGap
  <2>11. PICK j \in 1 .. n : ValOf[q] \in range[blk[p].kids[j]]
    BY <1>1, <2>10, KidTakes
  <2>12. PICK t \in 1 .. Len(L) : a[j] <= t /\ t <= z[j] /\ ValOf[q] \in range[L[t]]
    BY <1>2, <2>11
  <2>13. t = m
    BY <2>5, <2>12, ListValues
  <2>14. a[j] <= m /\ m <= z[j] /\ a[j] \in Nat /\ z[j] \in Nat /\ m \in Nat /\ b \in Nat /\ c \in Nat
    BY <1>2, <2>12, <2>13
  <2>15. CASE j < i
    <3>1. PICK h \in 1 .. n : h = i - 1
      BY <1>4
    <3>2. j < h \/ j = h
      BY <1>4, <2>15, <3>1
    <3>3. CASE j = h
      BY <2>1, <2>14, <3>1, <3>3
    <3>4. CASE j < h
      <4>1. PICK x \in Nat, y \in Nat, w \in Nat : x = z[j] /\ y = a[h] /\ w = z[h]
        BY <1>2
      <4>2. x < y /\ y <= w
        BY <1>2, <1>3, <3>4, <4>1
      <4>3. w = b /\ m <= x
        BY <2>1, <2>14, <3>1, <4>1
      <4>4. b < m /\ b \in Nat /\ m \in Nat
        BY <2>1
      <4> QED BY <4>2, <4>3, <4>4
    <3> QED BY <3>2, <3>3, <3>4
  <2>16. CASE j = i
    BY <2>1, <2>14, <2>16
  <2>17. CASE i < j
    <3>1. PICK x \in Nat, y \in Nat, w \in Nat : x = z[i] /\ y = a[i] /\ w = a[j]
      BY <1>2, <1>4
    <3>2. x < w /\ y <= x
      BY <1>2, <1>3, <1>4, <2>17, <3>1
    <3>3. y = c /\ w <= m
      BY <2>1, <2>14, <3>1
    <3>4. m < c /\ c \in Nat /\ m \in Nat
      BY <2>1
    <3> QED BY <3>2, <3>3, <3>4
  <2>18. j < i \/ j = i \/ i < j
    BY <1>4
  <2> QED BY <2>15, <2>16, <2>17, <2>18
<1> QED BY <1>2, <1>4, <1>5, <1>6

\* The leaves below a block are those below its children.
LEMMA SegmentOf ==
  ASSUME NEW range, NEW level, Settled(range, level), KeysFound, NEW L, Linked(L),
         NEW p \in Block, IsInternal(p), NEW a, NEW z, Segments(L, p, range, a, z)
  PROVE  Segment(L, p, range, a[1], z[Len(blk[p].kids)])
<1>1. PICK n \in Nat : n = Len(blk[p].kids) /\ n >= 1
  BY KeysAre
<1>2. Len(L) \in Nat /\ 1 \in 1 .. n /\ n \in 1 .. n
  BY <1>1, InList
<1>3. \A j \in 1 .. n : /\ a[j] \in 1 .. Len(L) /\ z[j] \in 1 .. Len(L) /\ a[j] <= z[j]
                        /\ a[j] \in Nat /\ z[j] \in Nat
                        /\ \A t \in Nat : a[j] <= t /\ t <= z[j] => range[L[t]] \subseteq range[blk[p].kids[j]]
                        /\ \A v \in range[blk[p].kids[j]] :
                             \E t \in Nat : a[j] <= t /\ t <= z[j] /\ v \in range[L[t]]
  <2> TAKE j \in 1 .. n
  <2>1. Segment(L, blk[p].kids[j], range, a[j], z[j])
    BY <1>1 DEF Segments
  <2>2. a[j] \in 1 .. Len(L) /\ z[j] \in a[j] .. Len(L)
    BY <2>1 DEF Segment
  <2>3. \A t : t \in a[j] .. z[j] <=> t \in Nat /\ a[j] <= t /\ t <= z[j]
    BY <1>2, <2>2
  <2> QED BY <1>2, <2>1, <2>2, <2>3 DEF Segment
<1>4. \A j, k \in 1 .. n : j < k => z[j] < a[k]
  BY <1>1, SegmentsApart DEF Segments
<1>5. \A j \in 1 .. n : a[1] <= a[j] /\ z[j] <= z[n]
  <2> TAKE j \in 1 .. n
  <2>1. (j = 1 \/ z[1] < a[j]) /\ (j = n \/ z[j] < a[n])
    BY <1>2, <1>4
  <2> QED BY <1>2, <1>3, <2>1
<1>6. \A j \in 1 .. n : range[blk[p].kids[j]] \subseteq range[p]
  <2>1. \A j \in 1 .. n : range[blk[p].kids[j]] = Slice(range[p], blk[p].keys, j)
    BY <1>1, KeysAre DEF Child
  <2> QED BY <2>1 DEF Slice
<1>7. ASSUME NEW t \in a[1] .. z[n]
      PROVE  range[L[t]] \subseteq range[p]
  <2>1. t \in Nat /\ a[1] <= t /\ t <= z[n]
    BY <1>2, <1>3
  <2>2. PICK T : T = {k \in 1 .. n : t <= z[k]}
    OBVIOUS
  <2>3. T \subseteq Nat /\ n \in T
    BY <1>2, <2>1, <2>2
  <2>4. PICK k \in T : \A m \in T : k <= m
    BY <2>3, LeastNumber
  <2>5. k \in 1 .. n /\ t <= z[k]
    BY <2>2
  <2>6. a[k] <= t
    <3>1. CASE k = 1
      BY <2>1, <3>1
    <3>2. CASE k # 1
      <4>1. k > 1 /\ k - 1 \in 1 .. n /\ k - 1 < k
        BY <2>5, <3>2
      <4>2. k - 1 \notin T
        BY <2>3, <2>4, <4>1
      <4>3. z[k - 1] < t
        BY <1>3, <2>1, <2>2, <4>1, <4>2
      <4>4. a[k] = z[k - 1] + 1
        BY <1>1, <2>5, <4>1, SegmentsAdjacent
      <4> QED BY <1>3, <2>1, <4>1, <4>3, <4>4
    <3> QED BY <3>1, <3>2
  <2> QED BY <1>3, <1>6, <2>1, <2>5, <2>6
<1>8. ASSUME NEW v \in range[p]
      PROVE  \E t \in a[1] .. z[n] : v \in range[L[t]]
  <2>1. PICK j \in 1 .. n : v \in range[blk[p].kids[j]]
    BY <1>1, KidTakes
  <2>2. PICK t \in Nat : a[j] <= t /\ t <= z[j] /\ v \in range[L[t]]
    BY <1>3, <2>1
  <2>3. t \in a[1] .. z[n]
    BY <1>2, <1>3, <1>5, <2>2
  <2> QED BY <2>2, <2>3
<1>9. a[1] \in 1 .. Len(L) /\ z[n] \in a[1] .. Len(L)
  BY <1>2, <1>3, <1>5
<1> QED BY <1>1, <1>7, <1>8, <1>9 DEF Segment

\* What is listed below a block is a part of the list.
LEMMA ListIs ==
  ASSUME NEW range, NEW level, Settled(range, level), KeysFound, NEW L, Linked(L),
         NEW f, Lists(f)
  PROVE  \A b \in Index : \E a, z : Segment(L, b, range, a, z) /\ f[b] = SubSeq(L, a, z)
<1> DEFINE Listed(b) == \E a, z : Segment(L, b, range, a, z) /\ f[b] = SubSeq(L, a, z)
           T == {n \in Nat : \E b \in Index : level[b] = n /\ ~ Listed(b)}
<1>1. L \in Seq(Block) /\ Len(L) \in Nat
  BY InList DEF Linked
<1>2. \A b \in Index : b \in Block /\ level[b] \in Nat
  BY DEF Index, Settled
<1>3. \A b \in Block : f[b] = ListOf(f, b)
  <2>1. \A b \in Block : Listing(f)[b] = ListOf(f, b)
    BY DEF Listing
  <2> QED BY <2>1 DEF Lists
<1>4. ASSUME NEW b \in Index, IsLeaf(b)
      PROVE  Listed(b)
  <2>1. PICK i \in 1 .. Len(L) : L[i] = b
    BY <1>2, <1>4, InList DEF Leaf
  <2>2. SubSeq(L, i, i) = <<L[i]>>
    <3>1. SubSeq(L, i, i) = <<L[i]>> \o SubSeq(L, i + 1, i)
      BY <1>1, SubSeqRecursiveFirst
    <3>2. SubSeq(L, i + 1, i) = <<>>
      BY SubSeqEmpty
    <3>3. <<L[i]>> \in Seq(Block)
      BY <1>2, <2>1
    <3> QED BY <3>1, <3>2, <3>3, ConcatEmptySeq
  <2>3. Segment(L, b, range, i, i)
    <3>1. i \in i .. Len(L) /\ \A j : j \in i .. i <=> j = i
      BY <1>1
    <3> QED BY <2>1, <3>1 DEF Segment
  <2>4. f[b] = <<b>>
    BY <1>2, <1>3, <1>4 DEF ListOf
  <2> QED BY <2>1, <2>2, <2>3, <2>4
<1>5. ASSUME NEW b \in Index, IsInternal(b), \A j \in 1 .. Len(blk[b].kids) : Listed(blk[b].kids[j])
      PROVE  Listed(b)
  <2>1. PICK kids \in Seq(Block) : kids = blk[b].kids
    BY <1>2, <1>5, KeysAre
  <2>2. Len(kids) \in Nat \ {0} /\ DOMAIN kids = 1 .. Len(kids)
    BY <1>2, <1>5, <2>1, KeysAre
  <2>3. PICK a : a = [j \in 1 .. Len(kids) |->
                       CHOOSE x : \E y : Segment(L, kids[j], range, x, y) /\ f[kids[j]] = SubSeq(L, x, y)]
    OBVIOUS
  <2>4. \A j \in 1 .. Len(kids) : \E y : Segment(L, kids[j], range, a[j], y) /\ f[kids[j]] = SubSeq(L, a[j], y)
    BY <1>5, <2>1, <2>3
  <2>5. PICK z : z = [j \in 1 .. Len(kids) |->
                       CHOOSE y : Segment(L, kids[j], range, a[j], y) /\ f[kids[j]] = SubSeq(L, a[j], y)]
    OBVIOUS
  <2>6. \A j \in 1 .. Len(kids) : Segment(L, kids[j], range, a[j], z[j]) /\ f[kids[j]] = SubSeq(L, a[j], z[j])
    BY <2>4, <2>5
  <2>7. b \in Block /\ Segments(L, b, range, a, z)
    BY <1>2, <2>1, <2>6 DEF Segments
  <2>8. Segment(L, b, range, a[1], z[Len(kids)])
    BY <1>5, <2>1, <2>7, SegmentOf
  <2>9. PICK s : s = [j \in DOMAIN kids |-> f[kids[j]]]
    OBVIOUS
  <2>10. Len(s) = Len(kids) /\ \A j \in 1 .. Len(s) : s[j] = f[kids[j]]
    BY <2>2, <2>9
  <2>11. Pieces(s, L, a, z)
    <3>1. \A j \in 1 .. Len(s) : j > 1 => a[j] = z[j - 1] + 1
      BY <1>5, <2>1, <2>7, <2>10, SegmentsAdjacent
    <3> QED BY <2>6, <2>10, <3>1 DEF Pieces, Segment
  <2>12. FlattenSeq(s) = SubSeq(L, a[1], z[Len(kids)])
    BY <1>1, <2>2, <2>10, <2>11, FlattenIs
  <2>13. f[b] = FlattenSeq(s)
    BY <1>3, <1>5, <2>1, <2>7, <2>9 DEF ListOf, IsLeaf, IsInternal
  <2> QED BY <2>8, <2>12, <2>13
<1>6. T = {}
  <2> SUFFICES ASSUME T # {} PROVE FALSE
    OBVIOUS
  <2>1. T \subseteq Nat
    OBVIOUS
  <2>2. PICK n \in T : \A m \in T : n <= m
    <3> HIDE DEF T
    <3> QED BY <2>1, LeastNumber
  <2>3. PICK b \in Index : level[b] = n /\ ~ Listed(b)
    BY <2>2
  <2>4. IsInternal(b)
    BY <1>4, <2>3 DEF Index
  <2>5. ASSUME NEW j \in 1 .. Len(blk[b].kids)
        PROVE  Listed(blk[b].kids[j])
    <3>1. PICK k : k = blk[b].kids[j]
      OBVIOUS
    <3>2. k \in Index /\ level[b] = level[k] + 1
      BY <1>2, <2>4, <2>5, <3>1, KeysAre DEF Child
    <3>3. level[k] \in Nat /\ level[k] < n
      BY <1>2, <2>3, <3>2
    <3>4. level[k] \notin T
      <4> HIDE DEF T
      <4> QED BY <2>1, <2>2, <3>3
    <3> HIDE DEF Listed
    <3> QED BY <3>1, <3>2, <3>3, <3>4
  <2> HIDE DEF Listed
  <2> QED BY <1>5, <2>3, <2>4, <2>5
<1>7. ASSUME NEW b \in Index
      PROVE  Listed(b)
  <2> HIDE DEF Listed
  <2> QED BY <1>2, <1>6
<1> QED BY <1>7

\* The leaves below the root are all.
LEMMA RootLists ==
  ASSUME NEW range, NEW level, Settled(range, level), NEW L, Linked(L),
         NEW a, NEW z, Segment(L, root, range, a, z)
  PROVE  a = 1 /\ z = Len(L) /\ 1 \in 1 .. Len(L)
<1>1. Len(L) \in Nat /\ a \in 1 .. Len(L) /\ z \in a .. Len(L)
  BY InList DEF Segment
<1>2. CASE Len(L) > 1
  <2>1. range[root] = Vals
    BY DEF Settled, Tree, Cut
  <2>2. ASSUME NEW i \in 1 .. Len(L)
        PROVE  i \in a .. z
    <3>1. \E r \in ToSet(blk[L[i]].recs) : ValOf[r] \in range[L[i]] /\ ValOf[r] \in Vals
      BY <1>2, LeafValue
    <3>2. PICK v \in Vals : v \in range[L[i]]
      BY <3>1
    <3>3. PICK t \in a .. z : v \in range[L[t]]
      BY <2>1 DEF Segment
    <3>4. t \in 1 .. Len(L)
      BY <1>1
    <3>5. t = i
      BY <3>2, <3>3, <3>4, ListValues
    <3> QED BY <3>5
  <2>3. 1 \in a .. z /\ Len(L) \in a .. z
    BY <1>1, <2>2
  <2> QED BY <1>1, <2>3
<1>3. CASE ~ (Len(L) > 1)
  BY <1>1, <1>3
<1> QED BY <1>2, <1>3

\* From the first leaf below the root, rblock leads through all leaves, in the
\* order in which the tree has them.
THEOREM ChainComplete ==
  ASSUME Distinct, Numeric
  PROVE  Spec => []LeavesLinked
<1>1. Init => IInv /\ JInv
  BY InitOk, InitLinked
<1>2. IInv /\ JInv /\ [Next]_vars => IInv' /\ JInv'
  BY NextOk, NextLinked
<1>3. IInv /\ JInv => LeavesLinked
  <2> SUFFICES ASSUME IInv, JInv, Indexed, NEW f, f = CHOOSE g : Lists(g)
               PROVE  ChainFrom(f[root][1]) = f[root]
    BY DEF LeavesLinked, Lists, Listing, ListOf
  <2>1. PICK range \in [Block -> SUBSET Vals], level \in [Block -> Nat] : Tree(range, level)
    BY DEF IInv
  <2>2. Settled(range, level)
    BY <2>1 DEF Settled, IInv, Indexed, Splitting
  <2>3. PICK L \in Seq(Block) : Linked(L)
    BY DEF JInv
  <2>4. Lists(f)
    BY <2>2, ListingHasSolution
  <2>5. root \in Index
    BY <2>2 DEF Settled, Control
  <2>6. PICK a, z : Segment(L, root, range, a, z) /\ f[root] = SubSeq(L, a, z)
    <3>1. KeysFound
      BY DEF JInv
    <3>2. \A g : Lists(g) => \A b \in Index : \E a, z : Segment(L, b, range, a, z) /\ g[b] = SubSeq(L, a, z)
      BY <2>2, <2>3, <3>1, ListIs
    <3> QED BY <2>4, <2>5, <3>2, Zenon
  <2>7. a = 1 /\ z = Len(L) /\ 1 \in 1 .. Len(L)
    BY <2>2, <2>3, <2>6, RootLists
  <2>8. f[root] = L
    BY <2>3, <2>6, <2>7, SubSeqFull
  <2>9. ChainFrom(L[1]) = L
    BY <2>3, <2>7, ChainIs, SubSeqFull
  <2> QED BY <2>8, <2>9
<1> QED BY <1>1, <1>2, <1>3, PTL DEF Spec
=============================================================================
