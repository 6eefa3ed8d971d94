--------------------------- MODULE BPlusTree_inv ----------------------------
(***************************************************************************)
(* The inductive invariant of the index, for any number of blocks, any     *)
(* capacities of leaves and internal blocks and any records: what it says, *)
(* what follows from it for Subtree, and that every step keeps it.         *)
(***************************************************************************)
EXTENDS BPlusTree, SequenceLemmas, TLAPS

\* no two records have the same value: BPlusTreeDuplicates.cfg drops this
Distinct == \A r, s \in Recs : ValOf[r] = ValOf[s] => r = s

\* insertIntoInternal compares as the leaves do: BPlusTreeStrings.cfg drops this
Numeric == \A o \in InternalOrders : \A u, v \in Vals : u < v <=> o[u] < o[v]

OnceOnly(s) == \A i, j \in 1 .. Len(s) : s[i] = s[j] => i = j

-----------------------------------------------------------------------------
(* The inductive invariant.                                                *)

Index     == {b \in Block : IsLeaf(b) \/ IsInternal(b)}
Splitting == pc \in {"internal", "newroot"}

BlockType == {"UNUSED_BLK", "REC", "IND_LEAF", "IND_INTERNAL"}
Blocks    == [type : BlockType, pblock : Block \cup {-1}, lblock : Block \cup {-1},
              rblock : Block \cup {-1}, recs : Seq(Recs), keys : Seq(Vals),
              kids : Seq(Block)]

\* a block has no more entries than fit, and only internal blocks have keys
Fits(b) ==
  /\ Len(blk[b].recs) <= MAX_KEYS_LEAF /\ Len(blk[b].keys) <= MAX_KEYS_INTERNAL
  /\ IF IsInternal(b)
     THEN Len(blk[b].kids) = Len(blk[b].keys) + 1
     ELSE Len(blk[b].kids) = 0 /\ Len(blk[b].keys) = 0

TypeInv ==
  /\ blk \in [Block -> Blocks] /\ \A b \in Block : Fits(b)
  /\ root \in Block \cup {-1} /\ at \in Block \cup {-1}
  /\ rows \in Seq(Recs) /\ todo \in Seq(Recs) /\ rec \in ToSet(rows) \cup {NoRec}
  /\ up \in [key : Vals \cup {0}, lChild : Block \cup {-1}, rChild : Block \cup {-1}]
  /\ pc \in {"idle", "next", "find", "internal", "newroot"}

\* there is a tree while an insertion is under way, and without one no index block
Control ==
  /\ pc # "idle" => root # -1
  /\ root = -1 => Index = {}
  /\ root # -1 => root \in Index /\ blk[root].pblock = -1
  /\ pc = "next" => todo # <<>>
  /\ pc = "find" => at \in Index /\ rec # NoRec

\* the records that are in no leaf yet
Waiting == ToSet(todo) \cup (IF pc = "find" THEN {rec} ELSE {})

RecordsOnce ==
  /\ OnceOnly(rows) /\ OnceOnly(todo) /\ ToSet(todo) \subseteq ToSet(rows)
  /\ pc = "find" => rec \notin ToSet(todo)
  /\ \A b \in Block : IsLeaf(b) => ToSet(blk[b].recs) \subseteq ToSet(rows) \ Waiting

\* the values a search takes to the i-th child, of those it takes to the block
Slice(R, keys, i) ==
  {v \in R : (i > 1 => keys[i - 1] < v) /\ (i <= Len(keys) => v <= keys[i])}

Ascend(s) == \A i, j \in 1 .. Len(s) : i < j => s[i] < s[j]

\* what a split has left to the left half
Cut(b) == IF Splitting /\ b = up.lChild THEN {v \in Vals : v <= up.key} ELSE Vals

\* level[b] is the height of b above the leaves, range[b] the values searches
\* take to b
LeafOk(b, range, level) ==
  /\ level[b] = 0
  /\ \A i \in 1 .. Len(blk[b].recs) : ValOf[blk[b].recs[i]] \in range[b]
  /\ \A i, j \in 1 .. Len(blk[b].recs) :
       i < j => ValOf[blk[b].recs[i]] < ValOf[blk[b].recs[j]]

\* k is the child of b that takes the values of a slice
ChildOk(b, k, range, level, slice) ==
  /\ k \in Index /\ blk[k].pblock = b /\ level[b] = level[k] + 1
  /\ range[k] = slice \cap Cut(k)
  /\ Splitting => k # up.rChild

InternalOk(b, range, level) ==
  /\ Ascend(blk[b].keys) /\ ToSet(blk[b].keys) \subseteq range[b]
  /\ OnceOnly(blk[b].kids)
  /\ \A i \in 1 .. Len(blk[b].kids) :
       ChildOk(b, blk[b].kids[i], range, level, Slice(range[b], blk[b].keys, i))

\* a block that is not a root is a child of its parent
HasParent(b) ==
  LET p == blk[b].pblock IN p \in Block /\ IsInternal(p) /\ b \in ToSet(blk[p].kids)

Roots == {root} \cup (IF Splitting THEN {up.rChild} ELSE {})

\* where the entry for the level above belongs
SplitOk(range, level) ==
  Splitting =>
    /\ up.key \in Vals /\ up.lChild \in Index /\ up.rChild \in Index
    /\ up.lChild # up.rChild /\ up.rChild # root
    /\ level[up.rChild] = level[up.lChild]
    /\ blk[up.rChild].pblock = blk[up.lChild].pblock
    /\ pc = "internal" =>
         /\ at \in Block /\ IsInternal(at) /\ blk[up.lChild].pblock = at
         /\ \E i \in 1 .. Len(blk[at].kids) :
              LET slice == Slice(range[at], blk[at].keys, i) IN
              /\ blk[at].kids[i] = up.lChild /\ up.key \in slice
              /\ i <= Len(blk[at].keys) => up.key < blk[at].keys[i]
              /\ range[up.rChild] = {v \in slice : v > up.key}
    /\ pc = "newroot" =>
         /\ up.lChild = root
         /\ range[up.rChild] = {v \in Vals : v > up.key}

Tree(range, level) ==
  /\ \A b \in Index : level[b] <= level[root]
  /\ \A b \in Block : IsLeaf(b) => LeafOk(b, range, level)
  /\ \A b \in Block : IsInternal(b) => InternalOk(b, range, level)
  /\ \A b \in Index \ Roots : HasParent(b)
  /\ root # -1 => range[root] = Cut(root)
  /\ SplitOk(range, level)
  /\ pc = "find" => ValOf[rec] \in range[at]

IInv ==
  /\ TypeInv /\ Control /\ RecordsOnce
  /\ \E range \in [Block -> SUBSET Vals], level \in [Block -> Nat] : Tree(range, level)

-----------------------------------------------------------------------------
(* Where an entry goes.                                                    *)

\* Values are numbers.
LEMMA Values == Vals \subseteq Nat /\ (\A r \in Recs : ValOf[r] \in Vals) /\ Recs \subseteq Nat \ {0}
BY TreeAssumption DEF Vals, Range

\* The first index that passes a test.
LEMMA FirstIs ==
  ASSUME NEW n \in Nat, NEW T \in SUBSET (1 .. n), T # {}
  PROVE  \E i \in T : \A j \in 1 .. i - 1 : j \notin T
<1>1. T \subseteq Nat
  OBVIOUS
<1>2. PICK i \in T : \A m \in T : i <= m
  BY <1>1, LeastNumber
<1> QED BY <1>1, <1>2

\* findLeafToInsert goes left of the first key that is not smaller.
LEMMA DownIs ==
  ASSUME NEW keys \in Seq(Vals), NEW v \in Vals,
         NEW i, i = FirstIndex(keys, LAMBDA k : v <= k)
  PROVE  /\ i \in 1 .. Len(keys) + 1
         /\ i <= Len(keys) => v <= keys[i]
         /\ \A j \in 1 .. i - 1 : keys[j] < v
<1> DEFINE T == {j \in 1 .. Len(keys) : v <= keys[j]}
<1>1. Len(keys) \in Nat /\ DOMAIN keys = 1 .. Len(keys) /\ \A j \in 1 .. Len(keys) : keys[j] \in Nat
  BY Values
<1>2. v \in Nat
  BY Values
<1>3. CASE T = {}
  <2>1. i = Len(keys) + 1
    BY <1>1, <1>3 DEF FirstIndex
  <2>2. \A j \in 1 .. Len(keys) : keys[j] < v
    BY <1>1, <1>2, <1>3
  <2> HIDE DEF T
  <2>3. i \in 1 .. Len(keys) + 1 /\ ~ (i <= Len(keys)) /\ 1 .. i - 1 = 1 .. Len(keys)
    BY <1>1, <2>1
  <2> QED BY <2>2, <2>3
<1>4. CASE T # {}
  <2>1. \E k \in T : \A j \in 1 .. k - 1 : j \notin T
    BY <1>1, <1>4, FirstIs
  <2>2. \E k \in 1 .. Len(keys) : v <= keys[k] /\ \A j \in 1 .. k - 1 : ~ (v <= keys[j])
    BY <1>1, <2>1
  <2>3. i = CHOOSE k \in 1 .. Len(keys) : v <= keys[k] /\ \A j \in 1 .. k - 1 : ~ (v <= keys[j])
    BY <1>1, <2>2 DEF FirstIndex
  <2>4. i \in 1 .. Len(keys) /\ v <= keys[i] /\ \A j \in 1 .. i - 1 : ~ (v <= keys[j])
    BY <2>2, <2>3
  <2> HIDE DEF T
  <2>5. \A j \in 1 .. i - 1 : j \in 1 .. Len(keys)
    BY <1>1, <2>4
  <2>6. ASSUME NEW j \in 1 .. i - 1
        PROVE  keys[j] < v
    <3>1. ~ (v <= keys[j]) /\ keys[j] \in Nat
      BY <1>1, <2>4, <2>5
    <3> QED BY <1>2, <3>1
  <2>7. i \in 1 .. Len(keys) + 1
    BY <1>1, <2>4
  <2> QED BY <2>4, <2>6, <2>7
<1> QED BY <1>3, <1>4

\* insertIntoLeaf puts a record behind those whose values are not larger.
LEMMA LeafPlaceIs ==
  ASSUME NEW recs \in Seq(Recs), NEW r \in Recs,
         NEW i, i = FirstIndex(recs, LAMBDA s : ValOf[s] > ValOf[r])
  PROVE  /\ i \in 1 .. Len(recs) + 1
         /\ i <= Len(recs) => ValOf[recs[i]] > ValOf[r]
         /\ \A j \in 1 .. i - 1 : ValOf[recs[j]] <= ValOf[r]
<1> DEFINE T == {j \in 1 .. Len(recs) : ValOf[recs[j]] > ValOf[r]}
<1>1. Len(recs) \in Nat /\ DOMAIN recs = 1 .. Len(recs) /\ \A j \in 1 .. Len(recs) : ValOf[recs[j]] \in Nat
  <2>1. \A j \in 1 .. Len(recs) : recs[j] \in Recs
    BY ElementOfSeq
  <2> QED BY <2>1, Values, LenProperties
<1>2. ValOf[r] \in Nat
  BY Values
<1>3. CASE T = {}
  <2>1. i = Len(recs) + 1
    BY <1>1, <1>3 DEF FirstIndex
  <2>2. \A j \in 1 .. Len(recs) : ValOf[recs[j]] <= ValOf[r]
    BY <1>1, <1>2, <1>3
  <2> HIDE DEF T
  <2>3. i \in 1 .. Len(recs) + 1 /\ ~ (i <= Len(recs)) /\ 1 .. i - 1 = 1 .. Len(recs)
    BY <1>1, <2>1
  <2> QED BY <2>2, <2>3
<1>4. CASE T # {}
  <2>1. \E k \in T : \A j \in 1 .. k - 1 : j \notin T
    BY <1>1, <1>4, FirstIs
  <2>2. \E k \in 1 .. Len(recs) : /\ ValOf[recs[k]] > ValOf[r]
                                  /\ \A j \in 1 .. k - 1 : ~ (ValOf[recs[j]] > ValOf[r])
    BY <1>1, <2>1
  <2>3. i = CHOOSE k \in 1 .. Len(recs) : /\ ValOf[recs[k]] > ValOf[r]
                                          /\ \A j \in 1 .. k - 1 : ~ (ValOf[recs[j]] > ValOf[r])
    BY <1>1, <2>2 DEF FirstIndex
  <2>4. /\ i \in 1 .. Len(recs) /\ ValOf[recs[i]] > ValOf[r]
        /\ \A j \in 1 .. i - 1 : ~ (ValOf[recs[j]] > ValOf[r])
    BY <2>2, <2>3
  <2> HIDE DEF T
  <2>5. \A j \in 1 .. i - 1 : j \in 1 .. Len(recs)
    BY <1>1, <2>4
  <2>6. ASSUME NEW j \in 1 .. i - 1
        PROVE  ValOf[recs[j]] <= ValOf[r]
    <3>1. ~ (ValOf[recs[j]] > ValOf[r]) /\ ValOf[recs[j]] \in Nat
      BY <1>1, <2>4, <2>5
    <3> QED BY <1>2, <3>1
  <2>7. i \in 1 .. Len(recs) + 1
    BY <1>1, <2>4
  <2> QED BY <2>4, <2>6, <2>7
<1> QED BY <1>3, <1>4

\* Where insertIntoInternal puts a key that fits between two ascending ones.
LEMMA PlaceIs ==
  ASSUME Numeric, NEW order \in InternalOrders, NEW keys \in Seq(Vals), Ascend(keys),
         NEW key \in Vals, NEW i \in 1 .. Len(keys) + 1,
         i > 1 => keys[i - 1] < key, i <= Len(keys) => key < keys[i],
         NEW p, p = Place(keys, order, key)
  PROVE  p = i
<1>1. Len(keys) \in Nat /\ DOMAIN keys = 1 .. Len(keys) /\ \A j \in 1 .. Len(keys) : keys[j] \in Vals
  OBVIOUS
<1>2. key \in Nat /\ \A j \in 1 .. Len(keys) : keys[j] \in Nat
  BY <1>1, Values
<1>3. \A j \in 1 .. Len(keys) : order[keys[j]] > order[key] <=> keys[j] > key
  <2> TAKE j \in 1 .. Len(keys)
  <2>1. key < keys[j] <=> order[key] < order[keys[j]]
    BY <1>1 DEF Numeric
  <2>2. order[keys[j]] \in Int /\ order[key] \in Int
    BY <1>1, TreeAssumption
  <2> QED BY <1>2, <2>1, <2>2
<1>4. \A j \in 1 .. Len(keys) : keys[j] > key <=> j >= i
  <2> TAKE j \in 1 .. Len(keys)
  <2>1. CASE j >= i
    <3>1. j = i \/ keys[i] < keys[j]
      BY <1>1, <2>1 DEF Ascend
    <3> QED BY <1>2, <2>1, <3>1
  <2>2. CASE j < i
    <3>1. j = i - 1 \/ keys[j] < keys[i - 1]
      BY <1>1, <2>2 DEF Ascend
    <3> QED BY <1>1, <1>2, <2>2, <3>1
  <2> QED BY <1>1, <2>1, <2>2
<1>5. CASE i = Len(keys) + 1
  <2>1. ~ \E j \in 1 .. Len(keys) : order[keys[j]] > order[key]
    BY <1>1, <1>3, <1>4, <1>5
  <2> QED BY <1>1, <1>5, <2>1 DEF Place, FirstIndex
<1>6. CASE i \in 1 .. Len(keys)
  <2>1. \E j \in 1 .. Len(keys) : order[keys[j]] > order[key]
    BY <1>3, <1>4, <1>6
  <2>2. \A k \in 1 .. Len(keys) :
          (/\ order[keys[k]] > order[key]
           /\ \A j \in 1 .. k - 1 : ~ (order[keys[j]] > order[key])) <=> k = i
    BY <1>1, <1>3, <1>4, <1>6
  <2>3. p = CHOOSE k \in 1 .. Len(keys) :
              /\ order[keys[k]] > order[key]
              /\ \A j \in 1 .. k - 1 : ~ (order[keys[j]] > order[key])
    BY <1>1, <2>1 DEF Place, FirstIndex
  <2> QED BY <1>6, <2>2, <2>3
<1> QED BY <1>1, <1>5, <1>6

-----------------------------------------------------------------------------
(* The blocks bPlusDestroy releases.                                       *)

Kids(b) == IF IsInternal(b) THEN ToSet(blk[b].kids) ELSE {}

\* what the recursion of bPlusDestroy adds up, given the result s for each block
Released(s) ==
  [c \in Block |->
     CASE IsInternal(c) -> {c} \cup UNION {s[k] : k \in ToSet(blk[c].kids)}
       [] IsLeaf(c)     -> {c}
       [] OTHER         -> {}]

\* the blocks that every set that holds b and its children's children holds
Closed(S)  == \A b \in S : Kids(b) \subseteq S
Reached(b) == IF b \in Index
              THEN {c \in Index : \A S \in SUBSET Index : b \in S /\ Closed(S) => c \in S}
              ELSE {}

\* The recursion of bPlusDestroy has a solution when children are index blocks.
LEMMA ReleasedHasSolution ==
  ASSUME Closed(Index)
  PROVE  [c \in Block |-> Reached(c)] = Released([c \in Block |-> Reached(c)])
<1> DEFINE F == [c \in Block |-> Reached(c)]
<1>1. ASSUME NEW c \in Block
      PROVE  Reached(c) = CASE IsInternal(c) -> {c} \cup UNION {F[k] : k \in ToSet(blk[c].kids)}
                            [] IsLeaf(c)     -> {c}
                            [] OTHER         -> {}
  <2>1. CASE IsInternal(c)
    <3>1. c \in Index /\ Kids(c) = ToSet(blk[c].kids)
      BY <2>1 DEF Index, Kids
    <3>2. Kids(c) \subseteq Index /\ Index \subseteq Block
      BY <3>1 DEF Closed, Index
    <3> DEFINE U == {c} \cup UNION {Reached(k) : k \in Kids(c)}
    <3>3. ASSUME NEW k \in Index
          PROVE  k \in Reached(k) /\ Reached(k) \subseteq Index /\ Closed(Reached(k))
      <4>1. k \in Reached(k) /\ Reached(k) \subseteq Index
        BY <3>3 DEF Reached
      <4>2. ASSUME NEW x \in Reached(k), NEW y \in Kids(x)
            PROVE  y \in Reached(k)
        <5>1. y \in Index
          BY <4>1, <4>2 DEF Closed
        <5>2. ASSUME NEW S \in SUBSET Index, k \in S, Closed(S)
              PROVE  y \in S
          <6>1. x \in S
            BY <5>2, <4>2, <3>3 DEF Reached
          <6> QED BY <6>1, <5>2, <4>2 DEF Closed
        <5> QED BY <5>1, <5>2 DEF Reached
      <4> QED BY <4>1, <4>2 DEF Closed
    <3>4. U \subseteq Index /\ c \in U
      BY <3>1, <3>2, <3>3
    <3>5. Closed(U)
      <4>1. ASSUME NEW x \in U, NEW y \in Kids(x)
            PROVE  y \in U
        <5>1. CASE x = c
          BY <5>1, <4>1, <3>2, <3>3
        <5>2. CASE x # c
          <6>1. PICK k \in Kids(c) : x \in Reached(k)
            BY <5>2, <4>1
          <6>2. y \in Reached(k)
            BY <6>1, <4>1, <3>2, <3>3 DEF Closed
          <6> QED BY <6>1, <6>2
        <5> QED BY <5>1, <5>2
      <4> HIDE DEF U
      <4> QED BY <4>1 DEF Closed
    <3>6. Reached(c) \subseteq U
      <4> HIDE DEF U
      <4> QED BY <3>1, <3>4, <3>5 DEF Reached
    <3>7. ASSUME NEW k \in Kids(c)
          PROVE  Reached(k) \subseteq Reached(c)
      <4>1. k \in Index
        BY <3>2, <3>7
      <4>2. ASSUME NEW S \in SUBSET Index, c \in S, Closed(S)
            PROVE  k \in S
        BY <3>7, <4>2 DEF Closed
      <4> QED BY <3>1, <4>1, <4>2 DEF Reached
    <3>8. U \subseteq Reached(c)
      BY <3>1, <3>3, <3>7
    <3>9. {F[k] : k \in ToSet(blk[c].kids)} = {Reached(k) : k \in Kids(c)}
      <4>1. \A k \in Kids(c) : F[k] = Reached(k)
        BY <3>2
      <4> HIDE DEF F
      <4> QED BY <3>1, <4>1
    <3>10. Reached(c) = {c} \cup UNION {F[k] : k \in ToSet(blk[c].kids)}
      BY <3>6, <3>8, <3>9
    <3> HIDE DEF F
    <3>11. ~ IsLeaf(c)
      BY <2>1 DEF IsLeaf, IsInternal
    <3> QED BY <3>10, <3>11, <2>1
  <2>2. CASE ~ IsInternal(c) /\ IsLeaf(c)
    <3>1. c \in Index /\ Kids(c) = {} /\ Closed({c})
      BY <2>2 DEF Index, Kids, Closed
    <3>2. Reached(c) = {c}
      BY <3>1 DEF Reached
    <3> HIDE DEF F
    <3> QED BY <2>2, <3>2
  <2>3. CASE ~ IsInternal(c) /\ ~ IsLeaf(c)
    <3>1. Reached(c) = {}
      BY <2>3 DEF Reached, Index
    <3> HIDE DEF F
    <3> QED BY <2>3, <3>1
  <2> QED BY <2>1, <2>2, <2>3
<1>2. F = [c \in Block |-> CASE IsInternal(c) -> {c} \cup UNION {F[k] : k \in ToSet(blk[c].kids)}
                             [] IsLeaf(c)     -> {c}
                             [] OTHER         -> {}]
  BY <1>1
<1>3. Released(F) = [c \in Block |-> CASE IsInternal(c) -> {c} \cup UNION {F[k] : k \in ToSet(blk[c].kids)}
                             [] IsLeaf(c)     -> {c}
                             [] OTHER         -> {}]
  BY DEF Released
<1> QED BY <1>2, <1>3, Zenon

\* bPlusDestroy releases a block with all that is released for its children.
LEMMA SubtreeIs ==
  ASSUME Closed(Index)
  PROVE  \A c \in Block : Subtree(c) = CASE IsInternal(c) -> {c} \cup UNION {Subtree(k) : k \in Kids(c)}
                                         [] IsLeaf(c)     -> {c}
                                         [] OTHER         -> {}
<1> DEFINE s == CHOOSE t : t = Released(t)
<1>1. \E t : t = Released(t)
  BY ReleasedHasSolution, Zenon
<1>2. s = Released(s)
  BY <1>1, Zenon
<1>3. \A c : Subtree(c) = s[c]
  BY Zenon DEF Subtree, Released
<1> HIDE DEF s
<1>4. ASSUME NEW c \in Block
      PROVE  s[c] = CASE IsInternal(c) -> {c} \cup UNION {s[k] : k \in ToSet(blk[c].kids)}
                      [] IsLeaf(c)     -> {c}
                      [] OTHER         -> {}
  <2>1. Released(s)[c] = CASE IsInternal(c) -> {c} \cup UNION {s[k] : k \in ToSet(blk[c].kids)}
                           [] IsLeaf(c)     -> {c}
                           [] OTHER         -> {}
    BY DEF Released
  <2> QED BY <1>2, <2>1, Zenon
<1> SUFFICES ASSUME NEW c \in Block
             PROVE  Subtree(c) = CASE IsInternal(c) -> {c} \cup UNION {Subtree(k) : k \in Kids(c)}
                                   [] IsLeaf(c)     -> {c}
                                   [] OTHER         -> {}
  OBVIOUS
<1>5. CASE IsInternal(c)
  <2> ~ IsLeaf(c)
    BY <1>5 DEF IsLeaf, IsInternal
  <2>1. Kids(c) = ToSet(blk[c].kids)
    BY <1>5 DEF Kids
  <2>2. s[c] = {c} \cup UNION {s[k] : k \in ToSet(blk[c].kids)}
    BY <1>4, <1>5
  <2>3. {s[k] : k \in ToSet(blk[c].kids)} = {Subtree(k) : k \in Kids(c)}
    BY <1>3, <2>1
  <2>4. Subtree(c) = {c} \cup UNION {Subtree(k) : k \in Kids(c)}
    BY <1>3, <2>2, <2>3
  <2> QED BY <1>5, <2>4
<1>6. CASE ~ IsInternal(c)
  BY <1>3, <1>4, <1>6
<1> QED BY <1>5, <1>6

\* In a tree the children of a block are index blocks, one level below it.
LEMMA KidsBelow ==
  ASSUME TypeInv, NEW range, NEW level, Tree(range, level), NEW b \in Block, NEW k \in Kids(b)
  PROVE  k \in Index /\ level[b] = level[k] + 1 /\ blk[k].pblock = b
<1>1. IsInternal(b) /\ k \in ToSet(blk[b].kids)
  BY DEF Kids
<1>2. blk[b].kids \in Seq(Block)
  BY DEF TypeInv, Blocks
<1>3. PICK i \in 1 .. Len(blk[b].kids) : blk[b].kids[i] = k
  BY <1>1, <1>2, ToSetIs
<1>4. InternalOk(b, range, level)
  BY <1>1 DEF Tree
<1> QED BY <1>3, <1>4 DEF InternalOk, ChildOk

\* bPlusDestroy releases index blocks only, and a block's children with it.
LEMMA SubtreeClosed ==
  ASSUME TypeInv, NEW range, NEW level \in [Block -> Nat], Tree(range, level)
  PROVE  \A b \in Index : b \in Subtree(b) /\ Subtree(b) \subseteq Index /\ Closed(Subtree(b))
<1>1. \A b \in Block : \A k \in Kids(b) : k \in Index /\ level[b] = level[k] + 1
  BY KidsBelow
<1>2. Index \subseteq Block /\ \A b \in Index : level[b] \in Nat
  BY DEF Index
<1>3. Closed(Index)
  BY <1>1, <1>2 DEF Closed
<1>4. ASSUME NEW b \in Index
      PROVE  /\ b \in Subtree(b)
             /\ \A c \in Subtree(b) : c = b \/ \E k \in Kids(b) : c \in Subtree(k)
             /\ \A k \in Kids(b) : Subtree(k) \subseteq Subtree(b)
  <2>1. CASE IsInternal(b)
    <3>1. ~ IsLeaf(b)
      BY <2>1 DEF IsLeaf, IsInternal
    <3>2. Subtree(b) = {b} \cup UNION {Subtree(k) : k \in Kids(b)}
      BY <1>2, <1>3, <2>1, <3>1, SubtreeIs
    <3> QED BY <3>2
  <2>2. CASE IsLeaf(b)
    <3>1. ~ IsInternal(b) /\ Kids(b) = {}
      BY <2>2 DEF IsLeaf, IsInternal, Kids
    <3>2. Subtree(b) = {b}
      BY <1>2, <1>3, <2>2, <3>1, SubtreeIs
    <3> QED BY <3>1, <3>2
  <2> QED BY <2>1, <2>2 DEF Index
<1> DEFINE Good(b) == Subtree(b) \subseteq Index /\ Closed(Subtree(b))
           T       == {level[b] : b \in {c \in Index : ~ Good(c)}}
<1>5. T = {}
  <2> SUFFICES ASSUME T # {} PROVE FALSE
    OBVIOUS
  <2>1. T \subseteq Nat
    BY <1>2
  <2>2. PICK n \in T : \A m \in T : n <= m
    BY <2>1, LeastNumber
  <2>3. PICK b \in Index : ~ Good(b) /\ level[b] = n
    BY <2>2
  <2>4. ASSUME NEW k \in Kids(b)
        PROVE  Good(k)
    <3>1. k \in Index /\ level[b] = level[k] + 1 /\ level[k] \in Nat
      BY <1>1, <1>2
    <3>2. ~ Good(k) => level[k] \in T
      BY <3>1
    <3> HIDE DEF T, Good
    <3> QED BY <2>2, <2>3, <3>1, <3>2
  <2>5. Subtree(b) \subseteq Index
    BY <1>4, <2>4
  <2>6. ASSUME NEW c \in Subtree(b)
        PROVE  Kids(c) \subseteq Subtree(b)
    <3>1. CASE c = b
      <4>1. \A k \in Kids(b) : k \in Subtree(k) /\ Subtree(k) \subseteq Subtree(b)
        BY <1>1, <1>2, <1>4
      <4> QED BY <3>1, <4>1
    <3>2. CASE c # b
      <4>1. PICK k \in Kids(b) : c \in Subtree(k)
        BY <1>4, <2>6, <3>2
      <4>2. Kids(c) \subseteq Subtree(k)
        BY <2>4, <4>1 DEF Closed
      <4>3. Subtree(k) \subseteq Subtree(b)
        BY <1>4
      <4> QED BY <4>2, <4>3
    <3> QED BY <3>1, <3>2
  <2>7. Closed(Subtree(b))
    BY <2>6 DEF Closed
  <2> QED BY <2>3, <2>5, <2>7
<1> QED BY <1>4, <1>5

\* Every index block is in the tree, or in the half a split has just cut off.
LEMMA Whole ==
  ASSUME TypeInv, Control, root # -1,
         NEW range, NEW level \in [Block -> Nat], Tree(range, level)
  PROVE  /\ Subtree(root) \subseteq Index
         /\ ~ Splitting => Subtree(root) = Index
         /\ Splitting => Subtree(root) \cup Subtree(up.rChild) = Index
<1> DEFINE U == Subtree(root) \cup (IF Splitting THEN Subtree(up.rChild) ELSE {})
           T == {level[root] - level[b] : b \in Index \ U}
<1>1. \A b \in Block : \A k \in Kids(b) : k \in Index /\ level[b] = level[k] + 1
  BY KidsBelow
<1>2. /\ Index \subseteq Block /\ root \in Index /\ Roots \subseteq Index
      /\ \A b \in Index : level[b] \in Nat /\ level[b] <= level[root]
  BY DEF Index, Control, Roots, Tree, SplitOk
<1>3. \A b \in Roots : b \in Subtree(b) /\ Subtree(b) \subseteq Index /\ Closed(Subtree(b))
  BY <1>2, SubtreeClosed
<1>4. Roots \subseteq U /\ U \subseteq Index /\ Closed(U)
  BY <1>3 DEF Roots, Closed
<1>5. T = {}
  <2> SUFFICES ASSUME T # {} PROVE FALSE
    OBVIOUS
  <2> HIDE DEF U
  <2>1. T \subseteq Nat
    <3>1. \A b \in Index \ U : level[root] - level[b] \in Nat
      BY <1>2
    <3> QED BY <3>1
  <2>2. PICK n \in T : \A m \in T : n <= m
    BY <2>1, LeastNumber
  <2>3. PICK b \in Index \ U : level[root] - level[b] = n
    BY <2>2
  <2>4. PICK p \in Block : IsInternal(p) /\ b \in Kids(p)
    <3>1. b \in Index \ Roots
      BY <1>4, <2>3
    <3> QED BY <3>1 DEF Tree, HasParent, Kids
  <2>5. p \in Index /\ level[p] = level[b] + 1
    BY <1>1, <2>4 DEF Index
  <2>6. CASE p \in U
    BY <1>4, <2>3, <2>4, <2>6 DEF Closed
  <2>7. CASE p \notin U
    <3>1. level[root] - level[p] \in T
      BY <2>5, <2>7
    <3> HIDE DEF T
    <3>2. n <= level[root] - level[p]
      BY <2>2, <3>1
    <3> QED BY <1>2, <2>3, <2>5, <3>2
  <2> QED BY <2>6, <2>7
<1>6. U = Index
  BY <1>4, <1>5
<1> QED BY <1>2, <1>3, <1>6 DEF Roots

-----------------------------------------------------------------------------
(* The steps that leave the blocks alone, and those that give all back.    *)

\* A new block of any type is a block without entries.
LEMMA NodeIs ==
  ASSUME NEW type \in BlockType
  PROVE  /\ Node(type) \in Blocks /\ Node(type).type = type
         /\ Node(type).recs = <<>> /\ Node(type).keys = <<>> /\ Node(type).kids = <<>>
BY DEF Node, Blocks

\* A tree stays one while neither its blocks nor its root change.
LEMMA SameTree ==
  ASSUME NEW range, NEW level, Tree(range, level), ~ Splitting, ~ Splitting',
         blk' = blk, root' = root, pc' = "find" => ValOf[rec'] \in range[at']
  PROVE  Tree(range, level)'
<1>1. /\ Index' = Index /\ Roots' = Roots /\ \A b : Cut(b)' = Cut(b)
      /\ \A b : (IsLeaf(b)' <=> IsLeaf(b)) /\ (IsInternal(b)' <=> IsInternal(b))
  BY DEF Index, IsLeaf, IsInternal, Roots, Cut
<1>2. \A b : LeafOk(b, range, level) => LeafOk(b, range, level)'
  BY DEF LeafOk
<1>3. \A b : InternalOk(b, range, level) => InternalOk(b, range, level)'
  BY <1>1 DEF InternalOk, ChildOk
<1>4. \A b : HasParent(b) => HasParent(b)'
  BY <1>1 DEF HasParent
<1>5. SplitOk(range, level)'
  BY DEF SplitOk
<1> QED BY <1>1, <1>2, <1>3, <1>4, <1>5 DEF Tree

\* Without index blocks there is no tree to speak of.
LEMMA NoTree ==
  ASSUME Index' = {}, root' = -1, pc' = "idle"
  PROVE  \E range \in [Block -> SUBSET Vals], level \in [Block -> Nat] : Tree(range, level)'
<1>1. PICK range \in [Block -> SUBSET Vals] : range = [b \in Block |-> Vals]
  OBVIOUS
<1>2. PICK level \in [Block -> Nat] : level = [b \in Block |-> 0]
  OBVIOUS
<1>3. \A b \in Block : ~ IsLeaf(b)' /\ ~ IsInternal(b)'
  BY DEF Index
<1>4. SplitOk(range, level)'
  BY DEF SplitOk, Splitting
<1>5. Tree(range, level)'
  BY <1>3, <1>4 DEF Tree
<1> QED BY <1>5

\* Initially there is no index.
LEMMA InitOk ==
  ASSUME Init
  PROVE  IInv
<1>1. PICK taken \in Taken : blk = [b \in Block |-> Node(IF b < taken THEN "REC" ELSE "UNUSED_BLK")]
  BY DEF Init
<1>2. ASSUME NEW b \in Block
      PROVE  /\ blk[b] \in Blocks /\ Fits(b) /\ ~ IsLeaf(b) /\ ~ IsInternal(b)
  <2>1. PICK type \in {"REC", "UNUSED_BLK"} : blk[b] = Node(type)
    BY <1>1
  <2>2. blk[b] \in Blocks /\ blk[b].type = type /\ blk[b].recs = <<>> /\ blk[b].keys = <<>> /\ blk[b].kids = <<>>
    BY <2>1, NodeIs DEF BlockType
  <2> QED BY <2>2, TreeAssumption DEF Fits, IsLeaf, IsInternal
<1>3. blk \in [Block -> Blocks]
  BY <1>1, <1>2
<1>4. /\ root = -1 /\ rows \in InitialRows /\ pc = "idle" /\ todo = <<>> /\ rec = NoRec /\ at = -1
      /\ up = NoEntry
  BY DEF Init
<1>5. TypeInv
  <2>1. rows \in Seq(Recs) /\ todo \in Seq(Recs)
    BY <1>4, TreeAssumption
  <2> QED BY <1>2, <1>3, <1>4, <2>1 DEF TypeInv, NoRec, NoEntry
<1>6. Index = {}
  BY <1>2 DEF Index
<1>7. Control
  BY <1>4, <1>6 DEF Control
<1>8. RecordsOnce
  <2>1. OnceOnly(rows)
    <3>1. rows \in Seq(Recs) /\ IsInjective(rows)
      BY RowsAssumption, TreeAssumption DEF Init
    <3>2. DOMAIN rows = 1 .. Len(rows)
      BY <3>1
    <3> QED BY <3>1, <3>2 DEF IsInjective, OnceOnly
  <2>2. OnceOnly(todo) /\ ToSet(todo) = {}
    BY <1>4 DEF OnceOnly, ToSet
  <2> QED BY <1>2, <1>4, <2>1, <2>2 DEF RecordsOnce
<1>9. PICK range \in [Block -> SUBSET Vals] : range = [b \in Block |-> Vals]
  OBVIOUS
<1>10. PICK level \in [Block -> Nat] : level = [b \in Block |-> 0]
  OBVIOUS
<1>11. Tree(range, level)
  <2>1. SplitOk(range, level)
    BY <1>4 DEF SplitOk, Splitting
  <2> QED BY <1>2, <1>4, <1>6, <2>1 DEF Tree
<1> QED BY <1>5, <1>7, <1>8, <1>11 DEF IInv

\* Giving back every index block.
LEMMA GivenBack ==
  ASSUME TypeInv, RecordsOnce, NEW S, Index \subseteq S, blk' = Destroy(S),
         root' = -1, pc' = "idle", todo' \in {<<>>, todo}, rows' = rows, at' \in Block \cup {-1},
         rec' \in ToSet(rows) \cup {NoRec},
         up' \in [key : Vals \cup {0}, lChild : Block \cup {-1}, rChild : Block \cup {-1}]
  PROVE  IInv'
<1>1. ASSUME NEW b \in Block
      PROVE  /\ blk'[b] \in Blocks /\ Fits(b)' /\ ~ IsLeaf(b)' /\ ~ IsInternal(b)'
  <2>1. CASE b \in S
    <3>1. blk'[b] = Node("UNUSED_BLK")
      BY <2>1 DEF Destroy
    <3>2. blk'[b] \in Blocks /\ blk'[b].type = "UNUSED_BLK" /\ blk'[b].recs = <<>> /\ blk'[b].keys = <<>> /\ blk'[b].kids = <<>>
      BY <3>1, NodeIs DEF BlockType
    <3> QED BY <3>2, TreeAssumption DEF Fits, IsLeaf, IsInternal
  <2>2. CASE b \notin S
    <3>1. blk'[b] = blk[b]
      BY <2>2 DEF Destroy
    <3>2. ~ IsLeaf(b) /\ ~ IsInternal(b) /\ Fits(b) /\ blk[b] \in Blocks
      BY <2>2 DEF Index, TypeInv
    <3> QED BY <3>1, <3>2 DEF Fits, IsLeaf, IsInternal
  <2> QED BY <2>1, <2>2
<1>2. Index' = {}
  BY <1>1 DEF Index
<1>3. TypeInv'
  <2>1. blk' \in [Block -> Blocks]
    BY <1>1 DEF Destroy
  <2>2. todo' \in Seq(Recs) /\ rows' \in Seq(Recs)
    <3>1. <<>> \in Seq(Recs)
      OBVIOUS
    <3> QED BY <3>1 DEF TypeInv
  <2> QED BY <1>1, <2>1, <2>2 DEF TypeInv
<1>4. Control'
  BY <1>2 DEF Control
<1>5. RecordsOnce'
  <2>1. OnceOnly(<<>>) /\ ToSet(<<>>) = {}
    BY DEF OnceOnly, ToSet
  <2>2. OnceOnly(todo') /\ ToSet(todo') \subseteq ToSet(rows)
    BY <2>1 DEF RecordsOnce
  <2> QED BY <1>1, <2>2 DEF RecordsOnce
<1> QED BY <1>2, <1>3, <1>4, <1>5, NoTree DEF IInv

\* dropIndex releases the whole index.
LEMMA DropIndexOk ==
  ASSUME IInv, DropIndex
  PROVE  IInv'
<1>1. PICK range \in [Block -> SUBSET Vals], level \in [Block -> Nat] : Tree(range, level)
  BY DEF IInv
<1>2. TypeInv /\ Control /\ RecordsOnce
  BY DEF IInv
<1>3. root # -1 /\ pc = "idle" /\ ~ Splitting
  BY DEF DropIndex, Splitting
<1>4. Index \subseteq Subtree(root)
  BY <1>1, <1>2, <1>3, Whole
<1>5. /\ blk' = Destroy(Subtree(root)) /\ root' = -1 /\ pc' = "idle" /\ todo' = todo
      /\ rows' = rows /\ at' = at /\ rec' = rec /\ up' = up
  BY DEF DropIndex
<1>6. /\ at' \in Block \cup {-1} /\ rec' \in ToSet(rows) \cup {NoRec}
      /\ up' \in [key : Vals \cup {0}, lChild : Block \cup {-1}, rChild : Block \cup {-1}]
  BY <1>2, <1>5 DEF TypeInv
<1> QED BY <1>2, <1>3, <1>4, <1>5, <1>6, GivenBack

\* So does an insertion that finds no free block, wherever it stopped.
LEMMA UnwindOk ==
  ASSUME IInv, pc # "idle", NEW S, Splitting => Subtree(up.rChild) \subseteq S,
         Unwind(S), at' = -1, rows' = rows
  PROVE  IInv'
<1>1. PICK range \in [Block -> SUBSET Vals], level \in [Block -> Nat] : Tree(range, level)
  BY DEF IInv
<1>2. TypeInv /\ Control /\ RecordsOnce /\ root # -1
  BY DEF IInv, Control
<1>3. Index \subseteq Subtree(root) \cup S
  BY <1>1, <1>2, Whole
<1>4. /\ blk' = Destroy(Subtree(root) \cup S) /\ root' = -1 /\ pc' = "idle" /\ todo' = <<>>
      /\ rec' = NoRec /\ up' = NoEntry
  BY DEF Unwind
<1> QED BY <1>2, <1>3, <1>4, GivenBack DEF NoEntry

\* The disk gives the free block with the smallest number.
LEMMA NewBlockIs ==
  ASSUME Unused # {}
  PROVE  NewBlock \in Unused
<1>1. Unused \subseteq Nat
  BY TreeAssumption DEF Unused, Block
<1>2. \E n \in Unused : \A m \in Unused : n <= m
  BY <1>1, LeastNumber
<1> QED BY <1>2 DEF NewBlock

-----------------------------------------------------------------------------
(* The steps of the callers, and the way down.                             *)

\* A sequence with one more element, and one with its first removed.
LEMMA AppendTail ==
  ASSUME NEW S, NEW s \in Seq(S)
  PROVE  /\ \A e \in S : /\ Append(s, e) \in Seq(S) /\ ToSet(Append(s, e)) = ToSet(s) \cup {e}
                         /\ OnceOnly(s) /\ e \notin ToSet(s) => OnceOnly(Append(s, e))
         /\ s # <<>> => /\ Tail(s) \in Seq(S) /\ Head(s) \in ToSet(s) /\ Head(s) \in S
                        /\ ToSet(Tail(s)) \subseteq ToSet(s)
                        /\ OnceOnly(s) => OnceOnly(Tail(s)) /\ Head(s) \notin ToSet(Tail(s))
<1>1. ASSUME NEW e \in S
      PROVE  /\ Append(s, e) \in Seq(S) /\ ToSet(Append(s, e)) = ToSet(s) \cup {e}
             /\ OnceOnly(s) /\ e \notin ToSet(s) => OnceOnly(Append(s, e))
  <2>1. /\ Append(s, e) \in Seq(S) /\ Len(Append(s, e)) = Len(s) + 1
        /\ \A i \in 1 .. Len(s) + 1 : Append(s, e)[i] = IF i <= Len(s) THEN s[i] ELSE e
    BY AppendProperties
  <2>2. ToSet(Append(s, e)) = ToSet(s) \cup {e}
    BY <2>1 DEF ToSet
  <2>3. ASSUME OnceOnly(s), e \notin ToSet(s)
        PROVE  OnceOnly(Append(s, e))
    <3>1. \A i \in 1 .. Len(s) : s[i] # e
      BY <2>3 DEF ToSet
    <3>2. ASSUME NEW i \in 1 .. Len(s) + 1, NEW j \in 1 .. Len(s) + 1,
                 Append(s, e)[i] = Append(s, e)[j]
          PROVE  i = j
      <4>1. Len(s) \in Nat
        OBVIOUS
      <4>2. CASE i <= Len(s) /\ j <= Len(s)
        BY <2>1, <2>3, <3>2, <4>1, <4>2 DEF OnceOnly
      <4>3. CASE i = Len(s) + 1 /\ j <= Len(s)
        BY <2>1, <3>1, <3>2, <4>1, <4>3
      <4>4. CASE i <= Len(s) /\ j = Len(s) + 1
        BY <2>1, <3>1, <3>2, <4>1, <4>4
      <4> QED BY <4>1, <4>2, <4>3, <4>4
    <3> QED BY <2>1, <3>2 DEF OnceOnly
  <2> QED BY <2>1, <2>2, <2>3
<1>2. ASSUME s # <<>>
      PROVE  /\ Tail(s) \in Seq(S) /\ Head(s) \in ToSet(s) /\ Head(s) \in S
             /\ ToSet(Tail(s)) \subseteq ToSet(s)
             /\ OnceOnly(s) => OnceOnly(Tail(s)) /\ Head(s) \notin ToSet(Tail(s))
  <2>1. /\ Len(s) \in Nat \ {0} /\ Head(s) = s[1] /\ Head(s) \in S
        /\ Tail(s) \in Seq(S) /\ Len(Tail(s)) = Len(s) - 1
        /\ \A i \in 1 .. Len(s) - 1 : Tail(s)[i] = s[i + 1]
    BY <1>2, HeadTailProperties, LenProperties, EmptySeq
  <2>2. Head(s) \in ToSet(s)
    <3>1. 1 \in DOMAIN s
      BY <2>1
    <3> QED BY <2>1, <3>1 DEF ToSet
  <2>3. ASSUME NEW x \in ToSet(Tail(s))
        PROVE  \E i \in 1 .. Len(s) - 1 : x = Tail(s)[i]
    BY <2>1 DEF ToSet
  <2>4. \A i \in 1 .. Len(s) - 1 : i + 1 \in 1 .. Len(s) /\ i + 1 # 1
    BY <2>1
  <2>5. ToSet(Tail(s)) \subseteq ToSet(s)
    <3>1. ASSUME NEW x \in ToSet(Tail(s))
          PROVE  x \in ToSet(s)
      <4>1. PICK i \in 1 .. Len(s) - 1 : x = Tail(s)[i]
        BY <2>3
      <4>2. x = s[i + 1] /\ i + 1 \in DOMAIN s
        BY <2>1, <2>4, <4>1
      <4> QED BY <4>2 DEF ToSet
    <3> QED BY <3>1
  <2>6. ASSUME OnceOnly(s)
        PROVE  OnceOnly(Tail(s)) /\ Head(s) \notin ToSet(Tail(s))
    <3>1. \A i \in 1 .. Len(s) - 1 : s[i + 1] # s[1]
      BY <2>1, <2>4, <2>6 DEF OnceOnly
    <3>2. Head(s) \notin ToSet(Tail(s))
      BY <2>1, <2>3, <3>1
    <3>3. ASSUME NEW i \in 1 .. Len(s) - 1, NEW j \in 1 .. Len(s) - 1, Tail(s)[i] = Tail(s)[j]
          PROVE  i = j
      <4>1. s[i + 1] = s[j + 1]
        BY <2>1, <3>3
      <4>2. i + 1 = j + 1
        BY <2>4, <2>6, <4>1 DEF OnceOnly
      <4> QED BY <4>2
    <3> QED BY <2>1, <3>2, <3>3 DEF OnceOnly
  <2> QED BY <2>1, <2>2, <2>5, <2>6
<1> QED BY <1>1, <1>2

\* A record is stored; the insertion into the index is still to come.
LEMMA InsertOk ==
  ASSUME IInv, NEW r \in NewRecs, Insert(r)
  PROVE  IInv'
<1>1. PICK range \in [Block -> SUBSET Vals], level \in [Block -> Nat] : Tree(range, level)
  BY DEF IInv
<1>2. TypeInv /\ Control /\ RecordsOnce
  BY DEF IInv
<1>3. /\ pc = "idle" /\ r \in Recs /\ r \notin ToSet(rows) /\ rows' = Append(rows, r)
      /\ IF root = -1 THEN pc' = pc /\ todo' = todo ELSE pc' = "next" /\ todo' = <<r>>
      /\ blk' = blk /\ root' = root /\ rec' = rec /\ at' = at /\ up' = up
  BY TreeAssumption DEF Insert
<1>4. /\ rows' \in Seq(Recs) /\ ToSet(rows') = ToSet(rows) \cup {r} /\ OnceOnly(rows')
  BY <1>2, <1>3, AppendTail DEF TypeInv, RecordsOnce
<1>5. /\ \A b : (IsLeaf(b)' <=> IsLeaf(b)) /\ (IsInternal(b)' <=> IsInternal(b)) /\ (Fits(b)' <=> Fits(b))
      /\ Index' = Index
  BY <1>3 DEF IsLeaf, IsInternal, Fits, Index
<1>6. todo' \in Seq(Recs) /\ OnceOnly(todo') /\ ToSet(todo') \subseteq ToSet(rows')
      /\ ToSet(todo') \subseteq ToSet(todo) \cup {r} /\ (pc' # "idle" => todo' # <<>>)
  <2>1. <<r>> \in Seq(Recs) /\ OnceOnly(<<r>>) /\ ToSet(<<r>>) = {r} /\ <<r>> # <<>>
    BY <1>3 DEF OnceOnly, ToSet
  <2> QED BY <1>2, <1>3, <1>4, <2>1 DEF TypeInv, RecordsOnce
<1>7. TypeInv'
  BY <1>2, <1>3, <1>4, <1>5, <1>6 DEF TypeInv
<1>8. Control'
  BY <1>2, <1>3, <1>5, <1>6 DEF Control
<1>9. RecordsOnce'
  <2>1. pc' # "find" /\ pc # "find"
    BY <1>3
  <2>2. Waiting' = ToSet(todo') /\ Waiting = ToSet(todo)
    BY <2>1 DEF Waiting
  <2>3. ASSUME NEW b \in Block, IsLeaf(b)
        PROVE  ToSet(blk[b].recs) \subseteq ToSet(rows') \ ToSet(todo')
    <3>1. ToSet(blk[b].recs) \subseteq ToSet(rows) \ ToSet(todo)
      BY <1>2, <2>2, <2>3 DEF RecordsOnce
    <3> QED BY <1>3, <1>4, <1>6, <3>1
  <2> QED BY <1>3, <1>4, <1>5, <1>6, <2>1, <2>2, <2>3 DEF RecordsOnce
<1>10. Tree(range, level)'
  <2>1. ~ Splitting /\ ~ Splitting' /\ pc' # "find"
    BY <1>3 DEF Splitting
  <2> QED BY <1>1, <1>3, <2>1, SameTree
<1> QED BY <1>7, <1>8, <1>9, <1>10 DEF IInv

\* The index starts as one empty leaf.
LEMMA CreateIndexOk ==
  ASSUME IInv, CreateIndex
  PROVE  IInv'
<1>1. TypeInv /\ Control /\ RecordsOnce
  BY DEF IInv
<1>2. PICK n \in Unused : n = NewBlock
  BY NewBlockIs DEF CreateIndex
<1>3. /\ pc = "idle" /\ root = -1 /\ Unused # {} /\ blk' = [blk EXCEPT ![n] = Node("IND_LEAF")]
      /\ root' = n /\ todo' = rows /\ pc' = (IF rows = <<>> THEN "idle" ELSE "next")
      /\ rows' = rows /\ rec' = rec /\ at' = at /\ up' = up
  BY <1>2 DEF CreateIndex
<1>4. n \in Block /\ n # -1
  BY <1>2, TreeAssumption DEF Unused, Block
<1>5. Index = {}
  BY <1>1, <1>3 DEF Control
<1>6. /\ \A b \in Block \ {n} : blk'[b] = blk[b]
      /\ blk'[n] = Node("IND_LEAF") /\ Node("IND_LEAF") \in Blocks
      /\ blk'[n].type = "IND_LEAF" /\ blk'[n].recs = <<>> /\ blk'[n].keys = <<>> /\ blk'[n].kids = <<>>
      /\ blk'[n].pblock = -1
  <2>1. "IND_LEAF" \in BlockType
    BY DEF BlockType
  <2>2. Node("IND_LEAF").pblock = -1
    BY DEF Node
  <2> QED BY <1>1, <1>3, <1>4, <2>1, <2>2, NodeIs DEF TypeInv
<1>7. \A b \in Block : /\ IsLeaf(b)' <=> b = n
                       /\ ~ IsInternal(b)' /\ Fits(b)'
  <2> TAKE b \in Block
  <2>1. CASE b = n
    BY <1>6, <2>1, TreeAssumption DEF IsLeaf, IsInternal, Fits
  <2>2. CASE b # n
    <3>1. blk'[b] = blk[b] /\ b \notin Index /\ Fits(b)
      BY <1>1, <1>5, <1>6, <2>2 DEF TypeInv
    <3> QED BY <2>2, <3>1 DEF Index, IsLeaf, IsInternal, Fits
  <2> QED BY <2>1, <2>2
<1>8. Index' = {n}
  BY <1>4, <1>7 DEF Index
<1>9. TypeInv'
  <2>1. blk' \in [Block -> Blocks]
    BY <1>1, <1>3, <1>4, <1>6 DEF TypeInv
  <2> QED BY <1>1, <1>3, <1>4, <1>7, <2>1 DEF TypeInv
<1>10. Control'
  BY <1>3, <1>4, <1>6, <1>8 DEF Control
<1>11. RecordsOnce'
  <2>1. ToSet(<<>>) = {}
    BY DEF ToSet
  <2> QED BY <1>1, <1>3, <1>6, <1>7, <2>1 DEF RecordsOnce
<1>12. PICK range \in [Block -> SUBSET Vals] : range = [b \in Block |-> Vals]
  OBVIOUS
<1>13. PICK level \in [Block -> Nat] : level = [b \in Block |-> 0]
  OBVIOUS
<1>14. Tree(range, level)'
  <2>1. ~ Splitting'
    BY <1>3 DEF Splitting
  <2>2. LeafOk(n, range, level)'
    <3>1. level[n] = 0 /\ 1 .. Len(blk'[n].recs) = {}
      BY <1>4, <1>6, <1>13
    <3> QED BY <3>1 DEF LeafOk
  <2>3. SplitOk(range, level)'
    BY <2>1 DEF SplitOk
  <2>4. range[root'] = Cut(root)'
    BY <1>3, <1>4, <1>12, <2>1 DEF Cut
  <2>5. n \in Roots' /\ pc' # "find"
    BY <1>3 DEF Roots
  <2>6. \A b \in Block : IsLeaf(b)' => LeafOk(b, range, level)'
    BY <1>7, <2>2
  <2> QED BY <1>3, <1>4, <1>7, <1>8, <2>3, <2>4, <2>5, <2>6 DEF Tree
<1> QED BY <1>9, <1>10, <1>11, <1>14 DEF IInv

\* The next record starts at the root.
LEMMA bPlusInsertOk ==
  ASSUME IInv, bPlusInsert
  PROVE  IInv'
<1>1. PICK range \in [Block -> SUBSET Vals], level \in [Block -> Nat] : Tree(range, level)
  BY DEF IInv
<1>2. TypeInv /\ Control /\ RecordsOnce
  BY DEF IInv
<1>3. /\ pc = "next" /\ pc' = "find" /\ rec' = Head(todo) /\ todo' = Tail(todo) /\ at' = root
      /\ blk' = blk /\ root' = root /\ rows' = rows /\ up' = up
  BY DEF bPlusInsert
<1>4. root # -1 /\ todo # <<>>
  BY <1>2, <1>3 DEF Control
<1>5. /\ todo' \in Seq(Recs) /\ rec' \in ToSet(todo) /\ rec' \in Recs /\ ToSet(todo') \subseteq ToSet(todo)
      /\ OnceOnly(todo') /\ rec' \notin ToSet(todo')
  BY <1>2, <1>3, <1>4, AppendTail DEF TypeInv, RecordsOnce
<1>6. /\ \A b : (IsLeaf(b)' <=> IsLeaf(b)) /\ (IsInternal(b)' <=> IsInternal(b)) /\ (Fits(b)' <=> Fits(b))
      /\ Index' = Index
  BY <1>3 DEF IsLeaf, IsInternal, Fits, Index
<1>7. TypeInv'
  BY <1>2, <1>3, <1>5, <1>6 DEF TypeInv, RecordsOnce
<1>8. Control'
  <2>1. rec' # NoRec
    BY <1>5, Values DEF NoRec
  <2> QED BY <1>2, <1>3, <1>4, <1>6, <2>1 DEF Control
<1>9. RecordsOnce'
  <2>1. Waiting' \subseteq Waiting
    BY <1>3, <1>5 DEF Waiting
  <2> QED BY <1>2, <1>3, <1>5, <1>6, <2>1 DEF RecordsOnce
<1>10. Tree(range, level)'
  <2>1. ~ Splitting /\ ~ Splitting'
    BY <1>3 DEF Splitting
  <2>2. range[root] = Vals
    BY <1>1, <1>4, <2>1 DEF Tree, Cut
  <2>3. ValOf[rec'] \in range[at']
    BY <1>3, <1>5, <2>2, Values
  <2> QED BY <1>1, <1>3, <2>1, <2>3, SameTree
<1> QED BY <1>7, <1>8, <1>9, <1>10 DEF IInv

\* The way down stays among the blocks whose values include the record's.
LEMMA findLeafToInsertOk ==
  ASSUME IInv, findLeafToInsert
  PROVE  IInv'
<1>1. PICK range \in [Block -> SUBSET Vals], level \in [Block -> Nat] : Tree(range, level)
  BY DEF IInv
<1>2. TypeInv /\ Control /\ RecordsOnce
  BY DEF IInv
<1>3. PICK i : i = FirstIndex(blk[at].keys, LAMBDA k : ValOf[rec] <= k)
  OBVIOUS
<1>4. /\ pc = "find" /\ IsInternal(at) /\ at' = blk[at].kids[i]
      /\ blk' = blk /\ root' = root /\ rows' = rows /\ pc' = pc /\ todo' = todo /\ rec' = rec /\ up' = up
  BY <1>3 DEF findLeafToInsert
<1>5. /\ at \in Block /\ rec \in Recs /\ ValOf[rec] \in Vals /\ blk[at].keys \in Seq(Vals)
      /\ blk[at].kids \in Seq(Block) /\ Len(blk[at].kids) = Len(blk[at].keys) + 1
      /\ ~ Splitting /\ ValOf[rec] \in range[at]
  <2>1. at \in Block /\ rec # NoRec
    BY <1>2, <1>4 DEF Control, Index
  <2>2. rec \in Recs
    BY <1>2, <2>1, ToSetIs DEF TypeInv
  <2> QED BY <1>1, <1>2, <1>4, <2>1, <2>2, Values DEF TypeInv, Blocks, Fits, Splitting, Tree
<1>6. /\ i \in 1 .. Len(blk[at].kids)
      /\ i <= Len(blk[at].keys) => ValOf[rec] <= blk[at].keys[i]
      /\ i > 1 => blk[at].keys[i - 1] < ValOf[rec]
  <2>1. /\ i \in 1 .. Len(blk[at].keys) + 1
        /\ i <= Len(blk[at].keys) => ValOf[rec] <= blk[at].keys[i]
        /\ \A j \in 1 .. i - 1 : blk[at].keys[j] < ValOf[rec]
    BY <1>3, <1>5, DownIs
  <2>2. Len(blk[at].keys) \in Nat
    BY <1>5, LenProperties
  <2>3. i > 1 => i - 1 \in 1 .. i - 1
    BY <2>1, <2>2
  <2> QED BY <1>5, <2>1, <2>3
<1>7. at' \in Index /\ range[at'] = Slice(range[at], blk[at].keys, i)
  <2>1. InternalOk(at, range, level)
    BY <1>1, <1>4, <1>5 DEF Tree
  <2>2. Cut(at') = Vals /\ range[at'] \subseteq Vals /\ range[at] \subseteq Vals
    <3>1. at' \in Index
      BY <1>4, <1>6, <2>1 DEF InternalOk, ChildOk
    <3>2. at' \in Block
      BY <3>1 DEF Index
    <3> QED BY <1>5, <3>2 DEF Cut
  <2>3. Slice(range[at], blk[at].keys, i) \subseteq range[at]
    BY DEF Slice
  <2>4. range[at'] = Slice(range[at], blk[at].keys, i) \cap Cut(at') /\ at' \in Index
    BY <1>4, <1>6, <2>1 DEF InternalOk, ChildOk
  <2> QED BY <2>2, <2>3, <2>4
<1>8. ValOf[rec] \in range[at']
  BY <1>5, <1>6, <1>7 DEF Slice
<1>9. /\ \A b : (IsLeaf(b)' <=> IsLeaf(b)) /\ (IsInternal(b)' <=> IsInternal(b)) /\ (Fits(b)' <=> Fits(b))
      /\ Index' = Index
  BY <1>4 DEF IsLeaf, IsInternal, Fits, Index
<1>10. TypeInv' /\ Control' /\ RecordsOnce'
  <2>1. TypeInv'
    BY <1>2, <1>4, <1>7, <1>9 DEF TypeInv, Index
  <2>2. Control'
    BY <1>2, <1>4, <1>7, <1>9 DEF Control
  <2>3. Waiting' = Waiting
    BY <1>4 DEF Waiting
  <2>4. RecordsOnce'
    BY <1>2, <1>4, <1>9, <2>3 DEF RecordsOnce
  <2> QED BY <2>1, <2>2, <2>4
<1>11. Tree(range, level)'
  <2>1. ~ Splitting'
    BY <1>4 DEF Splitting
  <2> QED BY <1>1, <1>4, <1>5, <1>8, <2>1, SameTree
<1> QED BY <1>10, <1>11 DEF IInv

\* What makes an internal block of the next state a good one.
LEMMA InternalOkNext ==
  ASSUME NEW b, NEW range, NEW level, NEW keys, NEW kids,
         blk'[b].keys = keys, blk'[b].kids = kids,
         Ascend(keys), ToSet(keys) \subseteq range[b], OnceOnly(kids),
         \A i \in 1 .. Len(kids) : ChildOk(b, kids[i], range, level, Slice(range[b], keys, i))'
  PROVE  InternalOk(b, range, level)'
BY DEF InternalOk

\* the values a split leaves to the left half, and those it moves to the right
Low(R, m)  == {v \in R : v <= m}
High(R, m) == {v \in R : v > m}

-----------------------------------------------------------------------------
(* A record goes into a leaf.                                              *)

Rising(recs) == \A i, j \in 1 .. Len(recs) : i < j => ValOf[recs[i]] < ValOf[recs[j]]

\* the values of the records before place i are smaller than that of r, the
\* others larger
RightPlace(recs, i, r) ==
  \A j \in 1 .. Len(recs) : /\ j < i => ValOf[recs[j]] < ValOf[r]
                            /\ j >= i => ValOf[r] < ValOf[recs[j]]

\* Place i is the right one for a record with a value of its own.
LEMMA RisingInsert ==
  ASSUME Distinct, NEW recs \in Seq(Recs), Rising(recs), NEW r \in Recs, r \notin ToSet(recs),
         NEW i, i = FirstIndex(recs, LAMBDA s : ValOf[s] > ValOf[r])
  PROVE  i \in 1 .. Len(recs) + 1 /\ RightPlace(recs, i, r)
<1>1. /\ i \in 1 .. Len(recs) + 1
      /\ i <= Len(recs) => ValOf[recs[i]] > ValOf[r]
      /\ \A j \in 1 .. i - 1 : ValOf[recs[j]] <= ValOf[r]
  BY LeafPlaceIs
<1>2. Len(recs) \in Nat /\ \A j \in 1 .. Len(recs) : recs[j] \in Recs /\ recs[j] # r
  <2>1. \A j \in 1 .. Len(recs) : recs[j] \in ToSet(recs)
    BY ToSetIs
  <2>2. \A j \in 1 .. Len(recs) : recs[j] \in Recs
    BY ElementOfSeq
  <2> QED BY <2>1, <2>2, LenProperties
<1>3. ValOf[r] \in Nat /\ \A j \in 1 .. Len(recs) : ValOf[recs[j]] \in Nat /\ ValOf[recs[j]] # ValOf[r]
  BY <1>2, Values DEF Distinct
<1>4. ASSUME NEW j \in 1 .. Len(recs), j < i
      PROVE  ValOf[recs[j]] < ValOf[r]
  <2>1. j \in 1 .. i - 1
    BY <1>1, <1>2, <1>4
  <2>2. ValOf[recs[j]] <= ValOf[r] /\ ValOf[recs[j]] # ValOf[r]
    BY <1>1, <1>3, <2>1
  <2> QED BY <1>3, <2>2
<1>5. ASSUME NEW j \in 1 .. Len(recs), j >= i
      PROVE  ValOf[r] < ValOf[recs[j]]
  <2>1. i \in 1 .. Len(recs) /\ i <= Len(recs)
    BY <1>1, <1>2, <1>5
  <2>2. ValOf[recs[i]] > ValOf[r] /\ ValOf[recs[i]] \in Nat /\ ValOf[recs[j]] \in Nat
    BY <1>1, <1>3, <2>1
  <2>3. j = i \/ ValOf[recs[i]] < ValOf[recs[j]]
    BY <1>5, <2>1 DEF Rising
  <2> QED BY <1>3, <2>2, <2>3
<1> QED BY <1>1, <1>4, <1>5 DEF RightPlace

\* The entries of a leaf with one more at place i.
LEMMA RisingEntries ==
  ASSUME NEW recs \in Seq(Recs), Rising(recs), NEW r \in Recs, r \notin ToSet(recs),
         NEW i \in 1 .. Len(recs) + 1, RightPlace(recs, i, r),
         NEW e \in Seq(Recs), Inserted(e, recs, i, r)
  PROVE  Rising(e) /\ \A j \in 1 .. Len(e) : e[j] = r \/ e[j] \in ToSet(recs)
<1> USE DEF RightPlace
<1>1. /\ Len(recs) \in Nat /\ Len(e) = Len(recs) + 1
      /\ \A j \in 1 .. Len(recs) + 1 : e[j] = IF j < i THEN recs[j] ELSE IF j = i THEN r ELSE recs[j - 1]
  BY LenProperties DEF Inserted
<1>2. ASSUME NEW a \in 1 .. Len(recs) + 1, NEW b \in 1 .. Len(recs) + 1, a < b
      PROVE  ValOf[e[a]] < ValOf[e[b]]
  <2>1. CASE b < i
    <3>1. a \in 1 .. Len(recs) /\ b \in 1 .. Len(recs) /\ a < i
      BY <1>1, <1>2, <2>1
    <3> QED BY <1>1, <1>2, <2>1, <3>1 DEF Rising
  <2>2. CASE b = i
    <3>1. a \in 1 .. Len(recs) /\ a < i
      BY <1>1, <1>2, <2>2
    <3> QED BY <1>1, <2>2, <3>1
  <2>3. CASE b > i
    <3>1. b - 1 \in 1 .. Len(recs) /\ b - 1 >= i /\ e[b] = recs[b - 1]
      BY <1>1, <2>3
    <3>2. CASE a < i
      <4>1. a \in 1 .. Len(recs) /\ a < b - 1
        BY <1>1, <2>3, <3>2
      <4> QED BY <1>1, <3>1, <3>2, <4>1 DEF Rising
    <3>3. CASE a = i
      BY <1>1, <3>1, <3>3
    <3>4. CASE a > i
      <4>1. a - 1 \in 1 .. Len(recs) /\ a - 1 < b - 1 /\ e[a] = recs[a - 1]
        BY <1>1, <1>2, <3>4
      <4> QED BY <3>1, <4>1 DEF Rising
    <3> QED BY <1>1, <3>2, <3>3, <3>4
  <2> QED BY <1>1, <2>1, <2>2, <2>3
<1>3. ASSUME NEW j \in 1 .. Len(recs) + 1
      PROVE  e[j] = r \/ e[j] \in ToSet(recs)
  <2>1. \A k \in 1 .. Len(recs) : recs[k] \in ToSet(recs)
    BY ToSetIs
  <2>2. j < i => j \in 1 .. Len(recs)
    BY <1>1
  <2>3. j > i => j - 1 \in 1 .. Len(recs)
    BY <1>1
  <2>4. j < i \/ j = i \/ j > i
    BY <1>1
  <2> QED BY <1>1, <2>1, <2>2, <2>3, <2>4
<1> QED BY <1>1, <1>2, <1>3 DEF Rising

\* What insertIntoLeaf is about to store.
LEMMA Entries ==
  ASSUME Distinct, TypeInv, Control, RecordsOnce, NEW range, NEW level, Tree(range, level),
         pc = "find", IsLeaf(at),
         NEW i, i = FirstIndex(blk[at].recs, LAMBDA r : ValOf[r] > ValOf[rec]),
         NEW e, e = InsertAt(blk[at].recs, i, rec)
  PROVE  /\ at \in Block /\ rec \in Recs /\ e \in Seq(Recs) /\ Len(e) = Len(blk[at].recs) + 1
         /\ Rising(e) /\ \A j \in 1 .. Len(e) : /\ ValOf[e[j]] \in range[at]
                                                /\ e[j] \in ToSet(rows) \ ToSet(todo)
<1>1. at \in Index /\ at \in Block /\ rec \in ToSet(rows) /\ rec \in Recs
  <2>1. at \in Index /\ at \in Block /\ rec # NoRec
    BY DEF Control, Index
  <2> QED BY <2>1, ToSetIs DEF TypeInv
<1>2. /\ LeafOk(at, range, level) /\ ValOf[rec] \in range[at]
  BY <1>1 DEF Tree
<1>3. blk[at].recs \in Seq(Recs) /\ Rising(blk[at].recs)
  BY <1>1, <1>2 DEF TypeInv, Blocks, LeafOk, Rising
<1>4. ToSet(blk[at].recs) \subseteq ToSet(rows) \ Waiting
  BY <1>1 DEF RecordsOnce
<1>5. rec \notin ToSet(blk[at].recs) /\ rec \notin ToSet(todo) /\ ToSet(todo) \subseteq Waiting
  BY <1>4 DEF Waiting, RecordsOnce
<1>6. i \in 1 .. Len(blk[at].recs) + 1 /\ RightPlace(blk[at].recs, i, rec)
  BY <1>1, <1>3, <1>5, RisingInsert
<1>7. e \in Seq(Recs) /\ Inserted(e, blk[at].recs, i, rec)
  BY <1>1, <1>3, <1>6, InsertAtIs
<1>8. Rising(e) /\ \A j \in 1 .. Len(e) : e[j] = rec \/ e[j] \in ToSet(blk[at].recs)
  BY <1>1, <1>3, <1>5, <1>6, <1>7, RisingEntries
<1>9. \A r \in ToSet(blk[at].recs) : ValOf[r] \in range[at]
  BY <1>2, <1>3, ToSetIs DEF LeafOk
<1> QED BY <1>1, <1>2, <1>4, <1>5, <1>7, <1>8, <1>9 DEF Inserted

\* The middle of a leaf that is full.
LEMMA LeafHalf ==
  /\ (MAX_KEYS_LEAF + 1) \div 2 \in Nat \ {0}
  /\ 2 * ((MAX_KEYS_LEAF + 1) \div 2) = MAX_KEYS_LEAF + 1
BY TreeAssumption

\* recs holds records whose values are in R, in the order of these values
Stores(recs, R) == Rising(recs) /\ \A j \in 1 .. Len(recs) : ValOf[recs[j]] \in R

\* lo and hi are the halves of e, and divide R behind the value of entry h
Halved(e, h, R, lo, hi) ==
  /\ lo \in Seq(Recs) /\ Len(lo) = h /\ ToSet(lo) \subseteq ToSet(e)
  /\ hi \in Seq(Recs) /\ Len(hi) = h /\ ToSet(hi) \subseteq ToSet(e)
  /\ Stores(lo, Low(R, ValOf[e[h]])) /\ Stores(hi, High(R, ValOf[e[h]]))
  /\ ValOf[e[h]] \in R /\ High(R, ValOf[e[h]]) # {}

\* The places of 2 * h entries, of which each half has h.
LEMMA HalfPlaces ==
  ASSUME NEW h \in Nat \ {0}
  PROVE  /\ h \in 1 .. 2 * h /\ 1 \in 1 .. h
         /\ \A j \in 1 .. h : /\ j \in 1 .. 2 * h /\ (j < h \/ j = h)
                             /\ h + j \in 1 .. 2 * h /\ h + j > h
OBVIOUS

\* Numbers that are smaller or equal are not larger.
LEMMA AtMost == \A u, v \in Nat : u < v \/ u = v => u <= v
OBVIOUS

\* The halves of a full leaf divide its values behind the middle entry.
LEMMA RisingHalves ==
  ASSUME NEW R \in SUBSET Vals, NEW h \in Nat \ {0}, NEW e \in Seq(Recs), Len(e) = 2 * h,
         Stores(e, R), NEW lo \in Seq(Recs), NEW hi \in Seq(Recs), Halves(lo, hi, e, h)
  PROVE  Halved(e, h, R, lo, hi)
<1>0. Rising(e) /\ \A j \in 1 .. 2 * h : ValOf[e[j]] \in R
  BY DEF Stores
<1>1. h \in 1 .. 2 * h /\ \A j \in 1 .. 2 * h : ValOf[e[j]] \in R /\ ValOf[e[j]] \in Nat
  <2>1. \A v \in R : v \in Nat
    BY Values
  <2> QED BY <1>0, <2>1, HalfPlaces
<1>2. \A j \in 1 .. 2 * h : /\ j < h => ValOf[e[j]] < ValOf[e[h]]
                            /\ j > h => ValOf[e[h]] < ValOf[e[j]]
  BY <1>0, <1>1 DEF Rising
<1>3. Len(lo) = h /\ \A j \in 1 .. h : lo[j] = e[j]
  BY DEF Halves
<1>4. Len(hi) = h /\ \A j \in 1 .. h : hi[j] = e[h + j]
  BY DEF Halves
<1>5. ToSet(lo) \subseteq ToSet(e) /\ ToSet(hi) \subseteq ToSet(e)
  <2>1. DOMAIN lo = 1 .. h /\ DOMAIN hi = 1 .. h /\ DOMAIN e = 1 .. 2 * h
    BY <1>3, <1>4
  <2>2. \A j \in 1 .. h : j \in 1 .. 2 * h /\ h + j \in 1 .. 2 * h
    BY HalfPlaces
  <2>3. \A j \in 1 .. h : lo[j] \in {e[i] : i \in 1 .. 2 * h} /\ hi[j] \in {e[i] : i \in 1 .. 2 * h}
    BY <1>3, <1>4, <2>2
  <2>4. ToSet(lo) = {lo[j] : j \in 1 .. h} /\ ToSet(hi) = {hi[j] : j \in 1 .. h} /\ ToSet(e) = {e[i] : i \in 1 .. 2 * h}
    BY <2>1 DEF ToSet
  <2> QED BY <2>3, <2>4
<1>6. Stores(lo, Low(R, ValOf[e[h]]))
  <2>1. Rising(lo)
    <3>1. ASSUME NEW i \in 1 .. h, NEW j \in 1 .. h, i < j
          PROVE  ValOf[lo[i]] < ValOf[lo[j]]
      <4>1. i \in 1 .. 2 * h /\ j \in 1 .. 2 * h
        BY HalfPlaces
      <4>2. ValOf[e[i]] < ValOf[e[j]]
        BY <1>0, <3>1, <4>1 DEF Rising
      <4> QED BY <1>3, <4>2
    <3> QED BY <1>3, <3>1 DEF Rising
  <2>2. ASSUME NEW j \in 1 .. h
        PROVE  ValOf[lo[j]] \in Low(R, ValOf[e[h]])
    <3>1. j \in 1 .. 2 * h /\ (j < h \/ j = h)
      BY HalfPlaces
    <3>2. ValOf[e[j]] \in R /\ ValOf[e[j]] \in Nat /\ ValOf[e[h]] \in Nat
          /\ (ValOf[e[j]] < ValOf[e[h]] \/ ValOf[e[j]] = ValOf[e[h]])
      BY <1>1, <1>2, <3>1
    <3>3. ValOf[e[j]] <= ValOf[e[h]]
      BY <3>2, AtMost
    <3>4. ValOf[e[j]] \in Low(R, ValOf[e[h]])
      BY <3>2, <3>3 DEF Low
    <3>5. lo[j] = e[j]
      BY <1>3
    <3> QED BY <3>4, <3>5
  <2> QED BY <1>3, <2>1, <2>2 DEF Stores
<1>7. \A j \in 1 .. h : ValOf[hi[j]] \in High(R, ValOf[e[h]])
  <2> TAKE j \in 1 .. h
  <2>1. h + j \in 1 .. 2 * h /\ h + j > h
    BY HalfPlaces
  <2>2. ValOf[e[h + j]] \in R /\ ValOf[e[h + j]] \in Nat /\ ValOf[e[h]] \in Nat
        /\ ValOf[e[h]] < ValOf[e[h + j]]
    BY <1>1, <1>2, <2>1
  <2>3. ValOf[e[h + j]] \in High(R, ValOf[e[h]])
    BY <2>2 DEF High
  <2>4. hi[j] = e[h + j]
    BY <1>4
  <2> QED BY <2>3, <2>4
<1>8. Rising(hi)
  <2>1. ASSUME NEW i \in 1 .. h, NEW j \in 1 .. h, i < j
        PROVE  ValOf[hi[i]] < ValOf[hi[j]]
    <3>1. h + i \in 1 .. 2 * h /\ h + j \in 1 .. 2 * h
      BY HalfPlaces
    <3>2. h + i < h + j
      BY <2>1
    <3>3. ValOf[e[h + i]] < ValOf[e[h + j]]
      BY <1>0, <3>1, <3>2 DEF Rising
    <3> QED BY <1>4, <3>3
  <2> QED BY <1>4, <2>1 DEF Rising
<1>9. High(R, ValOf[e[h]]) # {}
  <2>1. 1 \in 1 .. h
    BY HalfPlaces
  <2> QED BY <1>7, <2>1
<1>10. Stores(hi, High(R, ValOf[e[h]]))
  BY <1>4, <1>7, <1>8 DEF Stores
<1> QED BY <1>1, <1>3, <1>4, <1>5, <1>6, <1>9, <1>10 DEF Halved

\* lo stays in leaf b, hi is in the new leaf n beside it
LeafCut(new, b, n, lo, hi) ==
  /\ \A c \in Block \ {b, n} : new[c] = blk[c]
  /\ new[b].type = blk[b].type /\ new[b].pblock = blk[b].pblock /\ new[b].recs = lo
  /\ new[b].keys = blk[b].keys /\ new[b].kids = blk[b].kids
  /\ new[n].type = "IND_LEAF" /\ new[n].pblock = blk[b].pblock /\ new[n].recs = hi
  /\ new[n].keys = <<>> /\ new[n].kids = <<>>
  /\ new[b].rblock = n /\ new[n].rblock = blk[b].rblock

\* splitLeaf changes two blocks only.
LEMMA splitLeafIs ==
  ASSUME TypeInv, NEW b \in Block, NEW n \in Block, b # n, NEW e,
         NEW lo \in Seq(Recs), lo = SubSeq(e, 1, (MAX_KEYS_LEAF + 1) \div 2),
         NEW hi \in Seq(Recs), hi = SubSeq(e, (MAX_KEYS_LEAF + 1) \div 2 + 1, 2 * ((MAX_KEYS_LEAF + 1) \div 2)),
         NEW new, new = splitLeaf(b, n, e)
  PROVE  new \in [Block -> Blocks] /\ LeafCut(new, b, n, lo, hi)
<1>1. blk \in [Block -> Blocks] /\ blk[b] \in Blocks
  BY DEF TypeInv
<1> DEFINE left  == [blk[b] EXCEPT !.recs = lo, !.rblock = n]
           right == [Node("IND_LEAF") EXCEPT !.recs = hi, !.pblock = blk[b].pblock,
                                             !.lblock = b, !.rblock = blk[b].rblock]
<1>2. new = [blk EXCEPT ![b].recs = lo, ![b].rblock = n, ![n] = right]
  BY DEF splitLeaf
<1>3. /\ left \in Blocks /\ left.type = blk[b].type /\ left.pblock = blk[b].pblock /\ left.recs = lo
      /\ left.keys = blk[b].keys /\ left.kids = blk[b].kids /\ left.rblock = n
  BY <1>1 DEF Blocks
<1>4. /\ right \in Blocks /\ right.type = "IND_LEAF" /\ right.pblock = blk[b].pblock
      /\ right.recs = hi /\ right.keys = <<>> /\ right.kids = <<>> /\ right.rblock = blk[b].rblock
  <2>1. Node("IND_LEAF") \in Blocks /\ Node("IND_LEAF").type = "IND_LEAF"
        /\ Node("IND_LEAF").keys = <<>> /\ Node("IND_LEAF").kids = <<>>
    BY NodeIs DEF BlockType
  <2> QED BY <1>1, <2>1 DEF Blocks
<1>5. new[b] = left /\ new[n] = right /\ \A c \in Block \ {b, n} : new[c] = blk[c]
  <2> HIDE DEF right
  <2> QED BY <1>1, <1>2
<1>6. new \in [Block -> Blocks]
  <2> HIDE DEF left, right
  <2>1. DOMAIN new = Block
    BY <1>1, <1>2
  <2>2. \A c \in Block : new[c] \in Blocks
    BY <1>1, <1>3, <1>4, <1>5
  <2>3. new = [c \in Block |-> new[c]]
    BY <1>1, <1>2
  <2> QED BY <2>2, <2>3
<1> QED BY <1>3, <1>4, <1>5, <1>6 DEF LeafCut

\* A leaf with room takes the entry.
LEMMA LeafFitsOk ==
  ASSUME Distinct, IInv, pc = "find", IsLeaf(at), NEW e \in Seq(Recs),
         \A range, level : Tree(range, level) => Stores(e, range[at]),
         ToSet(e) \subseteq ToSet(rows) \ ToSet(todo), Len(e) <= MAX_KEYS_LEAF,
         blk' = [blk EXCEPT ![at].recs = e], Return, at' = -1, UNCHANGED <<root, todo, up, rows>>
  PROVE  IInv'
<1>1. PICK range \in [Block -> SUBSET Vals], level \in [Block -> Nat] : Tree(range, level)
  BY DEF IInv
<1>2. TypeInv /\ Control /\ RecordsOnce
  BY DEF IInv
<1>3. PICK b \in Block : b = at
  BY <1>2 DEF Control, Index
<1>4. /\ root' = root /\ todo' = todo /\ up' = up /\ rows' = rows /\ rec' = NoRec
      /\ pc' = (IF todo = <<>> THEN "idle" ELSE "next") /\ root # -1
  BY <1>2 DEF Return, Control
<1>5. /\ \A c \in Block \ {b} : blk'[c] = blk[c]
      /\ blk'[b] = [blk[b] EXCEPT !.recs = e] /\ blk' \in [Block -> Blocks]
      /\ blk'[b].recs = e /\ blk'[b].keys = blk[b].keys /\ blk'[b].kids = blk[b].kids
      /\ blk'[b].type = blk[b].type /\ blk'[b].pblock = blk[b].pblock
  <2>1. blk[b] \in Blocks /\ blk \in [Block -> Blocks]
    BY <1>2 DEF TypeInv
  <2>2. blk' = [blk EXCEPT ![b] = [blk[b] EXCEPT !.recs = e]] /\ [blk[b] EXCEPT !.recs = e] \in Blocks
    BY <1>3, <2>1 DEF Blocks
  <2>3. /\ \A c \in Block \ {b} : blk'[c] = blk[c]
        /\ blk'[b] = [blk[b] EXCEPT !.recs = e] /\ blk' \in [Block -> Blocks]
    BY <2>1, <2>2
  <2> QED BY <2>1, <2>3 DEF Blocks
<1>6. \A c \in Block : /\ blk'[c].type = blk[c].type /\ blk'[c].pblock = blk[c].pblock
                       /\ blk'[c].keys = blk[c].keys /\ blk'[c].kids = blk[c].kids
                       /\ (IsLeaf(c)' <=> IsLeaf(c)) /\ (IsInternal(c)' <=> IsInternal(c))
  <2>1. \A c \in Block : /\ blk'[c].type = blk[c].type /\ blk'[c].pblock = blk[c].pblock
                         /\ blk'[c].keys = blk[c].keys /\ blk'[c].kids = blk[c].kids
    BY <1>5
  <2> QED BY <2>1 DEF IsLeaf, IsInternal
<1>7. Index' = Index /\ ~ Splitting /\ ~ Splitting'
  BY <1>4, <1>6 DEF Index, Splitting
<1>8. TypeInv'
  <2>1. \A c \in Block : Fits(c)'
    <3> TAKE c \in Block
    <3>1. Fits(c)
      BY <1>2 DEF TypeInv
    <3>2. CASE c = b
      BY <1>5, <1>6, <3>1, <3>2 DEF Fits
    <3>3. CASE c # b
      BY <1>5, <1>6, <3>1, <3>3 DEF Fits
    <3> QED BY <3>2, <3>3
  <2> QED BY <1>2, <1>4, <1>5, <2>1 DEF TypeInv, NoRec
<1>9. Control'
  BY <1>2, <1>4, <1>6, <1>7 DEF Control, Index
<1>10. RecordsOnce'
  <2>1. Waiting' = ToSet(todo) /\ pc' # "find"
    BY <1>4 DEF Waiting
  <2>2. ASSUME NEW c \in Block, IsLeaf(c)
        PROVE  ToSet(blk'[c].recs) \subseteq ToSet(rows) \ ToSet(todo)
    <3>1. CASE c = b
      BY <1>5, <3>1
    <3>2. CASE c # b
      <4>1. ToSet(blk[c].recs) \subseteq ToSet(rows) \ Waiting
        BY <1>2, <2>2 DEF RecordsOnce
      <4> QED BY <1>5, <3>2, <4>1 DEF Waiting
    <3> QED BY <3>1, <3>2
  <2> QED BY <1>2, <1>4, <1>6, <2>1, <2>2 DEF RecordsOnce
<1>11. Tree(range, level)'
  <2>1. \A c \in Block : Cut(c) = Vals /\ Cut(c)' = Vals
    BY <1>7 DEF Cut
  <2>2. ASSUME NEW c \in Block, IsLeaf(c)
        PROVE  LeafOk(c, range, level)'
    <3>1. LeafOk(c, range, level)
      BY <1>1, <2>2 DEF Tree
    <3>2. CASE c = b
      <4>1. Stores(e, range[b])
        BY <1>1, <1>3
      <4> QED BY <1>5, <3>1, <3>2, <4>1 DEF LeafOk, Stores, Rising
    <3>3. CASE c # b
      <4>1. blk'[c] = blk[c]
        BY <1>5, <3>3
      <4> QED BY <3>1, <4>1 DEF LeafOk
    <3> QED BY <3>2, <3>3
  <2>3. ASSUME NEW c \in Block, IsInternal(c)
        PROVE  InternalOk(c, range, level)'
    <3>1. InternalOk(c, range, level)
      BY <1>1, <2>3 DEF Tree
    <3>2. \A i \in 1 .. Len(blk[c].kids) : blk[c].kids[i] \in Block
      BY <3>1 DEF InternalOk, ChildOk, Index
    <3> QED BY <1>6, <1>7, <2>1, <3>1, <3>2 DEF InternalOk, ChildOk
  <2>4. Roots' = Roots
    BY <1>4, <1>7 DEF Roots
  <2>5. ASSUME NEW c \in Index \ Roots
        PROVE  HasParent(c)'
    <3>1. HasParent(c) /\ c \in Block
      BY <1>1 DEF Tree, Index
    <3> QED BY <1>6, <3>1 DEF HasParent
  <2>6. SplitOk(range, level)'
    BY <1>7 DEF SplitOk
  <2>7. range[root'] = Cut(root)'
    BY <1>1, <1>2, <1>4, <2>1 DEF Tree, TypeInv
  <2>8. \A c \in Index : level[c] <= level[root]
    BY <1>1 DEF Tree
  <2>9. pc' # "find"
    BY <1>4
  <2> QED BY <1>4, <1>6, <1>7, <2>2, <2>3, <2>4, <2>5, <2>6, <2>7, <2>8, <2>9 DEF Tree
<1> QED BY <1>8, <1>9, <1>10, <1>11 DEF IInv

\* A full leaf is split, and the new half waits for its place in the parent.
LEMMA LeafSplitOk ==
  ASSUME Distinct, IInv, pc = "find", IsLeaf(at), Unused # {}, NEW e \in Seq(Recs),
         \A range, level : Tree(range, level) => Stores(e, range[at]),
         ToSet(e) \subseteq ToSet(rows) \ ToSet(todo), Len(e) = MAX_KEYS_LEAF + 1,
         blk' = splitLeaf(at, NewBlock, e), PutUp(at, NewBlock, ValOf[e[(MAX_KEYS_LEAF + 1) \div 2]]),
         at' = blk[at].pblock, rows' = rows
  PROVE  IInv'
<1>1. PICK range \in [Block -> SUBSET Vals], level \in [Block -> Nat] : Tree(range, level)
  BY DEF IInv
<1>2. TypeInv /\ Control /\ RecordsOnce
  BY DEF IInv
<1>3. PICK b \in Block : b = at
  BY <1>2 DEF Control, Index
<1>4. PICK n \in Block : n = NewBlock /\ n \in Unused
  BY NewBlockIs DEF Unused
<1>5. PICK h \in Nat \ {0} : h = (MAX_KEYS_LEAF + 1) \div 2 /\ 2 * h = MAX_KEYS_LEAF + 1
  BY LeafHalf
<1>6. PICK p \in Block \cup {-1} : p = blk[b].pblock
  BY <1>2 DEF TypeInv, Blocks
<1>7. PICK R \in SUBSET Vals : R = range[b]
  OBVIOUS
<1>8. PICK lo, hi : lo = SubSeq(e, 1, h) /\ hi = SubSeq(e, h + 1, 2 * h)
  OBVIOUS
<1>9. PICK key : key = ValOf[e[h]]
  OBVIOUS
<1>10. /\ lo \in Seq(Recs) /\ Len(lo) = h /\ ToSet(lo) \subseteq ToSet(e)
       /\ hi \in Seq(Recs) /\ Len(hi) = h /\ ToSet(hi) \subseteq ToSet(e)
       /\ Stores(lo, Low(R, key)) /\ Stores(hi, High(R, key))
       /\ key \in R /\ High(R, key) # {}
  <2>1. Stores(e, R) /\ Len(e) = 2 * h
    BY <1>1, <1>3, <1>5, <1>7
  <2>2. lo \in Seq(Recs) /\ hi \in Seq(Recs) /\ Halves(lo, hi, e, h)
    BY <1>8, <2>1, HalvesIs
  <2>3. Halved(e, h, R, lo, hi)
    BY <2>1, <2>2, RisingHalves
  <2> QED BY <1>9, <2>3 DEF Halved
<1>11. IsLeaf(b) /\ b \in Index /\ n \notin Index /\ b # n /\ ~ IsInternal(n) /\ ~ IsLeaf(n)
  BY <1>3, <1>4 DEF Index, Unused, IsLeaf, IsInternal
<1>12. /\ blk' \in [Block -> Blocks] /\ \A c \in Block \ {b, n} : blk'[c] = blk[c]
       /\ blk'[b].type = blk[b].type /\ blk'[b].pblock = p /\ blk'[b].recs = lo
       /\ blk'[b].keys = blk[b].keys /\ blk'[b].kids = blk[b].kids
       /\ blk'[n].type = "IND_LEAF" /\ blk'[n].pblock = p /\ blk'[n].recs = hi
       /\ blk'[n].keys = <<>> /\ blk'[n].kids = <<>>
  <2>1. PICK new : new = splitLeaf(b, n, e)
    OBVIOUS
  <2>2. new \in [Block -> Blocks] /\ LeafCut(new, b, n, lo, hi)
    <3>1. /\ lo = SubSeq(e, 1, (MAX_KEYS_LEAF + 1) \div 2)
          /\ hi = SubSeq(e, (MAX_KEYS_LEAF + 1) \div 2 + 1, 2 * ((MAX_KEYS_LEAF + 1) \div 2))
      BY <1>5, <1>8
    <3> QED BY <1>2, <1>10, <1>11, <2>1, <3>1, splitLeafIs
  <2>3. blk' = new
    BY <1>3, <1>4, <2>1
  <2> QED BY <1>6, <2>2, <2>3 DEF LeafCut
<1>13. /\ root' = root /\ todo' = todo /\ rec' = rec /\ rows' = rows /\ at' = p
       /\ up' = [key |-> key, lChild |-> b, rChild |-> n]
       /\ pc' = (IF p = -1 THEN "newroot" ELSE "internal") /\ root # -1
  BY <1>2, <1>3, <1>4, <1>5, <1>6, <1>9 DEF PutUp, Control
<1>14. /\ Splitting' /\ ~ Splitting /\ up'.key = key /\ up'.lChild = b /\ up'.rChild = n
       /\ key \in Vals
  BY <1>10, <1>13 DEF Splitting
<1>15. \A c \in Block : /\ IsLeaf(c)' <=> IsLeaf(c) \/ c = n
                        /\ IsInternal(c)' <=> IsInternal(c)
                        /\ blk'[c].keys = (IF c = n THEN <<>> ELSE blk[c].keys)
                        /\ blk'[c].kids = (IF c = n THEN <<>> ELSE blk[c].kids)
                        /\ blk'[c].pblock = (IF c = n THEN p ELSE blk[c].pblock)
  <2> TAKE c \in Block
  <2>1. CASE c = b
    BY <1>6, <1>11, <1>12, <2>1 DEF IsLeaf, IsInternal
  <2>2. CASE c = n
    BY <1>11, <1>12, <2>2 DEF IsLeaf, IsInternal
  <2>3. CASE c \notin {b, n}
    <3>1. blk'[c] = blk[c]
      BY <1>12, <2>3
    <3> QED BY <2>3, <3>1 DEF IsLeaf, IsInternal
  <2> QED BY <2>1, <2>2, <2>3
<1>16. Index' = Index \cup {n} /\ Index \subseteq Block
  BY <1>15 DEF Index
<1>17. TypeInv'
  <2>1. ASSUME NEW c \in Block
        PROVE  Fits(c)'
    <3>1. Fits(c) /\ Len(<<>>) = 0
      BY <1>2 DEF TypeInv
    <3>2. h <= MAX_KEYS_LEAF /\ 0 <= MAX_KEYS_LEAF /\ 0 <= MAX_KEYS_INTERNAL
      BY <1>5, TreeAssumption
    <3>3. CASE c = b
      BY <1>10, <1>11, <1>12, <1>15, <3>1, <3>2, <3>3 DEF Fits
    <3>4. CASE c = n
      BY <1>10, <1>11, <1>12, <1>15, <3>1, <3>2, <3>4 DEF Fits
    <3>5. CASE c \notin {b, n}
      <4>1. blk'[c] = blk[c]
        BY <1>12, <3>5
      <4> QED BY <1>15, <3>1, <3>5, <4>1 DEF Fits
    <3> QED BY <3>3, <3>4, <3>5
  <2>2. up' \in [key : Vals \cup {0}, lChild : Block \cup {-1}, rChild : Block \cup {-1}]
    BY <1>13, <1>14
  <2>3. pc' \in {"idle", "next", "find", "internal", "newroot"} /\ rec' \in ToSet(rows) \cup {NoRec}
    BY <1>2, <1>13 DEF TypeInv
  <2> QED BY <1>2, <1>6, <1>12, <1>13, <2>1, <2>2, <2>3 DEF TypeInv
<1>18. Control'
  <2>1. root \in Index /\ blk[root].pblock = -1 /\ root # n /\ root \in Block
    BY <1>2, <1>4, <1>11, <1>13, <1>16 DEF Control
  <2>2. blk'[root].pblock = -1
    BY <1>15, <2>1
  <2>3. pc' \notin {"next", "find"}
    BY <1>13
  <2> QED BY <1>13, <1>16, <2>1, <2>2, <2>3 DEF Control
<1>19. RecordsOnce'
  <2>1. Waiting' = ToSet(todo) /\ ToSet(todo) \subseteq Waiting /\ pc' # "find"
    BY <1>13 DEF Waiting
  <2>2. ASSUME NEW c \in Block, IsLeaf(c)'
        PROVE  ToSet(blk'[c].recs) \subseteq ToSet(rows) \ ToSet(todo)
    <3>1. CASE c \in {b, n}
      BY <1>10, <1>12, <3>1
    <3>2. CASE c \notin {b, n}
      <4>1. ToSet(blk[c].recs) \subseteq ToSet(rows) \ Waiting
        BY <1>2, <1>15, <2>2, <3>2 DEF RecordsOnce
      <4>2. blk'[c] = blk[c]
        BY <1>12, <3>2
      <4> QED BY <2>1, <4>1, <4>2
    <3> QED BY <3>1, <3>2
  <2> QED BY <1>2, <1>13, <2>1, <2>2 DEF RecordsOnce
<1>20. PICK range2 \in [Block -> SUBSET Vals] :
         range2 = [range EXCEPT ![b] = Low(R, key), ![n] = High(R, key)]
  BY DEF Low, High
<1>21. PICK level2 \in [Block -> Nat] : level2 = [level EXCEPT ![n] = level[b]]
  OBVIOUS
<1>22. /\ range2[b] = Low(R, key) /\ range2[n] = High(R, key) /\ level2[n] = level[b]
       /\ \A c \in Block \ {b, n} : range2[c] = range[c]
       /\ \A c \in Block \ {n} : level2[c] = level[c]
  BY <1>11, <1>20, <1>21
<1>23. Tree(range2, level2)'
  <2>1. \A c \in Block : Cut(c) = Vals /\ Cut(c)' = (IF c = b THEN Low(Vals, key) ELSE Vals)
    BY <1>14 DEF Cut, Low
  <2>2. /\ \A c \in Index : level[c] <= level[root]
        /\ root \in Index /\ root # n /\ blk[root].pblock = -1 /\ range[root] = Vals
    BY <1>1, <1>2, <1>11, <1>13, <1>16, <2>1 DEF Tree, Control
  <2>3. \A c \in Index' : level2[c] <= level2[root']
    BY <1>11, <1>13, <1>16, <1>22, <2>2
  <2>4. ASSUME NEW c \in Block, IsLeaf(c)'
        PROVE  LeafOk(c, range2, level2)'
    <3>1. IsLeaf(c) => LeafOk(c, range, level)
      BY <1>1 DEF Tree
    <3>2. CASE c = b
      BY <1>10, <1>11, <1>12, <1>22, <3>1, <3>2 DEF LeafOk, Stores, Rising
    <3>3. CASE c = n
      <4>1. level[b] = 0
        BY <1>1, <1>11 DEF Tree, LeafOk
      <4> QED BY <1>10, <1>12, <1>22, <3>3, <4>1 DEF LeafOk, Stores, Rising
    <3>4. CASE c \notin {b, n}
      <4>1. blk'[c] = blk[c] /\ range2[c] = range[c] /\ level2[c] = level[c] /\ IsLeaf(c)
        BY <1>12, <1>15, <1>22, <2>4, <3>4
      <4> QED BY <3>1, <4>1 DEF LeafOk
    <3> QED BY <3>2, <3>3, <3>4
  <2>5. ASSUME NEW c \in Block, IsInternal(c)'
        PROVE  InternalOk(c, range2, level2)'
    <3>1. IsInternal(c) /\ c \notin {b, n}
      BY <1>11, <1>15, <2>5 DEF IsLeaf, IsInternal
    <3>2. InternalOk(c, range, level)
      BY <1>1, <3>1 DEF Tree
    <3>3. /\ blk'[c].keys = blk[c].keys /\ blk'[c].kids = blk[c].kids
          /\ range2[c] = range[c] /\ level2[c] = level[c]
      BY <1>15, <1>22, <3>1
    <3>4. PICK keys, kids : keys = blk[c].keys /\ kids = blk[c].kids
      OBVIOUS
    <3>5. ASSUME NEW i \in 1 .. Len(kids), NEW k, k = kids[i]
          PROVE  ChildOk(c, k, range2, level2, Slice(range2[c], keys, i))'
      <4>1. /\ k \in Index /\ k \in Block /\ blk[k].pblock = c /\ level[c] = level[k] + 1
            /\ range[k] = Slice(range[c], keys, i) \cap Cut(k)
        BY <1>16, <3>2, <3>4, <3>5 DEF InternalOk, ChildOk
      <4>2. k # n
        BY <1>11, <4>1
      <4>3. range[k] = Slice(range[c], keys, i)
        BY <2>1, <4>1 DEF Slice
      <4>4. range2[k] = Slice(range2[c], keys, i) \cap Cut(k)'
        <5>1. CASE k = b
          <6>1. range2[k] = Low(range[k], key)
            BY <1>7, <1>22, <5>1
          <6>2. Low(range[k], key) = range[k] \cap Low(Vals, key)
            <7>1. range[k] \subseteq Vals
              BY <4>1
            <7> QED BY <7>1 DEF Low
          <6> QED BY <2>1, <3>3, <4>1, <4>3, <5>1, <6>1, <6>2
        <5>2. CASE k # b
          BY <1>22, <2>1, <3>3, <4>1, <4>2, <4>3, <5>2
        <5> QED BY <5>1, <5>2
      <4> QED BY <1>14, <1>15, <1>16, <1>22, <3>3, <4>1, <4>2, <4>4 DEF ChildOk
    <3>6. /\ Ascend(keys) /\ ToSet(keys) \subseteq range2[c] /\ OnceOnly(kids)
          /\ blk'[c].keys = keys /\ blk'[c].kids = kids
      BY <3>2, <3>3, <3>4 DEF InternalOk, ChildOk
    <3>7. \A i \in 1 .. Len(kids) : ChildOk(c, kids[i], range2, level2, Slice(range2[c], keys, i))'
      BY <3>5
    <3> QED BY <3>6, <3>7, InternalOkNext
  <2>6. ASSUME NEW c \in Index' \ Roots'
        PROVE  HasParent(c)'
    <3>1. c \in Index \ Roots /\ c # n /\ c \in Block
      BY <1>13, <1>14, <1>16, <2>6 DEF Roots
    <3>2. HasParent(c)
      BY <1>1, <3>1 DEF Tree
    <3>3. ~ IsInternal(n)
      BY <1>11
    <3>4. blk[c].pblock # n
      BY <3>2, <3>3 DEF HasParent
    <3> QED BY <1>15, <3>1, <3>2, <3>4 DEF HasParent
  <2>7. range2[root'] = Cut(root)'
    <3>1. root \in Block /\ Low(Vals, key) \cap Vals = Low(Vals, key)
      BY <1>16, <2>2 DEF Low
    <3>2. CASE root = b
      BY <1>7, <1>13, <1>22, <2>1, <2>2, <3>1, <3>2
    <3>3. CASE root # b
      BY <1>13, <1>22, <2>1, <2>2, <3>1, <3>3
    <3> QED BY <3>2, <3>3
  <2>8. SplitOk(range2, level2)'
    <3>1. ASSUME p # -1
          PROVE  /\ p \in Block /\ IsInternal(p)
                 /\ \E i \in 1 .. Len(blk[p].kids) :
                      /\ blk[p].kids[i] = b /\ R = Slice(range[p], blk[p].keys, i)
      <4>1. b \in Index \ Roots
        BY <1>6, <1>11, <1>14, <2>2, <3>1 DEF Roots
      <4>2. IsInternal(p) /\ p \in Block /\ b \in ToSet(blk[p].kids)
        BY <1>1, <1>6, <4>1 DEF Tree, HasParent
      <4>3. blk[p].kids \in Seq(Block)
        BY <1>2, <4>2 DEF TypeInv, Blocks
      <4>4. PICK i \in 1 .. Len(blk[p].kids) : blk[p].kids[i] = b
        <5>1. DOMAIN blk[p].kids = 1 .. Len(blk[p].kids)
          BY <4>3
        <5> QED BY <4>2, <5>1 DEF ToSet
      <4>5. InternalOk(p, range, level)
        BY <1>1, <4>2 DEF Tree
      <4>6. range[b] = Slice(range[p], blk[p].keys, i) \cap Cut(b)
        BY <4>4, <4>5 DEF InternalOk, ChildOk
      <4>7. Slice(range[p], blk[p].keys, i) \subseteq Vals
        BY <4>2 DEF Slice
      <4> QED BY <1>7, <2>1, <4>2, <4>4, <4>6, <4>7
    <3>2. ASSUME p # -1
          PROVE  /\ p \in Block /\ IsInternal(p)'
                 /\ \E i \in 1 .. Len(blk'[p].kids) :
                      LET slice == Slice(range2[p], blk'[p].keys, i) IN
                      /\ blk'[p].kids[i] = b /\ key \in slice
                      /\ i <= Len(blk'[p].keys) => key < blk'[p].keys[i]
                      /\ range2[n] = {v \in slice : v > key}
      <4>1. PICK i \in 1 .. Len(blk[p].kids) : blk[p].kids[i] = b /\ R = Slice(range[p], blk[p].keys, i)
        BY <3>1, <3>2
      <4>2. p \in Block /\ IsInternal(p) /\ p # n /\ p # b
        BY <1>11, <3>1, <3>2 DEF IsLeaf, IsInternal
      <4>3. blk'[p].keys = blk[p].keys /\ blk'[p].kids = blk[p].kids /\ range2[p] = range[p]
        BY <1>15, <1>22, <4>2
      <4>4. i <= Len(blk[p].keys) => key < blk[p].keys[i]
        <5>1. PICK v \in R : v > key
          BY <1>10 DEF High
        <5>2. SUFFICES ASSUME i <= Len(blk[p].keys)
                       PROVE  key < blk[p].keys[i]
          OBVIOUS
        <5>3. v <= blk[p].keys[i]
          BY <4>1, <5>1, <5>2 DEF Slice
        <5>4. blk[p].keys \in Seq(Vals)
          BY <1>2, <4>2 DEF TypeInv, Blocks
        <5>5. i \in 1 .. Len(blk[p].keys)
          BY <5>2, <5>4
        <5>6. blk[p].keys[i] \in Vals /\ v \in Vals
          BY <5>4, <5>5
        <5>7. blk[p].keys[i] \in Nat /\ v \in Nat /\ key \in Nat
          BY <1>14, <5>6, Values
        <5> QED BY <5>1, <5>3, <5>7
      <4>5. range2[n] = {v \in R : v > key}
        BY <1>22 DEF High
      <4> QED BY <1>10, <1>15, <4>1, <4>2, <4>3, <4>4, <4>5
    <3>3. ASSUME p = -1
          PROVE  b = root /\ range2[n] = {v \in Vals : v > key}
      <4>1. b = root
        <5>1. b \notin Roots => HasParent(b)
          BY <1>1, <1>11 DEF Tree
        <5>2. ~ HasParent(b)
          BY <1>6, <3>3, TreeAssumption DEF HasParent, Block
        <5> QED BY <1>14, <5>1, <5>2 DEF Roots
      <4> QED BY <1>7, <1>22, <2>2, <4>1 DEF High
    <3>4. level2[n] = level2[b] /\ blk'[n].pblock = p /\ blk'[b].pblock = p /\ b \in Index' /\ n \in Index' /\ n # root
      BY <1>11, <1>12, <1>16, <1>22, <2>2
    <3>5. (pc' = "internal" <=> p # -1) /\ (pc' = "newroot" <=> p = -1)
      BY <1>13
    <3> QED BY <1>11, <1>13, <1>14, <3>2, <3>3, <3>4, <3>5 DEF SplitOk
  <2>9. pc' # "find"
    BY <1>13
  <2> QED BY <2>3, <2>4, <2>5, <2>6, <2>7, <2>8, <2>9 DEF Tree
<1> QED BY <1>17, <1>18, <1>19, <1>23 DEF IInv

\* insertIntoLeaf stores the entry, splits the leaf, or gives the index back.
LEMMA insertIntoLeafOk ==
  ASSUME Distinct, IInv, insertIntoLeaf
  PROVE  IInv'
<1>1. TypeInv /\ Control /\ RecordsOnce
  BY DEF IInv
<1>2. PICK range \in [Block -> SUBSET Vals], level \in [Block -> Nat] : Tree(range, level)
  BY DEF IInv
<1>3. PICK i : i = FirstIndex(blk[at].recs, LAMBDA r : ValOf[r] > ValOf[rec])
  OBVIOUS
<1>4. PICK e : e = InsertAt(blk[at].recs, i, rec)
  OBVIOUS
<1>5. /\ pc = "find" /\ IsLeaf(at) /\ rows' = rows
      /\ \/ /\ Len(e) <= MAX_KEYS_LEAF /\ blk' = [blk EXCEPT ![at].recs = e] /\ Return /\ at' = -1
            /\ UNCHANGED <<root, todo, up>>
         \/ /\ Len(e) > MAX_KEYS_LEAF /\ Unused # {} /\ blk' = splitLeaf(at, NewBlock, e)
            /\ PutUp(at, NewBlock, ValOf[e[(MAX_KEYS_LEAF + 1) \div 2]]) /\ at' = blk[at].pblock
         \/ Len(e) > MAX_KEYS_LEAF /\ Unused = {} /\ Unwind({}) /\ at' = -1
  BY <1>3, <1>4 DEF insertIntoLeaf, PutUp
<1>6. ASSUME NEW range2, NEW level2, Tree(range2, level2)
      PROVE  /\ at \in Block /\ rec \in Recs /\ e \in Seq(Recs) /\ Len(e) = Len(blk[at].recs) + 1
             /\ Rising(e) /\ \A j \in 1 .. Len(e) : /\ ValOf[e[j]] \in range2[at]
                                                    /\ e[j] \in ToSet(rows) \ ToSet(todo)
  BY <1>1, <1>3, <1>4, <1>5, <1>6, Entries
<1>7. \A range2, level2 : Tree(range2, level2) => Stores(e, range2[at])
  BY <1>6 DEF Stores
<1>8. /\ at \in Block /\ e \in Seq(Recs) /\ Len(e) = Len(blk[at].recs) + 1
      /\ \A j \in 1 .. Len(e) : e[j] \in ToSet(rows) \ ToSet(todo)
  BY <1>2, <1>6
<1>9. ToSet(e) \subseteq ToSet(rows) \ ToSet(todo)
  BY <1>8, ToSetIs
<1>10. CASE Len(e) <= MAX_KEYS_LEAF
  <2>1. Len(e) \in Nat /\ MAX_KEYS_LEAF \in Nat
    BY <1>8, TreeAssumption
  <2>2. /\ blk' = [blk EXCEPT ![at].recs = e] /\ Return /\ at' = -1 /\ UNCHANGED <<root, todo, up, rows>>
    BY <1>5, <1>10, <2>1
  <2> QED BY <1>5, <1>7, <1>8, <1>9, <1>10, <2>2, LeafFitsOk
<1>11. CASE Len(e) > MAX_KEYS_LEAF /\ Unused # {}
  <2>1. Len(e) \in Nat /\ MAX_KEYS_LEAF \in Nat
    BY <1>8, TreeAssumption
  <2>2. Len(e) = MAX_KEYS_LEAF + 1
    <3>1. Len(blk[at].recs) <= MAX_KEYS_LEAF /\ Len(blk[at].recs) \in Nat
      BY <1>1, <1>8 DEF TypeInv, Fits, Blocks
    <3> QED BY <1>8, <1>11, <2>1, <3>1
  <2>3. /\ blk' = splitLeaf(at, NewBlock, e) /\ at' = blk[at].pblock
        /\ PutUp(at, NewBlock, ValOf[e[(MAX_KEYS_LEAF + 1) \div 2]])
    BY <1>5, <1>11, <2>1
  <2> QED BY <1>5, <1>7, <1>8, <1>9, <1>11, <2>2, <2>3, LeafSplitOk
<1>12. CASE Len(e) > MAX_KEYS_LEAF /\ Unused = {}
  <2>1. Len(e) \in Nat /\ MAX_KEYS_LEAF \in Nat
    BY <1>8, TreeAssumption
  <2>2. Unwind({}) /\ at' = -1 /\ ~ Splitting
    BY <1>5, <1>12, <2>1 DEF Splitting
  <2> QED BY <1>5, <2>2, UnwindOk
<1>13. Len(e) <= MAX_KEYS_LEAF \/ Len(e) > MAX_KEYS_LEAF
  BY <1>8, TreeAssumption
<1> QED BY <1>10, <1>11, <1>12, <1>13

-----------------------------------------------------------------------------
(* A child of an internal block becomes two, and the block itself two.     *)

\* the children once the i-th has become l and r
TwoFor(kids, i, l, r) ==
  SubSeq(kids, 1, i - 1) \o <<l, r>> \o SubSeq(kids, i + 1, Len(kids))

\* new is kids with r put in behind the i-th
Doubled(new, kids, i, r) ==
  /\ Len(new) = Len(kids) + 1
  /\ \A j \in 1 .. Len(kids) + 1 :
       new[j] = IF j <= i THEN kids[j] ELSE IF j = i + 1 THEN r ELSE kids[j - 1]

\* The children of a block when the i-th is followed by a new one.
LEMMA TwoForIs ==
  ASSUME NEW S, NEW kids \in Seq(S), NEW i \in 1 .. Len(kids), NEW r \in S,
         NEW new, new = TwoFor(kids, i, kids[i], r)
  PROVE  new \in Seq(S) /\ Doubled(new, kids, i, r)
<1> DEFINE a == SubSeq(kids, 1, i - 1)
           b == <<kids[i], r>>
           c == SubSeq(kids, i + 1, Len(kids))
<1>1. Len(kids) \in Nat /\ kids[i] \in S
  BY LenProperties, ElementOfSeq
<1>2. a \in Seq(S) /\ Len(a) = i - 1 /\ \A j \in 1 .. i - 1 : a[j] = kids[j]
  BY <1>1, SubSeqIs
<1>3. c \in Seq(S) /\ Len(c) = Len(kids) - i /\ \A j \in 1 .. Len(kids) - i : c[j] = kids[i + j]
  <2>1. /\ SubSeq(kids, i + 1, Len(kids)) \in Seq(S)
        /\ Len(SubSeq(kids, i + 1, Len(kids))) = Len(kids) - (i + 1) + 1
        /\ \A j \in 1 .. Len(kids) - (i + 1) + 1 : SubSeq(kids, i + 1, Len(kids))[j] = kids[(i + 1) + j - 1]
    BY <1>1, SubSeqIs
  <2>2. Len(kids) - (i + 1) + 1 = Len(kids) - i /\ \A j \in Nat : (i + 1) + j - 1 = i + j
    BY <1>1
  <2> HIDE DEF c
  <2>3. ASSUME NEW j \in 1 .. Len(kids) - i
        PROVE  c[j] = kids[i + j]
    <3>1. j \in 1 .. Len(kids) - (i + 1) + 1 /\ (i + 1) + j - 1 = i + j
      BY <1>1
    <3>2. SubSeq(kids, i + 1, Len(kids))[j] = kids[(i + 1) + j - 1]
      BY <2>1, <3>1
    <3> QED BY <3>1, <3>2 DEF c
  <2> QED BY <2>1, <2>2, <2>3 DEF c
<1>4. b \in Seq(S) /\ Len(b) = 2 /\ b[1] = kids[i] /\ b[2] = r
  BY <1>1
<1> HIDE DEF a, b, c
<1> DEFINE ab == a \o b
<1>5. /\ ab \in Seq(S) /\ Len(ab) = Len(a) + Len(b)
      /\ \A j \in 1 .. Len(a) + Len(b) : ab[j] = IF j <= Len(a) THEN a[j] ELSE b[j - Len(a)]
  BY <1>2, <1>4, ConcatIs, Zenon
<1> HIDE DEF ab
<1> DEFINE abc == ab \o c
<1>6. /\ abc \in Seq(S) /\ Len(abc) = Len(ab) + Len(c)
      /\ \A j \in 1 .. Len(ab) + Len(c) : abc[j] = IF j <= Len(ab) THEN ab[j] ELSE c[j - Len(ab)]
  <2>1. ab \in Seq(S) /\ c \in Seq(S)
    BY <1>3, <1>5
  <2> QED BY <2>1, ConcatIs, Zenon
<1> HIDE DEF abc
<1>7. Len(ab) = i + 1 /\ Len(abc) = Len(kids) + 1
  BY <1>1, <1>2, <1>3, <1>4, <1>5, <1>6
<1>8. ASSUME NEW j \in 1 .. Len(kids) + 1
      PROVE  abc[j] = IF j <= i THEN kids[j] ELSE IF j = i + 1 THEN r ELSE kids[j - 1]
  <2>1. CASE j < i
    <3>1. abc[j] = ab[j]
      BY <1>1, <1>3, <1>6, <1>7, <2>1
    <3>2. ab[j] = a[j]
      BY <1>1, <1>2, <1>4, <1>5, <2>1
    <3> QED BY <1>1, <1>2, <2>1, <3>1, <3>2
  <2>2. CASE j = i \/ j = i + 1
    <3>1. abc[j] = ab[j]
      BY <1>1, <1>3, <1>6, <1>7, <2>2
    <3>2. ab[j] = b[j - (i - 1)]
      BY <1>1, <1>2, <1>4, <1>5, <2>2
    <3> QED BY <1>1, <1>4, <2>2, <3>1, <3>2
  <2>3. CASE j > i + 1
    <3>1. abc[j] = c[j - (i + 1)]
      BY <1>1, <1>3, <1>6, <1>7, <2>3
    <3>2. j - (i + 1) \in 1 .. Len(kids) - i /\ i + (j - (i + 1)) = j - 1
      BY <1>1, <2>3
    <3> QED BY <1>1, <1>3, <2>3, <3>1, <3>2
  <2> QED BY <1>1, <2>1, <2>2, <2>3
<1>9. abc \in Seq(S) /\ Doubled(abc, kids, i, r)
  BY <1>6, <1>7, <1>8 DEF Doubled
<1> QED BY <1>9 DEF TwoFor, abc, ab, a, b, c

\* with key at place i the keys K divide slice i of R and leave the others
Divides(R, keys, i, key, K) ==
  /\ Ascend(K) /\ ToSet(K) \subseteq R
  /\ \A j \in 1 .. Len(keys) + 2 :
       Slice(R, K, j) =
         IF j < i THEN Slice(R, keys, j)
         ELSE IF j = i THEN {v \in Slice(R, keys, i) : v <= key}
         ELSE IF j = i + 1 THEN {v \in Slice(R, keys, i) : v > key}
         ELSE Slice(R, keys, j - 1)

\* The new key and the new child divide the slice of the old child and leave
\* the others as they are.
LEMMA EntryDivides ==
  ASSUME NEW R \in SUBSET Vals, NEW keys \in Seq(Vals), Ascend(keys), ToSet(keys) \subseteq R,
         NEW i \in 1 .. Len(keys) + 1, NEW key \in Slice(R, keys, i),
         i <= Len(keys) => key < keys[i],
         NEW K \in Seq(Vals), Inserted(K, keys, i, key)
  PROVE  Divides(R, keys, i, key, K)
<1>1. /\ Len(keys) \in Nat /\ \A j \in 1 .. Len(keys) : keys[j] \in Vals /\ keys[j] \in R
      /\ key \in Vals /\ key \in R
  BY ToSetIs, ElementOfSeq DEF Slice
<1>2. Vals \subseteq Nat
  BY Values
<1>3. /\ K \in Seq(Vals) /\ Len(K) = Len(keys) + 1
      /\ \A j \in 1 .. Len(keys) + 1 : K[j] = IF j < i THEN keys[j] ELSE IF j = i THEN key ELSE keys[j - 1]
  BY DEF Inserted
<1>4. ToSet(K) \subseteq R
  <2>1. \A j \in 1 .. Len(K) : K[j] \in R
    <3> TAKE j \in 1 .. Len(K)
    <3>1. j < i => j \in 1 .. Len(keys)
      BY <1>1
    <3>2. j > i => j - 1 \in 1 .. Len(keys)
      BY <1>1, <1>3
    <3>3. j \in 1 .. Len(keys) + 1 /\ (j < i \/ j = i \/ j > i)
      BY <1>1, <1>3
    <3> QED BY <1>1, <1>3, <3>1, <3>2, <3>3
  <2> QED BY <1>3, <2>1, ToSetIs
<1>5. (i > 1 => keys[i - 1] < key) /\ (i <= Len(keys) => key < keys[i])
  BY DEF Slice
<1>6. \A j \in 1 .. Len(keys) : /\ j < i => keys[j] < key
                                /\ j >= i => key < keys[j]
  <2> TAKE j \in 1 .. Len(keys)
  <2>1. CASE j < i
    <3>1. j = i - 1 \/ keys[j] < keys[i - 1]
      BY <1>1, <2>1 DEF Ascend
    <3>2. i - 1 \in 1 .. Len(keys) /\ i > 1
      BY <1>1, <2>1
    <3>3. keys[i - 1] \in Nat /\ keys[j] \in Nat /\ key \in Nat /\ keys[i - 1] < key
      BY <1>1, <1>2, <1>5, <3>2
    <3> QED BY <2>1, <3>1, <3>3
  <2>2. CASE j >= i
    <3>1. j = i \/ keys[i] < keys[j]
      BY <1>1, <2>2 DEF Ascend
    <3>2. i \in 1 .. Len(keys)
      BY <1>1, <2>2
    <3>3. keys[i] \in Nat /\ keys[j] \in Nat /\ key \in Nat
      BY <1>1, <1>2, <3>2
    <3>4. i <= Len(keys)
      BY <1>1, <3>2
    <3>5. key < keys[i]
      BY <1>5, <3>4
    <3> QED BY <2>2, <3>1, <3>3, <3>5
  <2> QED BY <1>1, <2>1, <2>2
<1>7. Ascend(K)
  <2>1. ASSUME NEW a \in 1 .. Len(keys) + 1, NEW b \in 1 .. Len(keys) + 1, a < b
        PROVE  K[a] < K[b]
    <3>1. CASE b < i
      BY <1>1, <1>3, <2>1, <3>1 DEF Ascend
    <3>2. CASE b = i
      <4>1. a \in 1 .. Len(keys) /\ a < i
        BY <1>1, <2>1, <3>2
      <4>2. keys[a] < key /\ K[a] = keys[a] /\ K[b] = key
        BY <1>3, <1>6, <2>1, <3>2, <4>1
      <4> QED BY <4>2
    <3>3. CASE b > i /\ a < i
      <4>1. a \in 1 .. Len(keys) /\ b - 1 \in 1 .. Len(keys) /\ a < b - 1
        BY <1>1, <3>3
      <4>2. keys[a] < keys[b - 1]
        BY <4>1 DEF Ascend
      <4> QED BY <1>1, <1>3, <3>3, <4>2
    <3>4. CASE b > i /\ a = i
      <4>1. b - 1 \in 1 .. Len(keys) /\ b - 1 >= i
        BY <1>1, <3>4
      <4> QED BY <1>1, <1>3, <1>6, <3>4, <4>1
    <3>5. CASE b > i /\ a > i
      <4>1. a - 1 \in 1 .. Len(keys) /\ b - 1 \in 1 .. Len(keys) /\ a - 1 < b - 1
        BY <1>1, <2>1, <3>5
      <4>2. keys[a - 1] < keys[b - 1]
        BY <4>1 DEF Ascend
      <4> QED BY <1>1, <1>3, <3>5, <4>2
    <3> QED BY <1>1, <3>1, <3>2, <3>3, <3>4, <3>5
  <2> QED BY <1>1, <1>3, <2>1 DEF Ascend
<1>8. ASSUME NEW j \in 1 .. Len(keys) + 2, NEW v \in R
      PROVE  v \in Slice(R, K, j) <=>
               v \in (IF j < i THEN Slice(R, keys, j)
                      ELSE IF j = i THEN {w \in Slice(R, keys, i) : w <= key}
                      ELSE IF j = i + 1 THEN {w \in Slice(R, keys, i) : w > key}
                      ELSE Slice(R, keys, j - 1))
  <2>1. v \in Nat /\ key \in Nat /\ \A k \in 1 .. Len(keys) : keys[k] \in Nat
    BY <1>1, <1>2
  <2>2. v \in Slice(R, K, j) <=> (j > 1 => K[j - 1] < v) /\ (j <= Len(keys) + 1 => v <= K[j])
    BY <1>3 DEF Slice
  <2>3. \A k : v \in Slice(R, keys, k) <=> (k > 1 => keys[k - 1] < v) /\ (k <= Len(keys) => v <= keys[k])
    BY DEF Slice
  <2>4. CASE j < i
    <3>1. K[j] = keys[j] /\ (j > 1 => K[j - 1] = keys[j - 1]) /\ j <= Len(keys)
      BY <1>1, <1>3, <2>4
    <3> QED BY <1>1, <2>2, <2>3, <2>4, <3>1
  <2>5. CASE j = i
    <3>1. K[j] = key /\ (j > 1 => K[j - 1] = keys[j - 1])
      BY <1>1, <1>3, <2>5
    <3>2. v <= key /\ j <= Len(keys) => v <= keys[j]
      BY <1>1, <1>5, <2>1, <2>5
    <3> QED BY <1>1, <2>2, <2>3, <2>5, <3>1, <3>2
  <2>6. CASE j = i + 1
    <3>1. K[j - 1] = key /\ (j <= Len(keys) + 1 => K[j] = keys[j - 1])
      BY <1>1, <1>3, <2>6
    <3>2. key < v /\ i > 1 => keys[i - 1] < v
      <4>1. i > 1 => keys[i - 1] \in Nat
        BY <1>1, <2>1
      <4> QED BY <4>1, <1>1, <1>5, <2>1
    <3>3. j - 1 = i /\ (j <= Len(keys) + 1 <=> i <= Len(keys)) /\ j > 1 /\ ~ (j < i) /\ j # i
      BY <1>1, <2>6
    <3>4. v > key <=> key < v
      BY <2>1
    <3> QED BY <2>2, <2>3, <2>6, <3>1, <3>2, <3>3, <3>4
  <2>7. CASE j > i + 1
    <3>1. K[j - 1] = keys[j - 2] /\ (j <= Len(keys) + 1 => K[j] = keys[j - 1])
      BY <1>1, <1>3, <2>7
    <3>2. j > 1 /\ j - 1 > 1 /\ (j - 1) - 1 = j - 2 /\ (j <= Len(keys) + 1 <=> j - 1 <= Len(keys))
      BY <1>1, <2>7
    <3>3. ~ (j < i) /\ j # i /\ j # i + 1
      BY <1>1, <2>7
    <3> QED BY <2>2, <2>3, <3>1, <3>2, <3>3
  <2> QED BY <1>1, <2>4, <2>5, <2>6, <2>7
<1>9. \A j : Slice(R, K, j) \subseteq R /\ Slice(R, keys, j) \subseteq R
  BY DEF Slice
<1>10. ASSUME NEW j \in 1 .. Len(keys) + 2
       PROVE  Slice(R, K, j) =
                IF j < i THEN Slice(R, keys, j)
                ELSE IF j = i THEN {v \in Slice(R, keys, i) : v <= key}
                ELSE IF j = i + 1 THEN {v \in Slice(R, keys, i) : v > key}
                ELSE Slice(R, keys, j - 1)
  <2> DEFINE Y == IF j < i THEN Slice(R, keys, j)
                  ELSE IF j = i THEN {v \in Slice(R, keys, i) : v <= key}
                  ELSE IF j = i + 1 THEN {v \in Slice(R, keys, i) : v > key}
                  ELSE Slice(R, keys, j - 1)
  <2>1. Y \subseteq R
    BY <1>9
  <2>2. \A v \in R : v \in Slice(R, K, j) <=> v \in Y
    BY <1>8
  <2> HIDE DEF Y
  <2>3. Slice(R, K, j) = Y
    BY <1>9, <2>1, <2>2
  <2> QED BY <2>3 DEF Y
<1> QED BY <1>4, <1>7, <1>10 DEF Divides

\* the keys L and G left and right of the middle one of K
KeysHalved(R, h, K, L, G) ==
  /\ L \in Seq(Vals) /\ Len(L) = h /\ Ascend(L) /\ ToSet(L) \subseteq Low(R, K[h + 1])
  /\ G \in Seq(Vals) /\ Len(G) = h /\ Ascend(G) /\ ToSet(G) \subseteq High(R, K[h + 1])
  /\ \A j \in 1 .. h + 1 : Slice(Low(R, K[h + 1]), L, j) = Slice(R, K, j)
  /\ \A j \in 1 .. h + 1 : Slice(High(R, K[h + 1]), G, j) = Slice(R, K, h + 1 + j)
  /\ K[h + 1] \in R /\ High(R, K[h + 1]) # {}

\* The halves of a split divide the values of the block at the middle key, and
\* each half takes its values to the children the whole block took them to.
LEMMA HalvesAre ==
  ASSUME NEW R \in SUBSET Vals, NEW h \in Nat \ {0}, NEW K \in Seq(Vals), Len(K) = 2 * h + 1,
         Ascend(K), ToSet(K) \subseteq R,
         NEW L, L = SubSeq(K, 1, h), NEW G, G = SubSeq(K, h + 2, 2 * h + 1)
  PROVE  KeysHalved(R, h, K, L, G)
<1>1. \A j \in 1 .. 2 * h + 1 : K[j] \in R /\ K[j] \in Nat
  <2>1. \A j \in 1 .. 2 * h + 1 : K[j] \in R
    BY ToSetIs
  <2> QED BY <2>1, Values
<1>2. \A j \in 1 .. 2 * h + 1 : /\ j < h + 1 => K[j] < K[h + 1]
                                /\ j > h + 1 => K[h + 1] < K[j]
  BY DEF Ascend
<1>3. L \in Seq(Vals) /\ Len(L) = h /\ \A j \in 1 .. h : L[j] = K[j]
  <2>1. h \in 0 .. Len(K) /\ 1 \in Nat \ {0} /\ 1 <= h + 1
    OBVIOUS
  <2>2. SubSeq(K, 1, h) \in Seq(Vals) /\ Len(SubSeq(K, 1, h)) = h - 1 + 1
        /\ \A i \in 1 .. h - 1 + 1 : SubSeq(K, 1, h)[i] = K[1 + i - 1]
    BY <2>1, SubSeqIs
  <2>3. h - 1 + 1 = h /\ \A i \in 1 .. h : 1 + i - 1 = i
    OBVIOUS
  <2> QED BY <2>2, <2>3
<1>4. G \in Seq(Vals) /\ Len(G) = h /\ \A j \in 1 .. h : G[j] = K[h + 1 + j]
  <2>1. 2 * h + 1 \in 0 .. Len(K) /\ h + 2 \in Nat \ {0} /\ h + 2 <= (2 * h + 1) + 1
    OBVIOUS
  <2>2. /\ SubSeq(K, h + 2, 2 * h + 1) \in Seq(Vals)
        /\ Len(SubSeq(K, h + 2, 2 * h + 1)) = (2 * h + 1) - (h + 2) + 1
        /\ \A i \in 1 .. (2 * h + 1) - (h + 2) + 1 : SubSeq(K, h + 2, 2 * h + 1)[i] = K[(h + 2) + i - 1]
    BY <2>1, SubSeqIs
  <2>3. (2 * h + 1) - (h + 2) + 1 = h /\ \A i \in 1 .. h : (h + 2) + i - 1 = h + 1 + i
    OBVIOUS
  <2> QED BY <2>2, <2>3
<1>5. Ascend(L) /\ Ascend(G)
  <2>1. Ascend(L)
    BY <1>3 DEF Ascend
  <2>2. ASSUME NEW i \in 1 .. h, NEW j \in 1 .. h, i < j
        PROVE  G[i] < G[j]
    <3>1. h + 1 + i \in 1 .. Len(K) /\ h + 1 + j \in 1 .. Len(K) /\ h + 1 + i < h + 1 + j
      BY <2>2
    <3>2. K[h + 1 + i] < K[h + 1 + j]
      BY <3>1 DEF Ascend
    <3> QED BY <1>4, <3>2
  <2> QED BY <1>4, <2>1, <2>2 DEF Ascend
<1>6. ToSet(L) \subseteq Low(R, K[h + 1])
  <2>1. ASSUME NEW j \in 1 .. h
        PROVE  L[j] \in Low(R, K[h + 1])
    <3>1. j \in 1 .. 2 * h + 1 /\ h + 1 \in 1 .. 2 * h + 1 /\ j < h + 1
      OBVIOUS
    <3>2. K[j] \in R /\ K[j] \in Nat /\ K[h + 1] \in Nat /\ K[j] < K[h + 1]
      BY <1>1, <1>2, <3>1
    <3>3. K[j] <= K[h + 1]
      BY <3>2
    <3>4. K[j] \in Low(R, K[h + 1])
      BY <3>2, <3>3 DEF Low
    <3>5. L[j] = K[j]
      BY <1>3
    <3> QED BY <3>4, <3>5
  <2>2. ToSet(L) \subseteq {L[j] : j \in 1 .. h}
    <3>1. DOMAIN L = 1 .. h
      BY <1>3
    <3> QED BY <3>1 DEF ToSet
  <2> QED BY <2>1, <2>2
<1>7. ToSet(G) \subseteq High(R, K[h + 1])
  <2>1. ASSUME NEW j \in 1 .. h
        PROVE  G[j] \in High(R, K[h + 1])
    <3>1. h + 1 + j \in 1 .. 2 * h + 1 /\ h + 1 \in 1 .. 2 * h + 1 /\ h + 1 + j > h + 1
      OBVIOUS
    <3>2. K[h + 1 + j] \in R /\ K[h + 1 + j] \in Nat /\ K[h + 1] \in Nat /\ K[h + 1] < K[h + 1 + j]
      BY <1>1, <1>2, <3>1
    <3>3. K[h + 1 + j] > K[h + 1]
      BY <3>2
    <3>4. K[h + 1 + j] \in High(R, K[h + 1])
      BY <3>2, <3>3 DEF High
    <3>5. G[j] = K[h + 1 + j]
      BY <1>4
    <3> QED BY <3>4, <3>5
  <2>2. ToSet(G) \subseteq {G[j] : j \in 1 .. h}
    <3>1. DOMAIN G = 1 .. h
      BY <1>4
    <3> QED BY <3>1 DEF ToSet
  <2> QED BY <2>1, <2>2
<1>8. ASSUME NEW j \in 1 .. h + 1
      PROVE  Slice(Low(R, K[h + 1]), L, j) = Slice(R, K, j)
  <2>1. ASSUME NEW v \in R
        PROVE  v \in Slice(Low(R, K[h + 1]), L, j) <=> v \in Slice(R, K, j)
    <3>1. v \in Nat /\ K[h + 1] \in Nat
      BY <1>1, Values
    <3>2. v \in Slice(R, K, j) <=> (j > 1 => K[j - 1] < v) /\ v <= K[j]
      BY DEF Slice
    <3>3. v \in Slice(Low(R, K[h + 1]), L, j)
            <=> v <= K[h + 1] /\ (j > 1 => L[j - 1] < v) /\ (j <= h => v <= L[j])
      BY <1>3 DEF Slice, Low
    <3>4. (j > 1 => L[j - 1] = K[j - 1]) /\ (j <= h => L[j] = K[j])
      BY <1>3
    <3>5. CASE j <= h
      <4>1. j \in 1 .. 2 * h + 1 /\ j < h + 1
        BY <3>5
      <4>2. K[j] < K[h + 1] /\ K[j] \in Nat
        BY <1>1, <1>2, <4>1
      <4> QED BY <3>1, <3>2, <3>3, <3>4, <3>5, <4>2
    <3>6. CASE j = h + 1
      BY <3>2, <3>3, <3>4, <3>6
    <3> QED BY <3>5, <3>6
  <2> QED BY <2>1 DEF Slice, Low
<1>9. ASSUME NEW j \in 1 .. h + 1
      PROVE  Slice(High(R, K[h + 1]), G, j) = Slice(R, K, h + 1 + j)
  <2>1. ASSUME NEW v \in R
        PROVE  v \in Slice(High(R, K[h + 1]), G, j) <=> v \in Slice(R, K, h + 1 + j)
    <3>1. v \in Nat /\ K[h + 1] \in Nat
      BY <1>1, Values
    <3>2. v \in Slice(R, K, h + 1 + j) <=> K[h + j] < v /\ (j <= h => v <= K[h + 1 + j])
      <4>1. h + 1 + j > 1 /\ (h + 1 + j) - 1 = h + j /\ (h + 1 + j <= Len(K) <=> j <= h)
        OBVIOUS
      <4> QED BY <4>1 DEF Slice
    <3>3. v \in Slice(High(R, K[h + 1]), G, j)
            <=> v > K[h + 1] /\ (j > 1 => G[j - 1] < v) /\ (j <= h => v <= G[j])
      BY <1>4 DEF Slice, High
    <3>4. (j > 1 => G[j - 1] = K[h + j]) /\ (j <= h => G[j] = K[h + 1 + j])
      <4>1. j > 1 => j - 1 \in 1 .. h /\ h + 1 + (j - 1) = h + j
        OBVIOUS
      <4> QED BY <1>4, <4>1
    <3>5. CASE j > 1
      <4>1. h + j \in 1 .. 2 * h + 1 /\ h + j > h + 1
        BY <3>5
      <4>2. K[h + 1] < K[h + j] /\ K[h + j] \in Nat
        BY <1>1, <1>2, <4>1
      <4> QED BY <3>1, <3>2, <3>3, <3>4, <3>5, <4>2
    <3>6. CASE j = 1
      <4>1. h + j = h + 1 /\ (v > K[h + 1] <=> K[h + 1] < v)
        BY <3>1, <3>6
      <4> QED BY <3>2, <3>3, <3>4, <3>6, <4>1
    <3> QED BY <3>5, <3>6
  <2> QED BY <2>1 DEF Slice, High
<1>10. K[h + 1] \in R /\ High(R, K[h + 1]) # {}
  <2>1. h + 1 \in 1 .. 2 * h + 1 /\ 1 \in 1 .. h
    OBVIOUS
  <2>2. G[1] \in ToSet(G)
    <3>1. DOMAIN G = 1 .. h
      BY <1>4
    <3> QED BY <2>1, <3>1 DEF ToSet
  <2> QED BY <1>1, <1>7, <2>1, <2>2
<1> QED BY <1>3, <1>4, <1>5, <1>6, <1>7, <1>8, <1>9, <1>10 DEF KeysHalved

\* the children CL and CR of the two halves
KidsHalved(h, C, CL, CR) ==
  /\ CL \in Seq(Block) /\ Len(CL) = h + 1 /\ OnceOnly(CL) /\ \A j \in 1 .. h + 1 : CL[j] = C[j]
  /\ CR \in Seq(Block) /\ Len(CR) = h + 1 /\ OnceOnly(CR) /\ \A j \in 1 .. h + 1 : CR[j] = C[h + 1 + j]
  /\ ToSet(CL) \cup ToSet(CR) = ToSet(C) /\ ToSet(CL) \cap ToSet(CR) = {}

\* No child is lost in a split, and none is in both halves.
LEMMA KidsHalvesAre ==
  ASSUME NEW h \in Nat \ {0}, NEW C \in Seq(Block), Len(C) = 2 * h + 2, OnceOnly(C),
         NEW CL, CL = SubSeq(C, 1, h + 1), NEW CR, CR = SubSeq(C, h + 2, 2 * h + 2)
  PROVE  KidsHalved(h, C, CL, CR)
<1>1. CL \in Seq(Block) /\ Len(CL) = h + 1 /\ \A j \in 1 .. h + 1 : CL[j] = C[j]
  <2>1. h + 1 \in 0 .. Len(C) /\ 1 \in Nat \ {0} /\ 1 <= (h + 1) + 1
    OBVIOUS
  <2>2. SubSeq(C, 1, h + 1) \in Seq(Block) /\ Len(SubSeq(C, 1, h + 1)) = (h + 1) - 1 + 1
        /\ \A i \in 1 .. (h + 1) - 1 + 1 : SubSeq(C, 1, h + 1)[i] = C[1 + i - 1]
    BY <2>1, SubSeqIs
  <2>3. (h + 1) - 1 + 1 = h + 1 /\ \A i \in 1 .. h + 1 : 1 + i - 1 = i
    OBVIOUS
  <2> QED BY <2>2, <2>3
<1>2. CR \in Seq(Block) /\ Len(CR) = h + 1 /\ \A j \in 1 .. h + 1 : CR[j] = C[h + 1 + j]
  <2>1. 2 * h + 2 \in 0 .. Len(C) /\ h + 2 \in Nat \ {0} /\ h + 2 <= (2 * h + 2) + 1
    OBVIOUS
  <2>2. /\ SubSeq(C, h + 2, 2 * h + 2) \in Seq(Block)
        /\ Len(SubSeq(C, h + 2, 2 * h + 2)) = (2 * h + 2) - (h + 2) + 1
        /\ \A i \in 1 .. (2 * h + 2) - (h + 2) + 1 : SubSeq(C, h + 2, 2 * h + 2)[i] = C[(h + 2) + i - 1]
    BY <2>1, SubSeqIs
  <2>3. (2 * h + 2) - (h + 2) + 1 = h + 1 /\ \A i \in 1 .. h + 1 : (h + 2) + i - 1 = h + 1 + i
    OBVIOUS
  <2> QED BY <2>2, <2>3
<1>3. \A j \in 1 .. h + 1 : j \in 1 .. Len(C) /\ h + 1 + j \in 1 .. Len(C)
  OBVIOUS
<1>4. OnceOnly(CL)
  BY <1>1, <1>3 DEF OnceOnly
<1>5. OnceOnly(CR)
  <2>1. ASSUME NEW i \in 1 .. h + 1, NEW j \in 1 .. h + 1, CR[i] = CR[j]
        PROVE  i = j
    <3>1. C[h + 1 + i] = C[h + 1 + j]
      BY <1>2, <2>1
    <3>2. h + 1 + i = h + 1 + j
      BY <1>3, <3>1 DEF OnceOnly
    <3> QED BY <3>2
  <2> QED BY <1>2, <2>1 DEF OnceOnly
<1>6. /\ ToSet(CL) = {CL[j] : j \in 1 .. h + 1} /\ ToSet(CR) = {CR[j] : j \in 1 .. h + 1}
      /\ ToSet(C) = {C[j] : j \in 1 .. 2 * h + 2}
  <2>1. DOMAIN CL = 1 .. h + 1 /\ DOMAIN CR = 1 .. h + 1 /\ DOMAIN C = 1 .. 2 * h + 2
    BY <1>1, <1>2
  <2> QED BY <2>1 DEF ToSet
<1>7. ToSet(CL) \subseteq ToSet(C) /\ ToSet(CR) \subseteq ToSet(C)
  <2>1. \A j \in 1 .. h + 1 : j \in 1 .. 2 * h + 2 /\ h + 1 + j \in 1 .. 2 * h + 2
    OBVIOUS
  <2>2. \A j \in 1 .. h + 1 : CL[j] \in {C[i] : i \in 1 .. 2 * h + 2} /\ CR[j] \in {C[i] : i \in 1 .. 2 * h + 2}
    BY <1>1, <1>2, <2>1
  <2> QED BY <1>6, <2>2
<1>8. ASSUME NEW j \in 1 .. 2 * h + 2
      PROVE  C[j] \in ToSet(CL) \cup ToSet(CR)
  <2>1. CASE j <= h + 1
    <3>1. j \in 1 .. h + 1
      BY <2>1
    <3> QED BY <1>1, <1>6, <3>1
  <2>2. CASE j > h + 1
    <3>1. j - (h + 1) \in 1 .. h + 1 /\ h + 1 + (j - (h + 1)) = j
      BY <2>2
    <3>2. CR[j - (h + 1)] = C[j]
      BY <1>2, <3>1
    <3> QED BY <1>6, <3>1, <3>2
  <2> QED BY <2>1, <2>2
<1>9. ASSUME NEW i \in 1 .. h + 1, NEW j \in 1 .. h + 1
      PROVE  CL[i] # CR[j]
  <2>1. i # h + 1 + j
    OBVIOUS
  <2> QED BY <1>1, <1>2, <1>3, <2>1 DEF OnceOnly
<1>10. ToSet(CL) \cap ToSet(CR) = {}
  BY <1>6, <1>9
<1>11. ToSet(C) \subseteq ToSet(CL) \cup ToSet(CR)
  BY <1>6, <1>8
<1> QED BY <1>1, <1>2, <1>4, <1>5, <1>7, <1>10, <1>11 DEF KidsHalved

-----------------------------------------------------------------------------
(* An entry goes into an internal block.                                   *)

\* K and C are the keys and children of block b with the entry put in
EntryOk(b, range, level, K, C) ==
  /\ K \in Seq(Vals) /\ Len(K) = Len(blk[b].keys) + 1 /\ Ascend(K) /\ ToSet(K) \subseteq range[b]
  /\ ToSet(K) = ToSet(blk[b].keys) \cup {up.key}
  /\ C \in Seq(Block) /\ Len(C) = Len(K) + 1 /\ OnceOnly(C)
  /\ ToSet(C) = ToSet(blk[b].kids) \cup {up.rChild}
  /\ \A j \in 1 .. Len(C) :
       /\ C[j] \in Index /\ blk[C[j]].pblock = b /\ level[b] = level[C[j]] + 1
       /\ range[C[j]] = Slice(range[b], K, j)

\* A child once more keeps the children distinct.
LEMMA DoubledOnce ==
  ASSUME NEW kids \in Seq(Block), OnceOnly(kids), NEW i \in 1 .. Len(kids), NEW r \in Block,
         r \notin ToSet(kids), NEW C \in Seq(Block), Doubled(C, kids, i, r)
  PROVE  OnceOnly(C) /\ ToSet(C) = ToSet(kids) \cup {r}
<1>1. /\ Len(kids) \in Nat /\ Len(C) = Len(kids) + 1
      /\ \A j \in 1 .. Len(kids) + 1 :
           C[j] = IF j <= i THEN kids[j] ELSE IF j = i + 1 THEN r ELSE kids[j - 1]
  BY LenProperties DEF Doubled
<1>2. DOMAIN kids = 1 .. Len(kids) /\ DOMAIN C = 1 .. Len(kids) + 1
  BY <1>1
<1>3. \A j \in 1 .. Len(kids) : kids[j] # r
  BY <1>2 DEF ToSet
<1>4. ASSUME NEW a \in 1 .. Len(kids) + 1, NEW c \in 1 .. Len(kids) + 1, a < c
      PROVE  C[a] # C[c]
  <2>1. CASE c <= i
    <3>1. a \in 1 .. Len(kids) /\ c \in 1 .. Len(kids) /\ a <= i /\ a # c
      BY <1>1, <1>4, <2>1
    <3> QED BY <1>1, <2>1, <3>1 DEF OnceOnly
  <2>2. CASE c = i + 1
    <3>1. a \in 1 .. Len(kids) /\ a <= i /\ ~ (c <= i)
      BY <1>1, <1>4, <2>2
    <3> QED BY <1>1, <1>3, <2>2, <3>1
  <2>3. CASE c > i + 1
    <3>1. c - 1 \in 1 .. Len(kids) /\ C[c] = kids[c - 1]
      BY <1>1, <2>3
    <3>2. CASE a <= i
      <4>1. a \in 1 .. Len(kids) /\ a # c - 1
        BY <1>1, <2>3, <3>2
      <4> QED BY <1>1, <3>1, <3>2, <4>1 DEF OnceOnly
    <3>3. CASE a = i + 1
      <4>1. C[a] = r
        BY <1>1, <3>3
      <4> QED BY <1>3, <3>1, <4>1
    <3>4. CASE a > i + 1
      <4>1. a - 1 \in 1 .. Len(kids) /\ C[a] = kids[a - 1] /\ a - 1 # c - 1
        BY <1>1, <1>4, <3>4
      <4> QED BY <3>1, <4>1 DEF OnceOnly
    <3> QED BY <1>1, <3>2, <3>3, <3>4
  <2> QED BY <1>1, <2>1, <2>2, <2>3
<1>5. OnceOnly(C)
  <2>1. ASSUME NEW a \in 1 .. Len(kids) + 1, NEW c \in 1 .. Len(kids) + 1, C[a] = C[c]
        PROVE  a = c
    <3>1. ~ (a < c) /\ ~ (c < a)
      BY <1>4, <2>1
    <3> QED BY <1>1, <3>1
  <2> QED BY <1>1, <2>1 DEF OnceOnly
<1>6. ASSUME NEW j \in 1 .. Len(kids) + 1
      PROVE  C[j] \in ToSet(kids) \cup {r}
  <2>1. \A k \in 1 .. Len(kids) : kids[k] \in ToSet(kids)
    BY <1>2 DEF ToSet
  <2>2. j <= i => j \in 1 .. Len(kids)
    BY <1>1
  <2>3. j > i + 1 => j - 1 \in 1 .. Len(kids)
    BY <1>1
  <2>4. j <= i \/ j = i + 1 \/ j > i + 1
    BY <1>1
  <2> QED BY <1>1, <2>1, <2>2, <2>3, <2>4
<1>7. ASSUME NEW k \in 1 .. Len(kids)
      PROVE  kids[k] \in ToSet(C)
  <2>1. k \in 1 .. Len(kids) + 1 /\ k + 1 \in 1 .. Len(kids) + 1
    BY <1>1
  <2>2. k <= i => C[k] = kids[k]
    BY <1>1, <2>1
  <2>3. k > i => C[k + 1] = kids[k]
    <3>1. k > i => ~ (k + 1 <= i) /\ k + 1 # i + 1 /\ (k + 1) - 1 = k
      BY <1>1
    <3> QED BY <1>1, <2>1, <3>1
  <2>4. k <= i \/ k > i
    BY <1>1
  <2> QED BY <1>2, <2>1, <2>2, <2>3, <2>4 DEF ToSet
<1>8. r \in ToSet(C)
  <2>1. i + 1 \in 1 .. Len(kids) + 1 /\ C[i + 1] = r
    BY <1>1
  <2> QED BY <1>2, <2>1 DEF ToSet
<1>9. ToSet(C) \subseteq ToSet(kids) \cup {r}
  BY <1>2, <1>6 DEF ToSet
<1>10. ToSet(kids) \subseteq ToSet(C)
  BY <1>2, <1>7 DEF ToSet
<1> QED BY <1>5, <1>8, <1>9, <1>10

\* The entry a split left behind finds its place in the parent.
LEMMA NewEntry ==
  ASSUME Numeric, TypeInv, NEW range \in [Block -> SUBSET Vals], NEW level \in [Block -> Nat],
         Tree(range, level), pc = "internal", NEW order \in InternalOrders,
         NEW i, i = Place(blk[at].keys, order, up.key),
         NEW K, K = InsertAt(blk[at].keys, i, up.key),
         NEW C, C = TwoFor(blk[at].kids, i, up.lChild, up.rChild)
  PROVE  EntryOk(at, range, level, K, C)
<1>1. /\ up.key \in Vals /\ up.lChild \in Index /\ up.rChild \in Index /\ up.lChild # up.rChild
      /\ level[up.rChild] = level[up.lChild] /\ blk[up.rChild].pblock = at /\ blk[up.lChild].pblock = at
      /\ at \in Block /\ IsInternal(at) /\ Splitting
      /\ \E k \in 1 .. Len(blk[at].kids) :
           LET slice == Slice(range[at], blk[at].keys, k) IN
           /\ blk[at].kids[k] = up.lChild /\ up.key \in slice
           /\ k <= Len(blk[at].keys) => up.key < blk[at].keys[k]
           /\ range[up.rChild] = {v \in slice : v > up.key}
  BY DEF Tree, SplitOk, Splitting
<1>2. PICK keys, kids : keys = blk[at].keys /\ kids = blk[at].kids
  OBVIOUS
<1>3. PICK b : b = at
  OBVIOUS
<1>4. PICK key, l, r : key = up.key /\ l = up.lChild /\ r = up.rChild
  OBVIOUS
<1>5. PICK k \in 1 .. Len(kids) :
        /\ kids[k] = l /\ key \in Slice(range[b], keys, k) /\ (k <= Len(keys) => key < keys[k])
        /\ range[r] = {v \in Slice(range[b], keys, k) : v > key}
  BY <1>1, <1>2, <1>3, <1>4
<1>6. keys \in Seq(Vals) /\ kids \in Seq(Block) /\ Len(kids) = Len(keys) + 1 /\ Len(keys) \in Nat
  BY <1>1, <1>2 DEF TypeInv, Blocks, Fits
<1>7. InternalOk(b, range, level) /\ b \in Block /\ range[b] \in SUBSET Vals
  BY <1>1, <1>3 DEF Tree
<1>8. Ascend(keys) /\ ToSet(keys) \subseteq range[b] /\ OnceOnly(kids)
  BY <1>2, <1>3, <1>7 DEF InternalOk
<1>9. \A j \in 1 .. Len(kids) : ChildOk(b, kids[j], range, level, Slice(range[b], keys, j))
  BY <1>2, <1>3, <1>7 DEF InternalOk
<1>10. key \in Vals /\ k \in 1 .. Len(keys) + 1 /\ (k > 1 => keys[k - 1] < key)
  BY <1>1, <1>4, <1>5, <1>6 DEF Slice
<1>11. i = k
  <2>1. i = Place(keys, order, key)
    BY <1>2, <1>4
  <2> QED BY <1>5, <1>6, <1>8, <1>10, <2>1, PlaceIs
<1>12. K \in Seq(Vals) /\ Inserted(K, keys, k, key)
  <2>1. K = InsertAt(keys, k, key)
    BY <1>2, <1>4, <1>11
  <2> QED BY <1>6, <1>10, <2>1, InsertAtIs
<1>13. Index \subseteq Block /\ l \in Index /\ r \in Index /\ l # r /\ blk[r].pblock = b /\ level[r] = level[l]
  BY <1>1, <1>3, <1>4 DEF Index
<1>14. C \in Seq(Block) /\ Doubled(C, kids, k, r)
  <2>1. C = TwoFor(kids, k, kids[k], r)
    BY <1>2, <1>4, <1>5, <1>11
  <2> QED BY <1>6, <1>13, <2>1, TwoForIs
<1>15. r \notin ToSet(kids)
  <2>1. \A j \in 1 .. Len(kids) : kids[j] # r
    BY <1>1, <1>4, <1>9 DEF ChildOk
  <2> QED BY <1>6, <2>1 DEF ToSet
<1>16. OnceOnly(C) /\ ToSet(C) = ToSet(kids) \cup {r}
  BY <1>6, <1>8, <1>13, <1>14, <1>15, DoubledOnce
<1>17. Divides(range[b], keys, k, key, K)
  BY <1>5, <1>6, <1>7, <1>8, <1>10, <1>12, EntryDivides
<1>18. /\ Len(K) = Len(keys) + 1 /\ Len(C) = Len(kids) + 1
       /\ \A j \in 1 .. Len(kids) + 1 :
            C[j] = IF j <= k THEN kids[j] ELSE IF j = k + 1 THEN r ELSE kids[j - 1]
  BY <1>12, <1>14 DEF Inserted, Doubled
<1>19. \A j \in 1 .. Len(kids) : /\ kids[j] \in Index /\ blk[kids[j]].pblock = b
                                 /\ level[b] = level[kids[j]] + 1
                                 /\ range[kids[j]] = Slice(range[b], keys, j) \cap Cut(kids[j])
  BY <1>9 DEF ChildOk
<1>20. \A j \in 1 .. Len(kids) :
         range[kids[j]] = IF j = k THEN {v \in Slice(range[b], keys, k) : v <= key}
                          ELSE Slice(range[b], keys, j)
  <2> TAKE j \in 1 .. Len(kids)
  <2>1. Slice(range[b], keys, j) \subseteq Vals
    BY <1>7 DEF Slice
  <2>2. CASE j = k
    <3>1. Cut(kids[j]) = {v \in Vals : v <= key}
      BY <1>1, <1>4, <1>5, <2>2 DEF Cut
    <3> QED BY <1>19, <2>1, <2>2, <3>1
  <2>3. CASE j # k
    <3>1. kids[j] # l
      BY <1>5, <1>8, <2>3 DEF OnceOnly
    <3>2. Cut(kids[j]) = Vals
      BY <1>4, <3>1 DEF Cut
    <3> QED BY <1>19, <2>1, <2>3, <3>2
  <2> QED BY <2>2, <2>3
<1>21. ASSUME NEW j \in 1 .. Len(kids) + 1
       PROVE  /\ C[j] \in Index /\ blk[C[j]].pblock = b /\ level[b] = level[C[j]] + 1
              /\ range[C[j]] = Slice(range[b], K, j)
  <2>1. j \in 1 .. Len(keys) + 2
    BY <1>6
  <2>2. Slice(range[b], K, j) =
          IF j < k THEN Slice(range[b], keys, j)
          ELSE IF j = k THEN {v \in Slice(range[b], keys, k) : v <= key}
          ELSE IF j = k + 1 THEN {v \in Slice(range[b], keys, k) : v > key}
          ELSE Slice(range[b], keys, j - 1)
    BY <1>17, <2>1 DEF Divides
  <2>3. CASE j < k
    <3>1. j \in 1 .. Len(kids) /\ C[j] = kids[j] /\ j # k
      BY <1>6, <1>18, <2>3
    <3>2. range[kids[j]] = Slice(range[b], K, j)
      BY <1>20, <2>2, <2>3, <3>1
    <3> QED BY <1>19, <3>1, <3>2
  <2>6. CASE j = k
    <3>1. C[j] = kids[j] /\ ~ (j < k)
      BY <1>6, <1>18, <2>6
    <3>2. range[kids[j]] = Slice(range[b], K, j)
      BY <1>20, <2>2, <2>6, <3>1
    <3> QED BY <1>19, <2>6, <3>1, <3>2
  <2>4. CASE j = k + 1
    <3>1. C[j] = r /\ ~ (j < k) /\ j # k
      BY <1>6, <1>18, <2>4
    <3>2. level[b] = level[l] + 1
      BY <1>5, <1>19
    <3> QED BY <1>5, <1>13, <2>2, <2>4, <3>1, <3>2
  <2>5. CASE j > k + 1
    <3>1. /\ j - 1 \in 1 .. Len(kids) /\ C[j] = kids[j - 1] /\ j - 1 # k
          /\ ~ (j < k) /\ j # k /\ j # k + 1
      BY <1>6, <1>18, <2>5
    <3>2. range[kids[j - 1]] = Slice(range[b], K, j)
      BY <1>20, <2>2, <3>1
    <3> QED BY <1>19, <3>1, <3>2
  <2> QED BY <1>6, <2>3, <2>4, <2>5, <2>6
<1>22. Ascend(K) /\ ToSet(K) \subseteq range[b]
  BY <1>17 DEF Divides
<1>23. ToSet(K) = ToSet(blk[b].keys) \cup {up.key}
  <2>1. ToSet(K) = ToSet(keys) \cup {key}
    BY <1>6, <1>10, <1>12, InsertedSet
  <2> QED BY <1>2, <1>3, <1>4, <2>1
<1> QED BY <1>2, <1>3, <1>4, <1>6, <1>12, <1>14, <1>16, <1>18, <1>21, <1>22, <1>23 DEF EntryOk

\* The entry has a good place, whatever ranges and levels show the tree.
Placed(K, C) ==
  \A range \in [Block -> SUBSET Vals], level \in [Block -> Nat] :
    Tree(range, level) => EntryOk(at, range, level, K, C)

\* An internal block with room takes the entry, and the split is complete.
LEMMA InternalFitsOk ==
  ASSUME IInv, pc = "internal", NEW K, NEW C, Placed(K, C), Len(K) <= MAX_KEYS_INTERNAL,
         blk' = [blk EXCEPT ![at].keys = K, ![at].kids = C], Return, at' = -1, up' = NoEntry,
         UNCHANGED <<root, todo, rows>>
  PROVE  IInv'
<1>1. PICK range \in [Block -> SUBSET Vals], level \in [Block -> Nat] : Tree(range, level)
  BY DEF IInv
<1>2. TypeInv /\ Control /\ RecordsOnce
  BY DEF IInv
<1>3. PICK b, l, r : b = at /\ l = up.lChild /\ r = up.rChild
  OBVIOUS
<1>4. EntryOk(b, range, level, K, C)
  BY <1>1, <1>3 DEF Placed
<1>5. /\ Splitting /\ b \in Block /\ IsInternal(b) /\ ~ IsLeaf(b) /\ l \in Index /\ r \in Index
      /\ blk[l].pblock = b /\ blk[r].pblock = b /\ r # root /\ Index \subseteq Block
  BY <1>1, <1>3 DEF Tree, SplitOk, Splitting, Index, IsLeaf, IsInternal
<1>6. /\ root' = root /\ todo' = todo /\ rows' = rows /\ rec' = NoRec /\ up' = NoEntry /\ at' = -1
      /\ pc' = (IF todo = <<>> THEN "idle" ELSE "next") /\ root # -1
  BY <1>2 DEF Return, Control
<1>7. /\ K \in Seq(Vals) /\ Len(K) = Len(blk[b].keys) + 1 /\ Ascend(K) /\ ToSet(K) \subseteq range[b]
      /\ C \in Seq(Block) /\ Len(C) = Len(K) + 1 /\ OnceOnly(C)
      /\ ToSet(C) = ToSet(blk[b].kids) \cup {r}
      /\ \A j \in 1 .. Len(C) :
           /\ C[j] \in Index /\ blk[C[j]].pblock = b /\ level[b] = level[C[j]] + 1
           /\ range[C[j]] = Slice(range[b], K, j)
  BY <1>3, <1>4 DEF EntryOk
<1>8. /\ \A c \in Block \ {b} : blk'[c] = blk[c]
      /\ blk' \in [Block -> Blocks] /\ blk'[b].keys = K /\ blk'[b].kids = C
      /\ blk'[b].type = blk[b].type /\ blk'[b].pblock = blk[b].pblock /\ blk'[b].recs = blk[b].recs
  <2> DEFINE new == [blk[b] EXCEPT !.keys = K, !.kids = C]
  <2>1. blk[b] \in Blocks /\ blk \in [Block -> Blocks]
    BY <1>2, <1>5 DEF TypeInv
  <2>2. /\ new \in Blocks /\ new.keys = K /\ new.kids = C
        /\ new.type = blk[b].type /\ new.pblock = blk[b].pblock /\ new.recs = blk[b].recs
    BY <1>7, <2>1 DEF Blocks
  <2>3. blk' = [blk EXCEPT ![b] = new]
    BY <1>3, <1>5, <2>1
  <2> HIDE DEF new
  <2>4. PICK f : f = [blk EXCEPT ![b] = new]
    OBVIOUS
  <2>5. f[b] = new /\ \A c \in Block \ {b} : f[c] = blk[c]
    BY <1>5, <2>1, <2>4
  <2>6. f \in [Block -> Blocks]
    BY <1>5, <2>1, <2>2, <2>4
  <2>7. blk' = f
    BY <2>3, <2>4, Zenon
  <2> QED BY <2>2, <2>5, <2>6, <2>7, Zenon
<1>9. \A c \in Block : /\ blk'[c].type = blk[c].type /\ blk'[c].pblock = blk[c].pblock
                       /\ blk'[c].recs = blk[c].recs
                       /\ (IsLeaf(c)' <=> IsLeaf(c)) /\ (IsInternal(c)' <=> IsInternal(c))
  <2>1. \A c \in Block : /\ blk'[c].type = blk[c].type /\ blk'[c].pblock = blk[c].pblock
                         /\ blk'[c].recs = blk[c].recs
    BY <1>8
  <2> QED BY <2>1 DEF IsLeaf, IsInternal
<1>10. Index' = Index /\ ~ Splitting'
  BY <1>6, <1>9 DEF Index, Splitting
<1>11. TypeInv'
  <2>1. \A c \in Block : Fits(c)'
    <3> TAKE c \in Block
    <3>1. Fits(c)
      BY <1>2 DEF TypeInv
    <3>2. CASE c = b
      BY <1>5, <1>7, <1>8, <1>9, <3>1, <3>2 DEF Fits
    <3>3. CASE c # b
      <4>1. blk'[c] = blk[c]
        BY <1>8, <3>3
      <4> QED BY <1>9, <3>1, <4>1 DEF Fits
    <3> QED BY <3>2, <3>3
  <2>2. up' \in [key : Vals \cup {0}, lChild : Block \cup {-1}, rChild : Block \cup {-1}]
    BY <1>6 DEF NoEntry
  <2> QED BY <1>2, <1>6, <1>8, <2>1, <2>2 DEF TypeInv, NoRec
<1>12. Control'
  <2>1. root \in Block /\ root \in Index /\ blk'[root].pblock = -1
    BY <1>2, <1>5, <1>6, <1>9 DEF Control
  <2> QED BY <1>6, <1>10, <2>1 DEF Control
<1>13. RecordsOnce'
  <2>1. Waiting' = ToSet(todo) /\ Waiting = ToSet(todo) /\ pc' # "find"
    BY <1>6 DEF Waiting
  <2> QED BY <1>2, <1>6, <1>9, <2>1 DEF RecordsOnce
<1>14. Tree(range, level)'
  <2>1. \A c \in Block : Cut(c)' = Vals
    BY <1>10 DEF Cut
  <2>2. ASSUME NEW c \in Block, IsLeaf(c)
        PROVE  LeafOk(c, range, level)'
    <3>1. LeafOk(c, range, level) /\ c # b
      BY <1>1, <1>5, <2>2 DEF Tree
    <3>2. blk'[c] = blk[c]
      BY <1>8, <3>1
    <3> QED BY <3>1, <3>2 DEF LeafOk
  <2>3. ASSUME NEW c \in Block, IsInternal(c)
        PROVE  InternalOk(c, range, level)'
    <3>1. CASE c = b
      <4>1. \A i \in 1 .. Len(C) : ChildOk(b, C[i], range, level, Slice(range[b], K, i))'
        <5> TAKE i \in 1 .. Len(C)
        <5>1. PICK k : k = C[i]
          OBVIOUS
        <5>2. /\ k \in Index /\ k \in Block /\ blk[k].pblock = b /\ level[b] = level[k] + 1
              /\ range[k] = Slice(range[b], K, i)
          BY <1>5, <1>7, <5>1
        <5>3. range[k] \subseteq Vals
          BY <5>2
        <5>4. ChildOk(b, k, range, level, Slice(range[b], K, i))'
          BY <1>9, <1>10, <2>1, <5>2, <5>3 DEF ChildOk
        <5> QED BY <5>1, <5>4
      <4> QED BY <1>7, <1>8, <3>1, <4>1, InternalOkNext
    <3>2. CASE c # b
      <4>1. InternalOk(c, range, level)
        BY <1>1, <2>3 DEF Tree
      <4>2. PICK keys, kids : keys = blk[c].keys /\ kids = blk[c].kids
        OBVIOUS
      <4>3. /\ Ascend(keys) /\ ToSet(keys) \subseteq range[c] /\ OnceOnly(kids)
            /\ blk'[c].keys = keys /\ blk'[c].kids = kids
        BY <1>8, <3>2, <4>1, <4>2 DEF InternalOk
      <4>4. \A i \in 1 .. Len(kids) : ChildOk(c, kids[i], range, level, Slice(range[c], keys, i))'
        <5> TAKE i \in 1 .. Len(kids)
        <5>1. PICK k : k = kids[i]
          OBVIOUS
        <5>2. ChildOk(c, k, range, level, Slice(range[c], keys, i))
          BY <4>1, <4>2, <5>1 DEF InternalOk
        <5>3. k \in Index /\ k \in Block /\ k # l
          BY <1>5, <3>2, <5>2 DEF ChildOk
        <5>4. Cut(k) = Vals
          BY <1>3, <5>3 DEF Cut
        <5>5. ChildOk(c, k, range, level, Slice(range[c], keys, i))'
          BY <1>9, <1>10, <2>1, <5>2, <5>3, <5>4 DEF ChildOk
        <5> QED BY <5>1, <5>5
      <4> QED BY <4>3, <4>4, InternalOkNext
    <3> QED BY <3>1, <3>2
  <2>4. Roots' = {root} /\ Roots = {root, r}
    BY <1>3, <1>5, <1>6, <1>10 DEF Roots
  <2>5. ASSUME NEW c \in Index \ {root}
        PROVE  HasParent(c)'
    <3>1. CASE c = r
      <4>1. blk'[c].pblock = b /\ b \in Block /\ IsInternal(b)' /\ c \in ToSet(blk'[b].kids)
        BY <1>5, <1>7, <1>8, <1>9, <3>1
      <4> QED BY <4>1 DEF HasParent
    <3>2. CASE c # r
      <4>1. HasParent(c) /\ c \in Block
        BY <1>1, <1>5, <2>4, <3>2 DEF Tree
      <4>2. PICK p \in Block : p = blk[c].pblock /\ IsInternal(p) /\ c \in ToSet(blk[p].kids)
        BY <4>1 DEF HasParent
      <4>3. c \in ToSet(blk'[p].kids)
        BY <1>7, <1>8, <4>2
      <4>4. blk'[c].pblock = p /\ IsInternal(p)'
        BY <1>9, <4>1, <4>2
      <4> QED BY <4>3, <4>4 DEF HasParent
    <3> QED BY <3>1, <3>2
  <2>6. SplitOk(range, level)'
    BY <1>10 DEF SplitOk
  <2>7. range[root'] = Cut(root)'
    <3>1. root \in Block /\ root # l
      <4>1. root \in Index /\ blk[root].pblock = -1
        BY <1>2, <1>6 DEF Control
      <4>2. blk[l].pblock # -1
        BY <1>5, TreeAssumption DEF Block
      <4> QED BY <1>5, <4>1, <4>2
    <3>2. range[root] = Vals
      BY <1>1, <1>3, <1>6, <3>1 DEF Tree, Cut
    <3> QED BY <1>6, <2>1, <3>1, <3>2
  <2>8. \A c \in Index : level[c] <= level[root]
    BY <1>1 DEF Tree
  <2>9. pc' # "find"
    BY <1>6
  <2> QED BY <1>6, <1>9, <1>10, <2>2, <2>3, <2>4, <2>5, <2>6, <2>7, <2>8, <2>9 DEF Tree
<1> QED BY <1>11, <1>12, <1>13, <1>14 DEF IInv

\* The middle of an internal block that is full.
LEMMA InternalHalf ==
  MAX_KEYS_INTERNAL \div 2 \in Nat \ {0} /\ 2 * (MAX_KEYS_INTERNAL \div 2) = MAX_KEYS_INTERNAL
BY TreeAssumption

\* block b keeps L and CL, the new block n beside it has G and CR
InternalCut(new, b, n, L, CL, G, CR) ==
  /\ new[b].type = blk[b].type /\ new[b].pblock = blk[b].pblock /\ new[b].recs = blk[b].recs
  /\ new[b].keys = L /\ new[b].kids = CL
  /\ new[n].type = "IND_INTERNAL" /\ new[n].pblock = blk[b].pblock /\ new[n].recs = <<>>
  /\ new[n].keys = G /\ new[n].kids = CR
  /\ \A c \in Block \ {b, n} :
       /\ new[c].type = blk[c].type /\ new[c].recs = blk[c].recs /\ new[c].rblock = blk[c].rblock
       /\ new[c].keys = blk[c].keys /\ new[c].kids = blk[c].kids
       /\ new[c].pblock = IF c \in ToSet(CR) THEN n ELSE blk[c].pblock

\* splitInternal changes two blocks, and the parent link of each child it moves.
LEMMA splitInternalIs ==
  ASSUME TypeInv, NEW b \in Block, NEW n \in Block, b # n, NEW K, NEW C,
         NEW h, h = MAX_KEYS_INTERNAL \div 2,
         NEW L \in Seq(Vals), L = SubSeq(K, 1, h), NEW G \in Seq(Vals), G = SubSeq(K, h + 2, 2 * h + 1),
         NEW CL \in Seq(Block), CL = SubSeq(C, 1, h + 1),
         NEW CR \in Seq(Block), CR = SubSeq(C, h + 2, 2 * h + 2),
         b \notin ToSet(CR), n \notin ToSet(CR),
         NEW new, new = splitInternal(b, n, K, C)
  PROVE  new \in [Block -> Blocks] /\ InternalCut(new, b, n, L, CL, G, CR)
<1>1. blk \in [Block -> Blocks] /\ blk[b] \in Blocks
  BY DEF TypeInv
<1> DEFINE left  == [blk[b] EXCEPT !.keys = L, !.kids = CL, !.rblock = n]
           right == [Node("IND_INTERNAL") EXCEPT !.keys = G, !.kids = CR, !.pblock = blk[b].pblock]
<1>2. PICK halves : halves = [blk EXCEPT ![b].keys = L, ![b].kids = CL, ![b].rblock = n, ![n] = right]
  OBVIOUS
<1>3. new = [c \in Block |-> IF c \in ToSet(CR) THEN [halves[c] EXCEPT !.pblock = n] ELSE halves[c]]
  BY <1>2 DEF splitInternal
<1>4. /\ left \in Blocks /\ left.type = blk[b].type /\ left.pblock = blk[b].pblock
      /\ left.recs = blk[b].recs /\ left.keys = L /\ left.kids = CL
  BY <1>1 DEF Blocks
<1>5. /\ right \in Blocks /\ right.type = "IND_INTERNAL" /\ right.pblock = blk[b].pblock
      /\ right.recs = <<>> /\ right.keys = G /\ right.kids = CR
  <2>1. Node("IND_INTERNAL") \in Blocks /\ Node("IND_INTERNAL").type = "IND_INTERNAL"
        /\ Node("IND_INTERNAL").recs = <<>>
    BY NodeIs DEF BlockType
  <2> QED BY <1>1, <2>1 DEF Blocks
<1>6. halves[b] = left /\ halves[n] = right /\ \A c \in Block \ {b, n} : halves[c] = blk[c]
  <2> HIDE DEF right
  <2> QED BY <1>1, <1>2
<1>7. new[b] = left /\ new[n] = right
  <2> HIDE DEF left, right
  <2> QED BY <1>3, <1>6
<1>8. ASSUME NEW c \in Block \ {b, n}
      PROVE  /\ new[c] \in Blocks /\ new[c].rblock = blk[c].rblock
             /\ new[c].type = blk[c].type /\ new[c].recs = blk[c].recs
             /\ new[c].keys = blk[c].keys /\ new[c].kids = blk[c].kids
             /\ new[c].pblock = IF c \in ToSet(CR) THEN n ELSE blk[c].pblock
  <2>1. blk[c] \in Blocks /\ halves[c] = blk[c]
    BY <1>1, <1>6
  <2>2. new[c] = IF c \in ToSet(CR) THEN [blk[c] EXCEPT !.pblock = n] ELSE blk[c]
    BY <1>3, <2>1
  <2> QED BY <2>1, <2>2 DEF Blocks
<1>9. new \in [Block -> Blocks]
  <2> HIDE DEF left, right
  <2>1. \A c \in Block : new[c] \in Blocks
    BY <1>4, <1>5, <1>7, <1>8
  <2>2. new = [c \in Block |-> new[c]]
    BY <1>3
  <2> QED BY <2>1, <2>2
<1> QED BY <1>4, <1>5, <1>7, <1>8, <1>9 DEF InternalCut

\* A full internal block is split, and the new half waits for its place in turn.
LEMMA InternalSplitOk ==
  ASSUME IInv, pc = "internal", Unused # {}, NEW K, NEW C, Placed(K, C),
         Len(K) = MAX_KEYS_INTERNAL + 1,
         blk' = splitInternal(at, NewBlock, K, C), PutUp(at, NewBlock, K[MAX_KEYS_INTERNAL \div 2 + 1]),
         at' = blk[at].pblock, rows' = rows
  PROVE  IInv'
<1>1. PICK range \in [Block -> SUBSET Vals], level \in [Block -> Nat] : Tree(range, level)
  BY DEF IInv
<1>2. TypeInv /\ Control /\ RecordsOnce
  BY DEF IInv
<1>3. PICK b, l, r : b = at /\ l = up.lChild /\ r = up.rChild
  OBVIOUS
<1>4. EntryOk(b, range, level, K, C)
  BY <1>1, <1>3 DEF Placed
<1>5. /\ Splitting /\ b \in Block /\ IsInternal(b) /\ ~ IsLeaf(b) /\ b \in Index
      /\ l \in Index /\ r \in Index /\ level[r] = level[l]
      /\ blk[l].pblock = b /\ blk[r].pblock = b /\ r # root /\ Index \subseteq Block
  BY <1>1, <1>3 DEF Tree, SplitOk, Splitting, Index, IsLeaf, IsInternal
<1>6. PICK n \in Block : n = NewBlock /\ n \in Unused
  BY NewBlockIs DEF Unused
<1>7. PICK h \in Nat \ {0} : h = MAX_KEYS_INTERNAL \div 2 /\ 2 * h = MAX_KEYS_INTERNAL
  BY InternalHalf
<1>8. PICK p \in Block \cup {-1} : p = blk[b].pblock
  BY <1>2, <1>5 DEF TypeInv, Blocks
<1>9. PICK R \in SUBSET Vals : R = range[b]
  BY <1>5
<1>10. PICK key : key = K[h + 1]
  OBVIOUS
<1>11. /\ K \in Seq(Vals) /\ Len(K) = 2 * h + 1 /\ Ascend(K) /\ ToSet(K) \subseteq R
       /\ C \in Seq(Block) /\ Len(C) = 2 * h + 2 /\ OnceOnly(C)
       /\ ToSet(C) = ToSet(blk[b].kids) \cup {r}
       /\ \A j \in 1 .. 2 * h + 2 :
            /\ C[j] \in Index /\ blk[C[j]].pblock = b /\ level[b] = level[C[j]] + 1
            /\ range[C[j]] = Slice(R, K, j)
  <2>1. Len(K) = 2 * h + 1
    BY <1>7
  <2>2. Len(C) = 2 * h + 2
    <3>1. Len(C) = Len(K) + 1
      BY <1>4 DEF EntryOk
    <3> QED BY <1>7, <2>1, <3>1
  <2>3. /\ K \in Seq(Vals) /\ Ascend(K) /\ ToSet(K) \subseteq R
        /\ C \in Seq(Block) /\ OnceOnly(C) /\ ToSet(C) = ToSet(blk[b].kids) \cup {r}
    BY <1>3, <1>4, <1>9 DEF EntryOk
  <2>4. \A j \in 1 .. Len(C) :
          /\ C[j] \in Index /\ blk[C[j]].pblock = b /\ level[b] = level[C[j]] + 1
          /\ range[C[j]] = Slice(R, K, j)
    BY <1>4, <1>9 DEF EntryOk
  <2> QED BY <2>1, <2>2, <2>3, <2>4
<1>12. PICK L, G : L = SubSeq(K, 1, h) /\ G = SubSeq(K, h + 2, 2 * h + 1)
  OBVIOUS
<1>13. PICK CL, CR : CL = SubSeq(C, 1, h + 1) /\ CR = SubSeq(C, h + 2, 2 * h + 2)
  OBVIOUS
<1>14. KeysHalved(R, h, K, L, G)
  BY <1>11, <1>12, HalvesAre
<1>15. KidsHalved(h, C, CL, CR)
  BY <1>11, <1>13, KidsHalvesAre
<1>16. /\ L \in Seq(Vals) /\ Len(L) = h /\ Ascend(L) /\ ToSet(L) \subseteq Low(R, key)
       /\ G \in Seq(Vals) /\ Len(G) = h /\ Ascend(G) /\ ToSet(G) \subseteq High(R, key)
       /\ \A j \in 1 .. h + 1 : Slice(Low(R, key), L, j) = Slice(R, K, j)
       /\ \A j \in 1 .. h + 1 : Slice(High(R, key), G, j) = Slice(R, K, h + 1 + j)
       /\ key \in R /\ key \in Vals /\ High(R, key) # {}
  BY <1>10, <1>14 DEF KeysHalved
<1>17. /\ CL \in Seq(Block) /\ Len(CL) = h + 1 /\ OnceOnly(CL) /\ \A j \in 1 .. h + 1 : CL[j] = C[j]
       /\ CR \in Seq(Block) /\ Len(CR) = h + 1 /\ OnceOnly(CR) /\ \A j \in 1 .. h + 1 : CR[j] = C[h + 1 + j]
       /\ ToSet(CL) \cup ToSet(CR) = ToSet(C) /\ ToSet(CL) \cap ToSet(CR) = {}
  BY <1>15 DEF KidsHalved
<1>18. n \notin Index /\ b # n /\ ~ IsInternal(n) /\ ~ IsLeaf(n)
  BY <1>5, <1>6 DEF Index, Unused, IsLeaf, IsInternal
<1>19. \A k \in ToSet(C) : /\ k \in Index /\ k \in Block /\ blk[k].pblock = b /\ level[b] = level[k] + 1
                           /\ k \notin {b, n}
  <2> TAKE k \in ToSet(C)
  <2>1. PICK j \in 1 .. 2 * h + 2 : C[j] = k
    <3>1. DOMAIN C = 1 .. 2 * h + 2
      BY <1>11
    <3> QED BY <3>1 DEF ToSet
  <2>2. k \in Index /\ k \in Block /\ blk[k].pblock = b /\ level[b] = level[k] + 1 /\ level[k] \in Nat
    BY <1>5, <1>11, <2>1
  <2>3. k # b
    BY <2>2
  <2> QED BY <1>18, <2>2, <2>3
<1>20. b \notin ToSet(CR) /\ n \notin ToSet(CR)
  BY <1>17, <1>19
<1>21. blk' \in [Block -> Blocks] /\ InternalCut(blk', b, n, L, CL, G, CR)
  <2>1. PICK new : new = splitInternal(b, n, K, C)
    OBVIOUS
  <2>2. new \in [Block -> Blocks] /\ InternalCut(new, b, n, L, CL, G, CR)
    BY <1>2, <1>5, <1>7, <1>12, <1>13, <1>16, <1>17, <1>18, <1>20, <2>1, splitInternalIs
  <2>3. blk' = new
    BY <1>3, <1>6, <2>1
  <2> QED BY <2>2, <2>3
<1>22. /\ blk'[b].type = blk[b].type /\ blk'[b].pblock = p /\ blk'[b].recs = blk[b].recs
       /\ blk'[b].keys = L /\ blk'[b].kids = CL
       /\ blk'[n].type = "IND_INTERNAL" /\ blk'[n].pblock = p /\ blk'[n].recs = <<>>
       /\ blk'[n].keys = G /\ blk'[n].kids = CR
       /\ \A c \in Block \ {b, n} :
            /\ blk'[c].type = blk[c].type /\ blk'[c].recs = blk[c].recs
            /\ blk'[c].keys = blk[c].keys /\ blk'[c].kids = blk[c].kids
            /\ blk'[c].pblock = IF c \in ToSet(CR) THEN n ELSE blk[c].pblock
  BY <1>8, <1>21 DEF InternalCut
<1>23. /\ root' = root /\ todo' = todo /\ rec' = rec /\ rows' = rows /\ at' = p
       /\ up' = [key |-> key, lChild |-> b, rChild |-> n]
       /\ pc' = (IF p = -1 THEN "newroot" ELSE "internal") /\ root # -1
  BY <1>2, <1>3, <1>6, <1>7, <1>8, <1>10 DEF PutUp, Control
<1>24. Splitting' /\ up'.key = key /\ up'.lChild = b /\ up'.rChild = n
  BY <1>23 DEF Splitting
<1>25. \A c \in Block : /\ IsLeaf(c)' <=> IsLeaf(c)
                        /\ IsInternal(c)' <=> IsInternal(c) \/ c = n
                        /\ blk'[c].recs = (IF c = n THEN <<>> ELSE blk[c].recs)
  <2> TAKE c \in Block
  <2>1. CASE c = b
    BY <1>18, <1>22, <2>1 DEF IsLeaf, IsInternal
  <2>2. CASE c = n
    BY <1>18, <1>22, <2>2 DEF IsLeaf, IsInternal
  <2>3. CASE c \notin {b, n}
    BY <1>22, <2>3 DEF IsLeaf, IsInternal
  <2> QED BY <2>1, <2>2, <2>3
<1>26. Index' = Index \cup {n}
  BY <1>25 DEF Index
<1>27. /\ root \in Index /\ root \in Block /\ root # n /\ blk[root].pblock = -1 /\ root \notin ToSet(C)
       /\ root # l /\ blk'[root].pblock = -1 /\ b # -1
  <2>1. root \in Index /\ root \in Block /\ root # n /\ blk[root].pblock = -1 /\ b # -1
    BY <1>2, <1>5, <1>18, <1>23, TreeAssumption DEF Control, Block
  <2>2. root \notin ToSet(C) /\ root # l
    BY <1>5, <1>19, <2>1
  <2>3. blk'[root].pblock = -1
    <3>1. CASE root = b
      BY <1>8, <1>22, <2>1, <3>1
    <3>2. CASE root # b
      BY <1>17, <1>22, <2>1, <2>2, <3>2
    <3> QED BY <3>1, <3>2
  <2> QED BY <2>1, <2>2, <2>3
<1>28. TypeInv'
  <2>1. ASSUME NEW c \in Block
        PROVE  Fits(c)'
    <3>1. Fits(c) /\ Len(<<>>) = 0
      BY <1>2 DEF TypeInv
    <3>2. h <= MAX_KEYS_INTERNAL /\ 0 <= MAX_KEYS_LEAF
      BY <1>7, TreeAssumption
    <3>3. CASE c = b
      BY <1>5, <1>16, <1>17, <1>22, <1>25, <3>1, <3>2, <3>3 DEF Fits
    <3>4. CASE c = n
      BY <1>16, <1>17, <1>22, <1>25, <3>1, <3>2, <3>4 DEF Fits
    <3>5. CASE c \notin {b, n}
      BY <1>22, <1>25, <3>1, <3>5 DEF Fits
    <3> QED BY <3>3, <3>4, <3>5
  <2>2. up' \in [key : Vals \cup {0}, lChild : Block \cup {-1}, rChild : Block \cup {-1}]
    BY <1>5, <1>16, <1>23
  <2>3. pc' \in {"idle", "next", "find", "internal", "newroot"} /\ rec' \in ToSet(rows) \cup {NoRec}
    BY <1>2, <1>23 DEF TypeInv
  <2> QED BY <1>2, <1>21, <1>23, <2>1, <2>2, <2>3 DEF TypeInv
<1>29. Control'
  <2>1. pc' \notin {"next", "find"}
    BY <1>23
  <2> QED BY <1>23, <1>26, <1>27, <2>1 DEF Control
<1>30. RecordsOnce'
  <2>1. Waiting' = Waiting /\ pc' # "find"
    BY <1>23 DEF Waiting
  <2>2. \A c \in Block : IsLeaf(c)' => IsLeaf(c) /\ blk'[c].recs = blk[c].recs
    BY <1>18, <1>25
  <2> QED BY <1>2, <1>23, <2>1, <2>2 DEF RecordsOnce
<1>31. PICK range2 \in [Block -> SUBSET Vals] :
         range2 = [range EXCEPT ![b] = Low(R, key), ![n] = High(R, key)]
  BY DEF Low, High
<1>32. PICK level2 \in [Block -> Nat] : level2 = [level EXCEPT ![n] = level[b]]
  BY <1>5
<1>33. /\ range2[b] = Low(R, key) /\ range2[n] = High(R, key) /\ level2[n] = level[b]
       /\ \A c \in Block \ {b, n} : range2[c] = range[c]
       /\ \A c \in Block \ {n} : level2[c] = level[c]
  BY <1>5, <1>18, <1>31, <1>32
<1>34. \A c \in Block : Cut(c)' = (IF c = b THEN Low(Vals, key) ELSE Vals)
  BY <1>24 DEF Cut, Low
<1>35. InternalOk(b, range2, level2)'
  <2>1. \A j \in 1 .. Len(CL) : ChildOk(b, CL[j], range2, level2, Slice(range2[b], L, j))'
    <3> TAKE j \in 1 .. Len(CL)
    <3>1. PICK k : k = CL[j]
      OBVIOUS
    <3>2. j \in 1 .. h + 1 /\ j \in 1 .. 2 * h + 2 /\ k = C[j]
      <4>1. Len(CL) = h + 1
        BY <1>17
      <4>2. j \in 1 .. h + 1
        BY <4>1
      <4>3. j \in 1 .. 2 * h + 2
        BY <1>7, <4>2
      <4>4. CL[j] = C[j]
        BY <1>17, <4>2
      <4> QED BY <3>1, <4>2, <4>3, <4>4
    <3>3. k \in ToSet(CL)
      <4>1. j \in DOMAIN CL
        BY <1>17, <3>2
      <4> QED BY <3>1, <4>1 DEF ToSet
    <3>4. k \in ToSet(C) /\ k \notin ToSet(CR)
      BY <1>17, <3>3
    <3>5. k \in Index /\ k \in Block /\ blk'[k].pblock = b /\ level[b] = level[k] + 1 /\ k \notin {b, n}
      BY <1>19, <1>22, <3>4
    <3>6. range2[k] = Slice(range2[b], L, j)
      BY <1>11, <1>16, <1>33, <3>2, <3>5
    <3>7. level2[b] = level2[k] + 1
      BY <1>5, <1>18, <1>33, <3>5
    <3>8. Cut(k)' = Vals /\ range2[k] \subseteq Vals
      BY <1>34, <3>5
    <3>9. ChildOk(b, k, range2, level2, Slice(range2[b], L, j))'
      BY <1>24, <1>26, <3>5, <3>6, <3>7, <3>8 DEF ChildOk
    <3> QED BY <3>1, <3>9
  <2>2. Ascend(L) /\ ToSet(L) \subseteq range2[b] /\ OnceOnly(CL)
    BY <1>16, <1>17, <1>33
  <2>3. blk'[b].keys = L /\ blk'[b].kids = CL
    BY <1>22
  <2> QED BY <2>1, <2>2, <2>3, InternalOkNext
<1>36. InternalOk(n, range2, level2)'
  <2>1. \A j \in 1 .. Len(CR) : ChildOk(n, CR[j], range2, level2, Slice(range2[n], G, j))'
    <3> TAKE j \in 1 .. Len(CR)
    <3>1. PICK k : k = CR[j]
      OBVIOUS
    <3>2. j \in 1 .. h + 1 /\ h + 1 + j \in 1 .. 2 * h + 2 /\ k = C[h + 1 + j]
      <4>1. Len(CR) = h + 1
        BY <1>17
      <4>2. j \in 1 .. h + 1
        BY <4>1
      <4>3. h + 1 + j \in 1 .. 2 * h + 2
        <5>1. h \in Int /\ j \in Int /\ 0 <= h /\ 1 <= j /\ j <= h + 1
          BY <4>2
        <5> QED BY <5>1
      <4>4. CR[j] = C[h + 1 + j]
        BY <1>17, <4>2
      <4> QED BY <3>1, <4>2, <4>3, <4>4
    <3>3. k \in ToSet(CR)
      <4>1. j \in DOMAIN CR
        BY <1>17, <3>2
      <4> QED BY <3>1, <4>1 DEF ToSet
    <3>4. k \in ToSet(C)
      BY <1>17, <3>3
    <3>5. k \in Index /\ k \in Block /\ blk'[k].pblock = n /\ level[b] = level[k] + 1 /\ k \notin {b, n}
      BY <1>19, <1>22, <3>3, <3>4
    <3>6. range2[k] = Slice(range2[n], G, j)
      BY <1>11, <1>16, <1>33, <3>2, <3>5
    <3>7. level2[n] = level2[k] + 1
      BY <1>33, <3>5
    <3>8. Cut(k)' = Vals /\ range2[k] \subseteq Vals
      BY <1>34, <3>5
    <3>9. ChildOk(n, k, range2, level2, Slice(range2[n], G, j))'
      BY <1>24, <1>26, <3>5, <3>6, <3>7, <3>8 DEF ChildOk
    <3> QED BY <3>1, <3>9
  <2>2. Ascend(G) /\ ToSet(G) \subseteq range2[n] /\ OnceOnly(CR)
    BY <1>16, <1>17, <1>33
  <2>3. blk'[n].keys = G /\ blk'[n].kids = CR
    BY <1>22
  <2> QED BY <2>1, <2>2, <2>3, InternalOkNext
<1>37. ASSUME NEW c \in Block \ {b, n}, IsInternal(c)
       PROVE  InternalOk(c, range2, level2)'
  <2>1. InternalOk(c, range, level)
    BY <1>1, <1>37 DEF Tree
  <2>2. PICK keys, kids : keys = blk[c].keys /\ kids = blk[c].kids
    OBVIOUS
  <2>3. range2[c] = range[c] /\ level2[c] = level[c]
    BY <1>33
  <2>4. /\ Ascend(keys) /\ ToSet(keys) \subseteq range2[c] /\ OnceOnly(kids)
        /\ blk'[c].keys = keys /\ blk'[c].kids = kids
    BY <1>22, <2>1, <2>2, <2>3 DEF InternalOk
  <2>5. \A i \in 1 .. Len(kids) : ChildOk(c, kids[i], range2, level2, Slice(range2[c], keys, i))'
    <3> TAKE i \in 1 .. Len(kids)
    <3>1. PICK k : k = kids[i]
      OBVIOUS
    <3>2. ChildOk(c, k, range, level, Slice(range[c], keys, i))
      BY <2>1, <2>2, <3>1 DEF InternalOk
    <3>3. k \in Index /\ k \in Block /\ blk[k].pblock = c /\ level[c] = level[k] + 1 /\ k # n /\ k # l
      BY <1>5, <1>18, <3>2 DEF ChildOk
    <3>4. Cut(k) = Vals /\ range[k] = Slice(range[c], keys, i)
      <4>1. Cut(k) = Vals
        BY <1>3, <3>3 DEF Cut
      <4> QED BY <3>2, <3>3, <4>1 DEF ChildOk, Slice
    <3>5. k \notin ToSet(C) /\ k \notin ToSet(CR)
      BY <1>17, <1>19, <3>3
    <3>6. blk'[k].pblock = c
      <4>1. CASE k = b
        BY <1>8, <1>22, <3>3, <4>1
      <4>2. CASE k # b
        BY <1>22, <3>3, <3>5, <4>2
      <4> QED BY <4>1, <4>2
    <3>7. range2[k] = Slice(range2[c], keys, i) \cap Cut(k)'
      <4>1. range[k] \subseteq Vals
        BY <3>3
      <4>2. CASE k = b
        <5>1. Low(R, key) = R \cap Low(Vals, key)
          BY DEF Low
        <5> QED BY <1>9, <1>33, <1>34, <2>3, <3>3, <3>4, <4>2, <5>1
      <4>3. CASE k # b
        BY <1>33, <1>34, <2>3, <3>3, <3>4, <4>1, <4>3
      <4> QED BY <4>2, <4>3
    <3>8. level2[c] = level2[k] + 1
      BY <1>33, <2>3, <3>3
    <3>9. ChildOk(c, k, range2, level2, Slice(range2[c], keys, i))'
      BY <1>24, <1>26, <3>3, <3>6, <3>7, <3>8 DEF ChildOk
    <3> QED BY <3>1, <3>9
  <2> QED BY <2>4, <2>5, InternalOkNext
<1>38. ASSUME NEW c \in Block, IsLeaf(c)'
       PROVE  LeafOk(c, range2, level2)'
  <2>1. IsLeaf(c) /\ c \notin {b, n}
    BY <1>5, <1>18, <1>25, <1>38
  <2>2. LeafOk(c, range, level)
    BY <1>1, <2>1 DEF Tree
  <2>3. blk'[c].recs = blk[c].recs /\ range2[c] = range[c] /\ level2[c] = level[c]
    BY <1>22, <1>33, <2>1
  <2> QED BY <2>2, <2>3 DEF LeafOk
<1>39. Roots' = {root, n} /\ Roots = {root, r}
  BY <1>3, <1>5, <1>23, <1>24 DEF Roots
<1>40. ASSUME NEW c \in Index' \ Roots'
       PROVE  HasParent(c)'
  <2>1. c \in Index /\ c # root /\ c # n /\ c \in Block
    BY <1>5, <1>26, <1>39, <1>40
  <2>2. CASE c \in ToSet(CR)
    <3>1. c # b
      BY <1>20, <2>2
    <3>2. blk'[c].pblock = n /\ n \in Block /\ IsInternal(n)' /\ c \in ToSet(blk'[n].kids)
      BY <1>22, <1>25, <2>1, <2>2, <3>1
    <3> QED BY <3>2 DEF HasParent
  <2>3. CASE c \in ToSet(CL)
    <3>1. c \notin ToSet(CR) /\ c # b /\ blk[c].pblock = b
      BY <1>17, <1>19, <2>3
    <3>2. blk'[c].pblock = b /\ b \in Block /\ IsInternal(b)' /\ c \in ToSet(blk'[b].kids)
      BY <1>5, <1>22, <1>25, <2>1, <2>3, <3>1
    <3> QED BY <3>2 DEF HasParent
  <2>4. CASE c \notin ToSet(C)
    <3>1. c # r /\ c \notin ToSet(blk[b].kids) /\ c \notin ToSet(CR)
      BY <1>11, <1>17, <2>4
    <3>2. HasParent(c)
      BY <1>1, <1>39, <2>1, <3>1 DEF Tree
    <3>3. PICK q \in Block : q = blk[c].pblock /\ IsInternal(q) /\ c \in ToSet(blk[q].kids)
      BY <3>2 DEF HasParent
    <3>4. q \notin {b, n}
      BY <1>18, <3>1, <3>3
    <3>5. blk'[c].pblock = q
      <4>1. CASE c = b
        BY <1>8, <1>22, <3>3, <4>1
      <4>2. CASE c # b
        BY <1>22, <2>1, <3>1, <3>3, <4>2
      <4> QED BY <4>1, <4>2
    <3>6. IsInternal(q)' /\ c \in ToSet(blk'[q].kids)
      BY <1>22, <1>25, <3>3, <3>4
    <3> QED BY <3>5, <3>6 DEF HasParent
  <2> QED BY <1>17, <2>2, <2>3, <2>4
<1>41. range2[root'] = Cut(root)'
  <2>1. range[root] = Vals
    BY <1>1, <1>3, <1>23, <1>27 DEF Tree, Cut
  <2>2. CASE root = b
    BY <1>9, <1>23, <1>27, <1>33, <1>34, <2>1, <2>2
  <2>3. CASE root # b
    BY <1>23, <1>27, <1>33, <1>34, <2>1, <2>3
  <2> QED BY <2>2, <2>3
<1>42. b # l /\ b # r
  <2>1. level[l] \in Nat /\ level[r] \in Nat /\ level[b] = level[r] + 1
    <3>1. r \in ToSet(C)
      BY <1>11
    <3> QED BY <1>5, <1>19, <3>1
  <2> QED BY <1>5, <2>1
<1>43. ASSUME p # -1
       PROVE  /\ p \in Block /\ IsInternal(p)'
              /\ \E i \in 1 .. Len(blk'[p].kids) :
                   LET slice == Slice(range2[p], blk'[p].keys, i) IN
                   /\ blk'[p].kids[i] = b /\ key \in slice
                   /\ i <= Len(blk'[p].keys) => key < blk'[p].keys[i]
                   /\ range2[n] = {v \in slice : v > key}
  <2>1. b \in Index \ Roots
    BY <1>5, <1>8, <1>27, <1>39, <1>42, <1>43
  <2>2. IsInternal(p) /\ p \in Block /\ b \in ToSet(blk[p].kids)
    BY <1>1, <1>8, <2>1 DEF Tree, HasParent
  <2>3. InternalOk(p, range, level) /\ blk[p].kids \in Seq(Block) /\ blk[p].keys \in Seq(Vals)
    BY <1>1, <1>2, <2>2 DEF Tree, TypeInv, Blocks
  <2>4. PICK i \in 1 .. Len(blk[p].kids) : blk[p].kids[i] = b
    <3>1. DOMAIN blk[p].kids = 1 .. Len(blk[p].kids)
      BY <2>3
    <3> QED BY <2>2, <3>1 DEF ToSet
  <2>5. ChildOk(p, b, range, level, Slice(range[p], blk[p].keys, i))
    BY <2>3, <2>4 DEF InternalOk
  <2>6. R = Slice(range[p], blk[p].keys, i) /\ level[p] = level[b] + 1
    <3>1. Cut(b) = Vals
      BY <1>3, <1>42 DEF Cut
    <3>2. Slice(range[p], blk[p].keys, i) \subseteq Vals
      BY <2>2 DEF Slice
    <3> QED BY <1>9, <2>5, <3>1, <3>2 DEF ChildOk
  <2>7. p \notin {b, n}
    <3>1. level[b] \in Nat
      BY <1>5
    <3> QED BY <1>18, <2>2, <2>6, <3>1
  <2>8. blk'[p].keys = blk[p].keys /\ blk'[p].kids = blk[p].kids /\ range2[p] = range[p] /\ IsInternal(p)'
    BY <1>22, <1>25, <1>33, <2>2, <2>7
  <2>9. i <= Len(blk[p].keys) => key < blk[p].keys[i]
    <3>1. PICK v \in R : v > key
      BY <1>16 DEF High
    <3>2. SUFFICES ASSUME i <= Len(blk[p].keys)
                   PROVE  key < blk[p].keys[i]
      OBVIOUS
    <3>3. v <= blk[p].keys[i]
      BY <2>6, <3>1, <3>2 DEF Slice
    <3>4. i \in 1 .. Len(blk[p].keys)
      BY <2>3, <3>2
    <3>5. blk[p].keys[i] \in Vals /\ v \in Vals
      BY <2>3, <3>4
    <3>6. blk[p].keys[i] \in Nat /\ v \in Nat /\ key \in Nat
      BY <1>16, <3>5, Values
    <3> QED BY <3>1, <3>3, <3>6
  <2>10. range2[n] = {v \in R : v > key}
    BY <1>33 DEF High
  <2> QED BY <1>16, <2>2, <2>4, <2>6, <2>8, <2>9, <2>10
<1>44. ASSUME p = -1
       PROVE  b = root /\ range2[n] = {v \in Vals : v > key}
  <2>1. b = root
    <3>1. b \notin Roots => HasParent(b)
      BY <1>1, <1>5 DEF Tree
    <3>2. ~ HasParent(b)
      BY <1>8, <1>44, TreeAssumption DEF HasParent, Block
    <3> QED BY <1>39, <1>42, <3>1, <3>2
  <2>2. range[root] = Vals
    BY <1>1, <1>3, <1>23, <1>27 DEF Tree, Cut
  <2> QED BY <1>9, <1>33, <2>1, <2>2 DEF High
<1>45. SplitOk(range2, level2)'
  <2>1. level2[n] = level2[b] /\ blk'[n].pblock = p /\ blk'[b].pblock = p /\ b \in Index' /\ n \in Index'
    BY <1>5, <1>18, <1>22, <1>26, <1>33
  <2>2. (pc' = "internal" <=> p # -1) /\ (pc' = "newroot" <=> p = -1)
    BY <1>23
  <2> QED BY <1>16, <1>18, <1>23, <1>24, <1>27, <1>43, <1>44, <2>1, <2>2 DEF SplitOk
<1>46. Tree(range2, level2)'
  <2>1. \A c \in Index' : level2[c] <= level2[root']
    <3>1. \A c \in Index : level[c] <= level[root]
      BY <1>1 DEF Tree
    <3> QED BY <1>5, <1>18, <1>23, <1>26, <1>27, <1>33, <3>1
  <2>2. \A c \in Block : IsInternal(c)' => InternalOk(c, range2, level2)'
    BY <1>25, <1>35, <1>36, <1>37
  <2>3. pc' # "find"
    BY <1>23
  <2> QED BY <1>38, <1>40, <1>41, <1>45, <2>1, <2>2, <2>3 DEF Tree
<1> QED BY <1>28, <1>29, <1>30, <1>46 DEF IInv

-----------------------------------------------------------------------------
(* insertIntoInternal and createNewRoot.                                   *)

\* The place the code finds is good for all ranges and levels.
LEMMA PlacedIs ==
  ASSUME Numeric, TypeInv, pc = "internal", NEW order \in InternalOrders,
         NEW i, i = Place(blk[at].keys, order, up.key),
         NEW K, K = InsertAt(blk[at].keys, i, up.key),
         NEW C, C = TwoFor(blk[at].kids, i, up.lChild, up.rChild)
  PROVE  Placed(K, C)
BY NewEntry DEF Placed

\* insertIntoInternal keeps the invariant.
LEMMA insertIntoInternalOk ==
  ASSUME Numeric, IInv, insertIntoInternal
  PROVE  IInv'
<1>1. PICK order \in InternalOrders :
        LET old  == blk[at]
            i    == Place(old.keys, order, up.key)
            keys == InsertAt(old.keys, i, up.key)
            kids == SubSeq(old.kids, 1, i - 1) \o <<up.lChild, up.rChild>>
                      \o SubSeq(old.kids, i + 1, Len(old.kids))
            mid  == keys[MAX_KEYS_INTERNAL \div 2 + 1]
        IN
        /\ pc = "internal"
        /\ \/ /\ Len(keys) <= MAX_KEYS_INTERNAL
              /\ blk' = [blk EXCEPT ![at].keys = keys, ![at].kids = kids]
              /\ Return
              /\ at' = -1 /\ up' = NoEntry
              /\ UNCHANGED <<root, todo>>
           \/ /\ Len(keys) > MAX_KEYS_INTERNAL /\ Unused # {}
              /\ blk' = splitInternal(at, NewBlock, keys, kids)
              /\ PutUp(at, NewBlock, mid)
           \/ /\ Len(keys) > MAX_KEYS_INTERNAL /\ Unused = {}
              /\ Unwind(Subtree(up.rChild))
              /\ at' = -1
        /\ UNCHANGED rows
  BY DEF insertIntoInternal
<1>2. PICK i : i = Place(blk[at].keys, order, up.key)
  OBVIOUS
<1>3. PICK K : K = InsertAt(blk[at].keys, i, up.key)
  OBVIOUS
<1>4. PICK C : C = TwoFor(blk[at].kids, i, up.lChild, up.rChild)
  OBVIOUS
<1>5. C = SubSeq(blk[at].kids, 1, i - 1) \o <<up.lChild, up.rChild>>
            \o SubSeq(blk[at].kids, i + 1, Len(blk[at].kids))
  BY <1>4 DEF TwoFor
<1>6. /\ pc = "internal" /\ rows' = rows
      /\ \/ /\ Len(K) <= MAX_KEYS_INTERNAL
            /\ blk' = [blk EXCEPT ![at].keys = K, ![at].kids = C]
            /\ Return
            /\ at' = -1 /\ up' = NoEntry
            /\ UNCHANGED <<root, todo>>
         \/ /\ Len(K) > MAX_KEYS_INTERNAL /\ Unused # {}
            /\ blk' = splitInternal(at, NewBlock, K, C)
            /\ PutUp(at, NewBlock, K[MAX_KEYS_INTERNAL \div 2 + 1])
            /\ at' = blk[at].pblock
         \/ /\ Len(K) > MAX_KEYS_INTERNAL /\ Unused = {}
            /\ Unwind(Subtree(up.rChild))
            /\ at' = -1
  BY <1>1, <1>2, <1>3, <1>5 DEF PutUp
<1>7. TypeInv /\ \E range \in [Block -> SUBSET Vals], level \in [Block -> Nat] : Tree(range, level)
  BY DEF IInv
<1>8. Placed(K, C)
  BY <1>2, <1>3, <1>4, <1>6, <1>7, PlacedIs
<1>9. CASE /\ Len(K) <= MAX_KEYS_INTERNAL
           /\ blk' = [blk EXCEPT ![at].keys = K, ![at].kids = C]
           /\ Return
           /\ at' = -1 /\ up' = NoEntry
           /\ UNCHANGED <<root, todo>>
  BY <1>6, <1>8, <1>9, InternalFitsOk
<1>10. CASE /\ Len(K) > MAX_KEYS_INTERNAL /\ Unused # {}
            /\ blk' = splitInternal(at, NewBlock, K, C)
            /\ PutUp(at, NewBlock, K[MAX_KEYS_INTERNAL \div 2 + 1])
            /\ at' = blk[at].pblock
  <2>1. PICK range \in [Block -> SUBSET Vals], level \in [Block -> Nat] : Tree(range, level)
    BY <1>7
  <2>2. at \in Block
    BY <1>6, <2>1 DEF Tree, SplitOk, Splitting
  <2>3. Len(K) = Len(blk[at].keys) + 1 /\ K \in Seq(Vals)
    BY <1>8, <2>1 DEF Placed, EntryOk
  <2>4. Len(blk[at].keys) <= MAX_KEYS_INTERNAL /\ Len(blk[at].keys) \in Nat
    BY <1>7, <2>2, LenProperties DEF TypeInv, Fits, Blocks
  <2>5. Len(K) = MAX_KEYS_INTERNAL + 1
    <3>1. MAX_KEYS_INTERNAL \in Nat
      BY TreeAssumption
    <3>2. Len(K) > MAX_KEYS_INTERNAL
      BY <1>10
    <3> QED BY <2>3, <2>4, <3>1, <3>2
  <2> QED BY <1>6, <1>8, <1>10, <2>5, InternalSplitOk
<1>11. CASE /\ Len(K) > MAX_KEYS_INTERNAL /\ Unused = {}
            /\ Unwind(Subtree(up.rChild))
            /\ at' = -1
  BY <1>6, <1>11, UnwindOk
<1> QED BY <1>6, <1>9, <1>10, <1>11

\* createNewRoot keeps the invariant.
LEMMA createNewRootOk ==
  ASSUME IInv, createNewRoot
  PROVE  IInv'
<1>1. PICK range \in [Block -> SUBSET Vals], level \in [Block -> Nat] : Tree(range, level)
  BY DEF IInv
<1>2. TypeInv /\ Control /\ RecordsOnce
  BY DEF IInv
<1>3. pc = "newroot" /\ at' = -1 /\ rows' = rows /\ Splitting
  BY DEF createNewRoot, Splitting
<1>4. CASE Unused = {}
  <2>1. Unwind(Subtree(up.rChild))
    BY <1>4 DEF createNewRoot
  <2> QED BY <1>3, <2>1, UnwindOk
<1>5. CASE Unused # {}
  <2>1. PICK n \in Block : n = NewBlock /\ n \in Unused
    BY <1>5, NewBlockIs DEF Unused
  <2>2. PICK l, r, key : l = up.lChild /\ r = up.rChild /\ key = up.key
    OBVIOUS
  <2>3. PICK right : right = [Node("IND_INTERNAL") EXCEPT !.keys = <<key>>, !.kids = <<l, r>>]
    OBVIOUS
  <2>4. /\ blk' = [blk EXCEPT ![n] = right, ![l].pblock = n, ![r].pblock = n]
        /\ root' = n /\ Return /\ up' = NoEntry /\ todo' = todo
    BY <1>5, <2>1, <2>2, <2>3 DEF createNewRoot
  <2>5. /\ key \in Vals /\ l \in Index /\ r \in Index /\ l # r /\ r # root /\ l = root
        /\ level[r] = level[l] /\ range[r] = {v \in Vals : v > key} /\ Index \subseteq Block
        /\ l \in Block /\ r \in Block
    BY <1>1, <1>3, <2>2 DEF Tree, SplitOk, Splitting, Index
  <2>6. root # -1 /\ root' = n /\ pc' = (IF todo = <<>> THEN "idle" ELSE "next") /\ rec' = NoRec
        /\ up' = NoEntry /\ todo' = todo
    BY <1>2, <1>3, <2>4 DEF Return, Control
  <2>7. n \notin Index /\ n # l /\ n # r /\ ~ IsInternal(n) /\ ~ IsLeaf(n)
    BY <2>1, <2>5 DEF Index, Unused, IsLeaf, IsInternal
  <2>8. blk \in [Block -> Blocks] /\ blk[l] \in Blocks /\ blk[r] \in Blocks
    BY <1>2, <2>5 DEF TypeInv
  <2>9. /\ right \in Blocks /\ right.type = "IND_INTERNAL" /\ right.pblock = -1
        /\ right.recs = <<>> /\ right.keys = <<key>> /\ right.kids = <<l, r>>
    <3>1. Node("IND_INTERNAL") \in Blocks /\ Node("IND_INTERNAL").type = "IND_INTERNAL"
          /\ Node("IND_INTERNAL").recs = <<>> /\ Node("IND_INTERNAL").pblock = -1
      BY NodeIs DEF BlockType, Node
    <3>2. <<key>> \in Seq(Vals) /\ <<l, r>> \in Seq(Block)
      BY <2>5
    <3> QED BY <2>3, <3>1, <3>2 DEF Blocks
  <2>10. /\ blk' \in [Block -> Blocks] /\ blk'[n] = right
         /\ \A c \in Block \ {n} :
              /\ blk'[c].type = blk[c].type /\ blk'[c].recs = blk[c].recs
              /\ blk'[c].keys = blk[c].keys /\ blk'[c].kids = blk[c].kids
              /\ blk'[c].pblock = IF c \in {l, r} THEN n ELSE blk[c].pblock
    <3>1. \A c \in Block :
            blk'[c] = IF c = n THEN right
                      ELSE IF c \in {l, r} THEN [blk[c] EXCEPT !.pblock = n] ELSE blk[c]
      BY <2>4, <2>5, <2>7, <2>8
    <3>2. blk' = [c \in Block |-> blk'[c]]
      BY <2>4, <2>8
    <3>3. ASSUME NEW c \in Block \ {n}
          PROVE  /\ blk'[c] \in Blocks
                 /\ blk'[c].type = blk[c].type /\ blk'[c].recs = blk[c].recs
                 /\ blk'[c].keys = blk[c].keys /\ blk'[c].kids = blk[c].kids
                 /\ blk'[c].pblock = IF c \in {l, r} THEN n ELSE blk[c].pblock
      <4>1. blk[c] \in Blocks
        BY <2>8
      <4>2. blk'[c] = IF c \in {l, r} THEN [blk[c] EXCEPT !.pblock = n] ELSE blk[c]
        BY <3>1, <3>3
      <4> QED BY <4>1, <4>2 DEF Blocks
    <3> QED BY <2>9, <3>1, <3>2, <3>3
  <2>11. \A c \in Block : /\ IsLeaf(c)' <=> IsLeaf(c)
                          /\ IsInternal(c)' <=> IsInternal(c) \/ c = n
    <3> TAKE c \in Block
    <3>1. CASE c = n
      BY <2>7, <2>9, <2>10, <3>1 DEF IsLeaf, IsInternal
    <3>2. CASE c # n
      BY <2>10, <3>2 DEF IsLeaf, IsInternal
    <3> QED BY <3>1, <3>2
  <2>12. Index' = Index \cup {n} /\ ~ Splitting' /\ pc' \notin {"find", "internal", "newroot"}
    BY <2>6, <2>11 DEF Index, Splitting
  <2>13. TypeInv'
    <3>1. ASSUME NEW c \in Block
          PROVE  Fits(c)'
      <4>1. Fits(c)
        BY <1>2 DEF TypeInv
      <4>2. 1 <= MAX_KEYS_INTERNAL /\ 0 <= MAX_KEYS_LEAF
        BY TreeAssumption
      <4>3. CASE c = n
        <5>1. Len(<<>>) = 0 /\ Len(<<key>>) = 1 /\ Len(<<l, r>>) = 2
          OBVIOUS
        <5>2. IsInternal(n)'
          BY <2>11
        <5>3. blk'[n].recs = <<>> /\ blk'[n].keys = <<key>> /\ blk'[n].kids = <<l, r>>
          BY <2>9, <2>10
        <5>4. Fits(n)'
          BY <4>2, <5>1, <5>2, <5>3 DEF Fits
        <5> QED BY <4>3, <5>4
      <4>4. CASE c # n
        BY <2>10, <2>11, <4>1, <4>4 DEF Fits
      <4> QED BY <4>3, <4>4
    <3>2. up' \in [key : Vals \cup {0}, lChild : Block \cup {-1}, rChild : Block \cup {-1}]
      BY <2>6 DEF NoEntry
    <3>3. pc' \in {"idle", "next", "find", "internal", "newroot"}
      BY <2>6
    <3> QED BY <1>2, <1>3, <2>1, <2>6, <2>10, <3>1, <3>2, <3>3 DEF TypeInv
  <2>14. Control'
    <3>1. n # -1
      BY TreeAssumption DEF Block
    <3>2. pc' = "next" => todo' # <<>>
      BY <2>6
    <3> QED BY <2>6, <2>9, <2>10, <2>12, <3>1, <3>2 DEF Control
  <2>15. RecordsOnce'
    <3>1. Waiting' = Waiting /\ pc' # "find"
      BY <1>3, <2>6, <2>12 DEF Waiting
    <3>2. \A c \in Block : IsLeaf(c)' => IsLeaf(c) /\ blk'[c].recs = blk[c].recs
      BY <2>7, <2>10, <2>11
    <3> QED BY <1>2, <1>3, <2>6, <3>1, <3>2 DEF RecordsOnce
  <2>16. PICK range2 \in [Block -> SUBSET Vals] : range2 = [range EXCEPT ![n] = Vals]
    OBVIOUS
  <2>17. PICK level2 \in [Block -> Nat] : level2 = [level EXCEPT ![n] = level[l] + 1]
    <3>1. level[l] + 1 \in Nat
      BY <2>5
    <3> QED BY <3>1
  <2>18. /\ range2[n] = Vals /\ level2[n] = level[l] + 1
         /\ \A c \in Block \ {n} : range2[c] = range[c] /\ level2[c] = level[c]
    BY <2>16, <2>17
  <2>19. \A c : Cut(c)' = Vals
    BY <2>12 DEF Cut
  <2>20. range[l] = {v \in Vals : v <= key}
    <3>1. range[l] = Cut(l)
      BY <1>1, <2>5, <2>6 DEF Tree
    <3> QED BY <1>3, <2>2, <3>1 DEF Cut
  <2>21. InternalOk(n, range2, level2)'
    <3>1. PICK keys, kids : keys = <<key>> /\ kids = <<l, r>>
      OBVIOUS
    <3>2. Len(keys) = 1 /\ Len(kids) = 2 /\ keys[1] = key /\ kids[1] = l /\ kids[2] = r
      BY <3>1
    <3>3. Ascend(keys) /\ OnceOnly(kids)
      BY <2>5, <3>2 DEF Ascend, OnceOnly
    <3>4. ToSet(keys) \subseteq range2[n]
      BY <2>5, <2>18, <3>1 DEF ToSet
    <3>5. Slice(Vals, keys, 1) = {v \in Vals : v <= key}
      BY <3>2 DEF Slice
    <3>6. Slice(Vals, keys, 2) = {v \in Vals : v > key}
      <4>1. \A v \in Vals : key < v <=> v > key
        BY <2>5, Values
      <4> QED BY <3>2, <4>1 DEF Slice
    <3>7. ChildOk(n, l, range2, level2, Slice(range2[n], keys, 1))'
      BY <2>5, <2>7, <2>10, <2>12, <2>18, <2>19, <2>20, <3>5 DEF ChildOk
    <3>8. ChildOk(n, r, range2, level2, Slice(range2[n], keys, 2))'
      BY <2>5, <2>7, <2>10, <2>12, <2>18, <2>19, <3>6 DEF ChildOk
    <3>9. \A i \in 1 .. Len(kids) : ChildOk(n, kids[i], range2, level2, Slice(range2[n], keys, i))'
      <4> TAKE i \in 1 .. Len(kids)
      <4>1. i = 1 \/ i = 2
        BY <3>2
      <4>2. CASE i = 1
        BY <3>2, <3>7, <4>2
      <4>3. CASE i = 2
        BY <3>2, <3>8, <4>3
      <4> QED BY <4>1, <4>2, <4>3
    <3>10. blk'[n].keys = keys /\ blk'[n].kids = kids
      BY <2>9, <2>10, <3>1
    <3> QED BY <3>3, <3>4, <3>9, <3>10, InternalOkNext
  <2>22. ASSUME NEW c \in Block \ {n}, IsInternal(c)
         PROVE  InternalOk(c, range2, level2)'
    <3>1. InternalOk(c, range, level)
      BY <1>1, <2>22 DEF Tree
    <3>2. PICK keys, kids : keys = blk[c].keys /\ kids = blk[c].kids
      OBVIOUS
    <3>3. range2[c] = range[c] /\ level2[c] = level[c]
      BY <2>18
    <3>4. /\ Ascend(keys) /\ ToSet(keys) \subseteq range2[c] /\ OnceOnly(kids)
          /\ blk'[c].keys = keys /\ blk'[c].kids = kids
      BY <2>10, <3>1, <3>2, <3>3 DEF InternalOk
    <3>5. \A i \in 1 .. Len(kids) : ChildOk(c, kids[i], range2, level2, Slice(range2[c], keys, i))'
      <4> TAKE i \in 1 .. Len(kids)
      <4>1. PICK k : k = kids[i]
        OBVIOUS
      <4>2. ChildOk(c, k, range, level, Slice(range[c], keys, i))
        BY <3>1, <3>2, <4>1 DEF InternalOk
      <4>3. k \in Index /\ k \in Block /\ blk[k].pblock = c /\ level[c] = level[k] + 1 /\ k # n /\ k # r
        BY <1>3, <2>2, <2>5, <2>7, <4>2 DEF ChildOk
      <4>4. k # l
        <5>1. blk[l].pblock = -1 /\ c # -1
          BY <1>2, <2>5, <2>6, TreeAssumption DEF Control, Block
        <5> QED BY <4>3, <5>1
      <4>5. range[k] = Slice(range[c], keys, i)
        <5>1. Cut(k) = Vals
          BY <2>2, <4>4 DEF Cut
        <5> QED BY <4>2, <5>1 DEF ChildOk, Slice
      <4>6. range2[k] = Slice(range2[c], keys, i) \cap Cut(k)'
        <5>1. range[k] \subseteq Vals
          BY <4>3
        <5> QED BY <2>18, <2>19, <3>3, <4>3, <4>5, <5>1
      <4>7. blk'[k].pblock = c /\ level2[c] = level2[k] + 1
        BY <2>10, <2>18, <3>3, <4>3, <4>4
      <4>8. ChildOk(c, k, range2, level2, Slice(range2[c], keys, i))'
        BY <2>12, <4>3, <4>6, <4>7 DEF ChildOk
      <4> QED BY <4>1, <4>8
    <3> QED BY <3>4, <3>5, InternalOkNext
  <2>23. ASSUME NEW c \in Block, IsLeaf(c)'
         PROVE  LeafOk(c, range2, level2)'
    <3>1. IsLeaf(c) /\ c # n
      BY <2>7, <2>11, <2>23
    <3>2. LeafOk(c, range, level)
      BY <1>1, <3>1 DEF Tree
    <3>3. blk'[c].recs = blk[c].recs /\ range2[c] = range[c] /\ level2[c] = level[c]
      BY <2>10, <2>18, <3>1
    <3> QED BY <3>2, <3>3 DEF LeafOk
  <2>24. ASSUME NEW c \in Index' \ Roots'
         PROVE  HasParent(c)'
    <3>1. c \in Index /\ c # n /\ c \in Block
      BY <2>5, <2>6, <2>12, <2>24 DEF Roots
    <3>2. CASE c \in {l, r}
      <4>1. c \in ToSet(<<l, r>>)
        BY <3>2 DEF ToSet
      <4>2. blk'[c].pblock = n /\ IsInternal(n)' /\ c \in ToSet(blk'[n].kids)
        BY <2>9, <2>10, <2>11, <3>1, <3>2, <4>1
      <4> QED BY <2>1, <4>2 DEF HasParent
    <3>3. CASE c \notin {l, r}
      <4>1. HasParent(c)
        BY <1>1, <1>3, <2>2, <2>5, <3>1, <3>3 DEF Tree, Roots
      <4>2. PICK q \in Block : q = blk[c].pblock /\ IsInternal(q) /\ c \in ToSet(blk[q].kids)
        BY <4>1 DEF HasParent
      <4>3. q # n /\ blk'[c].pblock = q
        BY <2>7, <2>10, <3>1, <3>3, <4>2
      <4>4. IsInternal(q)' /\ c \in ToSet(blk'[q].kids)
        BY <2>10, <2>11, <4>2, <4>3
      <4> QED BY <4>3, <4>4 DEF HasParent
    <3> QED BY <3>2, <3>3
  <2>25. \A c \in Index' : level2[c] <= level2[root']
    <3>1. \A c \in Index : level[c] <= level[l]
      BY <1>1, <2>5 DEF Tree
    <3> QED BY <2>5, <2>6, <2>7, <2>12, <2>18, <3>1
  <2>26. Tree(range2, level2)'
    <3>1. \A c \in Block : IsInternal(c)' => InternalOk(c, range2, level2)'
      BY <2>11, <2>21, <2>22
    <3>2. SplitOk(range2, level2)'
      BY <2>12 DEF SplitOk
    <3>3. range2[root'] = Cut(root)'
      BY <2>6, <2>18, <2>19
    <3> QED BY <2>12, <2>23, <2>24, <2>25, <3>1, <3>2, <3>3 DEF Tree
  <2> QED BY <2>13, <2>14, <2>15, <2>26 DEF IInv
<1> QED BY <1>4, <1>5

-----------------------------------------------------------------------------
(* The theorems.                                                           *)

\* Every call keeps the invariant.
LEMMA NextOk ==
  ASSUME Distinct, Numeric, IInv, [Next]_vars
  PROVE  IInv'
<1>1. ASSUME NEW r \in NewRecs, Insert(r)
      PROVE  IInv'
  BY <1>1, InsertOk
<1>2. CASE CreateIndex
  BY <1>2, CreateIndexOk
<1>3. CASE DropIndex
  BY <1>3, DropIndexOk
<1>4. CASE bPlusInsert
  BY <1>4, bPlusInsertOk
<1>5. CASE findLeafToInsert
  BY <1>5, findLeafToInsertOk
<1>6. CASE insertIntoLeaf
  BY <1>6, insertIntoLeafOk
<1>7. CASE insertIntoInternal
  BY <1>7, insertIntoInternalOk
<1>8. CASE createNewRoot
  BY <1>8, createNewRootOk
<1>9. CASE UNCHANGED vars
  <2>1. /\ blk' = blk /\ root' = root /\ rows' = rows /\ pc' = pc /\ todo' = todo /\ rec' = rec
        /\ at' = at /\ up' = up
    BY <1>9 DEF vars
  <2>2. /\ \A b : (IsLeaf(b)' <=> IsLeaf(b)) /\ (IsInternal(b)' <=> IsInternal(b))
        /\ Splitting' <=> Splitting
    BY <2>1 DEF IsLeaf, IsInternal, Splitting
  <2>3. Index' = Index /\ Roots' = Roots /\ (\A b : Cut(b)' = Cut(b))
    BY <2>1, <2>2 DEF Index, Roots, Cut
  <2>4. TypeInv' /\ Control' /\ RecordsOnce'
    BY <2>1, <2>2, <2>3 DEF IInv, TypeInv, Fits, Control, RecordsOnce, Waiting
  <2>5. PICK range \in [Block -> SUBSET Vals], level \in [Block -> Nat] : Tree(range, level)
    BY DEF IInv
  <2>6. \A b : HasParent(b)' <=> HasParent(b)
    BY <2>1, <2>2 DEF HasParent
  <2>7. \A b, k, s : ChildOk(b, k, range, level, s)' <=> ChildOk(b, k, range, level, s)
    BY <2>1, <2>2, <2>3 DEF ChildOk
  <2>8. \A b : /\ LeafOk(b, range, level)' <=> LeafOk(b, range, level)
               /\ InternalOk(b, range, level)' <=> InternalOk(b, range, level)
    BY <2>1, <2>7 DEF LeafOk, InternalOk
  <2>9. SplitOk(range, level)'
    BY <2>1, <2>2, <2>3, <2>5 DEF Tree, SplitOk
  <2>10. Tree(range, level)'
    BY <2>1, <2>2, <2>3, <2>5, <2>6, <2>8, <2>9 DEF Tree
  <2> QED BY <2>4, <2>10 DEF IInv
<1> QED BY <1>1, <1>2, <1>3, <1>4, <1>5, <1>6, <1>7, <1>8, <1>9 DEF Next, InsertStep
=============================================================================
