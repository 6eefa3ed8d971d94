----------------------------- MODULE BPlusTree ------------------------------
(***************************************************************************)
(* The B+ tree index of one attribute of one relation: creation, insertion *)
(* with splits up to a new root, search, destruction, and the unwinding    *)
(* when the disk runs full.  One action is one call of one function of     *)
(* BPlusTree.cpp (one round of the loop in findLeafToInsert); the calls an *)
(* insertion makes are run one after the other, and the properties that    *)
(* speak of the finished tree hold when none is under way (pc = "idle").   *)
(***************************************************************************)
EXTENDS Integers, SequencesExt

CONSTANTS
  DISK_BLOCKS,          \* blocks of the disk
  MAX_KEYS_LEAF,        \* entries of a leaf (63 in the program)
  MAX_KEYS_INTERNAL,    \* entries of an internal block (100)
  Recs,                 \* records
  ValOf,                \* ValOf[r]: the value of the attribute in record r
  InitialRows,          \* what the relation may hold at first
  NewRecs,              \* bound: the records inserted later
  InternalOrders,       \* orders insertIntoInternal may compare values by
  Taken                 \* how many blocks others own

Block == 0 .. DISK_BLOCKS - 1
Vals  == Range(ValOf)

ASSUME TreeAssumption ==
  /\ DISK_BLOCKS \in Nat
  /\ MAX_KEYS_LEAF \in Nat /\ MAX_KEYS_LEAF % 2 = 1
  /\ MAX_KEYS_INTERNAL \in Nat \ {0} /\ MAX_KEYS_INTERNAL % 2 = 0
  /\ Recs \subseteq Nat \ {0} /\ ValOf \in [Recs -> Nat]
  /\ \A o \in InternalOrders : o \in [Vals -> Int]
  /\ InitialRows \subseteq Seq(Recs) /\ NewRecs \subseteq Recs
  /\ Taken \subseteq Nat

\* a relation has a record once
ASSUME RowsAssumption == \A initial \in InitialRows : IsInjective(initial)

VARIABLES
  blk,      \* blk[b]: type, header links and entries of block b
  root,     \* rootBlock in the attribute cache, -1 without an index
  rows,     \* the records of the relation, in the order of their slots
  pc,       \* "idle", or the call an insertion makes next
  todo,     \* records the caller still has to insert
  rec,      \* the record bPlusInsert is inserting
  at,       \* the block findLeafToInsert or insertIntoInternal works on
  up        \* the entry to be put into the level above

vars == <<blk, root, rows, pc, todo, rec, at, up>>

NoRec   == 0
NoEntry == [key |-> 0, lChild |-> -1, rChild |-> -1]

\* an internal block has a child left of each key and one right of the last:
\* rChild of an entry and lChild of the next are the same four bytes
Node(type) == [type |-> type, pblock |-> -1, lblock |-> -1, rblock |-> -1,
               recs |-> <<>>, keys |-> <<>>, kids |-> <<>>]

IsLeaf(b)     == blk[b].type = "IND_LEAF"
IsInternal(b) == blk[b].type = "IND_INTERNAL"
Unused        == {b \in Block : blk[b].type = "UNUSED_BLK"}
NewBlock      == CHOOSE b \in Unused : \A c \in Unused : b <= c

\* the first index of s that passes the test, or the one after the last
FirstIndex(s, Test(_)) ==
  IF \E i \in DOMAIN s : Test(s[i])
  THEN CHOOSE i \in DOMAIN s : Test(s[i]) /\ \A j \in 1 .. i - 1 : ~Test(s[j])
  ELSE Len(s) + 1

\* the blocks bPlusDestroy(b) releases
Subtree(b) ==
  LET sub[c \in Block] ==
        CASE IsInternal(c) -> {c} \cup UNION {sub[k] : k \in ToSet(blk[c].kids)}
          [] IsLeaf(c)     -> {c}
          [] OTHER         -> {}
  IN sub[b]

Destroy(blocks) ==
  [b \in Block |-> IF b \in blocks THEN Node("UNUSED_BLK") ELSE blk[b]]

Init ==
  /\ \E taken \in Taken :
       blk = [b \in Block |-> Node(IF b < taken THEN "REC" ELSE "UNUSED_BLK")]
  /\ root = -1 /\ rows \in InitialRows
  /\ pc = "idle" /\ todo = <<>> /\ rec = NoRec /\ at = -1 /\ up = NoEntry

-----------------------------------------------------------------------------
(* The callers.                                                            *)

\* bPlusInsert returns: the caller goes on with its next record
Return ==
  /\ pc' = IF todo = <<>> THEN "idle" ELSE "next"
  /\ rec' = NoRec

\* BlockAccess::insert: the record is stored, then put into the index
Insert(r) ==
  /\ pc = "idle" /\ r \in NewRecs \ ToSet(rows)
  /\ rows' = Append(rows, r)
  /\ IF root = -1
     THEN UNCHANGED <<pc, todo>>
     ELSE pc' = "next" /\ todo' = <<r>>
  /\ UNCHANGED <<blk, root, rec, at, up>>

\* bPlusCreate: an empty leaf, then every record of the relation
CreateIndex ==
  /\ pc = "idle" /\ root = -1 /\ Unused # {}
  /\ blk' = [blk EXCEPT ![NewBlock] = Node("IND_LEAF")]
  /\ root' = NewBlock
  /\ todo' = rows
  /\ pc' = IF rows = <<>> THEN "idle" ELSE "next"
  /\ UNCHANGED <<rows, rec, at, up>>

\* Schema::dropIndex
DropIndex ==
  /\ pc = "idle" /\ root # -1
  /\ blk' = Destroy(Subtree(root))
  /\ root' = -1
  /\ UNCHANGED <<rows, pc, todo, rec, at, up>>

-----------------------------------------------------------------------------
(* bPlusInsert and the functions it calls.                                 *)

bPlusInsert ==
  /\ pc = "next"
  /\ pc' = "find"
  /\ rec' = Head(todo) /\ todo' = Tail(todo)
  /\ at' = root
  /\ UNCHANGED <<blk, root, rows, up>>

\* mutated: a value above all keys stays where it is
findLeafToInsertStay ==
  /\ pc = "find" /\ IsInternal(at)
  /\ at' = LET i == FirstIndex(blk[at].keys, LAMBDA k : ValOf[rec] <= k)
           IN IF i <= Len(blk[at].keys) THEN blk[at].kids[i] ELSE at
  /\ UNCHANGED <<blk, root, rows, pc, todo, rec, up>>

\* one level down, left of the first key that is not smaller
findLeafToInsert ==
  /\ pc = "find" /\ IsInternal(at)
  /\ at' = blk[at].kids[FirstIndex(blk[at].keys, LAMBDA k : ValOf[rec] <= k)]
  /\ UNCHANGED <<blk, root, rows, pc, todo, rec, up>>

\* mutated: the part not yet linked to the tree stays allocated
UnwindTree(unlinked) ==
  /\ blk' = Destroy(Subtree(root))
  /\ root' = -1
  /\ pc' = "idle" /\ todo' = <<>>
  /\ rec' = NoRec /\ up' = NoEntry

\* no block for a split: the tree goes, and with it the part not yet linked
\* to it; bPlusInsert then tells the caller, who inserts no more
Unwind(unlinked) ==
  /\ blk' = Destroy(Subtree(root) \cup unlinked)
  /\ root' = -1
  /\ pc' = "idle" /\ todo' = <<>>
  /\ rec' = NoRec /\ up' = NoEntry

\* mutated: the left half keeps its old right neighbour
splitLeafUnlinked(b, n, entries) ==
  LET half == (MAX_KEYS_LEAF + 1) \div 2 IN
  [blk EXCEPT
     ![b].recs = SubSeq(entries, 1, half),
     ![n] = [Node("IND_LEAF") EXCEPT !.recs   = SubSeq(entries, half + 1, 2 * half),
                                     !.pblock = blk[b].pblock,
                                     !.lblock = b,
                                     !.rblock = blk[b].rblock]]

\* the upper half of the entries moves to block n, right of b in the chain
splitLeaf(b, n, entries) ==
  LET half == (MAX_KEYS_LEAF + 1) \div 2 IN
  [blk EXCEPT
     ![b].recs   = SubSeq(entries, 1, half),
     ![b].rblock = n,
     ![n] = [Node("IND_LEAF") EXCEPT !.recs   = SubSeq(entries, half + 1, 2 * half),
                                     !.pblock = blk[b].pblock,
                                     !.lblock = b,
                                     !.rblock = blk[b].rblock]]

\* mutated: the entry goes to the root, over the levels between
PutUpRoot(b, n, key) ==
  /\ up' = [key |-> key, lChild |-> b, rChild |-> n]
  /\ pc' = IF b = root THEN "newroot" ELSE "internal"
  /\ at' = IF b = root THEN -1 ELSE root
  /\ UNCHANGED <<root, todo, rec>>

\* the entry for the level above, or a new root when there is none
PutUp(b, n, key) ==
  /\ up' = [key |-> key, lChild |-> b, rChild |-> n]
  /\ pc' = IF blk[b].pblock = -1 THEN "newroot" ELSE "internal"
  /\ at' = blk[b].pblock
  /\ UNCHANGED <<root, todo, rec>>

\* the new entry comes after those with the same value
insertIntoLeaf ==
  LET entries == InsertAt(blk[at].recs,
                          FirstIndex(blk[at].recs, LAMBDA r : ValOf[r] > ValOf[rec]), rec)
      middle  == entries[(MAX_KEYS_LEAF + 1) \div 2]
  IN
  /\ pc = "find" /\ IsLeaf(at)
  /\ \/ /\ Len(entries) <= MAX_KEYS_LEAF
        /\ blk' = [blk EXCEPT ![at].recs = entries]
        /\ Return
        /\ at' = -1
        /\ UNCHANGED <<root, todo, up>>
     \/ /\ Len(entries) > MAX_KEYS_LEAF /\ Unused # {}
        /\ blk' = splitLeaf(at, NewBlock, entries)
        /\ PutUp(at, NewBlock, ValOf[middle])
     \/ /\ Len(entries) > MAX_KEYS_LEAF /\ Unused = {}
        /\ Unwind({})
        /\ at' = -1
  /\ UNCHANGED rows

\* mutated: the middle key stays in the right half as well
splitInternalExtra(b, n, keys, kids) ==
  LET half   == MAX_KEYS_INTERNAL \div 2
      moved  == SubSeq(kids, half + 2, 2 * half + 2)
      halves == [blk EXCEPT
        ![b].keys   = SubSeq(keys, 1, half),
        ![b].kids   = SubSeq(kids, 1, half + 1),
        ![b].rblock = n,
        ![n] = [Node("IND_INTERNAL") EXCEPT !.keys   = SubSeq(keys, half + 1, 2 * half + 1),
                                            !.kids   = moved,
                                            !.pblock = blk[b].pblock]]
  IN [c \in Block |-> IF c \in ToSet(moved)
                      THEN [halves[c] EXCEPT !.pblock = n]
                      ELSE halves[c]]

\* mutated: the moved children keep their old parent
splitInternalParents(b, n, keys, kids) ==
  LET half   == MAX_KEYS_INTERNAL \div 2
      moved  == SubSeq(kids, half + 2, 2 * half + 2)
      halves == [blk EXCEPT
        ![b].keys   = SubSeq(keys, 1, half),
        ![b].kids   = SubSeq(kids, 1, half + 1),
        ![b].rblock = n,
        ![n] = [Node("IND_INTERNAL") EXCEPT !.keys   = SubSeq(keys, half + 2, 2 * half + 1),
                                            !.kids   = moved,
                                            !.pblock = blk[b].pblock]]
  IN halves

\* the upper keys and children move to block n, the middle key to neither
splitInternal(b, n, keys, kids) ==
  LET half   == MAX_KEYS_INTERNAL \div 2
      moved  == SubSeq(kids, half + 2, 2 * half + 2)
      halves == [blk EXCEPT
        ![b].keys   = SubSeq(keys, 1, half),
        ![b].kids   = SubSeq(kids, 1, half + 1),
        ![b].rblock = n,
        ![n] = [Node("IND_INTERNAL") EXCEPT !.keys   = SubSeq(keys, half + 2, 2 * half + 1),
                                            !.kids   = moved,
                                            !.pblock = blk[b].pblock]]
  IN [c \in Block |-> IF c \in ToSet(moved)
                      THEN [halves[c] EXCEPT !.pblock = n]
                      ELSE halves[c]]

\* mutated: the new entry is always the last
PlaceLast(keys, order, key) == Len(keys) + 1

\* the entry goes after all keys that compare as not greater
Place(keys, order, key) == FirstIndex(keys, LAMBDA k : order[k] > order[key])

\* the two neighbours' pointers are set to the children of the new entry; the
\* type compared by is a header field that getHeader never fills
insertIntoInternal ==
  \E order \in InternalOrders :
    LET old  == blk[at]
        i    == Place(old.keys, order, up.key)
        keys == InsertAt(old.keys, i, up.key)
        kids == SubSeq(old.kids, 1, i - 1) \o <<up.lChild, up.rChild>>
                  \o SubSeq(old.kids, i + 1, Len(old.kids))
        mid  == keys[MAX_KEYS_INTERNAL \div 2 + 1]
    IN
    /\ pc = "internal"
    /\ \/ /\ Len(keys) <= MAX_KEYS_INTERNAL
          /\ blk' = [blk EXCEPT ![at].keys = keys, ![at].kids = kids]
          /\ Return
          /\ at' = -1 /\ up' = NoEntry
          /\ UNCHANGED <<root, todo>>
       \/ /\ Len(keys) > MAX_KEYS_INTERNAL /\ Unused # {}
          /\ blk' = splitInternal(at, NewBlock, keys, kids)
          /\ PutUp(at, NewBlock, mid)
       \/ /\ Len(keys) > MAX_KEYS_INTERNAL /\ Unused = {}
          /\ Unwind(Subtree(up.rChild))
          /\ at' = -1
    /\ UNCHANGED rows

\* the old root and its new right neighbour become the children of a new one
createNewRoot ==
  /\ pc = "newroot"
  /\ \/ /\ Unused # {}
        /\ blk' = [blk EXCEPT
             ![NewBlock] = [Node("IND_INTERNAL") EXCEPT !.keys = <<up.key>>,
                                                        !.kids = <<up.lChild, up.rChild>>],
             ![up.lChild].pblock = NewBlock,
             ![up.rChild].pblock = NewBlock]
        /\ root' = NewBlock
        /\ Return
        /\ up' = NoEntry
        /\ UNCHANGED todo
     \/ /\ Unused = {}
        /\ Unwind(Subtree(up.rChild))
  /\ at' = -1
  /\ UNCHANGED rows

InsertStep ==
  \/ bPlusInsert \/ findLeafToInsert \/ insertIntoLeaf \/ insertIntoInternal \/ createNewRoot

Next ==
  \/ \E r \in NewRecs : Insert(r)
  \/ CreateIndex \/ DropIndex
  \/ InsertStep

\* the program runs an insertion to its end before it does anything else
Spec == Init /\ [][Next]_vars /\ WF_vars(InsertStep)

-----------------------------------------------------------------------------
(* Search.                                                                 *)

Op == {"EQ", "LE", "LT", "GE", "GT", "NE"}

Satisfies(u, op, v) ==
  CASE op = "EQ" -> u = v
    [] op = "LE" -> u <= v
    [] op = "LT" -> u < v
    [] op = "GE" -> u >= v
    [] op = "GT" -> u > v
    [] op = "NE" -> u # v

\* mutated: GE goes right of an equal key
ChildForGE(b, op, v) ==
  LET keys == blk[b].keys IN
  blk[b].kids[CASE op \in {"NE", "LT", "LE"} -> 1
                [] op = "EQ"                 -> FirstIndex(keys, LAMBDA k : k >= v)
                [] op \in {"GE", "GT"}       -> FirstIndex(keys, LAMBDA k : k > v)]

\* the child of internal block b that bPlusSearch goes to
ChildFor(b, op, v) ==
  LET keys == blk[b].keys IN
  blk[b].kids[CASE op \in {"NE", "LT", "LE"} -> 1
                [] op \in {"EQ", "GE"}       -> FirstIndex(keys, LAMBDA k : k >= v)
                [] op = "GT"                 -> FirstIndex(keys, LAMBDA k : k > v)]

StartLeaf(op, v) ==
  LET down[b \in Block] == IF IsInternal(b) THEN down[ChildFor(b, op, v)] ELSE b
  IN down[root]

\* the leaves from b on, linked by rblock
ChainFrom(b) ==
  LET chain[c \in {leaf \in Block : IsLeaf(leaf)} \cup {-1}] ==
        IF c = -1 THEN <<>> ELSE <<c>> \o chain[blk[c].rblock]
  IN chain[b]

\* The records that calls of bPlusSearch return one after the other once the
\* search index is reset.  Each call starts behind the hit of the one before,
\* in the next leaf if that hit was the last of its leaf; it gives up at the
\* end of a leaf, unless it looks for NE, and at the first larger value when
\* no later one can satisfy the condition.
Found(op, v) ==
  LET leaves       == ChainFrom(StartLeaf(op, v))
      recs(p)      == blk[leaves[p[1]]].recs
      entries      == {p \in (1 .. Len(leaves)) \X (1 .. MAX_KEYS_LEAF) : p[2] <= Len(recs(p))}
      val(p)       == ValOf[recs(p)[p[2]]]
      before(p, q) == p[1] < q[1] \/ (p[1] = q[1] /\ p[2] < q[2])
      hit(p)       == Satisfies(val(p), op, v)
      giveUp(p)    == ~hit(p) /\ \/ p[2] = Len(recs(p)) /\ op # "NE"
                                 \/ val(p) > v /\ op \in {"EQ", "LE", "LT"}
  IN {recs(p)[p[2]] : p \in {q \in entries :
                               hit(q) /\ \A e \in entries : before(e, q) => ~giveUp(e)}}

-----------------------------------------------------------------------------
(* Properties.                                                             *)

Indexed == pc = "idle" /\ root # -1

\* Every variable has its type, and a block has no more entries than fit.
TypeOK ==
  /\ \A b \in Block :
       /\ blk[b].type \in {"UNUSED_BLK", "REC", "IND_LEAF", "IND_INTERNAL"}
       /\ {blk[b].pblock, blk[b].lblock, blk[b].rblock} \subseteq Block \cup {-1}
       /\ ToSet(blk[b].recs) \subseteq Recs /\ Len(blk[b].recs) <= MAX_KEYS_LEAF
       /\ ToSet(blk[b].keys) \subseteq Vals /\ Len(blk[b].keys) <= MAX_KEYS_INTERNAL
       /\ ToSet(blk[b].kids) \subseteq Block
       /\ Len(blk[b].kids) = IF IsInternal(b) THEN Len(blk[b].keys) + 1 ELSE 0
  /\ root \in Block \cup {-1} /\ at \in Block \cup {-1}
  /\ rows \in Seq(Recs) /\ todo \in Seq(Recs) /\ rec \in ToSet(rows) \cup {NoRec}
  /\ pc \in {"idle", "next", "find", "internal", "newroot"}

\* A search finds exactly the records that satisfy its condition: "for all the
\* other op it is guaranteed that the block being searched will have an entry,
\* if it exists, satisying that op" (BPlusTree.cpp:208-210).
SearchComplete ==
  Indexed => \A op \in Op, v \in Vals :
               Found(op, v) = {r \in ToSet(rows) : Satisfies(ValOf[r], op, v)}

\* No split, failed split or destruction leaves behind an index block that the
\* tree does not reach, or frees one that it does.
NoOrphans ==
  pc = "idle" => {b \in Block : IsLeaf(b) \/ IsInternal(b)}
                   = IF root = -1 THEN {} ELSE Subtree(root)

\* The parent links, which the splits climb, are those of the tree.
ParentLinks ==
  Indexed => /\ blk[root].pblock = -1
             /\ \A b \in Block : \A k \in ToSet(blk[b].kids) : blk[k].pblock = b

\* how far below b its leaves are
Depths(b) ==
  LET depths[c \in Block] ==
        IF IsLeaf(c) THEN {0}
        ELSE {d + 1 : d \in UNION {depths[k] : k \in ToSet(blk[c].kids)}}
  IN depths[b]

\* All leaves are at the same depth: a split hands its entry to the level above.
Balanced == Indexed => Cardinality(Depths(root)) = 1

\* Linked by rblock, the leaves come in the order of the tree.
LeavesLinked ==
  LET leaves[b \in Block] == IF IsLeaf(b) THEN <<b>>
                             ELSE FlattenSeq([i \in DOMAIN blk[b].kids |-> leaves[blk[b].kids[i]]])
  IN Indexed => ChainFrom(leaves[root][1]) = leaves[root]

\* "maintaining the ascending order" (BPlusTree.cpp:599): the keys of every
\* internal block ascend.
KeysAscend ==
  Indexed => \A b \in Block : IsSorted(blk[b].keys, <)

\* Every insertion, with all its splits, comes to an end.
InsertEnds == (pc # "idle") ~> (pc = "idle")
=============================================================================
