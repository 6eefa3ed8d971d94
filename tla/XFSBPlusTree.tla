---------------------------- MODULE XFSBPlusTree ----------------------------
(***************************************************************************)
(* The B+ trees of the XFS interface: bPlusInsert with its splits, the     *)
(* search that goes on from its last hit, and bPlusDestroy.  A leaf has    *)
(* <<key, record id>> entries, an internal block <<left child, key, right  *)
(* child>> entries.                                                        *)
(***************************************************************************)
EXTENDS XFSDisk

CONSTANTS
  MAX_KEYS_LEAF,     \* odd (63)
  MAX_KEYS_INTERNAL  \* even (100)

ASSUME TreeAssumption ==
  /\ MAX_KEYS_LEAF \in Nat /\ MAX_KEYS_LEAF % 2 = 1
  /\ MAX_KEYS_INTERNAL \in Nat \ {0} /\ MAX_KEYS_INTERNAL % 2 = 0

Entries(d, b) == d.blk[b].entries

Leaf(pblock, lblock, rblock, entries) ==
  [pblock |-> pblock, lblock |-> lblock, rblock |-> rblock, entries |-> entries]
Internal(pblock, entries) == [pblock |-> pblock, entries |-> entries]

Children(d, b) ==
  UNION {{Entries(d, b)[i].lChild, Entries(d, b)[i].rChild} : i \in DOMAIN Entries(d, b)}

RECURSIVE TreeBlocks(_, _)
TreeBlocks(d, b) ==
  {b} \cup IF d.map[b] = "IND_LEAF" THEN {}
           ELSE UNION {TreeBlocks(d, c) : c \in Children(d, b)}

\* a block that is not an index block is left alone
BPlusDestroy(d, b) ==
  IF b \notin Block \/ d.map[b] \notin {"IND_LEAF", "IND_INTERNAL"} THEN d
  ELSE LET tree == TreeBlocks(d, b)
       IN  [map |-> [x \in Block |-> IF x \in tree THEN "UNUSED_BLK" ELSE d.map[x]],
            blk |-> [x \in Block |-> IF x \in tree THEN Zero ELSE d.blk[x]]]

\* down to a leaf: left of the first key that is in stops, else rightmost
Descend(d, root, stops) ==
  LET stop(b) == {i \in DOMAIN Entries(d, b) : Entries(d, b)[i].key \in stops}
      leaf[b \in Block] ==
        CASE d.map[b] = "IND_LEAF" -> b
          [] d.map[b] # "IND_LEAF" /\ stop(b) = {} -> leaf[Last(Entries(d, b)).rChild]
          [] OTHER -> leaf[Entries(d, b)[Min(stop(b))].lChild]
  IN  leaf[root]

-----------------------------------------------------------------------------
(* Insertion.  The result has the disk and the root: None when the disk is *)
(* full and the tree has been destroyed.                                   *)

NoRoom(d, root, right) == [disk |-> BPlusDestroy(BPlusDestroy(d, right), root), root |-> None]

\* the parent's entries with one that separates left and right
WithEntry(es, left, key, right) ==
  LET before == {i \in DOMAIN es : es[i].lChild = left}
      at     == IF before = {} THEN Len(es) + 1 ELSE Min(before)
      all    == InsertAt(es, at, [lChild |-> left, key |-> key, rChild |-> right])
  IN  [i \in DOMAIN all |-> IF i = at + 1 THEN [all[i] EXCEPT !.lChild = right] ELSE all[i]]

NewRoot(d, root, left, key, right, new) ==
  LET top == Internal(None, <<[lChild |-> left, key |-> key, rChild |-> right]>>)
  IN  IF new = None THEN NoRoom(d, root, right)
      ELSE [disk |-> [SetBlock(d, new, "IND_INTERNAL", top) EXCEPT
                        !.blk[left].pblock = new, !.blk[right].pblock = new],
            root |-> new]

\* entries 1..mid stay, the key of mid+1 goes up, the others move to block new
SplitInternal(d, b, new, all) ==
  LET mid   == MAX_KEYS_INTERNAL \div 2
      moved == {all[k].rChild : k \in mid + 1 .. MAX_KEYS_INTERNAL + 1}
      half(x) ==
        CASE x = b       -> [d.blk[b] EXCEPT !.entries = SubSeq(all, 1, mid)]
          [] x = new     -> Internal(d.blk[b].pblock, SubSeq(all, mid + 2, Len(all)))
          [] x \in moved -> [d.blk[x] EXCEPT !.pblock = new]
          [] OTHER       -> d.blk[x]
  IN  [map |-> [d.map EXCEPT ![new] = "IND_INTERNAL"], blk |-> [x \in Block |-> half(x)]]

\* the loop of bPlusInsert that goes up after a split; all and new are the
\* parent's entries with one for the split and the first free block
RECURSIVE InsertIntoParent(_, _, _, _, _)
InsertIntoParent(d, root, left, key, right) ==
  LET up(parent, all, new) ==
        CASE Len(all) <= MAX_KEYS_INTERNAL ->
               [disk |-> [d EXCEPT !.blk[parent].entries = all], root |-> root]
          [] Len(all) > MAX_KEYS_INTERNAL /\ new = None -> NoRoom(d, root, right)
          [] OTHER ->
               InsertIntoParent(SplitInternal(d, parent, new, all), root, parent,
                                all[MAX_KEYS_INTERNAL \div 2 + 1].key, new)
  IN  IF d.blk[left].pblock = None THEN NewRoot(d, root, left, key, right, GetFreeBlock(d))
      ELSE up(d.blk[left].pblock, WithEntry(Entries(d, d.blk[left].pblock), left, key, right),
              GetFreeBlock(d))

HalfLeaf == (MAX_KEYS_LEAF + 1) \div 2

\* half of the entries move to a new right neighbour
SplitLeaf(d, b, new, all) ==
  LET leaf == d.blk[b]
      half(x) ==
        CASE x = b   -> Leaf(leaf.pblock, leaf.lblock, new, SubSeq(all, 1, HalfLeaf))
          [] x = new -> Leaf(leaf.pblock, b, leaf.rblock, SubSeq(all, HalfLeaf + 1, Len(all)))
          [] x = leaf.rblock -> [d.blk[x] EXCEPT !.lblock = new]
          [] OTHER   -> d.blk[x]
  IN  [map |-> [d.map EXCEPT ![new] = "IND_LEAF"], blk |-> [x \in Block |-> half(x)]]

\* all and new: the leaf's entries with the new one and the first free block
InsertIntoLeaf(d, root, leaf, all, new) ==
  CASE Len(all) <= MAX_KEYS_LEAF ->
         [disk |-> [d EXCEPT !.blk[leaf].entries = all], root |-> root]
    [] Len(all) > MAX_KEYS_LEAF /\ new = None ->
         [disk |-> BPlusDestroy(d, root), root |-> None]
    [] OTHER ->
         InsertIntoParent(SplitLeaf(d, leaf, new, all), root, leaf, all[HalfLeaf].key, new)

WithKey(es, val, at) ==
  InsertAt(es, 1 + Cardinality({i \in DOMAIN es : es[i].key <= val}), [key |-> val, at |-> at])

BPlusInsert(d, root, val, at) ==
  LET into(leaf) ==
        InsertIntoLeaf(d, root, leaf, WithKey(Entries(d, leaf), val, at), GetFreeBlock(d))
  IN  into(Descend(d, root, {key \in Val : val <= key}))

-----------------------------------------------------------------------------
(* Search.                                                                 *)

Holds(op, x, v) ==
  CASE op = "EQ" -> x = v  [] op = "NE" -> x # v
    [] op = "LT" -> x < v  [] op = "LE" -> x <= v
    [] op = "GT" -> x > v  [] op = "GE" -> x >= v

\* mutant: > starts left of a key that is equal to the value
GoesLeftOfEqual(op, key, v) ==
  CASE op \in {"EQ", "GE", "GT"} -> key >= v
    [] OTHER -> TRUE

\* the search goes left of a key
GoesLeft(op, key, v) ==
  CASE op \in {"EQ", "GE"} -> key >= v
    [] op = "GT" -> key > v
    [] OTHER -> TRUE

\* no later entry of the leaf can hold
Halts(op, key, v) ==
  \/ op \in {"EQ", "LE"} /\ key > v
  \/ op = "LT" /\ key >= v

\* entries of leaf b from index i on; only NE looks into the next leaf
RECURSIVE SearchLeaf(_, _, _, _, _)
SearchLeaf(d, b, i, op, v) ==
  LET es   == Entries(d, b)
      next == {k \in i .. Len(es) : Holds(op, es[k].key, v) \/ Halts(op, es[k].key, v)}
  IN  CASE next # {} /\ Holds(op, es[Min(next)].key, v) -> <<[block |-> b, index |-> Min(next)]>>
        [] next = {} /\ op = "NE" /\ d.blk[b].rblock # None ->
             SearchLeaf(d, d.blk[b].rblock, 1, op, v)
        [] OTHER -> <<>>

\* prev is <<>> or <<the last hit>>, and so is the result
BPlusSearch(d, root, op, v, prev) ==
  IF prev = <<>> THEN
    SearchLeaf(d, Descend(d, root, {key \in Val : GoesLeft(op, key, v)}), 1, op, v)
  ELSE LET b == prev[1].block IN
    CASE prev[1].index < Len(Entries(d, b)) -> SearchLeaf(d, b, prev[1].index + 1, op, v)
      [] prev[1].index >= Len(Entries(d, b)) /\ d.blk[b].rblock # None ->
           SearchLeaf(d, d.blk[b].rblock, 1, op, v)
      [] OTHER -> <<>>

\* the records that ba_search returns, called until it fails
RECURSIVE IndexScan(_, _, _, _, _)
IndexScan(d, root, op, v, prev) ==
  LET hit == BPlusSearch(d, root, op, v, prev)
  IN  IF hit = <<>> THEN <<>>
      ELSE <<Entries(d, hit[1].block)[hit[1].index].at>> \o IndexScan(d, root, op, v, hit)
=============================================================================
