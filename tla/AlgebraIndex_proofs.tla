------------------------- MODULE AlgebraIndex_proofs -------------------------
(***************************************************************************)
(* Proofs about what the commands leave in the relations and the indexes:  *)
(* every record has a value for each attribute, and every index lists each *)
(* record once and in order, for any commands, queries and failures.       *)
(***************************************************************************)
EXTENDS Algebra_proofs, SequenceLemmas, FiniteSetTheorems

-----------------------------------------------------------------------------
(* Leaves.                                                                 *)

\* the leaf lists the first n records, in the order of their i-th values
Lists(leaf, recs, n, i) ==
  /\ leaf \in Seq(Nat) /\ Len(leaf) = n
  /\ \A k \in 1 .. n : leaf[k] \in 1 .. n
  /\ \A x \in 1 .. n : \E k \in 1 .. n : leaf[k] = x
  /\ \A k \in 1 .. n - 1 : recs[leaf[k]][i] <= recs[leaf[k + 1]][i]

\* the first n records have a number as their i-th value
Numbers(recs, n, i) == \A p \in 1 .. n : recs[p][i] \in Int

\* The least number of a set.
LEMMA MinIs ==
  ASSUME NEW T, T \subseteq Nat, T # {}
  PROVE  Min(T) \in T /\ \A y \in T : Min(T) <= y
BY LeastNumber DEF Min

\* insertIntoLeaf enters the next record where it belongs.
LEMMA EnteredLists ==
  ASSUME NEW recs, NEW i, NEW n \in Nat, NEW leaf,
         Lists(leaf, recs, n, i), Numbers(recs, n + 1, i)
  PROVE  Lists(Entered(recs, leaf, i, n + 1), recs, n + 1, i)
<1> DEFINE larger == {k \in DOMAIN leaf : recs[leaf[k]][i] > recs[n + 1][i]}
           m      == Min(larger \cup {Len(leaf) + 1})
           t      == InsertAt(leaf, m, n + 1)
<1>1. leaf \in Seq(Nat) /\ Len(leaf) = n /\ DOMAIN leaf = 1 .. n
  BY DEF Lists
<1>2. /\ m \in 1 .. n + 1
      /\ \A k \in 1 .. n : k < m => ~ (recs[leaf[k]][i] > recs[n + 1][i])
      /\ m \in 1 .. n => recs[leaf[m]][i] > recs[n + 1][i]
  <2> DEFINE T == larger \cup {Len(leaf) + 1}
  <2>1. T \subseteq Nat /\ T # {} /\ T \subseteq 1 .. n + 1
    BY <1>1
  <2>2. \A k : k \in T <=> (k \in 1 .. n /\ recs[leaf[k]][i] > recs[n + 1][i]) \/ k = n + 1
    BY <1>1
  <2> HIDE DEF T, larger
  <2>3. Min(T) \in T /\ \A y \in T : Min(T) <= y
    BY <2>1, MinIs
  <2>4. m = Min(T)
    BY DEF T
  <2> HIDE DEF m
  <2>5. m \in 1 .. n + 1 /\ m \in T /\ \A y \in T : m <= y
    BY <2>1, <2>3, <2>4
  <2>6. m \in 1 .. n => recs[leaf[m]][i] > recs[n + 1][i]
    BY <2>2, <2>5
  <2>7. ASSUME NEW k \in 1 .. n, k < m PROVE ~ (recs[leaf[k]][i] > recs[n + 1][i])
    <3>1. k \notin T
      BY <2>5, <2>7
    <3> QED BY <3>1, <2>2
  <2> QED BY <2>5, <2>6, <2>7
<1> HIDE DEF m, larger
<1>3. t \in Seq(Nat) /\ Inserted(t, leaf, m, n + 1)
  <2>1. m \in 1 .. Len(leaf) + 1 /\ n + 1 \in Nat
    BY <1>1, <1>2
  <2> QED BY <1>1, <2>1, InsertAtIs, Zenon
<1> HIDE DEF t
<1>4. /\ Len(t) = n + 1
      /\ \A j \in 1 .. n + 1 : t[j] = IF j < m THEN leaf[j] ELSE IF j = m THEN n + 1 ELSE leaf[j - 1]
  BY <1>1, <1>3 DEF Inserted
<1>5. ASSUME NEW k \in 1 .. n + 1 PROVE t[k] \in 1 .. n + 1
  <2>1. CASE k < m
    <3>1. k \in 1 .. n /\ t[k] = leaf[k]
      BY <1>2, <1>4, <2>1
    <3> QED BY <3>1 DEF Lists
  <2>2. CASE k = m
    BY <1>2, <1>4, <2>2
  <2>3. CASE k > m
    <3>1. k - 1 \in 1 .. n /\ t[k] = leaf[k - 1]
      BY <1>2, <1>4, <2>3
    <3> QED BY <3>1 DEF Lists
  <2> QED BY <1>2, <2>1, <2>2, <2>3
<1>6. ASSUME NEW x \in 1 .. n + 1 PROVE \E k \in 1 .. n + 1 : t[k] = x
  <2>1. CASE x = n + 1
    BY <1>2, <1>4, <2>1
  <2>2. CASE x # n + 1
    <3>1. PICK k \in 1 .. n : leaf[k] = x
      <4>1. x \in 1 .. n
        BY <2>2
      <4> QED BY <4>1 DEF Lists
    <3>2. CASE k < m
      BY <1>2, <1>4, <3>1, <3>2
    <3>3. CASE ~ (k < m)
      <4>1. k + 1 \in 1 .. n + 1 /\ ~ (k + 1 < m) /\ k + 1 # m /\ (k + 1) - 1 = k
        BY <1>2, <3>3
      <4> QED BY <1>4, <3>1, <4>1
    <3> QED BY <3>2, <3>3
  <2> QED BY <2>1, <2>2
<1>7. ASSUME NEW k \in 1 .. (n + 1) - 1 PROVE recs[t[k]][i] <= recs[t[k + 1]][i]
  <2>1. k \in 1 .. n /\ k \in 1 .. n + 1 /\ k + 1 \in 1 .. n + 1 /\ (k + 1) - 1 = k
    OBVIOUS
  <2>2. recs[n + 1][i] \in Int /\ \A j \in 1 .. n : recs[leaf[j]][i] \in Int
    <3>1. n + 1 \in 1 .. n + 1 /\ \A j \in 1 .. n : leaf[j] \in 1 .. n + 1
      BY DEF Lists
    <3> QED BY <3>1 DEF Numbers
  <2>3. CASE k + 1 < m
    <3>1. t[k] = leaf[k] /\ t[k + 1] = leaf[k + 1] /\ k \in 1 .. n - 1
      BY <1>2, <1>4, <2>1, <2>3
    <3> QED BY <3>1 DEF Lists
  <2>4. CASE k + 1 = m
    <3>1. t[k] = leaf[k] /\ t[k + 1] = n + 1 /\ k < m
      BY <1>2, <1>4, <2>1, <2>4
    <3> QED BY <1>2, <2>1, <2>2, <3>1
  <2>5. CASE k = m
    <3>1. t[k] = n + 1 /\ t[k + 1] = leaf[k]
      BY <1>2, <1>4, <2>1, <2>5
    <3>2. recs[leaf[k]][i] > recs[n + 1][i]
      BY <1>2, <2>1, <2>5
    <3> QED BY <2>1, <2>2, <3>1, <3>2
  <2>6. CASE k > m
    <3>1. t[k] = leaf[k - 1] /\ t[k + 1] = leaf[k] /\ k - 1 \in 1 .. n - 1 /\ (k - 1) + 1 = k
      BY <1>2, <1>4, <2>1, <2>6
    <3>2. recs[leaf[k - 1]][i] <= recs[leaf[(k - 1) + 1]][i]
      BY <3>1 DEF Lists
    <3> QED BY <3>1, <3>2
  <2> QED BY <1>2, <2>1, <2>3, <2>4, <2>5, <2>6
<1>8. Lists(t, recs, n + 1, i)
  BY <1>3, <1>4, <1>5, <1>6, <1>7 DEF Lists
<1> QED BY <1>8 DEF Entered, t, m, larger

\* one step of the creation of a leaf
Grown(leaf, recs, i, n) == IF n = 0 THEN <<>> ELSE Entered(recs, leaf[n - 1], i, n)

\* The creation of an index enters all records.
LEMMA LeafLists ==
  ASSUME NEW recs, NEW i, Len(recs) \in Nat, Numbers(recs, Len(recs), i)
  PROVE  Lists(Leaf(recs, i), recs, Len(recs), i)
<1> DEFINE N       == Len(recs)
           Is(f, n) == f = [m \in 0 .. n |-> Grown(f, recs, i, m)]
           T       == {n \in Nat : ~ \E f : Is(f, n)}
           leaf    == CHOOSE f : f = [m \in 0 .. N |-> Grown(f, recs, i, m)]
<1>1. T = {}
  <2> SUFFICES ASSUME T # {} PROVE FALSE
    OBVIOUS
  <2>1. PICK n \in T : \A m \in T : n <= m
    <3>1. T \subseteq Nat
      OBVIOUS
    <3> HIDE DEF T
    <3> QED BY <3>1, LeastNumber
  <2>2. n \in Nat /\ ~ \E f : Is(f, n)
    OBVIOUS
  <2>3. n # 0
    <3> DEFINE f == [m \in 0 .. 0 |-> <<>>]
    <3>1. Is(f, 0)
      BY DEF Grown
    <3> QED BY <2>2, <3>1
  <2>4. PICK f : Is(f, n - 1)
    <3>1. n - 1 \in Nat /\ ~ (n <= n - 1)
      BY <2>2, <2>3
    <3>2. n - 1 \notin T
      BY <2>1, <3>1
    <3> QED BY <3>1, <3>2
  <2> DEFINE g == [m \in 0 .. n |-> IF m = n THEN Entered(recs, f[n - 1], i, n) ELSE f[m]]
  <2>5. ASSUME NEW m \in 0 .. n PROVE g[m] = Grown(g, recs, i, m)
    <3>1. CASE m = n
      <4>1. n - 1 \in 0 .. n /\ n - 1 # n
        BY <2>2, <2>3
      <4>2. g[n - 1] = f[n - 1]
        BY <4>1
      <4> QED BY <2>2, <2>3, <3>1, <4>2 DEF Grown
    <3>2. CASE m # n
      <4>1. m \in 0 .. n - 1 /\ g[m] = f[m]
        BY <2>2, <3>2
      <4>2. f[m] = Grown(f, recs, i, m)
        BY <2>4, <4>1
      <4>3. m # 0 => m - 1 \in 0 .. n /\ m - 1 # n
        BY <2>2, <4>1
      <4>4. m # 0 => g[m - 1] = f[m - 1]
        BY <4>3
      <4> HIDE DEF g
      <4> QED BY <4>1, <4>2, <4>4 DEF Grown
    <3> QED BY <3>1, <3>2
  <2>6. Is(g, n)
    <3>1. g = [m \in 0 .. n |-> g[m]]
      OBVIOUS
    <3> HIDE DEF g
    <3> QED BY <2>5, <3>1
  <2> QED BY <2>2, <2>6
<1>2. leaf = [m \in 0 .. N |-> Grown(leaf, recs, i, m)]
  <2>1. \E f : Is(f, N)
    BY <1>1
  <2> QED BY <2>1
<1> HIDE DEF leaf
<1>3. leaf[0] = <<>> /\ \A m \in 0 .. N : m # 0 => leaf[m] = Entered(recs, leaf[m - 1], i, m)
  <2>1. \A m \in 0 .. N : leaf[m] = Grown(leaf, recs, i, m)
    BY <1>2
  <2> QED BY <2>1 DEF Grown
<1> DEFINE Bad == {n \in 0 .. N : ~ Lists(leaf[n], recs, n, i)}
<1>4. Bad = {}
  <2> SUFFICES ASSUME Bad # {} PROVE FALSE
    OBVIOUS
  <2>1. PICK n \in Bad : \A m \in Bad : n <= m
    <3>1. Bad \subseteq Nat
      OBVIOUS
    <3> HIDE DEF Bad
    <3> QED BY <3>1, LeastNumber
  <2>2. n \in 0 .. N /\ ~ Lists(leaf[n], recs, n, i)
    OBVIOUS
  <2>3. Lists(<<>>, recs, 0, i)
    BY DEF Lists
  <2>4. n # 0
    BY <1>3, <2>2, <2>3
  <2>5. n - 1 \in 0 .. N /\ n - 1 \in Nat /\ ~ (n <= n - 1) /\ (n - 1) + 1 = n
    BY <2>2, <2>4
  <2>6. Lists(leaf[n - 1], recs, n - 1, i)
    <3>1. n - 1 \notin Bad
      BY <2>1, <2>5
    <3> QED BY <2>5, <3>1
  <2>7. Numbers(recs, (n - 1) + 1, i)
    BY <2>2, <2>5 DEF Numbers
  <2>8. Lists(Entered(recs, leaf[n - 1], i, (n - 1) + 1), recs, (n - 1) + 1, i)
    BY <2>5, <2>6, <2>7, EnteredLists
  <2> QED BY <1>3, <2>2, <2>4, <2>5, <2>8
<1>5. Lists(leaf[N], recs, N, i)
  BY <1>4
<1>6. Leaf(recs, i) = leaf[N]
  BY DEF Leaf, leaf, Grown
<1> QED BY <1>5, <1>6

-----------------------------------------------------------------------------
(* A database in order.                                                    *)

\* a relation: records have a value for each attribute, indexes are of attributes
RelOk(x) ==
  /\ x \in [attrs : Seq(STRING), recs : Seq(Seq(Int)), roots : SUBSET Nat]
  /\ \A p \in 1 .. Len(x.recs) : Len(x.recs[p]) = Len(x.attrs)
  /\ x.roots \subseteq 1 .. Len(x.attrs)

\* its entry in the open relation table
OpenOk(e, x) ==
  /\ e = [search |-> e.search, index |-> e.index, roots |-> e.roots]
  /\ e.search \in 0 .. Len(x.recs)
  /\ e.roots \subseteq 1 .. Len(x.attrs)

\* the indexes a relation knows: those in the cache while it is open
Known(u, r) == IF r \in DOMAIN u.open THEN u.open[r].roots ELSE u.rels[r].roots

\* what has to do with relation r is in order
Local(u, r) ==
  /\ r \in DOMAIN u.rels => RelOk(u.rels[r])
  /\ r \in DOMAIN u.open => r \in DOMAIN u.rels /\ OpenOk(u.open[r], u.rels[r])
  /\ \A i : <<r, i>> \in DOMAIN u.trees <=> r \in DOMAIN u.rels /\ i \in Known(u, r)
  /\ \A i : <<r, i>> \in DOMAIN u.trees =>
       Lists(u.trees[<<r, i>>], u.rels[r].recs, Len(u.rels[r].recs), i)

Pairs(T) == \A t \in T : \E r, i : t = <<r, i>>

Sound(u) == IsDb(u) /\ Pairs(DOMAIN u.trees) /\ \A r : Local(u, r)

\* u and v do not differ in what has to do with s
SameAt(u, v, s) ==
  /\ s \in DOMAIN v.rels <=> s \in DOMAIN u.rels
  /\ s \in DOMAIN u.rels => v.rels[s] = u.rels[s]
  /\ s \in DOMAIN v.open <=> s \in DOMAIN u.open
  /\ s \in DOMAIN u.open => v.open[s] = u.open[s]
  /\ \A i : <<s, i>> \in DOMAIN v.trees <=> <<s, i>> \in DOMAIN u.trees
  /\ \A i : <<s, i>> \in DOMAIN u.trees => v.trees[<<s, i>>] = u.trees[<<s, i>>]

\* What does not change stays in order.
LEMMA SameLocal ==
  ASSUME NEW u, NEW v, NEW s, Local(u, s), SameAt(u, v, s)
  PROVE  Local(v, s)
<1>1. s \in DOMAIN v.rels => RelOk(v.rels[s])
  BY DEF Local, SameAt
<1>2. s \in DOMAIN v.open => s \in DOMAIN v.rels /\ OpenOk(v.open[s], v.rels[s])
  BY DEF Local, SameAt
<1>3. s \in DOMAIN v.rels => Known(v, s) = Known(u, s)
  BY DEF SameAt, Known
<1>4. \A i : <<s, i>> \in DOMAIN v.trees <=> s \in DOMAIN v.rels /\ i \in Known(v, s)
  BY <1>3 DEF Local, SameAt
<1>5. ASSUME NEW i, <<s, i>> \in DOMAIN v.trees
      PROVE  Lists(v.trees[<<s, i>>], v.rels[s].recs, Len(v.rels[s].recs), i)
  <2>1. <<s, i>> \in DOMAIN u.trees /\ v.trees[<<s, i>>] = u.trees[<<s, i>>]
    BY <1>5 DEF SameAt
  <2>2. s \in DOMAIN u.rels /\ v.rels[s] = u.rels[s]
    BY <2>1 DEF Local, SameAt
  <2> QED BY <2>1, <2>2 DEF Local
<1> QED BY <1>1, <1>2, <1>4, <1>5 DEF Local

\* A change that concerns one relation alone.
LEMMA OneChanges ==
  ASSUME NEW u, Sound(u), NEW v, IsDb(v), Pairs(DOMAIN v.trees),
         NEW r, Local(v, r), \A s : s # r => SameAt(u, v, s)
  PROVE  Sound(v)
<1>1. ASSUME NEW s PROVE Local(v, s)
  <2>1. CASE s = r
    BY <2>1
  <2>2. CASE s # r
    <3>1. Local(u, s) /\ SameAt(u, v, s)
      BY <2>2 DEF Sound
    <3> QED BY <3>1, SameLocal
  <2> QED BY <2>1, <2>2
<1> QED BY <1>1 DEF Sound

\* The values of an attribute are numbers.
LEMMA RelNumbers ==
  ASSUME NEW x, RelOk(x), NEW i \in 1 .. Len(x.attrs)
  PROVE  Len(x.recs) \in Nat /\ Numbers(x.recs, Len(x.recs), i)
<1>1. x.recs \in Seq(Seq(Int)) /\ x.attrs \in Seq(STRING)
  BY DEF RelOk
<1>2. Len(x.recs) \in Nat /\ \A p \in 1 .. Len(x.recs) : x.recs[p] \in Seq(Int)
  BY <1>1
<1>3. ASSUME NEW p \in 1 .. Len(x.recs) PROVE x.recs[p][i] \in Int
  <2>1. x.recs[p] \in Seq(Int) /\ Len(x.recs[p]) = Len(x.attrs)
    BY <1>2 DEF RelOk
  <2> QED BY <2>1
<1> QED BY <1>2, <1>3 DEF Numbers

\* An attribute that is found has a number.
LEMMA AttrNumber ==
  ASSUME NEW attrs \in Seq(STRING), NEW a, NumOf(attrs, a) # 0
  PROVE  NumOf(attrs, a) \in 1 .. Len(attrs)
<1> DEFINE T == {i \in 1 .. Len(attrs) : attrs[i] = a}
<1>1. NumOf(attrs, a) = IF T # {} THEN Min(T) ELSE 0
  BY DEF NumOf, SelectInSeq
<1>2. T \subseteq Nat /\ T \subseteq 1 .. Len(attrs)
  OBVIOUS
<1> HIDE DEF T
<1>3. T # {} => Min(T) \in T
  BY <1>2, MinIs
<1> QED BY <1>1, <1>2, <1>3

-----------------------------------------------------------------------------
(* The calls keep the database in order.                                   *)

\* createRel: a relation without records and indexes.
LEMMA SoundCreate ==
  ASSUME NEW u, Sound(u), NEW r, r \notin DOMAIN u.rels, NEW attrs \in Seq(STRING)
  PROVE  LET v == createRel(u, r, attrs) IN
         Sound(v) /\ v.rels[r].attrs = attrs
<1> DEFINE new == [attrs |-> attrs, recs |-> <<>>, roots |-> {}]
           w   == With(u.rels, r, new)
           v   == createRel(u, r, attrs)
<1>1. IsDb(u)
  BY DEF Sound
<1>2. v = [rels |-> w, trees |-> u.trees, open |-> u.open]
  BY <1>1 DEF createRel, IsDb
<1>3. RelOk(new) /\ new.attrs = attrs /\ new.roots = {}
  BY DEF RelOk
<1> HIDE DEF v, new
<1>4. DOMAIN w = DOMAIN u.rels \cup {r} /\ w[r] = new /\ \A x \in DOMAIN u.rels \ {r} : w[x] = u.rels[x]
  BY DEF With
<1> HIDE DEF w
<1>5. IsDb(v) /\ v.rels = w /\ v.trees = u.trees /\ v.open = u.open
  BY <1>2 DEF IsDb
<1>6. Pairs(DOMAIN v.trees)
  BY <1>5 DEF Sound
<1>7. \A s : s # r => SameAt(u, v, s)
  BY <1>4, <1>5 DEF SameAt
<1>8. Local(v, r)
  <2>1. Local(u, r)
    BY DEF Sound
  <2>2. r \notin DOMAIN v.open /\ \A i : <<r, i>> \notin DOMAIN v.trees
    BY <1>5, <2>1 DEF Local
  <2>3. Known(v, r) = {}
    BY <1>3, <1>4, <1>5, <2>2 DEF Known
  <2> QED BY <1>3, <1>4, <1>5, <2>2, <2>3 DEF Local
<1>9. Sound(v)
  BY <1>5, <1>6, <1>7, <1>8, OneChanges
<1> QED BY <1>3, <1>4, <1>5, <1>9 DEF v

\* openRel: the roots go from the catalog into the cache.
LEMMA SoundOpen ==
  ASSUME NEW u, Sound(u), NEW r, r \in DOMAIN u.rels, r \notin DOMAIN u.open
  PROVE  Sound(openRel(u, r))
<1> DEFINE entry == [search |-> 0, index |-> [i \in DOMAIN Attrs(u, r) |-> 0],
                     roots |-> u.rels[r].roots]
           o     == With(u.open, r, entry)
           v     == openRel(u, r)
<1>1. IsDb(u) /\ Local(u, r)
  BY DEF Sound
<1>2. v = [rels |-> u.rels, trees |-> u.trees, open |-> o]
  BY <1>1 DEF openRel, IsDb
<1>3. RelOk(u.rels[r])
  BY <1>1 DEF Local
<1>4. OpenOk(entry, u.rels[r]) /\ entry.roots = u.rels[r].roots
  <2>1. Len(u.rels[r].recs) \in Nat /\ u.rels[r].roots \subseteq 1 .. Len(u.rels[r].attrs)
    BY <1>3 DEF RelOk
  <2> QED BY <2>1 DEF OpenOk
<1> HIDE DEF v, entry
<1>5. DOMAIN o = DOMAIN u.open \cup {r} /\ o[r] = entry /\ \A x \in DOMAIN u.open \ {r} : o[x] = u.open[x]
  BY DEF With
<1> HIDE DEF o
<1>6. IsDb(v) /\ v.rels = u.rels /\ v.trees = u.trees /\ v.open = o
  BY <1>2 DEF IsDb
<1>7. Pairs(DOMAIN v.trees)
  BY <1>6 DEF Sound
<1>8. \A s : s # r => SameAt(u, v, s)
  BY <1>5, <1>6 DEF SameAt
<1>9. Local(v, r)
  <2>1. Known(v, r) = Known(u, r)
    BY <1>4, <1>5, <1>6 DEF Known
  <2> QED BY <1>1, <1>4, <1>5, <1>6, <2>1 DEF Local
<1>10. Sound(v)
  BY <1>6, <1>7, <1>8, <1>9, OneChanges
<1> QED BY <1>10 DEF v

\* closeRel: the roots go from the cache into the catalog.
LEMMA SoundClose ==
  ASSUME NEW u, Sound(u), NEW r, r \in DOMAIN u.open
  PROVE  Sound(closeRel(u, r))
<1> DEFINE new == [u.rels[r] EXCEPT !.roots = u.open[r].roots]
           w   == [u.rels EXCEPT ![r] = new]
           o   == Without(u.open, {r})
           v   == closeRel(u, r)
<1>1. IsDb(u) /\ Local(u, r)
  BY DEF Sound
<1>2. v = [rels |-> w, trees |-> u.trees, open |-> o]
  <2>1. v = [u EXCEPT !.rels = w, !.open = o]
    BY DEF closeRel
  <2> HIDE DEF v, w, o
  <2> QED BY <1>1, <2>1 DEF IsDb
<1>3. r \in DOMAIN u.rels /\ RelOk(u.rels[r]) /\ OpenOk(u.open[r], u.rels[r])
  BY <1>1 DEF Local
<1>4. RelOk(new) /\ new.roots = u.open[r].roots /\ new.recs = u.rels[r].recs
  <2>1. u.open[r].roots \subseteq 1 .. Len(u.rels[r].attrs) /\ Len(u.rels[r].attrs) \in Nat
    BY <1>3 DEF OpenOk, RelOk
  <2>2. u.open[r].roots \in SUBSET Nat
    BY <2>1
  <2> QED BY <1>3, <2>1, <2>2 DEF RelOk
<1> HIDE DEF v, new
<1>5. DOMAIN w = DOMAIN u.rels /\ w[r] = new /\ \A x \in DOMAIN u.rels \ {r} : w[x] = u.rels[x]
  BY <1>3
<1>6. DOMAIN o = DOMAIN u.open \ {r} /\ \A x \in DOMAIN u.open \ {r} : o[x] = u.open[x]
  BY WithoutMap
<1> HIDE DEF w, o
<1>7. IsDb(v) /\ v.rels = w /\ v.trees = u.trees /\ v.open = o
  BY <1>2 DEF IsDb
<1>8. Pairs(DOMAIN v.trees)
  BY <1>7 DEF Sound
<1>9. \A s : s # r => SameAt(u, v, s)
  BY <1>5, <1>6, <1>7 DEF SameAt
<1>10. Local(v, r)
  <2>1. Known(v, r) = Known(u, r)
    BY <1>4, <1>5, <1>6, <1>7 DEF Known
  <2> QED BY <1>1, <1>3, <1>4, <1>5, <1>6, <1>7, <2>1 DEF Local
<1>11. Sound(v)
  BY <1>7, <1>8, <1>9, <1>10, OneChanges
<1> QED BY <1>11 DEF v

\* deleteRel: the relation goes with the indexes its catalog records name.
LEMMA SoundDelete ==
  ASSUME NEW u, Sound(u), NEW r
  PROVE  Sound(deleteRel(u, r))
<1> DEFINE w == Without(u.rels, {r})
           g == {<<r, i>> : i \in u.rels[r].roots}
           t == Without(u.trees, g)
           v == deleteRel(u, r)
<1>1. CASE r \in DOMAIN u.open \/ r \notin DOMAIN u.rels
  BY <1>1 DEF deleteRel
<1>2. CASE r \notin DOMAIN u.open /\ r \in DOMAIN u.rels
  <2>1. IsDb(u) /\ Local(u, r) /\ Pairs(DOMAIN u.trees)
    BY DEF Sound
  <2>2. v = [rels |-> w, trees |-> t, open |-> u.open]
    BY <1>2, <2>1 DEF deleteRel, IsDb
  <2>3. DOMAIN w = DOMAIN u.rels \ {r} /\ \A x \in DOMAIN u.rels \ {r} : w[x] = u.rels[x]
    BY WithoutMap
  <2>4. /\ DOMAIN t = DOMAIN u.trees \ {<<r, i>> : i \in u.rels[r].roots}
        /\ \A x \in DOMAIN t : t[x] = u.trees[x]
    <3> HIDE DEF g
    <3>1. DOMAIN t = DOMAIN u.trees \ g /\ \A x \in DOMAIN u.trees \ g : t[x] = u.trees[x]
      BY WithoutMap
    <3> HIDE DEF t
    <3> QED BY <3>1 DEF g
  <2>5. \A i : <<r, i>> \in DOMAIN u.trees => i \in u.rels[r].roots
    BY <1>2, <2>1 DEF Local, Known
  <2>6. \A i : <<r, i>> \notin DOMAIN t
    BY <2>4, <2>5
  <2>7. \A s, i : s # r => (<<s, i>> \in DOMAIN t <=> <<s, i>> \in DOMAIN u.trees)
    BY <2>4
  <2>8. Pairs(DOMAIN t)
    BY <2>1, <2>4 DEF Pairs
  <2> HIDE DEF v, w, t
  <2>9. IsDb(v) /\ v.rels = w /\ v.trees = t /\ v.open = u.open
    BY <2>2 DEF IsDb
  <2>10. \A s : s # r => SameAt(u, v, s)
    BY <2>3, <2>4, <2>7, <2>9 DEF SameAt
  <2>11. Local(v, r)
    BY <1>2, <2>3, <2>6, <2>9 DEF Local
  <2>12. Sound(v)
    BY <2>8, <2>9, <2>10, <2>11, OneChanges
  <2> QED BY <2>12 DEF v
<1> QED BY <1>1, <1>2

\* A new record is the next in every index of its relation.
LEMMA AppendLists ==
  ASSUME NEW x, RelOk(x), NEW rec \in Seq(Int), Len(rec) = Len(x.attrs),
         NEW i \in 1 .. Len(x.attrs), NEW leaf, Lists(leaf, x.recs, Len(x.recs), i)
  PROVE  LET recs == Append(x.recs, rec) IN
         Lists(Entered(recs, leaf, i, Len(recs)), recs, Len(recs), i)
<1> DEFINE recs == Append(x.recs, rec)
           n    == Len(x.recs)
<1>1. x.recs \in Seq(Seq(Int)) /\ n \in Nat
  BY DEF RelOk
<1>2. Len(recs) = n + 1 /\ recs[n + 1] = rec /\ \A p \in 1 .. n : recs[p] = x.recs[p]
  BY <1>1
<1>3. Numbers(x.recs, n, i)
  BY RelNumbers
<1> HIDE DEF recs
<1>4. Numbers(recs, n + 1, i)
  <2>1. rec[i] \in Int
    OBVIOUS
  <2>2. \A p \in 1 .. n + 1 : p = n + 1 \/ p \in 1 .. n
    BY <1>1
  <2> QED BY <1>2, <1>3, <2>1, <2>2 DEF Numbers
<1>5. Lists(leaf, recs, n, i)
  <2>1. \A k \in 1 .. n : leaf[k] \in 1 .. n /\ recs[leaf[k]] = x.recs[leaf[k]]
    BY <1>2 DEF Lists
  <2>2. \A k \in 1 .. n - 1 : k \in 1 .. n /\ k + 1 \in 1 .. n
    BY <1>1
  <2> QED BY <2>1, <2>2 DEF Lists
<1> HIDE DEF n
<1>6. Lists(Entered(recs, leaf, i, n + 1), recs, n + 1, i)
  BY <1>1, <1>4, <1>5, EnteredLists
<1> QED BY <1>2, <1>6 DEF recs

\* A relation with one record more.
LEMMA AppendOk ==
  ASSUME NEW x, RelOk(x), NEW rec \in Seq(Int), Len(rec) = Len(x.attrs)
  PROVE  LET y == [x EXCEPT !.recs = Append(x.recs, rec)] IN
         /\ RelOk(y) /\ y.recs = Append(x.recs, rec) /\ y.attrs = x.attrs /\ y.roots = x.roots
         /\ \A e : OpenOk(e, x) => OpenOk(e, y)
<1> DEFINE recs == Append(x.recs, rec)
           n    == Len(x.recs)
           y    == [x EXCEPT !.recs = recs]
<1>1. x \in [attrs : Seq(STRING), recs : Seq(Seq(Int)), roots : SUBSET Nat] /\ n \in Nat
  BY DEF RelOk
<1>2. /\ recs \in Seq(Seq(Int)) /\ Len(recs) = n + 1 /\ recs[n + 1] = rec
      /\ \A p \in 1 .. n : recs[p] = x.recs[p]
  BY <1>1
<1> HIDE DEF recs
<1>3. /\ y \in [attrs : Seq(STRING), recs : Seq(Seq(Int)), roots : SUBSET Nat]
      /\ y.recs = recs /\ y.attrs = x.attrs /\ y.roots = x.roots
  BY <1>1, <1>2
<1> HIDE DEF y
<1>4. \A p \in 1 .. n + 1 : Len(recs[p]) = Len(x.attrs)
  <2>1. \A p \in 1 .. n + 1 : p = n + 1 \/ p \in 1 .. n
    BY <1>1
  <2> QED BY <1>2, <2>1 DEF RelOk
<1>5. RelOk(y)
  BY <1>2, <1>3, <1>4 DEF RelOk
<1>6. \A e : OpenOk(e, x) => OpenOk(e, y)
  BY <1>1, <1>2, <1>3 DEF OpenOk
<1> QED BY <1>3, <1>5, <1>6 DEF y, recs

\* insert: the record goes into all indexes of its relation.
LEMMA SoundInsert ==
  ASSUME NEW u, Sound(u), NEW r, r \in DOMAIN u.open,
         NEW rec \in Seq(Int), Len(rec) = Len(u.rels[r].attrs)
  PROVE  LET v == insert(u, r, rec) IN
         Sound(v) /\ v.rels[r].attrs = u.rels[r].attrs
<1> DEFINE recs == Append(u.rels[r].recs, rec)
           new  == [u.rels[r] EXCEPT !.recs = recs]
           w    == [u.rels EXCEPT ![r] = new]
           t    == [x \in DOMAIN u.trees |->
                      IF x[1] = r /\ x[2] \in u.open[r].roots
                      THEN Entered(recs, u.trees[x], x[2], Len(recs))
                      ELSE u.trees[x]]
           v    == insert(u, r, rec)
<1>1. IsDb(u) /\ Local(u, r) /\ Pairs(DOMAIN u.trees)
  BY DEF Sound
<1>2. v = [rels |-> w, trees |-> t, open |-> u.open]
  <2>1. v = [u EXCEPT !.rels = w, !.trees = t]
    BY DEF insert, Recs
  <2> HIDE DEF v, w, t
  <2> QED BY <1>1, <2>1 DEF IsDb
<1>3. r \in DOMAIN u.rels /\ RelOk(u.rels[r]) /\ OpenOk(u.open[r], u.rels[r])
  BY <1>1 DEF Local
<1>4. /\ RelOk(new) /\ OpenOk(u.open[r], new)
      /\ new.recs = recs /\ new.attrs = u.rels[r].attrs /\ new.roots = u.rels[r].roots
  BY <1>3, AppendOk
<1>5. ASSUME NEW i, <<r, i>> \in DOMAIN u.trees
      PROVE  Lists(t[<<r, i>>], recs, Len(recs), i)
  <2>1. i \in u.open[r].roots /\ Lists(u.trees[<<r, i>>], u.rels[r].recs, Len(u.rels[r].recs), i)
    BY <1>1, <1>5 DEF Local, Known
  <2>2. i \in 1 .. Len(u.rels[r].attrs)
    BY <1>3, <2>1 DEF OpenOk
  <2>3. Lists(Entered(recs, u.trees[<<r, i>>], i, Len(recs)), recs, Len(recs), i)
    BY <1>3, <2>1, <2>2, AppendLists
  <2> HIDE DEF recs
  <2>4. t[<<r, i>>] = Entered(recs, u.trees[<<r, i>>], i, Len(recs))
    BY <1>5, <2>1
  <2> QED BY <2>3, <2>4
<1> HIDE DEF v, new, recs
<1>6. DOMAIN w = DOMAIN u.rels /\ w[r] = new /\ \A x \in DOMAIN u.rels \ {r} : w[x] = u.rels[x]
  BY <1>3
<1>7. /\ DOMAIN t = DOMAIN u.trees
      /\ \A s, i : s # r /\ <<s, i>> \in DOMAIN u.trees => t[<<s, i>>] = u.trees[<<s, i>>]
  OBVIOUS
<1> HIDE DEF w, t
<1>8. IsDb(v) /\ v.rels = w /\ v.trees = t /\ v.open = u.open
  BY <1>2 DEF IsDb
<1>9. Pairs(DOMAIN v.trees)
  BY <1>1, <1>7, <1>8
<1>10. \A s : s # r => SameAt(u, v, s)
  BY <1>6, <1>7, <1>8 DEF SameAt
<1>11. Local(v, r)
  <2>1. Known(v, r) = Known(u, r)
    BY <1>4, <1>6, <1>8 DEF Known
  <2>2. \A i : <<r, i>> \in DOMAIN v.trees <=> r \in DOMAIN v.rels /\ i \in Known(v, r)
    BY <1>1, <1>6, <1>7, <1>8, <2>1 DEF Local
  <2>3. \A i : <<r, i>> \in DOMAIN v.trees =>
          Lists(v.trees[<<r, i>>], v.rels[r].recs, Len(v.rels[r].recs), i)
    BY <1>4, <1>5, <1>6, <1>7, <1>8
  <2> QED BY <1>3, <1>4, <1>6, <1>8, <2>2, <2>3 DEF Local
<1>12. Sound(v)
  BY <1>8, <1>9, <1>10, <1>11, OneChanges
<1> QED BY <1>4, <1>6, <1>8, <1>12 DEF v

\* an entry whose roots are others
LEMMA RootsSet ==
  ASSUME NEW u, IsDb(u), NEW r, r \in DOMAIN u.open, NEW x, OpenOk(u.open[r], x),
         NEW roots, roots \subseteq 1 .. Len(x.attrs)
  PROVE  LET v == setAttrCatEntry(u, r, roots) IN
         /\ IsDb(v) /\ v.rels = u.rels /\ v.trees = u.trees /\ DOMAIN v.open = DOMAIN u.open
         /\ \A s \in DOMAIN u.open \ {r} : v.open[s] = u.open[s]
         /\ v.open[r].roots = roots /\ OpenOk(v.open[r], x)
<1> DEFINE e == u.open[r]
           f == [e EXCEPT !.roots = roots]
           o == [u.open EXCEPT ![r] = f]
           v == setAttrCatEntry(u, r, roots)
<1>1. v = [rels |-> u.rels, trees |-> u.trees, open |-> o]
  BY DEF setAttrCatEntry, IsDb
<1> HIDE DEF e, v
<1>2. e = [search |-> e.search, index |-> e.index, roots |-> e.roots] /\ e.search \in 0 .. Len(x.recs)
  BY DEF OpenOk, e
<1>3. f = [search |-> e.search, index |-> e.index, roots |-> roots]
  BY <1>2
<1> HIDE DEF f
<1>4. f.roots = roots /\ OpenOk(f, x)
  BY <1>2, <1>3 DEF OpenOk
<1>5. DOMAIN o = DOMAIN u.open /\ o[r] = f /\ \A s \in DOMAIN u.open \ {r} : o[s] = u.open[s]
  OBVIOUS
<1> HIDE DEF o
<1>6. IsDb(v) /\ v.rels = u.rels /\ v.trees = u.trees /\ v.open = o
  BY <1>1 DEF IsDb
<1> QED BY <1>4, <1>5, <1>6 DEF v

\* bPlusCreate: an index of all the records.
LEMMA SoundIndex ==
  ASSUME NEW u, Sound(u), NEW r, r \in DOMAIN u.open, NEW i \in 1 .. Len(u.rels[r].attrs)
  PROVE  Sound(bPlusCreate(u, r, i))
<1> DEFINE x     == u.rels[r]
           roots == u.open[r].roots \cup {i}
           leaf  == Leaf(x.recs, i)
           w     == setAttrCatEntry(u, r, roots)
           t     == With(w.trees, <<r, i>>, leaf)
           v     == bPlusCreate(u, r, i)
<1>1. IsDb(u) /\ Local(u, r) /\ Pairs(DOMAIN u.trees)
  BY DEF Sound
<1>2. r \in DOMAIN u.rels /\ RelOk(x) /\ OpenOk(u.open[r], x)
  BY <1>1 DEF Local
<1>3. Lists(leaf, x.recs, Len(x.recs), i)
  BY <1>2, RelNumbers, LeafLists
<1>4. roots \subseteq 1 .. Len(x.attrs)
  BY <1>2 DEF OpenOk
<1>5. v = [w EXCEPT !.trees = t]
  BY DEF bPlusCreate, Recs
<1> HIDE DEF v, leaf, roots
<1>6. /\ IsDb(w) /\ w.rels = u.rels /\ w.trees = u.trees /\ DOMAIN w.open = DOMAIN u.open
      /\ \A s \in DOMAIN u.open \ {r} : w.open[s] = u.open[s]
      /\ w.open[r].roots = roots /\ OpenOk(w.open[r], x)
  BY <1>1, <1>2, <1>4, RootsSet
<1> HIDE DEF w
<1>7. /\ DOMAIN t = DOMAIN u.trees \cup {<<r, i>>} /\ t[<<r, i>>] = leaf
      /\ \A p \in DOMAIN u.trees \ {<<r, i>>} : t[p] = u.trees[p]
  BY <1>6 DEF With
<1> HIDE DEF t
<1>8. v.rels = u.rels /\ v.trees = t /\ v.open = w.open /\ IsDb(v)
  BY <1>5, <1>6 DEF IsDb
<1>9. Pairs(DOMAIN v.trees)
  BY <1>1, <1>7, <1>8 DEF Pairs
<1>10. \A s : s # r => SameAt(u, v, s)
  BY <1>6, <1>7, <1>8 DEF SameAt
<1>11. Local(v, r)
  <2>1. Known(v, r) = Known(u, r) \cup {i}
    BY <1>6, <1>8 DEF Known, roots
  <2>2. \A j : <<r, j>> \in DOMAIN v.trees <=> r \in DOMAIN v.rels /\ j \in Known(v, r)
    BY <1>1, <1>2, <1>7, <1>8, <2>1 DEF Local
  <2>3. ASSUME NEW j, <<r, j>> \in DOMAIN v.trees
        PROVE  Lists(v.trees[<<r, j>>], v.rels[r].recs, Len(v.rels[r].recs), j)
    <3>1. CASE j = i
      BY <1>3, <1>7, <1>8, <3>1
    <3>2. CASE j # i
      BY <1>1, <1>7, <1>8, <2>3, <3>2 DEF Local
    <3> QED BY <3>1, <3>2
  <2> HIDE DEF x
  <2> QED BY <1>2, <1>6, <1>8, <2>2, <2>3 DEF Local, x
<1>12. Sound(v)
  BY <1>8, <1>9, <1>10, <1>11, OneChanges
<1> QED BY <1>12 DEF v

\* dropIndex: the cache forgets the index that goes.
LEMMA SoundDrop ==
  ASSUME NEW u, Sound(u), NEW r, r \in DOMAIN u.open, NEW i
  PROVE  Sound([setAttrCatEntry(u, r, u.open[r].roots \ {i}) EXCEPT
                  !.trees = Without(@, {<<r, i>>})])
<1> DEFINE x     == u.rels[r]
           roots == u.open[r].roots \ {i}
           w     == setAttrCatEntry(u, r, roots)
           g     == {<<r, i>>}
           t     == Without(w.trees, g)
           v     == [w EXCEPT !.trees = t]
<1>1. IsDb(u) /\ Local(u, r) /\ Pairs(DOMAIN u.trees)
  BY DEF Sound
<1>2. r \in DOMAIN u.rels /\ RelOk(x) /\ OpenOk(u.open[r], x)
  BY <1>1 DEF Local
<1>3. roots \subseteq 1 .. Len(x.attrs)
  BY <1>2 DEF OpenOk
<1> HIDE DEF roots
<1>4. /\ IsDb(w) /\ w.rels = u.rels /\ w.trees = u.trees /\ DOMAIN w.open = DOMAIN u.open
      /\ \A s \in DOMAIN u.open \ {r} : w.open[s] = u.open[s]
      /\ w.open[r].roots = roots /\ OpenOk(w.open[r], x)
  BY <1>1, <1>2, <1>3, RootsSet
<1> HIDE DEF w
<1>5. /\ DOMAIN t = DOMAIN u.trees \ {<<r, i>>}
      /\ \A p \in DOMAIN u.trees \ {<<r, i>>} : t[p] = u.trees[p]
  <2> HIDE DEF g
  <2>1. DOMAIN t = DOMAIN w.trees \ g /\ \A p \in DOMAIN w.trees \ g : t[p] = w.trees[p]
    BY WithoutMap
  <2> HIDE DEF t
  <2> QED BY <1>4, <2>1 DEF g
<1> HIDE DEF t
<1>6. v.rels = u.rels /\ v.trees = t /\ v.open = w.open /\ IsDb(v)
  BY <1>4 DEF IsDb
<1> HIDE DEF v
<1>7. Pairs(DOMAIN v.trees)
  BY <1>1, <1>5, <1>6 DEF Pairs
<1>8. \A s : s # r => SameAt(u, v, s)
  BY <1>4, <1>5, <1>6 DEF SameAt
<1>9. Local(v, r)
  <2>1. Known(v, r) = Known(u, r) \ {i}
    BY <1>4, <1>6 DEF Known, roots
  <2>2. \A j : <<r, j>> \in DOMAIN v.trees <=> r \in DOMAIN v.rels /\ j \in Known(v, r)
    BY <1>1, <1>2, <1>5, <1>6, <2>1 DEF Local
  <2>3. \A j : <<r, j>> \in DOMAIN v.trees =>
          Lists(v.trees[<<r, j>>], v.rels[r].recs, Len(v.rels[r].recs), j)
    BY <1>1, <1>5, <1>6 DEF Local
  <2> HIDE DEF x
  <2> QED BY <1>2, <1>4, <1>6, <2>2, <2>3 DEF Local, x
<1>10. Sound(v)
  BY <1>6, <1>7, <1>8, <1>9, OneChanges
<1> QED BY <1>10 DEF v, t, w, g, roots

\* renameAttribute: a name for a name.
LEMMA SoundRename ==
  ASSUME NEW u, Sound(u), NEW r, r \in DOMAIN u.rels, NEW a, AttrNo(u, r, a) # 0,
         NEW b \in STRING
  PROVE  Sound(renameAttribute(u, r, a, b))
<1> DEFINE x     == u.rels[r]
           i     == AttrNo(u, r, a)
           attrs == [x.attrs EXCEPT ![i] = b]
           new   == [x EXCEPT !.attrs = attrs]
           w     == [u.rels EXCEPT ![r] = new]
           v     == renameAttribute(u, r, a, b)
<1>1. IsDb(u) /\ Local(u, r) /\ Pairs(DOMAIN u.trees)
  BY DEF Sound
<1>2. RelOk(x)
  BY <1>1 DEF Local
<1>3. v = [rels |-> w, trees |-> u.trees, open |-> u.open]
  <2> HIDE DEF i
  <2>1. v = [u EXCEPT !.rels = w]
    BY DEF renameAttribute, i
  <2> HIDE DEF v, w
  <2> QED BY <1>1, <2>1 DEF IsDb
<1> HIDE DEF v, i, x
<1>4. x \in [attrs : Seq(STRING), recs : Seq(Seq(Int)), roots : SUBSET Nat]
  BY <1>2 DEF RelOk
<1>5. attrs \in Seq(STRING) /\ Len(attrs) = Len(x.attrs)
  <2>1. x.attrs \in Seq(STRING)
    BY <1>4
  <2>2. i \in 1 .. Len(x.attrs)
    BY <2>1, AttrNumber DEF i, AttrNo, Attrs, x
  <2> HIDE DEF attrs
  <2>3. attrs = [x.attrs EXCEPT ![i] = b]
    BY DEF attrs
  <2> QED BY <2>1, <2>2, <2>3, ExceptSeq
<1> HIDE DEF attrs
<1>6. /\ new \in [attrs : Seq(STRING), recs : Seq(Seq(Int)), roots : SUBSET Nat]
      /\ new.attrs = attrs /\ new.recs = x.recs /\ new.roots = x.roots
  BY <1>4, <1>5
<1> HIDE DEF new
<1>7. RelOk(new) /\ \A e : OpenOk(e, x) => OpenOk(e, new)
  BY <1>2, <1>5, <1>6 DEF RelOk, OpenOk
<1>8. DOMAIN w = DOMAIN u.rels /\ w[r] = new /\ \A s \in DOMAIN u.rels \ {r} : w[s] = u.rels[s]
  OBVIOUS
<1> HIDE DEF w
<1>9. IsDb(v) /\ v.rels = w /\ v.trees = u.trees /\ v.open = u.open
  BY <1>3 DEF IsDb
<1>10. Pairs(DOMAIN v.trees)
  BY <1>1, <1>9
<1>11. \A s : s # r => SameAt(u, v, s)
  BY <1>8, <1>9 DEF SameAt
<1>12. Local(v, r)
  <2>1. Known(v, r) = Known(u, r)
    BY <1>6, <1>8, <1>9 DEF Known, x
  <2> QED BY <1>1, <1>6, <1>7, <1>8, <1>9, <2>1 DEF Local, x
<1>13. Sound(v)
  BY <1>9, <1>10, <1>11, <1>12, OneChanges
<1> QED BY <1>13 DEF v

\* an entry that says the same of relation x but for its search indexes
Moves(u, v, r) ==
  /\ IsDb(v) /\ v.rels = u.rels /\ v.trees = u.trees /\ DOMAIN v.open = DOMAIN u.open
  /\ \A s \in DOMAIN u.open \ {r} : v.open[s] = u.open[s]
  /\ v.open[r].roots = u.open[r].roots

\* A search index that moves changes nothing else.
LEMMA SoundMoves ==
  ASSUME NEW u, Sound(u), NEW r, r \in DOMAIN u.open,
         NEW v, Moves(u, v, r), OpenOk(v.open[r], u.rels[r])
  PROVE  Sound(v)
<1>1. IsDb(u) /\ Local(u, r) /\ Pairs(DOMAIN u.trees)
  BY DEF Sound
<1>2. \A s : s # r => SameAt(u, v, s)
  BY DEF SameAt, Moves
<1>3. Local(v, r)
  <2>1. Known(v, r) = Known(u, r)
    BY DEF Known, Moves
  <2> QED BY <1>1, <2>1 DEF Local, Moves
<1> QED BY <1>1, <1>2, <1>3, OneChanges DEF Moves

\* setSearchIndex and resetSearchIndex.
LEMMA SoundSeek ==
  ASSUME NEW u, Sound(u), NEW r, r \in DOMAIN u.open
  PROVE  /\ \A k \in 0 .. Len(u.rels[r].recs) : Sound([u EXCEPT !.open[r].search = k])
         /\ \A i, k : Sound([u EXCEPT !.open[r].index[i] = k])
<1> DEFINE e == u.open[r]
<1>1. IsDb(u) /\ OpenOk(e, u.rels[r])
  BY DEF Sound, Local
<1> HIDE DEF e
<1>2. e = [search |-> e.search, index |-> e.index, roots |-> e.roots]
  BY <1>1 DEF OpenOk
<1>3. ASSUME NEW f, f.roots = e.roots, OpenOk(f, u.rels[r])
      PROVE  Sound([u EXCEPT !.open = [u.open EXCEPT ![r] = f]])
  <2> DEFINE o == [u.open EXCEPT ![r] = f]
             v == [u EXCEPT !.open = o]
  <2>1. DOMAIN o = DOMAIN u.open /\ o[r] = f /\ \A s \in DOMAIN u.open \ {r} : o[s] = u.open[s]
    OBVIOUS
  <2> HIDE DEF o
  <2>2. IsDb(v) /\ v.rels = u.rels /\ v.trees = u.trees /\ v.open = o
    BY <1>1 DEF IsDb
  <2> HIDE DEF v
  <2>3. Moves(u, v, r) /\ OpenOk(v.open[r], u.rels[r])
    BY <1>3, <2>1, <2>2 DEF Moves, e
  <2>4. Sound(v)
    BY <2>3, SoundMoves
  <2> QED BY <2>4 DEF v, o
<1>4. ASSUME NEW k \in 0 .. Len(u.rels[r].recs) PROVE Sound([u EXCEPT !.open[r].search = k])
  <2> DEFINE f == [e EXCEPT !.search = k]
  <2>1. f = [search |-> k, index |-> e.index, roots |-> e.roots]
    BY <1>2
  <2> HIDE DEF f
  <2>2. f.roots = e.roots /\ OpenOk(f, u.rels[r])
    BY <1>1, <2>1 DEF OpenOk
  <2>3. Sound([u EXCEPT !.open = [u.open EXCEPT ![r] = f]])
    BY <1>3, <2>2
  <2> QED BY <2>3 DEF f, e
<1>5. ASSUME NEW i, NEW k PROVE Sound([u EXCEPT !.open[r].index[i] = k])
  <2> DEFINE f == [e EXCEPT !.index = [e.index EXCEPT ![i] = k]]
  <2>1. f = [search |-> e.search, index |-> [e.index EXCEPT ![i] = k], roots |-> e.roots]
    BY <1>2
  <2> HIDE DEF f
  <2>2. f.roots = e.roots /\ f.search = e.search /\ f = [search |-> f.search, index |-> f.index, roots |-> f.roots]
    BY <2>1
  <2>3. OpenOk(f, u.rels[r])
    BY <1>1, <2>2 DEF OpenOk
  <2>4. Sound([u EXCEPT !.open = [u.open EXCEPT ![r] = f]])
    BY <1>3, <2>2, <2>3
  <2> QED BY <2>4 DEF f, e
<1> QED BY <1>4, <1>5

\* One position of a search that moves.
LEMMA SoundSearch ==
  ASSUME NEW u, Sound(u), NEW r, r \in DOMAIN u.open, NEW k \in 0 .. Len(u.rels[r].recs)
  PROVE  Sound([u EXCEPT !.open[r].search = k])
BY SoundSeek, Zenon

\* One position in an index that moves.
LEMMA SoundIndexSearch ==
  ASSUME NEW u, Sound(u), NEW r, r \in DOMAIN u.open, NEW i, NEW k
  PROVE  Sound([u EXCEPT !.open[r].index[i] = k])
BY SoundSeek, Zenon

-----------------------------------------------------------------------------
(* Records that are read and inserted.                                     *)

\* A sequence without one of its elements.
LEMMA RemoveAtIs ==
  ASSUME NEW S, NEW s \in Seq(S), NEW i \in 1 .. Len(s)
  PROVE  RemoveAt(s, i) \in Seq(S) /\ Len(RemoveAt(s, i)) = Len(s) - 1
<1> DEFINE a == SubSeq(s, 1, i - 1)
           b == SubSeq(s, i + 1, Len(s))
<1>1. Len(s) \in Nat
  OBVIOUS
<1>2. a \in Seq(S) /\ Len(a) = i - 1
  <2>1. i - 1 \in 0 .. Len(s) /\ 1 \in Nat \ {0} /\ 1 <= (i - 1) + 1
    BY <1>1
  <2>2. a \in Seq(S) /\ Len(a) = (i - 1) - 1 + 1
    BY <2>1, SubSeqIs
  <2> QED BY <1>1, <2>2
<1>3. b \in Seq(S) /\ Len(b) = Len(s) - i
  <2>1. Len(s) \in 0 .. Len(s) /\ i + 1 \in Nat \ {0} /\ i + 1 <= Len(s) + 1
    BY <1>1
  <2>2. b \in Seq(S) /\ Len(b) = Len(s) - (i + 1) + 1
    BY <2>1, SubSeqIs
  <2> QED BY <1>1, <2>2
<1> HIDE DEF a, b
<1>4. a \o b \in Seq(S) /\ Len(a \o b) = Len(a) + Len(b)
  BY <1>2, <1>3, ConcatIs, Zenon
<1>5. Len(a) + Len(b) = Len(s) - 1
  BY <1>1, <1>2, <1>3
<1> QED BY <1>4, <1>5 DEF RemoveAt, a, b

\* A record of a relation.
LEMMA RecordIs ==
  ASSUME NEW x, RelOk(x), NEW p \in 1 .. Len(x.recs)
  PROVE  x.recs[p] \in Seq(Int) /\ Len(x.recs[p]) = Len(x.attrs)
BY DEF RelOk

\* What the search finds is a record, and the search stays inside its relation.
LEMMA HitIs ==
  ASSUME NEW u, Sound(u), NEW r, r \in DOMAIN u.open, NEW i \in 1 .. Len(u.rels[r].attrs),
         NEW op, NEW y, Hits(u, r, i, op, y) # {}
  PROVE  LET k == Min(Hits(u, r, i, op, y)) IN
         /\ RecordAt(u, r, i, k) \in Seq(Int)
         /\ Len(RecordAt(u, r, i, k)) = Len(u.rels[r].attrs)
         /\ Sound(Moved(u, r, i, k))
<1> DEFINE x    == u.rels[r]
           n    == Len(x.recs)
           leaf == u.trees[<<r, i>>]
           hits == Hits(u, r, i, op, y)
           k    == Min(hits)
<1>1. Local(u, r) /\ r \in DOMAIN u.rels /\ RelOk(x)
  BY DEF Sound, Local
<1>2. x.recs \in Seq(Seq(Int)) /\ n \in Nat /\ DOMAIN x.recs = 1 .. n
  BY <1>1 DEF RelOk
<1>3. CASE Indexed(u, r, i)
  <2>1. <<r, i>> \in DOMAIN u.trees
    BY <1>1, <1>3 DEF Indexed, Local, Known
  <2>2. Lists(leaf, x.recs, n, i)
    BY <1>1, <2>1 DEF Local
  <2>3. leaf \in Seq(Nat) /\ DOMAIN leaf = 1 .. n /\ \A j \in 1 .. n : leaf[j] \in 1 .. n
    <3> HIDE DEF leaf, n
    <3>1. leaf \in Seq(Nat) /\ Len(leaf) = n /\ \A j \in 1 .. n : leaf[j] \in 1 .. n
      BY <2>2 DEF Lists
    <3> QED BY <3>1
  <2>4. hits \subseteq 1 .. n
    BY <1>3, <2>3 DEF Hits, leafHits
  <2> HIDE DEF hits, leaf, n, x
  <2>5. k \in 1 .. n
    <3>1. hits \subseteq Nat /\ hits # {}
      BY <2>4 DEF hits
    <3> QED BY <2>4, <3>1, MinIs
  <2> HIDE DEF k
  <2>6. leaf[k] \in 1 .. n
    BY <2>3, <2>5
  <2>7. RecordAt(u, r, i, k) = x.recs[leaf[k]]
    BY <1>3 DEF RecordAt, Recs, leaf, x
  <2>8. x.recs[leaf[k]] \in Seq(Int) /\ Len(x.recs[leaf[k]]) = Len(x.attrs)
    BY <1>1, <2>6, RecordIs DEF n
  <2>9. Moved(u, r, i, k) = [u EXCEPT !.open[r].index[i] = k]
    BY <1>3 DEF Moved
  <2>10. Sound(Moved(u, r, i, k))
    <3>1. Sound([u EXCEPT !.open[r].index[i] = k])
      BY SoundIndexSearch
    <3> QED BY <2>9, <3>1
  <2> QED BY <2>7, <2>8, <2>10 DEF k, hits, x
<1>4. CASE ~ Indexed(u, r, i)
  <2>1. hits \subseteq 1 .. n
    BY <1>2, <1>4 DEF Hits, linearHits, Recs
  <2> HIDE DEF hits
  <2>2. k \in 1 .. n
    <3>1. hits \subseteq Nat /\ hits # {}
      BY <1>2, <2>1 DEF hits
    <3> QED BY <2>1, <3>1, MinIs
  <2> HIDE DEF k
  <2>3. RecordAt(u, r, i, k) = x.recs[k]
    BY <1>4 DEF RecordAt, Recs
  <2>4. x.recs[k] \in Seq(Int) /\ Len(x.recs[k]) = Len(x.attrs)
    BY <1>1, <2>2, RecordIs
  <2>5. Moved(u, r, i, k) = [u EXCEPT !.open[r].search = k] /\ k \in 0 .. Len(u.rels[r].recs)
    BY <1>2, <1>4, <2>2 DEF Moved
  <2>6. Sound(Moved(u, r, i, k))
    <3> HIDE DEF x, n
    <3>1. Sound([u EXCEPT !.open[r].search = k])
      BY <2>5, SoundSearch
    <3> QED BY <2>5, <3>1
  <2> QED BY <2>3, <2>4, <2>6 DEF k, hits
<1> QED BY <1>3, <1>4

\* resetSearchIndex, of both caches.
LEMMA SoundReset ==
  ASSUME NEW u, Sound(u), NEW r, r \in DOMAIN u.open, NEW i
  PROVE  Sound(ResetSearch(u, r, i))
<1> DEFINE v == [u EXCEPT !.open[r].search = 0]
<1>1. Len(u.rels[r].recs) \in Nat /\ IsDb(u)
  BY DEF Sound, Local, RelOk
<1>2. Sound(v)
  <2>1. 0 \in 0 .. Len(u.rels[r].recs)
    BY <1>1
  <2> QED BY <2>1, SoundSearch
<1>3. r \in DOMAIN v.open
  BY <1>1 DEF IsDb
<1> HIDE DEF v
<1>4. Sound([v EXCEPT !.open[r].index[i] = 0])
  BY <1>2, <1>3, SoundIndexSearch
<1> QED BY <1>4 DEF ResetSearch, v

\* how many attributes the target of a call has
Width(R, c) ==
  CASE c.list # <<>> -> Len(c.list)
    [] c.list = <<>> /\ c.kind = "join" -> Len(R[c.src].attrs) + Len(R[c.src2].attrs) - 1
    [] OTHER -> Len(R[c.src].attrs)

\* the relations that a call reads
Sources(R, O, c) ==
  /\ c.src \in O
  /\ c.kind # "project" => NumOf(R[c.src].attrs, c.attr) # 0
  /\ c.kind = "join" => c.src2 \in O /\ NumOf(R[c.src2].attrs, c.attr2) # 0

\* the query as the front end passes it on
Typed(c) ==
  /\ c.kind \in {"project", "select", "join"} /\ c.list \in Seq(STRING)
  /\ c.kind # "project" => c.list = <<>>

\* The attributes of a target.
LEMMA TargetIs ==
  ASSUME NEW u, Sound(u), NEW c, Typed(c), Sources(u.rels, DOMAIN u.open, c)
  PROVE  TargetAttrs(u, c) \in Seq(STRING) /\ Len(TargetAttrs(u, c)) = Width(u.rels, c)
<1> DEFINE a1 == u.rels[c.src].attrs
           a2 == u.rels[c.src2].attrs
           i2 == NumOf(a2, c.attr2)
<1>1. a1 \in Seq(STRING)
  <2>1. Local(u, c.src) /\ c.src \in DOMAIN u.open
    BY DEF Sound, Sources
  <2> QED BY <2>1 DEF Local, RelOk
<1>2. CASE c.list # <<>>
  BY <1>2 DEF Typed, TargetAttrs, Width
<1>3. CASE c.list = <<>> /\ c.kind = "join"
  <2>1. Local(u, c.src2) /\ c.src2 \in DOMAIN u.open /\ i2 # 0
    BY <1>3 DEF Sound, Sources
  <2>2. a2 \in Seq(STRING)
    BY <2>1 DEF Local, RelOk
  <2> DEFINE b == RemoveAt(a2, i2)
  <2>3. TargetAttrs(u, c) = a1 \o b /\ Width(u.rels, c) = Len(a1) + Len(a2) - 1
    BY <1>3 DEF TargetAttrs, Width, AttrNo, Attrs
  <2>4. i2 \in 1 .. Len(a2)
    BY <2>1, <2>2, AttrNumber
  <2> HIDE DEF a1, a2, i2
  <2>5. b \in Seq(STRING) /\ Len(b) = Len(a2) - 1
    BY <2>2, <2>4, RemoveAtIs
  <2> HIDE DEF b
  <2>6. a1 \o b \in Seq(STRING) /\ Len(a1 \o b) = Len(a1) + Len(b)
    BY <1>1, <2>5, ConcatIs, Zenon
  <2>7. Len(a1) \in Nat /\ Len(a2) \in Nat
    BY <1>1, <2>2
  <2>8. Len(a1) + Len(b) = Len(a1) + Len(a2) - 1
    BY <2>5, <2>7
  <2> QED BY <2>3, <2>6, <2>8
<1>4. CASE c.list = <<>> /\ c.kind # "join"
  BY <1>1, <1>4 DEF TargetAttrs, Width, Attrs
<1> QED BY <1>2, <1>3, <1>4

-----------------------------------------------------------------------------
(* The inductive invariant: what a query has to do with the database.      *)

InOrder == Sound(Db)

\* a selection has had room for its target, which is closed when it returns
Fits ==
  /\ IsFiniteSet(DOMAIN open) /\ Cardinality(DOMAIN open) <= MAX_OPEN
  /\ pc = "back" /\ ret = "SUCCESS" /\ call.kind = "select" => Cardinality(DOMAIN open) < MAX_OPEN

\* while the target fills, its sources are open and its records fit it
Ready ==
  pc \in {"scan", "match"} =>
    /\ Sources(rels, DOMAIN open \ {call.target}, call)
    /\ Len(rels[call.target].attrs) = Width(rels, call)

\* the inner loop of a join stands at a record of the outer one
AtRow == pc = "match" => row \in 1 .. Len(rels[call.src].recs)

Flags ==
  /\ row \in Nat /\ pc \in {"idle", "call", "scan", "match", "back", "done"}
  /\ query \in Queries \cup {NoQuery}

JInv == InOrder /\ Fits /\ Ready /\ AtRow /\ Flags

\* what TypeOK says, except of lost
Types ==
  /\ \A r \in DOMAIN rels : \A rec \in ToSet(rels[r].recs) : Len(rec) = Len(rels[r].attrs)
  /\ DOMAIN open \subseteq DOMAIN rels /\ Cardinality(DOMAIN open) <= MAX_OPEN
  /\ \A r \in DOMAIN open : open[r].search \in 0 .. Len(rels[r].recs)
  /\ pc \in {"idle", "call", "scan", "match", "back", "done"}
  /\ query \in Queries \cup {NoQuery} /\ row \in Nat

\* what was lost is an index, or a record of a relation with indexes: no step follows
Over == lost /\ pc \in {"idle", "call"} /\ Types

\* What the invariants say of the types.
LEMMA TypesIs == IInv /\ JInv => Types
<1> SUFFICES ASSUME IInv, JInv PROVE Types
  OBVIOUS
<1>1. Sound(Db) /\ DOMAIN open \subseteq DOMAIN rels
  BY DEF IInv, OpenExist, JInv, InOrder
<1>2. ASSUME NEW r \in DOMAIN rels, NEW rec \in ToSet(rels[r].recs)
      PROVE  Len(rec) = Len(rels[r].attrs)
  <2>1. RelOk(rels[r])
    BY <1>1, DbIs DEF Sound, Local
  <2>2. PICK p \in 1 .. Len(rels[r].recs) : rels[r].recs[p] = rec
    BY <2>1, ToSetIs DEF RelOk
  <2> QED BY <2>1, <2>2, RecordIs
<1>3. ASSUME NEW r \in DOMAIN open PROVE open[r].search \in 0 .. Len(rels[r].recs)
  BY <1>1, DbIs DEF Sound, Local, OpenOk
<1> QED BY <1>1, <1>2, <1>3 DEF Types, JInv, Fits, Flags

\* Something is lost outside of the relations.
LEMMA OverNext ==
  ASSUME IInv, JInv, pc \in {"idle", "call"}, NEW v, SetDb(v), v.rels = rels,
         DOMAIN v.open = DOMAIN open, \A s \in DOMAIN open : v.open[s].search = open[s].search,
         lost' = TRUE, UNCHANGED control
  PROVE  Over'
<1>1. rels' = rels /\ open' = v.open
  BY DEF SetDb
<1>2. Types
  BY TypesIs
<1>3. pc' = pc /\ query' = query /\ row' = row
  BY DEF control
<1>4. /\ \A r \in DOMAIN rels' : \A rec \in ToSet(rels'[r].recs) : Len(rec) = Len(rels'[r].attrs)
      /\ DOMAIN open' \subseteq DOMAIN rels' /\ Cardinality(DOMAIN open') <= MAX_OPEN
  BY <1>1, <1>2 DEF Types
<1>5. \A r \in DOMAIN open' : open'[r].search \in 0 .. Len(rels'[r].recs)
  BY <1>1, <1>2 DEF Types
<1>6. Types'
  BY <1>2, <1>3, <1>4, <1>5 DEF Types
<1> QED BY <1>3, <1>6 DEF Over

\* A root that is no block.
LEMMA OverIndex ==
  ASSUME IInv, JInv, pc \in {"idle", "call"}, NEW r \in DOMAIN open, NEW i,
         SetDb(bPlusCreateLost(Db, r, i)), lost' = TRUE, UNCHANGED control
  PROVE  Over'
<1> DEFINE roots == Db.open[r].roots \cup {i}
           o     == [Db.open EXCEPT ![r].roots = roots]
           v     == bPlusCreateLost(Db, r, i)
<1>1. /\ IsDb(v) /\ v.rels = rels /\ DOMAIN v.open = DOMAIN open
  BY DbIs, IndexLostCall DEF SameOpen
<1>2. v = [Db EXCEPT !.open = o]
  BY DEF bPlusCreateLost, setAttrCatEntry
<1>3. v.open = o
  <2> HIDE DEF v, o
  <2> QED BY <1>2, DbIs DEF IsDb
<1>4. OpenOk(open[r], rels[r])
  BY DbIs DEF JInv, InOrder, Sound, Local
<1>5. \A s \in DOMAIN open : v.open[s].search = open[s].search
  <2> HIDE DEF v, roots
  <2>1. ASSUME NEW s \in DOMAIN open PROVE o[s].search = open[s].search
    <3>1. CASE s # r
      BY <3>1, DbIs
    <3>2. CASE s = r
      <4>1. o[r] = [open[r] EXCEPT !.roots = roots]
        BY DbIs
      <4> QED BY <1>4, <3>2, <4>1 DEF OpenOk
    <3> QED BY <3>1, <3>2
  <2> QED BY <1>3, <2>1
<1> HIDE DEF v
<1> QED BY <1>1, <1>5, OverNext DEF v

\* The database that a step sets.
LEMMA InOrderNext ==
  ASSUME NEW v, SetDb(v), Sound(v)
  PROVE  InOrder' /\ rels' = v.rels /\ open' = v.open
<1>1. Db' = v
  BY DEF Db, SetDb, Sound, IsDb
<1>2. rels' = v.rels /\ open' = v.open
  BY DEF SetDb
<1> HIDE DEF Db
<1> QED BY <1>1, <1>2 DEF InOrder

\* The function that runs, as the front end passes it on.
LEMMA CallTyped ==
  ASSUME Running, pc # "idle"
  PROVE  Typed(call)
<1>1. /\ query.kind \in {"project", "select", "join"} /\ query.list \in Seq(STRING)
      /\ query \in [kind : {"project", "select", "join"}, src : STRING, src2 : STRING,
           target : STRING, attr : STRING, attr2 : STRING,
           op : {"EQ", "NE", "LT", "LE", "GT", "GE"}, val : Int, list : Seq(STRING)]
  BY AlgebraAssumption DEF Running
<1>2. CASE call = First(query)
  <2>1. CASE Composite(query)
    <3>1. call = [query EXCEPT !.target = Temp(query), !.list = <<>>]
      BY <1>2, <2>1 DEF First
    <3>2. call.kind = query.kind /\ call.list = <<>>
      BY <1>1, <3>1
    <3> QED BY <1>1, <3>2 DEF Typed
  <2>2. CASE ~ Composite(query)
    BY <1>1, <1>2, <2>2 DEF First, Composite, Typed
  <2> QED BY <2>1, <2>2
<1>3. CASE call = Second(query)
  <2>1. call.kind = "project" /\ call.list = query.list
    BY <1>3 DEF Second, Query, NoQuery
  <2> QED BY <1>1, <2>1 DEF Typed
<1> QED BY <1>2, <1>3 DEF Running

\* one relation more is open
LEMMA OneMore ==
  ASSUME NEW S, NEW T, IsFiniteSet(S), NEW x, x \notin S, T = S \cup {x}
  PROVE  IsFiniteSet(T) /\ Cardinality(T) = Cardinality(S) + 1
BY FS_AddElement

\* one relation less is open
LEMMA OneLess ==
  ASSUME NEW S, NEW T, IsFiniteSet(S), NEW x, T = S \ {x}
  PROVE  /\ IsFiniteSet(T) /\ Cardinality(S) \in Nat
         /\ Cardinality(T) = IF x \in S THEN Cardinality(S) - 1 ELSE Cardinality(S)
BY FS_RemoveElement, FS_CardinalityType

\* A target is created and opened; its attributes are as many as its records need.
LEMMA PrepareSound ==
  ASSUME NEW u, Sound(u), Quiet(u), Typed(call), Sources(u.rels, DOMAIN u.open, call),
         DOMAIN u.open \subseteq DOMAIN u.rels, PrepareTarget(u)
  PROVE  /\ InOrder'
         /\ \/ UNCHANGED control /\ DOMAIN open' = DOMAIN open
            \/ pc' = "back" /\ ret' # "SUCCESS" /\ row' = 0 /\ DOMAIN open' = DOMAIN open
            \/ /\ pc' = "scan" /\ row' = row /\ Room(u)
               /\ call.target \notin DOMAIN rels
               /\ DOMAIN open' = DOMAIN open \cup {call.target}
               /\ Sources(rels', DOMAIN open, call)
               /\ Len(rels'[call.target].attrs) = Width(rels', call)
<1> DEFINE t     == call.target
           attrs == TargetAttrs(u, call)
           error == CreateError(u, t, attrs)
           w     == createRel(u, t, attrs)
           v     == openRel(w, t)
           x     == ResetFor(v, call)
<1>1. CASE SetDb(u) /\ \E e \in {"E_RELEXIST", "E_DUPLICATEATTR", "E_MAXRELATIONS",
                                 "E_DISKFULL", "E_CACHEFULL"} : Finish(e)
  <2>1. InOrder' /\ open' = u.open
    BY <1>1, InOrderNext
  <2>2. pc' = "back" /\ ret' # "SUCCESS" /\ row' = 0
    BY <1>1 DEF Finish
  <2> QED BY <2>1, <2>2 DEF Quiet
<1>2. CASE /\ error = "SUCCESS" /\ Room(u) /\ SetDb(x) /\ pc' = "scan"
           /\ UNCHANGED <<query, call, row, ret, old, lost>>
  <2>1. t \notin DOMAIN u.rels /\ t \notin DOMAIN u.open
    BY <1>2 DEF CreateError
  <2>2. attrs \in Seq(STRING) /\ Len(attrs) = Width(u.rels, call)
    BY TargetIs
  <2> HIDE DEF attrs
  <2>3. Sound(w) /\ w.rels[t].attrs = attrs
    BY <2>1, <2>2, SoundCreate
  <2>4. /\ Like(u, w, {t}) /\ SameOpen(u, w)
        /\ DOMAIN w.rels = DOMAIN u.rels \cup {t} /\ IsDb(w)
    BY CreateCall DEF Quiet
  <2> HIDE DEF w
  <2>5. t \in DOMAIN w.rels /\ t \notin DOMAIN w.open
    BY <2>1, <2>4 DEF SameOpen
  <2>6. Sound(v)
    BY <2>3, <2>5, SoundOpen
  <2>7. v.rels = w.rels /\ DOMAIN v.open = DOMAIN w.open \cup {t}
    BY <2>4, OpenCall
  <2> HIDE DEF v
  <2>8. call.src \in DOMAIN v.open
    BY <2>4, <2>7 DEF Sources, SameOpen
  <2>9. Sound(x) /\ x.rels = v.rels /\ DOMAIN x.open = DOMAIN v.open
    <3>1. IsDb(v) /\ Len(v.rels[call.src].recs) \in Nat
      BY <2>6, <2>8 DEF Sound, Local, RelOk
    <3> DEFINE y == [v EXCEPT !.open[call.src].search = 0]
               i == AttrNo(v, call.src, call.attr)
    <3>2. Sound(y)
      <4>1. 0 \in 0 .. Len(v.rels[call.src].recs)
        BY <3>1
      <4> QED BY <2>6, <2>8, <4>1, SoundSearch
    <3>3. IsDb(y) /\ y.rels = v.rels /\ SameOpen(v, y)
      BY <3>1 DEF IsDb, SameOpen
    <3>4. CASE call.kind = "select"
      <4>1. x = ResetSearch(v, call.src, i)
        BY <3>4 DEF ResetFor
      <4> HIDE DEF x, i
      <4>2. Sound(x)
        BY <2>6, <2>8, <4>1, SoundReset
      <4>3. x = [y EXCEPT !.open[call.src].index[i] = 0]
        BY <4>1 DEF ResetSearch
      <4> HIDE DEF y
      <4>4. x.rels = y.rels /\ SameOpen(y, x)
        BY <3>3, <4>3 DEF IsDb, SameOpen
      <4> QED BY <3>3, <4>2, <4>4 DEF SameOpen
    <3>5. CASE call.kind # "select"
      <4>1. x = y
        BY <3>5 DEF ResetFor
      <4> HIDE DEF x, y
      <4> QED BY <3>2, <3>3, <4>1 DEF SameOpen
    <3> QED BY <3>4, <3>5
  <2> HIDE DEF x
  <2>10. InOrder' /\ rels' = x.rels /\ open' = x.open
    BY <1>2, <2>9, InOrderNext
  <2>11. rels' = w.rels /\ DOMAIN open' = DOMAIN u.open \cup {t}
    BY <2>4, <2>7, <2>9, <2>10 DEF SameOpen
  <2>12. call.src \in DOMAIN u.rels /\ w.rels[call.src] = u.rels[call.src]
    BY <2>1, <2>4 DEF Sources, Like
  <2>13. call.kind = "join" => w.rels[call.src2] = u.rels[call.src2]
    BY <2>1, <2>4 DEF Sources, Like
  <2>14. Sources(rels', DOMAIN u.open, call)
    BY <2>11, <2>12, <2>13 DEF Sources
  <2>15. Width(rels', call) = Width(u.rels, call)
    BY <2>11, <2>12, <2>13 DEF Width
  <2> QED BY <1>2, <2>1, <2>2, <2>3, <2>10, <2>11, <2>14, <2>15 DEF Quiet
<1>3. error \in {"SUCCESS", "E_RELEXIST", "E_DUPLICATEATTR", "E_MAXRELATIONS"}
  BY DEF CreateError
<1>4. CASE error = "SUCCESS" /\ SetDb(w) /\ UNCHANGED control
  <2>1. t \notin DOMAIN u.rels
    BY <1>4 DEF CreateError
  <2>2. attrs \in Seq(STRING)
    BY TargetIs
  <2> HIDE DEF attrs
  <2>3. Sound(w)
    BY <2>1, <2>2, SoundCreate
  <2>4. SameOpen(u, w)
    BY CreateCall DEF Quiet
  <2> HIDE DEF w
  <2>5. InOrder' /\ open' = w.open
    BY <1>4, <2>3, InOrderNext
  <2> QED BY <1>4, <2>4, <2>5 DEF SameOpen, Quiet
<1> QED BY <1>1, <1>2, <1>3, <1>4 DEF PrepareTarget, OpenFails

\* A record goes into the target or is lost, or the target goes.
LEMMA IntoSound ==
  ASSUME NEW u, Sound(u), call.target \in DOMAIN u.open,
         NEW rec \in Seq(Int), Len(rec) = Len(u.rels[call.target].attrs), InsertInto(u, rec)
  PROVE  /\ InOrder'
         /\ \/ /\ pc' = pc /\ row' = row
               /\ rels'[call.target].attrs = u.rels[call.target].attrs
            \/ pc' = "back" /\ row' = 0
<1> DEFINE t == call.target
<1>1. CASE ~NoBlock(u, t)
  <2> DEFINE v == insert(u, t, rec)
  <2>1. SetDb(v) /\ pc' = pc /\ row' = row
    BY <1>1 DEF InsertInto, control
  <2>2. Sound(v) /\ v.rels[t].attrs = u.rels[t].attrs
    BY SoundInsert
  <2> HIDE DEF v
  <2> QED BY <2>1, <2>2, InOrderNext
<1>2. CASE SetDb(deleteRel(closeRel(u, t), t)) /\ Finish("E_DISKFULL")
  <2> DEFINE w == closeRel(u, t)
             v == deleteRel(w, t)
  <2>1. SetDb(v) /\ pc' = "back" /\ row' = 0
    BY <1>2 DEF Finish
  <2>2. Sound(w)
    BY SoundClose
  <2> HIDE DEF w
  <2>3. Sound(v)
    BY <2>2, SoundDelete
  <2> HIDE DEF v
  <2> QED BY <2>1, <2>3, InOrderNext
<1>3. CASE SetDb(u) /\ UNCHANGED control
  BY <1>3, InOrderNext DEF control
<1> QED BY <1>1, <1>2, <1>3 DEF InsertInto

\* The target is closed.
LEMMA CloseSound ==
  ASSUME InOrder, call.target \in DOMAIN open, CloseTarget
  PROVE  InOrder' /\ pc' = "back" /\ row' = 0
<1> DEFINE v == closeRel(Db, call.target)
<1>1. SetDb(v) /\ pc' = "back" /\ row' = 0
  BY DEF CloseTarget, Finish
<1>2. Sound(v)
  BY DbIs, SoundClose DEF InOrder
<1> HIDE DEF v
<1> QED BY <1>1, <1>2, InOrderNext

-----------------------------------------------------------------------------
(* The steps of the algebra layer.                                         *)

\* the sources stay what they are while the target fills
LEMMA ReadyKept ==
  ASSUME OpenExist, Ready, pc \in {"scan", "match"}, call' = call, Keeps({call.target}),
         DOMAIN open' = DOMAIN open, rels'[call.target].attrs = rels[call.target].attrs
  PROVE  Ready'
<1>1. /\ Sources(rels, DOMAIN open \ {call.target}, call)
      /\ Len(rels[call.target].attrs) = Width(rels, call)
  BY DEF Ready
<1>2. \A s \in DOMAIN open \ {call.target} : rels'[s] = rels[s]
  BY DEF OpenExist, Keeps
<1>3. Sources(rels', DOMAIN open' \ {call.target}, call)
  BY <1>1, <1>2 DEF Sources
<1>4. Width(rels', call) = Width(rels, call)
  BY <1>1, <1>2 DEF Sources, Width
<1> QED BY <1>1, <1>3, <1>4 DEF Ready

\* A function that begins.
LEMMA CallOk ==
  ASSUME IInv, JInv, Call
  PROVE  JInv' \/ Over'
<1> DEFINE i2 == AttrNo(Db, call.src2, call.attr2)
           b  == bPlusCreate(Db, call.src2, i2)
<1>1. pc = "call" /\ UNCHANGED query /\ call' = call
  BY CallStep DEF Call, Refused, Prepared, Stuck, Goes
<1>2. Typed(call)
  BY <1>1, CallTyped DEF IInv
<1>3. OpenExist /\ Sound(Db) /\ Fits /\ Flags
  BY DEF IInv, JInv, InOrder
<1>4. CASE UNCHANGED db /\ \E e \in {"E_RELNOTOPEN", "E_ATTRNOTEXIST", "E_ATTRTYPEMISMATCH",
                                     "E_DUPLICATEATTR", "E_DISKFULL"} : Finish(e)
  <2>1. rels' = rels /\ trees' = trees /\ open' = open /\ pc' = "back" /\ ret' # "SUCCESS" /\ row' = 0
    BY <1>4 DEF db, Finish
  <2>2. InOrder'
    BY <1>3, <2>1 DEF InOrder, Db
  <2> QED BY <1>1, <1>3, <2>1, <2>2 DEF JInv, Fits, Ready, AtRow, Flags
<1>5. SourceError(Db, call) \in {"SUCCESS", "E_RELNOTOPEN", "E_ATTRNOTEXIST",
                                 "E_ATTRTYPEMISMATCH", "E_DUPLICATEATTR"}
  BY DEF SourceError
<1>6. ASSUME NEW u, Sound(u), Quiet(u), SourceError(Db, call) = "SUCCESS", PrepareTarget(u)
      PROVE  JInv'
  <2>1. Sources(rels, DOMAIN open, call)
    <3>1. /\ call.src \in DOMAIN open /\ (call.kind = "join" => call.src2 \in DOMAIN open)
          /\ call.kind # "project" => NumOf(rels[call.src].attrs, call.attr) # 0
          /\ call.kind = "join" => NumOf(rels[call.src2].attrs, call.attr2) # 0
      BY <1>6, DbIs DEF SourceError, Attrs
    <3> QED BY <3>1 DEF Sources
  <2>2. u.rels = rels /\ DOMAIN u.open = DOMAIN open
    BY <1>6 DEF Quiet
  <2>3. /\ InOrder'
        /\ \/ UNCHANGED control /\ DOMAIN open' = DOMAIN open
           \/ pc' = "back" /\ ret' # "SUCCESS" /\ row' = 0 /\ DOMAIN open' = DOMAIN open
           \/ /\ pc' = "scan" /\ row' = row /\ Room(u)
              /\ call.target \notin DOMAIN rels
              /\ DOMAIN open' = DOMAIN open \cup {call.target}
              /\ Sources(rels', DOMAIN open, call)
              /\ Len(rels'[call.target].attrs) = Width(rels', call)
    BY <1>2, <1>3, <1>6, <2>1, <2>2, PrepareSound DEF OpenExist
  <2>4. CASE pc' = "back" /\ ret' # "SUCCESS" /\ row' = 0 /\ DOMAIN open' = DOMAIN open
    BY <1>1, <1>3, <2>3, <2>4 DEF JInv, Fits, Ready, AtRow, Flags
  <2>5. CASE /\ pc' = "scan" /\ row' = row /\ Room(u)
             /\ call.target \notin DOMAIN rels
             /\ DOMAIN open' = DOMAIN open \cup {call.target}
             /\ Sources(rels', DOMAIN open, call)
             /\ Len(rels'[call.target].attrs) = Width(rels', call)
    <3>1. Cardinality(DOMAIN open) < MAX_OPEN /\ call.target \notin DOMAIN open
      BY <1>3, <2>2, <2>5 DEF Room, OpenExist
    <3>2. IsFiniteSet(DOMAIN open') /\ Cardinality(DOMAIN open') = Cardinality(DOMAIN open) + 1
      BY <1>3, <2>5, <3>1, OneMore DEF Fits
    <3>3. Cardinality(DOMAIN open) \in Nat /\ MAX_OPEN \in Nat
      BY <1>3, FS_CardinalityType, AlgebraAssumption DEF Fits
    <3>4. Fits'
      BY <2>5, <3>1, <3>2, <3>3 DEF Fits
    <3>5. DOMAIN open' \ {call.target} = DOMAIN open
      BY <2>5, <3>1
    <3>6. Ready'
      BY <1>1, <2>5, <3>5 DEF Ready
    <3> QED BY <1>1, <1>3, <2>3, <2>5, <3>4, <3>6 DEF JInv, AtRow, Flags
  <2>6. CASE UNCHANGED control /\ DOMAIN open' = DOMAIN open
    <3>1. pc' = "call" /\ row' = row /\ query' = query
      BY <1>1, <2>6 DEF control
    <3> QED BY <1>3, <2>3, <2>6, <3>1 DEF JInv, Fits, Ready, AtRow, Flags
  <2> QED BY <2>3, <2>4, <2>5, <2>6
<1>7. CASE SourceError(Db, call) = "SUCCESS" /\ PrepareTarget(Db)
  BY <1>3, <1>6, <1>7, QuietDb
<1>8. CASE SourceError(Db, call) = "SUCCESS" /\ call.kind = "join" /\ PrepareTarget(b)
  <2>1. Quiet(b)
    BY DbIs, IndexCall DEF Quiet, SameOpen
  <2>2. call.src2 \in DOMAIN open /\ NumOf(rels[call.src2].attrs, call.attr2) # 0
    BY <1>8, DbIs DEF SourceError, Attrs
  <2>3. Local(Db, call.src2) /\ call.src2 \in DOMAIN Db.open
    BY <1>3, <2>2, DbIs DEF Sound
  <2>4. Db.rels[call.src2].attrs \in Seq(STRING)
    BY <2>3 DEF Local, RelOk
  <2>5. i2 \in 1 .. Len(Db.rels[call.src2].attrs)
    BY <2>2, <2>4, AttrNumber, DbIs DEF AttrNo, Attrs
  <2> HIDE DEF i2
  <2>6. Sound(b)
    BY <1>3, <2>3, <2>5, SoundIndex
  <2> HIDE DEF b
  <2> QED BY <1>6, <1>8, <2>1, <2>6
<1>9. CASE SourceError(Db, call) = "SUCCESS" /\ call.kind = "join"
            /\ SetDb(bPlusCreateLost(Db, call.src2, i2)) /\ lost' = TRUE /\ UNCHANGED control
  <2>1. call.src2 \in DOMAIN open
    BY <1>9, DbIs DEF SourceError
  <2> HIDE DEF i2
  <2> QED BY <1>1, <1>9, <2>1, OverIndex
<1>10. \/ UNCHANGED db /\ \E e \in {"E_RELNOTOPEN", "E_ATTRNOTEXIST", "E_ATTRTYPEMISMATCH",
                                    "E_DUPLICATEATTR", "E_DISKFULL"} : Finish(e)
       \/ SourceError(Db, call) = "SUCCESS" /\ PrepareTarget(Db)
       \/ SourceError(Db, call) = "SUCCESS" /\ call.kind = "join" /\ PrepareTarget(b)
       \/ /\ SourceError(Db, call) = "SUCCESS" /\ call.kind = "join"
          /\ SetDb(bPlusCreateLost(Db, call.src2, i2)) /\ lost' = TRUE /\ UNCHANGED control
  <2> HIDE DEF b, i2
  <2> QED BY <1>5 DEF Call, b, i2
<1> QED BY <1>4, <1>7, <1>8, <1>9, <1>10

\* A record that is inserted into the target.
LEMMA IntoOk ==
  ASSUME IInv, JInv, pc \in {"scan", "match"}, NEW u, Sound(u), Quiet(u),
         NEW rec \in Seq(Int), Len(rec) = Width(rels, call), InsertInto(u, rec)
  PROVE  JInv'
<1> DEFINE t == call.target
<1>1. OpenExist /\ Fits /\ Ready /\ AtRow /\ Flags
  BY DEF IInv, JInv
<1>2. t \in DOMAIN open
  BY DEF IInv, Filling
<1>3. u.rels = rels /\ DOMAIN u.open = DOMAIN open
  BY DEF Quiet
<1>4. Len(rec) = Len(rels[t].attrs)
  BY <1>1 DEF Ready
<1>5. /\ InOrder'
      /\ \/ pc' = pc /\ row' = row /\ rels'[t].attrs = rels[t].attrs
         \/ pc' = "back" /\ row' = 0
  BY <1>2, <1>3, <1>4, IntoSound
<1>6. Extended \/ Undone
  BY InsertStep
<1>7. query' = query /\ call' = call
  BY <1>6 DEF Extended, Undone, Goes
<1>8. CASE Extended /\ row' = row /\ rels'[t].attrs = rels[t].attrs
  <2>1. Ready'
    BY <1>1, <1>7, <1>8, ReadyKept DEF Extended
  <2>2. DOMAIN open' = DOMAIN open /\ pc' = pc
    BY <1>8 DEF Extended
  <2>3. Fits'
    BY <1>1, <2>2 DEF Fits
  <2>4. AtRow'
    <3>1. call.src \in DOMAIN rels \ {t}
      BY <1>1 DEF Ready, Sources, OpenExist
    <3>2. rels'[call.src] = rels[call.src]
      BY <1>8, <3>1 DEF Extended, Keeps
    <3> QED BY <1>1, <1>7, <1>8, <2>2, <3>2 DEF AtRow
  <2> QED BY <1>1, <1>5, <1>7, <1>8, <2>1, <2>2, <2>3, <2>4 DEF JInv, Flags
<1>9. CASE Undone /\ row' = 0
  <2>1. pc' = "back" /\ ret' # "SUCCESS" /\ DOMAIN open' = DOMAIN open \ {t}
    BY <1>9 DEF Undone
  <2>2. /\ IsFiniteSet(DOMAIN open') /\ Cardinality(DOMAIN open) \in Nat
        /\ Cardinality(DOMAIN open') = Cardinality(DOMAIN open) - 1
    BY <1>1, <1>2, <2>1, OneLess DEF Fits
  <2>3. Fits'
    BY <1>1, <2>1, <2>2, AlgebraAssumption DEF Fits
  <2> QED BY <1>1, <1>5, <1>7, <1>9, <2>1, <2>3 DEF JInv, Ready, AtRow, Flags
<1> QED BY <1>5, <1>6, <1>8, <1>9 DEF Extended, Undone

\* A target that is closed leaves room for a relation.
LEMMA CloseOk ==
  ASSUME IInv, JInv, pc = "scan", CloseTarget
  PROVE  JInv'
<1>1. Fits /\ Flags /\ InOrder /\ call.target \in DOMAIN open
  BY DEF IInv, JInv, Filling
<1>2. InOrder' /\ pc' = "back" /\ row' = 0
  BY <1>1, CloseSound
<1>3. query' = query /\ DOMAIN open' = DOMAIN open \ {call.target}
  BY CloseStep DEF Closed, Goes
<1>4. /\ IsFiniteSet(DOMAIN open') /\ Cardinality(DOMAIN open) \in Nat
      /\ Cardinality(DOMAIN open') = Cardinality(DOMAIN open) - 1
  BY <1>1, <1>3, OneLess DEF Fits
<1>5. Fits'
  BY <1>1, <1>4, AlgebraAssumption DEF Fits
<1> QED BY <1>1, <1>2, <1>3, <1>5 DEF JInv, Ready, AtRow, Flags

\* A record cut down to a list of attributes.
LEMMA ListedIs ==
  ASSUME NEW attrs \in Seq(STRING), NEW rec \in Seq(Int), Len(rec) = Len(attrs),
         NEW list \in Seq(STRING), NEW other \in [Unknown(attrs, list) -> Garbage]
  PROVE  /\ Listed(attrs, rec, list, other) \in Seq(Int)
         /\ Len(Listed(attrs, rec, list, other)) = IF list = <<>> THEN Len(rec) ELSE Len(list)
<1> DEFINE val(j) == IF j \in Unknown(attrs, list) THEN other[j] ELSE rec[NumOf(attrs, list[j])]
           new    == [j \in DOMAIN list |-> val(j)]
<1>1. CASE list = <<>>
  BY <1>1 DEF Listed
<1>2. CASE list # <<>>
  <2>1. Len(list) \in Nat /\ DOMAIN list = 1 .. Len(list)
    OBVIOUS
  <2>2. ASSUME NEW j \in 1 .. Len(list) PROVE val(j) \in Int
    <3>1. CASE j \in Unknown(attrs, list)
      BY <3>1, AlgebraAssumption
    <3>2. CASE j \notin Unknown(attrs, list)
      <4>1. NumOf(attrs, list[j]) # 0
        BY <2>1, <2>2, <3>2 DEF Unknown
      <4>2. NumOf(attrs, list[j]) \in 1 .. Len(rec)
        BY <4>1, AttrNumber
      <4> QED BY <3>2, <4>2
    <3> QED BY <3>1, <3>2
  <2> HIDE DEF val
  <2>3. new \in Seq(Int) /\ Len(new) = Len(list)
    BY <2>1, <2>2
  <2>4. Listed(attrs, rec, list, other) = new
    BY <1>2 DEF Listed, val
  <2> HIDE DEF new
  <2> QED BY <1>2, <2>3, <2>4
<1> QED BY <1>1, <1>2

\* The source of a function that fills its target.
LEMMA SourceIs ==
  ASSUME JInv, pc \in {"scan", "match"}
  PROVE  /\ call.src \in DOMAIN open /\ call.src \in DOMAIN rels /\ RelOk(rels[call.src])
         /\ call.kind # "project" =>
              NumOf(rels[call.src].attrs, call.attr) \in 1 .. Len(rels[call.src].attrs)
         /\ call.kind = "join" =>
              /\ call.src2 \in DOMAIN open /\ RelOk(rels[call.src2])
              /\ NumOf(rels[call.src2].attrs, call.attr2) \in 1 .. Len(rels[call.src2].attrs)
<1>1. Sources(rels, DOMAIN open \ {call.target}, call) /\ Sound(Db)
  BY DEF JInv, Ready, InOrder
<1>2. ASSUME NEW r \in DOMAIN open
      PROVE  r \in DOMAIN rels /\ RelOk(rels[r]) /\ rels[r].attrs \in Seq(STRING)
  <2>1. Local(Db, r) /\ r \in DOMAIN Db.open
    BY <1>1, <1>2, DbIs DEF Sound
  <2> QED BY <2>1, DbIs DEF Local, RelOk
<1>3. call.src \in DOMAIN open /\ (call.kind = "join" => call.src2 \in DOMAIN open)
  BY <1>1 DEF Sources
<1> QED BY <1>1, <1>2, <1>3, AttrNumber DEF Sources

\* A step of a projection.
LEMMA ProjectOk ==
  ASSUME IInv, JInv, project
  PROVE  JInv'
<1> DEFINE src == call.src
           p   == NextRecord(src)
           x   == rels[src]
           u   == [Db EXCEPT !.open[src].search = p]
<1>1. pc = "scan" /\ call.kind = "project"
  BY DEF project
<1>2. src \in DOMAIN open /\ RelOk(x) /\ Sound(Db)
  BY <1>1, SourceIs DEF JInv, InOrder
<1>3. CASE CloseTarget
  BY <1>1, <1>3, CloseOk
<1>4. ASSUME p <= Len(x.recs), NEW other \in [Unknown(x.attrs, call.list) -> Garbage],
             InsertInto(u, Listed(x.attrs, x.recs[p], call.list, other))
      PROVE  JInv'
  <2> DEFINE rec == Listed(x.attrs, x.recs[p], call.list, other)
  <2>1. p \in 1 .. Len(x.recs)
    <3>1. OpenOk(Db.open[src], x)
      BY <1>2, DbIs DEF Sound, Local
    <3>2. open[src].search \in 0 .. Len(x.recs) /\ Len(x.recs) \in Nat
      BY <1>2, <3>1, DbIs DEF OpenOk, RelOk
    <3> HIDE DEF x
    <3> QED BY <1>4, <3>2 DEF NextRecord
  <2> HIDE DEF p
  <2>2. Quiet(u)
    BY QuietDb
  <2>3. Sound(u)
    <3>1. p \in 0 .. Len(Db.rels[src].recs) /\ src \in DOMAIN Db.open
      BY <1>2, <2>1, DbIs
    <3> QED BY <1>2, <3>1, SoundSearch
  <2>4. x.recs[p] \in Seq(Int) /\ Len(x.recs[p]) = Len(x.attrs) /\ x.attrs \in Seq(STRING)
    BY <1>2, <2>1, RecordIs DEF RelOk
  <2>5. call.list \in Seq(STRING)
    BY <1>1, CallTyped DEF IInv, Typed
  <2>6. Width(rels, call) = IF call.list = <<>> THEN Len(x.attrs) ELSE Len(call.list)
    BY <1>1 DEF Width
  <2> HIDE DEF x, u
  <2>7. rec \in Seq(Int) /\ Len(rec) = Width(rels, call)
    BY <1>4, <2>4, <2>5, <2>6, ListedIs
  <2>8. InsertInto(u, rec)
    BY <1>4
  <2> HIDE DEF rec
  <2> QED BY <1>1, <2>2, <2>3, <2>7, <2>8, IntoOk
<1> QED BY <1>3, <1>4 DEF project

\* A step of a selection.
LEMMA SelectOk ==
  ASSUME IInv, JInv, select
  PROVE  JInv'
<1> DEFINE src  == call.src
           i    == AttrNo(Db, src, call.attr)
           hits == Hits(Db, src, i, call.op, call.val)
           u    == Moved(Db, src, i, Min(hits))
           rec  == RecordAt(Db, src, i, Min(hits))
<1>1. pc = "scan" /\ call.kind = "select"
  BY DEF select
<1>2. CASE CloseTarget
  BY <1>1, <1>2, CloseOk
<1>3. CASE hits # {} /\ InsertInto(u, rec)
  <2>1. src \in DOMAIN Db.open /\ Sound(Db) /\ i \in 1 .. Len(Db.rels[src].attrs)
    BY <1>1, SourceIs, DbIs DEF JInv, InOrder, AttrNo, Attrs
  <2>2. Quiet(u)
    BY QuietDb, QuietSearch
  <2> HIDE DEF i
  <2>3. rec \in Seq(Int) /\ Len(rec) = Len(Db.rels[src].attrs) /\ Sound(u)
    BY <1>3, <2>1, HitIs
  <2> HIDE DEF rec, u, hits
  <2>4. Width(rels, call) = Len(rels[src].attrs)
    BY <1>1, CallTyped DEF IInv, Typed, Width
  <2>5. Len(rec) = Width(rels, call)
    BY <2>3, <2>4, DbIs
  <2> QED BY <1>1, <1>3, <2>2, <2>3, <2>5, IntoOk
<1> QED BY <1>2, <1>3 DEF select

\* A step of the outer loop of a join.
LEMMA OuterOk ==
  ASSUME IInv, JInv, joinOuter
  PROVE  JInv'
<1> DEFINE src == call.src
           i2  == AttrNo(Db, call.src2, call.attr2)
           p   == NextRecord(src)
           u   == [Db EXCEPT !.open[src].search = p]
           v   == ResetSearch(u, call.src2, i2)
<1>1. pc = "scan" /\ call.kind = "join" /\ Goes /\ rels' = rels /\ DOMAIN open' = DOMAIN open
  BY OuterStep
<1>2. query' = query /\ call' = call /\ Fits /\ Ready /\ Flags /\ Sound(Db)
  BY <1>1 DEF Goes, JInv, InOrder
<1>3. CASE Finish("SUCCESS") /\ UNCHANGED db
  <2>1. Db' = Db /\ pc' = "back" /\ row' = 0
    BY <1>3 DEF Db, db, Finish
  <2>2. InOrder'
    BY <1>2, <2>1 DEF InOrder
  <2> QED BY <1>1, <1>2, <2>1, <2>2 DEF JInv, Fits, Ready, AtRow, Flags
<1>4. CASE p <= Len(rels[src].recs) /\ SetDb(v) /\ row' = p /\ pc' = "match"
  <2>1. src \in DOMAIN Db.open /\ RelOk(rels[src])
        /\ call.src2 \in DOMAIN Db.open
    BY <1>1, SourceIs, DbIs
  <2>2. p \in 1 .. Len(rels[src].recs)
    <3>1. OpenOk(Db.open[src], rels[src])
      BY <1>2, <2>1, DbIs DEF Sound, Local
    <3>2. open[src].search \in 0 .. Len(rels[src].recs) /\ Len(rels[src].recs) \in Nat
      BY <2>1, <3>1, DbIs DEF OpenOk, RelOk
    <3> QED BY <1>4, <3>2 DEF NextRecord
  <2> HIDE DEF p
  <2>3. Sound(u)
    <3>1. p \in 0 .. Len(Db.rels[src].recs)
      BY <2>2, DbIs
    <3> QED BY <1>2, <2>1, <3>1, SoundSearch
  <2>4. call.src2 \in DOMAIN u.open
    BY <2>1, QuietDb, DbIs DEF Quiet
  <2> HIDE DEF u, i2
  <2>5. Sound(v)
    BY <2>3, <2>4, SoundReset
  <2> HIDE DEF v
  <2>6. InOrder'
    BY <1>4, <2>5, InOrderNext
  <2>7. Ready'
    BY <1>1, <1>2 DEF Ready
  <2>8. AtRow'
    BY <1>1, <1>2, <1>4, <2>2 DEF AtRow
  <2> QED BY <1>1, <1>2, <1>4, <2>2, <2>6, <2>7, <2>8 DEF JInv, Fits, Flags
<1> QED BY <1>3, <1>4 DEF joinOuter

\* A step of the inner loop of a join.
LEMMA InnerOk ==
  ASSUME IInv, JInv, joinInner
  PROVE  JInv'
<1> DEFINE src2 == call.src2
           i2   == AttrNo(Db, src2, call.attr2)
           rec  == rels[call.src].recs[row]
           hits == Hits(Db, src2, i2, "EQ", rec[AttrNo(Db, call.src, call.attr)])
           u    == Moved(Db, src2, i2, Min(hits))
           hit  == RecordAt(Db, src2, i2, Min(hits))
           rest == RemoveAt(hit, i2)
<1>1. pc = "match" /\ call.kind = "join" /\ Sound(Db) /\ Fits /\ Ready /\ AtRow /\ Flags
  BY DEF joinInner, IInv, Filling, JInv, InOrder
<1>2. CASE pc' = "scan" /\ row' = 0 /\ UNCHANGED <<db, query, call, ret, old, lost>>
  <2>1. Db' = Db /\ rels' = rels /\ open' = open /\ query' = query /\ call' = call
    BY <1>2 DEF Db, db
  <2>2. InOrder' /\ Ready'
    BY <1>1, <1>2, <2>1 DEF InOrder, Ready
  <2> QED BY <1>1, <1>2, <2>1, <2>2 DEF JInv, Fits, AtRow, Flags
<1>3. CASE hits # {} /\ InsertInto(u, rec \o rest)
  <2>1. /\ src2 \in DOMAIN Db.open /\ i2 \in 1 .. Len(Db.rels[src2].attrs)
        /\ RelOk(rels[call.src]) /\ RelOk(rels[src2])
    BY <1>1, SourceIs, DbIs DEF AttrNo, Attrs
  <2>2. Quiet(u)
    BY QuietDb, QuietSearch
  <2>3. rec \in Seq(Int) /\ Len(rec) = Len(rels[call.src].attrs)
    BY <1>1, <2>1, RecordIs DEF AtRow
  <2> HIDE DEF i2, rec
  <2>4. hit \in Seq(Int) /\ Len(hit) = Len(Db.rels[src2].attrs) /\ Sound(u)
    BY <1>1, <1>3, <2>1, HitIs
  <2> HIDE DEF hit, u, hits
  <2>5. rest \in Seq(Int) /\ Len(rest) = Len(hit) - 1
    BY <2>1, <2>4, RemoveAtIs
  <2> HIDE DEF rest
  <2>6. rec \o rest \in Seq(Int) /\ Len(rec \o rest) = Len(rec) + Len(rest)
    BY <2>3, <2>5, ConcatIs, Zenon
  <2>7. Width(rels, call) = Len(rels[call.src].attrs) + Len(rels[src2].attrs) - 1
    BY <1>1, CallTyped DEF IInv, Typed, Width
  <2>8. Len(rec \o rest) = Width(rels, call)
    <3>1. \A s \in Seq(Int) : Len(s) \in Nat
      OBVIOUS
    <3> QED BY <2>3, <2>4, <2>5, <2>6, <2>7, <3>1, DbIs
  <2> QED BY <1>1, <1>3, <2>2, <2>4, <2>6, <2>8, IntoOk
<1> QED BY <1>2, <1>3 DEF joinInner

-----------------------------------------------------------------------------
(* The steps of the front end and the commands of one call.                *)

\* A state in which no target fills.
LEMMA OutsideOk ==
  ASSUME InOrder', IsFiniteSet(DOMAIN open)', Cardinality(DOMAIN open') <= MAX_OPEN,
         pc' \in {"idle", "call", "done"}, row' \in Nat, query' \in Queries \cup {NoQuery}
  PROVE  JInv'
BY DEF JInv, Fits, Ready, AtRow, Flags

\* No relation is opened.
LEMMA NoneOpens ==
  ASSUME Fits, DOMAIN open' = DOMAIN open
  PROVE  IsFiniteSet(DOMAIN open)' /\ Cardinality(DOMAIN open') <= MAX_OPEN
BY DEF Fits

\* A relation is closed.
LEMMA OneCloses ==
  ASSUME Fits, NEW r \in DOMAIN open, DOMAIN open' = DOMAIN open \ {r}
  PROVE  IsFiniteSet(DOMAIN open)' /\ Cardinality(DOMAIN open') <= MAX_OPEN
<1>1. /\ IsFiniteSet(DOMAIN open') /\ Cardinality(DOMAIN open) \in Nat
      /\ Cardinality(DOMAIN open') = Cardinality(DOMAIN open) - 1
  BY OneLess DEF Fits
<1> QED BY <1>1, AlgebraAssumption DEF Fits

\* A relation is opened where there is room for it.
LEMMA OneOpens ==
  ASSUME Fits, Cardinality(DOMAIN open) < MAX_OPEN, NEW r, r \notin DOMAIN open,
         DOMAIN open' = DOMAIN open \cup {r}
  PROVE  IsFiniteSet(DOMAIN open)' /\ Cardinality(DOMAIN open') <= MAX_OPEN
<1>1. IsFiniteSet(DOMAIN open') /\ Cardinality(DOMAIN open') = Cardinality(DOMAIN open) + 1
  BY OneMore DEF Fits
<1>2. Cardinality(DOMAIN open) \in Nat
  BY FS_CardinalityType DEF Fits
<1> QED BY <1>1, <1>2, AlgebraAssumption DEF Fits

\* A query of one function ends with that function.
LEMMA SingleOk ==
  ASSUME JInv, SingleReturns
  PROVE  JInv'
<1>1. pc' = "done" /\ query' = query /\ row' = row /\ open' = open /\ Db' = Db
  BY DEF SingleReturns, Reply, db, Db
<1>2. InOrder'
  BY <1>1 DEF JInv, InOrder
<1> QED BY <1>1, <1>2, NoneOpens, OutsideOk DEF JInv, Flags

\* There is room to open the result of a selection again.
LEMMA FirstOk ==
  ASSUME IInv, JInv, FirstReturns
  PROVE  JInv'
<1> DEFINE temp == Temp(query)
           v    == openRel(Db, temp)
<1>1. /\ pc = "back" /\ Composite(query) /\ call = First(query) /\ query \in Queries
      /\ Temps = {} /\ Base = old.open /\ Sound(Db) /\ Fits /\ Flags
  BY DEF FirstReturns, IInv, Running, Temps, Base, JInv, InOrder
<1>2. call.kind = query.kind /\ call.target = temp /\ query.kind \in {"select", "join"}
  BY <1>1, Functions
<1>3. CASE ret # "SUCCESS" /\ Reply(ret) /\ UNCHANGED db
  <2>1. pc' = "done" /\ query' = query /\ row' = row /\ open' = open /\ Db' = Db
    BY <1>3 DEF Reply, db, Db
  <2>2. InOrder'
    BY <1>1, <2>1 DEF InOrder
  <2> QED BY <1>1, <2>1, <2>2, NoneOpens, OutsideOk DEF Flags
<1>4. CASE /\ ret = "SUCCESS" /\ pc' = "call" /\ UNCHANGED <<query, row, ret, old, lost>>
           /\ SetDb(IF query.kind = "select" THEN v ELSE Db)
  <2>1. CASE query.kind = "select"
    <3>1. /\ temp \in DOMAIN rels /\ temp \notin DOMAIN open
          /\ Cardinality(DOMAIN open) < MAX_OPEN
      BY <1>1, <1>2, <1>4, <2>1 DEF IInv, Succeeded, Fits
    <3>2. Sound(v)
      BY <1>1, <3>1, DbIs, SoundOpen
    <3>3. DOMAIN v.open = DOMAIN open \cup {temp} /\ SetDb(v)
      BY <1>4, <2>1, DbIs, OpenCall
    <3> HIDE DEF v, temp
    <3>4. InOrder' /\ DOMAIN open' = DOMAIN open \cup {temp}
      BY <3>2, <3>3, InOrderNext
    <3> QED BY <1>1, <1>4, <3>1, <3>4, OneOpens, OutsideOk DEF Flags
  <2>2. CASE query.kind = "join"
    <3>1. SetDb(Db)
      BY <1>4, <2>2
    <3>2. InOrder' /\ open' = open
      BY <1>1, <3>1, InOrderNext, DbIs
    <3> QED BY <1>1, <1>4, <3>2, NoneOpens, OutsideOk DEF Flags
  <2> QED BY <1>2, <2>1, <2>2
<1>5. CASE ret = "SUCCESS"
  BY <1>4, <1>5 DEF FirstReturns
<1> QED BY <1>3, <1>5 DEF FirstReturns

\* The temporary relation is closed and deleted, or stays.
LEMMA SecondOk ==
  ASSUME IInv, JInv, SecondReturns
  PROVE  JInv'
<1> DEFINE temp == Temp(query)
           w    == closeRel(Db, temp)
           v    == deleteRel(w, temp)
<1>1. /\ pc = "back" /\ Composite(query) /\ call = Second(query) /\ Reply(ret)
      /\ query \in Queries /\ Sound(Db) /\ Fits /\ Flags
  BY DEF SecondReturns, IInv, Running, JInv, InOrder
<1>2. call # First(query) /\ call.kind = "project"
  BY <1>1, Functions
<1>3. temp \in DOMAIN open
  BY <1>1, <1>2 DEF IInv, Failed, Succeeded, Base, Temps
<1>4. pc' = "done" /\ query' = query /\ row' = row
  BY <1>1 DEF Reply
<1>5. CASE UNCHANGED db
  <2>1. open' = open /\ Db' = Db
    BY <1>5 DEF db, Db
  <2>2. InOrder'
    BY <1>1, <2>1 DEF InOrder
  <2> QED BY <1>1, <1>4, <2>1, <2>2, NoneOpens, OutsideOk DEF Flags
<1>6. CASE SetDb(v)
  <2>1. temp \in DOMAIN Db.open
    BY <1>3, DbIs
  <2>2. Sound(w) /\ IsDb(w) /\ DOMAIN w.open = DOMAIN open \ {temp}
    BY <1>1, <2>1, DbIs, SoundClose, CloseCall
  <2> HIDE DEF w
  <2>3. Sound(v) /\ v.open = w.open
    BY <2>2, SoundDelete, DeleteCall
  <2> HIDE DEF v
  <2>4. InOrder' /\ DOMAIN open' = DOMAIN open \ {temp}
    BY <1>6, <2>2, <2>3, InOrderNext
  <2> QED BY <1>1, <1>3, <1>4, <2>4, OneCloses, OutsideOk DEF Flags
<1> QED BY <1>5, <1>6 DEF SecondReturns

\* Between queries.
LEMMA BetweenOk ==
  ASSUME JInv, NextCommand \/ \E q \in Queries : Begin(q)
  PROVE  JInv'
<1>1. UNCHANGED db /\ pc' \in {"idle", "call"} /\ query' \in Queries \cup {NoQuery} /\ row' \in Nat
  <2>1. CASE NextCommand
    BY <2>1 DEF NextCommand
  <2>2. ASSUME NEW q \in Queries, Begin(q)
        PROVE  /\ UNCHANGED db /\ pc' \in {"idle", "call"}
               /\ query' \in Queries \cup {NoQuery} /\ row' \in Nat
    <3>1. UNCHANGED <<db, row, ret>> /\ pc' = "call" /\ query' = q
      BY <2>2 DEF Begin
    <3> QED BY <3>1 DEF JInv, Flags
  <2> QED BY <2>1, <2>2
<1>2. open' = open /\ Db' = Db
  BY <1>1 DEF db, Db
<1>3. InOrder'
  BY <1>2 DEF JInv, InOrder
<1> QED BY <1>1, <1>2, <1>3, NoneOpens, OutsideOk DEF JInv

\* The commands of one call.
LEMMA CommandOk ==
  ASSUME IInv, JInv,
         \/ \E r \in DOMAIN Schemas : CreateRel(r) \/ Insert(r)
         \/ \E r \in DOMAIN rels : DropRel(r) \/ OpenRel(r) \/ CloseRel(r)
         \/ \E p \in Indexes : CreateIndex(p[1], p[2]) \/ DropIndex(p[1], p[2])
         \/ \E p \in Renames : RenameAttr(p[1], p[2], p[3])
  PROVE  JInv' \/ Over'
<1>1. Sound(Db) /\ Fits /\ Flags /\ IsDb(Db)
  BY DbIs DEF JInv, InOrder
<1>2. ASSUME NEW v, SetDb(v), Sound(v), Idle,
             \/ DOMAIN v.open = DOMAIN open
             \/ \E r \in DOMAIN open : DOMAIN v.open = DOMAIN open \ {r}
             \/ /\ Cardinality(DOMAIN open) < MAX_OPEN
                /\ \E r : r \notin DOMAIN open /\ DOMAIN v.open = DOMAIN open \cup {r}
      PROVE  JInv'
  <2>1. InOrder' /\ open' = v.open
    BY <1>2, InOrderNext
  <2>2. pc' = "idle" /\ row' = row /\ query' = query
    BY <1>2 DEF Idle, control
  <2>3. IsFiniteSet(DOMAIN open)' /\ Cardinality(DOMAIN open') <= MAX_OPEN
    BY <1>1, <1>2, <2>1, NoneOpens, OneCloses, OneOpens
  <2> QED BY <1>1, <2>1, <2>2, <2>3, OutsideOk DEF Flags
<1>3. ASSUME NEW r \in DOMAIN Schemas, CreateRel(r) PROVE JInv'
  <2> DEFINE v == createRel(Db, r, Schemas[r])
  <2>1. SetDb(v) /\ Idle /\ r \notin DOMAIN Db.rels
    BY <1>3 DEF CreateRel, CreateError
  <2>2. Sound(v)
    BY <1>1, <2>1, SoundCreate, AlgebraAssumption
  <2>3. SameOpen(Db, v)
    BY <1>1, CreateCall
  <2> HIDE DEF v
  <2>4. DOMAIN v.open = DOMAIN open
    BY <2>3, DbIs DEF SameOpen
  <2> QED BY <1>2, <2>1, <2>2, <2>4
<1>4. ASSUME NEW r \in DOMAIN Schemas, Insert(r) PROVE JInv' \/ Over'
  <2> DEFINE rec == RowsOf[r][Len(rels[r].recs) + 1]
             v   == insert(Db, r, rec)
             w   == insertLost(Db, r, rec)
  <2>1. /\ Idle /\ r \in DOMAIN Db.open
        /\ SetDb(v) \/ (SetDb(w) /\ lost' = TRUE)
    BY <1>4, DbIs DEF Insert
  <2>2. rec \in Seq(Int) /\ Len(rec) = Len(Db.rels[r].attrs)
    <3>1. RelOk(rels[r])
      BY <1>1, <2>1, DbIs DEF Sound, Local
    <3>2. Len(rels[r].recs) \in Nat
      BY <3>1 DEF RelOk
    <3>3. Len(rels[r].recs) + 1 \in 1 .. Len(RowsOf[r])
      BY <1>4, <3>2, AlgebraAssumption DEF Insert
    <3>4. rec \in Seq(Int)
      <4>1. RowsOf[r] \in Seq(Seq(Int))
        BY AlgebraAssumption
      <4> QED BY <3>3, <4>1, ElementOfSeq
    <3>5. Len(rec) = Len(rels[r].attrs)
      BY <1>4 DEF Insert, Suits
    <3> QED BY <3>4, <3>5, DbIs
  <2> HIDE DEF rec
  <2>3. Sound(v)
    BY <1>1, <2>1, <2>2, SoundInsert
  <2>4. DOMAIN v.open = DOMAIN open
    BY <1>1, InsertCall, DbIs
  <2>5. w.rels = rels /\ w.open = open
    BY <1>1, InsertLostCall, DbIs
  <2> HIDE DEF v, w
  <2>6. CASE SetDb(v)
    BY <1>2, <2>1, <2>3, <2>4, <2>6
  <2>7. CASE SetDb(w) /\ lost' = TRUE
    <3>1. pc = "idle" /\ UNCHANGED control
      BY <2>1 DEF Idle
    <3> QED BY <2>5, <2>7, <3>1, OverNext
  <2> QED BY <2>1, <2>6, <2>7
<1>5. ASSUME NEW r \in DOMAIN rels, DropRel(r) PROVE JInv'
  <2> DEFINE v == deleteRel(Db, r)
  <2>1. SetDb(v) /\ Idle
    BY <1>5 DEF DropRel
  <2>2. Sound(v)
    BY <1>1, SoundDelete
  <2>3. DOMAIN v.open = DOMAIN open
    BY <1>1, DeleteCall, DbIs
  <2> HIDE DEF v
  <2> QED BY <1>2, <2>1, <2>2, <2>3
<1>6. ASSUME NEW r \in DOMAIN rels, OpenRel(r) PROVE JInv'
  <2> DEFINE v == openRel(Db, r)
  <2>1. /\ SetDb(v) /\ Idle /\ r \notin DOMAIN open /\ Cardinality(DOMAIN open) < MAX_OPEN
        /\ r \in DOMAIN Db.rels /\ r \notin DOMAIN Db.open
    BY <1>6, DbIs DEF OpenRel, Room
  <2>2. Sound(v)
    BY <1>1, <2>1, SoundOpen
  <2>3. DOMAIN v.open = DOMAIN open \cup {r}
    BY <1>1, OpenCall, DbIs
  <2> HIDE DEF v
  <2> QED BY <1>2, <2>1, <2>2, <2>3
<1>7. ASSUME NEW r \in DOMAIN rels, CloseRel(r) PROVE JInv'
  <2> DEFINE v == closeRel(Db, r)
  <2>1. SetDb(v) /\ Idle /\ r \in DOMAIN open /\ r \in DOMAIN Db.open
    BY <1>7, DbIs DEF CloseRel
  <2>2. Sound(v)
    BY <1>1, <2>1, SoundClose
  <2>3. DOMAIN v.open = DOMAIN open \ {r}
    BY <1>1, CloseCall, DbIs
  <2> HIDE DEF v
  <2> QED BY <1>2, <2>1, <2>2, <2>3
<1>8. ASSUME NEW p \in Indexes, CreateIndex(p[1], p[2]) PROVE JInv' \/ Over'
  <2> DEFINE r == p[1]
             i == AttrNo(Db, r, p[2])
             v == bPlusCreate(Db, r, i)
             w == bPlusCreateLost(Db, r, i)
  <2>1. /\ Idle /\ r \in DOMAIN Db.open /\ i # 0
        /\ SetDb(v) \/ (SetDb(w) /\ lost' = TRUE)
    BY <1>8, DbIs DEF CreateIndex
  <2>2. i \in 1 .. Len(Db.rels[r].attrs)
    <3>1. Db.rels[r].attrs \in Seq(STRING)
      BY <1>1, <2>1 DEF Sound, Local, RelOk
    <3> QED BY <2>1, <3>1, AttrNumber DEF AttrNo, Attrs
  <2> HIDE DEF i
  <2>3. Sound(v)
    BY <1>1, <2>1, <2>2, SoundIndex
  <2>4. DOMAIN v.open = DOMAIN open
    BY <1>1, IndexCall, DbIs DEF SameOpen
  <2> HIDE DEF v
  <2>5. CASE SetDb(v)
    BY <1>2, <2>1, <2>3, <2>4, <2>5
  <2>6. CASE SetDb(w) /\ lost' = TRUE
    <3>1. pc = "idle" /\ UNCHANGED control /\ r \in DOMAIN open
      BY <2>1, DbIs DEF Idle
    <3> QED BY <2>6, <3>1, OverIndex
  <2> QED BY <2>1, <2>5, <2>6
<1>9. ASSUME NEW p \in Indexes, DropIndex(p[1], p[2]) PROVE JInv'
  <2> DEFINE r == p[1]
             i == AttrNo(Db, r, p[2])
             w == setAttrCatEntry(Db, r, Db.open[r].roots \ {i})
             v == [w EXCEPT !.trees = Without(@, {<<r, i>>})]
  <2>1. SetDb(v) /\ Idle /\ r \in DOMAIN Db.open
    BY <1>9, DbIs DEF DropIndex
  <2> HIDE DEF i
  <2>2. Sound(v)
    BY <1>1, <2>1, SoundDrop
  <2>3. IsDb(w) /\ DOMAIN w.open = DOMAIN open
    BY DbIs DEF setAttrCatEntry, IsDb
  <2>4. v.open = w.open
    <3> HIDE DEF w
    <3> QED BY <2>3 DEF IsDb
  <2> HIDE DEF v, w
  <2> QED BY <1>2, <2>1, <2>2, <2>3, <2>4
<1>10. ASSUME NEW p \in Renames, RenameAttr(p[1], p[2], p[3]) PROVE JInv'
  <2> DEFINE v == renameAttribute(Db, p[1], p[2], p[3])
  <2>1. /\ SetDb(v) /\ Idle /\ p[1] \in DOMAIN Db.rels /\ AttrNo(Db, p[1], p[2]) # 0
        /\ p[3] \in STRING
    BY <1>10, DbIs, AlgebraAssumption DEF RenameAttr
  <2>2. Sound(v)
    BY <1>1, <2>1, SoundRename
  <2>3. DOMAIN v.open = DOMAIN open
    BY DbIs DEF renameAttribute, IsDb
  <2> HIDE DEF v
  <2> QED BY <1>2, <2>1, <2>2, <2>3
<1> QED BY <1>3, <1>4, <1>5, <1>6, <1>7, <1>8, <1>9, <1>10

-----------------------------------------------------------------------------
(* Theorems.                                                               *)

\* There is nothing out of order in an empty database.
LEMMA InitOk == Init => JInv
<1> SUFFICES ASSUME Init PROVE JInv
  OBVIOUS
<1>1. DOMAIN rels = {} /\ DOMAIN trees = {} /\ DOMAIN open = {}
  <2>1. rels = <<>> /\ trees = <<>> /\ open = <<>>
    BY DEF Init
  <2>2. DOMAIN <<>> = {}
    BY EmptySeq
  <2> QED BY <2>1, <2>2
<1>2. Sound(Db)
  <2>1. DOMAIN Db.rels = {} /\ DOMAIN Db.trees = {} /\ DOMAIN Db.open = {} /\ IsDb(Db)
    BY <1>1, DbIs DEF Db
  <2> QED BY <2>1 DEF Sound, Pairs, Local
<1>3. IsFiniteSet(DOMAIN open) /\ Cardinality(DOMAIN open) <= MAX_OPEN
  BY <1>1, FS_EmptySet, AlgebraAssumption
<1> QED BY <1>2, <1>3 DEF Init, JInv, InOrder, Fits, Ready, AtRow, Flags

\* The invariant about the database holds in every reachable state that is not the last.
LEMMA JInvHolds == Spec => [](JInv \/ Over)
<1>1. IInv /\ (JInv \/ Over) /\ [Next]_vars => (JInv \/ Over)'
  <2> SUFFICES ASSUME IInv, JInv \/ Over, [Next]_vars PROVE JInv' \/ Over'
    OBVIOUS
  <2>1. CASE JInv /\ UNCHANGED vars
    <3>1. Db' = Db
      BY <2>1 DEF vars, Db
    <3>2. InOrder'
      BY <2>1, <3>1 DEF JInv, InOrder
    <3> QED BY <2>1, <3>2 DEF vars, JInv, Fits, Ready, AtRow, Flags
  <2>2. CASE JInv /\ (Call \/ project \/ select \/ joinOuter \/ joinInner)
    BY <2>2, CallOk, ProjectOk, SelectOk, OuterOk, InnerOk
  <2>3. CASE JInv /\ (SingleReturns \/ FirstReturns \/ SecondReturns)
    BY <2>3, SingleOk, FirstOk, SecondOk
  <2>4. CASE Over
    <3>1. UNCHANGED vars
      <4>1. ~ (\/ \E r \in DOMAIN Schemas : CreateRel(r) \/ Insert(r)
               \/ \E r \in DOMAIN rels : DropRel(r) \/ OpenRel(r) \/ CloseRel(r)
               \/ \E p \in Indexes : CreateIndex(p[1], p[2]) \/ DropIndex(p[1], p[2])
               \/ \E p \in Renames : RenameAttr(p[1], p[2], p[3])
               \/ \E q \in Queries : Begin(q))
        BY <2>4, Zenon DEF Over, CreateRel, Insert, DropRel, OpenRel, CloseRel, CreateIndex,
              DropIndex, RenameAttr, Begin, Idle
      <4>2. ~ Step
        BY <2>4 DEF Over, Step, Call, project, select, joinOuter, joinInner, SingleReturns,
              FirstReturns, SecondReturns, NextCommand
      <4> QED BY <4>1, <4>2 DEF Next
    <3> QED BY <2>4, <3>1 DEF Over, Types, vars
  <2> QED BY <2>1, <2>2, <2>3, <2>4, BetweenOk, CommandOk DEF Next, Step
<1> QED BY <1>1, InitOk, IInvHolds, PTL DEF Spec

\* What was lost stays lost.
LEMMA LostStep == [Next]_vars => lost' = lost \/ lost' = TRUE
<1> SUFFICES ASSUME [Next]_vars PROVE lost' = lost \/ lost' = TRUE
  OBVIOUS
<1>1. ASSUME \/ \E r \in DOMAIN Schemas : CreateRel(r) \/ Insert(r)
             \/ \E r \in DOMAIN rels : DropRel(r) \/ OpenRel(r) \/ CloseRel(r)
             \/ \E p \in Indexes : CreateIndex(p[1], p[2]) \/ DropIndex(p[1], p[2])
             \/ \E p \in Renames : RenameAttr(p[1], p[2], p[3])
             \/ \E q \in Queries : Begin(q)
      PROVE  lost' = lost \/ lost' = TRUE
  BY <1>1, Zenon DEF CreateRel, Insert, DropRel, OpenRel, CloseRel, CreateIndex, DropIndex,
                     RenameAttr, Begin
<1>2. ASSUME NEW u, PrepareTarget(u) PROVE lost' = lost \/ lost' = TRUE
  BY <1>2 DEF PrepareTarget, OpenFails, Finish
<1>3. ASSUME NEW u, NEW rec, InsertInto(u, rec) PROVE lost' = lost \/ lost' = TRUE
  BY <1>3 DEF InsertInto, Finish
<1>4. CASE Call
  BY <1>2, <1>4 DEF Call, Finish
<1>5. CASE project \/ select \/ joinInner
  BY <1>3, <1>5 DEF project, select, joinInner, CloseTarget, Finish
<1>6. CASE joinOuter
  BY <1>6 DEF joinOuter, Finish
<1>7. CASE SingleReturns \/ FirstReturns \/ SecondReturns \/ NextCommand
  BY <1>7 DEF SingleReturns, FirstReturns, SecondReturns, NextCommand, Reply
<1>8. CASE UNCHANGED vars
  BY <1>8 DEF vars
<1> QED BY <1>1, <1>4, <1>5, <1>6, <1>7, <1>8 DEF Next, Step

\* Every record has a value for each attribute, no more relations are open than
\* the table has entries, and no search has read past its relation.
THEOREM RecordsFit == Spec => []TypeOK
<1>1. IInv /\ (JInv \/ Over) /\ lost \in BOOLEAN => TypeOK
  BY TypesIs DEF Over, Types, TypeOK
<1>2. Init => lost \in BOOLEAN
  BY DEF Init
<1>3. lost \in BOOLEAN /\ [Next]_vars => (lost \in BOOLEAN)'
  BY LostStep
<1> QED BY <1>1, <1>2, <1>3, IInvHolds, JInvHolds, PTL DEF Spec

\* An index is known to its relation, in the cache or in the catalog, for as long
\* as it exists, and bPlusCreate and insertIntoLeaf list every record in it, once
\* and in ascending order, whatever is inserted, renamed, closed or deleted, as
\* long as nothing was lost on a full disk.
THEOREM IndexesExact == Spec => []IndexExact
<1>1. JInv \/ Over => IndexExact
  <2> SUFFICES ASSUME JInv PROVE IndexExact
    BY DEF Over, IndexExact
  <2> DEFINE roots(r) == IF r \in DOMAIN open THEN open[r].roots ELSE rels[r].roots
  <2>1. Sound(Db) /\ Db.trees = trees
    BY DEF JInv, InOrder, Db
  <2>2. \A r : Known(Db, r) = roots(r)
    BY DbIs DEF Known
  <2> HIDE DEF roots
  <2>3. DOMAIN trees = UNION {{r} \X roots(r) : r \in DOMAIN rels}
    <3>1. \A r, i : <<r, i>> \in DOMAIN trees <=> r \in DOMAIN rels /\ i \in roots(r)
      BY <2>1, <2>2, DbIs DEF Sound, Local
    <3>2. \A t \in DOMAIN trees : \E r, i : t = <<r, i>>
      BY <2>1 DEF Sound, Pairs
    <3> QED BY <3>1, <3>2
  <2>4. ASSUME NEW t \in DOMAIN trees
        PROVE  LET recs == rels[t[1]].recs
                   leaf == trees[t]
               IN /\ Len(leaf) = Len(recs) /\ ToSet(leaf) = DOMAIN recs
                  /\ \A k \in 1 .. Len(leaf) - 1 :
                       recs[leaf[k]][t[2]] <= recs[leaf[k + 1]][t[2]]
    <3> DEFINE recs == rels[t[1]].recs
               leaf == trees[t]
               n    == Len(recs)
    <3>1. PICK r, i : t = <<r, i>>
      BY <2>1 DEF Sound, Pairs
    <3>2. Lists(leaf, recs, n, i) /\ RelOk(rels[r])
      BY <2>1, <3>1, DbIs DEF Sound, Local
    <3>3. n \in Nat /\ DOMAIN recs = 1 .. n
      BY <3>1, <3>2 DEF RelOk
    <3> HIDE DEF leaf, n, recs
    <3>4. /\ leaf \in Seq(Nat) /\ Len(leaf) = n
          /\ \A k \in 1 .. n : leaf[k] \in 1 .. n
          /\ \A p \in 1 .. n : \E k \in 1 .. n : leaf[k] = p
      BY <3>2 DEF Lists
    <3>5. \A k \in 1 .. n - 1 : recs[leaf[k]][i] <= recs[leaf[k + 1]][i]
      BY <3>2 DEF Lists
    <3>6. \A x : x \in ToSet(leaf) <=> \E k \in 1 .. Len(leaf) : leaf[k] = x
      BY <3>4, ToSetIs, Zenon
    <3>7. ToSet(leaf) = 1 .. n
      BY <3>4, <3>6
    <3> QED BY <3>1, <3>3, <3>4, <3>5, <3>7 DEF leaf, n, recs
  <2> QED BY <2>3, <2>4 DEF IndexExact, roots
<1> QED BY <1>1, JInvHolds, PTL

=============================================================================
