--------------------------- MODULE SequenceLemmas ---------------------------
(***************************************************************************)
(* Facts about numbers and sequences that the proofs about the index cite. *)
(* Induction is by least counterexample: a set of numbers that is not      *)
(* empty has a least element.                                              *)
(***************************************************************************)
EXTENDS Integers, SequencesExt, SequenceTheorems, WellFoundedInduction, TLAPS

\* A set of numbers has a least element.
LEMMA LeastNumber ==
  ASSUME NEW T, T \subseteq Nat, T # {}
  PROVE  \E n \in T : \A m \in T : n <= m
<1>1. IsWellFoundedOn(OpToRel(<, Nat), Nat)
  BY NatLessThanWellFounded
<1>2. PICK n \in T : \A m \in T : <<m, n>> \notin OpToRel(<, Nat)
  BY <1>1, WFMin
<1>3. \A m \in T : <<m, n>> \in OpToRel(<, Nat) <=> m < n
  BY DEF OpToRel
<1>4. \A m \in T : ~ (m < n)
  BY <1>2, <1>3, Zenon
<1>5. \A m \in T : n <= m
  BY <1>4
<1> QED BY <1>5

\* The elements of a subsequence.
LEMMA SubSeqIs ==
  ASSUME NEW S, NEW s \in Seq(S), NEW m \in Nat \ {0}, NEW n \in 0 .. Len(s), m <= n + 1
  PROVE  /\ SubSeq(s, m, n) \in Seq(S) /\ Len(SubSeq(s, m, n)) = n - m + 1
         /\ \A i \in 1 .. n - m + 1 : SubSeq(s, m, n)[i] = s[m + i - 1]
<1>1. \A i \in m .. n : s[i] \in S
  BY ElementOfSeq
<1>2. m \in Int /\ n \in Int
  OBVIOUS
<1> QED BY <1>1, <1>2, SubSeqProperties

\* lo and hi are the first and the last h elements of s
Halves(lo, hi, s, h) ==
  /\ Len(lo) = h /\ \A j \in 1 .. h : lo[j] = s[j]
  /\ Len(hi) = h /\ \A j \in 1 .. h : hi[j] = s[h + j]

\* A sequence of even length is cut in the middle.
LEMMA HalvesIs ==
  ASSUME NEW S, NEW s \in Seq(S), NEW h \in Nat \ {0}, Len(s) = 2 * h
  PROVE  /\ SubSeq(s, 1, h) \in Seq(S) /\ SubSeq(s, h + 1, 2 * h) \in Seq(S)
         /\ Halves(SubSeq(s, 1, h), SubSeq(s, h + 1, 2 * h), s, h)
<1>1. /\ SubSeq(s, 1, h) \in Seq(S) /\ Len(SubSeq(s, 1, h)) = h
      /\ \A j \in 1 .. h : SubSeq(s, 1, h)[j] = s[j]
  <2>1. h \in 0 .. Len(s) /\ 1 \in Nat \ {0} /\ 1 <= h + 1
    OBVIOUS
  <2>2. /\ SubSeq(s, 1, h) \in Seq(S) /\ Len(SubSeq(s, 1, h)) = h - 1 + 1
        /\ \A i \in 1 .. h - 1 + 1 : SubSeq(s, 1, h)[i] = s[1 + i - 1]
    BY <2>1, SubSeqIs
  <2>3. h - 1 + 1 = h /\ \A i \in 1 .. h : 1 + i - 1 = i
    OBVIOUS
  <2> QED BY <2>2, <2>3
<1>2. /\ SubSeq(s, h + 1, 2 * h) \in Seq(S) /\ Len(SubSeq(s, h + 1, 2 * h)) = h
      /\ \A j \in 1 .. h : SubSeq(s, h + 1, 2 * h)[j] = s[h + j]
  <2>1. 2 * h \in 0 .. Len(s) /\ h + 1 \in Nat \ {0} /\ h + 1 <= 2 * h + 1
    OBVIOUS
  <2>2. /\ SubSeq(s, h + 1, 2 * h) \in Seq(S)
        /\ Len(SubSeq(s, h + 1, 2 * h)) = 2 * h - (h + 1) + 1
        /\ \A i \in 1 .. 2 * h - (h + 1) + 1 : SubSeq(s, h + 1, 2 * h)[i] = s[(h + 1) + i - 1]
    BY <2>1, SubSeqIs
  <2>3. 2 * h - (h + 1) + 1 = h /\ \A i \in 1 .. h : (h + 1) + i - 1 = h + i
    OBVIOUS
  <2> QED BY <2>2, <2>3
<1> QED BY <1>1, <1>2 DEF Halves

\* The elements of two sequences put together.
LEMMA ConcatIs ==
  ASSUME NEW S, NEW s \in Seq(S), NEW t \in Seq(S)
  PROVE  /\ s \o t \in Seq(S) /\ Len(s \o t) = Len(s) + Len(t)
         /\ \A i \in 1 .. Len(s) + Len(t) :
              (s \o t)[i] = IF i <= Len(s) THEN s[i] ELSE t[i - Len(s)]
BY ConcatProperties

\* t is s with e put in at position i
Inserted(t, s, i, e) ==
  /\ Len(t) = Len(s) + 1
  /\ \A j \in 1 .. Len(s) + 1 : t[j] = IF j < i THEN s[j] ELSE IF j = i THEN e ELSE s[j - 1]

\* InsertAt puts in one element.
LEMMA InsertAtIs ==
  ASSUME NEW S, NEW s \in Seq(S), NEW e \in S, NEW i \in 1 .. Len(s) + 1
  PROVE  InsertAt(s, i, e) \in Seq(S) /\ Inserted(InsertAt(s, i, e), s, i, e)
<1> DEFINE a == SubSeq(s, 1, i - 1)
           b == <<e>>
           c == SubSeq(s, i, Len(s))
<1>1. Len(s) \in Nat
  BY LenProperties
<1>2. a \in Seq(S) /\ Len(a) = i - 1 /\ \A j \in 1 .. i - 1 : a[j] = s[j]
  BY <1>1, SubSeqIs
<1>3. c \in Seq(S) /\ Len(c) = Len(s) - i + 1 /\ \A j \in 1 .. Len(s) - i + 1 : c[j] = s[i + j - 1]
  BY <1>1, SubSeqIs
<1>4. b \in Seq(S) /\ Len(b) = 1 /\ b[1] = e
  OBVIOUS
<1> HIDE DEF a, b, c
<1> DEFINE ab == a \o b
<1>5. /\ ab \in Seq(S) /\ Len(ab) = Len(a) + Len(b)
      /\ \A j \in 1 .. Len(a) + Len(b) : ab[j] = IF j <= Len(a) THEN a[j] ELSE b[j - Len(a)]
  BY <1>2, <1>4, ConcatIs, Zenon
<1> HIDE DEF ab
<1> DEFINE abc == ab \o c
<1>6. /\ abc \in Seq(S) /\ Len(abc) = Len(ab) + Len(c)
      /\ \A j \in 1 .. Len(ab) + Len(c) : abc[j] = IF j <= Len(ab) THEN ab[j] ELSE c[j - Len(ab)]
  <2>1. ab \in Seq(S) /\ c \in Seq(S)
    BY <1>3, <1>5
  <2> QED BY <2>1, ConcatIs, Zenon
<1> HIDE DEF abc
<1>7. Len(ab) = i /\ Len(abc) = Len(s) + 1
  BY <1>1, <1>2, <1>3, <1>4, <1>5, <1>6
<1>8. ASSUME NEW j \in 1 .. Len(s) + 1
      PROVE  abc[j] = IF j < i THEN s[j] ELSE IF j = i THEN e ELSE s[j - 1]
  <2>1. CASE j < i
    <3>1. abc[j] = ab[j]
      BY <1>1, <1>3, <1>6, <1>7, <2>1
    <3>2. ab[j] = a[j]
      BY <1>1, <1>2, <1>4, <1>5, <2>1
    <3> QED BY <1>1, <1>2, <2>1, <3>1, <3>2
  <2>2. CASE j = i
    BY <1>1, <1>2, <1>3, <1>4, <1>5, <1>6, <1>7, <2>2
  <2>3. CASE j > i
    <3>1. abc[j] = c[j - i]
      BY <1>1, <1>3, <1>6, <1>7, <2>3
    <3>2. j - i \in 1 .. Len(s) - i + 1 /\ i + (j - i) - 1 = j - 1
      BY <1>1, <2>3
    <3> QED BY <1>1, <1>3, <2>3, <3>1, <3>2
  <2> QED BY <1>1, <2>1, <2>2, <2>3
<1>9. abc \in Seq(S) /\ Inserted(abc, s, i, e)
  BY <1>6, <1>7, <1>8 DEF Inserted
<1> QED BY <1>9 DEF InsertAt, abc, ab, a, b, c

\* ToSet of a sequence.
LEMMA ToSetIs ==
  ASSUME NEW S, NEW s \in Seq(S)
  PROVE  /\ ToSet(s) \subseteq S /\ \A x : x \in ToSet(s) <=> \E i \in 1 .. Len(s) : s[i] = x
BY DEF ToSet

\* The elements of a sequence with one put in.
LEMMA InsertedSet ==
  ASSUME NEW S, NEW s \in Seq(S), NEW r \in S, NEW i \in 1 .. Len(s) + 1,
         NEW e \in Seq(S), Inserted(e, s, i, r)
  PROVE  ToSet(e) = ToSet(s) \cup {r}
<1>1. Len(s) \in Nat
  BY LenProperties
<1>2. /\ Len(e) = Len(s) + 1
      /\ \A j \in 1 .. Len(s) + 1 : e[j] = IF j < i THEN s[j] ELSE IF j = i THEN r ELSE s[j - 1]
  BY DEF Inserted
<1>3. \A x : x \in ToSet(e) <=> \E j \in 1 .. Len(s) + 1 : e[j] = x
  <2>1. \A x : x \in ToSet(e) <=> \E j \in 1 .. Len(e) : e[j] = x
    BY ToSetIs
  <2> QED BY <1>2, <2>1
<1>4. \A x : x \in ToSet(s) <=> \E j \in 1 .. Len(s) : s[j] = x
  BY ToSetIs
<1>5. ASSUME NEW x \in ToSet(e)
      PROVE  x \in ToSet(s) \cup {r}
  <2>1. PICK j \in 1 .. Len(s) + 1 : e[j] = x
    BY <1>3, <1>5
  <2>2. /\ j < i => j \in 1 .. Len(s)
        /\ j > i => j - 1 \in 1 .. Len(s)
        /\ j < i \/ j = i \/ j > i
    BY <1>1
  <2>3. x = IF j < i THEN s[j] ELSE IF j = i THEN r ELSE s[j - 1]
    BY <1>2, <2>1
  <2> QED BY <1>4, <2>2, <2>3
<1>6. r \in ToSet(e)
  <2>1. e[i] = r
    BY <1>1, <1>2
  <2> QED BY <1>3, <2>1
<1>7. ASSUME NEW x \in ToSet(s)
      PROVE  x \in ToSet(e)
  <2>1. PICK j \in 1 .. Len(s) : s[j] = x
    BY <1>4, <1>7
  <2>2. CASE j < i
    <3>1. j \in 1 .. Len(s) + 1 /\ e[j] = x
      BY <1>1, <1>2, <2>1, <2>2
    <3> QED BY <1>3, <3>1
  <2>3. CASE j >= i
    <3>1. j + 1 \in 1 .. Len(s) + 1 /\ e[j + 1] = x
      BY <1>1, <1>2, <2>1, <2>3
    <3> QED BY <1>3, <3>1
  <2>4. j < i \/ j >= i
    BY <1>1
  <2> QED BY <2>2, <2>3, <2>4
<1> QED BY <1>5, <1>6, <1>7

\* s cuts L from position a[1] to position z[Len(s)] into pieces
Pieces(s, L, a, z) ==
  /\ \A i \in 1 .. Len(s) : /\ a[i] \in 1 .. Len(L) /\ z[i] \in a[i] .. Len(L)
                            /\ s[i] = SubSeq(L, a[i], z[i])
  /\ \A i \in 1 .. Len(s) : i > 1 => a[i] = z[i - 1] + 1

\* one level of the recursion of FlattenSeq
Joined(s, f) == [i \in 1 .. Len(s) |-> IF i = 1 THEN s[i] ELSE f[i - 1] \o s[i]]

\* The pieces of a sequence, one after the other, are the sequence.
LEMMA FlattenIs ==
  ASSUME NEW S, NEW L \in Seq(S), NEW s, Len(s) \in Nat \ {0}, NEW a, NEW z, Pieces(s, L, a, z)
  PROVE  /\ 1 \in 1 .. Len(s) /\ Len(s) \in 1 .. Len(s)
         /\ a[1] \in 1 .. Len(L) /\ z[Len(s)] \in a[1] .. Len(L)
         /\ FlattenSeq(s) = SubSeq(L, a[1], z[Len(s)])
<1>1. PICK n \in Nat \ {0} : n = Len(s)
  OBVIOUS
<1>2. /\ Len(L) \in Nat /\ 1 \in 1 .. n /\ n \in 1 .. n
      /\ \A i \in 1 .. n : /\ a[i] \in 1 .. Len(L) /\ z[i] \in a[i] .. Len(L)
                           /\ s[i] = SubSeq(L, a[i], z[i]) /\ a[i] \in Nat /\ z[i] \in Nat
      /\ \A i \in 1 .. n : i > 1 => a[i] = z[i - 1] + 1 /\ i - 1 \in 1 .. n
  <2>1. Len(L) \in Nat
    BY LenProperties
  <2> QED BY <1>1, <2>1 DEF Pieces
<1>3. PICK H : H = [i \in 1 .. n |-> SubSeq(L, a[1], z[i])]
  OBVIOUS
<1> DEFINE T == {i \in 1 .. n : ~ (a[1] <= z[i])}
<1>4. \A i \in 1 .. n : a[1] <= z[i]
  <2> SUFFICES ASSUME T # {} PROVE FALSE
    BY <1>2
  <2>1. T \subseteq Nat
    OBVIOUS
  <2>2. PICK i \in T : \A j \in T : i <= j
    <3> HIDE DEF T
    <3> QED BY <2>1, LeastNumber
  <2>3. i > 1
    BY <1>2, <2>2
  <2>4. a[i] = z[i - 1] + 1 /\ i - 1 \in 1 .. n /\ i - 1 < i /\ i \in 1 .. n
    BY <1>2, <2>2, <2>3
  <2>5. i - 1 \notin T
    <3> HIDE DEF T
    <3> QED BY <2>1, <2>2, <2>4
  <2>6. a[1] <= z[i - 1]
    BY <2>4, <2>5
  <2>7. a[i] <= z[i] /\ z[i] \in Nat /\ a[i] \in Nat /\ z[i - 1] \in Nat /\ a[1] \in Nat
    BY <1>2, <2>4
  <2>8. a[1] <= z[i]
    BY <2>4, <2>6, <2>7
  <2> QED BY <2>2, <2>8
<1>5. ASSUME NEW i \in 1 .. n, i > 1
      PROVE  H[i] = H[i - 1] \o s[i]
  <2>1. /\ i - 1 \in 1 .. n /\ a[i] = z[i - 1] + 1 /\ s[i] = SubSeq(L, a[i], z[i])
        /\ a[1] \in 1 .. Len(L) + 1 /\ a[1] <= z[i - 1] /\ z[i - 1] \in Nat
        /\ a[1] \in Nat /\ z[i] \in Nat /\ a[i] <= z[i] /\ z[i] <= Len(L)
    BY <1>2, <1>4, <1>5
  <2>2. z[i - 1] \in a[1] - 1 .. Len(L) /\ z[i] \in z[i - 1] .. Len(L)
    BY <1>2, <2>1
  <2>3. SubSeq(L, a[1], z[i - 1]) \o SubSeq(L, z[i - 1] + 1, z[i]) = SubSeq(L, a[1], z[i])
    BY <2>1, <2>2, ConcatAdjacentSubSeq
  <2> QED BY <1>3, <2>1, <2>3
<1>6. PICK f : f = CHOOSE g : g = Joined(s, g)
  OBVIOUS
<1>7. f = Joined(s, f)
  <2>1. H = Joined(s, H)
    <3>1. \A i \in 1 .. n : H[i] = IF i = 1 THEN s[i] ELSE H[i - 1] \o s[i]
      <4> TAKE i \in 1 .. n
      <4>1. i = 1 => H[i] = s[i]
        BY <1>2, <1>3
      <4>2. i > 1 => H[i] = H[i - 1] \o s[i]
        BY <1>5
      <4>3. CASE i = 1
        BY <4>1, <4>3
      <4>4. CASE i > 1
        <5>1. i # 1
          BY <4>4
        <5> QED BY <4>2, <4>4, <5>1
      <4> QED BY <4>3, <4>4
    <3>2. H = [i \in 1 .. n |-> H[i]]
      BY <1>3
    <3> QED BY <1>1, <3>1, <3>2 DEF Joined
  <2> QED BY <1>6, <2>1
<1>8. FlattenSeq(s) = f[n]
  <2>1. f = CHOOSE g : g = [i \in 1 .. Len(s) |-> IF i = 1 THEN s[i] ELSE g[i - 1] \o s[i]]
    BY <1>6 DEF Joined
  <2> QED BY <1>1, <2>1 DEF FlattenSeq
<1>9. \A i \in 1 .. n : f[i] = IF i = 1 THEN s[i] ELSE f[i - 1] \o s[i]
  BY <1>1, <1>7 DEF Joined
<1> DEFINE D == {i \in 1 .. n : f[i] # H[i]}
<1>10. D = {}
  <2> SUFFICES ASSUME D # {} PROVE FALSE
    OBVIOUS
  <2>1. D \subseteq Nat
    OBVIOUS
  <2>2. PICK i \in D : \A j \in D : i <= j
    <3> HIDE DEF D
    <3> QED BY <2>1, LeastNumber
  <2>3. i \in 1 .. n /\ f[i] # H[i]
    BY <2>2
  <2>4. i # 1
    BY <1>2, <1>9, <1>3, <2>3
  <2>5. i > 1 /\ i - 1 \in 1 .. n /\ i - 1 < i
    BY <2>3, <2>4
  <2>6. i - 1 \notin D
    <3> HIDE DEF D
    <3> QED BY <2>1, <2>2, <2>5
  <2>7. f[i - 1] = H[i - 1]
    BY <2>5, <2>6
  <2>8. H[i] = H[i - 1] \o s[i]
    BY <1>5, <2>3, <2>5
  <2>9. f[i] = f[i - 1] \o s[i]
    BY <1>9, <2>3, <2>4
  <2> QED BY <2>3, <2>7, <2>8, <2>9
<1>11. f[n] = H[n]
  BY <1>2, <1>10
<1> QED BY <1>1, <1>2, <1>4, <1>8, <1>11, <1>3
=============================================================================
