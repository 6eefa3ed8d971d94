------------------------- MODULE DiskSession_proofs -------------------------
(***************************************************************************)
(* Proofs about sessions: types, the consistency of the database during a  *)
(* session and on the disk file, and the refinement of SessionStore, for   *)
(* any relations with any numbers of attributes and records, any size of   *)
(* the open relation table and any number of sessions.                     *)
(***************************************************************************)
EXTENDS DiskSession, FiniteSetTheorems, TLAPS

\* a process is killed while the user works or the destructors of the cache
\* and the buffer run, not while ~Disk copies: SessionKilled.cfg drops this
KillsBeforeCopy == CrashPoints \subseteq {"running", "closing", "flushing"}

-----------------------------------------------------------------------------
(* The invariant.                                                          *)

\* the count of x and the blocks with every cache entry written back, as
\* Count and Current have them, of image m and cache c
CountIn(m, c, x)  == IF c[x] # Closed THEN c[x] ELSE m.relcat[x]
CurrentIn(m, c)   == [m EXCEPT !.relcat = [x \in Name |-> CountIn(m, c, x)]]
Cache             == [Name -> Nat \cup {Closed}]

\* an entry belongs to a catalog record, and a clean one agrees with it
EntriesIn(m, c, d) ==
  \A x \in Name : c[x] # Closed => m.relcat[x] # Absent /\ (d[x] \/ c[x] = m.relcat[x])
Entries == EntriesIn(mem, cache, dirty)

\* where main is decides which cache entries there are
CacheAt ==
  /\ pc = "running" => cache["RELATIONCAT"] # Closed /\ cache["ATTRIBUTECAT"] # Closed
  /\ pc \notin {"running", "closing"} => \A x \in Name : cache[x] = Closed

\* part p is in image i as it is in image j
Same(i, j, p) ==
  CASE p = "map"     -> i.map = j.map
    [] p = "relcat"  -> i.relcat = j.relcat
    [] p = "attrcat" -> i.attrcat = j.attrcat
    [] p \in Rel     -> i.rows[p] = j.rows[p]

\* what ~StaticBuffer has written is in the run copy
Flushed == pc = "flushing" => \A p \in ToFlush \ todo : Same(run, mem, p)

\* while ~Disk copies, the run copy is consistent and what it copies
Copying ==
  /\ pc = "copying" => file = run /\ Consistent(run)
  /\ pc # "copying" => copied = Part

IInv ==
  /\ TypeOK /\ CacheAt /\ Entries /\ Flushed /\ Copying
  /\ SessionConsistent /\ SavedConsistent

-----------------------------------------------------------------------------
(* Finite sets.                                                            *)

\* A relation has as many attribute records as attributes.
LEMMA AttrsCount ==
  ASSUME NEW r \in Rel
  PROVE  IsFiniteSet(Attrs(r)) /\ Cardinality(Attrs(r)) = NumAttrs[r]
<1> DEFINE one  == {r}
           nums == 1 .. NumAttrs[r]
<1>1. NumAttrs[r] \in Nat \ {0}
  BY SessionAssumption
<1>2. IsFiniteSet(nums) /\ Cardinality(nums) = NumAttrs[r]
  BY <1>1, FS_Interval
<1>3. IsFiniteSet(one) /\ Cardinality(one) = 1
  BY FS_Singleton
<1>4. IsFiniteSet(one \X nums) /\ Cardinality(one \X nums) = 1 * NumAttrs[r]
  <2> HIDE DEF one, nums
  <2>1. /\ IsFiniteSet(one \X nums)
        /\ Cardinality(one \X nums) = Cardinality(one) * Cardinality(nums)
    BY <1>2, <1>3, FS_Product, Zenon
  <2> QED BY <1>2, <1>3, <2>1
<1> QED BY <1>1, <1>4 DEF Attrs

\* The attribute records of any set of relations are finitely many.
LEMMA AllAttrsFinite ==
  ASSUME NEW S \in SUBSET Rel
  PROVE  IsFiniteSet(UNION {Attrs(r) : r \in S})
<1> DEFINE T == {Attrs(r) : r \in S}
           f == [r \in S |-> Attrs(r)]
<1>1. IsFiniteSet(S)
  BY SessionAssumption, FS_Subset
<1>2. f \in Surjection(S, T)
  BY DEF Surjection
<1>3. IsFiniteSet(T)
  BY <1>1, <1>2, FS_Surjection
<1>4. \A A \in T : IsFiniteSet(A)
  BY AttrsCount
<1> QED BY <1>3, <1>4, FS_UNION

\* The names are finitely many, and two of them are the catalogs.
LEMMA NameFinite == IsFiniteSet(Name) /\ IsFiniteSet(Catalogs) /\ Cardinality(Catalogs) = 2
<1>1. IsFiniteSet({"RELATIONCAT"}) /\ Cardinality({"RELATIONCAT"}) = 1
  BY FS_Singleton
<1>2. /\ IsFiniteSet({"RELATIONCAT"} \cup {"ATTRIBUTECAT"})
      /\ Cardinality({"RELATIONCAT"} \cup {"ATTRIBUTECAT"}) = 2
  BY <1>1, FS_AddElement
<1>3. Catalogs = {"RELATIONCAT"} \cup {"ATTRIBUTECAT"}
  BY DEF Catalogs
<1>4. IsFiniteSet(Catalogs) /\ Cardinality(Catalogs) = 2
  BY <1>2, <1>3
<1>5. IsFiniteSet(Catalogs \cup Rel)
  BY <1>4, SessionAssumption, FS_Union
<1> QED BY <1>4, <1>5 DEF Name

-----------------------------------------------------------------------------
(* Images.                                                                 *)

\* What there is of a consistent image is finite.
LEMMA ConsistentFinite ==
  ASSUME NEW i \in Image, Consistent(i)
  PROVE  IsFiniteSet(Present(i)) /\ IsFiniteSet(i.attrcat)
<1>1. Present(i) \in SUBSET Name
  BY DEF Present
<1>2. Present(i) \cap Rel \in SUBSET Rel
  OBVIOUS
<1> QED BY <1>1, <1>2, NameFinite, FS_Subset, AllAttrsFinite DEF Consistent

\* The disk that holds a database is consistent.
LEMMA DiskOfConsistent ==
  ASSUME NEW d \in [Rel -> Nat \cup {Absent}]
  PROVE  DiskOf(d) \in Image /\ Consistent(DiskOf(d))
<1> DEFINE present == {r \in Rel : d[r] # Absent}
           attrs   == UNION {Attrs(r) : r \in present}
           i       == DiskOf(d)
<1>1. present \in SUBSET Rel /\ IsFiniteSet(present) /\ Cardinality(present) \in Nat
  BY SessionAssumption, FS_Subset, FS_CardinalityType
<1>2. IsFiniteSet(attrs) /\ Cardinality(attrs) \in Nat
  BY <1>1, AllAttrsFinite, FS_CardinalityType
<1>3. \A r \in Rel : Attrs(r) \subseteq Rel \X Nat
  BY SessionAssumption DEF Attrs
<1>4. /\ i.map = {r \in present : d[r] > 0}
      /\ i.attrcat = attrs
      /\ i.rows = [r \in Rel |-> IF r \in present THEN d[r] ELSE 0]
      /\ i.relcat = [x \in Name |->
                       CASE x = "RELATIONCAT"  -> 2 + Cardinality(present)
                         [] x = "ATTRIBUTECAT" -> CATALOG_ATTRS + Cardinality(attrs)
                         [] x \in Rel          -> d[x]]
  BY DEF DiskOf
<1>5. /\ i.relcat["RELATIONCAT"] = 2 + Cardinality(present)
      /\ i.relcat["ATTRIBUTECAT"] = CATALOG_ATTRS + Cardinality(attrs)
      /\ \A r \in Rel : i.relcat[r] = d[r]
  BY <1>4, SessionAssumption DEF Name, Catalogs
<1>6. i.relcat \in [Name -> Nat \cup {Absent}]
  BY <1>1, <1>2, <1>4, <1>5, SessionAssumption DEF Name, Catalogs, CATALOG_ATTRS
<1>7. i \in Image
  <2>1. i.rows \in [Rel -> Nat]
    BY <1>4, SessionAssumption
  <2>2. i.attrcat \in SUBSET (Rel \X Nat)
    BY <1>3, <1>4
  <2> QED BY <1>4, <1>6, <2>1, <2>2 DEF Image, DiskOf
<1>8. Present(i) = Catalogs \cup present
  BY <1>1, <1>2, <1>5, SessionAssumption DEF Present, Name, Catalogs, CATALOG_ATTRS
<1>9. Cardinality(Present(i)) = 2 + Cardinality(present)
  <2>1. Catalogs \cap present = {}
    BY SessionAssumption
  <2>2. Cardinality(Catalogs \cap present) = 0
    BY <2>1, FS_EmptySet
  <2>3. Cardinality(Catalogs \cup present)
          = Cardinality(Catalogs) + Cardinality(present) - Cardinality(Catalogs \cap present)
    BY <1>1, NameFinite, FS_Union
  <2> QED BY <1>1, <1>8, <2>2, <2>3, NameFinite
<1>10. Present(i) \cap Rel = present
  BY <1>8, SessionAssumption
<1>11. \A r \in Rel \cap Present(i) : i.relcat[r] = Rows(i, r)
  <2> SUFFICES ASSUME NEW r \in present
               PROVE  i.relcat[r] = Rows(i, r)
    BY <1>10
  <2>1. d[r] \in Nat /\ i.relcat[r] = d[r] /\ i.rows[r] = d[r]
    BY <1>4, <1>5, SessionAssumption
  <2>2. r \in i.map <=> d[r] > 0
    BY <1>4
  <2> HIDE DEF i, present
  <2> QED BY <2>1, <2>2 DEF Rows
<1> QED
  BY <1>4, <1>5, <1>7, <1>8, <1>9, <1>10, <1>11 DEF Consistent

\* A record more: of a relation that has blocks or of one that takes its first.
LEMMA InsertConsistent ==
  ASSUME NEW i \in Image, NEW j \in Image, NEW r \in Rel,
         Consistent(i), i.relcat[r] # Absent,
         j.map = i.map \cup {r}, j.attrcat = i.attrcat,
         j.rows = [i.rows EXCEPT ![r] = Rows(i, r) + 1],
         j.relcat = [i.relcat EXCEPT ![r] = @ + 1]
  PROVE  Consistent(j)
<1>1. r \in Name /\ r \notin Catalogs /\ r \in Present(i)
  BY SessionAssumption DEF Present, Name
<1>2. i.relcat[r] = Rows(i, r) /\ i.relcat[r] \in Nat
  BY <1>1 DEF Consistent, Image
<1>3. j.relcat[r] = i.relcat[r] + 1 /\ \A x \in Name \ {r} : j.relcat[x] = i.relcat[x]
  BY <1>1 DEF Image
<1>4. Present(j) = Present(i)
  BY <1>1, <1>2, <1>3, SessionAssumption DEF Present
<1>5. \A s \in Rel \cap Present(j) : j.relcat[s] = Rows(j, s)
  <2> SUFFICES ASSUME NEW s \in Rel, s \in Present(i)
               PROVE  j.relcat[s] = Rows(j, s)
    BY <1>4
  <2>1. CASE s = r
    <3>1. Rows(j, r) = Rows(i, r) + 1
      BY DEF Rows, Image
    <3> QED BY <1>2, <1>3, <2>1, <3>1
  <2>2. CASE s # r
    <3>1. Rows(j, s) = Rows(i, s)
      BY <2>2 DEF Rows, Image
    <3>2. s \in Name
      BY DEF Name
    <3> QED BY <1>3, <2>2, <3>1, <3>2 DEF Consistent
  <2> QED BY <2>1, <2>2
<1>6. \A c \in Catalogs : j.relcat[c] = i.relcat[c]
  BY <1>1, <1>3 DEF Name
<1>7. "RELATIONCAT" \in Catalogs /\ "ATTRIBUTECAT" \in Catalogs
  BY DEF Catalogs
<1> QED BY <1>1, <1>4, <1>5, <1>6, <1>7 DEF Consistent

\* The records of a relation that comes.
LEMMA CreateConsistent ==
  ASSUME NEW i \in Image, NEW j \in Image, NEW r \in Rel,
         Consistent(i), i.relcat[r] = Absent,
         j.map = i.map, j.attrcat = i.attrcat \cup Attrs(r), j.rows = i.rows,
         j.relcat[r] = 0,
         j.relcat["RELATIONCAT"] = i.relcat["RELATIONCAT"] + 1,
         j.relcat["ATTRIBUTECAT"] = i.relcat["ATTRIBUTECAT"] + NumAttrs[r],
         \A s \in Rel \ {r} : j.relcat[s] = i.relcat[s]
  PROVE  Consistent(j)
<1>1. r \in Name /\ r \notin Catalogs /\ r \notin Present(i) /\ r \notin i.map
  BY SessionAssumption DEF Present, Name, Consistent
<1>2. /\ IsFiniteSet(Present(i)) /\ IsFiniteSet(i.attrcat)
      /\ Cardinality(Present(i)) \in Nat /\ Cardinality(i.attrcat) \in Nat
  BY ConsistentFinite, FS_CardinalityType
<1>3. /\ i.relcat["RELATIONCAT"] = Cardinality(Present(i))
      /\ i.relcat["ATTRIBUTECAT"] = CATALOG_ATTRS + Cardinality(i.attrcat)
  BY DEF Consistent
<1>4. NumAttrs[r] \in Nat
  BY SessionAssumption
<1>5. \A c \in Catalogs : j.relcat[c] # Absent
  BY <1>2, <1>3, <1>4, SessionAssumption DEF Catalogs, CATALOG_ATTRS
<1>6. Present(j) = Present(i) \cup {r}
  <2>1. \A x \in Catalogs : x \in Present(i) /\ x \in Present(j)
    BY <1>5 DEF Consistent, Present, Name
  <2>2. r \in Present(j)
    BY <1>1, SessionAssumption DEF Present
  <2>3. \A s \in Rel \ {r} : s \in Present(j) <=> s \in Present(i)
    BY DEF Present, Name
  <2>4. Present(i) \subseteq Catalogs \cup Rel /\ Present(j) \subseteq Catalogs \cup Rel
    BY DEF Present, Name
  <2> QED BY <2>1, <2>2, <2>3, <2>4
<1>7. Cardinality(Present(j)) = Cardinality(Present(i)) + 1
  <2>1. Cardinality(Present(i) \cup {r}) = Cardinality(Present(i)) + 1
    BY <1>1, <1>2, FS_AddElement
  <2> QED BY <1>6, <2>1
<1>8. Cardinality(j.attrcat) = Cardinality(i.attrcat) + NumAttrs[r]
  <2>1. i.attrcat \cap Attrs(r) = {}
    BY <1>1 DEF Consistent, Attrs
  <2>2. Cardinality(i.attrcat \cap Attrs(r)) = 0
    BY <2>1, FS_EmptySet
  <2>3. IsFiniteSet(Attrs(r)) /\ Cardinality(Attrs(r)) = NumAttrs[r]
    BY AttrsCount
  <2>4. Cardinality(i.attrcat \cup Attrs(r))
          = Cardinality(i.attrcat) + Cardinality(Attrs(r)) - Cardinality(i.attrcat \cap Attrs(r))
    BY <1>2, <2>3, FS_Union
  <2> QED BY <1>2, <1>4, <2>2, <2>3, <2>4
<1>9. j.attrcat = UNION {Attrs(s) : s \in Present(j) \cap Rel}
  BY <1>6 DEF Consistent
<1>10. \A s \in Rel \cap Present(j) : j.relcat[s] = Rows(j, s)
  BY <1>1, <1>6 DEF Rows, Consistent
<1>11. Catalogs \subseteq Present(j) /\ j.map \subseteq Present(j)
  BY <1>6 DEF Consistent
<1>12. j.relcat["RELATIONCAT"] = Cardinality(Present(j))
  BY <1>3, <1>7
<1>13. j.relcat["ATTRIBUTECAT"] = CATALOG_ATTRS + Cardinality(j.attrcat)
  BY <1>2, <1>3, <1>4, <1>8 DEF CATALOG_ATTRS
<1> QED BY <1>9, <1>10, <1>11, <1>12, <1>13 DEF Consistent

\* The records of a relation that goes.
LEMMA DeleteConsistent ==
  ASSUME NEW i \in Image, NEW j \in Image, NEW r \in Rel,
         Consistent(i), i.relcat[r] # Absent,
         j.map = i.map \ {r}, j.rows = [i.rows EXCEPT ![r] = 0],
         j.attrcat = {a \in i.attrcat : a[1] # r},
         j.relcat[r] = Absent,
         j.relcat["RELATIONCAT"] = i.relcat["RELATIONCAT"] - 1,
         j.relcat["ATTRIBUTECAT"]
           = i.relcat["ATTRIBUTECAT"] - Cardinality({a \in i.attrcat : a[1] = r}),
         \A s \in Rel \ {r} : j.relcat[s] = i.relcat[s]
  PROVE  Consistent(j)
<1>1. r \in Name /\ r \notin Catalogs /\ r \in Present(i)
  BY SessionAssumption DEF Present, Name
<1>2. /\ IsFiniteSet(Present(i)) /\ IsFiniteSet(i.attrcat)
      /\ Cardinality(Present(i)) \in Nat /\ Cardinality(i.attrcat) \in Nat
  BY ConsistentFinite, FS_CardinalityType
<1>3. /\ i.relcat["RELATIONCAT"] = Cardinality(Present(i))
      /\ i.relcat["ATTRIBUTECAT"] = CATALOG_ATTRS + Cardinality(i.attrcat)
  BY DEF Consistent
<1>4. /\ Cardinality(Present(i) \ {r}) = Cardinality(Present(i)) - 1
      /\ Cardinality(Present(i) \ {r}) \in Nat
  <2>1. IsFiniteSet(Present(i) \ {r}) /\ Cardinality(Present(i) \ {r}) = Cardinality(Present(i)) - 1
    BY <1>1, <1>2, FS_RemoveElement
  <2> QED BY <2>1, FS_CardinalityType
<1>5. /\ Cardinality(j.attrcat)
           = Cardinality(i.attrcat) - Cardinality({a \in i.attrcat : a[1] = r})
      /\ Cardinality(j.attrcat) \in Nat
  <2> DEFINE gone == {a \in i.attrcat : a[1] = r}
  <2>1. j.attrcat = i.attrcat \ gone /\ i.attrcat \cap gone = gone
    OBVIOUS
  <2>2. /\ IsFiniteSet(i.attrcat \ gone)
        /\ Cardinality(i.attrcat \ gone)
             = Cardinality(i.attrcat) - Cardinality(i.attrcat \cap gone)
    BY <1>2, FS_Difference
  <2>3. Cardinality(i.attrcat \ gone) \in Nat
    BY <2>2, FS_CardinalityType
  <2> QED BY <2>1, <2>2, <2>3
<1>6. /\ j.relcat["RELATIONCAT"] = Cardinality(Present(i) \ {r})
      /\ j.relcat["ATTRIBUTECAT"] = CATALOG_ATTRS + Cardinality(j.attrcat)
  <2>1. Cardinality({a \in i.attrcat : a[1] = r}) \in Nat
    <3>1. {a \in i.attrcat : a[1] = r} \in SUBSET i.attrcat
      OBVIOUS
    <3> QED BY <1>2, <3>1, FS_Subset, FS_CardinalityType
  <2> QED BY <1>2, <1>3, <1>4, <1>5, <2>1 DEF CATALOG_ATTRS
<1>7. \A c \in Catalogs : j.relcat[c] # Absent
  BY <1>4, <1>5, <1>6, SessionAssumption DEF Catalogs, CATALOG_ATTRS
<1>8. Present(j) = Present(i) \ {r}
  <2>1. \A x \in Catalogs : x \in Present(i) /\ x \in Present(j)
    BY <1>7 DEF Consistent, Present, Name
  <2>2. r \notin Present(j)
    BY DEF Present
  <2>3. \A s \in Rel \ {r} : s \in Present(j) <=> s \in Present(i)
    BY DEF Present, Name
  <2>4. Present(i) \subseteq Catalogs \cup Rel /\ Present(j) \subseteq Catalogs \cup Rel
    BY DEF Present, Name
  <2> QED BY <1>1, <2>1, <2>2, <2>3, <2>4
<1>9. j.attrcat = UNION {Attrs(s) : s \in Present(j) \cap Rel}
  BY <1>8 DEF Consistent, Attrs
<1>10. \A s \in Rel \cap Present(j) : j.relcat[s] = Rows(j, s)
  <2> SUFFICES ASSUME NEW s \in Rel, s \in Present(i), s # r
               PROVE  j.relcat[s] = Rows(j, s)
    BY <1>8
  <2>1. Rows(j, s) = Rows(i, s)
    BY DEF Rows, Image
  <2> QED BY <2>1 DEF Consistent
<1>11. Catalogs \subseteq Present(j) /\ j.map \subseteq Present(j)
  BY <1>1, <1>8 DEF Consistent
<1> QED BY <1>6, <1>8, <1>9, <1>10, <1>11 DEF Consistent

-----------------------------------------------------------------------------
(* The cache.                                                              *)

\* Current, in terms of the blocks and the cache it depends on.
LEMMA CurrentIs == Current = CurrentIn(mem, cache) /\ Current' = CurrentIn(mem', cache')
BY DEF Current, CurrentIn, CountIn, Count

\* The blocks with every cache entry written back.
LEMMA CurrentFields ==
  ASSUME NEW m \in Image, NEW c \in Cache
  PROVE  /\ CurrentIn(m, c) \in Image
         /\ CurrentIn(m, c).map = m.map
         /\ CurrentIn(m, c).attrcat = m.attrcat
         /\ CurrentIn(m, c).rows = m.rows
         /\ CurrentIn(m, c).relcat = [x \in Name |-> CountIn(m, c, x)]
<1>1. [x \in Name |-> CountIn(m, c, x)] \in [Name -> Nat \cup {Absent}]
  BY DEF Image, Cache, CountIn
<1> QED BY <1>1 DEF CurrentIn, Image

\* Equal blocks and counts make equal images.
LEMMA CurrentSame ==
  ASSUME NEW m \in Image, NEW c \in Cache, NEW m2 \in Image, NEW c2 \in Cache,
         m2.map = m.map, m2.attrcat = m.attrcat, m2.rows = m.rows,
         \A y \in Name : CountIn(m2, c2, y) = CountIn(m, c, y)
  PROVE  CurrentIn(m2, c2) = CurrentIn(m, c)
<1>1. [y \in Name |-> CountIn(m2, c2, y)] = [y \in Name |-> CountIn(m, c, y)]
  OBVIOUS
<1>2. /\ CurrentIn(m, c) \in Image
      /\ CurrentIn(m, c).map = m.map
      /\ CurrentIn(m, c).attrcat = m.attrcat
      /\ CurrentIn(m, c).rows = m.rows
      /\ CurrentIn(m, c).relcat = [y \in Name |-> CountIn(m, c, y)]
  BY CurrentFields
<1>3. /\ CurrentIn(m2, c2) \in Image
      /\ CurrentIn(m2, c2).map = m2.map
      /\ CurrentIn(m2, c2).attrcat = m2.attrcat
      /\ CurrentIn(m2, c2).rows = m2.rows
      /\ CurrentIn(m2, c2).relcat = [y \in Name |-> CountIn(m2, c2, y)]
  BY CurrentFields
<1>4. /\ CurrentIn(m2, c2).map = CurrentIn(m, c).map
      /\ CurrentIn(m2, c2).attrcat = CurrentIn(m, c).attrcat
      /\ CurrentIn(m2, c2).rows = CurrentIn(m, c).rows
      /\ CurrentIn(m2, c2).relcat = CurrentIn(m, c).relcat
  BY <1>1, <1>2, <1>3
<1> QED BY <1>2, <1>3, <1>4 DEF Image

-----------------------------------------------------------------------------
(* The steps.                                                              *)

\* The disk of any database satisfies the invariant.
LEMMA InitInv == Init => IInv
<1> SUFFICES ASSUME Init PROVE IInv
  OBVIOUS
<1>1. PICK d \in [Rel -> (0 .. MaxRecs) \cup {Absent}] : file = DiskOf(d)
  BY DEF Init
<1>2. d \in [Rel -> Nat \cup {Absent}]
  BY SessionAssumption
<1>3. file \in Image /\ Consistent(file)
  BY <1>1, <1>2, DiskOfConsistent
<1>4. TypeOK
  BY <1>3 DEF Init, TypeOK
<1>5. CacheAt /\ Entries /\ Flushed /\ Copying
  BY DEF Init, CacheAt, Entries, EntriesIn, Flushed, Copying, Name, Catalogs
<1>6. SessionConsistent /\ SavedConsistent
  BY <1>3 DEF Init, SessionConsistent, SavedConsistent
<1> QED BY <1>4, <1>5, <1>6 DEF IInv

\* What a step of the user needs of the invariant, and what it leaves of it.
LEMMA Running ==
  ASSUME IInv, pc = "running"
  PROVE  /\ mem \in Image /\ run \in Image /\ cache \in Cache /\ dirty \in [Name -> BOOLEAN]
         /\ cache["RELATIONCAT"] \in Nat /\ cache["ATTRIBUTECAT"] \in Nat
         /\ Current \in Image /\ Consistent(Current)
         /\ Current.map = mem.map /\ Current.attrcat = mem.attrcat
         /\ Current.rows = mem.rows
         /\ Current.relcat = [x \in Name |-> CountIn(mem, cache, x)]
         /\ \A r \in Rel : r \in Name /\ r \notin Catalogs
         /\ "RELATIONCAT" \in Name /\ "ATTRIBUTECAT" \in Name
<1>1. mem \in Image /\ run \in Image /\ cache \in Cache /\ dirty \in [Name -> BOOLEAN]
  BY DEF IInv, TypeOK, Cache
<1>2. /\ \A r \in Rel : r \in Name /\ r \notin Catalogs
      /\ "RELATIONCAT" \in Name /\ "ATTRIBUTECAT" \in Name
  BY SessionAssumption DEF Name, Catalogs
<1>3. cache["RELATIONCAT"] \in Nat /\ cache["ATTRIBUTECAT"] \in Nat
  BY <1>1, <1>2 DEF IInv, CacheAt, Cache
<1>4. Consistent(Current)
  BY DEF IInv, SessionConsistent
<1> QED BY <1>1, <1>2, <1>3, <1>4, CurrentIs, CurrentFields

\* What a step of the user must establish.
LEMMA RunningInv ==
  ASSUME IInv, pc = "running", pc' = "running",
         UNCHANGED <<todo, file, copied>>, run' \in Image,
         mem' \in Image, cache' \in Cache, dirty' \in [Name -> BOOLEAN],
         cache'["RELATIONCAT"] # Closed, cache'["ATTRIBUTECAT"] # Closed,
         EntriesIn(mem', cache', dirty'),
         Consistent(CurrentIn(mem', cache'))
  PROVE  IInv'
<1>1. TypeOK'
  BY DEF IInv, TypeOK, Copying, Cache
<1>2. CacheAt' /\ Entries' /\ Flushed' /\ Copying'
  BY DEF IInv, CacheAt, Entries, Flushed, Copying
<1>3. SessionConsistent'
  BY CurrentIs DEF SessionConsistent
<1>4. SavedConsistent'
  BY DEF IInv, SavedConsistent
<1> QED BY <1>1, <1>2, <1>3, <1>4 DEF IInv

\* The entry that comes agrees with its record, whatever its dirty flag is.
LEMMA OpenRelInv == ASSUME IInv, NEW r \in Rel, OpenRel(r) PROVE IInv'
<1> USE Running
<1>1. pc = "running" /\ cache[r] = Closed /\ mem.relcat[r] # Absent
  BY DEF OpenRel
<1>2. mem.relcat[r] \in Nat
  BY <1>1 DEF Image
<1>3. PICK d \in BOOLEAN : dirty' = [dirty EXCEPT ![r] = d]
  BY DEF OpenRel
<1>4. /\ pc' = "running" /\ mem' = mem /\ run' = run /\ UNCHANGED <<todo, file, copied>>
      /\ cache' = [cache EXCEPT ![r] = mem.relcat[r]]
  BY <1>1 DEF OpenRel
<1>5. /\ cache' \in Cache /\ dirty' \in [Name -> BOOLEAN]
      /\ cache'["RELATIONCAT"] # Closed /\ cache'["ATTRIBUTECAT"] # Closed
  BY <1>1, <1>2, <1>3, <1>4, SessionAssumption DEF Cache, Catalogs
<1>6. EntriesIn(mem, cache', dirty')
  BY <1>1, <1>2, <1>3, <1>4 DEF IInv, Entries, EntriesIn, Cache
<1>7. \A y \in Name : CountIn(mem, cache', y) = CountIn(mem, cache, y)
  BY <1>1, <1>4 DEF CountIn, Cache
<1>8. CurrentIn(mem, cache') = CurrentIn(mem, cache)
  BY <1>1, <1>5, <1>7, CurrentSame
<1> QED BY <1>1, <1>4, <1>5, <1>6, <1>8, CurrentIs, RunningInv

\* The count that only the cache knows goes with the record in the block.
LEMMA InsertInv == ASSUME IInv, NEW r \in Rel, Insert(r) PROVE IInv'
<1>1. pc = "running" /\ cache[r] # Closed
  BY DEF Insert
<1>2. cache \in Cache /\ cache[r] \in Nat /\ r \in Name /\ r \notin Catalogs
  BY <1>1, Running DEF Cache
<1>3. /\ pc' = "running" /\ run' = run /\ UNCHANGED <<todo, file, copied>>
      /\ mem' = [mem EXCEPT !.map = @ \cup {r}, !.rows[r] = Rows(mem, r) + 1]
      /\ cache' = [cache EXCEPT ![r] = cache[r] + 1]
      /\ dirty' = [dirty EXCEPT ![r] = TRUE]
  BY <1>1 DEF Insert, SetCount
<1>4. mem \in Image /\ Rows(mem, r) \in Nat
  BY <1>1, Running DEF Rows, Image
<1>5. /\ mem' \in Image /\ mem'.map = mem.map \cup {r} /\ mem'.attrcat = mem.attrcat
      /\ mem'.relcat = mem.relcat /\ mem'.rows = [mem.rows EXCEPT ![r] = Rows(mem, r) + 1]
  <2>1. mem.map \cup {r} \in SUBSET Rel
    BY <1>4 DEF Image
  <2>2. [mem.rows EXCEPT ![r] = Rows(mem, r) + 1] \in [Rel -> Nat]
    BY <1>4 DEF Image
  <2>3. mem' = [map |-> mem.map \cup {r}, relcat |-> mem.relcat, attrcat |-> mem.attrcat,
                rows |-> [mem.rows EXCEPT ![r] = Rows(mem, r) + 1]]
    BY <1>3, <1>4 DEF Image
  <2> QED BY <1>4, <2>1, <2>2, <2>3 DEF Image
<1>6. /\ cache' \in Cache /\ dirty' \in [Name -> BOOLEAN]
      /\ cache'["RELATIONCAT"] # Closed /\ cache'["ATTRIBUTECAT"] # Closed
  BY <1>1, <1>2, <1>3, Running, SessionAssumption DEF Cache, Catalogs
<1>7. EntriesIn(mem', cache', dirty')
  BY <1>1, <1>2, <1>3, <1>5, Running DEF IInv, Entries, EntriesIn, Cache
<1>8. Consistent(CurrentIn(mem', cache'))
  <2> DEFINE j == CurrentIn(mem', cache')
  <2>1. /\ j \in Image /\ j.map = mem'.map /\ j.attrcat = mem'.attrcat
        /\ j.rows = mem'.rows /\ j.relcat = [x \in Name |-> CountIn(mem', cache', x)]
    BY <1>5, <1>6, CurrentFields
  <2>2. /\ Current \in Image /\ Consistent(Current) /\ Current.map = mem.map
        /\ Current.attrcat = mem.attrcat /\ Current.rows = mem.rows
        /\ Current.relcat = [x \in Name |-> CountIn(mem, cache, x)]
    BY <1>1, Running
  <2>3. Current.relcat[r] = cache[r] /\ Current.relcat[r] # Absent
    BY <1>1, <1>2, <2>2, SessionAssumption DEF CountIn
  <2>4. Rows(Current, r) = Rows(mem, r)
    BY <2>2 DEF Rows
  <2>5. \A x \in Name : CountIn(mem', cache', x)
                          = IF x = r THEN CountIn(mem, cache, r) + 1 ELSE CountIn(mem, cache, x)
    BY <1>1, <1>2, <1>3, <1>5, SessionAssumption DEF CountIn, Cache
  <2>6. j.relcat = [Current.relcat EXCEPT ![r] = @ + 1]
    BY <1>2, <2>1, <2>2, <2>5
  <2>7. /\ j.map = Current.map \cup {r} /\ j.attrcat = Current.attrcat
        /\ j.rows = [Current.rows EXCEPT ![r] = Rows(Current, r) + 1]
    BY <1>5, <2>1, <2>2, <2>4
  <2> HIDE DEF j
  <2>8. Consistent(j)
    BY <2>1, <2>2, <2>3, <2>6, <2>7, InsertConsistent
  <2> QED BY <2>8 DEF j
<1>9. run' \in Image
  BY <1>1, <1>3, Running
<1> QED BY <1>1, <1>3, <1>5, <1>6, <1>7, <1>8, <1>9, RunningInv

\* The counts of the two catalogs after SetCatalogCounts.
LEMMA CatalogCounts ==
  ASSUME IInv, pc = "running", NEW n \in Int, NEW k \in Int, SetCatalogCounts(n, k),
         cache["RELATIONCAT"] + n \in Nat, cache["ATTRIBUTECAT"] + k \in Nat
  PROVE  /\ cache' \in Cache /\ dirty' \in [Name -> BOOLEAN]
         /\ cache'["RELATIONCAT"] = cache["RELATIONCAT"] + n
         /\ cache'["ATTRIBUTECAT"] = cache["ATTRIBUTECAT"] + k
         /\ dirty'["RELATIONCAT"] /\ dirty'["ATTRIBUTECAT"]
         /\ \A r \in Rel : cache'[r] = cache[r] /\ dirty'[r] = dirty[r]
<1>1. /\ cache \in Cache /\ dirty \in [Name -> BOOLEAN]
      /\ \A r \in Rel : r \in Name /\ r # "RELATIONCAT" /\ r # "ATTRIBUTECAT"
      /\ "RELATIONCAT" \in Name /\ "ATTRIBUTECAT" \in Name
  BY Running DEF Catalogs
<1>2. cache' = [cache EXCEPT !["RELATIONCAT"] = @ + n, !["ATTRIBUTECAT"] = @ + k]
  BY DEF SetCatalogCounts
<1>3. dirty' = [dirty EXCEPT !["RELATIONCAT"] = TRUE, !["ATTRIBUTECAT"] = TRUE]
  BY DEF SetCatalogCounts
<1>4. cache' \in Cache /\ dirty' \in [Name -> BOOLEAN]
  BY <1>1, <1>2, <1>3 DEF Cache
<1>5. /\ cache'["RELATIONCAT"] = cache["RELATIONCAT"] + n
      /\ cache'["ATTRIBUTECAT"] = cache["ATTRIBUTECAT"] + k
      /\ \A r \in Rel : cache'[r] = cache[r]
  BY <1>1, <1>2 DEF Cache
<1>6. /\ dirty'["RELATIONCAT"] /\ dirty'["ATTRIBUTECAT"]
      /\ \A r \in Rel : dirty'[r] = dirty[r]
  BY <1>1, <1>3
<1> QED BY <1>4, <1>5, <1>6

\* A relation comes with its catalog records and the counts of the catalogs.
LEMMA CreateRelInv == ASSUME IInv, NEW r \in Rel, CreateRel(r) PROVE IInv'
<1>1. pc = "running" /\ mem.relcat[r] = Absent
  BY DEF CreateRel
<1>2. /\ cache \in Cache /\ cache[r] = Closed /\ r \in Name /\ r \notin Catalogs
      /\ NumAttrs[r] \in Nat /\ mem \in Image
  BY <1>1, Running, SessionAssumption DEF IInv, Entries, EntriesIn
<1>3. /\ pc' = "running" /\ run' = run /\ UNCHANGED <<todo, file, copied>>
      /\ mem' = [mem EXCEPT !.relcat[r] = 0, !.attrcat = @ \cup Attrs(r)]
      /\ SetCatalogCounts(1, NumAttrs[r])
  BY <1>1 DEF CreateRel
<1>4. /\ mem' \in Image /\ mem'.map = mem.map /\ mem'.attrcat = mem.attrcat \cup Attrs(r)
      /\ mem'.relcat = [mem.relcat EXCEPT ![r] = 0] /\ mem'.rows = mem.rows
  <2>1. mem.attrcat \cup Attrs(r) \in SUBSET (Rel \X Nat)
    BY <1>2 DEF Image, Attrs
  <2>2. [mem.relcat EXCEPT ![r] = 0] \in [Name -> Nat \cup {Absent}]
    BY <1>2 DEF Image
  <2>3. mem' = [map |-> mem.map, relcat |-> [mem.relcat EXCEPT ![r] = 0],
                attrcat |-> mem.attrcat \cup Attrs(r), rows |-> mem.rows]
    BY <1>2, <1>3 DEF Image
  <2> QED BY <1>2, <2>1, <2>2, <2>3 DEF Image
<1>5. /\ cache' \in Cache /\ dirty' \in [Name -> BOOLEAN]
      /\ cache'["RELATIONCAT"] = cache["RELATIONCAT"] + 1
      /\ cache'["ATTRIBUTECAT"] = cache["ATTRIBUTECAT"] + NumAttrs[r]
      /\ dirty'["RELATIONCAT"] /\ dirty'["ATTRIBUTECAT"]
      /\ \A s \in Rel : cache'[s] = cache[s] /\ dirty'[s] = dirty[s]
      /\ cache["RELATIONCAT"] \in Nat /\ cache["ATTRIBUTECAT"] \in Nat
  <2>1. cache["RELATIONCAT"] \in Nat /\ cache["ATTRIBUTECAT"] \in Nat
    BY <1>1, Running
  <2>2. /\ 1 \in Int /\ NumAttrs[r] \in Int
        /\ cache["RELATIONCAT"] + 1 \in Nat /\ cache["ATTRIBUTECAT"] + NumAttrs[r] \in Nat
    BY <1>2, <2>1
  <2> QED BY <1>1, <1>3, <2>1, <2>2, CatalogCounts
<1>6. cache'["RELATIONCAT"] # Closed /\ cache'["ATTRIBUTECAT"] # Closed
  BY <1>2, <1>5, SessionAssumption
<1>7. EntriesIn(mem', cache', dirty')
  BY <1>1, <1>2, <1>4, <1>5 DEF IInv, Entries, EntriesIn, Name, Catalogs, CacheAt, Image
<1>8. Consistent(CurrentIn(mem', cache'))
  <2> DEFINE j == CurrentIn(mem', cache')
  <2>1. /\ j \in Image /\ j.map = mem'.map /\ j.attrcat = mem'.attrcat
        /\ j.rows = mem'.rows /\ j.relcat = [x \in Name |-> CountIn(mem', cache', x)]
    BY <1>4, <1>5, CurrentFields
  <2>2. /\ Current \in Image /\ Consistent(Current) /\ Current.map = mem.map
        /\ Current.attrcat = mem.attrcat /\ Current.rows = mem.rows
        /\ Current.relcat = [x \in Name |-> CountIn(mem, cache, x)]
        /\ "RELATIONCAT" \in Name /\ "ATTRIBUTECAT" \in Name /\ \A s \in Rel : s \in Name
    BY <1>1, Running
  <2>3. Current.relcat[r] = Absent /\ j.relcat[r] = 0
    BY <1>1, <1>2, <1>4, <1>5, <2>1, <2>2 DEF CountIn, Image
  <2>4. /\ j.relcat["RELATIONCAT"] = Current.relcat["RELATIONCAT"] + 1
        /\ j.relcat["ATTRIBUTECAT"] = Current.relcat["ATTRIBUTECAT"] + NumAttrs[r]
    BY <1>5, <1>6, <2>1, <2>2, SessionAssumption DEF CountIn
  <2>5. \A s \in Rel \ {r} : j.relcat[s] = Current.relcat[s]
    BY <1>4, <1>5, <2>1, <2>2 DEF CountIn, Image
  <2>6. j.map = Current.map /\ j.attrcat = Current.attrcat \cup Attrs(r) /\ j.rows = Current.rows
    BY <1>4, <2>1, <2>2
  <2> HIDE DEF j
  <2>7. Consistent(j)
    BY <2>1, <2>2, <2>3, <2>4, <2>5, <2>6, CreateConsistent
  <2> QED BY <2>7 DEF j
<1>9. run' \in Image
  BY <1>1, <1>3, Running
<1> QED BY <1>1, <1>3, <1>4, <1>5, <1>6, <1>7, <1>8, <1>9, RunningInv

\* A relation goes with its catalog records and the counts of the catalogs.
LEMMA DeleteRelInv == ASSUME IInv, NEW r \in Rel, DeleteRel(r) PROVE IInv'
<1> DEFINE gone == {a \in mem.attrcat : a[1] = r}
<1>1. pc = "running" /\ cache[r] = Closed /\ mem.relcat[r] # Absent
  BY DEF DeleteRel
<1>2. cache \in Cache /\ r \in Name /\ r \notin Catalogs /\ mem \in Image
  BY <1>1, Running
<1>3. /\ pc' = "running" /\ run' = run /\ UNCHANGED <<todo, file, copied>>
      /\ mem' = [mem EXCEPT !.map = @ \ {r}, !.relcat[r] = Absent, !.rows[r] = 0,
                            !.attrcat = {a \in @ : a[1] # r}]
      /\ SetCatalogCounts(-1, -Cardinality(gone))
  BY <1>1 DEF DeleteRel
<1>4. /\ mem' \in Image /\ mem'.map = mem.map \ {r}
      /\ mem'.attrcat = {a \in mem.attrcat : a[1] # r}
      /\ mem'.relcat = [mem.relcat EXCEPT ![r] = Absent]
      /\ mem'.rows = [mem.rows EXCEPT ![r] = 0]
  <2>1. {a \in mem.attrcat : a[1] # r} \in SUBSET (Rel \X Nat) /\ mem.map \ {r} \in SUBSET Rel
    BY <1>2 DEF Image
  <2>2. [mem.relcat EXCEPT ![r] = Absent] \in [Name -> Nat \cup {Absent}]
    BY <1>2 DEF Image
  <2>3. [mem.rows EXCEPT ![r] = 0] \in [Rel -> Nat]
    BY <1>2 DEF Image
  <2>4. mem' = [map |-> mem.map \ {r}, relcat |-> [mem.relcat EXCEPT ![r] = Absent],
                attrcat |-> {a \in mem.attrcat : a[1] # r}, rows |-> [mem.rows EXCEPT ![r] = 0]]
    BY <1>2, <1>3 DEF Image
  <2> QED BY <1>2, <2>1, <2>2, <2>3, <2>4 DEF Image
<1>5. /\ Current \in Image /\ Consistent(Current) /\ Current.map = mem.map
      /\ Current.attrcat = mem.attrcat /\ Current.rows = mem.rows
      /\ Current.relcat = [x \in Name |-> CountIn(mem, cache, x)]
      /\ "RELATIONCAT" \in Name /\ "ATTRIBUTECAT" \in Name /\ \A s \in Rel : s \in Name
      /\ cache["RELATIONCAT"] \in Nat /\ cache["ATTRIBUTECAT"] \in Nat
  BY <1>1, Running
<1>6. /\ Current.relcat["RELATIONCAT"] = cache["RELATIONCAT"]
      /\ Current.relcat["ATTRIBUTECAT"] = cache["ATTRIBUTECAT"]
      /\ Current.relcat[r] # Absent
  BY <1>1, <1>2, <1>5, SessionAssumption DEF CountIn
<1>7. /\ Cardinality(gone) \in Nat
      /\ cache["RELATIONCAT"] + (-1) \in Nat
      /\ cache["ATTRIBUTECAT"] + (-Cardinality(gone)) \in Nat
  <2>1. IsFiniteSet(Present(Current)) /\ IsFiniteSet(mem.attrcat)
    BY <1>5, ConsistentFinite
  <2>2. r \in Present(Current)
    BY <1>2, <1>6 DEF Present
  <2>3. Cardinality(Present(Current)) \in Nat /\ Cardinality(Present(Current)) # 0
    BY <2>1, <2>2, FS_CardinalityType, FS_EmptySet
  <2>4. gone \in SUBSET mem.attrcat
    OBVIOUS
  <2>5. IsFiniteSet(gone) /\ Cardinality(gone) <= Cardinality(mem.attrcat)
    BY <2>1, <2>4, FS_Subset
  <2>6. Cardinality(gone) \in Nat /\ Cardinality(mem.attrcat) \in Nat
    BY <2>1, <2>5, FS_CardinalityType
  <2>7. /\ cache["RELATIONCAT"] = Cardinality(Present(Current))
        /\ cache["ATTRIBUTECAT"] = CATALOG_ATTRS + Cardinality(mem.attrcat)
    BY <1>5, <1>6 DEF Consistent
  <2> HIDE DEF gone
  <2> QED BY <2>3, <2>5, <2>6, <2>7 DEF CATALOG_ATTRS
<1>8. /\ cache' \in Cache /\ dirty' \in [Name -> BOOLEAN]
      /\ cache'["RELATIONCAT"] = cache["RELATIONCAT"] + (-1)
      /\ cache'["ATTRIBUTECAT"] = cache["ATTRIBUTECAT"] + (-Cardinality(gone))
      /\ dirty'["RELATIONCAT"] /\ dirty'["ATTRIBUTECAT"]
      /\ \A s \in Rel : cache'[s] = cache[s] /\ dirty'[s] = dirty[s]
  <2> HIDE DEF gone
  <2>1. -1 \in Int /\ -Cardinality(gone) \in Int
    BY <1>7
  <2> QED BY <1>1, <1>3, <1>7, <2>1, CatalogCounts
<1>9. cache'["RELATIONCAT"] \in Nat /\ cache'["ATTRIBUTECAT"] \in Nat
  BY <1>7, <1>8
<1>10. EntriesIn(mem', cache', dirty')
  BY <1>1, <1>2, <1>4, <1>8 DEF IInv, Entries, EntriesIn, Name, Catalogs, CacheAt, Image
<1>11. Consistent(CurrentIn(mem', cache'))
  <2> DEFINE j == CurrentIn(mem', cache')
  <2>1. /\ j \in Image /\ j.map = mem'.map /\ j.attrcat = mem'.attrcat
        /\ j.rows = mem'.rows /\ j.relcat = [x \in Name |-> CountIn(mem', cache', x)]
    BY <1>4, <1>8, CurrentFields
  <2>2. j.relcat[r] = Absent
    BY <1>1, <1>2, <1>4, <1>8, <2>1 DEF CountIn, Image
  <2>3. /\ j.relcat["RELATIONCAT"] = Current.relcat["RELATIONCAT"] - 1
        /\ j.relcat["ATTRIBUTECAT"] = Current.relcat["ATTRIBUTECAT"] - Cardinality(gone)
    <3> HIDE DEF gone
    <3>1. /\ j.relcat["RELATIONCAT"] = cache'["RELATIONCAT"]
          /\ j.relcat["ATTRIBUTECAT"] = cache'["ATTRIBUTECAT"]
      BY <1>5, <1>9, <2>1, SessionAssumption DEF CountIn
    <3> QED BY <1>5, <1>6, <1>7, <1>8, <3>1
  <2>4. \A s \in Rel \ {r} : j.relcat[s] = Current.relcat[s]
    BY <1>4, <1>5, <1>8, <2>1 DEF CountIn, Image
  <2>5. /\ j.map = Current.map \ {r} /\ j.rows = [Current.rows EXCEPT ![r] = 0]
        /\ j.attrcat = {a \in Current.attrcat : a[1] # r}
        /\ gone = {a \in Current.attrcat : a[1] = r}
    BY <1>4, <1>5, <2>1
  <2> HIDE DEF j, gone
  <2>6. Consistent(j)
    BY <1>5, <1>6, <2>1, <2>2, <2>3, <2>4, <2>5, DeleteConsistent
  <2> QED BY <2>6 DEF j
<1>12. run' \in Image /\ cache'["RELATIONCAT"] # Closed /\ cache'["ATTRIBUTECAT"] # Closed
  BY <1>1, <1>3, <1>9, Running, SessionAssumption
<1> QED BY <1>1, <1>3, <1>4, <1>8, <1>10, <1>11, <1>12, RunningInv

\* closeRel and ~OpenRelTable change neither a count nor what an entry stands for.
LEMMA WriteBackOk ==
  ASSUME IInv, NEW x \in Name, cache[x] # Closed, WriteBackCount(x)
  PROVE  /\ mem' \in Image /\ cache' \in Cache /\ dirty' \in [Name -> BOOLEAN]
         /\ EntriesIn(mem', cache', dirty') /\ Current' = Current
         /\ cache' = [cache EXCEPT ![x] = Closed]
<1>1. /\ mem \in Image /\ cache \in Cache /\ dirty \in [Name -> BOOLEAN]
      /\ EntriesIn(mem, cache, dirty)
  BY DEF IInv, TypeOK, Cache, Entries
<1>2. cache' = [cache EXCEPT ![x] = Closed] /\ dirty' = [dirty EXCEPT ![x] = FALSE]
  BY DEF WriteBackCount
<1>3. cache' \in Cache /\ dirty' \in [Name -> BOOLEAN]
  BY <1>1, <1>2 DEF Cache
<1>4. cache[x] \in Nat /\ cache[x] # Absent
  BY <1>1, SessionAssumption DEF Cache
<1>5. /\ mem' \in Image
      /\ mem'.map = mem.map /\ mem'.attrcat = mem.attrcat /\ mem'.rows = mem.rows
      /\ mem'.relcat = [mem.relcat EXCEPT ![x] = cache[x]]
  <2>1. CASE dirty[x]
    <3>1. mem' = [mem EXCEPT !.relcat[x] = cache[x]]
      BY <2>1 DEF WriteBackCount
    <3> QED BY <1>1, <1>4, <3>1 DEF Image
  <2>2. CASE ~dirty[x]
    <3>1. mem' = mem /\ mem.relcat[x] = cache[x]
      BY <1>1, <2>2 DEF WriteBackCount, EntriesIn
    <3> QED BY <1>1, <3>1 DEF Image
  <2> QED BY <2>1, <2>2
<1>6. \A y \in Name : CountIn(mem', cache', y) = CountIn(mem, cache, y)
  BY <1>1, <1>2, <1>5 DEF CountIn, Cache, Image
<1>7. EntriesIn(mem', cache', dirty')
  BY <1>1, <1>2, <1>4, <1>5 DEF EntriesIn, Cache, Image
<1>8. mem'.map = mem.map /\ mem'.attrcat = mem.attrcat /\ mem'.rows = mem.rows
  BY <1>5
<1>9. mem' \in Image
  BY <1>5
<1>10. CurrentIn(mem', cache') = CurrentIn(mem, cache)
  BY <1>1, <1>3, <1>6, <1>8, <1>9, CurrentSame
<1> QED BY <1>2, <1>3, <1>7, <1>9, <1>10, CurrentIs

\* The count goes from the cache to the catalog record.
LEMMA CloseRelInv == ASSUME IInv, NEW r \in Rel, CloseRel(r) PROVE IInv'
<1>1. pc = "running" /\ cache[r] # Closed /\ WriteBackCount(r)
  BY DEF CloseRel
<1>2. pc' = "running" /\ run' = run /\ UNCHANGED <<todo, file, copied>>
  BY <1>1 DEF CloseRel
<1>3. r \in Name /\ r \notin Catalogs /\ cache \in Cache /\ run \in Image
  BY <1>1, Running
<1>4. /\ mem' \in Image /\ cache' \in Cache /\ dirty' \in [Name -> BOOLEAN]
      /\ EntriesIn(mem', cache', dirty') /\ Current' = Current
      /\ cache' = [cache EXCEPT ![r] = Closed]
  BY <1>1, <1>3, WriteBackOk
<1>5. cache'["RELATIONCAT"] # Closed /\ cache'["ATTRIBUTECAT"] # Closed
  BY <1>1, <1>3, <1>4 DEF IInv, CacheAt, Cache, Catalogs
<1>6. Consistent(CurrentIn(mem', cache'))
  BY <1>1, <1>4, CurrentIs, Running
<1> QED BY <1>1, <1>2, <1>3, <1>4, <1>5, <1>6, RunningInv

\* One part of an image replaced.
LEMMA PutOk ==
  ASSUME NEW i \in Image, NEW j \in Image, NEW p \in Part
  PROVE  /\ Put(i, j, p) \in Image /\ Same(Put(i, j, p), j, p)
         /\ \A q \in Part : Same(i, j, q) => Same(Put(i, j, p), j, q)
<1>1. /\ p = "map" => p \notin Rel
      /\ p = "relcat" => p \notin Rel
      /\ p = "attrcat" => p \notin Rel
  BY SessionAssumption
<1>2. CASE p = "map"
  <2>1. Put(i, j, p) = [i EXCEPT !.map = j.map]
    BY <1>1, <1>2 DEF Put
  <2> QED BY <1>1, <1>2, <2>1, SessionAssumption DEF Same, Image, Part
<1>3. CASE p = "relcat"
  <2>1. Put(i, j, p) = [i EXCEPT !.relcat = j.relcat]
    BY <1>1, <1>3 DEF Put
  <2> QED BY <1>1, <1>3, <2>1, SessionAssumption DEF Same, Image, Part
<1>4. CASE p = "attrcat"
  <2>1. Put(i, j, p) = [i EXCEPT !.attrcat = j.attrcat]
    BY <1>1, <1>4 DEF Put
  <2> QED BY <1>1, <1>4, <2>1, SessionAssumption DEF Same, Image, Part
<1>5. CASE p \in Rel
  <2> DEFINE rows == [i.rows EXCEPT ![p] = j.rows[p]]
             k    == [map |-> i.map, relcat |-> i.relcat, attrcat |-> i.attrcat, rows |-> rows]
  <2>1. p # "map" /\ p # "relcat" /\ p # "attrcat"
    BY <1>1, <1>5
  <2>2. Put(i, j, p) = [i EXCEPT !.rows[p] = j.rows[p]]
    BY <1>5, <2>1 DEF Put
  <2>3. Put(i, j, p) = k
    BY <2>2 DEF Image
  <2>4. /\ rows \in [Rel -> Nat] /\ rows[p] = j.rows[p]
        /\ \A q \in Rel : i.rows[q] = j.rows[q] => rows[q] = j.rows[q]
    BY <1>5 DEF Image
  <2>5. k \in Image
    BY <2>4 DEF Image
  <2>6. Same(k, j, p)
    BY <1>5, <2>1, <2>4 DEF Same
  <2>7. ASSUME NEW q \in Part, Same(i, j, q) PROVE Same(k, j, q)
    BY <2>4, <2>7, SessionAssumption DEF Same, Part
  <2> HIDE DEF k
  <2> QED BY <2>3, <2>5, <2>6, <2>7
<1> QED BY <1>2, <1>3, <1>4, <1>5 DEF Part

\* A block that reaches the run copy early changes nothing a read returns.
LEMMA EvictInv == ASSUME IInv, NEW p \in Part, Evict(p) PROVE IInv'
<1>1. /\ pc \in {"running", "closing"}
      /\ UNCHANGED <<pc, cache, dirty, mem, todo, file, copied>>
      /\ run' = Put(run, mem, p)
  BY DEF Evict
<1>2. run' \in Image
  BY <1>1, PutOk DEF IInv, TypeOK
<1>3. Current' = Current
  BY <1>1, CurrentIs
<1> QED
  BY <1>1, <1>2, <1>3
  DEF IInv, TypeOK, CacheAt, Entries, Flushed, Copying, SessionConsistent, SavedConsistent

\* The destructors begin with the cache as the user left it.
LEMMA ExitInv == ASSUME IInv, Exit PROVE IInv'
<1>1. /\ pc = "running" /\ pc' = "closing"
      /\ UNCHANGED <<cache, dirty, mem, run, todo, file, copied>>
  BY DEF Exit
<1>2. Current' = Current
  BY <1>1, CurrentIs
<1> QED
  BY <1>1, <1>2
  DEF IInv, TypeOK, CacheAt, Entries, Flushed, Copying, SessionConsistent, SavedConsistent

\* ~OpenRelTable closes what is open, the catalogs last.
LEMMA CloseNextInv == ASSUME IInv, NEW x \in Name, CloseNext(x) PROVE IInv'
<1>1. /\ pc = "closing" /\ cache[x] # Closed /\ WriteBackCount(x)
      /\ UNCHANGED <<pc, run, todo, file, copied>>
  BY DEF CloseNext
<1>2. /\ mem' \in Image /\ cache' \in Cache /\ dirty' \in [Name -> BOOLEAN]
      /\ EntriesIn(mem', cache', dirty') /\ Current' = Current
  BY <1>1, WriteBackOk
<1> QED
  BY <1>1, <1>2
  DEF IInv, TypeOK, CacheAt, Entries, Flushed, Copying, SessionConsistent, SavedConsistent, Cache

\* ~StaticBuffer begins with everything in its blocks to write.
LEMMA BeginFlushInv == ASSUME IInv, BeginFlush PROVE IInv'
<1>1. /\ pc = "closing" /\ pc' = "flushing" /\ todo' = ToFlush
      /\ \A x \in Name : cache[x] = Closed
      /\ UNCHANGED <<cache, dirty, mem, run, file, copied>>
  BY DEF BeginFlush
<1>2. Current' = Current
  BY <1>1, CurrentIs
<1>3. ToFlush' = ToFlush /\ ToFlush \subseteq Part
  BY <1>1 DEF ToFlush, IInv, TypeOK, Image, Part
<1> QED
  BY <1>1, <1>2, <1>3
  DEF IInv, TypeOK, CacheAt, Entries, Flushed, Copying, SessionConsistent, SavedConsistent

\* What is written stays written.
LEMMA FlushPartInv == ASSUME IInv, NEW p \in Part, FlushPart(p) PROVE IInv'
<1>1. /\ pc = "flushing" /\ p \in todo /\ run' = Put(run, mem, p) /\ todo' = todo \ {p}
      /\ UNCHANGED <<pc, cache, dirty, mem, file, copied>>
  BY DEF FlushPart
<1>2. mem \in Image /\ run \in Image
  BY DEF IInv, TypeOK
<1>3. /\ run' \in Image /\ Same(run', mem, p)
      /\ \A q \in Part : Same(run, mem, q) => Same(run', mem, q)
  BY <1>1, <1>2, PutOk
<1>4. Current' = Current
  BY <1>1, CurrentIs
<1>5. ToFlush' = ToFlush /\ ToFlush \subseteq Part
  BY <1>1, <1>2 DEF ToFlush, Image, Part
<1>6. Flushed'
  <2> SUFFICES ASSUME NEW q \in ToFlush \ todo' PROVE Same(run', mem, q)
    BY <1>1, <1>5 DEF Flushed
  <2>1. CASE q = p
    BY <1>3, <2>1
  <2>2. CASE q # p
    <3>1. q \in ToFlush \ todo
      BY <1>1, <2>2
    <3>2. Same(run, mem, q)
      BY <1>1, <3>1 DEF IInv, Flushed
    <3> QED BY <1>3, <1>5, <3>2
  <2> QED BY <2>1, <2>2
<1> QED
  BY <1>1, <1>3, <1>4, <1>6
  DEF IInv, TypeOK, CacheAt, Entries, Copying, SessionConsistent, SavedConsistent

\* With every entry written back the counts are those of the catalog.
LEMMA AllClosed ==
  ASSUME IInv, \A x \in Name : cache[x] = Closed
  PROVE  Current = mem
<1>1. mem \in Image /\ cache \in Cache
  BY DEF IInv, TypeOK, Cache
<1>2. /\ CurrentIn(mem, cache) \in Image
      /\ CurrentIn(mem, cache).map = mem.map
      /\ CurrentIn(mem, cache).attrcat = mem.attrcat
      /\ CurrentIn(mem, cache).rows = mem.rows
      /\ CurrentIn(mem, cache).relcat = [x \in Name |-> CountIn(mem, cache, x)]
  BY <1>1, CurrentFields
<1>3. [x \in Name |-> CountIn(mem, cache, x)] = mem.relcat
  BY <1>1 DEF CountIn, Image
<1> QED BY <1>1, <1>2, <1>3, CurrentIs DEF Image

\* What ~StaticBuffer leaves in the run copy: all that the map owns.
LEMMA RunAfterFlush ==
  ASSUME IInv, pc = "flushing", todo = {}
  PROVE  Consistent(run) /\ run.relcat = mem.relcat
<1>1. Consistent(mem)
  BY AllClosed DEF IInv, CacheAt, SessionConsistent
<1>2. \A p \in ToFlush : Same(run, mem, p)
  BY DEF IInv, Flushed
<1>3. /\ run.map = mem.map /\ run.relcat = mem.relcat /\ run.attrcat = mem.attrcat
  <2>1. Same(run, mem, "map") /\ Same(run, mem, "relcat") /\ Same(run, mem, "attrcat")
    BY <1>2 DEF ToFlush
  <2>2. "map" \notin Rel /\ "relcat" \notin Rel /\ "attrcat" \notin Rel
    BY SessionAssumption
  <2> QED BY <2>1, <2>2 DEF Same
<1>4. \A r \in mem.map : run.rows[r] = mem.rows[r]
  <2> SUFFICES ASSUME NEW r \in mem.map PROVE run.rows[r] = mem.rows[r]
    OBVIOUS
  <2>1. r \in Rel /\ r # "map" /\ r # "relcat" /\ r # "attrcat"
    BY SessionAssumption DEF IInv, TypeOK, Image
  <2>2. Same(run, mem, r)
    BY <1>2 DEF ToFlush
  <2> QED BY <2>1, <2>2 DEF Same
<1>5. \A r \in Rel : Rows(run, r) = Rows(mem, r)
  BY <1>3, <1>4 DEF Rows
<1>6. Present(run) = Present(mem)
  BY <1>3 DEF Present
<1> QED BY <1>1, <1>3, <1>5, <1>6 DEF Consistent

\* ~Disk begins with a run copy that is consistent.
LEMMA BeginCopyInv == ASSUME IInv, BeginCopy PROVE IInv'
<1>1. /\ pc = "flushing" /\ todo = {} /\ pc' = "copying" /\ file' = run /\ copied' = {}
      /\ UNCHANGED <<cache, dirty, mem, run, todo>>
  BY DEF BeginCopy
<1>2. Consistent(run)
  BY <1>1, RunAfterFlush
<1>3. \A x \in Name : cache[x] = Closed
  BY <1>1 DEF IInv, CacheAt
<1> QED
  BY <1>1, <1>2, <1>3
  DEF IInv, TypeOK, CacheAt, Entries, Flushed, Copying, SessionConsistent, SavedConsistent, Part

\* The copy does not change what is copied.
LEMMA CopyPartInv == ASSUME IInv, NEW p \in Part, CopyPart(p) PROVE IInv'
<1>1. /\ pc = "copying" /\ copied' = copied \cup {p}
      /\ UNCHANGED <<pc, cache, dirty, mem, run, todo, file>>
  BY DEF CopyPart
<1>2. file = run /\ Consistent(run)
  BY <1>1 DEF IInv, Copying
<1> QED
  BY <1>1, <1>2
  DEF IInv, TypeOK, CacheAt, Entries, Flushed, Copying, SessionConsistent, SavedConsistent

\* The copied file is the run copy.
LEMMA EndSessionInv == ASSUME IInv, EndSession PROVE IInv'
<1>1. /\ pc = "copying" /\ copied = Part /\ pc' = "down" /\ mem' = run
      /\ UNCHANGED <<cache, dirty, run, todo, file, copied>>
  BY DEF EndSession
<1>2. \A x \in Name : cache[x] = Closed
  BY <1>1 DEF IInv, CacheAt
<1>3. Entries'
  BY <1>1, <1>2 DEF Entries, EntriesIn
<1> QED
  BY <1>1, <1>2, <1>3
  DEF IInv, TypeOK, CacheAt, Flushed, Copying, SessionConsistent, SavedConsistent

\* A process killed before the copy leaves the disk file as it was.
LEMMA CrashInv == ASSUME KillsBeforeCopy, IInv, Crash PROVE IInv'
<1>1. /\ pc \in {"running", "closing", "flushing"} /\ pc' = "crashed" /\ mem' = run
      /\ cache' = [x \in Name |-> Closed] /\ dirty' = [x \in Name |-> FALSE]
      /\ todo' = {} /\ UNCHANGED <<run, file, copied>>
  BY DEF Crash, KillsBeforeCopy
<1>2. Entries' /\ CacheAt'
  BY <1>1 DEF Entries, EntriesIn, CacheAt
<1>3. copied = Part
  BY <1>1 DEF IInv, Copying
<1> QED
  BY <1>1, <1>2, <1>3
  DEF IInv, TypeOK, Flushed, Copying, SessionConsistent, SavedConsistent

\* The constructors: the counts in the cache are those of the disk file.
LEMMA StartCurrent == ASSUME IInv, StartSession PROVE Current' = file /\ Consistent(file)
<1>1. /\ pc \in {"down", "crashed"} /\ mem' = file
      /\ cache' = [x \in Name |-> IF x \in Catalogs THEN file.relcat[x] ELSE Closed]
  BY DEF StartSession
<1>2. file \in Image /\ Consistent(file)
  BY <1>1 DEF IInv, TypeOK, Copying, SavedConsistent
<1>3. \A x \in Catalogs : file.relcat[x] \in Nat
  BY <1>2 DEF Consistent, Present, Image
<1>4. cache' \in Cache
  BY <1>1, <1>3 DEF Cache
<1>5. /\ CurrentIn(file, cache') \in Image
      /\ CurrentIn(file, cache').map = file.map
      /\ CurrentIn(file, cache').attrcat = file.attrcat
      /\ CurrentIn(file, cache').rows = file.rows
      /\ CurrentIn(file, cache').relcat = [x \in Name |-> CountIn(file, cache', x)]
  BY <1>2, <1>4, CurrentFields
<1>6. [x \in Name |-> CountIn(file, cache', x)] = file.relcat
  BY <1>1, <1>2 DEF CountIn, Image
<1>7. CurrentIn(file, cache') = file
  BY <1>2, <1>5, <1>6 DEF Image
<1> QED BY <1>1, <1>2, <1>7, CurrentIs

\* A session begins consistent, whatever the dirty flags of the catalogs are.
LEMMA StartSessionInv == ASSUME IInv, StartSession PROVE IInv'
<1>1. /\ pc \in {"down", "crashed"} /\ pc' = "running" /\ run' = file /\ mem' = file
      /\ cache' = [x \in Name |-> IF x \in Catalogs THEN file.relcat[x] ELSE Closed]
      /\ UNCHANGED <<todo, file, copied>>
  BY DEF StartSession
<1>2. PICK dcat \in [Catalogs -> BOOLEAN] :
        dirty' = [x \in Name |-> x \in Catalogs /\ dcat[x]]
  BY DEF StartSession
<1>3. Current' = file /\ Consistent(file) /\ file \in Image
  BY StartCurrent DEF IInv, TypeOK
<1>4. \A x \in Catalogs : file.relcat[x] \in Nat /\ x \in Name
  BY <1>3 DEF Consistent, Present, Image
<1>5. cache' \in [Name -> Nat \cup {Closed}] /\ dirty' \in [Name -> BOOLEAN]
  BY <1>1, <1>2, <1>4
<1>6. CacheAt' /\ Entries'
  BY <1>1, <1>4, SessionAssumption DEF CacheAt, Entries, EntriesIn, Catalogs
<1>7. copied = Part
  BY <1>1 DEF IInv, Copying
<1>8. TypeOK'
  BY <1>1, <1>3, <1>5, <1>7 DEF IInv, TypeOK
<1> QED
  BY <1>1, <1>3, <1>6, <1>7, <1>8
  DEF IInv, Flushed, Copying, SessionConsistent, SavedConsistent

\* Nothing happens.
LEMMA StutterInv == ASSUME IInv, UNCHANGED vars PROVE IInv'
<1>1. UNCHANGED <<pc, cache, dirty, mem, run, todo, file, copied>>
  BY DEF vars
<1>2. Current' = Current
  BY <1>1, CurrentIs
<1>3. ToFlush' = ToFlush
  BY <1>1 DEF ToFlush
<1> QED
  BY <1>1, <1>2, <1>3
  DEF IInv, TypeOK, CacheAt, Entries, Flushed, Copying, SessionConsistent, SavedConsistent

\* Every step keeps the invariant.
LEMMA StepInv == ASSUME KillsBeforeCopy PROVE IInv /\ [Next]_vars => IInv'
<1> SUFFICES ASSUME IInv, [Next]_vars PROVE IInv'
  OBVIOUS
<1>1. CASE StartSession
  BY <1>1, StartSessionInv
<1>2. CASE Exit
  BY <1>2, ExitInv
<1>3. CASE Crash
  BY <1>3, CrashInv
<1>4. ASSUME NEW x \in Name, CloseNext(x) PROVE IInv'
  BY <1>4, CloseNextInv
<1>5. CASE BeginFlush
  BY <1>5, BeginFlushInv
<1>6. CASE BeginCopy
  BY <1>6, BeginCopyInv
<1>7. CASE EndSession
  BY <1>7, EndSessionInv
<1>8. ASSUME NEW p \in Part, FlushPart(p) PROVE IInv'
  BY <1>8, FlushPartInv
<1>9. ASSUME NEW p \in Part, CopyPart(p) PROVE IInv'
  BY <1>9, CopyPartInv
<1>10. ASSUME NEW r \in Rel, OpenRel(r) PROVE IInv'
  BY <1>10, OpenRelInv
<1>11. ASSUME NEW r \in Rel, Insert(r) PROVE IInv'
  BY <1>11, InsertInv
<1>12. ASSUME NEW r \in Rel, CloseRel(r) PROVE IInv'
  BY <1>12, CloseRelInv
<1>13. ASSUME NEW r \in Rel, CreateRel(r) PROVE IInv'
  BY <1>13, CreateRelInv
<1>14. ASSUME NEW r \in Rel, DeleteRel(r) PROVE IInv'
  BY <1>14, DeleteRelInv
<1>15. ASSUME NEW p \in Part, Evict(p) PROVE IInv'
  BY <1>15, EvictInv
<1>16. CASE UNCHANGED vars
  BY <1>16, StutterInv
<1> QED
  BY <1>1, <1>2, <1>3, <1>4, <1>5, <1>6, <1>7, <1>8, <1>9, <1>10, <1>11, <1>12, <1>13,
     <1>14, <1>15, <1>16
  DEF Next, Destructors

\* The invariant holds in every session, after any number of crashes.
THEOREM Invariance == ASSUME KillsBeforeCopy PROVE Spec => []IInv
<1>1. Init => IInv
  BY InitInv
<1>2. IInv /\ [Next]_vars => IInv'
  BY StepInv
<1> QED BY <1>1, <1>2, PTL DEF Spec

-----------------------------------------------------------------------------
(* The safety properties.                                                  *)

\* Every variable keeps its type; the disk file is incomplete only during the
\* final copy.
THEOREM TypeCorrect == ASSUME KillsBeforeCopy PROVE Spec => []TypeOK
<1>1. IInv => TypeOK
  BY DEF IInv
<1> QED BY <1>1, Invariance, PTL

\* During a session the catalogs, with the counts that only the cache knows,
\* describe the blocks.
THEOREM CatalogsDescribe == ASSUME KillsBeforeCopy PROVE Spec => []SessionConsistent
<1>1. IInv => SessionConsistent
  BY DEF IInv
<1> QED BY <1>1, Invariance, PTL

\* The disk file holds a consistent database, whenever sessions were killed.
THEOREM SavedCorrect == ASSUME KillsBeforeCopy PROVE Spec => []SavedConsistent
<1>1. IInv => SavedConsistent
  BY DEF IInv
<1> QED BY <1>1, Invariance, PTL

-----------------------------------------------------------------------------
(* A session saves all of its changes or none.                             *)

Status == CASE pc = "down"     -> "off"
            [] pc = "crashed"  -> "crashed"
            [] pc = "copying"  -> "saved"
            [] OTHER           -> "on"
Working == IF pc \in {"running", "closing", "flushing"} THEN View(Current) ELSE SavedView

\* a step that SessionStore allows
StoreStep ==
  \/ /\ Status \in {"off", "crashed"} /\ Status' = "on"
     /\ Working' = Working /\ SavedView' = SavedView
  \/ /\ Status = "on" /\ Status' = "saved" /\ SavedView' = Working /\ Working' = Working
  \/ /\ Status = "saved" /\ Status' = "off"
     /\ Working' = Working /\ SavedView' = SavedView
  \/ /\ Status \in {"on", "saved"} /\ Status' = "crashed"
     /\ Working' = SavedView /\ SavedView' = SavedView
  \/ \E r \in Rel :
       /\ Status = "on"
       /\ \/ Working[r] = Absent /\ Working' = [Working EXCEPT ![r] = 0]
          \/ Working[r] # Absent /\ Working' = [Working EXCEPT ![r] = Absent]
          \/ Working[r] # Absent /\ Working' = [Working EXCEPT ![r] = @ + 1]
       /\ Status' = Status /\ SavedView' = SavedView

Stutter == Status' = Status /\ Working' = Working /\ SavedView' = SavedView

\* The disk of any database is one the store may begin with.
LEMMA InitRefines == Init => Store!Init
<1> SUFFICES ASSUME Init PROVE Store!Init
  OBVIOUS
<1>1. pc = "down"
  BY DEF Init
<1>2. file \in Image
  BY InitInv DEF IInv, TypeOK
<1>3. View(file) \in [Rel -> Nat \cup {Absent}]
  BY <1>2 DEF View, Image, Name
<1> QED BY <1>1, <1>3 DEF Store!Init, Store!Database, SavedView

\* What the user sees while main is at some point.
LEMMA StatusIs ==
  /\ pc \in {"running", "closing", "flushing"} =>
       Status = "on" /\ Working = View(Current) /\ SavedView = View(file)
  /\ pc = "copying" => Status = "saved" /\ Working = View(run) /\ SavedView = View(run)
  /\ pc = "down" => Status = "off" /\ Working = View(file) /\ SavedView = View(file)
  /\ pc = "crashed" => Status = "crashed" /\ Working = View(file) /\ SavedView = View(file)
BY DEF Status, Working, SavedView

\* The same, after a step.
LEMMA StatusNext ==
  /\ pc' \in {"running", "closing", "flushing"} =>
       Status' = "on" /\ Working' = View(Current)' /\ SavedView' = View(file)'
  /\ pc' = "copying" => Status' = "saved" /\ Working' = View(run)' /\ SavedView' = View(run)'
  /\ pc' = "down" => Status' = "off" /\ Working' = View(file)' /\ SavedView' = View(file)'
  /\ pc' = "crashed" =>
       Status' = "crashed" /\ Working' = View(file)' /\ SavedView' = View(file)'
BY DEF Status, Working, SavedView

\* The view of the blocks with every entry written back.
LEMMA ViewCurrent ==
  ASSUME NEW m \in Image, NEW c \in Cache
  PROVE  View(CurrentIn(m, c)) = [r \in Rel |-> CountIn(m, c, r)]
<1>1. CurrentIn(m, c).relcat = [x \in Name |-> CountIn(m, c, x)]
  BY CurrentFields
<1> QED BY <1>1 DEF View, Name

\* A step of the user changes the count of one relation.
LEMMA UserStep ==
  ASSUME IInv, IInv', pc = "running", UNCHANGED <<pc, file>>, NEW r \in Rel,
         \A s \in Rel \ {r} : CountIn(mem', cache', s) = CountIn(mem, cache, s)
  PROVE  /\ Status = "on" /\ Status' = "on" /\ SavedView' = SavedView
         /\ Working = [s \in Rel |-> CountIn(mem, cache, s)]
         /\ Working' = [Working EXCEPT ![r] = CountIn(mem', cache', r)]
<1>1. mem \in Image /\ mem' \in Image /\ cache \in Cache /\ cache' \in Cache
  BY DEF IInv, TypeOK, Cache
<1>2. Working = [s \in Rel |-> CountIn(mem, cache, s)]
  BY <1>1, StatusIs, ViewCurrent, CurrentIs
<1>3. Working' = [s \in Rel |-> CountIn(mem', cache', s)]
  <2>1. View(CurrentIn(mem', cache')) = [s \in Rel |-> CountIn(mem', cache', s)]
    BY <1>1, ViewCurrent
  <2>2. Working' = View(Current)'
    BY StatusNext
  <2> QED BY <2>1, <2>2, CurrentIs DEF View
<1>4. Status = "on" /\ Status' = "on" /\ SavedView' = SavedView
  BY StatusIs, StatusNext DEF View
<1> QED BY <1>2, <1>3, <1>4

\* A step that leaves the blocks, with every entry written back, as they are.
LEMMA QuietStep ==
  ASSUME pc \in {"running", "closing", "flushing"},
         pc' \in {"running", "closing", "flushing"},
         file' = file, Current' = Current
  PROVE  Stutter
<1>1. View(Current)' = View(Current) /\ View(file)' = View(file)
  BY DEF View
<1> QED BY <1>1, StatusIs, StatusNext DEF Stutter

\* A record more is an increment of the count.
LEMMA InsertRefines == ASSUME IInv, IInv', NEW r \in Rel, Insert(r) PROVE StoreStep
<1>1. pc = "running" /\ cache[r] # Closed /\ UNCHANGED <<pc, file>>
  BY DEF Insert
<1>2. mem \in Image /\ cache \in Cache /\ \A s \in Rel : s \in Name
  BY <1>1, Running
<1>3. cache' = [cache EXCEPT ![r] = cache[r] + 1]
  BY DEF Insert, SetCount
<1>4. mem'.relcat = mem.relcat
  <2>1. mem' = [mem EXCEPT !.map = @ \cup {r}, !.rows[r] = Rows(mem, r) + 1]
    BY DEF Insert
  <2> QED BY <1>2, <2>1 DEF Image
<1>5. cache[r] \in Nat /\ cache[r] # Absent
  BY <1>1, <1>2, SessionAssumption DEF Cache
<1>6. \A s \in Rel \ {r} : CountIn(mem', cache', s) = CountIn(mem, cache, s)
  BY <1>2, <1>3, <1>4 DEF CountIn, Cache
<1>7. CountIn(mem, cache, r) = cache[r] /\ CountIn(mem', cache', r) = cache[r] + 1
  BY <1>1, <1>2, <1>3, <1>5, SessionAssumption DEF CountIn, Cache
<1>8. /\ Status = "on" /\ Status' = "on" /\ SavedView' = SavedView
      /\ Working = [s \in Rel |-> CountIn(mem, cache, s)]
      /\ Working' = [Working EXCEPT ![r] = CountIn(mem', cache', r)]
  BY <1>1, <1>6, UserStep
<1>9. Working[r] # Absent /\ Working' = [Working EXCEPT ![r] = @ + 1]
  BY <1>5, <1>7, <1>8
<1> QED BY <1>8, <1>9 DEF StoreStep

\* A relation that comes has no records.
LEMMA CreateRelRefines == ASSUME IInv, IInv', NEW r \in Rel, CreateRel(r) PROVE StoreStep
<1>1. /\ pc = "running" /\ mem.relcat[r] = Absent /\ UNCHANGED <<pc, file>>
      /\ SetCatalogCounts(1, NumAttrs[r])
  BY DEF CreateRel
<1>2. mem \in Image /\ cache \in Cache /\ \A s \in Rel : s \in Name /\ s \notin Catalogs
  BY <1>1, Running
<1>3. cache[r] = Closed
  BY <1>1, <1>2 DEF IInv, Entries, EntriesIn
<1>4. cache' = [cache EXCEPT !["RELATIONCAT"] = @ + 1, !["ATTRIBUTECAT"] = @ + NumAttrs[r]]
  BY <1>1 DEF SetCatalogCounts
<1>5. \A s \in Rel : cache'[s] = cache[s]
  BY <1>2, <1>4 DEF Cache, Catalogs
<1>6. mem'.relcat = [mem.relcat EXCEPT ![r] = 0]
  <2>1. mem' = [mem EXCEPT !.relcat[r] = 0, !.attrcat = @ \cup Attrs(r)]
    BY DEF CreateRel
  <2> QED BY <1>2, <2>1 DEF Image
<1>7. mem'.relcat[r] = 0 /\ \A s \in Rel \ {r} : mem'.relcat[s] = mem.relcat[s]
  BY <1>2, <1>6 DEF Image
<1>8. \A s \in Rel \ {r} : CountIn(mem', cache', s) = CountIn(mem, cache, s)
  BY <1>5, <1>7 DEF CountIn
<1>9. CountIn(mem, cache, r) = Absent /\ CountIn(mem', cache', r) = 0
  BY <1>1, <1>3, <1>5, <1>7 DEF CountIn
<1>10. /\ Status = "on" /\ Status' = "on" /\ SavedView' = SavedView
       /\ Working = [s \in Rel |-> CountIn(mem, cache, s)]
       /\ Working' = [Working EXCEPT ![r] = CountIn(mem', cache', r)]
  BY <1>1, <1>8, UserStep
<1>11. Working[r] = Absent /\ Working' = [Working EXCEPT ![r] = 0]
  BY <1>9, <1>10
<1> QED BY <1>10, <1>11 DEF StoreStep

\* A relation that goes leaves nothing.
LEMMA DeleteRelRefines == ASSUME IInv, IInv', NEW r \in Rel, DeleteRel(r) PROVE StoreStep
<1> DEFINE k == -Cardinality({a \in mem.attrcat : a[1] = r})
<1>1. /\ pc = "running" /\ cache[r] = Closed /\ mem.relcat[r] # Absent
      /\ UNCHANGED <<pc, file>> /\ SetCatalogCounts(-1, k)
  BY DEF DeleteRel
<1>2. mem \in Image /\ cache \in Cache /\ \A s \in Rel : s \in Name /\ s \notin Catalogs
  BY <1>1, Running
<1>3. mem'.relcat = [mem.relcat EXCEPT ![r] = Absent]
  <2>1. mem' = [mem EXCEPT !.map = @ \ {r}, !.relcat[r] = Absent, !.rows[r] = 0,
                           !.attrcat = {a \in @ : a[1] # r}]
    BY DEF DeleteRel
  <2> QED BY <1>2, <2>1 DEF Image
<1> HIDE DEF k
<1>4. cache' = [cache EXCEPT !["RELATIONCAT"] = @ + (-1), !["ATTRIBUTECAT"] = @ + k]
  BY <1>1 DEF SetCatalogCounts
<1>5. \A s \in Rel : cache'[s] = cache[s]
  BY <1>2, <1>4 DEF Cache, Catalogs
<1>6. mem'.relcat[r] = Absent /\ \A s \in Rel \ {r} : mem'.relcat[s] = mem.relcat[s]
  BY <1>2, <1>3 DEF Image
<1>7. \A s \in Rel \ {r} : CountIn(mem', cache', s) = CountIn(mem, cache, s)
  BY <1>5, <1>6 DEF CountIn
<1>8. CountIn(mem, cache, r) # Absent /\ CountIn(mem', cache', r) = Absent
  BY <1>1, <1>5, <1>6 DEF CountIn
<1>9. /\ Status = "on" /\ Status' = "on" /\ SavedView' = SavedView
      /\ Working = [s \in Rel |-> CountIn(mem, cache, s)]
      /\ Working' = [Working EXCEPT ![r] = CountIn(mem', cache', r)]
  BY <1>1, <1>7, UserStep
<1>10. Working[r] # Absent /\ Working' = [Working EXCEPT ![r] = Absent]
  BY <1>8, <1>9
<1> QED BY <1>9, <1>10 DEF StoreStep

\* openRel brings the count of the catalog into the cache.
LEMMA OpenRelRefines == ASSUME IInv, IInv', NEW r \in Rel, OpenRel(r) PROVE Stutter
<1>1. /\ pc = "running" /\ cache[r] = Closed /\ UNCHANGED <<pc, mem, file>>
      /\ cache' = [cache EXCEPT ![r] = mem.relcat[r]]
  BY DEF OpenRel
<1>2. mem \in Image /\ cache \in Cache /\ cache' \in Cache
  BY DEF IInv, TypeOK, Cache
<1>3. \A y \in Name : CountIn(mem, cache', y) = CountIn(mem, cache, y)
  BY <1>1, <1>2 DEF CountIn, Cache
<1>4. CurrentIn(mem, cache') = CurrentIn(mem, cache)
  BY <1>2, <1>3, CurrentSame
<1>5. Current' = Current
  BY <1>1, <1>4, CurrentIs
<1> QED BY <1>1, <1>5, QuietStep

\* ~Disk saves what the session ended with.
LEMMA BeginCopyRefines == ASSUME IInv, BeginCopy PROVE StoreStep
<1>1. /\ pc = "flushing" /\ todo = {} /\ pc' = "copying" /\ file' = run /\ run' = run
  BY DEF BeginCopy
<1>2. Current = mem
  BY <1>1, AllClosed DEF IInv, CacheAt
<1>3. run.relcat = mem.relcat
  BY <1>1, RunAfterFlush
<1>4. View(run)' = View(Current)
  BY <1>1, <1>2, <1>3 DEF View
<1>5. Status = "on" /\ Working = View(Current)
  BY <1>1, StatusIs
<1>6. Status' = "saved" /\ Working' = View(run)' /\ SavedView' = View(run)'
  BY <1>1, StatusNext
<1> QED BY <1>4, <1>5, <1>6 DEF StoreStep

\* A session starts from what is on the disk file.
LEMMA StartSessionRefines == ASSUME IInv, StartSession PROVE StoreStep
<1>1. pc \in {"down", "crashed"} /\ pc' = "running" /\ file' = file
  BY DEF StartSession
<1>2. View(Current)' = View(file) /\ View(file)' = View(file)
  BY <1>1, StartCurrent DEF View
<1>3. Status \in {"off", "crashed"} /\ Working = View(file) /\ SavedView = View(file)
  BY <1>1, StatusIs
<1>4. Status' = "on" /\ Working' = View(Current)' /\ SavedView' = View(file)'
  BY <1>1, StatusNext
<1> QED BY <1>2, <1>3, <1>4 DEF StoreStep

\* The copy is complete: the disk file is what was saved.
LEMMA EndSessionRefines == ASSUME IInv, EndSession PROVE StoreStep
<1>1. pc = "copying" /\ pc' = "down" /\ file' = file
  BY DEF EndSession
<1>2. file = run
  BY <1>1 DEF IInv, Copying
<1>3. View(file)' = View(run)
  BY <1>1, <1>2 DEF View
<1>4. Status = "saved" /\ Working = View(run) /\ SavedView = View(run)
  BY <1>1, StatusIs
<1>5. Status' = "off" /\ Working' = View(file)' /\ SavedView' = View(file)'
  BY <1>1, StatusNext
<1> QED BY <1>3, <1>4, <1>5 DEF StoreStep

\* A session that is killed before the copy saves nothing.
LEMMA CrashRefines == ASSUME KillsBeforeCopy, Crash PROVE StoreStep
<1>1. pc \in {"running", "closing", "flushing"} /\ pc' = "crashed" /\ file' = file
  BY DEF Crash, KillsBeforeCopy
<1>2. View(file)' = View(file)
  BY <1>1 DEF View
<1>3. Status = "on" /\ SavedView = View(file)
  BY <1>1, StatusIs
<1>4. Status' = "crashed" /\ Working' = View(file)' /\ SavedView' = View(file)'
  BY <1>1, StatusNext
<1> QED BY <1>2, <1>3, <1>4 DEF StoreStep

\* While ~Disk copies the user sees what was saved.
LEMMA CopyStutters ==
  ASSUME pc = "copying", pc' = "copying", UNCHANGED run
  PROVE  Stutter
<1>1. View(run)' = View(run)
  BY DEF View
<1> QED BY <1>1, StatusIs, StatusNext DEF Stutter

\* A step that changes nothing.
LEMMA IdleStutters == ASSUME UNCHANGED vars PROVE Stutter
<1>1. UNCHANGED <<pc, cache, dirty, mem, run, todo, file, copied>>
  BY DEF vars
<1>2. Current' = Current
  BY <1>1, CurrentIs
<1>3. Status' = Status
  BY <1>1 DEF Status
<1>4. SavedView' = SavedView
  BY <1>1 DEF SavedView, View
<1>5. Working' = Working
  BY <1>1, <1>2, <1>4 DEF Working, View
<1> QED BY <1>3, <1>4, <1>5 DEF Stutter

\* Every step is one of the user's view or leaves it alone.
LEMMA StepRefines ==
  ASSUME KillsBeforeCopy, IInv, IInv', [Next]_vars PROVE StoreStep \/ Stutter
<1>1. CASE StartSession
  BY <1>1, StartSessionRefines
<1>2. CASE Exit
  <2>1. pc = "running" /\ pc' = "closing" /\ UNCHANGED <<cache, mem, file>>
    BY <1>2 DEF Exit
  <2> QED BY <2>1, CurrentIs, QuietStep
<1>3. CASE Crash
  BY <1>3, CrashRefines
<1>4. ASSUME NEW x \in Name, CloseNext(x) PROVE Stutter
  <2>1. /\ pc = "closing" /\ cache[x] # Closed /\ WriteBackCount(x)
        /\ UNCHANGED <<pc, file>>
    BY <1>4 DEF CloseNext
  <2>2. Current' = Current
    BY <2>1, WriteBackOk
  <2> QED BY <2>1, <2>2, QuietStep
<1>5. CASE BeginFlush
  <2>1. pc = "closing" /\ pc' = "flushing" /\ UNCHANGED <<cache, mem, file>>
    BY <1>5 DEF BeginFlush
  <2> QED BY <2>1, CurrentIs, QuietStep
<1>6. CASE BeginCopy
  BY <1>6, BeginCopyRefines
<1>7. CASE EndSession
  BY <1>7, EndSessionRefines
<1>8. ASSUME NEW p \in Part, FlushPart(p) PROVE Stutter
  <2>1. pc = "flushing" /\ UNCHANGED <<pc, cache, mem, file>>
    BY <1>8 DEF FlushPart
  <2> QED BY <2>1, CurrentIs, QuietStep
<1>9. ASSUME NEW p \in Part, CopyPart(p) PROVE Stutter
  <2>1. pc = "copying" /\ pc' = "copying" /\ UNCHANGED run
    BY <1>9 DEF CopyPart
  <2> QED BY <2>1, CopyStutters
<1>10. ASSUME NEW r \in Rel, OpenRel(r) PROVE Stutter
  BY <1>10, OpenRelRefines
<1>11. ASSUME NEW r \in Rel, Insert(r) PROVE StoreStep
  BY <1>11, InsertRefines
<1>12. ASSUME NEW r \in Rel, CloseRel(r) PROVE Stutter
  <2>1. /\ pc = "running" /\ cache[r] # Closed /\ WriteBackCount(r)
        /\ UNCHANGED <<pc, file>> /\ r \in Name
    BY <1>12 DEF CloseRel, Name
  <2>2. Current' = Current
    BY <2>1, WriteBackOk
  <2> QED BY <2>1, <2>2, QuietStep
<1>13. ASSUME NEW r \in Rel, CreateRel(r) PROVE StoreStep
  BY <1>13, CreateRelRefines
<1>14. ASSUME NEW r \in Rel, DeleteRel(r) PROVE StoreStep
  BY <1>14, DeleteRelRefines
<1>15. ASSUME NEW p \in Part, Evict(p) PROVE Stutter
  <2>1. pc \in {"running", "closing"} /\ UNCHANGED <<pc, cache, mem, file>>
    BY <1>15 DEF Evict
  <2> QED BY <2>1, CurrentIs, QuietStep
<1>16. CASE UNCHANGED vars
  BY <1>16, IdleStutters
<1> QED
  BY <1>1, <1>2, <1>3, <1>4, <1>5, <1>6, <1>7, <1>8, <1>9, <1>10, <1>11, <1>12, <1>13,
     <1>14, <1>15, <1>16
  DEF Next, Destructors

\* The steps above are those of SessionStore.
LEMMA StoreNext == StoreStep \/ Stutter => [Store!Next]_(Store!storeVars)
<1>1. Stutter => UNCHANGED Store!storeVars
  BY DEF Stutter, Status, Working, Store!storeVars
<1>2. StoreStep => Store!Next
  BY DEF StoreStep, Status, Working, Store!Next, Store!Start, Store!Save, Store!Quit,
     Store!Crash, Store!Change
<1> QED BY <1>1, <1>2

\* A session commits all of its changes when it ends, those that lived only in
\* the cache or the buffer too, or none of them.
THEOREM Refinement == ASSUME KillsBeforeCopy PROVE Spec => ImplementsSessionStore
<1>1. Init => Store!Init
  BY InitRefines
<1>2. IInv /\ IInv' /\ [Next]_vars => [Store!Next]_(Store!storeVars)
  BY StepRefines, StoreNext
<1> QED BY <1>1, <1>2, Invariance, PTL DEF Spec, ImplementsSessionStore, Store!Spec
=============================================================================
