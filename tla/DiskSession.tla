---------------------------- MODULE DiskSession -----------------------------
(***************************************************************************)
(* One session after another on the same disk file (main.cpp).  The        *)
(* constructors copy the disk file to the run copy and read the catalogs   *)
(* into the cache; the destructors, in the opposite order, write the cache *)
(* to the buffer, the buffer to the run copy and the run copy over the     *)
(* disk file.  The record count of an open relation lives in the cache,    *)
(* that of a closed one in the relation catalog.  The buffer is the block  *)
(* store of StaticBuffer: mem is what a read returns, an eviction writes   *)
(* one block back early.  The record blocks of a relation are one part.    *)
(***************************************************************************)
EXTENDS Integers, FiniteSets

CONSTANTS
  Rel,           \* names of user relations
  NumAttrs,      \* NumAttrs[r]: number of attributes of r
  Absent,        \* catalog count of a relation that does not exist
  Closed,        \* cache entry of a relation that is not open
  MAX_OPEN,      \* slots of the open relation table
  CrashPoints,   \* values of pc at which the process may be killed
  MaxRecs        \* bound: records in a relation

Catalogs == {"RELATIONCAT", "ATTRIBUTECAT"}
Name     == Catalogs \cup Rel
Part     == {"map", "relcat", "attrcat"} \cup Rel

ASSUME SessionAssumption ==
  /\ IsFiniteSet(Rel) /\ Rel \cap {"map", "relcat", "attrcat"} = {}
  /\ Rel \cap Catalogs = {}
  /\ NumAttrs \in [Rel -> Nat \ {0}]
  /\ Absent \notin Nat /\ Closed \notin Nat
  /\ MAX_OPEN \in Nat /\ MaxRecs \in Nat

VARIABLES
  pc,       \* where main is: "down", "running", the destructors, "crashed"
  cache,    \* cache[x]: numRecs in the relation cache, or Closed
  dirty,    \* dirty[x]: the dirty flag of that entry
  mem,      \* the blocks as a read through the buffer returns them
  run,      \* the blocks in the run copy
  todo,     \* parts ~StaticBuffer has still to write
  file,     \* the blocks in the disk file ...
  copied    \* ... as far as this set of parts; all but during ~Disk

vars == <<pc, cache, dirty, mem, run, todo, file, copied>>

CATALOG_ATTRS == 12   \* attributes of the two catalogs themselves

\* map: relations with record blocks; relcat: the counts in the relation
\* catalog; attrcat: the attribute catalog's records for user relations; rows:
\* the number of records in the record blocks of each relation
Image == [map : SUBSET Rel, relcat : [Name -> Nat \cup {Absent}],
          attrcat : SUBSET (Rel \X Nat), rows : [Rel -> Nat]]

Attrs(r)   == {r} \X (1 .. NumAttrs[r])
Present(i) == {x \in Name : i.relcat[x] # Absent}
Rows(i, r) == IF r \in i.map THEN i.rows[r] ELSE 0

\* part p of image i replaced by that of image j
Put(i, j, p) ==
  CASE p = "map"     -> [i EXCEPT !.map = j.map]
    [] p = "relcat"  -> [i EXCEPT !.relcat = j.relcat]
    [] p = "attrcat" -> [i EXCEPT !.attrcat = j.attrcat]
    [] p \in Rel     -> [i EXCEPT !.rows[p] = j.rows[p]]

\* the catalogs describe what the blocks hold
Consistent(i) ==
  /\ Catalogs \subseteq Present(i)
  /\ i.relcat["RELATIONCAT"] = Cardinality(Present(i))
  /\ i.relcat["ATTRIBUTECAT"] = CATALOG_ATTRS + Cardinality(i.attrcat)
  /\ i.attrcat = UNION {Attrs(r) : r \in Present(i) \cap Rel}
  /\ i.map \subseteq Present(i)
  /\ \A r \in Rel \cap Present(i) : i.relcat[r] = Rows(i, r)

Opened == {r \in Rel : cache[r] # Closed}

\* setRelCatEntry: the count of x becomes n and the entry dirty
SetCount(x, n) ==
  /\ cache' = [cache EXCEPT ![x] = n]
  /\ dirty' = [dirty EXCEPT ![x] = TRUE]

-----------------------------------------------------------------------------
(* The constructors: Disk, StaticBuffer, OpenRelTable.                     *)

\* the disk that holds database d
DiskOf(d) ==
  LET present == {r \in Rel : d[r] # Absent}
      attrs   == UNION {Attrs(r) : r \in present}
  IN [map     |-> {r \in present : d[r] > 0},
      relcat  |-> [x \in Name |->
                     CASE x = "RELATIONCAT"  -> 2 + Cardinality(present)
                       [] x = "ATTRIBUTECAT" -> CATALOG_ATTRS + Cardinality(attrs)
                       [] x \in Rel          -> d[x]],
      attrcat |-> attrs,
      rows    |-> [r \in Rel |-> IF r \in present THEN d[r] ELSE 0]]

Init ==
  /\ pc = "down"
  /\ file \in {DiskOf(d) : d \in [Rel -> (0 .. MaxRecs) \cup {Absent}]}
  /\ run = file /\ mem = file
  /\ cache = [x \in Name |-> Closed]
  /\ dirty = [x \in Name |-> FALSE]
  /\ todo = {} /\ copied = Part

\* the dirty flags of the two catalog entries are not initialised
StartSession ==
  /\ pc \in {"down", "crashed"}
  /\ pc' = "running"
  /\ run' = file /\ mem' = file
  /\ cache' = [x \in Name |-> IF x \in Catalogs THEN file.relcat[x] ELSE Closed]
  /\ \E dcat \in [Catalogs -> BOOLEAN] :
       dirty' = [x \in Name |-> x \in Catalogs /\ dcat[x]]
  /\ UNCHANGED <<todo, file, copied>>

-----------------------------------------------------------------------------
(* The session.                                                            *)

\* openRel reads the catalog record; the dirty flag of the new entry is not
\* initialised
OpenRel(r) ==
  /\ pc = "running"
  /\ cache[r] = Closed /\ mem.relcat[r] # Absent
  /\ Cardinality(Opened) + Cardinality(Catalogs) < MAX_OPEN
  /\ cache' = [cache EXCEPT ![r] = mem.relcat[r]]
  /\ \E d \in BOOLEAN : dirty' = [dirty EXCEPT ![r] = d]
  /\ UNCHANGED <<pc, mem, run, todo, file, copied>>

\* mutated: the count in the cache changes, its dirty flag does not
InsertClean(r) ==
  /\ pc = "running" /\ cache[r] # Closed
  /\ Rows(mem, r) < MaxRecs
  /\ mem' = [mem EXCEPT !.map = @ \cup {r}, !.rows[r] = Rows(mem, r) + 1]
  /\ cache' = [cache EXCEPT ![r] = @ + 1]
  /\ UNCHANGED <<pc, dirty, run, todo, file, copied>>

\* BlockAccess::insert: the record and its slot go to a block, taken now if
\* this is the first record; the count changes in the cache alone
Insert(r) ==
  /\ pc = "running" /\ cache[r] # Closed
  /\ Rows(mem, r) < MaxRecs
  /\ mem' = [mem EXCEPT !.map = @ \cup {r}, !.rows[r] = Rows(mem, r) + 1]
  /\ SetCount(r, cache[r] + 1)
  /\ UNCHANGED <<pc, run, todo, file, copied>>

\* the counts of the catalogs themselves, after a relation came or went
SetCatalogCounts(rels, attrs) ==
  /\ cache' = [cache EXCEPT !["RELATIONCAT"] = @ + rels, !["ATTRIBUTECAT"] = @ + attrs]
  /\ dirty' = [dirty EXCEPT !["RELATIONCAT"] = TRUE, !["ATTRIBUTECAT"] = TRUE]

CreateRel(r) ==
  /\ pc = "running" /\ mem.relcat[r] = Absent
  /\ mem' = [mem EXCEPT !.relcat[r] = 0, !.attrcat = @ \cup Attrs(r)]
  /\ SetCatalogCounts(1, NumAttrs[r])
  /\ UNCHANGED <<pc, run, todo, file, copied>>

\* mutated: the attributes are not subtracted
DeleteRelAttrs(r) ==
  /\ pc = "running" /\ cache[r] = Closed /\ mem.relcat[r] # Absent
  /\ mem' = [mem EXCEPT !.map = @ \ {r}, !.relcat[r] = Absent, !.rows[r] = 0,
                        !.attrcat = {a \in @ : a[1] # r}]
  /\ SetCatalogCounts(-1, 0)
  /\ UNCHANGED <<pc, run, todo, file, copied>>

\* E_RELOPEN unless closed; the blocks released hold nothing any more
DeleteRel(r) ==
  /\ pc = "running" /\ cache[r] = Closed /\ mem.relcat[r] # Absent
  /\ mem' = [mem EXCEPT !.map = @ \ {r}, !.relcat[r] = Absent, !.rows[r] = 0,
                        !.attrcat = {a \in @ : a[1] # r}]
  /\ SetCatalogCounts(-1, -Cardinality({a \in mem.attrcat : a[1] = r}))
  /\ UNCHANGED <<pc, run, todo, file, copied>>

\* mutated: the entry is dropped without a write
WriteBackCountNever(x) ==
  /\ mem' = mem
  /\ cache' = [cache EXCEPT ![x] = Closed]
  /\ dirty' = [dirty EXCEPT ![x] = FALSE]

\* closeRel and the end of ~OpenRelTable: a dirty entry goes to the catalog
WriteBackCount(x) ==
  /\ mem' = IF dirty[x] THEN [mem EXCEPT !.relcat[x] = cache[x]] ELSE mem
  /\ cache' = [cache EXCEPT ![x] = Closed]
  /\ dirty' = [dirty EXCEPT ![x] = FALSE]

CloseRel(r) ==
  /\ pc = "running" /\ cache[r] # Closed
  /\ WriteBackCount(r)
  /\ UNCHANGED <<pc, run, todo, file, copied>>

\* the buffer replaces a dirty block; the map never is in a frame
Evict(p) ==
  /\ pc \in {"running", "closing"}
  /\ p \in {"relcat", "attrcat"} \cup mem.map
  /\ run' = Put(run, mem, p)
  /\ UNCHANGED <<pc, cache, dirty, mem, todo, file, copied>>

-----------------------------------------------------------------------------
(* The destructors: OpenRelTable, StaticBuffer, Disk.                      *)

Exit ==
  /\ pc = "running"
  /\ pc' = "closing"
  /\ UNCHANGED <<cache, dirty, mem, run, todo, file, copied>>

\* ~OpenRelTable: the relations still open, then the attribute catalog's
\* entry, then that of the relation catalog
CloseNext(x) ==
  /\ pc = "closing" /\ cache[x] # Closed
  /\ x \in Catalogs => Opened = {}
  /\ x = "RELATIONCAT" => cache["ATTRIBUTECAT"] = Closed
  /\ WriteBackCount(x)
  /\ UNCHANGED <<pc, run, todo, file, copied>>

\* mutated: the record blocks of closed relations are not in the buffer
ToFlushCatalogs == {"map", "relcat", "attrcat"}

\* what ~StaticBuffer writes: the map and every dirty frame
ToFlush == {"map", "relcat", "attrcat"} \cup mem.map

BeginFlush ==
  /\ pc = "closing" /\ \A x \in Name : cache[x] = Closed
  /\ pc' = "flushing"
  /\ todo' = ToFlush
  /\ UNCHANGED <<cache, dirty, mem, run, file, copied>>

\* the map first, then the frames in whatever order they hold the blocks
FlushPart(p) ==
  /\ pc = "flushing" /\ p \in todo
  /\ "map" \in todo => p = "map"
  /\ run' = Put(run, mem, p)
  /\ todo' = todo \ {p}
  /\ UNCHANGED <<pc, cache, dirty, mem, file, copied>>

\* ~Disk opens the disk file for output, which empties it
BeginCopy ==
  /\ pc = "flushing" /\ todo = {}
  /\ pc' = "copying"
  /\ file' = run /\ copied' = {}
  /\ UNCHANGED <<cache, dirty, mem, run, todo>>

\* the blocks come over in order: the map, the catalogs, the others
CopyPart(p) ==
  /\ pc = "copying" /\ p \in Part \ copied
  /\ p # "map" => "map" \in copied
  /\ p = "attrcat" => "relcat" \in copied
  /\ p \in Rel => "attrcat" \in copied
  /\ copied' = copied \cup {p}
  /\ UNCHANGED <<pc, cache, dirty, mem, run, todo, file>>

\* mutated: the process goes on before the copy is complete
EndSessionEarly ==
  /\ pc = "copying" /\ copied # {}
  /\ pc' = "down"
  /\ mem' = run
  /\ UNCHANGED <<cache, dirty, run, todo, file, copied>>

EndSession ==
  /\ pc = "copying" /\ copied = Part
  /\ pc' = "down"
  /\ mem' = run
  /\ UNCHANGED <<cache, dirty, run, todo, file, copied>>

\* the process is killed: what is in memory is gone
Crash ==
  /\ pc \in CrashPoints
  /\ pc' = "crashed"
  /\ mem' = run
  /\ cache' = [x \in Name |-> Closed]
  /\ dirty' = [x \in Name |-> FALSE]
  /\ todo' = {}
  /\ UNCHANGED <<run, file, copied>>

Destructors ==
  \/ \E x \in Name : CloseNext(x)
  \/ BeginFlush \/ BeginCopy \/ EndSession
  \/ \E p \in Part : FlushPart(p) \/ CopyPart(p)

Next ==
  \/ StartSession \/ Exit \/ Crash \/ Destructors
  \/ \E r \in Rel : \/ OpenRel(r) \/ Insert(r) \/ CloseRel(r)
                    \/ CreateRel(r) \/ DeleteRel(r)
  \/ \E p \in Part : Evict(p)

\* once the front end has returned, main runs the destructors to the end
\* unless the process is killed
Spec == Init /\ [][Next]_vars /\ WF_vars(Destructors)

-----------------------------------------------------------------------------
(* Properties.                                                             *)

\* Each variable has its type, and the disk file is incomplete only while
\* ~Disk copies or after a crash.
TypeOK ==
  /\ pc \in {"down", "running", "closing", "flushing", "copying", "crashed"}
  /\ cache \in [Name -> Nat \cup {Closed}]
  /\ dirty \in [Name -> BOOLEAN]
  /\ mem \in Image /\ run \in Image /\ file \in Image
  /\ todo \subseteq Part
  /\ copied \subseteq Part
  /\ copied # Part => pc \in {"copying", "crashed"}

\* the count of x wherever it is up to date: in the cache or in the catalog
Count(x) == IF cache[x] # Closed THEN cache[x] ELSE mem.relcat[x]

\* the blocks as they would be if every cache entry were written back
Current == [mem EXCEPT !.relcat = [x \in Name |-> Count(x)]]

\* During a session the counts and the catalog records, taken from the cache
\* for open relations, always describe the blocks; while the destructors run
\* as well.
SessionConsistent ==
  pc \in {"running", "closing", "flushing"} => Consistent(Current)

\* The disk file always holds a consistent database: the counts that lived in
\* the cache, the blocks that lived in the buffer and the map reach it
\* together or not at all, also when a session is killed.
SavedConsistent == copied = Part => Consistent(file)

\* "if the system has a forced shutdown during the course of the session, the
\* previous state of the disk is not lost" (Disk.cpp:10)
PreviousStateKept == pc = "crashed" => copied = Part

\* the user's view of an image: the relations and their counts
View(i) == [r \in Rel |-> i.relcat[r]]

\* A session commits all of its changes at its end or none of them.
SavedView == IF pc = "copying" THEN View(run) ELSE View(file)

Store == INSTANCE SessionStore WITH
  status  <- CASE pc = "down"     -> "off"
               [] pc = "crashed"  -> "crashed"
               [] pc = "copying"  -> "saved"
               [] OTHER           -> "on",
  working <- IF pc \in {"running", "closing", "flushing"}
             THEN View(Current) ELSE SavedView,
  saved   <- SavedView

ImplementsSessionStore == Store!Spec

\* A session that exits and is not killed reaches a disk file that has each
\* relation that holds records with the number of records the session ended
\* with, those that only the cache knew of too.
ExitSaves ==
  \A r \in Rel, n \in 1 .. MaxRecs :
    (pc = "closing" /\ Count(r) = n)
      ~> (pc = "crashed" \/ (pc = "down" /\ file.relcat[r] = n))
=============================================================================
