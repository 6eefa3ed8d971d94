-------------------------------- MODULE XFS ---------------------------------
(***************************************************************************)
(* The XFS interface: a program of its own that works on the disk file     *)
(* with an open relation table in memory.  It reads a command, runs it to  *)
(* its end and reads the next one, so a command is one step.  A command    *)
(* that fails and changes nothing is a stuttering step.                    *)
(***************************************************************************)
EXTENDS XFSAccess

CONSTANTS
  MAX_OPEN,  \* entries of the open relation table; two are the catalogs'
  Absent,
  \* bounds: what the commands are given
  Lists, Rows, Files, Conds, Joins,
  Created,   \* pairs <<relation, attribute list>> of CREATE TABLE
  Targets,   \* targets of queries, imports and renames
  Indexed,   \* attributes of CREATE INDEX and DROP INDEX
  Renamed,   \* pairs of attribute names
  MaxRecs    \* no INSERT into a relation with that many records

VARIABLES
  disk,
  table,  \* the open relation table
  cmd,    \* the last command that ended with success or left a trace, and
  ret     \* what it told the user; neither is read again

vars == <<disk, table, cmd, ret>>

UserId == 2 .. MAX_OPEN - 1

-----------------------------------------------------------------------------
(* The open relation table.                                                *)

EmptyTable   == [i \in UserId |-> Free]
IsOpen(t, r) == \E i \in UserId : t[i] = r
FreeIds(t)   == {i \in UserId : t[i] = Free}

OpenRel(t, r) ==
  IF IsOpen(t, r) \/ FreeIds(t) = {} THEN t ELSE [t EXCEPT ![Min(FreeIds(t))] = r]
CloseRel(t, r) == [i \in UserId |-> IF t[i] = r THEN Free ELSE t[i]]

-----------------------------------------------------------------------------
(* The algebra layer.  A result has the return value, the disk and the     *)
(* table.  The target is not among the sources: it must not exist before.  *)

Now == [ret |-> "SUCCESS", disk |-> disk, table |-> table]

Refused(s, error) == [s EXCEPT !.ret = error]

\* open the target that createRel has made, insert the rows and close it;
\* undone when one fails
FillTarget(s, tgt, created, rows) ==
  LET opened    == OpenRel(s.table, tgt)
      ends(res) == [ret |-> res.ret, disk |-> res.disk, table |-> CloseRel(opened, tgt)]
  IN  CASE created.ret # "SUCCESS" -> [s EXCEPT !.ret = created.ret, !.disk = created.disk]
        [] created.ret = "SUCCESS" /\ ~IsOpen(opened, tgt) ->
             [s EXCEPT !.ret = "E_CACHEFULL", !.disk = BaDelete(created.disk, tgt).disk]
        [] OTHER -> ends(OrDelete(InsertAll(created.disk, tgt, rows), tgt))

Project(s, src, tgt, list) ==
  LET column(i) == GetAttrCatEntry(s.disk, src, list[i]).offset + 1
      recs      == AllRecords(s.disk, src)
  IN  CASE ~IsOpen(s.table, src) -> Refused(s, "E_RELNOTOPEN")
        [] IsOpen(s.table, src) /\ FreeIds(s.table) = {} -> Refused(s, "E_CACHEFULL")
        [] IsOpen(s.table, src) /\ FreeIds(s.table) # {}
             /\ ~(ToSet(list) \subseteq AttrNames(s.disk, src)) -> Refused(s, "E_ATTRNOTEXIST")
        [] OTHER -> FillTarget(s, tgt, CreateRel(s.disk, tgt, list), [n \in DOMAIN recs |->
                                 [i \in DOMAIN list |-> recs[n][column(i)]]])

\* the names of the target's attributes are taken in the catalog's order
Select(s, src, tgt, c) ==
  LET es    == AttrEntries(s.disk, src)
      names == [i \in DOMAIN es |-> es[i].attr]
  IN  CASE ~IsOpen(s.table, src) -> Refused(s, "E_RELNOTOPEN")
        [] IsOpen(s.table, src) /\ FreeIds(s.table) = {} -> Refused(s, "E_CACHEFULL")
        [] IsOpen(s.table, src) /\ FreeIds(s.table) # {} /\ c[1] \notin AttrNames(s.disk, src) ->
             Refused(s, "E_ATTRNOTEXIST")
        [] OTHER -> FillTarget(s, tgt, CreateRel(s.disk, tgt, names),
                               Records(s.disk, BaSearch(s.disk, src, c[1], c[2], c[3])))

\* for each record of src1 the records of src2 that agree, without attr2
JoinRows(d, src1, src2, offset1, attr2, offset2) ==
  LET match(rec1) ==
        LET recs == Records(d, BaSearch(d, src2, attr2, "EQ", rec1[offset1 + 1]))
        IN  [n \in DOMAIN recs |-> rec1 \o RemoveAt(recs[n], offset2 + 1)]
  IN  FoldLeft(LAMBDA rows, rec1 : rows \o match(rec1), <<>>, AllRecords(d, src1))

\* only here is the table's last entry looked for after the target exists
Join(s, src1, src2, tgt, j) ==
  LET d        == s.disk
      names(r) == [i \in DOMAIN AttrEntries(d, r) |-> AttrAt(d, r, i - 1).attr]
      others   == SelectSeq(names(src2), LAMBDA a : a # j[2])
  IN  CASE ~IsOpen(s.table, src1) \/ ~IsOpen(s.table, src2) -> Refused(s, "E_RELNOTOPEN")
        [] IsOpen(s.table, src1) /\ IsOpen(s.table, src2)
             /\ (j[1] \notin AttrNames(d, src1) \/ j[2] \notin AttrNames(d, src2)) ->
             Refused(s, "E_ATTRNOTEXIST")
        [] IsOpen(s.table, src1) /\ IsOpen(s.table, src2)
             /\ j[1] \in AttrNames(d, src1) /\ j[2] \in AttrNames(d, src2)
             /\ ToSet(others) \cap AttrNames(d, src1) # {} -> Refused(s, "FAILURE")
        [] OTHER -> FillTarget(s, tgt, CreateRel(d, tgt, names(src1) \o others),
                               JoinRows(d, src1, src2, GetAttrCatEntry(d, src1, j[1]).offset,
                                        j[2], GetAttrCatEntry(d, src2, j[2]).offset))

\* mutant: a projection that fails leaves TEMP open
CloseTempLate(s) ==
  IF s.ret # "SUCCESS" THEN s
  ELSE [s EXCEPT !.disk = BaDelete(@, Temp).disk, !.table = CloseRel(@, Temp)]

CloseTemp(s) == [s EXCEPT !.disk = BaDelete(@, Temp).disk, !.table = CloseRel(@, Temp)]

\* the second half of a query through TEMP: open it, project it, close and
\* delete it.  The entry the first half used for TEMP is free again.
ProjectTemp(s, tgt, list) ==
  IF s.ret # "SUCCESS" THEN s
  ELSE CloseTemp(Project([s EXCEPT !.table = OpenRel(@, Temp)], Temp, tgt, list))

-----------------------------------------------------------------------------
(* The commands.                                                           *)

Ready == disk # Lost

\* command c ends with result s
Ends(c, s) ==
  /\ disk' = s.disk /\ table' = s.table
  /\ IF s.ret # "SUCCESS" /\ s.disk = disk /\ s.table = table
     THEN UNCHANGED <<cmd, ret>>
     ELSE cmd' = c /\ ret' = s.ret

\* the command leaves the table, or the disk, alone
OnDisk(res)  == [ret |-> res.ret, disk |-> res.disk, table |-> table]
OnTable(t)   == [ret |-> "SUCCESS", disk |-> disk, table |-> t]

Init ==
  /\ disk = FormattedDisk /\ table = EmptyTable
  /\ cmd = [op |-> "FDISK"] /\ ret = "SUCCESS"

Fdisk == Ends([op |-> "FDISK"], [OnTable(EmptyTable) EXCEPT !.disk = FormattedDisk])

\* EXIT, and the program is started again on the disk it left
Restart == Ends([op |-> "EXIT"], OnTable(EmptyTable))

CreateTable(r, attrs) ==
  /\ Ready
  /\ Ends([op |-> "CREATE TABLE", rel |-> r, attrs |-> attrs], OnDisk(CreateRel(disk, r, attrs)))

DropTable(r) ==
  /\ Ready /\ ~IsOpen(table, r)
  /\ Ends([op |-> "DROP TABLE", rel |-> r], OnDisk(BaDelete(disk, r)))

RenameTable(r, new) ==
  /\ Ready /\ ~IsOpen(table, r)
  /\ Ends([op |-> "RENAME TABLE", rel |-> r, new |-> new], OnDisk(BaRenameRel(disk, r, new)))

RenameColumn(r, old, new) ==
  /\ Ready /\ ~IsOpen(table, r)
  /\ Ends([op |-> "RENAME COLUMN", rel |-> r, old |-> old, new |-> new],
          OnDisk(BaRenameAttr(disk, r, old, new)))

\* one that is open already, or for which the table has no entry, is left out
OpenTable(r) ==
  /\ Ready /\ Exists(disk, r) /\ OpenRel(table, r) # table
  /\ Ends([op |-> "OPEN TABLE", rel |-> r], OnTable(OpenRel(table, r)))

CloseTable(r) ==
  /\ Ready /\ IsOpen(table, r)
  /\ Ends([op |-> "CLOSE TABLE", rel |-> r], OnTable(CloseRel(table, r)))

CreateIndexOn(r, a) ==
  /\ Ready /\ IsOpen(table, r)
  /\ Ends([op |-> "CREATE INDEX", rel |-> r, attr |-> a], OnDisk(CreateIndex(disk, r, a)))

DropIndexOn(r, a) ==
  /\ Ready /\ IsOpen(table, r)
  /\ Ends([op |-> "DROP INDEX", rel |-> r, attr |-> a], OnDisk(DropIndex(disk, r, a)))

InsertRow(r, row) ==
  /\ Ready /\ IsOpen(table, r)
  /\ GetRelCatEntry(disk, r).nAttrs = Len(row)
  /\ GetRelCatEntry(disk, r).nRecs < MaxRecs
  /\ Ends([op |-> "INSERT", rel |-> r, lines |-> <<row>>], OnDisk(BaInsert(disk, r, row)))

\* the lines before one that fails stay in the relation
InsertFile(r, f) ==
  /\ Ready /\ IsOpen(table, r)
  /\ GetRelCatEntry(disk, r).nAttrs = Len(f.attrs)
  /\ GetRelCatEntry(disk, r).nRecs + Len(f.lines) <= MaxRecs
  /\ Ends([op |-> "INSERT", rel |-> r, lines |-> f.lines], OnDisk(InsertAll(disk, r, f.lines)))

\* mutant: a relation whose lines did not all go in stays
ImportedPartly(created, r, f) ==
  CASE created.ret # "SUCCESS" -> created
    [] created.ret = "SUCCESS" /\ FreeIds(table) = {} -> Fails("openRel failed", created.disk)
    [] OTHER -> InsertAll(created.disk, r, f.lines)

\* a line that fails deletes the relation; a full table leaves it there empty
Imported(created, r, f) ==
  CASE created.ret # "SUCCESS" -> created
    [] created.ret = "SUCCESS" /\ FreeIds(table) = {} -> Fails("openRel failed", created.disk)
    [] OTHER -> OrDelete(InsertAll(created.disk, r, f.lines), r)

Import(r, f) ==
  /\ Ready
  /\ Ends([op |-> "IMPORT", rel |-> r, file |-> f],
          OnDisk(Imported(CreateRel(disk, r, f.attrs), r, f)))

\* a query of src, of the columns list and the rows where c, or of all
Query(src, tgt, list, c) ==
  [op |-> "SELECT", src |-> src, target |-> tgt, list |-> list, where |-> c]
JoinQuery(src1, src2, tgt, j, list) ==
  [op |-> "JOIN", src |-> src1, src2 |-> src2, target |-> tgt, on |-> j, list |-> list]

SelectFrom(src, tgt) ==
  LET names == [i \in DOMAIN AttrEntries(disk, src) |-> AttrAt(disk, src, i - 1).attr]
  IN  /\ Ready /\ IsOpen(table, src)
      /\ Ends(Query(src, tgt, <<>>, <<>>), Project(Now, src, tgt, names))

SelectAttrFrom(src, tgt, list) ==
  Ready /\ Ends(Query(src, tgt, list, <<>>), Project(Now, src, tgt, list))

SelectFromWhere(src, tgt, c) ==
  Ready /\ Ends(Query(src, tgt, <<>>, c), Select(Now, src, tgt, c))

SelectAttrFromWhere(src, tgt, list, c) ==
  Ready /\ Ends(Query(src, tgt, list, c), ProjectTemp(Select(Now, src, Temp, c), tgt, list))

SelectFromJoin(src1, src2, tgt, j) ==
  Ready /\ Ends(JoinQuery(src1, src2, tgt, j, <<>>), Join(Now, src1, src2, tgt, j))

SelectAttrFromJoin(src1, src2, tgt, j, list) ==
  /\ Ready
  /\ Ends(JoinQuery(src1, src2, tgt, j, list),
          ProjectTemp(Join(Now, src1, src2, Temp, j), tgt, list))

Next ==
  \/ Fdisk \/ Restart
  \/ \E c \in Created : CreateTable(c[1], c[2])
  \/ \E r \in Rel :
       \/ DropTable(r) \/ OpenTable(r) \/ CloseTable(r)
       \/ \E new \in Targets : RenameTable(r, new)
       \/ \E p \in Renamed : RenameColumn(r, p[1], p[2])
       \/ \E a \in Indexed : CreateIndexOn(r, a) \/ DropIndexOn(r, a)
       \/ \E row \in Rows : InsertRow(r, row)
       \/ \E f \in Files : InsertFile(r, f)
  \/ \E tgt \in Targets :
       \/ \E f \in Files : Import(tgt, f)
       \/ \E src \in Rel :
            \/ SelectFrom(src, tgt)
            \/ \E list \in Lists : SelectAttrFrom(src, tgt, list)
            \/ \E c \in Conds : SelectFromWhere(src, tgt, c)
            \/ \E list \in Lists, c \in Conds : SelectAttrFromWhere(src, tgt, list, c)
       \/ \E src1, src2 \in Rel, j \in Joins :
            \/ SelectFromJoin(src1, src2, tgt, j)
            \/ \E list \in Lists : SelectAttrFromJoin(src1, src2, tgt, j, list)

Spec == Init /\ [][Next]_vars

-----------------------------------------------------------------------------
(* Properties.                                                             *)

UserRels == {r \in Relation : Exists(disk, r)}

\* the indexed attributes <<relation, catalog entry>>
IndexEntries ==
  UNION {{<<r, AttrEntries(disk, r)[i]>> : i \in DOMAIN AttrEntries(disk, r)} : r \in UserRels}
Indexes == {x \in IndexEntries : x[2].root # None}

RecBlocks(first) == ToSet(Chain(disk, first))

\* The disk is a map with typed blocks or lost, and the table has names.
TypeOK ==
  /\ table \in [UserId -> Relation \cup {Free}]
  /\ Ready =>
       /\ disk.map \in [Block -> {"REC", "IND_INTERNAL", "IND_LEAF", "UNUSED_BLK"}]
       /\ \A b \in Block :
            /\ disk.map[b] = "UNUSED_BLK" <=> disk.blk[b] = Zero
            /\ disk.map[b] = "REC" => disk.blk[b].numEntries = Cardinality(Occupied(disk, b))
            /\ disk.map[b] = "IND_LEAF" => Len(Entries(disk, b)) <= MAX_KEYS_LEAF
            /\ disk.map[b] = "IND_INTERNAL" =>
                 Len(Entries(disk, b)) \in 1 .. MAX_KEYS_INTERNAL

\* The two catalogs say the same of every relation, whatever was created,
\* deleted, renamed or undone before: each relation has one entry and one
\* attribute record per attribute, in the order of their offsets (select,
\* PRINT TABLE, SCHEMA and EXPORT take the scan order for the attribute
\* order); its count and its last block are those of its records; no
\* attribute record is without its relation; RELATIONCAT counts itself.
CatalogsAgree == Ready =>
  /\ GetRelCatEntry(disk, RELCAT).nRecs = Len(LinearScan(disk, RELCAT_BLOCK))
  /\ \A r \in UserRels :
       LET e == GetRelCatEntry(disk, r) IN
       /\ Len(RelCatIds(disk, r)) = 1
       /\ [i \in DOMAIN AttrEntries(disk, r) |-> AttrEntries(disk, r)[i].offset]
            = [i \in 1 .. e.nAttrs |-> i - 1]
       /\ Cardinality(AttrNames(disk, r)) = e.nAttrs
       /\ e.nRecs = Len(AllRecords(disk, r))
       /\ e.last = IF e.first = None THEN None ELSE Last(Chain(disk, e.first))
  /\ \A at \in ToSet(LinearScan(disk, ATTRCAT_BLOCK)) :
       GetRecord(disk, at).rel \in UserRels \cup {RELCAT, ATTRCAT}

\* Every block that the allocation map has in use is a block of exactly one
\* list of records or one tree, and all of their blocks are in use with the
\* type they have there: nothing leaks, nothing is released too early.
BlocksAccounted == Ready =>
  LET Users   == {r \in UserRels : GetRelCatEntry(disk, r).first # None}
      All     == Users \cup {RELCAT, ATTRCAT}
      Of(x)   == TreeBlocks(disk, x[2].root)
      Recs(r) == CASE r = RELCAT  -> RecBlocks(RELCAT_BLOCK)
                   [] r = ATTRCAT -> RecBlocks(ATTRCAT_BLOCK)
                   [] OTHER       -> RecBlocks(GetRelCatEntry(disk, r).first)
  IN  /\ {b \in Block : disk.map[b] = "REC"} = UNION {Recs(r) : r \in All}
      /\ {b \in Block : disk.map[b] \in {"IND_LEAF", "IND_INTERNAL"}} =
           UNION {Of(x) : x \in Indexes}
      /\ \A r, s \in All : r # s => Recs(r) \cap Recs(s) = {}
      /\ \A x, y \in Indexes : x # y => Of(x) \cap Of(y) = {}

\* A search through an index finds the records a scan of the relation finds,
\* each once, for every operator and value.
SearchesAgree == Ready =>
  \A x \in Indexes :
    LET root      == x[2].root
        all       == ToSet(LinearScan(disk, GetRelCatEntry(disk, x[1]).first))
        value(at) == GetRecord(disk, at)[x[2].offset + 1]
    IN  \A op \in {"EQ", "NE", "LT", "LE", "GT", "GE"}, v \in Val :
          LET found == IndexScan(disk, root, op, v, <<>>)
          IN  /\ ToSet(found) = {at \in all : Holds(op, value(at), v)}
              /\ IsInjective(found)

\* Between two commands every open entry names a relation that exists, no
\* relation has two, and the interface's own relation is neither open nor
\* in the catalog, however its query ended.
OpenExist == Ready =>
  /\ \A i \in UserId : table[i] # Free => Exists(disk, table[i])
  /\ \A i, j \in UserId : table[i] = table[j] /\ table[i] # Free => i = j
  /\ ~IsOpen(table, Temp) /\ ~Exists(disk, Temp)

-----------------------------------------------------------------------------
(* The tables that the disk stands for.                                    *)

StoredTable(d, r) ==
  LET recs == AllRecords(d, r)
      es   == AttrEntries(d, r)
  IN  [attrs |-> [i \in DOMAIN es |-> AttrAt(d, r, i - 1).attr],
       rows  |-> [x \in ToSet(recs) |-> Cardinality({n \in DOMAIN recs : recs[n] = x})]]

StoredTables(d) ==
  IF d = Lost THEN Lost
  ELSE [r \in Rel |-> IF Exists(d, r) THEN StoredTable(d, r) ELSE Absent]
=============================================================================
