------------------------------ MODULE Algebra -------------------------------
(***************************************************************************)
(* Commands on relations: create, drop, open, close, insert, indexes,      *)
(* renaming of attributes, and the queries of the front end (select,       *)
(* project, join and their combinations), which read through the search    *)
(* indexes in the cache and fill a target relation record by record.       *)
(*                                                                         *)
(* A relation is the sequence of its records in block order; no command    *)
(* deletes one, so a record id is a position.  An index is the sequence of *)
(* record ids in its leaf (BPlusTree has larger trees).  The attribute     *)
(* catalog's blocks are those of AttrCatalog and not counted here.         *)
(***************************************************************************)
EXTENDS Integers, SequencesExt

CONSTANTS
  Schemas,       \* the relations users create: the attribute names of each
  Type,          \* the type of each attribute, by name
  RowsOf,        \* bound: the records users insert into each, in this order
  Indexes,       \* bound: the <<relation, attribute>> users put an index on
  Renames,       \* bound: the <<relation, old name, new name>> users rename
  Queries,       \* the queries users run, see Query
  SLOTS,         \* records per block
  BLOCKS,        \* blocks for records and indexes
  Garbage,       \* values project may read for a name that is no attribute
  Handed,        \* what a RecBuffer has as blockNum if no block is unused
  MAX_OPEN,      \* relations open at a time beside the two catalogs (10)
  MAX_RELATIONS  \* relations beside the two catalogs (18)

E_DISKFULL == -96

\* values are small natural numbers, whatever the type; this one is not a number
Text == -1

\* the kind is that of the algebra function; an empty list means all attributes
NoQuery == [kind |-> "none", src |-> "", src2 |-> "", target |-> "", attr |-> "",
            attr2 |-> "", op |-> "EQ", val |-> 0, list |-> <<>>]
Query(kind, src, target, list) ==
  [NoQuery EXCEPT !.kind = kind, !.src = src, !.target = target, !.list = list]

MAX_KEYS_LEAF == 63

ASSUME AlgebraAssumption ==
  /\ SLOTS \in Nat \ {0} /\ BLOCKS \in Nat
  /\ MAX_OPEN \in Nat \ {0} /\ MAX_RELATIONS \in Nat \ {0}
  /\ \A r \in DOMAIN Schemas :
       /\ Schemas[r] \in Seq(STRING)
       /\ RowsOf[r] \in Seq(Seq(Int)) /\ Len(RowsOf[r]) <= MAX_KEYS_LEAF
  /\ \A p \in Renames : p[3] \in STRING
  /\ Garbage \subseteq Int
  /\ Handed \subseteq Int /\ Handed \cap (0 .. BLOCKS - 1) = {}  \* bound: the number of no block
  /\ Queries \subseteq
       [kind : {"project", "select", "join"}, src : STRING, src2 : STRING,
        target : STRING, attr : STRING, attr2 : STRING,
        op : {"EQ", "NE", "LT", "LE", "GT", "GE"}, val : Int, list : Seq(STRING)]

VARIABLES
  rels,   \* rels[r]: attribute names, records, attributes whose catalog record has a root
  trees,  \* trees[<<r, i>>]: the index of the i-th attribute of r
  open,   \* open[r]: search index, index search indexes, cached roots
  pc,     \* "idle", "call", "scan", "match", "back", "done"
  query,  \* the query that runs
  call,   \* the function of the algebra layer that runs for it
  row,    \* record1 of a join
  ret,    \* what that function, then the front end, returned
  old,    \* what the query found: relations and open relations (for properties)
  lost    \* a record or an index went into no block, on a full disk

db      == <<rels, trees, open>>
control == <<pc, query, call, row, ret, old>>
vars    == <<rels, trees, open, pc, query, call, row, ret, old, lost>>

-----------------------------------------------------------------------------
(* The database as a record u, so that one step can make several calls.    *)

Db == [rels |-> rels, trees |-> trees, open |-> open]

SetDb(u) == rels' = u.rels /\ trees' = u.trees /\ open' = u.open

Attrs(u, r) == u.rels[r].attrs
Recs(u, r)  == u.rels[r].recs
NumOf(attrs, a) == SelectInSeq(attrs, LAMBDA x : x = a)
AttrNo(u, r, a) == NumOf(Attrs(u, r), a)

Without(f, S) == Restrict(f, DOMAIN f \ S)
With(f, x, v) == [y \in DOMAIN f \cup {x} |-> IF y = x THEN v ELSE f[y]]

BlocksOf(u) ==
  MapThenSumSet(LAMBDA r : (Len(Recs(u, r)) + SLOTS - 1) \div SLOTS, DOMAIN u.rels)
    + Cardinality(DOMAIN u.trees)
Full(u) == BlocksOf(u) >= BLOCKS

\* mutated: one slot too many
RoomOver(u) == Cardinality(DOMAIN u.open) <= MAX_OPEN

Room(u) == Cardinality(DOMAIN u.open) < MAX_OPEN

createRel(u, r, attrs) ==
  [u EXCEPT !.rels = With(@, r, [attrs |-> attrs, recs |-> <<>>, roots |-> {}])]

CreateError(u, r, attrs) ==
  IF r \in DOMAIN u.rels THEN "E_RELEXIST"
  ELSE IF Cardinality(ToSet(attrs)) # Len(attrs) THEN "E_DUPLICATEATTR"
  ELSE IF Cardinality(DOMAIN u.rels) >= MAX_RELATIONS THEN "E_MAXRELATIONS"
  ELSE "SUCCESS"

\* search indexes are not initialised; each search resets them before use
openRel(u, r) ==
  [u EXCEPT !.open =
     With(@, r, [search |-> 0, index |-> [i \in DOMAIN Attrs(u, r) |-> 0],
                 roots |-> u.rels[r].roots])]

\* mutated: the attribute cache is freed and not written back
closeRelForget(u, r) == [u EXCEPT !.open = Without(@, {r})]

closeRel(u, r) ==
  [u EXCEPT !.rels[r].roots = u.open[r].roots, !.open = Without(@, {r})]

\* the indexes to destroy are those the attribute catalog knows
deleteRel(u, r) ==
  IF r \in DOMAIN u.open \/ r \notin DOMAIN u.rels THEN u
  ELSE [u EXCEPT !.rels  = Without(@, {r}),
                 !.trees = Without(@, {<<r, i>> : i \in u.rels[r].roots})]

-----------------------------------------------------------------------------
(* Records and indexes.                                                    *)

\* the record id p goes before the first with a larger value
Entered(recs, leaf, i, p) ==
  LET larger == {k \in DOMAIN leaf : recs[leaf[k]][i] > recs[p][i]}
  IN InsertAt(leaf, Min(larger \cup {Len(leaf) + 1}), p)

setAttrCatEntry(u, r, roots) == [u EXCEPT !.open[r].roots = roots]

\* the leaf when the first n records have been entered one by one
Leaf(recs, i) ==
  LET leaf[n \in 0 .. Len(recs)] == IF n = 0 THEN <<>> ELSE Entered(recs, leaf[n - 1], i, n)
  IN leaf[Len(recs)]

\* the root is set, and is no block
bPlusCreateLost(u, r, i) == setAttrCatEntry(u, r, u.open[r].roots \cup {i})

bPlusCreate(u, r, i) ==
  [setAttrCatEntry(u, r, u.open[r].roots \cup {i}) EXCEPT
     !.trees = With(@, <<r, i>>, Leaf(Recs(u, r), i))]

\* a record needs a block if those before it fill theirs
NoBlock(u, r) == Len(Recs(u, r)) % SLOTS = 0 /\ Full(u)

\* whether a full disk is noticed, or another number used for a block's
Noticed    == E_DISKFULL \in Handed
Overlooked == Handed \ {E_DISKFULL} # {}

insert(u, r, rec) ==
  LET recs == Append(Recs(u, r), rec) IN
  [u EXCEPT !.rels[r].recs = recs,
            !.trees = [t \in DOMAIN u.trees |->
               IF t[1] = r /\ t[2] \in u.open[r].roots
               THEN Entered(recs, u.trees[t], t[2], Len(recs))
               ELSE u.trees[t]]]

\* the record is stored nowhere, but the indexes get its record id
insertLost(u, r, rec) == [u EXCEPT !.trees = insert(u, r, rec).trees]

renameAttribute(u, r, a, b) == [u EXCEPT !.rels[r].attrs[AttrNo(u, r, a)] = b]

Compare(op, x, y) ==
  CASE op = "EQ" -> x = y  [] op = "NE" -> x # y
    [] op = "LT" -> x < y  [] op = "LE" -> x <= y
    [] op = "GT" -> x > y  [] op = "GE" -> x >= y

Indexed(u, r, i) == i \in u.open[r].roots

\* linearSearch: the records behind the search index that satisfy the condition
linearHits(u, r, i, op, v) ==
  {p \in DOMAIN Recs(u, r) : p > u.open[r].search /\ Compare(op, Recs(u, r)[p][i], v)}

\* bPlusSearch: likewise in the leaf, up to the first value that is too large
leafHits(u, r, i, op, v) ==
  LET leaf   == u.trees[<<r, i>>]
      from   == u.open[r].index[i]
      val(k) == Recs(u, r)[leaf[k]][i]
  IN {k \in DOMAIN leaf :
        /\ k > from /\ Compare(op, val(k), v)
        /\ ~ \E j \in from + 1 .. k - 1 : op \in {"EQ", "LE", "LT"} /\ val(j) > v}

\* search: where the next hit is, which record that is, and the index it leaves
Hits(u, r, i, op, v) ==
  IF Indexed(u, r, i) THEN leafHits(u, r, i, op, v) ELSE linearHits(u, r, i, op, v)
RecordAt(u, r, i, k) ==
  Recs(u, r)[IF Indexed(u, r, i) THEN u.trees[<<r, i>>][k] ELSE k]
Moved(u, r, i, k) ==
  IF Indexed(u, r, i) THEN [u EXCEPT !.open[r].index[i] = k]
                      ELSE [u EXCEPT !.open[r].search = k]

\* BlockAccess::project: the record behind the search index
NextRecord(r) == open[r].search + 1

\* mutated: only the relation's search index is reset
ResetRelation(u, r, i) == [u EXCEPT !.open[r].search = 0]

ResetSearch(u, r, i) ==
  [u EXCEPT !.open[r].search = 0, !.open[r].index[i] = 0]

-----------------------------------------------------------------------------
(* Commands of the user that are one call.                                 *)

\* bound: no command follows once something is lost, for the walk through the
\* blocks that comes next reads a header that was never loaded
Idle == pc = "idle" /\ ~lost /\ UNCHANGED control

\* a command that fails changes nothing and is left out
CreateRel(r) ==
  /\ Idle /\ UNCHANGED lost /\ CreateError(Db, r, Schemas[r]) = "SUCCESS"
  /\ SetDb(createRel(Db, r, Schemas[r]))

DropRel(r) ==
  /\ Idle /\ UNCHANGED lost /\ r \in DOMAIN rels \ DOMAIN open
  /\ SetDb(deleteRel(Db, r))

OpenRel(r) ==
  /\ Idle /\ UNCHANGED lost /\ r \in DOMAIN rels \ DOMAIN open /\ Room(Db)
  /\ SetDb(openRel(Db, r))

CloseRel(r) ==
  /\ Idle /\ UNCHANGED lost /\ r \in DOMAIN open
  /\ SetDb(closeRel(Db, r))

\* a value for each attribute, a number where the type says so
Suits(attrs, rec) ==
  /\ Len(rec) = Len(attrs)
  /\ \A i \in DOMAIN attrs : Type[attrs[i]] = "NUMBER" => rec[i] # Text

Insert(r) ==
  LET n == Len(rels[r].recs) + 1 IN
  /\ Idle /\ r \in DOMAIN open /\ n <= Len(RowsOf[r])
  /\ Suits(rels[r].attrs, RowsOf[r][n])
  /\ \/ ~NoBlock(Db, r) /\ SetDb(insert(Db, r, RowsOf[r][n])) /\ UNCHANGED lost
     \/ NoBlock(Db, r) /\ Overlooked /\ SetDb(insertLost(Db, r, RowsOf[r][n])) /\ lost' = TRUE

CreateIndex(r, a) ==
  LET i == AttrNo(Db, r, a) IN
  /\ Idle /\ r \in DOMAIN open /\ i # 0 /\ i \notin open[r].roots
  /\ \/ ~Full(Db) /\ SetDb(bPlusCreate(Db, r, i)) /\ UNCHANGED lost
     \/ Full(Db) /\ Overlooked /\ SetDb(bPlusCreateLost(Db, r, i)) /\ lost' = TRUE

DropIndex(r, a) ==
  LET i == AttrNo(Db, r, a) IN
  /\ Idle /\ UNCHANGED lost /\ r \in DOMAIN open /\ i \in open[r].roots
  /\ SetDb([setAttrCatEntry(Db, r, open[r].roots \ {i}) EXCEPT
              !.trees = Without(@, {<<r, i>>})])

\* renameRel refuses every relation and is left out
RenameAttr(r, a, b) ==
  /\ Idle /\ UNCHANGED lost /\ r \in DOMAIN rels \ DOMAIN open
  /\ AttrNo(Db, r, a) # 0 /\ AttrNo(Db, r, b) = 0
  /\ SetDb(renameAttribute(Db, r, a, b))

-----------------------------------------------------------------------------
(* Functions of the algebra layer.                                         *)

Composite(q) == q.kind # "project" /\ q.list # <<>>
Temp(q)      == IF q.kind = "select" THEN "temp" ELSE "temp_relation"
First(q)  == IF Composite(q) THEN [q EXCEPT !.target = Temp(q), !.list = <<>>] ELSE q
Second(q) == Query("project", Temp(q), q.target, q.list)

Contents == [r \in DOMAIN rels |-> <<rels[r].attrs, rels[r].recs>>]

Begin(q) ==
  /\ pc = "idle" /\ ~lost /\ pc' = "call"
  /\ query' = q /\ call' = First(q)
  /\ old' = [rels |-> Contents, open |-> DOMAIN open]
  /\ UNCHANGED <<db, row, ret, lost>>

Finish(error) ==
  /\ pc' = "back" /\ ret' = error /\ row' = 0
  /\ UNCHANGED <<query, call, old, lost>>

SourceError(u, c) ==
  LET other == c.kind = "join"
      a1 == Attrs(u, c.src)
      a2 == Attrs(u, c.src2)
  IN
  IF c.src \notin DOMAIN u.open \/ (other /\ c.src2 \notin DOMAIN u.open)
  THEN "E_RELNOTOPEN"
  ELSE IF c.kind # "project" /\ NumOf(a1, c.attr) = 0 THEN "E_ATTRNOTEXIST"
  ELSE IF other /\ NumOf(a2, c.attr2) = 0 THEN "E_ATTRNOTEXIST"
  ELSE IF c.kind = "select" /\ Type[c.attr] = "NUMBER" /\ c.val = Text
  THEN "E_ATTRTYPEMISMATCH"
  ELSE IF other /\ Type[c.attr] # Type[c.attr2] THEN "E_ATTRTYPEMISMATCH"
  ELSE IF other /\ (ToSet(a1) \ {c.attr}) \cap (ToSet(a2) \ {c.attr2}) # {}
  THEN "E_DUPLICATEATTR"
  ELSE "SUCCESS"

TargetAttrs(u, c) ==
  CASE c.list # <<>> -> c.list
    [] c.list = <<>> /\ c.kind = "join" ->
         Attrs(u, c.src) \o RemoveAt(Attrs(u, c.src2), AttrNo(u, c.src2, c.attr2))
    [] OTHER -> Attrs(u, c.src)

ResetFor(u, c) ==
  CASE c.kind = "select" -> ResetSearch(u, c.src, AttrNo(u, c.src, c.attr))
    [] OTHER -> [u EXCEPT !.open[c.src].search = 0]

\* mutated: the target is left behind
OpenFailsKeep(u, v) == SetDb(v) /\ Finish("E_CACHEFULL")

\* the target does not fit into the open relation table: it is deleted, and the
\* database v is again the one before, u
OpenFails(u, v) == SetDb(u) /\ Finish("E_CACHEFULL")

\* the target is created and opened; the attribute catalog may need a block,
\* and then createRel removes the target, or its attribute record is lost
PrepareTarget(u) ==
  LET attrs == TargetAttrs(u, call)
      error == CreateError(u, call.target, attrs)
      v     == createRel(u, call.target, attrs)
  IN
  \/ /\ error # "SUCCESS"
     /\ SetDb(u) /\ Finish(error)
  \/ /\ error = "SUCCESS" /\ Full(u) /\ Noticed
     /\ SetDb(u) /\ Finish("E_DISKFULL")
  \/ /\ error = "SUCCESS" /\ Full(u) /\ Overlooked
     /\ SetDb(v) /\ lost' = TRUE /\ UNCHANGED control
  \/ /\ error = "SUCCESS" /\ ~Room(u)
     /\ OpenFails(u, v)
  \/ /\ error = "SUCCESS" /\ Room(u)
     /\ SetDb(ResetFor(openRel(v, call.target), call)) /\ pc' = "scan"
     /\ UNCHANGED <<query, call, row, ret, old, lost>>

\* a join first makes sure that there is an index
Call ==
  LET error == SourceError(Db, call)
      i2    == AttrNo(Db, call.src2, call.attr2)
      makes == call.kind = "join" /\ ~Indexed(Db, call.src2, i2)
  IN
  /\ pc = "call" /\ ~lost
  /\ \/ /\ error # "SUCCESS"
        /\ Finish(error) /\ UNCHANGED db
     \/ /\ error = "SUCCESS" /\ makes /\ Full(Db) /\ Noticed
        /\ Finish("E_DISKFULL") /\ UNCHANGED db
     \/ /\ error = "SUCCESS" /\ makes /\ Full(Db) /\ Overlooked
        /\ SetDb(bPlusCreateLost(Db, call.src2, i2)) /\ lost' = TRUE /\ UNCHANGED control
     \/ /\ error = "SUCCESS" /\ makes /\ ~Full(Db)
        /\ PrepareTarget(bPlusCreate(Db, call.src2, i2))
     \/ /\ error = "SUCCESS" /\ ~makes
        /\ PrepareTarget(Db)

\* a failed insertion closes and deletes the target; on a full disk it fails
\* if the number handed out for a block is E_DISKFULL, and otherwise the record
\* is lost, for which the target has no index, and the function goes on.  The
\* next insertion would walk into that number: nothing is inserted after that
InsertInto(u, rec) ==
  /\ ~lost
  /\ \/ /\ ~NoBlock(u, call.target)
        /\ SetDb(insert(u, call.target, rec)) /\ UNCHANGED <<control, lost>>
     \/ /\ NoBlock(u, call.target) /\ Noticed
        /\ SetDb(deleteRel(closeRel(u, call.target), call.target)) /\ Finish("E_DISKFULL")
     \/ /\ NoBlock(u, call.target) /\ Overlooked
        /\ SetDb(u) /\ lost' = TRUE /\ UNCHANGED control

CloseTarget == SetDb(closeRel(Db, call.target)) /\ Finish("SUCCESS")

\* the names in the list that are no attributes
Unknown(attrs, list) == {j \in DOMAIN list : NumOf(attrs, list[j]) = 0}

\* nobody looks whether a name was found: the offset is then uninitialised, and
\* other[j] what the record has there
Listed(attrs, rec, list, other) ==
  IF list = <<>> THEN rec
  ELSE [j \in DOMAIN list |->
          IF j \in Unknown(attrs, list) THEN other[j] ELSE rec[NumOf(attrs, list[j])]]

project ==
  LET src == call.src
      p   == NextRecord(src)
  IN
  /\ pc = "scan" /\ call.kind = "project"
  /\ \/ /\ p <= Len(rels[src].recs)
        /\ \E other \in [Unknown(rels[src].attrs, call.list) -> Garbage] :
             InsertInto([Db EXCEPT !.open[src].search = p],
                        Listed(rels[src].attrs, rels[src].recs[p], call.list, other))
     \/ p > Len(rels[src].recs) /\ CloseTarget

select ==
  LET src  == call.src
      i    == AttrNo(Db, src, call.attr)
      hits == Hits(Db, src, i, call.op, call.val)
  IN
  /\ pc = "scan" /\ call.kind = "select"
  /\ \/ /\ hits # {}
        /\ InsertInto(Moved(Db, src, i, Min(hits)), RecordAt(Db, src, i, Min(hits)))
     \/ hits = {} /\ CloseTarget

\* the outer loop: the next record, and the inner search from the start; the
\* target is not closed at the end
joinOuter ==
  LET i2 == AttrNo(Db, call.src2, call.attr2)
      p  == NextRecord(call.src)
  IN
  /\ pc = "scan" /\ call.kind = "join"
  /\ \/ /\ p <= Len(rels[call.src].recs)
        /\ SetDb(ResetSearch([Db EXCEPT !.open[call.src].search = p], call.src2, i2))
        /\ row' = p /\ pc' = "match" /\ UNCHANGED <<query, call, ret, old, lost>>
     \/ p > Len(rels[call.src].recs) /\ Finish("SUCCESS") /\ UNCHANGED db

joinInner ==
  LET src2 == call.src2
      i2   == AttrNo(Db, src2, call.attr2)
      rec  == rels[call.src].recs[row]
      hits == Hits(Db, src2, i2, "EQ", rec[AttrNo(Db, call.src, call.attr)])
  IN
  /\ pc = "match"
  /\ \/ /\ hits # {}
        /\ InsertInto(Moved(Db, src2, i2, Min(hits)),
                      rec \o RemoveAt(RecordAt(Db, src2, i2, Min(hits)), i2))
     \/ /\ hits = {}
        /\ pc' = "scan" /\ row' = 0 /\ UNCHANGED <<db, query, call, ret, old, lost>>

-----------------------------------------------------------------------------
(* The front end.                                                          *)

Reply(r) == pc' = "done" /\ ret' = r /\ UNCHANGED <<query, call, row, old, lost>>

\* one function is the whole query; what projection on a list returns is ignored
SingleReturns ==
  /\ pc = "back" /\ ~Composite(query)
  /\ Reply(IF query.kind = "project" /\ query.list # <<>> THEN "SUCCESS" ELSE ret)
  /\ UNCHANGED db

\* the result of a selection, which has closed it, is opened again (that of a
\* join is still open) and projected
FirstReturns ==
  /\ pc = "back" /\ Composite(query) /\ call = First(query)
  /\ \/ ret # "SUCCESS" /\ Reply(ret) /\ UNCHANGED db
     \/ /\ ret = "SUCCESS"
        /\ SetDb(IF query.kind = "select" THEN openRel(Db, Temp(query)) ELSE Db)
        /\ call' = Second(query) /\ pc' = "call" /\ UNCHANGED <<query, row, ret, old, lost>>

\* mutated: after a join the temporary relation is removed only on success
SecondReturnsEarly ==
  LET temp == Temp(query) IN
  /\ pc = "back" /\ Composite(query) /\ call = Second(query)
  /\ Reply(ret)
  /\ IF ret # "SUCCESS" THEN UNCHANGED db ELSE SetDb(deleteRel(closeRel(Db, temp), temp))

\* after a select the temporary relation is removed only on success
SecondReturns ==
  LET temp == Temp(query) IN
  /\ pc = "back" /\ Composite(query) /\ call = Second(query)
  /\ Reply(ret)
  /\ IF query.kind = "select" /\ ret # "SUCCESS" THEN UNCHANGED db
     ELSE SetDb(deleteRel(closeRel(Db, temp), temp))

NextCommand ==
  /\ pc = "done" /\ pc' = "idle"
  /\ query' = NoQuery /\ call' = NoQuery /\ ret' = "" /\ row' = 0
  /\ old' = [rels |-> <<>>, open |-> {}]
  /\ UNCHANGED <<db, lost>>

Init ==
  /\ rels = <<>> /\ trees = <<>> /\ open = <<>>
  /\ pc = "idle" /\ query = NoQuery /\ call = NoQuery /\ row = 0 /\ ret = ""
  /\ old = [rels |-> <<>>, open |-> {}] /\ lost = FALSE

Step ==
  \/ Call \/ project \/ select \/ joinOuter \/ joinInner
  \/ SingleReturns \/ FirstReturns \/ SecondReturns \/ NextCommand

Next ==
  \/ \E r \in DOMAIN Schemas : CreateRel(r) \/ Insert(r)
  \/ \E r \in DOMAIN rels : DropRel(r) \/ OpenRel(r) \/ CloseRel(r)
  \/ \E p \in Indexes : CreateIndex(p[1], p[2]) \/ DropIndex(p[1], p[2])
  \/ \E p \in Renames : RenameAttr(p[1], p[2], p[3])
  \/ \E q \in Queries : Begin(q)
  \/ Step
  \/ lost /\ UNCHANGED vars

\* once a query has begun, nothing runs in between
Spec == Init /\ [][Next]_vars

-----------------------------------------------------------------------------
(* Properties.                                                             *)

\* Every variable has its type, and no more relations are open than fit.
TypeOK ==
  /\ \A r \in DOMAIN rels : \A rec \in ToSet(rels[r].recs) : Len(rec) = Len(rels[r].attrs)
  /\ DOMAIN open \subseteq DOMAIN rels /\ Cardinality(DOMAIN open) <= MAX_OPEN
  /\ \A r \in DOMAIN open : open[r].search \in 0 .. Len(rels[r].recs)
  /\ pc \in {"idle", "call", "scan", "match", "back", "done"}
  /\ query \in Queries \cup {NoQuery} /\ row \in Nat /\ lost \in BOOLEAN

\* What a query asks for, computed from its sources.
Result(q) ==
  LET recs1 == rels[q.src].recs
      i1    == AttrNo(Db, q.src, q.attr)
      i2    == AttrNo(Db, q.src2, q.attr2)
      matches(x) == SelectSeq(rels[q.src2].recs, LAMBDA y : y[i2] = x[i1])
      joined(x)  == [k \in DOMAIN matches(x) |-> x \o RemoveAt(matches(x)[k], i2)]
  IN CASE q.kind = "project" -> recs1
       [] q.kind = "select" -> SelectSeq(recs1, LAMBDA x : Compare(q.op, x[i1], q.val))
       [] q.kind = "join" -> FlattenSeq([p \in DOMAIN recs1 |-> joined(recs1[p])])

\* with a column for each name of the list, all of them attributes
Answer(q) ==
  LET attrs == TargetAttrs(Db, [q EXCEPT !.list = <<>>])
      recs  == Result(q)
  IN ToBag([k \in DOMAIN recs |-> Listed(attrs, recs[k], q.list, <<>>)])

\* the function that fills the query's target has succeeded
Filled == pc = "back" /\ ret = "SUCCESS" /\ call.target = query.target

NamesKnown == Unknown(Attrs(Db, call.src), call.list) = {}

\* When the function that fills the query's target succeeds, the target holds
\* what the query asks for, each record as often as it should be there, if every
\* name of the list is an attribute and no record was lost on a full disk.
ResultExact ==
  Filled /\ NamesKnown /\ ~lost => ToBag(rels[query.target].recs) = Answer(query)

\* "if (insert fails) { close the targetrel [..] delete targetrel [..] return
\* ret; }" (Algebra.cpp:298): also when the disk is full, a function that
\* succeeds has inserted everything.
AnswerWhole == Filled /\ NamesKnown => ToBag(rels[query.target].recs) = Answer(query)

\* "if the attribute is not found return E_ATTRNOTEXIST" (Algebra.cpp:432): a
\* projection that succeeds found every name of its list.
UnknownRefused ==
  pc = "back" /\ ret = "SUCCESS" /\ call.kind = "project" => NamesKnown

\* A function that fails leaves its target as it found it, one that succeeds
\* changes no relation but its target and the temporary one, also if a record
\* was lost.
OthersKept ==
  pc = "back" =>
    LET changed == (IF ret = "SUCCESS" THEN {call.target} ELSE {})
                     \cup (IF call # First(query) THEN {call.src} ELSE {})
    IN Without(Contents, changed) = Without(old.rels, changed)

\* After a query the relations that were open are open, and no others but the
\* target of a join, which stays open (Algebra.cpp:675), and "temp" when the
\* projection of a selection failed.
TargetsClosed ==
  pc = "done" =>
    /\ old.open \subseteq DOMAIN open
    /\ DOMAIN open \ old.open \subseteq
         (IF query.kind = "join" /\ query.list = <<>> THEN {query.target} ELSE {})
           \cup (IF query.kind = "select" /\ query.list # <<>> /\ ret # "SUCCESS"
                 THEN {"temp"} ELSE {})

\* Every index belongs to a relation that knows it, in the cache while it is
\* open and in the catalog otherwise, and lists its records in ascending order,
\* as long as nothing was lost on a full disk.
IndexExact ==
  LET roots(r) == IF r \in DOMAIN open THEN open[r].roots ELSE rels[r].roots IN
  ~lost =>
    /\ DOMAIN trees = UNION {{r} \X roots(r) : r \in DOMAIN rels}
    /\ \A t \in DOMAIN trees :
         LET recs == rels[t[1]].recs
             leaf == trees[t]
         IN /\ Len(leaf) = Len(recs) /\ ToSet(leaf) = DOMAIN recs
            /\ \A k \in 1 .. Len(leaf) - 1 : recs[leaf[k]][t[2]] <= recs[leaf[k + 1]][t[2]]

\* "this loop is to get every record of the srcRelation1 one by one"
\* (Algebra.cpp:627): a join never inserts more than the join of its sources.
OneByOne ==
  pc \in {"scan", "match"} /\ call.kind = "join" =>
    ToBag(rels[call.target].recs) \sqsubseteq Answer(call)
=============================================================================
