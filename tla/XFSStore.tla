------------------------------ MODULE XFSStore ------------------------------
(***************************************************************************)
(* What the XFS commands promise: a set of named tables, each a list of    *)
(* attributes and a bag of rows; a command takes effect as a whole or not  *)
(* at all; a query answers from the rows that are there.  Indexes, blocks, *)
(* open relations and the temporary relation are not visible.  The command *)
(* and what it tells the user are: XFS implements this module.             *)
(***************************************************************************)
EXTENDS Integers, Bags, SequencesExt

CONSTANTS
  Rel, Absent, Lost,
  Bad      \* a line that is not a row

VARIABLES
  tables,  \* tables[r]: Absent or [attrs, rows]; Lost when the disk is overwritten
  cmd,     \* the last command: op and its operands
  ret      \* what it told the user

storeVars == <<tables, cmd, ret>>

Table(attrs, rows) == [attrs |-> attrs, rows |-> rows]

BagOf(seq) == [x \in ToSet(seq) |-> Cardinality({i \in DOMAIN seq : seq[i] = x})]

-----------------------------------------------------------------------------
(* The answers to queries.                                                 *)

At(t, a) == SelectInSeq(t.attrs, LAMBDA x : x = a)

Holds(op, x, v) ==
  CASE op = "EQ" -> x = v  [] op = "NE" -> x # v
    [] op = "LT" -> x < v  [] op = "LE" -> x <= v
    [] op = "GT" -> x > v  [] op = "GE" -> x >= v

\* c is <<attribute, operator, value>>, or <<>>
Where(t, c) ==
  IF c = <<>> THEN t
  ELSE Table(t.attrs,
             [x \in {y \in DOMAIN t.rows : Holds(c[2], y[At(t, c[1])], c[3])} |-> t.rows[x]])

\* all columns if no list is given
Columns(t, list) ==
  IF list = <<>> THEN t
  ELSE Table(list, BagOfAll(LAMBDA x : [i \in DOMAIN list |-> x[At(t, list[i])]], t.rows))

\* rows that agree on the join attributes; the second gives its other columns
Matching(t, u, j) ==
  LET pairs == {p \in (DOMAIN t.rows) \X (DOMAIN u.rows) :
                  p[1][At(t, j[1])] = p[2][At(u, j[2])]}
  IN  Table(t.attrs \o RemoveAt(u.attrs, At(u, j[2])),
            BagOfAll(LAMBDA p : p[1] \o RemoveAt(p[2], At(u, j[2])),
                     [p \in pairs |-> t.rows[p[1]] * u.rows[p[2]]]))

-----------------------------------------------------------------------------
(* The commands, with c for the operands.                                  *)

Has(r, attrs) == tables[r] # Absent /\ attrs \subseteq ToSet(tables[r].attrs)

\* the named columns are those of table t
Listed(t, list) == ToSet(list) \subseteq ToSet(t.attrs)

New(r, t) == tables[r] = Absent /\ tables' = [tables EXCEPT ![r] = t]

Create(c) == New(c.rel, Table(c.attrs, EmptyBag))

Drop(c) == tables[c.rel] # Absent /\ tables' = [tables EXCEPT ![c.rel] = Absent]

Rename(c) ==
  /\ tables[c.rel] # Absent /\ tables[c.new] = Absent
  /\ tables' = [tables EXCEPT ![c.rel] = Absent, ![c.new] = tables[c.rel]]

RenameColumn(c) ==
  /\ Has(c.rel, {c.old}) /\ ~Has(c.rel, {c.new})
  /\ tables' = [tables EXCEPT ![c.rel].attrs = [@ EXCEPT ![At(tables[c.rel], c.old)] = c.new]]

\* the first n lines
Insert(c, n) ==
  LET lines == SubSeq(c.lines, 1, n) IN
  /\ tables[c.rel] # Absent /\ Bad \notin ToSet(lines)
  /\ tables' = [tables EXCEPT ![c.rel].rows = @ (+) BagOf(lines)]

Import(c) ==
  /\ Bad \notin ToSet(c.file.lines)
  /\ New(c.rel, Table(c.file.attrs, BagOf(c.file.lines)))

Select(c) ==
  LET t == tables[c.src] IN
  /\ Has(c.src, IF c.where = <<>> THEN {} ELSE {c.where[1]}) /\ Listed(t, c.list)
  /\ New(c.target, Columns(Where(t, c.where), c.list))

Join(c) ==
  LET t == Matching(tables[c.src], tables[c.src2], c.on) IN
  /\ Has(c.src, {c.on[1]}) /\ Has(c.src2, {c.on[2]}) /\ Listed(t, c.list)
  /\ New(c.target, Columns(t, c.list))

Unseen == {"OPEN TABLE", "CLOSE TABLE", "CREATE INDEX", "DROP INDEX", "EXIT"}

Empty == [r \in Rel |-> Absent]

Succeeds(c) ==
  \/ c.op = "FDISK" /\ tables' = Empty
  \/ c.op \in Unseen /\ UNCHANGED tables
  \/ /\ tables # Lost
     /\ \/ c.op = "CREATE TABLE" /\ Create(c)
        \/ c.op = "DROP TABLE" /\ Drop(c)
        \/ c.op = "RENAME TABLE" /\ Rename(c)
        \/ c.op = "RENAME COLUMN" /\ RenameColumn(c)
        \/ c.op = "INSERT" /\ Insert(c, Len(c.lines))
        \/ c.op = "IMPORT" /\ Import(c)
        \/ c.op = "SELECT" /\ Select(c)
        \/ c.op = "JOIN" /\ Join(c)

\* what a command leaves that says it has failed: nothing, but for the lines
\* that INSERT had before and the relation that IMPORT could not open
Fails(c, e) ==
  \/ UNCHANGED tables
  \/ c.op = "INSERT" /\ \E n \in 1 .. Len(c.lines) - 1 : Insert(c, n)
  \/ c.op = "IMPORT" /\ e = "openRel failed" /\ New(c.rel, Table(c.file.attrs, EmptyBag))

\* the first row of a table on a full disk overwrites the disk
Loses(c) == c.op \in {"INSERT", "IMPORT", "SELECT", "JOIN"} /\ tables # Lost /\ tables' = Lost

-----------------------------------------------------------------------------
Init == tables = Empty /\ cmd = [op |-> "FDISK"] /\ ret = "SUCCESS"

Next ==
  \/ ret' = "SUCCESS" /\ Succeeds(cmd')
  \/ ret' = "LOST" /\ Loses(cmd')
  \/ ret' \notin {"SUCCESS", "LOST"} /\ Fails(cmd', ret')

Spec == Init /\ [][Next]_storeVars
=============================================================================
