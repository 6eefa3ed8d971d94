------------------------------- MODULE MCXFS --------------------------------
(***************************************************************************)
(* The XFS interface for TLC: every sequence of MaxCommands commands that  *)
(* change something, from the formatted disk and from disks that commands  *)
(* have filled.                                                            *)
(***************************************************************************)
EXTENDS XFS

CONSTANT MaxCommands

VARIABLES
  tables,  \* history variable: the tables that the disk stands for
  count    \* commands that changed the disk or the open relation table

MCRecSlots == <<4, 3, 2, 1>>
MCLists    == {<<"b">>, <<"c", "a">>}
MCRows     == {<<3>>, <<1, 3, 2>>}
MCFiles    == {[attrs |-> <<"b">>, lines |-> << <<2>>, <<1>> >>],
               [attrs |-> <<"b">>, lines |-> << <<1>>, Bad >>]}
MCConds    == {<<"b", "GE", 2>>}
MCJoins    == {<<"b", "b">>}
MCCreated  == {<<"R", <<"a", "b", "c">> >>, <<"S", <<"b">> >>}
MCTargets  == {"T"}
MCIndexed  == {"b"}
MCRenamed  == {<<"b", "d">>}

\* S with seven rows, which make an index with a full root, and R with one
Filled ==
  LET d1 == InsertAll(CreateRel(FormattedDisk, "S", <<"b">>).disk, "S",
                      << <<1>>, <<1>>, <<2>>, <<2>>, <<3>>, <<3>>, <<3>> >>).disk
      d2 == CreateRel(d1, "R", <<"a", "b", "c">>).disk
  IN  InsertAll(d2, "R", << <<1, 2, 3>> >>).disk

Starts == {FormattedDisk, Filled, CreateIndex(Filled, "S", "b").disk}

MCInit ==
  /\ disk \in Starts
  /\ table = IF disk = FormattedDisk THEN EmptyTable ELSE OpenRel(OpenRel(EmptyTable, "S"), "R")
  /\ tables = StoredTables(disk)
  /\ cmd = [op |-> "FDISK"] /\ ret = "SUCCESS"
  /\ count = 0

Step ==
  /\ count < MaxCommands
  /\ Next
  /\ tables' = IF disk' = disk THEN tables ELSE StoredTables(disk')
  /\ count' = IF <<disk, table>>' = <<disk, table>> THEN count ELSE count + 1

\* the bound is reached
Halt == count = MaxCommands /\ UNCHANGED <<vars, tables, count>>

MCNext == Step \/ Halt

MCSpec == MCInit /\ [][MCNext]_<<vars, tables, count>>

Store == INSTANCE XFSStore

\* A command that says it has succeeded has done to the tables what XFSStore
\* says of this command and its operands: a query has exactly its own answer as
\* its target, whichever way it was searched for.  One that says it has failed
\* on the way is undone, but for the lines of a file that INSERT had before and
\* the empty relation of an IMPORT that could not open it.  No other table changes.
ImplementsStore ==
  (disk = FormattedDisk => Store!Init) /\ [][Store!Next]_<<tables, cmd, ret>>
=============================================================================
