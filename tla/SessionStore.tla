---------------------------- MODULE SessionStore ----------------------------
(***************************************************************************)
(* What a session promises its user: it starts from the database as the    *)
(* last saved session left it, changes it, and saves all of the changes    *)
(* when it ends; a session that is killed saves none.  DiskSession         *)
(* implements this module.                                                 *)
(***************************************************************************)
EXTENDS Integers

CONSTANTS Rel, Absent

VARIABLES
  status,    \* "off", "on", "saved" or "crashed"
  working,   \* the database the user works on
  saved      \* the database on the disk

storeVars == <<status, working, saved>>

\* for each relation its number of records, or Absent
Database == [Rel -> Nat \cup {Absent}]

Init ==
  /\ status = "off"
  /\ saved \in Database
  /\ working = saved

Start ==
  /\ status \in {"off", "crashed"}
  /\ status' = "on"
  /\ UNCHANGED <<working, saved>>

\* one relation is created, dropped, or gets one record more
Change(r) ==
  /\ status = "on"
  /\ \/ working[r] = Absent /\ working' = [working EXCEPT ![r] = 0]
     \/ working[r] # Absent /\ working' = [working EXCEPT ![r] = Absent]
     \/ working[r] # Absent /\ working' = [working EXCEPT ![r] = @ + 1]
  /\ UNCHANGED <<status, saved>>

Save ==
  /\ status = "on"
  /\ status' = "saved"
  /\ saved' = working
  /\ UNCHANGED working

Quit ==
  /\ status = "saved"
  /\ status' = "off"
  /\ UNCHANGED <<working, saved>>

Crash ==
  /\ status \in {"on", "saved"}
  /\ status' = "crashed"
  /\ working' = saved
  /\ UNCHANGED saved

Next == Start \/ Save \/ Quit \/ Crash \/ \E r \in Rel : Change(r)

Spec == Init /\ [][Next]_storeVars
=============================================================================
