SPECIFICATION Spec
CONSTANTS
  r1 = r1
  r2 = r2
  Rel <- MCRel
  NumAttrs <- MCNumAttrs
  Absent = Absent
  Closed = Closed
  MAX_OPEN = 4
  MaxRecs = 1
  CrashPoints = {"running", "closing", "flushing"}
INVARIANTS
  TypeOK
  SessionConsistent
  SavedConsistent
PROPERTIES
  ImplementsSessionStore
  ExitSaves
