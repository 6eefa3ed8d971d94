SPECIFICATION Spec
CONSTANTS
  r1 = r1
  r2 = r2
  Rel <- MCOneRel
  NumAttrs <- MCOneNumAttrs
  Absent = Absent
  Closed = Closed
  MAX_OPEN = 4
  MaxRecs = 2
  CrashPoints = {"running", "closing", "flushing", "copying"}
INVARIANTS
  PreviousStateKept
