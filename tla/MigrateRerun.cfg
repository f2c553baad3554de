\* Runs one after the other; the first of two files cannot be executed twice.
CONSTANTS
  Runs = {p1, p2}
  Files = 2
  Repeatable = {2}
  Overlap = FALSE
SPECIFICATION MigrationSpec
INVARIANT SafeToRerun
CHECK_DEADLOCK FALSE
