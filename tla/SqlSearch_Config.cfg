\* main run three times against one database file, with every call allowed
\* to fail; go-sqlite3 registers the driver name "sqlite3".  The program
\* stops after its last run.
CONSTANTS
  Nil = Nil
  Drivers = {"sqlite3"}
  MaxRuns = 3

SPECIFICATION Spec
CHECK_DEADLOCK FALSE
INVARIANT ConfigApplied
