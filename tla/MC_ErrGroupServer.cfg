\* The errgroup server with three client connections; the program ends when main returns.
CONSTANTS
  Conns = {c1, c2, c3}

SPECIFICATION Spec
CHECK_DEADLOCK FALSE
INVARIANT TypeOK
PROPERTY ExitAfterServeEnds
