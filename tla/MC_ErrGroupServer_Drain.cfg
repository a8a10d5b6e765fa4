\* One client connection: is an accepted request served before main returns?
CONSTANTS
  Conns = {c1}

SPECIFICATION Spec
CHECK_DEADLOCK FALSE
INVARIANT InFlightRequestsDrained
