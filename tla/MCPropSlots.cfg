\* a file whose lines repeat a property or hold its value already
SPECIFICATION Spec
CONSTANTS
  LineSz = 3
  BufSz = 2
  Names = {n1, n2}
  Values = {a, b, c}
  MaxProps = 2
INVARIANTS
  SkipsPastLimit
CHECK_DEADLOCK FALSE
