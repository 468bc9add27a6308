\* every file and every cut into blocks, four slots, two properties of three values and every refusal
SPECIFICATION Spec
CONSTANTS
  LineSz = 4
  BufSz = 3
  Names = {n1, n2}
  Values = {a, b, c}
  MaxProps = 4
INVARIANTS
  LinesWhole
  OverridesUndone
CHECK_DEADLOCK FALSE
