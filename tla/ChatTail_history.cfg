SPECIFICATION Spec
CONSTANTS
  Run = {r1, r2, r3}
  NoTail = NoTail
  MaxTail = 3
  Budget <- OneOfEach
SYMMETRY RunSymmetry
INVARIANT TailInOrder
INVARIANT OwnQuestion
INVARIANT HistoryComplete
PROPERTY NewerTailKept
CHECK_DEADLOCK FALSE
