\* Windows: open() before create().
SPECIFICATION Spec
CONSTANTS
  Creators = {w}
  Openers = {r}
  Platforms = {"windows"}
  SIZE = 4
  WORD = 16
  MaxChunk = 1
  MaxBytes = 1
  MaxSegments = 1
INVARIANTS OpenedWasCreated
CHECK_DEADLOCK FALSE
