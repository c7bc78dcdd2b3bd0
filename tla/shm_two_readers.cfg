\* Two readers of one segment.
SPECIFICATION Spec
CONSTANTS
  Creators = {w}
  Openers = {r,r2}
  Platforms = {"posix"}
  SIZE = 4
  WORD = 16
  MaxChunk = 1
  MaxBytes = 3
  MaxSegments = 1
INVARIANTS BytesInOrder
CHECK_DEADLOCK FALSE
