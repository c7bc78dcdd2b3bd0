\* One writer that may start over, one reader, on either platform.
SPECIFICATION Spec
CONSTANTS
  Creators = {w}
  Openers = {r}
  Platforms = {"posix", "windows"}
  SIZE = 4
  WORD = 16
  MaxChunk = 3
  MaxBytes = 5
  MaxSegments = 2
INVARIANTS NameKept
PROPERTIES StreamSpec
CHECK_DEADLOCK FALSE
