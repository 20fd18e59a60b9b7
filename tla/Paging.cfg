CONSTANTS
  TABLE = 2
  TABLES = 3
  FRAMES = 7
  Counts = {0, 1, 2, 3}
SPECIFICATION Spec
VIEW view
INVARIANT FramesAccounted
PROPERTIES CallsContained NullFrameKept
CHECK_DEADLOCK FALSE
