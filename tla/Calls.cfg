SPECIFICATION Spec
CONSTANTS
  Numbers <- MCNumbers
  Pointers <- MCPointers
  Formats <- MCFormats
  LogFormats <- MCLogFormats
  Strings <- MCStrings
  Screens <- MCScreens
  Lines <- MCLines
  Boxes <- MCBoxes
  Octets <- MCOctets
  Moves <- MCMoves
  Ops <- MCOps
  MountLists <- MCMountLists
  Bitmaps <- MCBitmaps
  FrameSizes <- MCFrameSizes
  Modules <- MCModules
  Arguments <- MCArguments
  Texts <- MCTexts
  Chips <- MCChips
  TagLists <- MCTagLists
  Nodes <- MCNodes
  Directories <- MCDirectories
  Stale <- MCStale
  Roms <- MCRoms
  Pressed <- MCPressed
  FrameBuffer <- MCFrameBuffer
  RandomBytes = {85}
  RAM = 32
  START = 8
  SPEED = 6
  MAX_NODES = 4
  VGA_WIDTH = 3
  VGA_HEIGHT = 2
  PAGE = 16
  BOOT_STACK = 8
  WORD_BITS = 3
  Words = 3
  Image = 10
  SYM_INDICES = 8
INVARIANTS TextExact PixelsExact BytesExact FrameSearchCorrect  MachineExact ProgramsRun 
CHECK_DEADLOCK FALSE
