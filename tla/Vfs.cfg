CONSTANTS
  BLOCK = 4
  Archives <- MCArchives
  Devices <- MCDevices
  Paths <- MCPaths
  DevName = "dev/"
  Directories <- MCDirectories
  Inside <- MCInside
SPECIFICATION Spec
INVARIANTS WalksAgree CatReadsContent
PROPERTIES OpenFindsFile ListingExact CallsEnd
