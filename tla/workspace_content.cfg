SPECIFICATION FairSpec
CONSTANTS
  Paths <- MCPaths
  TextPaths <- MCEntryPaths
  EntryPaths <- MCEntryPaths
  Starters <- MCStarters
  Handlers = {h1, h2}
  Parties = {"reader", "browser"}
  None = None
  Buffer = 1
  MaxChanges = 4
  MaxVersion = 3
  MaxRestarts = 1
CONSTRAINT Scope
INVARIANTS
  EntryFileExists
  CopyIsWhole
PROPERTIES
  TreeConverges
CHECK_DEADLOCK FALSE
