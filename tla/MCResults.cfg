\* Two policies, three loads, two types; three turns of the user.
SPECIFICATION RSpec
CONSTANTS
  Absent = Absent
  Broken = Broken
  Foreign = Foreign
  All = All
  Folders <- MCFolders
  NameOf <- MCNameOf
  Loads <- MCLoads
  Types <- MCTypes
  ArgLists <- MCArgLists
  Others <- MCOthers
  MaxTurns = 3
  MaxEntries = 4
INVARIANTS MetadataIsCurrent ColumnsAligned UpdatedInPlace FilesInStep
CHECK_DEADLOCK FALSE
