SPECIFICATION MCSpec
CONSTANTS
  Code <- MCCode
  MimeTable <- MCMimeTable
  HeaderTable <- MCHeaderTable
  MimeSize = 2
  HeaderSize = 3
  MaxPath = 8
  MaxHostPath = 4
  MaxHeader = 6
INVARIANTS
  PathRead
  ClimbIsCut
  QueryRead
  ExtensionRead
  MimeFound
  HeaderRead
  EmptyLineIsEmpty
  NoHeaderIsFound
CHECK_DEADLOCK FALSE
