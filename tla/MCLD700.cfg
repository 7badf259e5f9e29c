CONSTANTS
  Bytes <- MCBytes
  Statuses <- MCStatuses
SPECIFICATION Spec
INVARIANTS
  TypeOK
  FreshCommandHasWholeWindow
