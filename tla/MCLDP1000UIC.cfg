CONSTANTS
  Arguments <- MCArguments
  TextSize = 1
  IdxModulus = 5
SPECIFICATION Spec
INVARIANTS
  TypeOK
  
