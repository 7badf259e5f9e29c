CONSTANTS
  Size = 4
  Values = {1, 2}
  None = none
  ClearsCount = FALSE
  Unread = 4
SPECIFICATION Spec
INVARIANT CanReadIsHonest
