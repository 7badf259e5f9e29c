CONSTANTS
  Size = 4
  Values = {1, 2}
  None = none
  ClearsCount = TRUE
  Unread = 4
SPECIFICATION Spec
INVARIANT RingHoldsUnread
PROPERTY IsFifo
