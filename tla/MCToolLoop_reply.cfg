SPECIFICATION Spec
CONSTANTS
  None = None
  Readers = {1, 2}
  Setups <- MCReplySetups
PROPERTIES
  RepliesAreKept
CHECK_DEADLOCK FALSE
