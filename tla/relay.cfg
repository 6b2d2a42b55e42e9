SPECIFICATION FairSpec
CONSTANTS
  Buf = 2
  Heads = {1, 3}
  Bodies = {0, 2}
  Replies = {2}
INVARIANTS RequestKept ReplyKept BodyCounted
PROPERTIES StreamSpec PassedWhole DeliveredWhole
CHECK_DEADLOCK FALSE
