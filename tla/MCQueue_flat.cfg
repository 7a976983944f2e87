\* Three slots, so at most two unread items; the indices wrap twice.
SPECIFICATION Spec
CONSTANTS
  BUF_SIZE = 3
  ITEMS = 7
INVARIANTS
  TypeOK
  RingHoldsUnreadItems
  ReceivedInOrder
PROPERTIES
  BoundedQueueSpec
  BothThreadsReturn
