\* Records smaller and larger than the page of 10 bytes.
SPECIFICATION Spec
CONSTANTS
  Scripts <- AllScripts
  Page = 10
  Records = {1, 4, 7, 13}
  MaxUnread = 2
  Garbage = {1, 8}
INVARIANTS
  HandledInOrder
  BufferHoldsUnhandled
  SentIsHandledOrPending
CHECK_DEADLOCK FALSE
