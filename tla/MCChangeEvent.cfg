SPECIFICATION Spec
CONSTANTS
  NumKeys = 2
  Messages <- MCMessages
INVARIANTS
  MessagesAreAccountedFor
  OneDocumentPerRow
  DeletesFollowUpserts
CHECK_DEADLOCK FALSE
