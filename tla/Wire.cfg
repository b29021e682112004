SPECIFICATION WireSpec
CONSTANTS
  Tokens = {"t1", "t2"}
  Params <- Values
  Answers <- Values
  Parts <- Inside
  MaxCalls = 3
INVARIANTS
  RoundTrip
  SealedBlameHasCause
  ReadableIsBlamed
CHECK_DEADLOCK FALSE
