SPECIFICATION Spec
CONSTANTS
  Calls = {9, 40}
  Tokens = {3000}
  Latencies = {100, 9000}
  MaxCalls = 50
  MaxTokens = 6000
INVARIANTS
  OmissionDoesNotPay
CHECK_DEADLOCK FALSE
