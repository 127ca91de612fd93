CONSTANTS
  MaxChild = 2
  Cap = 1
  Request = {q1}
  Kind = {"ping", "text", "keys", "close"}
SPECIFICATION FairSpec
PROPERTIES TunnelEndsWithGateway DialEnds  RequestsAreAnswered PhoneIsHeard
CHECK_DEADLOCK FALSE
