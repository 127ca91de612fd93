CONSTANTS
  Devices = 1
  Session = {s1}
  Tokens = 1
  Offer <- OfferTwo
  MaxEvents = 2
SPECIFICATION FairSpec
INVARIANTS SentOnce
PROPERTIES HistoryIsNotNews NewsIsTried
CHECK_DEADLOCK FALSE
