CONSTANTS
  Att = {a1, a2}
  Phone = {p1}
  NoAtt = NoAtt
  NoPhone = NoPhone
  MaxCh = 1
  MaxPhones = 1
  InboxCap = 1
  MaxFrames = 1
SPECIFICATION FairSpec
INVARIANTS LiveSessionRegistered
PROPERTIES PhoneGoneEndsLink LinkEndedClosesPhone
CHECK_DEADLOCK FALSE
