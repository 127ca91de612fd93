CONSTANTS
  Att = {a1}
  Phone = {p1, p2, p3}
  NoAtt = NoAtt
  NoPhone = NoPhone
  MaxCh = 2
  MaxPhones = 2
  InboxCap = 1
  MaxFrames = 0
SPECIFICATION Spec
SYMMETRY Symmetry
INVARIANTS TypeOK ChannelsAgree ChannelsAreOwn
CHECK_DEADLOCK FALSE
