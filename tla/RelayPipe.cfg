CONSTANTS
  Att = {a1}
  Phone = {p1, p2}
  NoAtt = NoAtt
  NoPhone = NoPhone
  MaxCh = 2
  MaxPhones = 2
  InboxCap = 1
  MaxFrames = 2
SPECIFICATION Spec
SYMMETRY Symmetry
INVARIANTS OtherPhoneSurvives
PROPERTIES ExactlyLikeDirect
CHECK_DEADLOCK FALSE
