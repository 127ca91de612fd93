CONSTANTS
  Conn = {c1, c2}
  Revoker = {r1, r2}
  Outside = {r2}
  Phone = {p1, p2}
  Code = {k1}
  NoCode = NoCode
  NoPhone = NoPhone
SPECIFICATION Spec
SYMMETRY Symmetry
INVARIANTS TrustIsEarned
PROPERTIES OfferedCodesAreLive ForgottenNeedsCode
