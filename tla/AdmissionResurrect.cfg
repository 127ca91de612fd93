CONSTANTS
  Conn = {c1, c2}
  Revoker = {r1}
  Outside = {}
  Phone = {p1, p2}
  Code = {k1, k2}
  NoCode = NoCode
  NoPhone = NoPhone
SPECIFICATION Spec
PROPERTIES OnlyPairingAdds
