SPECIFICATION TokenSpec
CONSTANTS
  Versions = 2
  t1 = t1
  t2 = t2
  t3 = t3
  Tokens = {t1, t2, t3}
  r1 = r1
  r2 = r2
  Requests = {r1, r2}
  Bootstrap = "bootstrap"
  Names = {"bootstrap", "ci"}
  Grants <- MCGrants
  Pins = {pin}
  NoPin = NoPin
  Legacy = Legacy
  NoSecret = NoSecret
  NoEvent = NoEvent
  NoToken = NoToken
  MaxTroubles = 0
SYMMETRY Symmetry
INVARIANT LastAdminStays
CHECK_DEADLOCK FALSE
