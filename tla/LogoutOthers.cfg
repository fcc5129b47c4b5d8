\* Two users in two browsers, one request at a time.
CONSTANTS
  Users = {u1, u2}
  OTPUsers = {u1}
  Browsers = {b1, b2}
  Requests = {q1}
  MaxId = 2
  LoginLife = 1
  StoreLife = 180
  MaxNow = 2
  MaxCrashes = 1
SPECIFICATION SessionsSpec
SYMMETRY Symmetry
PROPERTIES OnlyEndedAreUnlisted
