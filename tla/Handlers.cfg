\* Two requests at once: on the cookie of a browser, of one user or two, until a
\* session expires; or each importing up to two lines while sites are deleted.
\* Or two scans that get one of two bodies, or two workers of the former queue
\* that are fed two rows.
CONSTANTS
  Requests = {q1, q2}
  Imports = {q1, q2}
  Users = {u1, u2}
  OTPUsers = {u1, u2}
  Browsers = {b1}
  MaxId = 2
  LoginLife = 1
  StoreLife = 180
  MaxNow = 2
  MaxCrashes = 1
  Urls = {url1, url2}
  Refused = Refused
  Malformed = Malformed
  MaxLines = 2
  Hashes = {h1, h2}
  Writers = {w1, w2}
  Chunks = 3
  MaxRows = 3
  Jobs = {j1, j2}
  JobNames = {}
  NoName = NoName
  NoJob = NoJob
  Pushers = {"heartbeat"}
  Workers = 2
  ChanCap = 1
SPECIFICATION MCSpec
SYMMETRY Symmetry
CHECK_DEADLOCK FALSE
INVARIANTS SessionsAreListed
PROPERTIES EnteredTokensStay
INVARIANTS DoneLinesAreStored CountsItsSites IntactPagesAreWhole StartedAreHeld
