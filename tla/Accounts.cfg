\* Two requests at once for one account until a token expires, or two posts of
\* its settings at once while a request changes the account, or two posts at
\* once of two accounts, which name rows and organizations.
CONSTANTS
  Emails = {e1, e2}
  Passwords = {x, y}
  Tokens = {t1, t2, t3}
  Requests = {q1, q2}
  MaxNow = 2
  MaxMails = 1
  NoPassword = NoPassword
  NoToken = NoToken
  Posts = {q1, q2}
  Forms = {x, y}
  NoConfig = NoConfig
  Orgs = {o1, o2}
  MaxConfigs = 2
SPECIFICATION MCSpec
SYMMETRY Symmetry
INVARIANTS TokensBounded UsedTokensAreSpent
PROPERTIES PasswordsChangeByToken 
