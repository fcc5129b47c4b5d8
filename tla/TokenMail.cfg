\* One token and its mail, against jobs.go:58.
CONSTANTS
  Emails = {e1}
  Passwords = {pw1}
  Tokens = {t1}
  Requests = {q1}
  MaxNow = 2
  MaxMails = 1
  NoPassword = NoPassword
  NoToken = NoToken
SPECIFICATION Spec
SYMMETRY Symmetry
PROPERTY TokenMailsAreUsable
