------------------------------ MODULE Accounts ------------------------------
(***************************************************************************)
(* Accounts and password resets: the tables `users` and `password_resets`, *)
(* the routes of auth_routes.go that write them (register, ask for a       *)
(* reset, reset with a token, verify an address, sign in) and the mail     *)
(* jobs they push.  Requests run concurrently, and each statement a        *)
(* handler sends to MySQL or Redis is a step of its own.                   *)
(*                                                                         *)
(* An address stands for the account it names, the index of users being    *)
(* unique.  Handlers that refuse their input change nothing and are left   *)
(* out: an unknown address, a password too short or not confirmed, a token *)
(* that is not valid, a wrong password.  The sessions of logins are in     *)
(* module Sessions.                                                        *)
(***************************************************************************)
EXTENDS Integers, FiniteSets

CONSTANTS
  Emails,     \* addresses
  Passwords,  \* passwords long enough to be accepted
  NoPassword, \* of an account that does not exist
  Tokens,     \* reset tokens; bounds how many are issued
  NoToken,    \* no token at all
  Requests,   \* requests the server handles at once
  MaxMails,   \* bounds the mail jobs that wait at once
  MaxNow      \* bound of the clock

ASSUME AccountsAssumption ==
  /\ Emails # {}
  /\ NoPassword \notin Passwords
  /\ NoToken \notin Tokens
  /\ IsFiniteSet(Requests)
  /\ MaxMails \in Nat /\ MaxNow \in Nat

VARIABLES
  users,      \* table users, by address
  resets,     \* table password_resets, by token
  mails,      \* mail jobs that wait in the queue
  req,        \* what each request is doing
  now,        \* time.Now(), in units of 5 minutes
  used        \* history: tokens that set a password, by a request that lives

vars == <<users, resets, mails, req, now, used>>

TokenLife == 2   \* 10 minutes

(* seen: last_logged_in_at is set. *)
UserRow == [password : Passwords \cup {NoPassword}, verified : BOOLEAN,
            seen : BOOLEAN]

ResetRow == [at : {"unborn", "live", "gone"}, email : Emails, created : Nat]

RequestSteps == {"idle", "create", "welcome",
                 "clear", "issue", "mail_token",
                 "load", "save", "spend", "mail_notice", "stamp"}

(* copy is the handler's User; its password is the new one in a reset. *)
RequestRow == [pc : RequestSteps, email : Emails, copy : UserRow,
               token : Tokens \cup {NoToken}, at : Nat]

MailRow == [kind : {"verify", "token", "notice"}, email : Emails,
            token : Tokens \cup {NoToken}]

NoUser == [password |-> NoPassword, verified |-> FALSE, seen |-> FALSE]

Idle(e) == [pc |-> "idle", email |-> e, copy |-> NoUser, token |-> NoToken,
            at |-> 0]

AnEmail == CHOOSE e \in Emails : TRUE

Init ==
  /\ users = [e \in Emails |-> NoUser]
  /\ resets = [t \in Tokens |->
                 [at |-> "unborn", email |-> AnEmail, created |-> 0]]
  /\ mails = {}
  /\ req = [q \in Requests |-> Idle(AnEmail)]
  /\ now = 0 /\ used = {}

TypeOK ==
  /\ users \in [Emails -> UserRow]
  /\ resets \in [Tokens -> ResetRow]
  /\ mails \subseteq MailRow
  /\ req \in [Requests -> RequestRow]
  /\ now \in 0..MaxNow
  /\ used \subseteq Tokens

-----------------------------------------------------------------------------
(* Users.EmailExists, Users.GetByEmail. *)
Registered(e) == users[e].password # NoPassword

(* Users.IsValidReset. *)
ValidReset(e, t) ==
  /\ resets[t].at = "live" /\ resets[t].email = e
  /\ resets[t].created > now - TokenLife

Deleted(reset) == [reset EXCEPT !.at = "gone", !.created = 0]

Goto(q, step) == req' = [req EXCEPT ![q].pc = step]

Done(q) == req' = [req EXCEPT ![q] = Idle(AnEmail)]

(* Queue.Push of a mail job; Redis may lose it. *)
Push(mail) ==
  \/ mails' = mails
  \/ /\ Cardinality(mails) < MaxMails
     /\ mails' = mails \cup {mail}

-----------------------------------------------------------------------------
(* POST /auth/register: Users.Create. *)
BeginRegister(q, e, password) ==
  /\ req[q].pc = "idle" /\ ~Registered(e)
  /\ req' = [req EXCEPT ![q] = [Idle(e) EXCEPT
               !.pc = "create", !.copy = [NoUser EXCEPT !.password = password]]]
  /\ UNCHANGED <<users, resets, mails, now, used>>

(* Mutant of CreateUser: the row is saved, not inserted. *)
CreateOrReplaceUser(q) ==
  /\ req[q].pc = "create"
  /\ users' = [users EXCEPT ![req[q].email] = req[q].copy]
  /\ Goto(q, "welcome")
  /\ UNCHANGED <<resets, mails, now, used>>

(* u.DB.Create(user).  The unique index refuses the row when another request
   was faster; the error is dropped. *)
CreateUser(q) ==
  LET e == req[q].email
  IN /\ req[q].pc = "create"
     /\ users' = IF Registered(e) THEN users
                 ELSE [users EXCEPT ![e] = req[q].copy]
     /\ Goto(q, "welcome")
     /\ UNCHANGED <<resets, mails, now, used>>

Welcome(q) ==
  /\ req[q].pc = "welcome"
  /\ Push([kind |-> "verify", email |-> req[q].email, token |-> NoToken])
  /\ Done(q)
  /\ UNCHANGED <<users, resets, now, used>>

(* GET /auth/verify_email/:id: an UPDATE of its own column only. *)
VerifyEmail(e) ==
  /\ Registered(e)
  /\ users' = [users EXCEPT ![e].verified = TRUE]
  /\ UNCHANGED <<resets, mails, req, now, used>>

-----------------------------------------------------------------------------
(* POST /auth/reset_password: Users.RequestResetPassword.  The time of the
   token is taken before the old ones are deleted. *)
BeginAsk(q, e) ==
  /\ req[q].pc = "idle" /\ Registered(e)
  /\ req' = [req EXCEPT ![q] = [Idle(e) EXCEPT !.pc = "clear", !.at = now]]
  /\ UNCHANGED <<users, resets, mails, now, used>>

(* Mutant of ClearTokens: only what has expired is deleted. *)
ClearExpiredTokens(q) ==
  /\ req[q].pc = "clear"
  /\ resets' = [t \in Tokens |->
       IF /\ resets[t].at = "live" /\ resets[t].email = req[q].email
          /\ resets[t].created <= now - TokenLife
         THEN Deleted(resets[t]) ELSE resets[t]]
  /\ Goto(q, "issue")
  /\ UNCHANGED <<users, mails, now, used>>

ClearTokens(q) ==
  /\ req[q].pc = "clear"
  /\ resets' = [t \in Tokens |->
       IF resets[t].at = "live" /\ resets[t].email = req[q].email
         THEN Deleted(resets[t]) ELSE resets[t]]
  /\ Goto(q, "issue")
  /\ UNCHANGED <<users, mails, now, used>>

IssueToken(q, t) ==
  /\ req[q].pc = "issue" /\ resets[t].at = "unborn"
  /\ resets' = [resets EXCEPT ![t] =
       [at |-> "live", email |-> req[q].email, created |-> req[q].at]]
  /\ req' = [req EXCEPT ![q].pc = "mail_token", ![q].token = t]
  /\ UNCHANGED <<users, mails, now, used>>

MailToken(q) ==
  /\ req[q].pc = "mail_token"
  /\ Push([kind |-> "token", email |-> req[q].email, token |-> req[q].token])
  /\ Done(q)
  /\ UNCHANGED <<users, resets, now, used>>

-----------------------------------------------------------------------------
(* POST /auth/reset_password/t/:token: Users.ResetPassword. *)
BeginReset(q, e, t, password) ==
  /\ req[q].pc = "idle" /\ ValidReset(e, t)
  /\ req' = [req EXCEPT ![q] = [Idle(e) EXCEPT
               !.pc = "load", !.token = t, !.copy.password = password]]
  /\ UNCHANGED <<users, resets, mails, now, used>>

(* u.GetByEmail, and user.SetPassword on the copy. *)
LoadUser(q) ==
  /\ req[q].pc = "load"
  /\ req' = [req EXCEPT ![q].pc = "save",
       ![q].copy = [users[req[q].email] EXCEPT
                      !.password = req[q].copy.password]]
  /\ UNCHANGED <<users, resets, mails, now, used>>

(* u.DB.Save(user) writes every column of the row, as it was loaded. *)
SaveUser(q) ==
  /\ req[q].pc = "save"
  /\ users' = [users EXCEPT ![req[q].email] = req[q].copy]
  /\ Goto(q, "spend")
  /\ used' = used \cup {req[q].token}
  /\ UNCHANGED <<resets, mails, now>>

(* Mutant of SpendToken: the row is kept until it expires. *)
KeepToken(q) ==
  /\ req[q].pc = "spend"
  /\ resets' = resets
  /\ Goto(q, "mail_notice")
  /\ UNCHANGED <<users, mails, now, used>>

SpendToken(q) ==
  /\ req[q].pc = "spend"
  /\ resets' = [resets EXCEPT ![req[q].token] = Deleted(@)]
  /\ Goto(q, "mail_notice")
  /\ UNCHANGED <<users, mails, now, used>>

MailNotice(q) ==
  /\ req[q].pc = "mail_notice"
  /\ Push([kind |-> "notice", email |-> req[q].email, token |-> NoToken])
  /\ Done(q)
  /\ UNCHANGED <<users, resets, now, used>>

-----------------------------------------------------------------------------
(* POST /auth/login: Users.VerifyCredentials.  The handler keeps the row it
   loaded until user.logged_in is published. *)
BeginLogin(q, e, password) ==
  /\ req[q].pc = "idle" /\ Registered(e) /\ users[e].password = password
  /\ req' = [req EXCEPT ![q] = [Idle(e) EXCEPT
               !.pc = "stamp", !.copy = users[e]]]
  /\ UNCHANGED <<users, resets, mails, now, used>>

(* Mutant of Stamp: every column is saved, as it was loaded. *)
StampRow(q) ==
  /\ req[q].pc = "stamp"
  /\ users' = [users EXCEPT ![req[q].email] = [req[q].copy EXCEPT !.seen = TRUE]]
  /\ Done(q)
  /\ UNCHANGED <<resets, mails, now, used>>

(* Users.LoggedIn: an UPDATE of its own columns only. *)
Stamp(q) ==
  /\ req[q].pc = "stamp"
  /\ users' = [users EXCEPT ![req[q].email].seen = TRUE]
  /\ Done(q)
  /\ UNCHANGED <<resets, mails, now, used>>

-----------------------------------------------------------------------------
(* The worker handles a mail job. *)
SendMail(mail) ==
  /\ mail \in mails /\ mails' = mails \ {mail}
  /\ UNCHANGED <<users, resets, req, now, used>>

Spending == {q \in Requests : req[q].pc = "spend"}

(* The server dies: its requests are never finished. *)
ServerDies ==
  /\ req' = [q \in Requests |-> Idle(AnEmail)]
  /\ used' = used \ {req[q].token : q \in Spending}
  /\ UNCHANGED <<users, resets, mails, now>>

Tick ==
  /\ now < MaxNow /\ now' = now + 1
  /\ UNCHANGED <<users, resets, mails, req, used>>

RegisterStep(q) == CreateUser(q) \/ Welcome(q)

AskStep(q) ==
  ClearTokens(q) \/ (\E t \in Tokens : IssueToken(q, t)) \/ MailToken(q)

ResetStep(q) == LoadUser(q) \/ SaveUser(q) \/ SpendToken(q) \/ MailNotice(q)

Work ==
  \/ \E q \in Requests :
       \/ RegisterStep(q) \/ AskStep(q) \/ ResetStep(q) \/ Stamp(q)
       \/ \E e \in Emails :
            \/ BeginAsk(q, e)
            \/ \E p \in Passwords :
                 \/ BeginRegister(q, e, p) \/ BeginLogin(q, e, p)
                 \/ \E t \in Tokens : BeginReset(q, e, t, p)
  \/ \E e \in Emails : VerifyEmail(e)
  \/ \E mail \in mails : SendMail(mail)
  \/ Tick

Next == Work \/ ServerDies

Spec == Init /\ [][Next]_vars

-----------------------------------------------------------------------------
LiveTokens(e) == {t \in Tokens : resets[t].at = "live" /\ resets[t].email = e}
Issuing(e)    == {q \in Requests : req[q].pc = "issue" /\ req[q].email = e}

(* An account has at most as many tokens as there were requests at once, and
   with no two requests at once a single one: whoever issues a token has
   deleted the earlier ones, but not those issued since
   (Users.RequestResetPassword). *)
TokensBounded ==
  \A e \in Emails :
    Cardinality(LiveTokens(e)) + Cardinality(Issuing(e)) <= Cardinality(Requests)

(* The password of an account is replaced only by a reset that presented a
   token issued for its address: not by a second registration, which lost the
   race between EmailExists and Create, nor by a login or a verification that
   began before the reset (Users.Create, Users.ResetPassword, Users.LoggedIn). *)
PasswordsChangeByToken ==
  [][\A e \in Emails :
       Registered(e) /\ users'[e].password # users[e].password =>
         \E q \in Requests :
           /\ req[q].pc = "save" /\ req[q].email = e
           /\ resets[req[q].token].at # "unborn"
           /\ resets[req[q].token].email = e]_vars

(* A token that has set a password is deleted, or about to be, whatever other
   requests of its account do meanwhile: only a server that dies between the
   two statements leaves it valid (Users.ResetPassword). *)
UsedTokensAreSpent ==
  \A t \in used :
    resets[t].at = "gone" \/ \E q \in Spending : req[q].token = t

(* What the code does not keep.  jobs.go:58 writes "You have 10 minutes to
   reset your password": the token of a mail is valid when the mail is sent. *)
TokenMailsAreUsable ==
  [][\A mail \in mails \ mails' :
       mail.kind = "token" => ValidReset(mail.email, mail.token)]_vars

=============================================================================
