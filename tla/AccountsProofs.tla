--------------------------- MODULE AccountsProofs ---------------------------
(***************************************************************************)
(* Proofs about Accounts and NotificationSettings: type correctness, that  *)
(* used tokens are spent, that only a token replaces a password, that the  *)
(* tokens of an account are bounded by the requests, and that the handler  *)
(* of the settings implements SettingsRegister.                            *)
(***************************************************************************)
EXTENDS NotificationSettings, FiniteSetTheorems, TLAPS

(* The steps of a reset in which the request has a token in hand. *)
Resetting == {"load", "save", "spend"}

(* The token t was issued for the address e. *)
IssuedFor(t, e) ==
  t \in Tokens /\ resets[t].at # "unborn" /\ resets[t].email = e

(* What a reset knows of its token (Users.IsValidReset, asked before
   Users.ResetPassword). *)
TokensInHand ==
  \A q \in Requests :
    req[q].pc \in Resetting => IssuedFor(req[q].token, req[q].email)

AccountsInv == TypeOK /\ TokensInHand /\ UsedTokensAreSpent

(* What a step may do to the table password_resets: a token that was issued
   keeps its address, and one that is gone stays away. *)
ResetsMoveOn ==
  /\ resets' \in [Tokens -> ResetRow]
  /\ \A t \in Tokens :
       resets[t].at # "unborn" =>
         /\ resets'[t].at # "unborn" /\ resets'[t].email = resets[t].email
         /\ resets[t].at = "gone" => resets'[t].at = "gone"

-----------------------------------------------------------------------------
(* The placeholder address of an idle request is an address. *)
LEMMA AnEmailIsOne == AnEmail \in Emails
BY AccountsAssumption DEF AnEmail

(* The rows that the handlers make of a request's row are well formed. *)
LEMMA RequestRowFacts ==
  /\ NoUser \in UserRow
  /\ \A e \in Emails : Idle(e) \in RequestRow /\ Idle(e).pc = "idle"
  /\ \A row \in RequestRow, step \in RequestSteps :
       /\ [row EXCEPT !.pc = step] \in RequestRow
       /\ [row EXCEPT !.pc = step].pc = step
       /\ [row EXCEPT !.pc = step].token = row.token
       /\ [row EXCEPT !.pc = step].email = row.email
BY DEF NoUser, UserRow, Idle, RequestRow, RequestSteps

(* A step of one request keeps AccountsInv when the token the request comes to
   have in hand was issued for it, and when a request that spent its token has
   deleted it. *)
LEMMA RequestMoves ==
  ASSUME AccountsInv, NEW q \in Requests, NEW row \in RequestRow,
         req' = [req EXCEPT ![q] = row],
         users' \in [Emails -> UserRow], mails' \subseteq MailRow, now' = now,
         ResetsMoveOn,
         row.pc \in Resetting => IssuedFor(row.token, row.email),
         \/ used' = used
         \/ row.pc = "spend" /\ used' = used \cup {row.token},
         req[q].pc = "spend" => resets'[req[q].token].at = "gone"
  PROVE  AccountsInv'
<1>1. TypeOK'
  BY DEF AccountsInv, TypeOK, ResetsMoveOn, IssuedFor, Resetting
<1>2. TokensInHand'
  <2> SUFFICES ASSUME NEW r \in Requests, req'[r].pc \in Resetting
               PROVE  IssuedFor(req[r].token, req[r].email)'
    BY DEF TokensInHand
  <2>1. IssuedFor(req'[r].token, req'[r].email)
    BY DEF AccountsInv, TypeOK, TokensInHand
  <2> QED
    BY <2>1 DEF IssuedFor, ResetsMoveOn, AccountsInv, TypeOK
<1>3. UsedTokensAreSpent'
  <2> SUFFICES ASSUME NEW t \in used', resets'[t].at # "gone"
               PROVE  \E r \in Requests : req'[r].pc = "spend" /\ req'[r].token = t
    BY DEF UsedTokensAreSpent, Spending
  <2>1. CASE t \notin used
    BY <2>1 DEF AccountsInv, TypeOK
  <2>2. CASE t \in used
    <3>1. t \in Tokens /\ resets[t].at # "gone"
      <4>1. t \in Tokens
        BY <2>2 DEF AccountsInv, TypeOK
      <4>2. CASE resets[t].at = "gone"
        BY <4>1, <4>2 DEF ResetsMoveOn
      <4> QED BY <4>1, <4>2
    <3>2. PICK r \in Requests : req[r].pc = "spend" /\ req[r].token = t
      BY <2>2, <3>1 DEF AccountsInv, UsedTokensAreSpent, Spending
    <3>3. r # q
      BY <3>2
    <3> QED BY <3>2, <3>3 DEF AccountsInv, TypeOK
  <2> QED BY <2>1, <2>2
<1> QED BY <1>1, <1>2, <1>3 DEF AccountsInv

(* Every statement of a handler, every mail and every crash keeps AccountsInv. *)
LEMMA AccountsStep == AccountsInv /\ [Next]_vars => AccountsInv'
<1> SUFFICES ASSUME AccountsInv, [Next]_vars PROVE AccountsInv'
  OBVIOUS
<1>0. /\ users \in [Emails -> UserRow] /\ resets \in [Tokens -> ResetRow]
      /\ mails \subseteq MailRow /\ req \in [Requests -> RequestRow]
      /\ AnEmail \in Emails
  BY AnEmailIsOne DEF AccountsInv, TypeOK
<1> DEFINE Moved(q, step) == [req[q] EXCEPT !.pc = step]
<1>a. ASSUME NEW q \in Requests, NEW step \in RequestSteps
      PROVE  /\ Moved(q, step) \in RequestRow /\ Moved(q, step).pc = step
             /\ Moved(q, step).token = req[q].token
             /\ Moved(q, step).email = req[q].email
             /\ Goto(q, step) => req' = [req EXCEPT ![q] = Moved(q, step)]
  BY <1>0, RequestRowFacts DEF Goto
<1>b. ASSUME UNCHANGED resets PROVE ResetsMoveOn
  BY <1>0, <1>b DEF ResetsMoveOn
<1>c. ASSUME NEW mail \in MailRow, Push(mail) PROVE mails' \subseteq MailRow
  BY <1>0, <1>c DEF Push
<1>d. ASSUME NEW q \in Requests
      PROVE  /\ req[q] \in RequestRow /\ req[q].email \in Emails
             /\ req[q].token \in Tokens \cup {NoToken}
             /\ req[q].copy \in UserRow /\ req[q].at \in Nat
  BY <1>0 DEF RequestRow
<1> HIDE DEF Moved
<1> USE DEF Resetting
<1>1. ASSUME NEW q \in Requests, CreateUser(q) PROVE AccountsInv'
  <2>1. users' \in [Emails -> UserRow]
    BY <1>0, <1>1, <1>d DEF CreateUser
  <2> QED
    BY <1>0, <1>1, <1>a, <1>b, <2>1, RequestMoves DEF CreateUser, RequestSteps
<1>2. ASSUME NEW q \in Requests,
             Welcome(q) \/ MailToken(q) \/ MailNotice(q) \/ Stamp(q)
      PROVE  AccountsInv'
  <2>1. \A e \in Emails : [users[e] EXCEPT !.seen = TRUE] \in UserRow
    BY <1>0 DEF UserRow
  <2>2. users' \in [Emails -> UserRow]
    BY <1>0, <1>2, <1>d, <2>1 DEF Welcome, MailToken, MailNotice, Stamp
  <2>3. mails' \subseteq MailRow
    BY <1>0, <1>2, <1>d, <1>c DEF Welcome, MailToken, MailNotice, Stamp, MailRow
  <2>4. req' = [req EXCEPT ![q] = Idle(AnEmail)]
    BY <1>2 DEF Welcome, MailToken, MailNotice, Stamp, Done
  <2>5. ResetsMoveOn /\ UNCHANGED <<now, used>> /\ req[q].pc # "spend"
    BY <1>2, <1>b DEF Welcome, MailToken, MailNotice, Stamp
  <2> QED
    BY <1>0, <2>2, <2>3, <2>4, <2>5, RequestMoves, RequestRowFacts
<1>3. ASSUME NEW q \in Requests, ClearTokens(q) PROVE AccountsInv'
  <2>1. ResetsMoveOn
    BY <1>0, <1>3 DEF ClearTokens, Deleted, ResetsMoveOn, ResetRow
  <2> QED
    BY <1>0, <1>3, <1>a, <2>1, RequestMoves DEF ClearTokens, RequestSteps
<1>4. ASSUME NEW q \in Requests, NEW t \in Tokens, IssueToken(q, t)
      PROVE  AccountsInv'
  <2> DEFINE row == [req[q] EXCEPT !.pc = "mail_token", !.token = t]
  <2>1. ResetsMoveOn
    BY <1>0, <1>4, <1>d DEF IssueToken, ResetsMoveOn, ResetRow
  <2>2. row \in RequestRow /\ row.pc = "mail_token"
    BY <1>d DEF RequestRow, RequestSteps
  <2>3. req' = [req EXCEPT ![q] = row]
    BY <1>0, <1>4 DEF IssueToken
  <2> HIDE DEF row
  <2> QED
    BY <1>0, <1>4, <2>1, <2>2, <2>3, RequestMoves DEF IssueToken
<1>5. ASSUME NEW q \in Requests, LoadUser(q) PROVE AccountsInv'
  <2> DEFINE copy == [users[req[q].email] EXCEPT !.password = req[q].copy.password]
             row  == [req[q] EXCEPT !.pc = "save", !.copy = copy]
  <2>1. copy \in UserRow
    BY <1>0, <1>d DEF UserRow
  <2> HIDE DEF copy
  <2>2. /\ row \in RequestRow /\ row.pc = "save"
        /\ row.token = req[q].token /\ row.email = req[q].email
    BY <1>d, <2>1 DEF RequestRow, RequestSteps
  <2>3. req' = [req EXCEPT ![q] = row]
    BY <1>0, <1>5 DEF LoadUser, copy
  <2>4. IssuedFor(req[q].token, req[q].email)
    BY <1>5 DEF LoadUser, AccountsInv, TokensInHand
  <2> HIDE DEF row
  <2> QED
    BY <1>0, <1>5, <1>b, <2>2, <2>3, <2>4, RequestMoves DEF LoadUser
<1>6. ASSUME NEW q \in Requests, SaveUser(q) PROVE AccountsInv'
  <2>1. users' \in [Emails -> UserRow]
    BY <1>0, <1>6, <1>d DEF SaveUser
  <2>2. IssuedFor(req[q].token, req[q].email)
    BY <1>6 DEF SaveUser, AccountsInv, TokensInHand
  <2> QED
    BY <1>0, <1>6, <1>a, <1>b, <2>1, <2>2, RequestMoves DEF SaveUser, RequestSteps
<1>7. ASSUME NEW q \in Requests, SpendToken(q) PROVE AccountsInv'
  <2>1. req[q].token \in Tokens
    BY <1>7 DEF SpendToken, AccountsInv, TokensInHand, IssuedFor
  <2>2. ResetsMoveOn /\ resets'[req[q].token].at = "gone"
    BY <1>0, <1>7, <2>1 DEF SpendToken, Deleted, ResetsMoveOn, ResetRow
  <2> QED
    BY <1>0, <1>7, <1>a, <2>2, RequestMoves DEF SpendToken, RequestSteps
<1>8. ASSUME NEW q \in Requests, NEW e \in Emails, BeginAsk(q, e)
      PROVE  AccountsInv'
  <2> DEFINE row == [Idle(e) EXCEPT !.pc = "clear", !.at = now]
  <2>1. row \in RequestRow /\ row.pc = "clear"
    <3>1. now \in Nat
      BY AccountsAssumption DEF AccountsInv, TypeOK
    <3> QED
      BY <3>1, RequestRowFacts DEF Idle, RequestRow, RequestSteps
  <2> HIDE DEF row
  <2> QED
    BY <1>0, <1>8, <1>b, <2>1, RequestMoves DEF BeginAsk, row
<1>9. ASSUME NEW q \in Requests, NEW e \in Emails, NEW p \in Passwords,
             BeginRegister(q, e, p)
      PROVE  AccountsInv'
  <2> DEFINE copy == [NoUser EXCEPT !.password = p]
             row == [Idle(e) EXCEPT !.pc = "create", !.copy = copy]
  <2>1. copy \in UserRow
    BY DEF NoUser, UserRow
  <2> HIDE DEF copy
  <2>2. row \in RequestRow /\ row.pc = "create"
    BY <2>1 DEF Idle, RequestRow, RequestSteps
  <2>3. req' = [req EXCEPT ![q] = row]
    BY <1>9 DEF BeginRegister, copy
  <2> HIDE DEF row
  <2> QED
    BY <1>0, <1>9, <1>b, <2>2, <2>3, RequestMoves DEF BeginRegister
<1>10. ASSUME NEW q \in Requests, NEW e \in Emails, NEW p \in Passwords,
              BeginLogin(q, e, p)
       PROVE  AccountsInv'
  <2> DEFINE row == [Idle(e) EXCEPT !.pc = "stamp", !.copy = users[e]]
  <2>1. row \in RequestRow /\ row.pc = "stamp"
    BY <1>0 DEF Idle, RequestRow, RequestSteps
  <2> HIDE DEF row
  <2> QED
    BY <1>0, <1>10, <1>b, <2>1, RequestMoves DEF BeginLogin, row
<1>11. ASSUME NEW q \in Requests, NEW e \in Emails, NEW t \in Tokens,
              NEW p \in Passwords, BeginReset(q, e, t, p)
       PROVE  AccountsInv'
  <2> DEFINE copy == [NoUser EXCEPT !.password = p]
             row  == [Idle(e) EXCEPT !.pc = "load", !.token = t, !.copy = copy]
  <2>1. copy \in UserRow
    BY DEF NoUser, UserRow
  <2>2. req' = [req EXCEPT ![q] = row]
    BY <1>11 DEF BeginReset, Idle
  <2> HIDE DEF copy
  <2>3. row \in RequestRow /\ row.pc = "load" /\ row.token = t /\ row.email = e
    BY <2>1 DEF Idle, RequestRow, RequestSteps
  <2>4. IssuedFor(t, e)
    BY <1>11 DEF BeginReset, ValidReset, IssuedFor
  <2> HIDE DEF row
  <2> QED
    BY <1>0, <1>11, <1>b, <2>2, <2>3, <2>4, RequestMoves DEF BeginReset
<1>12. ASSUME NEW e \in Emails, VerifyEmail(e) PROVE AccountsInv'
  <2>1. [users[e] EXCEPT !.verified = TRUE] \in UserRow
    BY <1>0 DEF UserRow
  <2>2. users' \in [Emails -> UserRow]
    BY <1>0, <1>12, <2>1 DEF VerifyEmail
  <2> QED
    BY <1>12, <2>2 DEF VerifyEmail, AccountsInv, TypeOK, TokensInHand,
                       IssuedFor, UsedTokensAreSpent, Spending
<1>13. CASE (\E mail \in mails : SendMail(mail)) \/ Tick \/ UNCHANGED vars
  <2>1. /\ mails' \subseteq MailRow /\ now' \in 0..MaxNow
        /\ UNCHANGED <<users, resets, req, used>>
    BY <1>0, <1>13, AccountsAssumption
    DEF SendMail, Tick, vars, AccountsInv, TypeOK
  <2> QED
    BY <2>1 DEF AccountsInv, TypeOK, TokensInHand, IssuedFor,
                UsedTokensAreSpent, Spending
<1>14. CASE ServerDies
  <2>1. req' \in [Requests -> RequestRow] /\ \A q \in Requests : req'[q].pc = "idle"
    BY <1>0, <1>14, RequestRowFacts DEF ServerDies
  <2>2. TypeOK'
    BY <1>14, <2>1 DEF ServerDies, AccountsInv, TypeOK
  <2>3. TokensInHand'
    BY <2>1 DEF TokensInHand
  <2>4. UsedTokensAreSpent'
    BY <1>14 DEF ServerDies, AccountsInv, UsedTokensAreSpent
  <2> QED BY <2>2, <2>3, <2>4 DEF AccountsInv
<1> QED
  BY <1>1, <1>2, <1>3, <1>4, <1>5, <1>6, <1>7, <1>8, <1>9, <1>10, <1>11, <1>12,
     <1>13, <1>14
  DEF Next, Work, RegisterStep, AskStep, ResetStep

-----------------------------------------------------------------------------
(* Of every behaviour of the account routes: the tables keep their types, a
   request that resets a password has a token that was issued for its address,
   and a token that set a password is deleted or about to be. *)
THEOREM AccountsInvariant == Spec => []AccountsInv
<1>1. Init => AccountsInv
  BY AccountsAssumption, AnEmailIsOne, RequestRowFacts
  DEF Init, AccountsInv, TypeOK, TokensInHand, Resetting, UsedTokensAreSpent,
      ResetRow
<1> QED
  BY <1>1, AccountsStep, PTL DEF Spec

(* Every column of users, password_resets and the requests keeps its type. *)
THEOREM AccountsTypeCorrect == Spec => []TypeOK
BY AccountsInvariant, PTL DEF AccountsInv

(* A token that has set a password is deleted, or about to be, for any number
   of requests at once (Users.ResetPassword). *)
THEOREM UsedTokensStaySpent == Spec => []UsedTokensAreSpent
BY AccountsInvariant, PTL DEF AccountsInv

(* The password of an account is replaced only by a reset with a token that was
   issued for its address (Users.Create, Users.ResetPassword, Users.LoggedIn). *)
THEOREM PasswordsChangeOnlyByToken == Spec => PasswordsChangeByToken
<1> DEFINE Replaced ==
      \A e \in Emails :
        Registered(e) /\ users'[e].password # users[e].password =>
          \E q \in Requests :
            /\ req[q].pc = "save" /\ req[q].email = e
            /\ resets[req[q].token].at # "unborn"
            /\ resets[req[q].token].email = e
<1>1. AccountsInv /\ [Next]_vars => [Replaced]_vars
  <2> SUFFICES ASSUME AccountsInv, Next, NEW e \in Emails, Registered(e),
                      users'[e].password # users[e].password
               PROVE  \E q \in Requests :
                        /\ req[q].pc = "save" /\ req[q].email = e
                        /\ resets[req[q].token].at # "unborn"
                        /\ resets[req[q].token].email = e
    OBVIOUS
  <2>0. users \in [Emails -> UserRow]
    BY DEF AccountsInv, TypeOK
  <2>1. ASSUME NEW q \in Requests, SaveUser(q)
        PROVE  req[q].pc = "save" /\ req[q].email = e
    BY <2>0, <2>1 DEF SaveUser
  <2>2. ASSUME NEW q \in Requests, req[q].pc = "save", req[q].email = e
        PROVE  /\ resets[req[q].token].at # "unborn"
               /\ resets[req[q].token].email = e
    BY <2>2 DEF AccountsInv, TokensInHand, Resetting, IssuedFor
  <2>3. ASSUME NEW q \in Requests, CreateUser(q) PROVE FALSE
    BY <2>0, <2>3 DEF CreateUser
  <2>4. ASSUME NEW q \in Requests, Stamp(q) PROVE FALSE
    <3>1. [users[req[q].email] EXCEPT !.seen = TRUE].password
            = users[req[q].email].password
      BY <2>0 DEF UserRow, AccountsInv, TypeOK, RequestRow
    <3> QED BY <2>0, <2>4, <3>1 DEF Stamp
  <2>5. ASSUME NEW f \in Emails, VerifyEmail(f) PROVE FALSE
    <3>1. [users[f] EXCEPT !.verified = TRUE].password = users[f].password
      BY <2>0 DEF UserRow
    <3> QED BY <2>0, <2>5, <3>1 DEF VerifyEmail
  <2>6. CASE UNCHANGED users
    BY <2>6
  <2> QED
    BY <2>1, <2>2, <2>3, <2>4, <2>5, <2>6
    DEF Next, Work, RegisterStep, AskStep, ResetStep, Welcome, ClearTokens,
        IssueToken, MailToken, LoadUser, SpendToken, MailNotice, BeginAsk,
        BeginRegister, BeginLogin, BeginReset, SendMail, ServerDies, Tick
<1> QED
  BY <1>1, AccountsInvariant, PTL DEF Spec, PasswordsChangeByToken, Replaced

-----------------------------------------------------------------------------
(* The tokens of an account, with the requests about to issue one, are never
   more than the requests the server handles at once, however many have been
   issued and whenever it dies (Users.RequestResetPassword). *)
THEOREM TokensStayBounded == Spec => []TokensBounded
<1> DEFINE Finite == \A e \in Emails : IsFiniteSet(LiveTokens(e))
<1>1. \A e \in Emails : Issuing(e) \subseteq Requests
  BY DEF Issuing
<1>2. \A S \in SUBSET Requests :
        /\ IsFiniteSet(S) /\ Cardinality(S) \in Nat
        /\ Cardinality(S) <= Cardinality(Requests)
        /\ Cardinality(Requests) \in Nat
  BY AccountsAssumption, FS_Subset, FS_CardinalityType
<1>3. Init => TokensBounded /\ Finite
  <2> SUFFICES ASSUME Init, NEW e \in Emails
               PROVE  LiveTokens(e) = {} /\ Issuing(e) = {}
    BY <1>2, FS_EmptySet DEF TokensBounded
  <2> QED BY DEF Init, LiveTokens, Issuing, Idle
<1>4. ASSUME AccountsInv, TokensBounded, Finite, [Next]_vars
      PROVE  TokensBounded' /\ Finite'
  <2> SUFFICES ASSUME NEW e \in Emails
               PROVE  /\ IsFiniteSet(LiveTokens(e)')
                      /\ Cardinality(LiveTokens(e)') + Cardinality(Issuing(e)')
                           <= Cardinality(Requests)
    BY DEF TokensBounded
  <2>0. /\ resets \in [Tokens -> ResetRow] /\ req \in [Requests -> RequestRow]
        /\ IsFiniteSet(LiveTokens(e)) /\ Cardinality(LiveTokens(e)) \in Nat
        /\ IsFiniteSet(Issuing(e)) /\ Cardinality(Issuing(e)) \in Nat
        /\ Cardinality(Requests) \in Nat
        /\ Cardinality(LiveTokens(e)) + Cardinality(Issuing(e))
             <= Cardinality(Requests)
    BY <1>1, <1>2, <1>4, FS_CardinalityType DEF AccountsInv, TypeOK, TokensBounded
  (* Most steps take tokens and issuing requests away, or leave them. *)
  <2>1. CASE LiveTokens(e)' \subseteq LiveTokens(e)
             /\ Issuing(e)' \subseteq Issuing(e)
    BY <2>0, <2>1, FS_Subset, FS_CardinalityType
  (* Who is about to issue a token has deleted every other one. *)
  <2>2. CASE LiveTokens(e)' = {}
    <3>1. Issuing(e)' \subseteq Requests
      BY DEF Issuing
    <3> QED BY <1>2, <2>2, <3>1, FS_EmptySet
  (* A token is issued by a request that is then no longer about to. *)
  <2>3. ASSUME NEW q \in Issuing(e), NEW t,
               LiveTokens(e)' \subseteq LiveTokens(e) \cup {t},
               Issuing(e)' = Issuing(e) \ {q}
        PROVE  /\ IsFiniteSet(LiveTokens(e)')
               /\ Cardinality(LiveTokens(e)') + Cardinality(Issuing(e)')
                    <= Cardinality(Requests)
    <3>1. /\ IsFiniteSet(LiveTokens(e) \cup {t})
          /\ Cardinality(LiveTokens(e) \cup {t}) \in Nat
          /\ Cardinality(LiveTokens(e) \cup {t}) <= Cardinality(LiveTokens(e)) + 1
      <4>1. /\ IsFiniteSet(LiveTokens(e) \cup {t})
            /\ Cardinality(LiveTokens(e) \cup {t})
                 = IF t \in LiveTokens(e) THEN Cardinality(LiveTokens(e))
                                          ELSE Cardinality(LiveTokens(e)) + 1
        BY <2>0, FS_AddElement, Zenon
      <4> QED BY <2>0, <4>1
    <3>2. /\ IsFiniteSet(LiveTokens(e)') /\ Cardinality(LiveTokens(e)') \in Nat
          /\ Cardinality(LiveTokens(e)') <= Cardinality(LiveTokens(e)) + 1
      BY <2>0, <2>3, <3>1, FS_Subset, FS_CardinalityType
    <3>3. Cardinality(Issuing(e)') = Cardinality(Issuing(e)) - 1
      BY <2>0, <2>3, FS_RemoveElement
    <3> QED BY <2>0, <3>2, <3>3
  <2>4. ASSUME NEW q \in Requests, ClearTokens(q)
        PROVE  \/ LiveTokens(e)' = {}
               \/ /\ LiveTokens(e)' \subseteq LiveTokens(e)
                  /\ Issuing(e)' \subseteq Issuing(e)
    <3>1. CASE req[q].email = e
      BY <2>0, <2>4, <3>1 DEF ClearTokens, Deleted, LiveTokens, ResetRow
    <3>2. CASE req[q].email # e
      <4>1. LiveTokens(e)' \subseteq LiveTokens(e)
        BY <2>0, <2>4 DEF ClearTokens, Deleted, LiveTokens, ResetRow
      <4>2. Issuing(e)' \subseteq Issuing(e)
        BY <2>0, <2>4, <3>2 DEF ClearTokens, Goto, Issuing, RequestRow
      <4> QED BY <4>1, <4>2
    <3> QED BY <3>1, <3>2
  <2>5. ASSUME NEW q \in Requests, NEW t \in Tokens, IssueToken(q, t)
        PROVE  \/ /\ q \in Issuing(e)
                  /\ LiveTokens(e)' \subseteq LiveTokens(e) \cup {t}
                  /\ Issuing(e)' = Issuing(e) \ {q}
               \/ /\ LiveTokens(e)' \subseteq LiveTokens(e)
                  /\ Issuing(e)' \subseteq Issuing(e)
    <3>1. CASE req[q].email = e
      <4>1. LiveTokens(e)' \subseteq LiveTokens(e) \cup {t}
        BY <2>0, <2>5 DEF IssueToken, LiveTokens
      <4>2. q \in Issuing(e) /\ Issuing(e)' = Issuing(e) \ {q}
        BY <2>0, <2>5, <3>1 DEF IssueToken, Issuing, RequestRow
      <4> QED BY <4>1, <4>2
    <3>2. CASE req[q].email # e
      BY <2>0, <2>5, <3>2 DEF IssueToken, LiveTokens, Issuing, RequestRow
    <3> QED BY <3>1, <3>2
  (* No other statement issues a token or lets a request do so. *)
  <2>6. ASSUME NEW q \in Requests, SpendToken(q)
        PROVE  /\ LiveTokens(e)' \subseteq LiveTokens(e)
               /\ Issuing(e)' \subseteq Issuing(e)
    BY <2>0, <2>6 DEF SpendToken, Deleted, Goto, LiveTokens, Issuing
  <2>7. ASSUME UNCHANGED resets,
               \/ UNCHANGED req
               \/ \A q \in Requests : req'[q] = req[q] \/ req'[q].pc # "issue"
        PROVE  /\ LiveTokens(e)' \subseteq LiveTokens(e)
               /\ Issuing(e)' \subseteq Issuing(e)
    BY <2>7 DEF LiveTokens, Issuing
  <2>8. ASSUME NEW q \in Requests, UNCHANGED resets,
               \/ Done(q)
               \/ \E step \in RequestSteps \ {"issue"} : Goto(q, step)
        PROVE  /\ LiveTokens(e)' \subseteq LiveTokens(e)
               /\ Issuing(e)' \subseteq Issuing(e)
    <3>1. \E row : row.pc # "issue" /\ req' = [req EXCEPT ![q] = row]
      <4>1. CASE Done(q)
        BY <4>1 DEF Done, Idle
      <4>2. ASSUME NEW step \in RequestSteps \ {"issue"}, Goto(q, step)
            PROVE  \E row : row.pc # "issue" /\ req' = [req EXCEPT ![q] = row]
        <5>1. [req[q] EXCEPT !.pc = step].pc = step
          BY <2>0 DEF RequestRow
        <5> QED BY <2>0, <4>2, <5>1 DEF Goto
      <4> QED BY <2>8, <4>1, <4>2
    <3> QED BY <2>0, <2>7, <2>8, <3>1
  <2>9. ASSUME NEW q \in Requests,
               \/ RegisterStep(q) \/ MailToken(q) \/ SaveUser(q)
               \/ MailNotice(q) \/ Stamp(q)
        PROVE  /\ LiveTokens(e)' \subseteq LiveTokens(e)
               /\ Issuing(e)' \subseteq Issuing(e)
    BY <2>8, <2>9 DEF RegisterStep, CreateUser, Welcome, MailToken, SaveUser,
                      MailNotice, Stamp, RequestSteps
  <2>10. ASSUME NEW q \in Requests, LoadUser(q)
         PROVE  /\ LiveTokens(e)' \subseteq LiveTokens(e)
                /\ Issuing(e)' \subseteq Issuing(e)
    BY <2>0, <2>7, <2>10 DEF LoadUser, RequestRow
  <2>11. ASSUME NEW q \in Requests, NEW f \in Emails,
                \/ BeginAsk(q, f)
                \/ \E p \in Passwords :
                     \/ BeginRegister(q, f, p) \/ BeginLogin(q, f, p)
                     \/ \E t \in Tokens : BeginReset(q, f, t, p)
         PROVE  /\ LiveTokens(e)' \subseteq LiveTokens(e)
                /\ Issuing(e)' \subseteq Issuing(e)
    BY <2>0, <2>7, <2>11
    DEF BeginAsk, BeginRegister, BeginLogin, BeginReset, Idle
  <2>12. CASE \/ \E f \in Emails : VerifyEmail(f)
              \/ \E mail \in mails : SendMail(mail)
              \/ Tick \/ ServerDies \/ UNCHANGED vars
    <3>1. /\ LiveTokens(e)' \subseteq LiveTokens(e)
          /\ Issuing(e)' \subseteq Issuing(e)
      BY <2>7, <2>12 DEF VerifyEmail, SendMail, Tick, ServerDies, vars, Idle
    <3> QED BY <2>1, <3>1
  <2> QED
    BY <1>4, <2>1, <2>2, <2>3, <2>4, <2>5, <2>6, <2>9, <2>10, <2>11, <2>12
    DEF Next, Work, AskStep, ResetStep
<1> QED
  BY <1>3, <1>4, AccountsInvariant, PTL DEF Spec

-----------------------------------------------------------------------------
(* The placeholder organization of an idle post is an organization. *)
LEMMA AnOrgIsOne == AnOrg \in Orgs
BY SettingsAssumption DEF AnOrg

(* Posts of the settings are steps beside the account routes: what is proved
   of Accounts holds of both together. *)
THEOREM SettingsLeaveAccounts == SettingsSpec => Spec
<1>1. SettingsInit => Init
  BY DEF SettingsInit
<1>2. [SettingsNext]_allVars => [Next]_vars
  BY DEF SettingsNext, allVars, Next, BeginPost, FirstConfig, SaveConfig
<1> QED
  BY <1>1, <1>2, PTL DEF SettingsSpec, Spec

(* A table of settings without two rows of one user and organization. *)
KeyedTable(c) ==
  /\ c \in [ConfigIds -> ConfigRow \cup {NoConfig}]
  /\ \A r, s \in ConfigIds :
       c[r] # NoConfig /\ c[s] # NoConfig /\ c[r].email = c[s].email
       /\ c[r].org = c[s].org => r = s

HoldsKey(c, r, e, o) == c[r] # NoConfig /\ c[r].email = e /\ c[r].org = o

FormAt(c, there) ==
  IF there = {} THEN NoConfig ELSE c[CHOOSE r \in there : TRUE].form

EnteredIn(c, e, o) == FormAt(c, {r \in ConfigIds : HoldsKey(c, r, e, o)})

(* What Entered reads is the table alone. *)
LEMMA EnteredReadsTable ==
  ASSUME NEW e, NEW o
  PROVE  /\ Entered(e, o) = EnteredIn(configs, e, o)
         /\ Entered(e, o)' = EnteredIn(configs', e, o)
<1>1. {r \in RowsOf(e) : configs[r].org = o}
        = {r \in ConfigIds : HoldsKey(configs, r, e, o)}
  BY DEF RowsOf, Rows, HoldsKey
<1>2. {r \in RowsOf(e)' : configs'[r].org = o}
        = {r \in ConfigIds : HoldsKey(configs', r, e, o)}
  BY DEF RowsOf, Rows, HoldsKey
<1>3. /\ Entered(e, o) = FormAt(configs, {r \in RowsOf(e) : configs[r].org = o})
      /\ Entered(e, o)'
           = FormAt(configs', {r \in RowsOf(e)' : configs'[r].org = o})
  BY DEF Entered, FormAt
<1> QED
  BY <1>1, <1>2, <1>3 DEF EnteredIn

(* A key of the table has the form of its row, and no form without one. *)
LEMMA EnteredIsTheRows ==
  ASSUME NEW c, KeyedTable(c), NEW e \in Emails, NEW o \in Orgs
  PROVE  /\ \A r \in ConfigIds : HoldsKey(c, r, e, o) =>
              EnteredIn(c, e, o) = c[r].form /\ c[r].form \in Forms
         /\ (\A r \in ConfigIds : ~HoldsKey(c, r, e, o)) =>
              EnteredIn(c, e, o) = NoConfig
         /\ EnteredIn(c, e, o) # NoConfig =>
              \E r \in ConfigIds : HoldsKey(c, r, e, o)
<1> DEFINE there == {r \in ConfigIds : HoldsKey(c, r, e, o)}
<1>1. ASSUME NEW r \in ConfigIds, HoldsKey(c, r, e, o)
      PROVE  EnteredIn(c, e, o) = c[r].form /\ c[r].form \in Forms
  <2>1. there = {r}
    BY <1>1 DEF KeyedTable, HoldsKey
  <2>2. c[r].form \in Forms
    BY <1>1 DEF KeyedTable, HoldsKey, ConfigRow
  <2> QED BY <2>1, <2>2 DEF EnteredIn, FormAt
<1>2. (\A r \in ConfigIds : ~HoldsKey(c, r, e, o)) =>
        EnteredIn(c, e, o) = NoConfig
  BY DEF EnteredIn, FormAt
<1> QED
  BY <1>1, <1>2

(* If two tables differ in one row only, the key of that row has its form, the
   key the row had before has none, and no other one changes. *)
LEMMA KeysOfChangedRow ==
  ASSUME NEW c, KeyedTable(c), NEW d, KeyedTable(d), NEW r \in ConfigIds,
         NEW e \in Emails, NEW o \in Orgs, NEW form,
         HoldsKey(d, r, e, o), d[r].form = form,
         \A s \in ConfigIds \ {r} : d[s] = c[s]
  PROVE  \A e2 \in Emails, o2 \in Orgs :
           EnteredIn(d, e2, o2) =
             IF e2 = e /\ o2 = o THEN form
             ELSE IF HoldsKey(c, r, e2, o2) THEN NoConfig
             ELSE EnteredIn(c, e2, o2)
<1>1. ASSUME NEW e2 \in Emails, NEW o2 \in Orgs
      PROVE  EnteredIn(d, e2, o2) =
               IF e2 = e /\ o2 = o THEN form
               ELSE IF HoldsKey(c, r, e2, o2) THEN NoConfig
               ELSE EnteredIn(c, e2, o2)
  <2>1. CASE e2 = e /\ o2 = o
    <3>1. HoldsKey(d, r, e2, o2) /\ d[r].form = form
      BY <2>1 DEF HoldsKey
    <3>2. EnteredIn(d, e2, o2) = d[r].form
      BY <3>1, EnteredIsTheRows
    <3> QED BY <2>1, <3>1, <3>2
  <2>2. CASE ~(e2 = e /\ o2 = o) /\ HoldsKey(c, r, e2, o2)
    <3>1. \A s \in ConfigIds : ~HoldsKey(d, s, e2, o2)
      BY <2>2 DEF HoldsKey, KeyedTable
    <3> QED BY <2>2, <3>1, EnteredIsTheRows
  <2>3. CASE ~(e2 = e /\ o2 = o) /\ ~HoldsKey(c, r, e2, o2)
    <3>1. \A s \in ConfigIds : HoldsKey(d, s, e2, o2) <=>
            HoldsKey(c, s, e2, o2)
      BY <2>3 DEF HoldsKey
    <3>2. ~HoldsKey(d, r, e2, o2)
      BY <2>3, <3>1
    <3>3. CASE \E s \in ConfigIds : HoldsKey(c, s, e2, o2)
      <4>1. PICK s \in ConfigIds : HoldsKey(c, s, e2, o2)
        BY <3>3
      <4>2. HoldsKey(d, s, e2, o2) /\ d[s] = c[s]
        BY <3>1, <3>2, <4>1
      <4>3. EnteredIn(c, e2, o2) = c[s].form
        BY <4>1, EnteredIsTheRows
      <4>4. EnteredIn(d, e2, o2) = d[s].form
        BY <4>2, EnteredIsTheRows
      <4> QED BY <2>3, <4>2, <4>3, <4>4
    <3>4. CASE \A s \in ConfigIds : ~HoldsKey(c, s, e2, o2)
      BY <2>3, <3>1, <3>4, EnteredIsTheRows
    <3> QED BY <3>3, <3>4
  <2> QED BY <2>1, <2>2, <2>3
<1> QED
  BY <1>1

(* A row that is written where no other has its key keeps the keys apart. *)
LEMMA WrittenRow ==
  ASSUME NEW c, KeyedTable(c), NEW r \in ConfigIds, NEW e, NEW o,
         \A s \in ConfigIds : HoldsKey(c, s, e, o) => s = r,
         NEW d \in [ConfigIds -> ConfigRow \cup {NoConfig}],
         HoldsKey(d, r, e, o), \A s \in ConfigIds \ {r} : d[s] = c[s]
  PROVE  KeyedTable(d)
<1> SUFFICES ASSUME NEW s \in ConfigIds, NEW t \in ConfigIds,
                    d[s] # NoConfig, d[t] # NoConfig,
                    d[s].email = d[t].email, d[s].org = d[t].org, s # t
             PROVE  FALSE
  BY DEF KeyedTable
<1>1. CASE s = r
  BY <1>1 DEF HoldsKey
<1>2. CASE t = r
  BY <1>2 DEF HoldsKey
<1>3. CASE s # r /\ t # r
  BY <1>3 DEF KeyedTable
<1> QED
  BY <1>1, <1>2, <1>3

(* What a post knows of the table.  Rows are never deleted, but one may be
   taken over: a post whose user had rows finds one of them, and still has it
   when it saves, unless it is displaced. *)
PostKnows(c, post) ==
  /\ post.pc = "idle" => post = NoPost
  /\ post.pc # "idle" =>
       /\ post.form \in Forms
       /\ \/ post.blank \/ post.displaced
          \/ \E r \in ConfigIds :
               c[r] # NoConfig /\ c[r].email = post.email
  /\ post.pc = "save" /\ post.found = NoId => post.blank \/ post.displaced
  /\ post.pc = "save" /\ post.found # NoId =>
       /\ c[post.found] # NoConfig
       /\ post.displaced \/ c[post.found].email = post.email

PostsKnow ==
  /\ KeyedTable(configs)
  /\ posts \in [Posts -> PostRow]
  /\ \A p \in Posts : PostKnows(configs, posts[p])

(* A post that is saved writes one row, which is the one bound.ID names or a
   new one, and displaces the other posts of the user the row belonged to. *)
LEMMA SaveWritesRow ==
  ASSUME PostsKnow, NEW p \in Posts, SaveRow(p), ~Taken(posts[p])
  PROVE  \E r \in ConfigIds :
           /\ \/ r = Target(posts[p])
              \/ Target(posts[p]) = NoId /\ configs[r] = NoConfig
           /\ KeyedTable(configs')
           /\ HoldsKey(configs', r, posts[p].email, posts[p].org)
           /\ configs'[r].form = posts[p].form
           /\ \A s \in ConfigIds \ {r} : configs'[s] = configs[s]
           /\ \A s \in ConfigIds :
                HoldsKey(configs, s, posts[p].email, posts[p].org) => s = r
           /\ posts' = [q \in Posts |->
                IF q = p THEN NoPost
                ELSE IF /\ posts[q].pc # "idle" /\ configs[r] # NoConfig
                        /\ configs[r].email = posts[q].email
                        /\ posts[q].email # posts[p].email
                  THEN [posts[q] EXCEPT !.displaced = TRUE]
                  ELSE posts[q]]
<1> DEFINE post == posts[p]
           target == Target(post)
<1>0. NoId \notin ConfigIds
  BY SettingsAssumption DEF NoId, ConfigIds
<1>1. /\ post \in PostRow /\ post.pc = "save" /\ KeyedTable(configs)
      /\ PostKnows(configs, post)
  BY DEF SaveRow, PostsKnow
<1>2. /\ post.email \in Emails /\ post.org \in Orgs /\ post.form \in Forms
      /\ target \in ConfigIds \cup {NoId}
  BY <1>1 DEF PostKnows, PostRow, Target
<1>3. PICK r \in ConfigIds :
        /\ r \in IF target = NoId THEN NewIds ELSE {target}
        /\ configs' = [configs EXCEPT ![r] =
             [email |-> post.email, org |-> post.org, form |-> post.form]]
  BY <1>2 DEF SaveRow, NewIds
<1>4. target = NoId => configs[r] = NoConfig
  <2> SUFFICES ASSUME target = NoId, configs[r] # NoConfig PROVE FALSE
    OBVIOUS
  <2>1. r \in Rows /\ r \in NewIds
    BY <1>3 DEF Rows
  <2>2. r < r
    BY <2>1 DEF NewIds
  <2> QED BY <2>2 DEF ConfigIds
<1>5. r = target \/ (target = NoId /\ configs[r] = NoConfig)
  BY <1>3, <1>4
<1>6. \A s \in ConfigIds : HoldsKey(configs, s, post.email, post.org) => s = r
  BY <1>0, <1>5 DEF Taken, HoldsKey, RowsOf, Rows
<1>7. /\ KeyedTable(configs')
      /\ HoldsKey(configs', r, post.email, post.org)
      /\ configs'[r].form = post.form
      /\ \A s \in ConfigIds \ {r} : configs'[s] = configs[s]
  <2> DEFINE row == [email |-> post.email, org |-> post.org,
                     form |-> post.form]
  <2>1. /\ row \in ConfigRow /\ row # NoConfig
        /\ row.email = post.email /\ row.org = post.org /\ row.form = post.form
    BY <1>2, SettingsAssumption DEF ConfigRow
  <2> HIDE DEF row
  <2>2. configs' = [configs EXCEPT ![r] = row]
    BY <1>3 DEF row
  <2>3. /\ configs' \in [ConfigIds -> ConfigRow \cup {NoConfig}]
        /\ configs'[r] = row
        /\ \A s \in ConfigIds \ {r} : configs'[s] = configs[s]
    BY <1>1, <2>1, <2>2 DEF KeyedTable
  <2>4. HoldsKey(configs', r, post.email, post.org)
    BY <2>1, <2>3 DEF HoldsKey
  <2>5. KeyedTable(configs')
    BY <1>1, <1>6, <2>3, <2>4, WrittenRow
  <2> QED BY <2>1, <2>3, <2>4, <2>5
<1>8. posts' = [q \in Posts |->
        IF q = p THEN NoPost
        ELSE IF /\ posts[q].pc # "idle" /\ configs[r] # NoConfig
                /\ configs[r].email = posts[q].email
                /\ posts[q].email # posts[p].email
          THEN [posts[q] EXCEPT !.displaced = TRUE]
          ELSE posts[q]]
  <2>1. posts' = [q \in Posts |->
          IF q = p THEN NoPost
          ELSE IF /\ posts[q].pc # "idle" /\ target # NoId
                  /\ posts[q].email # post.email
                  /\ target \in RowsOf(posts[q].email)
            THEN [posts[q] EXCEPT !.displaced = TRUE]
            ELSE posts[q]]
    BY DEF SaveRow
  <2>2. ASSUME NEW q \in Posts
        PROVE  (target # NoId /\ target \in RowsOf(posts[q].email))
                 <=> (configs[r] # NoConfig
                        /\ configs[r].email = posts[q].email)
    BY <1>0, <1>5 DEF RowsOf, Rows
  <2> QED BY <2>1, <2>2
<1> QED
  BY <1>5, <1>6, <1>7, <1>8

(* A post that is refused leaves the table alone. *)
LEMMA RefusedSave ==
  ASSUME NEW p \in Posts, SaveRow(p), Taken(posts[p])
  PROVE  UNCHANGED configs /\ posts' = [posts EXCEPT ![p] = NoPost]
BY DEF SaveRow

(* The handler of the settings keeps PostsKnow. *)
LEMMA PostsKnowStep == TypeOK /\ PostsKnow /\ [SettingsNext]_allVars => PostsKnow'
<1> SUFFICES ASSUME TypeOK, PostsKnow, [SettingsNext]_allVars PROVE PostsKnow'
  OBVIOUS
<1>0. /\ KeyedTable(configs) /\ posts \in [Posts -> PostRow]
      /\ \A p \in Posts : posts[p] \in PostRow /\ PostKnows(configs, posts[p])
  BY DEF PostsKnow
<1>1. NoPost \in PostRow /\ NoPost.pc = "idle"
  BY AnEmailIsOne, RequestRowFacts, AnOrgIsOne DEF NoPost, PostRow
<1>2. ASSUME NEW p \in Posts, NEW e \in Emails, NEW org \in Orgs,
             NEW form \in Forms, NEW id \in ConfigIds \cup {NoId},
             BeginPost(p, e, org, form, id)
      PROVE  PostsKnow'
  <2> DEFINE row == [pc |-> "first", email |-> e, user |-> users[e],
                     org |-> org, form |-> form, id |-> id, found |-> NoId,
                     blank |-> RowsOf(e) = {}, displaced |-> FALSE]
  <2>1. row \in PostRow
    BY DEF PostRow, TypeOK
  <2>2. /\ row.pc = "first" /\ row.form \in Forms /\ row.email = e
        /\ row.blank = (RowsOf(e) = {})
    OBVIOUS
  <2>3. posts' = [posts EXCEPT ![p] = row] /\ UNCHANGED configs
    BY <1>2 DEF BeginPost
  <2> HIDE DEF row
  <2>4. PostKnows(configs', row)
    BY <2>2, <2>3 DEF PostKnows, RowsOf, Rows
  <2>5. \A q \in Posts \ {p} : posts'[q] = posts[q]
    BY <1>0, <2>3
  <2>6. posts'[p] = row /\ posts' \in [Posts -> PostRow]
    BY <1>0, <2>1, <2>3
  <2>7. \A q \in Posts : PostKnows(configs', posts'[q])
    BY <1>0, <2>3, <2>4, <2>5, <2>6 DEF PostKnows
  <2> QED BY <1>0, <2>3, <2>6, <2>7 DEF PostsKnow
<1>3. ASSUME NEW p \in Posts, FirstConfig(p) PROVE PostsKnow'
  <2> DEFINE post == posts[p]
             mine == RowsOf(post.email)
  <2>1. PICK r \in IF mine = {} THEN {NoId} ELSE mine :
          posts' = [posts EXCEPT ![p].pc = "save", ![p].found = r]
    BY <1>3 DEF FirstConfig
  <2>2. post.pc = "first" /\ UNCHANGED configs
    BY <1>3 DEF FirstConfig
  <2> DEFINE row == [post EXCEPT !.pc = "save", !.found = r]
  <2>3. r \in ConfigIds \cup {NoId}
    BY DEF RowsOf, Rows
  <2>4. /\ row \in PostRow /\ row.pc = "save" /\ row.found = r
        /\ row.form = post.form /\ row.blank = post.blank
        /\ row.email = post.email /\ row.displaced = post.displaced
    BY <1>0, <2>3 DEF PostRow
  <2>5. posts'[p] = row /\ posts' \in [Posts -> PostRow]
        /\ \A q \in Posts \ {p} : posts'[q] = posts[q]
    BY <1>0, <2>1, <2>4
  <2> HIDE DEF row
  <2>6. r = NoId => mine = {}
    BY SettingsAssumption DEF NoId, ConfigIds, RowsOf, Rows
  <2>7. r # NoId => configs[r] # NoConfig /\ configs[r].email = post.email
    BY DEF RowsOf, Rows
  <2>8. PostKnows(configs', row)
    BY <1>0, <2>2, <2>4, <2>6, <2>7 DEF PostKnows, RowsOf, Rows
  <2>9. \A q \in Posts : PostKnows(configs', posts'[q])
    BY <1>0, <2>2, <2>5, <2>8 DEF PostKnows
  <2> QED BY <1>0, <2>2, <2>5, <2>9 DEF PostsKnow
<1>4. ASSUME NEW p \in Posts, SaveRow(p) PROVE PostsKnow'
  <2>1. CASE Taken(posts[p])
    <3>1. UNCHANGED configs /\ posts' = [posts EXCEPT ![p] = NoPost]
      BY <1>4, <2>1, RefusedSave
    <3> HIDE DEF NoPost
    <3>2. posts'[p] = NoPost /\ posts' \in [Posts -> PostRow]
          /\ \A q \in Posts \ {p} : posts'[q] = posts[q]
      BY <1>0, <1>1, <3>1
    <3>3. \A q \in Posts : PostKnows(configs', posts'[q])
      BY <1>0, <1>1, <3>1, <3>2 DEF PostKnows
    <3> QED BY <1>0, <3>1, <3>2, <3>3 DEF PostsKnow
  <2>2. CASE ~Taken(posts[p])
    <3>1. PICK r \in ConfigIds :
            /\ KeyedTable(configs')
            /\ configs'[r] # NoConfig /\ configs'[r].email = posts[p].email
            /\ \A s \in ConfigIds \ {r} : configs'[s] = configs[s]
            /\ posts' = [q \in Posts |->
                 IF q = p THEN NoPost
                 ELSE IF /\ posts[q].pc # "idle" /\ configs[r] # NoConfig
                         /\ configs[r].email = posts[q].email
                         /\ posts[q].email # posts[p].email
                   THEN [posts[q] EXCEPT !.displaced = TRUE]
                   ELSE posts[q]]
      BY <1>4, <2>2, SaveWritesRow DEF HoldsKey
    <3> HIDE DEF NoPost
    <3>2. ASSUME NEW q \in Posts
          PROVE  posts'[q] \in PostRow /\ PostKnows(configs', posts'[q])
      <4>1. CASE q = p
        BY <1>1, <3>1, <4>1 DEF PostKnows
      <4>2. CASE /\ q # p /\ posts[q].pc # "idle" /\ configs[r] # NoConfig
                 /\ configs[r].email = posts[q].email
                 /\ posts[q].email # posts[p].email
        <5> DEFINE row == [posts[q] EXCEPT !.displaced = TRUE]
        <5>1. posts'[q] = row
          BY <3>1, <4>2
        <5>2. /\ row \in PostRow /\ row.pc = posts[q].pc /\ row.displaced
              /\ row.form = posts[q].form /\ row.found = posts[q].found
              /\ row.blank = posts[q].blank
          BY <1>0 DEF PostRow
        <5> HIDE DEF row
        <5>3. posts[q].found # NoId => posts[q].found \in ConfigIds
          BY <1>0 DEF PostRow
        <5>4. \A s \in ConfigIds : configs[s] # NoConfig => configs'[s] # NoConfig
          BY <3>1
        <5>5. PostKnows(configs, posts[q])
          BY <1>0
        <5>6. /\ row.form \in Forms
              /\ row.pc = "save" /\ row.found # NoId =>
                   configs'[row.found] # NoConfig
          BY <4>2, <5>2, <5>3, <5>4, <5>5 DEF PostKnows
        <5>7. row.pc # "idle"
          BY <4>2, <5>2
        <5> QED BY <5>1, <5>2, <5>6, <5>7 DEF PostKnows
      <4>3. CASE q # p /\ ~(/\ posts[q].pc # "idle" /\ configs[r] # NoConfig
                            /\ configs[r].email = posts[q].email
                            /\ posts[q].email # posts[p].email)
        <5>1. posts'[q] = posts[q]
          BY <3>1, <4>3
        <5>2. posts[q].found # NoId => posts[q].found \in ConfigIds
          BY <1>0 DEF PostRow
        <5>3. ASSUME NEW s \in ConfigIds, posts[q].pc # "idle",
                     configs[s] # NoConfig, configs[s].email = posts[q].email
              PROVE  configs'[s] # NoConfig /\ configs'[s].email = posts[q].email
          BY <3>1, <4>3, <5>3
        <5>4. \A s \in ConfigIds : configs[s] # NoConfig => configs'[s] # NoConfig
          BY <3>1
        <5> QED BY <1>0, <5>1, <5>2, <5>3, <5>4 DEF PostKnows
      <4> QED BY <4>1, <4>2, <4>3
    <3>3. posts' \in [Posts -> PostRow]
      BY <3>1, <3>2
    <3> QED BY <3>1, <3>2, <3>3 DEF PostsKnow
  <2> QED BY <2>1, <2>2
<1>5. CASE posts' = [p \in Posts |-> NoPost] /\ UNCHANGED configs
  <2> HIDE DEF NoPost
  <2> QED BY <1>0, <1>1, <1>5 DEF PostsKnow, PostKnows
<1>6. CASE UNCHANGED settingsVars
  BY <1>6 DEF settingsVars, PostsKnow, PostKnows
<1> QED
  BY <1>2, <1>3, <1>4, <1>5, <1>6 DEF SettingsNext, allVars, SaveConfig

(* The handler of the settings implements SettingsRegister: each of its steps
   is one of the register or changes nothing there, whatever rows and
   organizations the forms name and however posts overlap among each other and
   with the account routes (server.go:341-363). *)
THEOREM SettingsRefine == SettingsSpec => KeepsSettings
<1>0. OpenPost(NoPost) = Register!Closed
  <2>1. /\ NoPost.pc = "idle" /\ NoPost.email = AnEmail
        /\ NoPost.org = AnOrg /\ NoPost.form = NoConfig /\ NoPost.id = NoId
        /\ NoPost.blank = FALSE
    BY DEF NoPost
  <2> QED BY <2>1 DEF OpenPost, Register!Closed, AnEmail, AnOrg
<1>1. SettingsInit => PostsKnow
  BY AnEmailIsOne, AnOrgIsOne, RequestRowFacts
  DEF SettingsInit, PostsKnow, PostKnows, KeyedTable, NoPost, PostRow
<1>2. SettingsSpec => []PostsKnow
  <2>1. SettingsSpec => []TypeOK
    BY SettingsLeaveAccounts, AccountsTypeCorrect, PTL
  <2> QED BY <1>1, <2>1, PostsKnowStep, PTL DEF SettingsSpec
<1>3. SettingsInit => Register!Init
  <2> SUFFICES ASSUME SettingsInit PROVE Register!Init
    OBVIOUS
  <2>1. \A p \in Posts : posts[p] = NoPost
    BY DEF SettingsInit
  <2>2. ASSUME NEW p \in Posts PROVE OpenPost(posts[p]) = Register!Closed
    BY <1>0, <2>1
  <2>3. ASSUME NEW e \in Emails, NEW o \in Orgs PROVE Entered(e, o) = NoConfig
    <3>1. \A r \in ConfigIds : ~HoldsKey(configs, r, e, o)
      BY DEF SettingsInit, HoldsKey
    <3> QED
      BY <3>1, EnteredReadsTable DEF EnteredIn, FormAt
  <2> QED
    BY <2>1, <2>2, <2>3
    DEF Register!Init, Register!Keys, Settings, Open, Displaced, NoPost
<1>4. TypeOK /\ PostsKnow /\ PostsKnow' /\ [SettingsNext]_allVars
        => [Register!Next]_(Register!vars)
  <2> SUFFICES ASSUME TypeOK, PostsKnow, PostsKnow', [SettingsNext]_allVars
               PROVE  Register!Next \/ UNCHANGED <<Settings, Open, Displaced>>
    BY DEF Register!vars
  <2>0. /\ KeyedTable(configs) /\ posts \in [Posts -> PostRow]
        /\ KeyedTable(configs') /\ posts' \in [Posts -> PostRow]
        /\ \A p \in Posts : posts[p] \in PostRow /\ PostKnows(configs, posts[p])
    BY DEF PostsKnow
  <2>1. \A k \in Emails \X Orgs :
          /\ Settings[k] = EnteredIn(configs, k[1], k[2])
          /\ Settings'[k] = EnteredIn(configs', k[1], k[2])
    BY EnteredReadsTable DEF Settings
  <2>2. UNCHANGED configs => UNCHANGED Settings
    BY DEF Settings, Entered, RowsOf, Rows
  <2>3. \A k \in Emails \X Orgs :
          Register!Has(k) <=> \E r \in ConfigIds :
                                HoldsKey(configs, r, k[1], k[2])
    <3> SUFFICES ASSUME NEW e \in Emails, NEW o \in Orgs
                 PROVE  EnteredIn(configs, e, o) # NoConfig <=>
                          \E r \in ConfigIds : HoldsKey(configs, r, e, o)
      BY <2>1 DEF Register!Has
    <3> QED BY <2>0, EnteredIsTheRows, SettingsAssumption
  <2>4. ASSUME NEW p \in Posts, NEW e \in Emails, NEW org \in Orgs,
               NEW form \in Forms, NEW id \in ConfigIds \cup {NoId},
               BeginPost(p, e, org, form, id)
        PROVE  Register!Begin(p)
    <3>1. posts'[p] = [pc |-> "first", email |-> e, user |-> users[e],
            org |-> org, form |-> form, id |-> id, found |-> NoId,
            blank |-> RowsOf(e) = {}, displaced |-> FALSE]
      BY <2>0, <2>4 DEF BeginPost
    <3>2. /\ OpenPost(posts'[p]).user = e
          /\ OpenPost(posts'[p]).first = (RowsOf(e) = {})
      BY <3>1 DEF OpenPost
    <3>3. Open' = [Open EXCEPT ![p] = OpenPost(posts'[p])] /\ Open'[p] = OpenPost(posts'[p])
      BY <2>0, <2>4 DEF BeginPost, Open
    <3>4. UNCHANGED Settings /\ ~Open[p].on
      BY <2>2, <2>4 DEF BeginPost, Open, OpenPost
    <3>7. UNCHANGED Displaced
      <4>1. posts[p] = NoPost
        BY <2>0, <2>4 DEF BeginPost, PostKnows
      <4>2. ~posts[p].displaced /\ ~posts'[p].displaced
        BY <3>1, <4>1 DEF NoPost
      <4>3. \A q \in Posts \ {p} : posts'[q] = posts[q]
        BY <2>0, <2>4 DEF BeginPost
      <4>4. \A q \in Posts : posts'[q].displaced <=> posts[q].displaced
        BY <4>2, <4>3
      <4> QED BY <4>4 DEF Displaced
    <3>5. (RowsOf(e) = {}) = (\A k \in Emails \X Orgs :
                                k[1] = e => ~Register!Has(k))
      <4>1. ASSUME NEW r \in RowsOf(e)
            PROVE  \E k \in Emails \X Orgs : k[1] = e /\ Register!Has(k)
        <5>1. HoldsKey(configs, r, e, configs[r].org) /\ r \in ConfigIds
              /\ configs[r].org \in Orgs
          BY <2>0 DEF RowsOf, Rows, HoldsKey, KeyedTable, ConfigRow
        <5> DEFINE k == <<e, configs[r].org>>
        <5>2. k \in Emails \X Orgs /\ k[1] = e /\ k[2] = configs[r].org
          BY <5>1
        <5> HIDE DEF k
        <5> QED BY <2>3, <5>1, <5>2
      <4>2. ASSUME NEW k \in Emails \X Orgs, k[1] = e, Register!Has(k)
            PROVE  RowsOf(e) # {}
        BY <2>3, <4>2 DEF RowsOf, Rows, HoldsKey
      <4> QED BY <4>1, <4>2
    <3>6. OpenPost(posts'[p]) \in Register!Fresh
      <4>1. /\ posts'[p].pc = "first" /\ posts'[p].email \in Emails
            /\ posts'[p].org \in Orgs /\ posts'[p].form \in Forms
            /\ posts'[p].blank \in BOOLEAN /\ posts'[p].displaced = FALSE
        BY <3>1
      <4> QED BY <4>1 DEF Register!Fresh, OpenPost
    <3> QED
      BY <3>2, <3>3, <3>4, <3>5, <3>6, <3>7 DEF Register!Begin, Register!Keys
  <2>5. ASSUME NEW p \in Posts, FirstConfig(p)
        PROVE  UNCHANGED <<Settings, Open, Displaced>>
    <3>1. ASSUME NEW q \in Posts PROVE OpenPost(posts'[q]) = OpenPost(posts[q])
      BY <2>0, <2>5 DEF FirstConfig, PostRow, OpenPost
    <3>2. ASSUME NEW q \in Posts
          PROVE  posts'[q].displaced <=> posts[q].displaced
      BY <2>0, <2>5 DEF FirstConfig, PostRow
    <3> QED BY <2>2, <2>5, <3>1, <3>2 DEF FirstConfig, Open, Displaced
  <2>6. ASSUME NEW p \in Posts, SaveRow(p)
        PROVE  /\ Open[p].on /\ ~Open'[p].on
               /\ Register!Drop(p) \/ \E from \in Emails \X Orgs :
                                        Register!Store(p, from)
    <3> DEFINE key == <<posts[p].email, posts[p].org>>
    <3>1. /\ key \in Emails \X Orgs /\ key[1] = posts[p].email
          /\ key[2] = posts[p].org /\ Register!Key(p) = key
      BY <2>0 DEF PostRow, Register!Key, Open, OpenPost
    <3>2. /\ Open[p].on /\ Open[p].user = posts[p].email
          /\ Open[p].form = posts[p].form /\ Open[p].first = posts[p].blank
          /\ Open[p].names = (posts[p].id # NoId)
          /\ p \in Displaced <=> posts[p].displaced
      BY <2>6 DEF SaveRow, Open, OpenPost, Displaced
    <3>3. posts'[p] = NoPost
      BY <2>0, <2>6 DEF SaveRow
    <3>4. OpenPost(posts'[p]) = Register!Closed /\ ~Open'[p].on
      BY <1>0, <3>3 DEF Register!Closed, Open
    <3>5. CASE Taken(posts[p])
      <4>1. UNCHANGED configs /\ posts' = [posts EXCEPT ![p] = NoPost]
        BY <2>6, <3>5, RefusedSave
      <4>2. Open' = [Open EXCEPT ![p] = Register!Closed]
        BY <2>0, <3>4, <4>1 DEF Open
      <4>7. Displaced' = Displaced \ {p}
        <5>1. posts'[p] = NoPost /\ \A q \in Posts \ {p} : posts'[q] = posts[q]
          BY <2>0, <4>1
        <5>2. ~NoPost.displaced
          BY DEF NoPost
        <5> HIDE DEF NoPost
        <5> QED BY <5>1, <5>2 DEF Displaced
      <4>3. PICK r \in ConfigIds :
              /\ HoldsKey(configs, r, posts[p].email, posts[p].org)
              /\ r # Target(posts[p])
        BY <3>5 DEF Taken, HoldsKey, RowsOf, Rows
      <4>4. Register!Has(key)
        BY <2>3, <3>1, <4>3
      <4>5. CASE posts[p].blank \/ posts[p].displaced
        <5>1. Open[p].first \/ p \in Displaced
          BY <3>2, <4>5
        <5>2. UNCHANGED Settings
          BY <2>2, <4>1
        <5> QED
          BY <3>1, <3>2, <3>4, <4>2, <4>4, <4>7, <5>1, <5>2
          DEF Register!Drop, Register!MayAdd
      <4>6. CASE ~posts[p].blank /\ ~posts[p].displaced
        <5> DEFINE s == posts[p].found
                   k == <<posts[p].email, configs[s].org>>
        <5>1. /\ s # NoId /\ s \in ConfigIds /\ s # r
              /\ configs[s] # NoConfig /\ configs[s].email = posts[p].email
          BY <2>0, <2>6, <4>3, <4>6
          DEF PostKnows, SaveRow, Target, PostRow
        <5>2. configs[s].org \in Orgs /\ configs[s].org # posts[p].org
          BY <2>0, <4>3, <5>1 DEF KeyedTable, HoldsKey, ConfigRow
        <5>3. /\ k \in Emails \X Orgs /\ k # key /\ k[1] = posts[p].email
              /\ HoldsKey(configs, s, k[1], k[2])
          BY <3>1, <5>1, <5>2 DEF HoldsKey
        <5> HIDE DEF k
        <5>4. Register!Has(k)
          BY <2>3, <5>1, <5>3
        <5>5. \E l \in Register!Keys :
                l # Register!Key(p) /\ l[1] = Open[p].user /\ Register!Has(l)
          BY <3>1, <3>2, <5>3, <5>4 DEF Register!Keys
        <5>6. UNCHANGED Settings
          BY <2>2, <4>1
        <5> QED
          BY <3>1, <3>2, <3>4, <4>2, <4>4, <4>7, <5>5, <5>6
          DEF Register!Drop, Register!MayAdd
      <4> QED BY <4>5, <4>6
    <3>6. CASE ~Taken(posts[p])
      <4>1. PICK r \in ConfigIds :
              /\ \/ r = Target(posts[p])
                 \/ Target(posts[p]) = NoId /\ configs[r] = NoConfig
              /\ HoldsKey(configs', r, posts[p].email, posts[p].org)
              /\ configs'[r].form = posts[p].form
              /\ \A s \in ConfigIds \ {r} : configs'[s] = configs[s]
              /\ \A s \in ConfigIds :
                   HoldsKey(configs, s, posts[p].email, posts[p].org) => s = r
              /\ posts' = [q \in Posts |->
                   IF q = p THEN NoPost
                   ELSE IF /\ posts[q].pc # "idle" /\ configs[r] # NoConfig
                           /\ configs[r].email = posts[q].email
                           /\ posts[q].email # posts[p].email
                     THEN [posts[q] EXCEPT !.displaced = TRUE]
                     ELSE posts[q]]
        BY <2>6, <3>6, SaveWritesRow
      <4> DEFINE from == IF configs[r] = NoConfig THEN key
                         ELSE <<configs[r].email, configs[r].org>>
      <4>2. /\ from \in Emails \X Orgs
            /\ configs[r] = NoConfig => from = key
            /\ configs[r] # NoConfig =>
                 /\ from[1] = configs[r].email /\ from[2] = configs[r].org
                 /\ HoldsKey(configs, r, from[1], from[2])
        BY <2>0, <3>1 DEF KeyedTable, ConfigRow, HoldsKey
      <4> HIDE DEF from
      <4> DEFINE Loses(q) == /\ posts[q].pc # "idle" /\ configs[r] # NoConfig
                             /\ configs[r].email = posts[q].email
                             /\ posts[q].email # posts[p].email
      <4>3. /\ Open' = [Open EXCEPT ![p] = Register!Closed]
            /\ Displaced' =
                 (Displaced \ {p}) \cup
                   {q \in Posts : /\ Open[q].on /\ Open[q].user = from[1]
                                 /\ from[1] # Open[p].user}
        <5>1. ASSUME NEW q \in Posts
              PROVE  Loses(q) <=> /\ Open[q].on /\ Open[q].user = from[1]
                                  /\ from[1] # Open[p].user
          BY <3>1, <3>2, <4>2 DEF Open, OpenPost
        <5>2. ASSUME NEW q \in Posts, q # p
              PROVE  /\ OpenPost(posts'[q]) = OpenPost(posts[q])
                     /\ posts'[q].displaced <=> posts[q].displaced \/ Loses(q)
          <6> DEFINE row == [posts[q] EXCEPT !.displaced = TRUE]
          <6>1. /\ row.pc = posts[q].pc /\ row.email = posts[q].email
                /\ row.org = posts[q].org /\ row.form = posts[q].form
                /\ row.id = posts[q].id /\ row.blank = posts[q].blank
                /\ row.displaced = TRUE
            BY <2>0 DEF PostRow
          <6>2. posts'[q] = IF Loses(q) THEN row ELSE posts[q]
            BY <4>1, <5>2
          <6> HIDE DEF row, Loses
          <6>3. CASE Loses(q)
            BY <6>1, <6>2, <6>3 DEF OpenPost
          <6>4. CASE ~Loses(q)
            BY <6>2, <6>4
          <6> QED BY <6>3, <6>4
        <5>3. ~Loses(p) /\ ~posts'[p].displaced
          BY <3>3 DEF NoPost
        <5> HIDE DEF Loses
        <5>4. Open' = [Open EXCEPT ![p] = Register!Closed]
          BY <2>0, <3>4, <5>2 DEF Open
        <5>5. Displaced' = (Displaced \ {p}) \cup {q \in Posts : Loses(q)}
          BY <5>2, <5>3 DEF Displaced
        <5> QED BY <5>1, <5>4, <5>5
      <4>6. from = key => Register!Has(from) \/ Register!MayAdd(p)
        <5>1. CASE configs[r] # NoConfig
          BY <2>3, <4>2, <5>1
        <5>2. CASE configs[r] = NoConfig
          <6>1. posts[p].found = NoId
            BY <2>0, <2>6, <4>1, <5>2 DEF SaveRow, PostKnows, Target
          <6>2. posts[p].blank \/ posts[p].displaced
            BY <2>0, <2>6, <6>1 DEF SaveRow, PostKnows
          <6> QED BY <3>2, <6>2 DEF Register!MayAdd
        <5> QED BY <5>1, <5>2
      <4>4. from = key \/ /\ Register!Has(from) /\ ~Register!Has(key)
                          /\ Register!MayReplace(p, from)
        <5> SUFFICES ASSUME from # key
                     PROVE  /\ Register!Has(from) /\ ~Register!Has(key)
                            /\ Register!MayReplace(p, from)
          OBVIOUS
        <5>1. configs[r] # NoConfig /\ r = Target(posts[p])
          BY <4>1, <4>2
        <5>2. Register!Has(from)
          BY <2>3, <4>2, <5>1
        <5>3. ~Register!Has(key)
          <6>1. ~HoldsKey(configs, r, key[1], key[2])
            BY <3>1, <4>2, <5>1 DEF HoldsKey
          <6> QED BY <2>3, <3>1, <4>1, <6>1
        <5>4. Register!MayReplace(p, from)
          <6>1. CASE posts[p].found # NoId
            <7>1. posts[p].displaced \/ from[1] = posts[p].email
              BY <2>0, <2>6, <4>2, <5>1, <6>1 DEF SaveRow, PostKnows, Target
            <7> QED BY <3>2, <7>1 DEF Register!MayReplace
          <6>2. CASE posts[p].found = NoId
            <7>1. posts[p].blank \/ posts[p].displaced
              BY <2>0, <2>6, <6>2 DEF SaveRow, PostKnows
            <7>2. posts[p].id # NoId
              BY <5>1, <6>2, SettingsAssumption DEF Target, NoId, ConfigIds
            <7> QED BY <3>2, <7>1, <7>2 DEF Register!MayReplace
          <6> QED BY <6>1, <6>2
        <5> QED BY <5>2, <5>3, <5>4
      <4>5. Settings' = [k \in Emails \X Orgs |->
              IF k = key THEN Open[p].form
              ELSE IF k = from THEN NoConfig ELSE Settings[k]]
        <5> SUFFICES ASSUME NEW e \in Emails, NEW o \in Orgs
                     PROVE  EnteredIn(configs', e, o) =
                              IF <<e, o>> = key THEN Open[p].form
                              ELSE IF <<e, o>> = from THEN NoConfig
                              ELSE EnteredIn(configs, e, o)
          BY EnteredReadsTable DEF Settings
        <5>1. EnteredIn(configs', e, o) =
                IF e = posts[p].email /\ o = posts[p].org THEN posts[p].form
                ELSE IF HoldsKey(configs, r, e, o) THEN NoConfig
                ELSE EnteredIn(configs, e, o)
          BY <2>0, <3>1, <4>1, KeysOfChangedRow
        <5>2. <<e, o>> = key <=> e = posts[p].email /\ o = posts[p].org
          OBVIOUS
        <5>3. <<e, o>> # key => (HoldsKey(configs, r, e, o) <=> <<e, o>> = from)
          BY <3>1, <4>2 DEF HoldsKey
        <5> QED BY <3>2, <5>1, <5>2, <5>3
      <4> QED
        BY <3>1, <3>2, <3>4, <4>2, <4>3, <4>4, <4>5, <4>6
        DEF Register!Store, Register!Keys
    <3> QED BY <3>2, <3>4, <3>5, <3>6
  <2>7. ASSUME posts' = [p \in Posts |-> NoPost], UNCHANGED configs
        PROVE  Register!ServerDies
    <3> HIDE DEF NoPost
    <3>1. ~NoPost.displaced
      BY DEF NoPost
    <3> QED BY <1>0, <2>2, <2>7, <3>1 DEF Register!ServerDies, Open, Displaced
  <2>8. CASE UNCHANGED settingsVars
    BY <2>2, <2>8 DEF settingsVars, Open, Displaced
  <2> QED
    BY <2>4, <2>5, <2>6, <2>7, <2>8
    DEF SettingsNext, allVars, Register!Next, SaveConfig, Register!Keys
<1> QED
  <2>1. SettingsSpec => []TypeOK
    BY SettingsLeaveAccounts, AccountsTypeCorrect, PTL
  <2> QED
    BY <1>2, <1>3, <1>4, <2>1, PTL DEF SettingsSpec, KeepsSettings, Register!Spec

=============================================================================
