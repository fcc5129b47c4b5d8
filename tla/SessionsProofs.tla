--------------------------- MODULE SessionsProofs ---------------------------
(***************************************************************************)
(* Proofs about Sessions: which sessions the profile page lists and which  *)
(* logins undo a token, for any number of users, browsers and requests.    *)
(***************************************************************************)
EXTENDS Sessions, TLAPS

(* What a request holds between its statements. *)
RequestOK(r) ==
  /\ r \in RequestRow
  /\ r.pc \in {"find", "write"} /\ r.kind = "otp" => r.otp /\ r.sid # NoSession
  /\ r.pc = "find" => r.sid \in {NoSession, r.cookie}
  /\ r.pc = "write" => /\ r.kind # "logout"
                       /\ r.row = NoSession \/ r.sid \in {NoSession, r.row}
  /\ r.pc = "list" => r.row \in SessionIds /\ r.sid \in {NoSession, r.row}

(* The profile page has s for the user u, or is excused. *)
IsKnown(u, s) ==
  \/ [user |-> u, session |-> s] \in listed \cup excused
  \/ BeingListed(u, s)

(* The session in which r enters a token is known, also after it expired. *)
TokenKnown(r) ==
  r.pc \in {"find", "write"} /\ r.kind = "otp" => IsKnown(r.user, r.sid)

(* The row that r may write over. *)
Target(r, s) ==
  \/ r.pc = "find" /\ r.cookie = s
  \/ r.pc = "write" /\ r.row = s

(* A login without the token writes over no session that has one, or is
   overtaken. *)
CopyFresh(q, r) ==
  r.kind = "login" /\ ~r.otp /\ q \notin overtaken =>
    \A s \in SessionIds : Target(r, s) /\ Stored(s) = s => ~sessions[s].otp

SessionsInv ==
  /\ SessionsTypeOK
  /\ \A q \in Requests :
       RequestOK(req[q]) /\ TokenKnown(req[q]) /\ CopyFresh(q, req[q])
  /\ SessionsAreListed

-----------------------------------------------------------------------------
(* The empty id is none that is drawn, and the SELECT answers the id it was
   asked for or none. *)
LEMMA StoredFacts ==
  ASSUME SessionsTypeOK
  PROVE  /\ NoSession \notin SessionIds
         /\ \A c \in Ids : Stored(c) \in {NoSession, c} /\ Stored(c) \in Ids
BY DEF Stored, Ids, SessionIds, NoSession

(* The values an idle request and an unused row have. *)
LEMMA IdleFacts ==
  /\ RequestOK(Idle) /\ Idle.pc = "idle" /\ Unborn \in SessionRow
  /\ TokenKnown(Idle) /\ \A q \in Requests : CopyFresh(q, Idle)
<1>1. AUser \in Users /\ ABrowser \in Browsers
  BY SessionsAssumption DEF AUser, ABrowser
<1> QED
  BY <1>1 DEF Idle, RequestOK, RequestRow, Unborn, SessionRow, Ids, NoSession,
     TokenKnown, CopyFresh, Target

(* A request moves to row and leaves the sessions, their list and the clock
   alone: SessionsInv stays, as no login that was about to list stops. *)
LEMMA RequestMovesOn ==
  ASSUME SessionsInv, NEW q \in Requests, NEW row, RequestOK(row),
         TokenKnown(row), CopyFresh(q, row),
         req' = [req EXCEPT ![q] = row], req[q].pc # "list",
         UNCHANGED <<sessions, listed, now, history>>,
         jar' \in [Browsers -> Ids]
  PROVE  SessionsInv'
<1>0. /\ req \in [Requests -> RequestRow] /\ row \in RequestRow
      /\ UNCHANGED <<crashes, excused, overtaken>>
  BY DEF SessionsInv, SessionsTypeOK, RequestOK, history
<1>1. SessionsTypeOK'
  BY <1>0 DEF SessionsInv, SessionsTypeOK
<1>2. \A u, s : IsKnown(u, s) => IsKnown(u, s)'
  <2>1. \A u, s : BeingListed(u, s) => BeingListed(u, s)'
    BY <1>0 DEF BeingListed
  <2> QED BY <1>0, <2>1 DEF IsKnown
<1>3. \A s : Stored(s)' = Stored(s)
  BY DEF Stored
<1>4. ASSUME NEW p \in Requests
      PROVE  /\ RequestOK(req'[p]) /\ TokenKnown(req[p])'
             /\ CopyFresh(p, req[p])'
  <2>1. /\ RequestOK(req'[p]) /\ TokenKnown(req'[p])
        /\ CopyFresh(p, req'[p])
    BY <1>0 DEF SessionsInv
  <2>2. TokenKnown(req[p])'
    BY <1>2, <2>1 DEF TokenKnown
  <2>3. CopyFresh(p, req[p])'
    BY <1>0, <1>3, <2>1 DEF CopyFresh, Target
  <2> QED BY <2>1, <2>2, <2>3
<1>5. SessionsAreListed'
  BY <1>2, <1>3 DEF SessionsInv, SessionsAreListed, IsKnown
<1> QED
  BY <1>1, <1>4, <1>5 DEF SessionsInv

(* A request that begins copies the session of its cookie: a token is entered
   in a session that is known, and a login has the token the session has. *)
LEMMA BeginStep ==
  ASSUME SessionsInv, NEW q \in Requests, NEW b \in Browsers,
         \/ BeginOTP(q, b) \/ BeginLogout(q, b)
         \/ \E u \in Users : BeginLogin(q, b, u)
  PROVE  SessionsInv'
<1> DEFINE s == Stored(jar[b])
<1>0. /\ AUser \in Users /\ jar[b] \in Ids
      /\ s \in Ids /\ s \in {NoSession, jar[b]} /\ NoSession \notin SessionIds
      /\ \A t \in SessionIds : sessions[t] \in SessionRow
  BY SessionsAssumption, StoredFacts DEF AUser, SessionsInv, SessionsTypeOK
<1>1. PICK k \in {"login", "otp", "logout"}, u \in Users, otp \in BOOLEAN :
        /\ Begin(q, b, k, u, otp)
        /\ k = "otp" => otp /\ s # NoSession /\ u = sessions[s].user
        /\ k = "login" /\ ~otp => s = NoSession \/ ~sessions[s].otp
  <2>1. CASE BeginOTP(q, b)
    <3>1. s # NoSession /\ Begin(q, b, "otp", sessions[s].user, TRUE)
      BY <2>1 DEF BeginOTP
    <3>2. sessions[s].user \in Users
      BY <1>0, <3>1 DEF Ids, SessionRow
    <3> QED BY <3>1, <3>2
  <2>2. CASE BeginLogout(q, b)
    BY <1>0, <2>2 DEF BeginLogout
  <2>3. ASSUME NEW u \in Users, BeginLogin(q, b, u)
        PROVE  \E otp \in BOOLEAN :
                 /\ Begin(q, b, "login", u, otp)
                 /\ ~otp => s = NoSession \/ ~sessions[s].otp
    <3> DEFINE otp == s # NoSession /\ sessions[s].otp
    <3>1. otp \in BOOLEAN
      BY <1>0 DEF Ids, SessionRow
    <3>2. Begin(q, b, "login", u, otp)
      BY <2>3 DEF BeginLogin
    <3> QED BY <3>1, <3>2
  <2> QED BY <2>1, <2>2, <2>3
<1> DEFINE row == [pc |-> "find", kind |-> k, browser |-> b, cookie |-> jar[b],
                   sid |-> s, user |-> u, otp |-> otp, row |-> NoSession]
<1>2. /\ req' = [req EXCEPT ![q] = row] /\ req[q].pc # "list"
      /\ UNCHANGED <<sessions, listed, jar, now, history>>
  BY <1>1 DEF Begin
<1> HIDE DEF s
<1>3. /\ row \in RequestRow /\ row.pc = "find" /\ row.kind = k /\ row.user = u
      /\ row.cookie = jar[b] /\ row.sid = s /\ row.otp = otp
  BY <1>0, <1>1 DEF RequestRow, Ids
<1> HIDE DEF row
<1>4. RequestOK(row)
  BY <1>0, <1>1, <1>3 DEF RequestOK
<1>5. s # NoSession => s \in SessionIds /\ s = jar[b] /\ Stored(s) = s
  BY <1>0 DEF s, Ids
<1>6. TokenKnown(row)
  <2>1. k = "otp" => IsKnown(u, s)
    BY <1>1, <1>5 DEF SessionsInv, SessionsAreListed, IsKnown
  <2> QED BY <1>3, <2>1 DEF TokenKnown
<1>7. CopyFresh(q, row)
  <2> SUFFICES ASSUME NEW t \in SessionIds, k = "login", ~otp,
                      t = jar[b], Stored(t) = t
               PROVE  ~sessions[t].otp
    BY <1>3 DEF CopyFresh, Target
  <2>1. s = t
    BY DEF s
  <2> QED BY <1>0, <1>1, <2>1
<1>8. jar' \in [Browsers -> Ids]
  BY <1>2 DEF SessionsInv, SessionsTypeOK
<1> QED
  BY <1>2, <1>4, <1>6, <1>7, <1>8, RequestMovesOn

(* The SELECT before the session is written, or deleted. *)
LEMMA FindStep ==
  ASSUME SessionsInv, NEW q \in Requests, Find(q) PROVE SessionsInv'
<1> DEFINE r == req[q]
           pc == IF r.kind = "logout" THEN "drop" ELSE "write"
           row == [r EXCEPT !.row = Stored(r.cookie), !.cookie = NoSession,
                            !.pc = pc]
<1>1. /\ req \in [Requests -> RequestRow] /\ r \in RequestRow /\ RequestOK(r)
      /\ TokenKnown(r) /\ CopyFresh(q, r)
      /\ r.pc = "find" /\ jar \in [Browsers -> Ids]
  BY DEF SessionsInv, SessionsTypeOK, Find
<1>2. /\ Stored(r.cookie) \in Ids /\ Stored(r.cookie) \in {NoSession, r.cookie}
      /\ NoSession \notin SessionIds
  BY <1>1, StoredFacts DEF SessionsInv, RequestRow
<1>3. /\ row \in RequestRow /\ row.pc = pc /\ row.row = Stored(r.cookie)
      /\ row.sid = r.sid /\ row.kind = r.kind /\ row.otp = r.otp
      /\ row.user = r.user
  BY <1>1, <1>2 DEF RequestRow, Ids
<1>4. /\ req' = [req EXCEPT ![q] = row]
      /\ UNCHANGED <<sessions, listed, jar, now, history>>
  BY <1>1 DEF Find
<1> HIDE DEF row
<1>5. RequestOK(row)
  BY <1>1, <1>2, <1>3 DEF RequestOK
<1>6. TokenKnown(row)
  BY <1>1, <1>3 DEF TokenKnown
<1>7. CopyFresh(q, row)
  BY <1>1, <1>2, <1>3 DEF CopyFresh, Target
<1> QED
  BY <1>1, <1>4, <1>5, <1>6, <1>7, RequestMovesOn

(* The cookie of an answer changes the jar alone. *)
LEMMA AnswerStep ==
  ASSUME SessionsInv, NEW q \in Requests, Answer(q) PROVE SessionsInv'
<1>1. /\ req \in [Requests -> RequestRow] /\ req[q].pc = "answer"
      /\ jar \in [Browsers -> Ids]
  BY DEF SessionsInv, SessionsTypeOK, Answer
<1>2. jar' \in [Browsers -> Ids]
  BY <1>1 DEF Answer, RequestRow
<1>3. /\ req' = [req EXCEPT ![q] = Idle]
      /\ UNCHANGED <<sessions, listed, now, history>>
  BY DEF Answer
<1> QED
  BY <1>1, <1>2, <1>3, IdleFacts, RequestMovesOn

(* The store writes a session s that was not drawn before, or the row that the
   request found, from a copy that has the token unless it is a login's. *)
LEMMA WriteFacts ==
  ASSUME SessionsInv, NEW q \in Requests, Write(q)
  PROVE  \E s \in SessionIds, new \in SessionRow, row \in RequestRow :
           LET r     == req[q]
               entry == [user |-> r.user, session |-> s]
           IN /\ sessions' = [sessions EXCEPT ![s] = new]
              /\ new.at = "live" /\ new.user = r.user /\ new.otp = r.otp
              /\ req' = [req EXCEPT ![q] = row] /\ RequestOK(row)
              /\ row.pc \in {"list", "answer"} /\ row.user = r.user
              /\ r.kind = "login" => row.pc = "list"
              /\ r.kind = "login" /\ r.row \in {NoSession, r.sid} => row.sid = s
              /\ (r.row = NoSession /\ sessions[s].at = "unborn") \/ r.row = s
              /\ excused' =
                   IF r.kind = "login" /\ r.row \in {NoSession, r.sid}
                     THEN excused \ {entry}
                   ELSE IF r.kind = "login" \/ r.row = NoSession
                     THEN excused \cup {entry}
                     ELSE excused
              /\ overtaken' =
                   (IF r.otp
                      THEN overtaken \cup {p \in Requests : HasCopy(p, s)}
                      ELSE overtaken) \ {q}
              /\ UNCHANGED <<listed, jar, now, crashes>>
<1> DEFINE r == req[q]
<1>1. /\ req \in [Requests -> RequestRow] /\ r \in RequestRow /\ RequestOK(r)
      /\ r.pc = "write" /\ sessions \in [SessionIds -> SessionRow]
      /\ now \in Nat /\ NoSession \notin SessionIds /\ NoSession \in Ids
  BY SessionsAssumption, StoredFacts
     DEF SessionsInv, SessionsTypeOK, Write, Ids
<1> DEFINE Written(s) ==
        /\ sessions' = [sessions EXCEPT ![s] =
             [at |-> "live", user |-> r.user, otp |-> r.otp,
              expires |-> now + Life(r.kind)]]
        /\ req' = [req EXCEPT ![q].row = s,
             ![q].otp = FALSE,
             ![q].sid = IF r.kind # "login" THEN NoSession
                        ELSE IF r.row = NoSession THEN s ELSE r.sid,
             ![q].pc = IF r.kind = "login" THEN "list" ELSE "answer"]
        /\ excused' =
             IF r.kind = "login" /\ r.row \in {NoSession, r.sid}
               THEN excused \ {[user |-> r.user, session |-> s]}
             ELSE IF r.kind = "login" \/ r.row = NoSession
               THEN excused \cup {[user |-> r.user, session |-> s]}
               ELSE excused
        /\ overtaken' =
             (IF r.otp THEN overtaken \cup {p \in Requests : HasCopy(p, s)}
              ELSE overtaken) \ {q}
        /\ UNCHANGED <<listed, jar, now, crashes>>
<1>2. PICK s \in SessionIds :
        /\ (r.row = NoSession /\ sessions[s].at = "unborn") \/ r.row = s
        /\ Written(s)
  <2>1. PICK s \in IF r.row = NoSession
                     THEN {t \in SessionIds : sessions[t].at = "unborn"}
                     ELSE {r.row} : Written(s)
    BY DEF Write
  <2> HIDE DEF Written
  <2>2. /\ s \in SessionIds
        /\ (r.row = NoSession /\ sessions[s].at = "unborn") \/ r.row = s
    BY <1>1, <2>1 DEF RequestRow, Ids
  <2> QED BY <2>1, <2>2
<1> DEFINE new == [at |-> "live", user |-> r.user, otp |-> r.otp,
                   expires |-> now + Life(r.kind)]
           sid == IF r.kind # "login" THEN NoSession
                  ELSE IF r.row = NoSession THEN s ELSE r.sid
           pc == IF r.kind = "login" THEN "list" ELSE "answer"
           row == [r EXCEPT !.row = s, !.otp = FALSE, !.sid = sid, !.pc = pc]
<1>3. sid \in Ids /\ pc \in {"list", "answer"}
  BY <1>1 DEF RequestRow, Ids
<1>4. req' = [req EXCEPT ![q] = row]
  <2>1. req' = [req EXCEPT ![q].row = s, ![q].otp = FALSE, ![q].sid = sid,
                           ![q].pc = pc]
    BY <1>2
  <2> HIDE DEF sid, pc
  <2> QED BY <1>1, <2>1 DEF RequestRow
<1>5. /\ row \in RequestRow /\ row.row = s /\ row.otp = FALSE
      /\ row.sid = sid /\ row.pc = pc /\ row.user = r.user
  <2> HIDE DEF sid, pc
  <2> QED BY <1>1, <1>3 DEF RequestRow, Ids
<1> HIDE DEF row
<1>6. RequestOK(row)
  <2>1. pc = "list" => sid \in {NoSession, s}
    BY <1>1, <1>2 DEF RequestOK
  <2> QED BY <1>3, <1>5, <2>1 DEF RequestOK
<1>7. new \in SessionRow /\ new.at = "live" /\ new.user = r.user /\ new.otp = r.otp
  <2>1. now + Life(r.kind) \in Nat
    BY <1>1, SessionsAssumption DEF Life
  <2> QED BY <1>1, <2>1 DEF SessionRow, RequestRow
<1>8. r.kind = "login" /\ r.row \in {NoSession, r.sid} => row.sid = s
  BY <1>1, <1>2, <1>5
<1>9. sessions' = [sessions EXCEPT ![s] = new]
  BY <1>2
<1> HIDE DEF new
<1> QED
  BY <1>2, <1>3, <1>4, <1>5, <1>6, <1>7, <1>8, <1>9

(* A login that knows its id is about to list the session it writes, any other
   request that draws an id or knows none is excused, and a token is entered in
   a session that is known already; the other logins that copied the session
   without its token are overtaken. *)
LEMMA WriteStep ==
  ASSUME SessionsInv, NEW q \in Requests, Write(q) PROVE SessionsInv'
<1> DEFINE r == req[q]
           entry(t) == [user |-> r.user, session |-> t]
<1>1. PICK s \in SessionIds, new \in SessionRow, row \in RequestRow :
        /\ sessions' = [sessions EXCEPT ![s] = new]
        /\ new.at = "live" /\ new.user = r.user /\ new.otp = r.otp
        /\ req' = [req EXCEPT ![q] = row] /\ RequestOK(row)
        /\ row.pc \in {"list", "answer"} /\ row.user = r.user
        /\ r.kind = "login" => row.pc = "list"
        /\ r.kind = "login" /\ r.row \in {NoSession, r.sid} => row.sid = s
        /\ (r.row = NoSession /\ sessions[s].at = "unborn") \/ r.row = s
        /\ excused' =
             IF r.kind = "login" /\ r.row \in {NoSession, r.sid}
               THEN excused \ {entry(s)}
             ELSE IF r.kind = "login" \/ r.row = NoSession
               THEN excused \cup {entry(s)}
               ELSE excused
        /\ overtaken' =
             (IF r.otp THEN overtaken \cup {p \in Requests : HasCopy(p, s)}
              ELSE overtaken) \ {q}
        /\ UNCHANGED <<listed, jar, now, crashes>>
  BY WriteFacts
<1>2. /\ req \in [Requests -> RequestRow] /\ r \in RequestRow /\ RequestOK(r)
      /\ TokenKnown(r) /\ r.pc = "write" /\ sessions \in [SessionIds -> SessionRow]
      /\ excused \subseteq ListedRow /\ entry(s) \in ListedRow
  BY DEF SessionsInv, SessionsTypeOK, Write, RequestRow, ListedRow, Ids
<1>3. SessionsTypeOK'
  <2>1. excused' \subseteq ListedRow
    <3> HIDE DEF entry
    <3>1. \/ excused' = excused \ {entry(s)} \/ excused' = excused \cup {entry(s)}
          \/ excused' = excused
      BY <1>1
    <3> QED BY <1>2, <3>1
  <2>2. sessions' \in [SessionIds -> SessionRow] /\ req' \in [Requests -> RequestRow]
    BY <1>1, <1>2
  <2>3. overtaken' \subseteq Requests
    BY <1>1 DEF SessionsInv, SessionsTypeOK
  <2> QED BY <1>1, <2>1, <2>2, <2>3 DEF SessionsInv, SessionsTypeOK
<1>4. ASSUME NEW u, u = r.user PROVE IsKnown(u, s)'
  <2>1. CASE r.kind = "login" /\ r.row \in {NoSession, r.sid}
    <3>1. req'[q].pc = "list" /\ req'[q].user = r.user /\ req'[q].sid = s
      BY <1>1, <1>2, <2>1
    <3> QED BY <1>4, <3>1 DEF IsKnown, BeingListed
  <2>2. CASE ~(r.kind = "login" /\ r.row \in {NoSession, r.sid})
             /\ (r.kind = "login" \/ r.row = NoSession)
    BY <1>1, <1>4, <2>2 DEF IsKnown
  <2>3. CASE r.kind # "login" /\ r.row # NoSession
    <3>1. r.kind = "otp" /\ r.row = s /\ r.sid = s
      BY <1>1, <1>2, <2>3 DEF RequestOK, RequestRow
    <3>2. IsKnown(u, s) /\ excused' = excused
      BY <1>1, <1>2, <1>4, <2>3, <3>1 DEF TokenKnown
    <3>3. BeingListed(u, s) => BeingListed(u, s)'
      BY <1>1, <1>2 DEF BeingListed
    <3> QED BY <1>1, <3>2, <3>3 DEF IsKnown
  <2> QED BY <2>1, <2>2, <2>3
<1>5. ASSUME NEW u, NEW t, IsKnown(u, t) PROVE IsKnown(u, t)'
  <2>1. BeingListed(u, t) => BeingListed(u, t)'
    BY <1>1, <1>2 DEF BeingListed
  <2>2. CASE u = r.user /\ t = s
    BY <1>4, <2>2
  <2>3. CASE [user |-> u, session |-> t] # entry(s)
    <3>1. [user |-> u, session |-> t] \in excused
            => [user |-> u, session |-> t] \in excused'
      BY <1>1, <2>3
    <3> QED BY <1>1, <1>5, <2>1, <3>1 DEF IsKnown
  <2> QED BY <2>2, <2>3
<1>6. ASSUME NEW p \in Requests
      PROVE  RequestOK(req'[p]) /\ TokenKnown(req[p])' /\ CopyFresh(p, req[p])'
  <2>1. CASE p = q
    <3>1. req'[p] = row
      BY <1>1, <1>2, <2>1
    <3> QED BY <1>1, <3>1 DEF TokenKnown, CopyFresh, Target
  <2>2. CASE p # q
    <3>1. req'[p] = req[p]
      BY <1>1, <1>2, <2>2
    <3>2. RequestOK(req[p]) /\ TokenKnown(req[p]) /\ CopyFresh(p, req[p])
      BY DEF SessionsInv
    <3>3. TokenKnown(req[p])'
      BY <1>5, <3>1, <3>2 DEF TokenKnown
    <3>4. CopyFresh(p, req[p])'
      <4> SUFFICES ASSUME req[p].kind = "login", ~req[p].otp, p \notin overtaken',
                          NEW t \in SessionIds, Target(req[p], t), Stored(t)' = t
                   PROVE  ~sessions'[t].otp
        BY <3>1 DEF CopyFresh, Target
      <4>0. p \notin overtaken
        BY <1>1, <2>2
      <4>1. CASE t = s
        <5>1. HasCopy(p, s)
          BY <4>1 DEF HasCopy, Target
        <5>2. ~r.otp
          BY <1>1, <2>2, <5>1
        <5> QED BY <1>1, <1>2, <4>1, <5>2
      <4>2. CASE t # s
        <5>1. sessions'[t] = sessions[t] /\ Stored(t) = t
          BY <1>1, <1>2, <4>2 DEF Stored
        <5> QED BY <3>2, <4>0, <5>1 DEF CopyFresh
      <4> QED BY <4>1, <4>2
    <3> QED BY <3>1, <3>2, <3>3, <3>4
  <2> QED BY <2>1, <2>2
<1>7. SessionsAreListed'
  <2> SUFFICES ASSUME NEW t \in SessionIds, Stored(t)' = t
               PROVE  IsKnown(sessions[t].user, t)'
    BY DEF SessionsAreListed, IsKnown
  <2>1. CASE t = s
    <3>1. sessions'[t].user = r.user
      BY <1>1, <1>2, <2>1
    <3>2. \A u : u = r.user => IsKnown(u, s)'
      BY <1>4
    <3> QED BY <2>1, <3>1, <3>2 DEF IsKnown, BeingListed
  <2>2. CASE t # s
    <3>1. sessions'[t] = sessions[t] /\ Stored(t) = t
      BY <1>1, <1>2, <2>2 DEF Stored
    <3>2. IsKnown(sessions[t].user, t)
      BY <3>1 DEF SessionsInv, SessionsAreListed, IsKnown
    <3> QED BY <1>5, <3>1, <3>2 DEF IsKnown, BeingListed
  <2> QED BY <2>1, <2>2
<1> QED
  BY <1>3, <1>6, <1>7 DEF SessionsInv

-----------------------------------------------------------------------------
(* Where the rows, the excuses and the logins that list keep what is known, and
   no session comes back or changes, SessionsInv stays. *)
LEMMA KnownStays ==
  ASSUME SessionsInv, SessionsTypeOK', \A p \in Requests : RequestOK(req'[p]),
         overtaken' = overtaken,
         \A p \in Requests : req'[p] = req[p]
           \/ req'[p].pc \notin {"find", "write"},
         \A s \in SessionIds : Stored(s)' = s =>
           Stored(s) = s /\ sessions'[s] = sessions[s],
         \A u \in Users, s \in SessionIds : IsKnown(u, s) =>
           \/ IsKnown(u, s)'
           \/ Stored(s)' # s /\ ~InHand(s)
  PROVE  SessionsInv'
<1>0. /\ req \in [Requests -> RequestRow] /\ NoSession \notin SessionIds
      /\ sessions \in [SessionIds -> SessionRow]
  BY StoredFacts DEF SessionsInv, SessionsTypeOK
<1>1. ASSUME NEW p \in Requests
      PROVE  TokenKnown(req[p])' /\ CopyFresh(p, req[p])'
  <2>1. CASE req'[p].pc \notin {"find", "write"}
    BY <2>1 DEF TokenKnown, CopyFresh, Target
  <2>2. CASE req'[p] = req[p]
    <3>1. /\ TokenKnown(req[p]) /\ CopyFresh(p, req[p]) /\ RequestOK(req[p])
          /\ req[p] \in RequestRow
      BY <1>0 DEF SessionsInv
    <3>2. CopyFresh(p, req[p])'
      BY <2>2, <3>1 DEF CopyFresh, Target
    <3>3. TokenKnown(req[p])'
      <4> SUFFICES ASSUME req[p].pc \in {"find", "write"}, req[p].kind = "otp"
                   PROVE  IsKnown(req[p].user, req[p].sid)'
        BY <2>2 DEF TokenKnown
      <4>1. req[p].sid \in SessionIds /\ req[p].user \in Users
        BY <3>1 DEF RequestOK, RequestRow, Ids
      <4>2. InHand(req[p].sid)
        BY DEF InHand
      <4>3. IsKnown(req[p].user, req[p].sid)
        BY <3>1 DEF TokenKnown
      <4>4. \A u \in Users, s \in SessionIds :
              IsKnown(u, s) /\ InHand(s) => IsKnown(u, s)'
        OBVIOUS
      <4> QED BY <2>2, <4>1, <4>2, <4>3, <4>4 DEF IsKnown, BeingListed
    <3> QED BY <3>2, <3>3
  <2> QED BY <2>1, <2>2
<1>2. SessionsAreListed'
  <2> SUFFICES ASSUME NEW s \in SessionIds, Stored(s)' = s
               PROVE  IsKnown(sessions[s].user, s)'
    BY DEF SessionsAreListed, IsKnown
  <2>1. Stored(s) = s /\ sessions'[s] = sessions[s] /\ sessions[s].user \in Users
    BY <1>0 DEF SessionRow
  <2>2. IsKnown(sessions[s].user, s)
    BY <2>1 DEF SessionsInv, SessionsAreListed, IsKnown
  <2>3. \A u \in Users : IsKnown(u, s) => IsKnown(u, s)'
    OBVIOUS
  <2> QED BY <2>1, <2>2, <2>3 DEF IsKnown, BeingListed
<1> QED
  BY <1>1, <1>2 DEF SessionsInv

(* user.logged_in lists the id the session has, or the empty one. *)
LEMMA ListStep ==
  ASSUME SessionsInv, NEW q \in Requests, List(q) PROVE SessionsInv'
<1> DEFINE r == req[q]
           entry == [user |-> r.user, session |-> r.sid]
           row == [r EXCEPT !.pc = "answer", !.sid = NoSession]
<1>1. /\ req \in [Requests -> RequestRow] /\ r \in RequestRow
      /\ r.pc = "list" /\ listed' = listed \cup {entry}
      /\ UNCHANGED <<sessions, jar, now, crashes, excused, overtaken>>
  BY DEF SessionsInv, SessionsTypeOK, List, history
<1>2. row \in RequestRow /\ row.pc = "answer" /\ entry \in ListedRow
  BY <1>1 DEF RequestRow, ListedRow, Ids
<1>3. req' = [req EXCEPT ![q] = row]
  BY <1>1 DEF List
<1> HIDE DEF row
<1>4. SessionsTypeOK'
  BY <1>1, <1>2, <1>3 DEF SessionsInv, SessionsTypeOK
<1>5. \A p \in Requests : /\ RequestOK(req'[p])
                          /\ req'[p] = req[p] \/ req'[p].pc \notin {"find", "write"}
  BY <1>1, <1>2, <1>3 DEF SessionsInv, RequestOK
<1>6. \A u, s : IsKnown(u, s) => IsKnown(u, s)'
  <2> SUFFICES ASSUME NEW u, NEW s, IsKnown(u, s) PROVE IsKnown(u, s)'
    OBVIOUS
  <2>1. CASE BeingListed(u, s)
    <3>1. PICK p \in Requests :
            req[p].pc = "list" /\ req[p].user = u /\ req[p].sid = s
      BY <2>1 DEF BeingListed
    <3>2. CASE p = q
      BY <1>1, <3>1, <3>2 DEF IsKnown
    <3>3. CASE p # q
      <4>1. req'[p] = req[p]
        BY <1>1, <1>3, <3>3
      <4> QED BY <3>1, <4>1 DEF IsKnown, BeingListed
    <3> QED BY <3>2, <3>3
  <2>2. CASE [user |-> u, session |-> s] \in listed \cup excused
    BY <1>1, <2>2 DEF IsKnown
  <2> QED BY <2>1, <2>2 DEF IsKnown
<1>7. \A s \in SessionIds : Stored(s)' = s =>
        Stored(s) = s /\ sessions'[s] = sessions[s]
  BY <1>1 DEF Stored
<1> QED
  BY <1>1, <1>4, <1>5, <1>6, <1>7, KnownStays

(* A logout deletes its session, *)
LEMMA DropStep ==
  ASSUME SessionsInv, NEW q \in Requests, Drop(q) PROVE SessionsInv'
<1> DEFINE r == req[q]
           row == [r EXCEPT !.pc = "sweep", !.row = NoSession]
           gone == [Unborn EXCEPT !.at = "gone"]
<1>1. /\ req \in [Requests -> RequestRow] /\ r \in RequestRow /\ r.pc = "drop"
      /\ sessions \in [SessionIds -> SessionRow]
      /\ UNCHANGED <<listed, jar, now, crashes, excused, overtaken>>
  BY DEF SessionsInv, SessionsTypeOK, Drop, history
<1>2. row \in RequestRow /\ row.pc = "sweep"
  BY <1>1 DEF RequestRow, Ids
<1>3. req' = [req EXCEPT ![q] = row]
  BY <1>1 DEF Drop
<1> HIDE DEF row
<1>4. gone \in SessionRow /\ gone.at = "gone"
  BY IdleFacts DEF SessionRow
<1>5. /\ sessions' \in [SessionIds -> SessionRow]
      /\ \A s \in SessionIds : sessions'[s] = sessions[s] \/ sessions'[s].at = "gone"
  <2>1. CASE r.row = NoSession
    BY <1>1, <2>1 DEF Drop
  <2>2. CASE r.row # NoSession
    <3>1. r.row \in SessionIds /\ sessions' = [sessions EXCEPT ![r.row] = gone]
      BY <1>1, <2>2 DEF Drop, RequestRow, Ids
    <3> HIDE DEF gone
    <3> QED BY <1>1, <1>4, <3>1
  <2> QED BY <2>1, <2>2
<1>6. SessionsTypeOK'
  BY <1>1, <1>2, <1>3, <1>5 DEF SessionsInv, SessionsTypeOK
<1>7. \A p \in Requests : /\ RequestOK(req'[p])
                          /\ req'[p] = req[p] \/ req'[p].pc \notin {"find", "write"}
  BY <1>1, <1>2, <1>3 DEF SessionsInv, RequestOK
<1>8. \A u, s : IsKnown(u, s) => IsKnown(u, s)'
  <2>1. \A u, s : BeingListed(u, s) => BeingListed(u, s)'
    BY <1>1, <1>3 DEF BeingListed
  <2> QED BY <1>1, <2>1 DEF IsKnown
<1>9. \A s \in SessionIds : Stored(s)' = s =>
        Stored(s) = s /\ sessions'[s] = sessions[s]
  BY <1>1, <1>5, StoredFacts DEF Stored, SessionsInv
<1> QED
  BY <1>1, <1>6, <1>7, <1>8, <1>9, KnownStays

(* and takes the rows of ids up to its own from the list, which is an excuse. *)
LEMMA SweepStep ==
  ASSUME SessionsInv, NEW q \in Requests, Sweep(q) PROVE SessionsInv'
<1> DEFINE r == req[q]
           row == [r EXCEPT !.pc = "answer", !.sid = NoSession]
<1>1. /\ req \in [Requests -> RequestRow] /\ r \in RequestRow /\ r.pc = "sweep"
      /\ listed' \subseteq listed /\ listed \subseteq ListedRow
      /\ excused' = excused \cup {e \in listed \ listed' : e.session # NoSession}
      /\ UNCHANGED <<sessions, jar, now, crashes, overtaken>>
  BY DEF SessionsInv, SessionsTypeOK, Sweep
<1>2. row \in RequestRow /\ row.pc = "answer"
  BY <1>1 DEF RequestRow, Ids
<1>3. req' = [req EXCEPT ![q] = row]
  BY <1>1 DEF Sweep
<1> HIDE DEF row
<1>4. SessionsTypeOK'
  BY <1>1, <1>2, <1>3 DEF SessionsInv, SessionsTypeOK
<1>5. \A p \in Requests : /\ RequestOK(req'[p])
                          /\ req'[p] = req[p] \/ req'[p].pc \notin {"find", "write"}
  BY <1>1, <1>2, <1>3 DEF SessionsInv, RequestOK
<1>6. ASSUME NEW u \in Users, NEW s \in SessionIds, IsKnown(u, s)
      PROVE  IsKnown(u, s)'
  <2>1. BeingListed(u, s) => BeingListed(u, s)'
    BY <1>1, <1>3 DEF BeingListed
  <2>2. s # NoSession
    BY StoredFacts DEF SessionsInv
  <2>3. [user |-> u, session |-> s] \in listed \cup excused
          => [user |-> u, session |-> s] \in listed' \cup excused'
    BY <1>1, <2>2
  <2> QED BY <1>6, <2>1, <2>3 DEF IsKnown
<1>7. \A s \in SessionIds : Stored(s)' = s =>
        Stored(s) = s /\ sessions'[s] = sessions[s]
  BY <1>1 DEF Stored
<1> QED
  BY <1>1, <1>4, <1>5, <1>6, <1>7, KnownStays

-----------------------------------------------------------------------------
(* The steps of no request: the purge of expired sessions, a crash, time. *)
LEMMA OthersKeepSessions ==
  ASSUME SessionsInv, Purge \/ ServerDies \/ Tick PROVE SessionsInv'
<1>0. /\ req \in [Requests -> RequestRow] /\ now \in Nat
      /\ sessions \in [SessionIds -> SessionRow] /\ excused \subseteq ListedRow
      /\ listed \subseteq ListedRow
      /\ \A q \in Requests : RequestOK(req[q])
  BY SessionsAssumption DEF SessionsInv, SessionsTypeOK
<1>1. CASE Purge
  <2>1. /\ listed' = listed \ ExpiredRows
        /\ excused' = excused \cup {r \in ExpiredRows : InHand(r.session)}
        /\ UNCHANGED <<sessions, jar, req, now, crashes, overtaken>>
    BY <1>1 DEF Purge
  <2>2. SessionsTypeOK' /\ \A q \in Requests : RequestOK(req'[q])
    BY <1>0, <2>1 DEF SessionsInv, SessionsTypeOK, ExpiredRows
  <2>3. \A s \in SessionIds : Stored(s)' = Stored(s) /\ sessions'[s] = sessions[s]
    BY <2>1 DEF Stored
  <2>4. ASSUME NEW u \in Users, NEW s \in SessionIds, IsKnown(u, s)
        PROVE  IsKnown(u, s)' \/ (Stored(s)' # s /\ ~InHand(s))
    <3> DEFINE pair == [user |-> u, session |-> s]
    <3>1. BeingListed(u, s) => BeingListed(u, s)'
      BY <2>1 DEF BeingListed
    <3>2. CASE pair \notin ExpiredRows
      <4> HIDE DEF pair
      <4>1. pair \in listed \cup excused => pair \in listed' \cup excused'
        BY <2>1, <3>2
      <4> QED BY <2>4, <3>1, <4>1 DEF IsKnown, pair
    <3>3. CASE pair \in ExpiredRows
      <4>1. Expired(s)
        BY <3>3 DEF ExpiredRows
      <4>2. Stored(s)' # s
        BY <1>0, <2>3, <4>1, StoredFacts DEF Expired, Stored, SessionRow, SessionsInv
      <4>3. InHand(s) => pair \in excused'
        BY <2>1, <3>3
      <4> QED BY <4>2, <4>3 DEF IsKnown
    <3> QED BY <3>2, <3>3
  <2> QED BY <2>1, <2>2, <2>3, <2>4, KnownStays
<1>2. CASE ServerDies
  <2>1. /\ req' = [q \in Requests |-> Idle] /\ crashes' = crashes + 1
        /\ excused' = excused \cup
             {[user |-> req[q].user, session |-> req[q].row] :
                q \in {p \in Requests : req[p].pc = "list"}}
        /\ overtaken' = {} /\ crashes < MaxCrashes
        /\ UNCHANGED <<sessions, listed, jar, now>>
    BY <1>2 DEF ServerDies
  <2>2. \A q \in Requests : req'[q] = Idle
    BY <2>1
  <2>3. excused' \subseteq ListedRow
    BY <1>0, <2>1 DEF ListedRow, RequestRow
  <2>4. crashes' \in 0..MaxCrashes
    BY <2>1, SessionsAssumption DEF SessionsInv, SessionsTypeOK
  <2>5. req' \in [Requests -> RequestRow]
    BY <2>1, IdleFacts DEF RequestOK
  <2>6. SessionsTypeOK'
    BY <2>1, <2>3, <2>4, <2>5 DEF SessionsInv, SessionsTypeOK
  <2>7. ASSUME NEW q \in Requests
        PROVE  RequestOK(req'[q]) /\ TokenKnown(req[q])' /\ CopyFresh(q, req[q])'
    BY <2>2, IdleFacts DEF TokenKnown, CopyFresh, Target
  <2>8. ASSUME NEW u \in Users, NEW s \in SessionIds, IsKnown(u, s)
        PROVE  [user |-> u, session |-> s] \in listed' \cup excused'
    <3>1. CASE BeingListed(u, s)
      <4>1. PICK q \in Requests :
              req[q].pc = "list" /\ req[q].user = u /\ req[q].sid = s
        BY <3>1 DEF BeingListed
      <4>2. req[q].row = s
        BY <1>0, <4>1, StoredFacts DEF RequestOK, SessionsInv
      <4> QED BY <2>1, <4>1, <4>2
    <3>2. CASE ~BeingListed(u, s)
      BY <2>1, <2>8, <3>2 DEF IsKnown
    <3> QED BY <3>1, <3>2
  <2>9. SessionsAreListed'
    <3> SUFFICES ASSUME NEW s \in SessionIds, Stored(s)' = s
                 PROVE  [user |-> sessions'[s].user, session |-> s]
                          \in listed' \cup excused'
      BY DEF SessionsAreListed
    <3>1. /\ Stored(s) = s /\ sessions'[s] = sessions[s]
          /\ sessions[s].user \in Users
      BY <1>0, <2>1 DEF Stored, SessionRow
    <3>2. IsKnown(sessions[s].user, s)
      BY <3>1 DEF SessionsInv, SessionsAreListed, IsKnown
    <3> QED BY <2>8, <3>1, <3>2
  <2> QED BY <2>6, <2>7, <2>9 DEF SessionsInv
<1>3. CASE Tick
  <2>1. now' = now + 1 /\ now < MaxNow
        /\ UNCHANGED <<sessions, listed, jar, req, crashes, excused, overtaken>>
    BY <1>3 DEF Tick, history
  <2>2. now' \in 0..MaxNow
    BY <1>0, <2>1, SessionsAssumption
  <2>3. SessionsTypeOK' /\ \A q \in Requests : RequestOK(req'[q])
    BY <2>1, <2>2 DEF SessionsInv, SessionsTypeOK
  <2>4. \A s \in SessionIds : Stored(s)' = s =>
          Stored(s) = s /\ sessions'[s] = sessions[s]
    BY <1>0, <2>1, StoredFacts DEF Stored, SessionRow, SessionsInv
  <2>5. \A u, s : IsKnown(u, s) => IsKnown(u, s)'
    BY <2>1 DEF IsKnown, BeingListed
  <2> QED BY <2>1, <2>3, <2>4, <2>5, KnownStays
<1> QED
  BY <1>1, <1>2, <1>3

(* SessionsInv holds of every behaviour. *)
LEMMA SessionsInvariant == SessionsSpec => []SessionsInv
<1>1. SessionsInit => SessionsInv
  <2> SUFFICES ASSUME SessionsInit PROVE SessionsInv
    OBVIOUS
  <2>1. \A q \in Requests :
          RequestOK(req[q]) /\ TokenKnown(req[q]) /\ CopyFresh(q, req[q])
    BY IdleFacts DEF SessionsInit
  <2>2. SessionsTypeOK
    BY IdleFacts, SessionsAssumption
       DEF SessionsInit, SessionsTypeOK, RequestOK, Ids
  <2>3. \A s \in SessionIds : Stored(s) # s
    BY <2>2, StoredFacts DEF SessionsInit, Unborn, Stored
  <2> QED BY <2>1, <2>2, <2>3 DEF SessionsInv, SessionsAreListed
<1>2. SessionsInv /\ [SessionsNext]_sessionVars => SessionsInv'
  <2> SUFFICES ASSUME SessionsInv, [SessionsNext]_sessionVars PROVE SessionsInv'
    OBVIOUS
  <2>1. ASSUME NEW q \in Requests, Handle(q) PROVE SessionsInv'
    BY <2>1, FindStep, WriteStep, ListStep, DropStep, SweepStep, AnswerStep
       DEF Handle
  <2>2. ASSUME NEW q \in Requests, NEW b \in Browsers,
               \/ BeginOTP(q, b) \/ BeginLogout(q, b)
               \/ \E u \in Users : BeginLogin(q, b, u)
        PROVE  SessionsInv'
    BY <2>2, BeginStep
  <2>3. CASE Purge \/ ServerDies \/ Tick
    BY <2>3, OthersKeepSessions
  <2>4. CASE UNCHANGED sessionVars
    BY <2>4 DEF sessionVars, history, SessionsInv, SessionsTypeOK, TokenKnown,
       CopyFresh, Target, SessionsAreListed, Stored, IsKnown, BeingListed
  <2> QED BY <2>1, <2>2, <2>3, <2>4 DEF SessionsNext
<1> QED
  BY <1>1, <1>2, PTL DEF SessionsSpec

-----------------------------------------------------------------------------
(* The tables, the cookies and the requests keep their types. *)
THEOREM SessionsTypeCorrect == SessionsSpec => []SessionsTypeOK
<1>1. SessionsInv => SessionsTypeOK
  BY DEF SessionsInv
<1> QED
  BY <1>1, SessionsInvariant, PTL

(* At any time the profile page of a session's user lists the session, or a
   login is about to, except where a logout, a crash, a renewal or a token
   entered in an ended session is noted as the reason (user.logged_in,
   user.logged_out, Purge). *)
THEOREM SessionsStayListed == SessionsSpec => []SessionsAreListed
<1>1. SessionsInv => SessionsAreListed
  BY DEF SessionsInv
<1> QED
  BY <1>1, SessionsInvariant, PTL

(* A token entered in a session is undone only by a login that loaded the
   session before the token was saved, however many requests of however many
   browsers write the same row (PostLogin, PostLoginOTP). *)
THEOREM TokensStayEntered == SessionsSpec => EnteredTokensStay
<1> DEFINE Undone(s) ==
             Stored(s) = s /\ sessions[s].otp /\ sessions'[s].at = "live" =>
               \/ sessions'[s].otp
               \/ \E q \in overtaken : req[q].pc = "write" /\ req[q].row = s
<1>1. SessionsInv /\ [SessionsNext]_sessionVars =>
        [\A s \in SessionIds : Undone(s)]_sessionVars
  <2> SUFFICES ASSUME SessionsInv, SessionsNext, NEW s \in SessionIds,
                      Stored(s) = s, sessions[s].otp, sessions'[s].at = "live",
                      ~sessions'[s].otp
               PROVE  \E q \in overtaken : req[q].pc = "write" /\ req[q].row = s
    OBVIOUS
  <2>0. sessions'[s] # sessions[s] /\ sessions[s].at = "live"
        /\ sessions \in [SessionIds -> SessionRow] /\ s # NoSession
    BY StoredFacts DEF Stored, SessionsInv, SessionsTypeOK
  <2>1. PICK q \in Requests : Write(q) \/ Drop(q)
    BY <2>0 DEF SessionsNext, Handle, Find, List, Sweep, Answer, Begin, BeginOTP,
       BeginLogin, BeginLogout, Purge, ServerDies, Tick
  <2>2. CASE Drop(q)
    <3> DEFINE gone == [Unborn EXCEPT !.at = "gone"]
    <3>1. gone.at = "gone"
      BY IdleFacts DEF SessionRow
    <3> HIDE DEF gone
    <3>2. sessions' = sessions \/ sessions' = [sessions EXCEPT ![req[q].row] = gone]
      BY <2>2 DEF Drop, gone
    <3> QED BY <2>0, <3>1, <3>2
  <2>3. CASE Write(q)
    <3>1. PICK t \in SessionIds, new \in SessionRow :
            /\ sessions' = [sessions EXCEPT ![t] = new] /\ new.otp = req[q].otp
            /\ (req[q].row = NoSession /\ sessions[t].at = "unborn")
               \/ req[q].row = t
      BY <2>3, WriteFacts
    <3>2. s = t /\ ~req[q].otp /\ req[q].row = s
      BY <2>0, <3>1
    <3>3. /\ req[q].pc = "write" /\ CopyFresh(q, req[q]) /\ RequestOK(req[q])
          /\ req[q] \in RequestRow
      BY <2>3 DEF Write, SessionsInv, SessionsTypeOK
    <3>4. req[q].kind = "login"
      BY <3>2, <3>3 DEF RequestOK, RequestRow
    <3>5. q \in overtaken
      BY <3>2, <3>3, <3>4 DEF CopyFresh, Target
    <3> QED BY <3>2, <3>3, <3>5
  <2> QED BY <2>1, <2>2, <2>3
<1> QED
  BY <1>1, SessionsInvariant, PTL DEF SessionsSpec, EnteredTokensStay

=============================================================================
