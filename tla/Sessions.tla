------------------------------ MODULE Sessions ------------------------------
(***************************************************************************)
(* Signing in and out: the rows of `sessions`, which the session store     *)
(* keeps, and of `user_sessions`, which the handlers of user.logged_in and *)
(* user.logged_out keep and GET /admin/profile lists.  A browser may have  *)
(* several requests under way; each carries the cookie the browser had     *)
(* when it was sent and reads the session when it begins.                  *)
(*                                                                         *)
(* The store (gormstore) is not part of the repository: Find, Write and    *)
(* Drop are the statements of its Save, as auth_routes.go uses it.  Every  *)
(* session that is stored is an authenticated one.  Refused logins and     *)
(* tokens change nothing and are left out; the UPDATE of last_logged_in_at *)
(* is in Accounts.                                                         *)
(***************************************************************************)
EXTENDS Integers, FiniteSets

CONSTANTS
  Users,
  OTPUsers,    \* users with an OTPSecret
  Browsers,
  Requests,    \* requests the server handles at once
  MaxId,       \* bounds how many session ids are drawn
  LoginLife,   \* MaxAge that PostLogin sets: 4 hours
  StoreLife,   \* MaxAge the store sets where the handler does not: 30 days
  MaxNow,      \* bound of the clock
  MaxCrashes   \* bound of the crashes of the server

ASSUME SessionsAssumption ==
  /\ OTPUsers \subseteq Users /\ Users # {} /\ Browsers # {}
  /\ MaxId \in Nat /\ MaxNow \in Nat /\ MaxCrashes \in Nat
  /\ LoginLife \in Nat \ {0} /\ StoreLife \in Nat \ {0}

VARIABLES
  sessions,    \* table sessions, by id
  listed,      \* table user_sessions
  jar,         \* the session cookie of each browser
  req,         \* what each request is doing
  now,         \* time.Now(), in units of LoginLife or less
  crashes,     \* how often the server has died
  excused,     \* history: rows `listed` lacks, for a reason SessionsAreListed
               \* names
  overtaken    \* history: logins that loaded their session before a token was
               \* saved in it

history == <<crashes, excused, overtaken>>

sessionVars == <<sessions, listed, jar, req, now, history>>

(* Ids are random strings, compared as such: any order of creation. *)
SessionIds == 1..MaxId
NoSession  == 0        \* no cookie, the empty id
Ids        == SessionIds \cup {NoSession}

AUser == CHOOSE u \in Users : TRUE

SessionRow == [at : {"unborn", "live", "gone"}, user : Users,
               otp : BOOLEAN, expires : Nat]

Unborn == [at |-> "unborn", user |-> AUser, otp |-> FALSE, expires |-> 0]

ListedRow == [user : Users, session : Ids]

(* cookie: what the browser sent; sid: the ID of the session as loaded, or as
   the store renamed it; user, otp: its values; row: what Save's SELECT found,
   and then the id for the answer's cookie. *)
RequestRow ==
  [pc : {"idle", "find", "write", "list", "drop", "sweep", "answer"},
   kind : {"login", "otp", "logout"}, browser : Browsers, cookie : Ids,
   sid : Ids, user : Users, otp : BOOLEAN, row : Ids]

ABrowser == CHOOSE b \in Browsers : TRUE

Idle == [pc |-> "idle", kind |-> "login", browser |-> ABrowser,
         cookie |-> NoSession, sid |-> NoSession, user |-> AUser,
         otp |-> FALSE, row |-> NoSession]

SessionsInit ==
  /\ sessions = [s \in SessionIds |-> Unborn]
  /\ listed = {}
  /\ jar = [b \in Browsers |-> NoSession]
  /\ req = [q \in Requests |-> Idle]
  /\ now = 0 /\ crashes = 0 /\ excused = {} /\ overtaken = {}

SessionsTypeOK ==
  /\ sessions \in [SessionIds -> SessionRow]
  /\ listed \subseteq ListedRow
  /\ jar \in [Browsers -> Ids]
  /\ req \in [Requests -> RequestRow]
  /\ now \in 0..MaxNow /\ crashes \in 0..MaxCrashes
  /\ excused \subseteq ListedRow /\ overtaken \subseteq Requests

-----------------------------------------------------------------------------
(* The store's SELECT: the session of a cookie, unless it has expired. *)
Stored(c) ==
  IF c # NoSession /\ sessions[c].at = "live" /\ sessions[c].expires > now
    THEN c ELSE NoSession

(* The request of kind k begins in b; the middleware loads its session. *)
Begin(q, b, k, u, otp) ==
  /\ req[q].pc = "idle"
  /\ req' = [req EXCEPT ![q] =
       [pc |-> "find", kind |-> k, browser |-> b, cookie |-> jar[b],
        sid |-> Stored(jar[b]), user |-> u, otp |-> otp, row |-> NoSession]]
  /\ UNCHANGED <<sessions, listed, jar, now, history>>

(* Mutant of BeginLogin: the login makes the session anew. *)
BeginFresh(q, b, u) == Begin(q, b, "login", u, FALSE)

(* POST /auth/login with the right password.  Values the session had before
   are kept. *)
BeginLogin(q, b, u) ==
  LET s == Stored(jar[b])
  IN Begin(q, b, "login", u, s # NoSession /\ sessions[s].otp)

(* POST /auth/login/otp with the right token, for the user of the session. *)
BeginOTP(q, b) ==
  LET s == Stored(jar[b])
  IN /\ s # NoSession /\ sessions[s].user \in OTPUsers
     /\ Begin(q, b, "otp", sessions[s].user, TRUE)

(* GET /auth/logout, signed in or not. *)
BeginLogout(q, b) == Begin(q, b, "logout", AUser, FALSE)

-----------------------------------------------------------------------------
(* Save looks the row up again: it may have expired or gone since. *)
Find(q) ==
  /\ req[q].pc = "find"
  /\ req' = [req EXCEPT
       ![q].row = Stored(req[q].cookie), ![q].cookie = NoSession,
       ![q].pc = IF req[q].kind = "logout" THEN "drop" ELSE "write"]
  /\ UNCHANGED <<sessions, listed, jar, now, history>>

(* Only PostLogin sets a MaxAge. *)
Life(k) == IF k = "login" THEN LoginLife ELSE StoreLife

(* The login q is about to write the session s, with the values of its copy. *)
HasCopy(q, s) ==
  /\ req[q].kind = "login"
  /\ \/ req[q].pc = "find" /\ req[q].cookie = s
     \/ req[q].pc = "write" /\ req[q].row = s

(* The session is written: a new row with a new id, or the row that was found,
   which gorm's Save inserts again when it was deleted since. *)
Write(q) ==
  LET r == req[q]
      known == r.row \in {NoSession, r.sid}   \* a login has the id of the row
  IN /\ r.pc = "write"
     /\ \E s \in IF r.row = NoSession
                   THEN {t \in SessionIds : sessions[t].at = "unborn"}
                   ELSE {r.row} :
          LET entry == [user |-> r.user, session |-> s]
          IN /\ sessions' = [sessions EXCEPT ![s] =
                  [at |-> "live", user |-> r.user, otp |-> r.otp,
                   expires |-> now + Life(r.kind)]]
             /\ req' = [req EXCEPT ![q].row = s,
                  ![q].otp = FALSE,
                  ![q].sid = IF r.kind # "login" THEN NoSession
                             ELSE IF r.row = NoSession THEN s ELSE r.sid,
                  ![q].pc = IF r.kind = "login" THEN "list" ELSE "answer"]
             /\ excused' =
                  IF r.kind = "login" /\ known THEN excused \ {entry}
                  ELSE IF r.kind = "login" \/ r.row = NoSession
                    THEN excused \cup {entry}
                    ELSE excused
             /\ overtaken' =
                  (IF r.otp THEN overtaken \cup {p \in Requests : HasCopy(p, s)}
                   ELSE overtaken) \ {q}
     /\ UNCHANGED <<listed, jar, now, crashes>>

(* Mutant of List: a user has one row only. *)
ListFirst(q) ==
  /\ req[q].pc = "list"
  /\ listed' = IF \E r \in listed : r.user = req[q].user THEN listed
               ELSE listed \cup {[user |-> req[q].user, session |-> req[q].sid]}
  /\ req' = [req EXCEPT ![q].pc = "answer", ![q].sid = NoSession]
  /\ UNCHANGED <<sessions, jar, now, history>>

(* user.logged_in: a row of user_sessions. *)
List(q) ==
  /\ req[q].pc = "list"
  /\ listed' = listed \cup {[user |-> req[q].user, session |-> req[q].sid]}
  /\ req' = [req EXCEPT ![q].pc = "answer", ![q].sid = NoSession]
  /\ UNCHANGED <<sessions, jar, now, history>>

(* The store's DELETE, for the MaxAge of -1 that GetLogout sets. *)
Drop(q) ==
  LET r == req[q].row
  IN /\ req[q].pc = "drop"
     /\ sessions' = IF r = NoSession THEN sessions
                    ELSE [sessions EXCEPT ![r] = [Unborn EXCEPT !.at = "gone"]]
     /\ req' = [req EXCEPT ![q].pc = "sweep", ![q].row = NoSession]
     /\ UNCHANGED <<listed, jar, now, history>>

(* user.logged_out: DELETE ... WHERE session_id <= ?. *)
Sweep(q) ==
  LET s == req[q].sid
  IN /\ req[q].pc = "sweep"
     /\ listed' = {r \in listed : r.session > s}
     /\ excused' = excused \cup {r \in listed \ listed' : r.session # NoSession}
     /\ req' = [req EXCEPT ![q].pc = "answer", ![q].sid = NoSession]
     /\ UNCHANGED <<sessions, jar, now, crashes, overtaken>>

(* The answer sets the browser's cookie.  GetLogout's options have no Path: its
   answer clears a cookie of /auth, and leaves the one of "/" as it is. *)
Answer(q) ==
  /\ req[q].pc = "answer"
  /\ jar' = IF req[q].kind = "logout" THEN jar
            ELSE [jar EXCEPT ![req[q].browser] = req[q].row]
  /\ req' = [req EXCEPT ![q] = Idle]
  /\ UNCHANGED <<sessions, listed, now, history>>

-----------------------------------------------------------------------------
Expired(s) ==
  sessions[s].at = "live" /\ sessions[s].expires < now

ExpiredRows == {r \in listed : r.session # NoSession /\ Expired(r.session)}

(* A token is being entered in the session s. *)
InHand(s) ==
  \E q \in Requests :
    req[q].kind = "otp" /\ req[q].pc \in {"find", "write"} /\ req[q].sid = s

(* The last statement of a CREATE_WORK round: rows of expired sessions. *)
Purge ==
  /\ listed' = listed \ ExpiredRows
  /\ excused' = excused \cup {r \in ExpiredRows : InHand(r.session)}
  /\ UNCHANGED <<sessions, jar, req, now, crashes, overtaken>>

(* The server dies: its requests are not answered. *)
ServerDies ==
  /\ crashes < MaxCrashes /\ crashes' = crashes + 1
  /\ req' = [q \in Requests |-> Idle]
  /\ excused' = excused \cup
       {[user |-> req[q].user, session |-> req[q].row] :
          q \in {p \in Requests : req[p].pc = "list"}}
  /\ overtaken' = {}
  /\ UNCHANGED <<sessions, listed, jar, now>>

Tick ==
  /\ now < MaxNow /\ now' = now + 1
  /\ UNCHANGED <<sessions, listed, jar, req, history>>

Handle(q) == Find(q) \/ Write(q) \/ List(q) \/ Drop(q) \/ Sweep(q) \/ Answer(q)

SessionsNext ==
  \/ \E q \in Requests :
       \/ Handle(q)
       \/ \E b \in Browsers :
            \/ BeginOTP(q, b) \/ BeginLogout(q, b)
            \/ \E u \in Users : BeginLogin(q, b, u)
  \/ Purge \/ ServerDies \/ Tick

SessionsSpec == SessionsInit /\ [][SessionsNext]_sessionVars

-----------------------------------------------------------------------------
IsListed(s) == \E r \in listed : r.session = s

(* A login is about to list the session s for the user u. *)
BeingListed(u, s) ==
  \E q \in Requests :
    req[q].pc = "list" /\ req[q].user = u /\ req[q].sid = s

(* GET /admin/profile shows a user the session the user is in: at any time, and
   however logins, tokens, logouts, expiries and clean-ups overlap, a session in
   use is in user_sessions, with its user, or a login is about to put it there
   (PostLogin, PostLoginOTP, user.logged_in, Purge).  The exceptions are rows
   that are missing because
     - a logout of an id at least as great deleted it;
     - the server died between the two rows;
     - the session was renewed between the two SELECTs of its last login, which
       lists "" in its place;
     - it ended while a token was being entered in it, which is saved under a
       new id, or again after the clean-up: PostLoginOTP lists nothing. *)
SessionsAreListed ==
  \A s \in SessionIds :
    Stored(s) = s =>
      \/ [user |-> sessions[s].user, session |-> s] \in listed \cup excused
      \/ BeingListed(sessions[s].user, s)

(* A user who entered a token is not asked again: while a session lasts, its
   otpVerified is undone only by a login that had loaded the session before
   it was last saved with a token, whatever logins, tokens and expiries of the
   browser overlap (auth_routes.go:68-78, server.go:114-124). *)
EnteredTokensStay ==
  [][\A s \in SessionIds :
       Stored(s) = s /\ sessions[s].otp /\ sessions'[s].at = "live" =>
         \/ sessions'[s].otp
         \/ \E q \in overtaken : req[q].pc = "write" /\ req[q].row = s]_sessionVars

(* What the code does not keep.  user.go:251-255 says of user_sessions "Clean
   up expired sessions": a row goes away when its session has expired or was
   logged out, not while it is in use. *)
OnlyEndedAreUnlisted ==
  [][\A s \in SessionIds :
       Stored(s) = s /\ IsListed(s) => IsListed(s)'
         \/ \E q \in Requests : req[q].pc = "sweep" /\ req[q].sid = s]_sessionVars

=============================================================================
