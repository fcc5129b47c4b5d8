----------------------- MODULE MCNotificationSettings -----------------------
(***************************************************************************)
(* Small instances of NotificationSettings for TLC: the account routes     *)
(* alone, with requests that race; posts of one user's settings beside     *)
(* them; or posts of two users, for two organizations and naming rows.     *)
(***************************************************************************)
EXTENDS NotificationSettings, TLC

VARIABLE part       \* what the behaviour is about

mcVars == <<part, allVars>>

(* In "rows" every account is there already. *)
MCInit ==
  \/ part \in {"accounts", "settings"} /\ SettingsInit
  \/ /\ part = "rows"
     /\ \E p \in Passwords :
          users = [e \in Emails |-> [NoUser EXCEPT !.password = p]]
     /\ resets = [t \in Tokens |->
                    [at |-> "unborn", email |-> AnEmail, created |-> 0]]
     /\ mails = {} /\ now = 0 /\ used = {}
     /\ req = [q \in Requests |-> Idle(AnEmail)]
     /\ configs = [i \in ConfigIds |-> NoConfig]
     /\ posts = [p \in Posts |-> NoPost]

Busy == Cardinality({q \in Requests : req'[q].pc # "idle"})

(* Bounds of the parts.  While requests race no post is under way, and no mail
   waits. *)
AccountsBound ==
  part = "accounts" => Busy <= 1 \/ mails' = {}

(* Beside posts there is one request, for one token, no mail and no passing of
   time; the posts are about one organization and one row. *)
SettingsBound ==
  part = "settings" =>
    /\ Busy <= 1 /\ mails' = {} /\ now' = now
    /\ Cardinality({t \in Tokens : resets'[t].at # "unborn"}) <= 1
    /\ configs' = [configs EXCEPT ![1] = configs'[1]]
    /\ \A p \in Posts : posts'[p].org = AnOrg /\ posts'[p].id = NoId

(* Both are about one account. *)
OneAccount ==
  part # "rows" =>
    /\ \A q \in Requests : req'[q].email = AnEmail
    /\ \A p \in Posts : posts'[p].email = AnEmail

(* Two accounts do not enter the same, and the second posts for one
   organization only. *)
RowsBound ==
  part = "rows" => \A p \in Posts : posts'[p].pc # "idle" =>
    LET TellApart(row) == (row.email = posts'[p].email)
                            = (row.form = posts'[p].form)
    IN /\ posts'[p].email = AnEmail \/ posts'[p].org = AnOrg
       /\ \A q \in Posts : posts'[q].pc # "idle" => TellApart(posts'[q])
       /\ \A i \in ConfigIds : configs'[i] # NoConfig => TellApart(configs'[i])

MCNext ==
  /\ part = "accounts" => UNCHANGED settingsVars
  /\ part = "rows" => UNCHANGED vars
  /\ SettingsNext
  /\ AccountsBound /\ SettingsBound /\ OneAccount /\ RowsBound
  /\ UNCHANGED part

MCSpec == MCInit /\ [][MCNext]_mcVars

(* Posts and requests, forms and passwords share their values. *)
Symmetry ==
  Permutations(Requests) \cup Permutations(Passwords) \cup Permutations(Tokens)

=============================================================================
