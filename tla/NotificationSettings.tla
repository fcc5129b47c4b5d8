------------------------ MODULE NotificationSettings ------------------------
(***************************************************************************)
(* POST /admin/notifications/config: the table `notification_configs`,     *)
(* beside the account routes, which write the `users` rows that the        *)
(* handlers of /admin carry copies of.  Each statement is a step.          *)
(*                                                                         *)
(* Bind fills the whole struct: a form also gives the organization of the  *)
(* row, and may give its id, which counts if the user has no row.  The     *)
(* other columns are one value, as they are always written together.  No   *)
(* route deletes a row.                                                    *)
(***************************************************************************)
EXTENDS Accounts

CONSTANTS
  Posts,      \* posts of the form the server handles at once
  Orgs,       \* organizations
  Forms,      \* what a user may enter in the other columns
  NoConfig,   \* no row
  MaxConfigs  \* bound of the ids

ConfigIds == 1..MaxConfigs

ConfigRow == [email : Emails, org : Orgs, form : Forms]

ASSUME SettingsAssumption ==
  /\ Orgs # {}
  /\ MaxConfigs \in Nat
  /\ NoConfig \notin Forms /\ NoConfig \notin ConfigRow

VARIABLES
  configs,    \* table notification_configs, by id
  posts       \* what each post is doing

settingsVars == <<configs, posts>>

allVars == <<vars, settingsVars>>

NoId == 0

(* user: the copy the gate of /admin loaded.  id: of the form.  found:
   config.ID.  History: blank, the user had no row when the post began;
   displaced, since then another user's post took over a row of the user. *)
PostRow == [pc : {"idle", "first", "save"}, email : Emails, user : UserRow,
            org : Orgs, form : Forms \cup {NoConfig},
            id : ConfigIds \cup {NoId}, found : ConfigIds \cup {NoId},
            blank : BOOLEAN, displaced : BOOLEAN]

AnOrg == CHOOSE o \in Orgs : TRUE

NoPost == [pc |-> "idle", email |-> AnEmail, user |-> NoUser, org |-> AnOrg,
           form |-> NoConfig, id |-> NoId, found |-> NoId,
           blank |-> FALSE, displaced |-> FALSE]

SettingsInit ==
  /\ Init
  /\ configs = [i \in ConfigIds |-> NoConfig]
  /\ posts = [p \in Posts |-> NoPost]

SettingsTypeOK ==
  /\ TypeOK
  /\ configs \in [ConfigIds -> ConfigRow \cup {NoConfig}]
  /\ posts \in [Posts -> PostRow]

Rows == {i \in ConfigIds : configs[i] # NoConfig}

RowsOf(e) == {i \in Rows : configs[i].email = e}

-----------------------------------------------------------------------------
(* The gate of /admin: Users.GetById, for a session of the user; Bind reads
   the form, whenever it is called. *)
BeginPost(p, e, org, form, id) ==
  /\ posts[p].pc = "idle" /\ Registered(e)
  /\ posts' = [posts EXCEPT ![p] =
       [pc |-> "first", email |-> e, user |-> users[e], org |-> org,
        form |-> form, id |-> id, found |-> NoId,
        blank |-> RowsOf(e) = {}, displaced |-> FALSE]]
  /\ UNCHANGED <<vars, configs>>

(* First(&config) orders by the id. *)
FirstConfig(p) ==
  LET mine == RowsOf(posts[p].email)
  IN /\ posts[p].pc = "first"
     /\ \E r \in IF mine = {} THEN {NoId} ELSE mine :
          /\ \A s \in mine : r <= s
          /\ posts' = [posts EXCEPT ![p].pc = "save", ![p].found = r]
     /\ UNCHANGED <<vars, configs>>

(* Mutant of Target: the row that was found does not decide bound.ID. *)
FormId(post) == post.id

(* bound.ID. *)
Target(post) == IF post.found # NoId THEN post.found ELSE post.id

(* The unique index of user and organization refuses bound. *)
Taken(post) ==
  \E r \in RowsOf(post.email) :
    r # Target(post) /\ configs[r].org = post.org

(* AUTO_INCREMENT stays above every id in use, and may leave some out. *)
NewIds == {r \in ConfigIds : \A s \in Rows : s < r}

(* Save(&bound): an UPDATE of the row bound.ID names, an INSERT with that id
   when there is no such row, or an INSERT with a new one when there is no
   bound.ID.  The error of a row that is refused is dropped. *)
SaveRow(p) ==
  LET post == posts[p]
      target == Target(post)
      Loses(e) == target # NoId /\ e # post.email /\ target \in RowsOf(e)
  IN /\ post.pc = "save"
     /\ IF Taken(post)
          THEN /\ UNCHANGED configs
               /\ posts' = [posts EXCEPT ![p] = NoPost]
          ELSE /\ \E r \in IF target = NoId THEN NewIds ELSE {target} :
                    configs' = [configs EXCEPT ![r] =
                      [email |-> post.email, org |-> post.org,
                       form |-> post.form]]
               /\ posts' = [q \in Posts |->
                    IF q = p THEN NoPost
                    ELSE IF posts[q].pc # "idle" /\ Loses(posts[q].email)
                      THEN [posts[q] EXCEPT !.displaced = TRUE]
                      ELSE posts[q]]

(* Mutant of SaveConfig: the association is updated with the row. *)
SaveConfigAndUser(p) ==
  /\ SaveRow(p)
  /\ users' = [users EXCEPT ![posts[p].email] = posts[p].user]
  /\ UNCHANGED <<resets, mails, req, now, used>>

(* User is an association that is neither updated nor created. *)
SaveConfig(p) == SaveRow(p) /\ UNCHANGED vars

SettingsNext ==
  \/ Work /\ UNCHANGED settingsVars
  \/ ServerDies /\ posts' = [p \in Posts |-> NoPost] /\ UNCHANGED configs
  \/ \E p \in Posts :
       \/ FirstConfig(p) \/ SaveConfig(p)
       \/ \E e \in Emails, org \in Orgs, form \in Forms,
             id \in ConfigIds \cup {NoId} : BeginPost(p, e, org, form, id)

SettingsSpec == SettingsInit /\ [][SettingsNext]_allVars

-----------------------------------------------------------------------------
(* What the user e entered for the organization o. *)
Entered(e, o) ==
  LET there == {r \in RowsOf(e) : configs[r].org = o}
  IN IF there = {} THEN NoConfig ELSE configs[CHOOSE r \in there : TRUE].form

Settings == [k \in Emails \X Orgs |-> Entered(k[1], k[2])]

OpenPost(post) ==
  [on |-> post.pc # "idle", user |-> post.email, org |-> post.org,
   form |-> post.form, names |-> post.id # NoId, first |-> post.blank]

Open == [p \in Posts |-> OpenPost(posts[p])]

Displaced == {p \in Posts : posts[p].displaced}

Register == INSTANCE SettingsRegister WITH
  Users <- Emails, Values <- Forms, NoSettings <- NoConfig,
  settings <- Settings, open <- Open, displaced <- Displaced

(* The handler implements SettingsRegister, however posts overlap and whatever
   they name: a post that began when its user had settings replaces settings of
   that user and of no other, and adds none, unless a row of the user was taken
   over meanwhile; and only a post that was overtaken, or that gives an
   organization the user has other settings for, may come to nothing, although
   it is answered with ?updated=1 (server.go:341-363). *)
KeepsSettings == Register!Spec

=============================================================================
