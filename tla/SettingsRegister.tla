-------------------------- MODULE SettingsRegister --------------------------
(***************************************************************************)
(* What POST /admin/notifications/config promises.  A user has at most one *)
(* value of the settings for an organization.  A post stores its own,      *)
(* whole, in the place of a value of its user, who may have had it for     *)
(* another organization.                                                   *)
(*                                                                         *)
(* Only if its user had none when it began, or lost one meanwhile, it may  *)
(* add a value; or put it in the place of another user's: in the first     *)
(* case if it names the row, in the second because its user's own was      *)
(* taken that way.  It comes to nothing only if there is a value already   *)
(* where it would store its own, and the user had none when it began, or   *)
(* has another, or lost one meanwhile; or if the server died.              *)
(***************************************************************************)
CONSTANTS Users, Orgs, Posts, Values, NoSettings

VARIABLES
  settings,   \* of each user for each organization
  open,       \* posts under way: the user, the organization, the form,
              \* whether it names a row, and whether the user had no settings
              \* when it began
  displaced   \* posts whose user lost settings since they began

vars == <<settings, open, displaced>>

Keys == Users \X Orgs

Closed == [on |-> FALSE, user |-> CHOOSE u \in Users : TRUE,
           org |-> CHOOSE o \in Orgs : TRUE, form |-> NoSettings,
           names |-> FALSE, first |-> FALSE]

Init ==
  /\ settings = [k \in Keys |-> NoSettings]
  /\ open = [p \in Posts |-> Closed]
  /\ displaced = {}

Has(k) == settings[k] # NoSettings

Key(p) == <<open[p].user, open[p].org>>

(* What p may be when it begins. *)
Fresh == [on : {TRUE}, user : Users, org : Orgs, form : Values,
          names : BOOLEAN, first : BOOLEAN]

Begin(p) ==
  LET post == open'[p]
  IN /\ ~open[p].on /\ post \in Fresh
     /\ post.first = (\A k \in Keys : k[1] = post.user => ~Has(k))
     /\ open' = [open EXCEPT ![p] = post]
     /\ UNCHANGED <<settings, displaced>>

(* The post may store one value more. *)
MayAdd(p) == open[p].first \/ p \in displaced

(* A key whose value the post may take the place of. *)
MayReplace(p, k) ==
  \/ k[1] = open[p].user
  \/ open[p].first /\ open[p].names
  \/ p \in displaced

(* The value goes to the key of the post, from is empty then. *)
Store(p, from) ==
  /\ open' = [open EXCEPT ![p] = Closed]
  /\ displaced' =
       (displaced \ {p}) \cup
         {q \in Posts : /\ open[q].on /\ open[q].user = from[1]
                       /\ from[1] # open[p].user}
  /\ \/ from = Key(p) /\ (Has(from) \/ MayAdd(p))
     \/ Has(from) /\ ~Has(Key(p)) /\ MayReplace(p, from)
  /\ settings' = [k \in Keys |->
       IF k = Key(p) THEN open[p].form
       ELSE IF k = from THEN NoSettings ELSE settings[k]]

Drop(p) ==
  /\ open' = [open EXCEPT ![p] = Closed]
  /\ Has(Key(p))
  /\ \/ MayAdd(p)
     \/ \E k \in Keys : k # Key(p) /\ k[1] = open[p].user /\ Has(k)
  /\ displaced' = displaced \ {p}
  /\ UNCHANGED settings

ServerDies ==
  /\ open' = [p \in Posts |-> Closed]
  /\ displaced' = {}
  /\ UNCHANGED settings

Next ==
  \/ \E p \in Posts :
       \/ Begin(p)
       \/ /\ open[p].on /\ ~open'[p].on
          /\ Drop(p) \/ \E from \in Keys : Store(p, from)
  \/ ServerDies

Spec == Init /\ [][Next]_vars

=============================================================================
