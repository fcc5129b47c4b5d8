----------------------------- MODULE MCHandlers -----------------------------
(***************************************************************************)
(* One run of TLC for four parts whose races are among requests, scans or  *)
(* workers of their own: the sessions, the bulk imports, the page store    *)
(* and the former queue, here with several workers.  They share no state,  *)
(* so a behaviour is about one of them.                                    *)
(***************************************************************************)
EXTENDS Sessions, BulkImport, PageStore, JobFactory, TLC

VARIABLE part       \* what the behaviour is about

mcVars == <<part, sessionVars, importVars, pageVars, vars>>

MCInit ==
  /\ part \in {"sessions", "users", "imports", "pages", "former"}
  /\ SessionsInit /\ ImportInit /\ PagesInit /\ Init

(* The sessions of one user, without a crash; or of two users in the same
   browser, with one id. *)
OneUser == crashes' = 0 /\ \A q \in Requests : req'[q].user = AUser

OneId == \A s \in SessionIds : sessions'[s].at # "unborn" => s = 1

MCNext ==
  /\ \/ /\ part \in {"sessions", "users"} /\ SessionsNext
        /\ IF part = "sessions" THEN OneUser ELSE OneId
        /\ UNCHANGED <<importVars, pageVars, vars>>
     \/ /\ part = "imports" /\ ImportNext
        /\ UNCHANGED <<sessionVars, pageVars, vars>>
     \/ /\ part = "pages" /\ PagesNext
        /\ UNCHANGED <<sessionVars, importVars, vars>>
     \/ /\ part = "former" /\ Next
        /\ UNCHANGED <<sessionVars, importVars, pageVars>>
  /\ UNCHANGED part

MCSpec == MCInit /\ [][MCNext]_mcVars

(* Requests that sign in and that import share their values; ids of sessions
   are not interchangeable, being ordered. *)
Symmetry == Permutations(Requests) \cup Permutations(Urls)

=============================================================================
