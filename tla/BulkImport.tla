----------------------------- MODULE BulkImport -----------------------------
(***************************************************************************)
(* POST /admin/sites_bulk as a whole: the lines of the form are created    *)
(* one after the other by Sites.Create, several requests at once, while    *)
(* DELETE /admin/sites/:id removes sites.  Only what becomes of each line  *)
(* is modelled; the jobs a new site pushes are in SiteRoutes, for single   *)
(* lines.  POST /admin/sites is an import of one line.                     *)
(***************************************************************************)
EXTENDS Integers, Sequences, FiniteSets

CONSTANTS
  Urls,       \* urls that IsValidUrl accepts
  Refused,    \* a line it refuses: another scheme, localhost, a private address
  Malformed,  \* a line that url.Parse cannot parse
  MaxLines,   \* bounds the lines of a form
  Imports     \* bulk imports the server handles at once

ASSUME BulkImportAssumption ==
  /\ MaxLines \in Nat \ {0}
  /\ Refused \notin Urls /\ Malformed \notin Urls /\ Refused # Malformed

VARIABLES
  sites,      \* urls of the table sites
  bulk,       \* what each request is doing
  deleted     \* history: lines <<request, number>> whose site was deleted after
              \* the request was done with them

importVars == <<sites, bulk, deleted>>

Lines == Urls \cup {Refused, Malformed}

Forms == UNION {[1..n -> Lines] : n \in 1..MaxLines}

(* at: the line in hand; added: the count for the answer; fresh is history:
   the lines whose row this request inserted. *)
BulkRow == [pc : {"idle", "next", "count", "insert", "answered", "panicked", "died"},
            lines : Forms \cup {<<>>}, at : 1..MaxLines + 1,
            added : 0..MaxLines, fresh : SUBSET (1..MaxLines)]

IdleImport ==
  [pc |-> "idle", lines |-> <<>>, at |-> 1, added |-> 0, fresh |-> {}]

ImportInit ==
  /\ sites = {}
  /\ bulk = [q \in Imports |-> IdleImport]
  /\ deleted = {}

ImportTypeOK ==
  /\ sites \subseteq Urls
  /\ bulk \in [Imports -> BulkRow]
  /\ deleted \subseteq Imports \X (1..MaxLines)

Done(q) == bulk[q].at - 1     \* the lines a request is done with

-----------------------------------------------------------------------------
(* IsValidUrl: url.Parse returns nil for a line it cannot parse, and reading
   its Scheme panics before the error is looked at. *)
Panics(line) == line = Malformed

IsValidUrl(line) == line \in Urls

Line(q) == bulk[q].lines[bulk[q].at]

NextLine(row) == [row EXCEPT !.pc = "next", !.at = @ + 1]

(* The line counts for the answer; fresh: the lines inserted so far. *)
Counted(row, fresh) ==
  [row EXCEPT !.pc = "next", !.at = @ + 1, !.added = @ + 1, !.fresh = fresh]

BeginImport(q, lines) ==
  /\ bulk[q].pc = "idle"
  /\ bulk' = [bulk EXCEPT ![q] =
       [IdleImport EXCEPT !.pc = "next", !.lines = lines]]
  /\ UNCHANGED <<sites, deleted>>

(* The line is checked; a panic is recovered by the middleware, which answers
   500 and leaves the sites of the lines before. *)
CheckLine(q) ==
  /\ bulk[q].pc = "next" /\ bulk[q].at <= Len(bulk[q].lines)
  /\ bulk' = [bulk EXCEPT ![q] =
       IF Panics(Line(q)) THEN [@ EXCEPT !.pc = "panicked"]
       ELSE IF IsValidUrl(Line(q)) THEN [@ EXCEPT !.pc = "count"]
       ELSE NextLine(@)]
  /\ UNCHANGED <<sites, deleted>>

(* Mutant of CountUrl: the error "Already have this url" is not returned. *)
CountAsAdded(q) ==
  /\ bulk[q].pc = "count"
  /\ bulk' = [bulk EXCEPT ![q] =
       IF Line(q) \in sites THEN Counted(@, @.fresh)
       ELSE [@ EXCEPT !.pc = "insert"]]
  /\ UNCHANGED <<sites, deleted>>

CountUrl(q) ==
  /\ bulk[q].pc = "count"
  /\ bulk' = [bulk EXCEPT ![q] =
       IF Line(q) \in sites THEN NextLine(@) ELSE [@ EXCEPT !.pc = "insert"]]
  /\ UNCHANGED <<sites, deleted>>

(* Mutant of InsertUrl: the refused row ends the request's loop. *)
InsertOrStop(q) ==
  /\ bulk[q].pc = "insert"
  /\ sites' = sites \cup {Line(q)}
  /\ bulk' = [bulk EXCEPT ![q] =
       IF Line(q) \in sites THEN [@ EXCEPT !.pc = "answered"]
       ELSE Counted(@, @.fresh \cup {@.at})]
  /\ UNCHANGED deleted

(* DB.Create: the unique index refuses the url when another request inserted it
   since; the error is dropped and the line counts as added. *)
InsertUrl(q) ==
  /\ bulk[q].pc = "insert"
  /\ sites' = sites \cup {Line(q)}
  /\ bulk' = [bulk EXCEPT ![q] =
       Counted(@, IF Line(q) \in sites THEN @.fresh ELSE @.fresh \cup {@.at})]
  /\ UNCHANGED deleted

AnswerImport(q) ==
  /\ bulk[q].pc = "next" /\ bulk[q].at > Len(bulk[q].lines)
  /\ bulk' = [bulk EXCEPT ![q].pc = "answered"]
  /\ UNCHANGED <<sites, deleted>>

(* The server dies: the rest of the lines is lost. *)
ImportsDie ==
  /\ bulk' = [q \in Imports |->
       IF bulk[q].pc \in {"next", "count", "insert"}
         THEN [bulk[q] EXCEPT !.pc = "died"] ELSE bulk[q]]
  /\ UNCHANGED <<sites, deleted>>

DoneLinesOf(u) ==
  {d \in Imports \X (1..MaxLines) :
     d[2] <= Done(d[1]) /\ bulk[d[1]].lines[d[2]] = u}

(* DELETE /admin/sites/:id: the row of the site goes. *)
DeleteUrl(u) ==
  /\ u \in sites /\ sites' = sites \ {u}
  /\ deleted' = deleted \cup DoneLinesOf(u)
  /\ UNCHANGED bulk

ImportNext ==
  \/ \E q \in Imports :
       \/ \E lines \in Forms : BeginImport(q, lines)
       \/ CheckLine(q) \/ CountUrl(q) \/ InsertUrl(q) \/ AnswerImport(q)
  \/ \E u \in Urls : DeleteUrl(u)
  \/ ImportsDie

ImportSpec == ImportInit /\ [][ImportNext]_importVars

-----------------------------------------------------------------------------
(* However imports and deletions overlap, a request that moves on from a valid
   line leaves its url in the table, whoever inserted it, until somebody deletes
   the site; an answer says that of all its lines, a request that panicked or
   died of those before (admin.POST /sites_bulk, Sites.Create). *)
DoneLinesAreStored ==
  \A q \in Imports :
    /\ \A i \in 1..Done(q) :
         IsValidUrl(bulk[q].lines[i]) =>
           bulk[q].lines[i] \in sites \/ <<q, i>> \in deleted
    /\ bulk[q].pc = "answered" => Done(q) = Len(bulk[q].lines)

(* The lines a request is done with that another request inserted. *)
Stolen(q) ==
  {i \in 1..Done(q) : \E r \in Imports \ {q} : \E k \in bulk[r].fresh :
     bulk[r].lines[k] = bulk[q].lines[i]}

(* ?bulk_created= counts at least the sites the request inserted, and more
   only when other requests inserted one of its lines, also where sites are
   deleted and inserted again meanwhile (admin.POST /sites_bulk). *)
CountsItsSites ==
  \A q \in Imports :
    /\ Cardinality(bulk[q].fresh) <= bulk[q].added
    /\ bulk[q].added <= Cardinality(bulk[q].fresh \cup Stolen(q))

=============================================================================
