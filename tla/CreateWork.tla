----------------------------- MODULE CreateWork -----------------------------
(***************************************************************************)
(* The CREATE_WORK goroutine of the worker process: every 90 seconds it    *)
(* asks ScanEngine.ScansDue which pairs of a site and a scanner are due    *)
(* and pushes a job for each.  ScansDue reads the clock once, then runs    *)
(* one query per scanner in the order of a Go map, that is in any order;   *)
(* rows may come and go between the queries and before the pushes.         *)
(***************************************************************************)
EXTENDS WorkQueue

CONSTANT DueLimit   \* rows a query returns at most (400 in scanner.go)

ASSUME CreateWorkAssumption == DueLimit \in Nat \ {0}

VARIABLE sched      \* what the goroutine is doing

Pairs == SiteIds \X ScannerIds

SchedRow == [pc : {"idle", "query", "push"}, at : Nat,
             todo : SUBSET ScannerIds, due : SUBSET Pairs]

IdleSched == [pc |-> "idle", at |-> 0, todo |-> {}, due |-> {}]

SchedInit == sched = IdleSched

SchedTypeOK == sched \in SchedRow

(* Scanner.Interval in units of 5 minutes, the unit of the clock: 5 minutes
   for is_alive, 10 for git_scan. *)
Interval == [c \in ScannerIds |-> c]

-----------------------------------------------------------------------------
(* Mutant of DueSites: the scanner is not compared. *)
DueSitesOfAny(c, then) ==
  {s \in SiteIds : \E r \in ScanIds :
     Finished(r) /\ scans[r].site = s /\ scans[r].created < then}

(* Sites with any saved scan of c older than then, not only the latest one:
   the WHERE clause selects rows before they are grouped. *)
DueSites(c, then) ==
  {s \in SiteIds : \E r \in ScanIds :
     /\ Finished(r) /\ scans[r].site = s
     /\ scans[r].scanner = c /\ scans[r].created < then}

(* LIMIT without ORDER BY: any rows, as many as fit. *)
Page(S) ==
  LET size == IF Cardinality(S) < DueLimit THEN Cardinality(S) ELSE DueLimit
  IN {P \in SUBSET S : Cardinality(P) = size}

(* On to the next query, to the pushes or, with nothing left, to sleep. *)
Proceed(todo, due) ==
  sched' = IF todo = {} /\ due = {} THEN IdleSched
           ELSE [pc |-> IF todo # {} THEN "query" ELSE "push",
                 at |-> sched.at, todo |-> todo, due |-> due]

StartCreateWork ==
  /\ sched.pc = "idle"
  /\ sched' = [pc |-> "query", at |-> now, todo |-> ScannerIds, due |-> {}]
  /\ UNCHANGED <<sites, scans, now, jobs>>

QueryDue(c) ==
  /\ sched.pc = "query" /\ c \in sched.todo
  /\ \E P \in Page(DueSites(c, sched.at - Interval[c])) :
       Proceed(sched.todo \ {c}, sched.due \cup (P \X {c}))
  /\ UNCHANGED <<sites, scans, now, jobs>>

(* The job carries the id of the site and no url. *)
PushDue(s, c) ==
  /\ sched.pc = "push" /\ <<s, c>> \in sched.due
  /\ Push(ScanJob(s, NoUrl, c))
  /\ Proceed({}, sched.due \ {<<s, c>>})
  /\ UNCHANGED <<sites, scans, now>>

(* The worker process dies, and this goroutine with it. *)
SchedDies == sched' = IdleSched

SchedStep ==
  \/ \E c \in ScannerIds : QueryDue(c)
  \/ \E s \in SiteIds, c \in ScannerIds : PushDue(s, c)

SchedNext == StartCreateWork \/ SchedStep

=============================================================================
