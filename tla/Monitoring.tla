----------------------------- MODULE Monitoring -----------------------------
(***************************************************************************)
(* What the scan pipeline promises about one pair of a site and a scanner, *)
(* without the queue, the rows or the processes.                           *)
(*                                                                         *)
(*   unborn   the site is not registered yet                               *)
(*   pending  a scan of the pair was asked for and has not ended           *)
(*   out      no scan of the pair ever finished and none is coming         *)
(*   in       a scan of the pair finished: the scheduler repeats it        *)
(*   gone     the site is deleted                                          *)
(*                                                                         *)
(* A pair enters the schedule by its first finished scan and leaves it     *)
(* only with its site; a pair whose first scan comes to nothing stays out  *)
(* until a user asks again.                                                *)
(***************************************************************************)
VARIABLE phase      \* where the pair stands

Init == phase = "unborn"

(* The site is registered.  A site that gorm inserts on its own is scanned by
   one scanner, and the other pair is out from the start. *)
Register == phase = "unborn" /\ phase' \in {"pending", "out"}

(* A user triggers the scans of the site. *)
Request == phase = "out" /\ phase' = "pending"

(* The scan ends without a result: the site does not answer, its push is
   lost, a process dies. *)
Miss == phase = "pending" /\ phase' = "out"

(* The first scan of the pair is saved. *)
Establish == phase = "pending" /\ phase' = "in"

(* The site is deleted. *)
Remove == phase \in {"pending", "out", "in"} /\ phase' = "gone"

Next == Register \/ Request \/ Miss \/ Establish \/ Remove

Spec == Init /\ [][Next]_phase

=============================================================================
