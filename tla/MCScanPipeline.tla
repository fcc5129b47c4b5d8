--------------------------- MODULE MCScanPipeline ---------------------------
(***************************************************************************)
(* Small instances of ScanPipeline for TLC.  Requests are interchangeable, *)
(* and so are goroutines, which the runs of safety properties exploit.     *)
(***************************************************************************)
EXTENDS ScanPipeline, TLC

Symmetry ==
  Permutations(Requests) \cup Permutations(Workers)

=============================================================================
