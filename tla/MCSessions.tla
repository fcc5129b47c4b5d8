----------------------------- MODULE MCSessions -----------------------------
(***************************************************************************)
(* Small instances of Sessions for TLC.  Requests are interchangeable;      *)
(* session ids are not, being ordered.                                     *)
(***************************************************************************)
EXTENDS Sessions, TLC

Symmetry == Permutations(Requests)

=============================================================================
