----------------------------- MODULE MCAccounts -----------------------------
(***************************************************************************)
(* Small instances of Accounts for TLC.  Requests, passwords and tokens    *)
(* are each interchangeable.                                               *)
(***************************************************************************)
EXTENDS Accounts, TLC

Symmetry ==
  Permutations(Requests) \cup Permutations(Passwords) \cup Permutations(Tokens)

=============================================================================
