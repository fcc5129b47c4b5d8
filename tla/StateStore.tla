----------------------------- MODULE StateStore -----------------------------
(***************************************************************************)
(* The table `state` behind State.Has, Get, Put and Delete (state.go): one *)
(* value per name.  Put is two statements, a count and then an UPDATE or   *)
(* an INSERT, with nothing around them; Put is therefore Has by the caller *)
(* and PutWrite with what Has said then.                                   *)
(***************************************************************************)
CONSTANTS
  Names,      \* keys of the table
  Values,     \* what the processes write
  Absent      \* no row

ASSUME StateStoreAssumption == Absent \notin Values

VARIABLE state  \* the table, by name

StoreInit == state = [n \in Names |-> Absent]

StoreTypeOK == state \in [Names -> Values \cup {Absent}]

Has(n) == state[n] # Absent

(* Mutant of PutWrite: an INSERT in either case. *)
PutInsert(n, value, found) ==
  state' = IF Has(n) THEN state ELSE [state EXCEPT ![n] = value]

(* The second statement of Put.  An UPDATE finds no row that was deleted
   since the count; the primary key refuses an INSERT of one that was put
   since, and its error is dropped. *)
PutWrite(n, value, found) ==
  state' = IF found = Has(n) THEN [state EXCEPT ![n] = value] ELSE state

Delete(n) == state' = [state EXCEPT ![n] = Absent]

=============================================================================
