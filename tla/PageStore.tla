----------------------------- MODULE PageStore ------------------------------
(***************************************************************************)
(* RecordTransaction keeps the answer of a site: a row of http_responses,  *)
(* then a file named by the hash of the body, which every scan that gets   *)
(* the same body writes again, several of them at once.  Writing goes on   *)
(* at the writer's own offset in the file, whoever has emptied it since.   *)
(* Errors of the file system are dropped.                                  *)
(***************************************************************************)
EXTENDS Integers, FiniteSets

CONSTANTS
  Hashes,     \* bodies, by hash
  Writers,    \* goroutines that record a transaction at once
  Chunks,     \* writes that io.Copy needs for a body
  MaxRows     \* bounds the transactions

ASSUME PageStoreAssumption ==
  Hashes # {} /\ Chunks \in Nat \ {0} /\ MaxRows \in Nat

VARIABLES
  responses,  \* how many rows of http_responses each hash has
  file,       \* the chunks of each file that hold what they should
  writer,     \* what each goroutine is doing
  opener,     \* history: who emptied the file last
  intact      \* history: files whose last opener has written all of it

pageVars == <<responses, file, writer, opener, intact>>

(* next: the chunk to write. *)
WriterRow == [pc : {"idle", "insert", "create", "copy"}, hash : Hashes,
              next : 1..Chunks + 1]

AHash == CHOOSE h \in Hashes : TRUE

IdleWriter == [pc |-> "idle", hash |-> AHash, next |-> 1]

NoFile == {0}     \* a file that does not exist; one that does has no chunk 0

PagesInit ==
  /\ responses = [h \in Hashes |-> 0]
  /\ file = [h \in Hashes |-> NoFile]
  /\ writer = [w \in Writers |-> IdleWriter]
  /\ opener = [h \in Hashes |-> {}]
  /\ intact = {}

PagesTypeOK ==
  /\ responses \in [Hashes -> Nat]
  /\ file \in [Hashes -> SUBSET (0..Chunks)]
  /\ writer \in [Writers -> WriterRow]
  /\ opener \in [Hashes -> SUBSET Writers]
  /\ intact \subseteq Hashes

-----------------------------------------------------------------------------
(* HandleIsAlive has the answer; its body is read and hashed. *)
BeginPage(w, h) ==
  /\ writer[w].pc = "idle"
  /\ writer' = [writer EXCEPT ![w] =
       [IdleWriter EXCEPT !.pc = "insert", !.hash = h]]
  /\ UNCHANGED <<responses, file, opener, intact>>

InsertRow(w) ==
  LET h == writer[w].hash
  IN /\ writer[w].pc = "insert" /\ responses[h] < MaxRows
     /\ responses' = [responses EXCEPT ![h] = @ + 1]
     /\ writer' = [writer EXCEPT ![w].pc = "create"]
     /\ UNCHANGED <<file, opener, intact>>

(* Mutant of CreateFile: a file that exists is not written again. *)
CreateNew(w) ==
  LET h == writer[w].hash
  IN /\ writer[w].pc = "create"
     /\ file' = [file EXCEPT ![h] = @ \ NoFile]
     /\ opener' = [opener EXCEPT ![h] = {w}]
     /\ intact' = intact \ {h}
     /\ writer' = [writer EXCEPT ![w].pc = "copy",
                     ![w].next = IF file[h] = NoFile THEN 1 ELSE Chunks + 1]
     /\ UNCHANGED responses

(* os.Create empties a file that exists. *)
CreateFile(w) ==
  LET h == writer[w].hash
  IN /\ writer[w].pc = "create"
     /\ file' = [file EXCEPT ![h] = {}]
     /\ opener' = [opener EXCEPT ![h] = {w}]
     /\ intact' = intact \ {h}
     /\ writer' = [writer EXCEPT ![w].pc = "copy"]
     /\ UNCHANGED responses

(* io.Copy: one write. *)
CopyChunk(w) ==
  LET h == writer[w].hash
      k == writer[w].next
  IN /\ writer[w].pc = "copy" /\ k <= Chunks
     /\ file' = [file EXCEPT ![h] = @ \cup {k}]
     /\ writer' = [writer EXCEPT ![w].next = k + 1]
     /\ UNCHANGED <<responses, opener, intact>>

CloseFile(w) ==
  LET h == writer[w].hash
  IN /\ writer[w].pc = "copy" /\ writer[w].next > Chunks
     /\ intact' = IF opener[h] = {w} THEN intact \cup {h} ELSE intact
     /\ opener' = [opener EXCEPT ![h] = @ \ {w}]
     /\ writer' = [writer EXCEPT ![w] = IdleWriter]
     /\ UNCHANGED <<responses, file>>

(* os.Create or a write fails: the transaction returns all the same. *)
DiskFails(w) ==
  /\ writer[w].pc \in {"create", "copy"} /\ writer[w].next <= Chunks
  /\ writer' = [writer EXCEPT ![w] = IdleWriter]
  /\ opener' = [h \in Hashes |-> opener[h] \ {w}]
  /\ UNCHANGED <<responses, file, intact>>

(* The worker dies. *)
WorkerCrash ==
  /\ writer' = [w \in Writers |-> IdleWriter]
  /\ opener' = [h \in Hashes |-> {}]
  /\ UNCHANGED <<responses, file, intact>>

PagesNext ==
  \/ \E w \in Writers :
       \/ \E h \in Hashes : BeginPage(w, h)
       \/ InsertRow(w) \/ CreateFile(w) \/ CopyChunk(w) \/ CloseFile(w)
       \/ DiskFails(w)
  \/ WorkerCrash

PagesSpec == PagesInit /\ [][PagesNext]_pageVars

-----------------------------------------------------------------------------
(* When the last of those that opened a page has written all of it, the file
   is whole and stays so until it is opened again, although earlier openers
   still write to it, fail or die; and the pages of earlier scans with the
   same body are whole with it (RecordTransaction). *)
IntactPagesAreWhole ==
  \A h \in intact : file[h] = 1..Chunks /\ responses[h] > 0

=============================================================================
