--------------------------- MODULE PageStoreProofs --------------------------
(***************************************************************************)
(* Proofs about PageStore: a page that its last opener has finished is     *)
(* whole, for any number of writers, chunks, failures and crashes.         *)
(***************************************************************************)
EXTENDS PageStore, TLAPS

(* Whoever is about to open a file has inserted its row; whoever writes to it
   found or made a file. *)
WritersFollowRows ==
  \A w \in Writers :
    /\ writer[w].pc \in {"create", "copy"} => responses[writer[w].hash] > 0
    /\ writer[w].pc \in {"insert", "create"} => writer[w].next = 1
    /\ writer[w].pc = "copy" => 0 \notin file[writer[w].hash]

(* What the last one to open a file has written so far is in it, whatever
   earlier openers write there meanwhile. *)
OpenersWrite ==
  \A h \in Hashes : \A w \in opener[h] :
    /\ writer[w].pc = "copy" /\ writer[w].hash = h
    /\ 1..writer[w].next - 1 \subseteq file[h]

PagesInv == /\ PagesTypeOK /\ WritersFollowRows /\ OpenersWrite
            /\ IntactPagesAreWhole

(* A writer may be idle. *)
LEMMA IdleWriterIsOne == IdleWriter \in WriterRow /\ IdleWriter.pc = "idle"
BY PageStoreAssumption DEF IdleWriter, WriterRow, AHash

(* Every step of a writer, a failing disk and a crash keep PagesInv. *)
LEMMA PagesStep == PagesInv /\ [PagesNext]_pageVars => PagesInv'
<1> SUFFICES ASSUME PagesInv, [PagesNext]_pageVars PROVE PagesInv'
  OBVIOUS
<1> USE PageStoreAssumption
<1>0. /\ responses \in [Hashes -> Nat]
      /\ file \in [Hashes -> SUBSET (0..Chunks)]
      /\ writer \in [Writers -> WriterRow]
      /\ opener \in [Hashes -> SUBSET Writers]
      /\ intact \subseteq Hashes
      /\ \A w \in Writers :
           /\ writer[w].pc \in {"idle", "insert", "create", "copy"}
           /\ writer[w].hash \in Hashes /\ writer[w].next \in 1..Chunks + 1
  BY DEF PagesInv, PagesTypeOK, WriterRow
<1>1. ASSUME NEW w \in Writers, NEW h \in Hashes, BeginPage(w, h)
      PROVE  PagesInv'
  <2> DEFINE row == [IdleWriter EXCEPT !.pc = "insert", !.hash = h]
  <2>1. row \in WriterRow /\ row.pc = "insert" /\ row.next = 1
    BY IdleWriterIsOne DEF WriterRow, IdleWriter
  <2>2. writer' = [writer EXCEPT ![w] = row] /\ writer[w].pc = "idle"
    BY <1>1 DEF BeginPage
  <2>3. UNCHANGED <<responses, file, opener, intact>>
    BY <1>1 DEF BeginPage
  <2> HIDE DEF row
  <2>4. PagesTypeOK' /\ IntactPagesAreWhole'
    BY <1>0, <2>1, <2>2, <2>3 DEF PagesInv, PagesTypeOK, IntactPagesAreWhole
  <2>5. WritersFollowRows'
    BY <1>0, <2>1, <2>2, <2>3 DEF PagesInv, WritersFollowRows
  <2>6. OpenersWrite'
    BY <1>0, <2>1, <2>2, <2>3 DEF PagesInv, OpenersWrite
  <2> QED BY <2>4, <2>5, <2>6 DEF PagesInv
<1>2. ASSUME NEW w \in Writers, InsertRow(w) PROVE PagesInv'
  <2> DEFINE row == [writer[w] EXCEPT !.pc = "create"]
  <2>1. row \in WriterRow /\ row.pc = "create" /\ row.hash = writer[w].hash
        /\ row.next = writer[w].next
    BY <1>0 DEF WriterRow
  <2>2. /\ writer' = [writer EXCEPT ![w] = row] /\ writer[w].pc = "insert"
        /\ responses' = [responses EXCEPT ![writer[w].hash] = @ + 1]
        /\ UNCHANGED <<file, opener, intact>>
    BY <1>0, <1>2 DEF InsertRow
  <2> HIDE DEF row
  <2>3. /\ responses' \in [Hashes -> Nat]
        /\ \A h \in Hashes : responses[h] > 0 => responses'[h] > 0
        /\ responses'[row.hash] > 0
    BY <1>0, <2>1, <2>2
  <2> QED
    BY <1>0, <2>1, <2>2, <2>3
    DEF PagesInv, PagesTypeOK, WritersFollowRows, OpenersWrite,
        IntactPagesAreWhole
<1>3. ASSUME NEW w \in Writers, CreateFile(w) PROVE PagesInv'
  <2> DEFINE h == writer[w].hash
             row == [writer[w] EXCEPT !.pc = "copy"]
  <2>1. row \in WriterRow /\ row.pc = "copy" /\ row.hash = h
        /\ row.next = writer[w].next
    BY <1>0 DEF WriterRow
  <2>2. /\ writer' = [writer EXCEPT ![w] = row] /\ writer[w].pc = "create"
        /\ file' = [file EXCEPT ![h] = {}]
        /\ opener' = [opener EXCEPT ![h] = {w}]
        /\ intact' = intact \ {h} /\ UNCHANGED responses /\ h \in Hashes
    BY <1>0, <1>3 DEF CreateFile
  <2>3. row.next = 1 /\ responses[h] > 0
    BY <2>1, <2>2 DEF PagesInv, WritersFollowRows
  <2> HIDE DEF row, h
  <2>4. PagesTypeOK' /\ WritersFollowRows' /\ IntactPagesAreWhole'
    BY <1>0, <2>1, <2>2, <2>3
    DEF PagesInv, PagesTypeOK, WritersFollowRows, IntactPagesAreWhole
  <2>5. OpenersWrite'
    BY <1>0, <2>1, <2>2, <2>3 DEF PagesInv, OpenersWrite
  <2> QED BY <2>4, <2>5 DEF PagesInv
<1>4. ASSUME NEW w \in Writers, CopyChunk(w) PROVE PagesInv'
  <2> DEFINE h == writer[w].hash
             k == writer[w].next
             row == [writer[w] EXCEPT !.next = k + 1]
  <2>1. k \in 1..Chunks /\ h \in Hashes
    BY <1>0, <1>4 DEF CopyChunk
  <2>2. row \in WriterRow /\ row.pc = writer[w].pc /\ row.hash = h
        /\ row.next = k + 1
    BY <1>0, <2>1 DEF WriterRow
  <2>3. /\ writer' = [writer EXCEPT ![w] = row] /\ writer[w].pc = "copy"
        /\ file' = [file EXCEPT ![h] = @ \cup {k}]
        /\ UNCHANGED <<responses, opener, intact>>
    BY <1>0, <1>4 DEF CopyChunk
  <2> HIDE DEF row, h, k
  <2>4. PagesTypeOK' /\ WritersFollowRows' /\ IntactPagesAreWhole'
    <3>1. PagesTypeOK'
      BY <1>0, <2>1, <2>2, <2>3 DEF PagesInv, PagesTypeOK
    <3>2. WritersFollowRows'
      BY <1>0, <2>1, <2>2, <2>3 DEF PagesInv, WritersFollowRows, h
    <3>3. IntactPagesAreWhole'
      BY <1>0, <2>1, <2>3 DEF PagesInv, IntactPagesAreWhole
    <3> QED BY <3>1, <3>2, <3>3
  <2>5. OpenersWrite'
    <3> SUFFICES ASSUME NEW g \in Hashes, NEW v \in opener[g]
                 PROVE  /\ writer'[v].pc = "copy" /\ writer'[v].hash = g
                        /\ 1..writer'[v].next - 1 \subseteq file'[g]
      BY <2>3 DEF OpenersWrite
    <3>1. /\ writer[v].pc = "copy" /\ writer[v].hash = g /\ v \in Writers
          /\ 1..writer[v].next - 1 \subseteq file[g]
      BY <1>0 DEF PagesInv, OpenersWrite
    <3>2. file[g] \subseteq file'[g] /\ k \in file'[h]
      BY <1>0, <2>1, <2>3
    <3>3. CASE v = w
      <4>1. 1..writer'[v].next - 1 \subseteq (1..writer[v].next - 1) \cup {k}
        BY <1>0, <2>1, <2>2, <2>3, <3>3 DEF k
      <4> QED
        BY <1>0, <2>2, <2>3, <3>1, <3>2, <3>3, <4>1 DEF h
    <3>4. CASE v # w
      BY <1>0, <2>3, <3>1, <3>2, <3>4
    <3> QED BY <3>3, <3>4
  <2> QED BY <2>4, <2>5 DEF PagesInv
<1>5. ASSUME NEW w \in Writers, CloseFile(w) PROVE PagesInv'
  <2> DEFINE h == writer[w].hash
  <2>1. /\ writer' = [writer EXCEPT ![w] = IdleWriter] /\ writer[w].pc = "copy"
        /\ opener' = [opener EXCEPT ![h] = @ \ {w}] /\ h \in Hashes
        /\ intact' = (IF opener[h] = {w} THEN intact \cup {h} ELSE intact)
        /\ UNCHANGED <<responses, file>>
    BY <1>0, <1>5 DEF CloseFile
  <2>2. opener[h] = {w} => file[h] = 1..Chunks /\ responses[h] > 0
    <3> SUFFICES ASSUME opener[h] = {w} PROVE file[h] = 1..Chunks /\ responses[h] > 0
      OBVIOUS
    <3>1. writer[w].next = Chunks + 1
      BY <1>0, <1>5 DEF CloseFile
    <3>2. 1..writer[w].next - 1 \subseteq file[h]
      BY <2>1 DEF PagesInv, OpenersWrite
    <3>3. 0 \notin file[h] /\ responses[h] > 0
      BY <2>1 DEF PagesInv, WritersFollowRows
    <3>4. writer[w].next - 1 = Chunks /\ file[h] \subseteq 0..Chunks
      BY <1>0, <2>1, <3>1
    <3> HIDE DEF h
    <3>5. 1..Chunks \subseteq file[h]
      BY <3>2, <3>4
    <3>6. file[h] \subseteq 1..Chunks
      BY <3>3, <3>4
    <3> QED BY <3>3, <3>5, <3>6
  <2> HIDE DEF h
  <2>3. PagesTypeOK' /\ WritersFollowRows' /\ IntactPagesAreWhole'
    BY <1>0, <2>1, <2>2, IdleWriterIsOne
    DEF PagesInv, PagesTypeOK, WritersFollowRows, IntactPagesAreWhole
  <2>4. OpenersWrite'
    <3>1. \A g \in Hashes : w \in opener[g] => g = h
      BY DEF PagesInv, OpenersWrite, h
    <3> QED BY <1>0, <2>1, <3>1 DEF PagesInv, OpenersWrite
  <2> QED BY <2>3, <2>4 DEF PagesInv
<1>6. ASSUME NEW w \in Writers, DiskFails(w) PROVE PagesInv'
  BY <1>0, <1>6, IdleWriterIsOne
  DEF DiskFails, PagesInv, PagesTypeOK, WritersFollowRows, OpenersWrite,
      IntactPagesAreWhole
<1>7. CASE WorkerCrash
  BY <1>0, <1>7, IdleWriterIsOne
  DEF WorkerCrash, PagesInv, PagesTypeOK, WritersFollowRows, OpenersWrite,
      IntactPagesAreWhole
<1>8. CASE UNCHANGED pageVars
  BY <1>8 DEF pageVars, PagesInv, PagesTypeOK, WritersFollowRows, OpenersWrite,
              IntactPagesAreWhole
<1> QED
  BY <1>1, <1>2, <1>3, <1>4, <1>5, <1>6, <1>7, <1>8 DEF PagesNext

(* PagesInv holds of every behaviour. *)
LEMMA PagesInvariant == PagesSpec => []PagesInv
<1>1. PagesInit => PagesInv
  <2> SUFFICES ASSUME PagesInit PROVE PagesInv
    OBVIOUS
  <2>1. PagesTypeOK
    BY IdleWriterIsOne, PageStoreAssumption DEF PagesInit, PagesTypeOK, NoFile
  <2>2. WritersFollowRows
    BY DEF PagesInit, WritersFollowRows, IdleWriter
  <2>3. OpenersWrite /\ IntactPagesAreWhole
    BY DEF PagesInit, OpenersWrite, IntactPagesAreWhole
  <2> QED BY <2>1, <2>2, <2>3 DEF PagesInv
<1> QED
  BY <1>1, PagesStep, PTL DEF PagesSpec

-----------------------------------------------------------------------------
(* Rows, files and writers keep their types. *)
THEOREM PagesTypeCorrect == PagesSpec => []PagesTypeOK
BY PagesInvariant, PTL DEF PagesInv

(* The page whose last opener finished it is whole and has its row, although
   earlier openers still write to it, fail or die (RecordTransaction). *)
THEOREM IntactPagesStayWhole == PagesSpec => []IntactPagesAreWhole
BY PagesInvariant, PTL DEF PagesInv

=============================================================================
