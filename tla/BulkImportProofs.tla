-------------------------- MODULE BulkImportProofs --------------------------
(***************************************************************************)
(* Proofs about BulkImport: what an answer says of its lines, for any      *)
(* number of requests, urls and lines, while sites are deleted.            *)
(***************************************************************************)
EXTENDS BulkImport, FiniteSetTheorems, TLAPS

(* How far a request is. *)
RowOK(row) ==
  /\ row \in BulkRow
  /\ row.lines \in Seq(Lines) /\ Len(row.lines) <= MaxLines
  /\ row.at <= Len(row.lines) + 1 /\ row.added <= row.at - 1
  /\ row.pc = "idle" => row = IdleImport
  /\ row.pc \in {"count", "insert"} =>
       row.at <= Len(row.lines) /\ row.lines[row.at] \in Urls
  /\ row.pc = "answered" => row.at = Len(row.lines) + 1
  /\ row.fresh \subseteq 1..row.at - 1

(* What becomes of the lines a request q is done with when its row is row. *)
Kept(q, row) ==
  \A i \in 1..row.at - 1 :
    IsValidUrl(row.lines[i]) => row.lines[i] \in sites \/ <<q, i>> \in deleted

(* A url that came into the table since q counted was inserted by another. *)
Raced(q) ==
  bulk[q].pc = "insert" /\ Line(q) \in sites =>
    \E r \in Imports \ {q} : \E k \in bulk[r].fresh : bulk[r].lines[k] = Line(q)

ImportInv ==
  /\ sites \subseteq Urls /\ DOMAIN bulk = Imports
  /\ bulk \in [Imports -> BulkRow]
  /\ deleted \subseteq Imports \X (1..MaxLines)
  /\ \A q \in Imports : RowOK(bulk[q]) /\ Kept(q, bulk[q]) /\ Raced(q)
  /\ CountsItsSites

-----------------------------------------------------------------------------
(* A form is a sequence of at most MaxLines lines. *)
LEMMA FormFacts ==
  \A lines \in Forms : /\ lines \in Seq(Lines)
                       /\ Len(lines) \in 1..MaxLines
<1> SUFFICES ASSUME NEW n \in 1..MaxLines, NEW lines \in [1..n -> Lines]
             PROVE  lines \in Seq(Lines) /\ Len(lines) = n
  BY BulkImportAssumption DEF Forms
<1> QED
  BY BulkImportAssumption

(* A request moves from its row to the next line. *)
LEMMA NextLineFacts ==
  ASSUME NEW row \in BulkRow, row.at <= MaxLines
  PROVE  /\ NextLine(row) \in BulkRow
         /\ NextLine(row).pc = "next" /\ NextLine(row).at = row.at + 1
         /\ NextLine(row).lines = row.lines /\ NextLine(row).added = row.added
         /\ NextLine(row).fresh = row.fresh
<1>1. row.at + 1 \in 1..MaxLines + 1
  BY BulkImportAssumption DEF BulkRow
<1>2. NextLine(row) = [row EXCEPT !.pc = "next", !.at = row.at + 1]
  BY DEF NextLine, BulkRow
<1> QED
  BY <1>1, <1>2 DEF BulkRow

(* A request moves on by a line that counts. *)
LEMMA CountedFacts ==
  ASSUME NEW row \in BulkRow, row.at <= MaxLines, row.added + 1 \in 0..MaxLines,
         NEW fresh \in SUBSET (1..MaxLines)
  PROVE  /\ Counted(row, fresh) \in BulkRow
         /\ Counted(row, fresh).pc = "next" /\ Counted(row, fresh).at = row.at + 1
         /\ Counted(row, fresh).lines = row.lines
         /\ Counted(row, fresh).added = row.added + 1
         /\ Counted(row, fresh).fresh = fresh
<1> DEFINE at == row.at + 1
           added == row.added + 1
<1>1. at \in 1..MaxLines + 1 /\ added \in 0..MaxLines
  BY BulkImportAssumption DEF BulkRow
<1>2. Counted(row, fresh) =
        [row EXCEPT !.pc = "next", !.at = at, !.added = added, !.fresh = fresh]
  BY DEF Counted, BulkRow
<1> HIDE DEF at, added
<1>3. /\ Counted(row, fresh) \in BulkRow
      /\ Counted(row, fresh).pc = "next" /\ Counted(row, fresh).at = at
      /\ Counted(row, fresh).lines = row.lines
      /\ Counted(row, fresh).added = added /\ Counted(row, fresh).fresh = fresh
  BY <1>1, <1>2 DEF BulkRow
<1> QED
  BY <1>3 DEF at, added

(* Where a request moves on, nothing that was taken from it, or by it, is
   given back. *)
LEMMA StolenGrows ==
  ASSUME ImportInv, NEW q \in Imports, NEW row,
         bulk' = [bulk EXCEPT ![q] = row], bulk[q].fresh \subseteq row.fresh,
         row.at \in Nat, row.at >= bulk[q].at,
         row.lines = bulk[q].lines \/ bulk[q] = IdleImport
  PROVE  \A r \in Imports : Stolen(r) \subseteq Stolen(r)'
<1> SUFFICES ASSUME NEW r \in Imports, NEW i \in Stolen(r) PROVE i \in Stolen(r)'
  OBVIOUS
<1>0. bulk \in [Imports -> BulkRow]
  BY DEF ImportInv
<1>a. PICK p \in Imports \ {r} : \E k \in bulk[p].fresh :
        bulk[p].lines[k] = bulk[r].lines[i]
  BY DEF Stolen
<1>1. PICK k \in bulk[p].fresh : bulk[p].lines[k] = bulk[r].lines[i]
  BY <1>a
<1>2. i \in 1..bulk[r].at - 1
  BY DEF Stolen, Done
<1>3. k \in bulk'[p].fresh /\ bulk'[p].lines = bulk[p].lines
  BY <1>0, <1>1 DEF IdleImport
<1>4. i \in 1..bulk'[r].at - 1 /\ bulk'[r].lines = bulk[r].lines
  BY <1>0, <1>2 DEF IdleImport, BulkRow
<1> QED
  BY <1>1, <1>3, <1>4 DEF Stolen, Done

(* Sets of lines are finite, and a larger one counts at least as many. *)
LEMMA LinesCount ==
  ASSUME NEW m \in Int, NEW T \in SUBSET (1..m), NEW S \in SUBSET T
  PROVE  /\ IsFiniteSet(T) /\ IsFiniteSet(S)
         /\ Cardinality(T) \in Nat /\ Cardinality(S) \in Nat
         /\ Cardinality(S) <= Cardinality(T)
<1>1. IsFiniteSet(1..m)
  BY FS_Interval
<1>2. IsFiniteSet(T)
  BY <1>1, FS_Subset
<1>3. IsFiniteSet(S) /\ Cardinality(S) <= Cardinality(T)
  BY <1>2, FS_Subset
<1> QED
  BY <1>2, <1>3, FS_CardinalityType

(* A request that moves to row, and inserts no line, keeps ImportInv. *)
LEMMA ImportMoves ==
  ASSUME ImportInv, NEW q \in Imports, NEW row, RowOK(row), Kept(q, row),
         bulk' = [bulk EXCEPT ![q] = row], UNCHANGED <<sites, deleted>>,
         row.pc = "insert" => row.lines[row.at] \notin sites,
         row.fresh = bulk[q].fresh, row.added = bulk[q].added,
         row.at >= bulk[q].at, row.lines = bulk[q].lines \/ bulk[q] = IdleImport
  PROVE  ImportInv'
<1>0. bulk \in [Imports -> BulkRow] /\ row \in BulkRow /\ row.at \in Nat
  BY BulkImportAssumption DEF ImportInv, RowOK, BulkRow
<1>1. \A r \in Imports : RowOK(bulk'[r])
  BY <1>0 DEF ImportInv
<1>2. \A r \in Imports : Kept(r, bulk[r])' /\ Raced(r)'
  <2> SUFFICES ASSUME NEW r \in Imports PROVE Kept(r, bulk[r])' /\ Raced(r)'
    OBVIOUS
  <2>1. CASE r = q
    <3>1. bulk'[r] = row
      BY <1>0, <2>1
    <3> QED BY <2>1, <3>1 DEF Kept, Raced, Line
  <2>2. CASE r # q
    <3>1. bulk'[r] = bulk[r] /\ Kept(r, bulk[r]) /\ Raced(r)
      BY <1>0, <2>2 DEF ImportInv
    <3>2. \A p \in Imports : \A k \in bulk[p].fresh :
            k \in bulk'[p].fresh /\ bulk'[p].lines[k] = bulk[p].lines[k]
      BY <1>0 DEF IdleImport
    <3> QED BY <3>1, <3>2 DEF Kept, Raced, Line
  <2> QED BY <2>1, <2>2
<1>3. \A r \in Imports : Stolen(r) \subseteq Stolen(r)'
  BY <1>0, StolenGrows
<1>4. ASSUME NEW r \in Imports
      PROVE  /\ Cardinality(bulk'[r].fresh) <= bulk'[r].added
             /\ bulk'[r].added <= Cardinality(bulk'[r].fresh \cup Stolen(r)')
  <2> DEFINE fresh == bulk[r].fresh
  <2>1. /\ bulk'[r].fresh = fresh /\ bulk'[r].added = bulk[r].added
        /\ bulk[r].added \in Nat
    BY <1>0 DEF BulkRow
  <2>2. fresh \cup Stolen(r)' \in SUBSET (1..bulk'[r].at - 1)
    BY <1>1, <2>1 DEF RowOK, Stolen, Done
  <2>3. bulk'[r].at - 1 \in Int
    BY <1>0 DEF BulkRow
  <2>4. /\ Cardinality(fresh \cup Stolen(r)) <= Cardinality(fresh \cup Stolen(r)')
        /\ Cardinality(fresh \cup Stolen(r)) \in Nat
        /\ Cardinality(fresh \cup Stolen(r)') \in Nat
    <3>1. fresh \cup Stolen(r) \in SUBSET (fresh \cup Stolen(r)')
      BY <1>3
    <3> QED BY <2>2, <2>3, <3>1, LinesCount
  <2>5. /\ Cardinality(fresh) <= bulk[r].added
        /\ bulk[r].added <= Cardinality(fresh \cup Stolen(r))
    BY DEF ImportInv, CountsItsSites
  <2>6. bulk[r].added <= Cardinality(fresh \cup Stolen(r)')
    BY <2>1, <2>4, <2>5
  <2> QED BY <2>1, <2>5, <2>6
<1> QED
  BY <1>0, <1>1, <1>2, <1>4 DEF ImportInv, CountsItsSites

(* The INSERT of a line keeps ImportInv: a line that is refused was inserted by
   another request, since this one did not find it when it counted. *)
LEMMA ImportInserts ==
  ASSUME ImportInv, NEW q \in Imports, InsertUrl(q)
  PROVE  ImportInv'
<1> DEFINE old == bulk[q]
           at == old.at
           u == Line(q)
           fresh == IF u \in sites THEN old.fresh ELSE old.fresh \cup {at}
           row == Counted(old, fresh)
<1>0. bulk \in [Imports -> BulkRow] /\ old \in BulkRow /\ RowOK(old)
      /\ old.pc = "insert" /\ UNCHANGED deleted
  BY DEF ImportInv, InsertUrl
<1>1. /\ at <= Len(old.lines) /\ u = old.lines[at] /\ u \in Urls
      /\ at \in 1..MaxLines /\ old.added \in Nat /\ old.added <= at - 1
      /\ old.added + 1 \in 0..MaxLines
      /\ old.fresh \subseteq 1..at - 1
  BY <1>0, BulkImportAssumption DEF RowOK, BulkRow, Line
<1>2. sites' = sites \cup {u} /\ bulk' = [bulk EXCEPT ![q] = row]
  BY <1>0 DEF InsertUrl
<1>3. fresh \in SUBSET (1..MaxLines) /\ fresh \subseteq 1..at
      /\ old.fresh \subseteq fresh
  <2>1. CASE u \in sites
    <3>1. fresh = old.fresh
      BY <2>1
    <3> HIDE DEF fresh
    <3> QED BY <1>1, <3>1, BulkImportAssumption
  <2>2. CASE u \notin sites
    <3>1. fresh = old.fresh \cup {at}
      BY <2>2
    <3> HIDE DEF fresh
    <3> QED BY <1>1, <3>1, BulkImportAssumption
  <2> QED BY <2>1, <2>2
<1> HIDE DEF fresh
<1>4. /\ row \in BulkRow /\ row.pc = "next" /\ row.at = at + 1
      /\ row.lines = old.lines /\ row.added = old.added + 1 /\ row.fresh = fresh
  <2> HIDE DEF at
  <2>1. old.at <= MaxLines
    BY <1>1, BulkImportAssumption DEF at
  <2> QED BY <1>0, <1>1, <1>3, <2>1, CountedFacts DEF at
<1> HIDE DEF row
<1>5. RowOK(row)
  <2>1. row.at - 1 = at
    BY <1>1, <1>4
  <2>2. row.pc = "next" /\ row.at <= Len(row.lines) + 1 /\ row.added <= row.at - 1
    <3> Len(old.lines) \in Nat
      BY <1>0 DEF RowOK
    <3> QED BY <1>1, <1>4
  <2> QED BY <1>0, <1>3, <1>4, <2>1, <2>2 DEF RowOK
<1>6. \A r \in Imports : RowOK(bulk'[r])
  BY <1>0, <1>2, <1>5 DEF ImportInv
<1>7. ASSUME NEW r \in Imports PROVE Kept(r, bulk[r])' /\ Raced(r)'
  <2>0. Kept(r, bulk[r]) /\ Raced(r) /\ at \in Int
    BY <1>1 DEF ImportInv
  <2>1. CASE r = q
    <3>1. bulk'[r] = row
      BY <1>0, <1>2, <2>1
    <3>2. ASSUME NEW i \in 1..row.at - 1, IsValidUrl(old.lines[i])
          PROVE  old.lines[i] \in sites' \/ <<q, i>> \in deleted'
      <4>1. i = at \/ i \in 1..at - 1
        BY <1>4, <2>0
      <4> QED BY <1>0, <1>1, <1>2, <2>0, <2>1, <3>2, <4>1 DEF Kept
    <3> QED BY <1>4, <2>1, <3>1, <3>2 DEF Kept, Raced
  <2>2. CASE r # q
    <3>1. bulk'[r] = bulk[r]
      BY <1>0, <1>2, <2>2
    <3>2. \A p \in Imports : \A k \in bulk[p].fresh :
            k \in bulk'[p].fresh /\ bulk'[p].lines[k] = bulk[p].lines[k]
      BY <1>0, <1>2, <1>3, <1>4
    <3>3. Kept(r, bulk[r])'
      BY <1>0, <1>2, <2>0, <3>1 DEF Kept
    <3>a. Line(r)' = Line(r)
      BY <3>1 DEF Line
    <3>4. CASE Line(r) \in sites
      BY <2>0, <3>1, <3>2, <3>3, <3>4, <3>a DEF Raced
    <3>5. CASE Line(r) = u /\ u \notin sites
      <4>1. at \in bulk'[q].fresh /\ bulk'[q].lines[at] = u
        BY <1>0, <1>1, <1>2, <1>4, <3>5 DEF fresh
      <4> QED BY <2>2, <3>3, <3>5, <3>a, <4>1 DEF Raced
    <3>6. CASE Line(r) \notin sites'
      BY <3>3, <3>6, <3>a DEF Raced
    <3> QED BY <1>2, <3>4, <3>5, <3>6
  <2> QED BY <2>1, <2>2
<1>8. \A r \in Imports : Stolen(r) \subseteq Stolen(r)'
  <2>1. row.at \in Nat /\ row.at >= bulk[q].at
    BY <1>1, <1>4
  <2> QED BY <1>2, <1>3, <1>4, <2>1, StolenGrows
<1>9. ASSUME NEW r \in Imports
      PROVE  /\ Cardinality(bulk'[r].fresh) <= bulk'[r].added
             /\ bulk'[r].added <= Cardinality(bulk'[r].fresh \cup Stolen(r)')
  <2> DEFINE both == bulk[r].fresh \cup Stolen(r)
             both2 == bulk'[r].fresh \cup Stolen(r)'
  <2>0. /\ Cardinality(bulk[r].fresh) <= bulk[r].added
        /\ bulk[r].added <= Cardinality(both)
        /\ bulk[r].added \in Nat /\ bulk[r].at - 1 \in Nat
        /\ bulk'[r].at - 1 \in Nat
    BY <1>0, <1>1, <1>2, <1>4 DEF ImportInv, CountsItsSites, BulkRow
  <2>1. /\ both \in SUBSET (1..bulk[r].at - 1)
        /\ both2 \in SUBSET (1..bulk'[r].at - 1)
    BY <1>6 DEF ImportInv, RowOK, Stolen, Done
  <2>2. both \subseteq both2
    BY <1>0, <1>2, <1>3, <1>4, <1>8
  <2> HIDE DEF both, both2
  <2>a. /\ IsFiniteSet(both) /\ Cardinality(both) \in Nat
        /\ IsFiniteSet(both2) /\ Cardinality(both2) \in Nat
        /\ \A S \in SUBSET both2 : Cardinality(S) <= Cardinality(both2)
    <3>1. /\ IsFiniteSet(both) /\ Cardinality(both) \in Nat
          /\ IsFiniteSet(both2) /\ Cardinality(both2) \in Nat
      <4>1. bulk[r].at - 1 \in Int /\ bulk'[r].at - 1 \in Int
        BY <2>0
      <4> QED BY <2>1, <4>1, LinesCount
    <3> QED BY <3>1, FS_Subset
  <2>3. CASE r # q
    <3>1. bulk'[r] = bulk[r]
      BY <1>0, <1>2, <2>3
    <3>2. Cardinality(both) <= Cardinality(both2)
          /\ Cardinality(both) \in Nat /\ Cardinality(both2) \in Nat
      BY <2>2, <2>a
    <3> QED BY <2>0, <3>1, <3>2 DEF both2
  <2>4. CASE r = q
    (* The line is in the table because this request inserts it now, or
       because another one did. *)
    <3>1. at \in both2
      <4>1. CASE u \notin sites
        <5>1. at \in fresh
          BY <4>1 DEF fresh
        <5> QED BY <1>0, <1>2, <1>4, <2>4, <5>1 DEF both2
      <4>2. CASE u \in sites
        <5>a. PICK p \in Imports \ {q} : \E k \in bulk[p].fresh :
                bulk[p].lines[k] = u
          BY <1>0, <4>2 DEF ImportInv, Raced
        <5>1. PICK k \in bulk[p].fresh : bulk[p].lines[k] = u
          BY <5>a
        <5>3. k \in bulk'[p].fresh /\ bulk'[p].lines[k] = bulk'[q].lines[at]
          BY <1>0, <1>1, <1>2, <1>4, <5>1
        <5>4. at \in 1..bulk'[q].at - 1
          BY <1>0, <1>1, <1>2, <1>4
        <5> QED BY <2>4, <5>3, <5>4 DEF both2, Stolen, Done
      <4> QED BY <4>1, <4>2
    <3>2. at \notin both /\ at \notin old.fresh
      BY <1>1, <2>1, <2>4
    <3>3. IsFiniteSet(both) /\ Cardinality(both \cup {at}) = Cardinality(both) + 1
          /\ Cardinality(both) \in Nat
      BY <2>a, <3>2, FS_AddElement
    <3>4. Cardinality(both \cup {at}) <= Cardinality(both2)
          /\ Cardinality(both2) \in Nat
      <4>1. both \cup {at} \in SUBSET both2
        BY <2>2, <3>1
      <4> QED BY <2>a, <4>1
    <3>5. bulk'[r].added = old.added + 1 /\ bulk'[r].fresh = fresh
      BY <1>0, <1>2, <1>4, <2>4
    <3>6. Cardinality(fresh) <= old.added + 1
      <4>1. IsFiniteSet(old.fresh) /\ Cardinality(old.fresh) \in Nat
        <5>1. at - 1 \in Int /\ old.fresh \in SUBSET (1..at - 1)
          BY <1>1
        <5> QED BY <5>1, LinesCount
      <4>2. Cardinality(old.fresh \cup {at}) = Cardinality(old.fresh) + 1
        BY <3>2, <4>1, FS_AddElement
      <4>3. Cardinality(old.fresh) <= old.added
        BY <2>0, <2>4
      <4> QED BY <1>1, <4>1, <4>2, <4>3 DEF fresh
    <3>7. old.added <= Cardinality(both)
      BY <2>0, <2>4
    <3> QED BY <1>1, <3>3, <3>4, <3>5, <3>6, <3>7 DEF both2
  <2> QED BY <2>3, <2>4
<1> QED
  <2>1. /\ sites' \subseteq Urls /\ bulk' \in [Imports -> BulkRow]
        /\ deleted' \subseteq Imports \X (1..MaxLines)
    BY <1>0, <1>1, <1>2, <1>4 DEF ImportInv
  <2> QED BY <1>6, <1>7, <1>9, <2>1 DEF ImportInv, CountsItsSites

(* A deletion changes no request; the lines whose site it takes are noted. *)
LEMMA DeletionKeeps ==
  ASSUME ImportInv, NEW u \in Urls, DeleteUrl(u)
  PROVE  ImportInv'
<1>1. /\ sites' = sites \ {u} /\ UNCHANGED bulk
      /\ deleted' = deleted \cup DoneLinesOf(u)
  BY DEF DeleteUrl
<1>2. deleted' \subseteq Imports \X (1..MaxLines)
  BY <1>1 DEF ImportInv, DoneLinesOf
<1>3. ASSUME NEW q \in Imports PROVE Kept(q, bulk[q])' /\ Raced(q)'
  <2>0. bulk[q] \in BulkRow /\ bulk[q].at \in 1..MaxLines + 1
    BY DEF ImportInv, BulkRow
  <2>1. Raced(q)'
    BY <1>1 DEF ImportInv, Raced, Line
  <2>2. ASSUME NEW i \in 1..bulk[q].at - 1, IsValidUrl(bulk[q].lines[i])
        PROVE  bulk[q].lines[i] \in sites' \/ <<q, i>> \in deleted'
    <3>1. i \in 1..MaxLines /\ i <= Done(q)
      BY <2>0, BulkImportAssumption DEF Done
    <3>2. bulk[q].lines[i] \in sites \/ <<q, i>> \in deleted
      BY <2>2 DEF ImportInv, Kept
    <3>3. bulk[q].lines[i] = u => <<q, i>> \in DoneLinesOf(u)
      BY <3>1 DEF DoneLinesOf
    <3> QED BY <1>1, <3>2, <3>3
  <2> QED BY <1>1, <2>1, <2>2 DEF Kept
<1>4. CountsItsSites'
  <2>1. \A q \in Imports : Stolen(q)' = Stolen(q)
    BY <1>1 DEF Stolen, Done
  <2> QED BY <1>1, <2>1 DEF ImportInv, CountsItsSites
<1> QED
  BY <1>1, <1>2, <1>3, <1>4 DEF ImportInv

(* Every step of a request, a deletion and a crash keep ImportInv. *)
LEMMA ImportStep == ImportInv /\ [ImportNext]_importVars => ImportInv'
<1> SUFFICES ASSUME ImportInv, [ImportNext]_importVars PROVE ImportInv'
  OBVIOUS
<1>0. /\ bulk \in [Imports -> BulkRow]
      /\ \A q \in Imports : RowOK(bulk[q]) /\ Kept(q, bulk[q])
  BY DEF ImportInv
<1>1. ASSUME NEW q \in Imports, NEW lines \in Forms, BeginImport(q, lines)
      PROVE  ImportInv'
  <2> DEFINE row == [IdleImport EXCEPT !.pc = "next", !.lines = lines]
  <2>1. bulk[q] = IdleImport
    BY <1>0, <1>1 DEF BeginImport, RowOK
  <2>2. /\ row \in BulkRow /\ row.pc = "next" /\ row.lines = lines
        /\ row.at = 1 /\ row.added = 0 /\ row.fresh = {}
    <3>1. 1 \in 1..MaxLines + 1 /\ 0 \in 0..MaxLines
      BY BulkImportAssumption
    <3> QED BY <3>1 DEF IdleImport, BulkRow
  <2>3. bulk' = [bulk EXCEPT ![q] = row] /\ UNCHANGED <<sites, deleted>>
    BY <1>1 DEF BeginImport
  <2> HIDE DEF row
  <2>4. RowOK(row) /\ Kept(q, row)
    BY <2>2, FormFacts DEF RowOK, Kept
  <2>5. /\ row.fresh = bulk[q].fresh /\ row.added = bulk[q].added
        /\ row.at >= bulk[q].at
    BY <2>1, <2>2 DEF IdleImport
  <2> QED BY <2>1, <2>2, <2>3, <2>4, <2>5, ImportMoves
<1>2. ASSUME NEW q \in Imports, CheckLine(q) \/ CountUrl(q) \/ AnswerImport(q)
      PROVE  ImportInv'
  <2> DEFINE old == bulk[q]
             Moved(pc) == [old EXCEPT !.pc = pc]
  <2>1. /\ old \in BulkRow /\ old.at \in 1..MaxLines + 1
        /\ Len(old.lines) \in Nat /\ RowOK(old) /\ Kept(q, old)
    BY <1>0 DEF RowOK, BulkRow
  <2>2. ASSUME NEW pc \in {"count", "insert", "answered", "panicked"}
        PROVE  /\ Moved(pc) \in BulkRow /\ Moved(pc).pc = pc
               /\ Moved(pc).lines = old.lines /\ Moved(pc).at = old.at
               /\ Moved(pc).added = old.added /\ Moved(pc).fresh = old.fresh
    BY <2>1 DEF BulkRow
  <2>3. old.at <= Len(old.lines) =>
          /\ NextLine(old) \in BulkRow
          /\ NextLine(old).pc = "next" /\ NextLine(old).at = old.at + 1
          /\ NextLine(old).lines = old.lines /\ NextLine(old).added = old.added
          /\ NextLine(old).fresh = old.fresh
    BY <2>1, NextLineFacts, BulkImportAssumption DEF RowOK
  <2> HIDE DEF Moved
  <2>4. UNCHANGED <<sites, deleted>>
    BY <1>2 DEF CheckLine, CountUrl, AnswerImport
  <2>5. ASSUME NEW row, bulk' = [bulk EXCEPT ![q] = row], RowOK(row),
               Kept(q, row),
               row.pc = "insert" => row.lines[row.at] \notin sites,
               row.fresh = old.fresh, row.added = old.added,
               row.lines = old.lines, row.at \in {old.at, old.at + 1}
        PROVE  ImportInv'
    <3>1. row.at >= old.at
      BY <2>1, <2>5
    <3> QED BY <2>4, <2>5, <3>1, ImportMoves
  <2>6. ASSUME NEW pc \in {"count", "insert", "answered", "panicked"},
               bulk' = [bulk EXCEPT ![q] = Moved(pc)], RowOK(Moved(pc)),
               pc = "insert" => old.lines[old.at] \notin sites
        PROVE  ImportInv'
    <3>1. Kept(q, Moved(pc))
      BY <2>1, <2>2 DEF Kept
    <3> QED BY <2>2, <2>5, <2>6, <3>1
  <2>7. ImportInv'
    <3>1. CASE CheckLine(q) /\ Panics(Line(q))
      <4>1. bulk' = [bulk EXCEPT ![q] = Moved("panicked")]
        BY <1>0, <3>1 DEF CheckLine, Moved
      <4>2. RowOK(Moved("panicked"))
        BY <2>1, <2>2 DEF RowOK
      <4> QED BY <2>6, <4>1, <4>2
    <3>2. CASE CheckLine(q) /\ ~Panics(Line(q)) /\ IsValidUrl(Line(q))
      <4>1. bulk' = [bulk EXCEPT ![q] = Moved("count")]
        BY <1>0, <3>2 DEF CheckLine, Moved
      <4>2. RowOK(Moved("count"))
        BY <2>1, <2>2, <3>2 DEF RowOK, CheckLine, Line, IsValidUrl
      <4> QED BY <2>6, <4>1, <4>2
    <3>3. CASE \/ CheckLine(q) /\ ~Panics(Line(q)) /\ ~IsValidUrl(Line(q))
               \/ CountUrl(q) /\ Line(q) \in sites
      <4>1. bulk' = [bulk EXCEPT ![q] = NextLine(old)]
        BY <1>0, <3>3 DEF CheckLine, CountUrl
      <4>2. old.at <= Len(old.lines) /\ Line(q) = old.lines[old.at]
        BY <2>1, <3>3 DEF CheckLine, CountUrl, RowOK, Line
      <4>3. Kept(q, NextLine(old))
        <5> SUFFICES ASSUME NEW i \in 1..old.at, IsValidUrl(old.lines[i])
                     PROVE  old.lines[i] \in sites \/ <<q, i>> \in deleted
          BY <2>1, <2>3, <4>2 DEF Kept
        <5>1. CASE i = old.at
          BY <3>3, <4>2, <5>1
        <5>2. CASE i # old.at
          <6>1. i \in 1..old.at - 1
            BY <2>1, <5>2
          <6> QED BY <2>1, <6>1 DEF Kept
        <5> QED BY <5>1, <5>2
      <4>4. RowOK(NextLine(old))
        <5>1. /\ old.lines \in Seq(Lines) /\ Len(old.lines) <= MaxLines
              /\ old.added <= old.at - 1 /\ old.fresh \subseteq 1..old.at - 1
              /\ old.added \in Int
          BY <2>1 DEF RowOK, BulkRow
        <5>2. /\ NextLine(old).at - 1 = old.at
              /\ NextLine(old).at <= Len(NextLine(old).lines) + 1
              /\ NextLine(old).added <= NextLine(old).at - 1
              /\ NextLine(old).fresh \subseteq 1..NextLine(old).at - 1
          BY <2>1, <2>3, <4>2, <5>1
        <5> QED BY <2>3, <4>2, <5>1, <5>2 DEF RowOK
      <4> QED BY <2>3, <2>5, <4>1, <4>2, <4>3, <4>4
    <3>4. CASE CountUrl(q) /\ Line(q) \notin sites
      <4>1. bulk' = [bulk EXCEPT ![q] = Moved("insert")]
        BY <1>0, <3>4 DEF CountUrl, Moved
      <4>2. RowOK(Moved("insert"))
        BY <2>1, <2>2, <3>4 DEF RowOK, CountUrl, Line
      <4> QED BY <2>6, <3>4, <4>1, <4>2 DEF Line
    <3>5. CASE AnswerImport(q)
      <4>1. bulk' = [bulk EXCEPT ![q] = Moved("answered")]
        BY <1>0, <3>5 DEF AnswerImport, Moved
      <4>2. RowOK(Moved("answered"))
        <5>1. old.at = Len(old.lines) + 1
          BY <2>1, <3>5 DEF RowOK, AnswerImport
        <5> QED BY <2>1, <2>2, <5>1 DEF RowOK
      <4> QED BY <2>6, <4>1, <4>2
    <3> QED BY <1>2, <3>1, <3>2, <3>3, <3>4, <3>5
  <2> QED BY <2>7
<1>3. ASSUME NEW q \in Imports, InsertUrl(q) PROVE ImportInv'
  BY <1>3, ImportInserts
<1>4. CASE ImportsDie
  <2>1. ASSUME NEW q \in Imports
        PROVE  /\ RowOK(bulk'[q]) /\ bulk'[q].pc # "insert" /\ bulk'[q].lines = bulk[q].lines
               /\ bulk'[q].at = bulk[q].at /\ bulk'[q].added = bulk[q].added
               /\ bulk'[q].fresh = bulk[q].fresh
    <3> DEFINE row == [bulk[q] EXCEPT !.pc = "died"]
    <3>1. bulk'[q] = row \/ (bulk'[q] = bulk[q] /\ bulk[q].pc # "insert")
      BY <1>4 DEF ImportsDie
    <3>2. /\ row \in BulkRow /\ row.pc = "died" /\ row.lines = bulk[q].lines
          /\ row.at = bulk[q].at /\ row.added = bulk[q].added
          /\ row.fresh = bulk[q].fresh
      BY <1>0 DEF BulkRow
    <3> HIDE DEF row
    <3>3. RowOK(row)
      BY <1>0, <3>2 DEF RowOK
    <3> QED BY <1>0, <3>1, <3>2, <3>3
  <2>2. bulk' \in [Imports -> BulkRow] /\ UNCHANGED <<sites, deleted>>
    BY <1>4, <2>1 DEF ImportsDie, RowOK
  <2>3. \A q \in Imports : Stolen(q)' = Stolen(q)
    BY <2>1 DEF Stolen, Done
  <2>4. \A q \in Imports : Kept(q, bulk[q])' /\ Raced(q)'
    BY <1>0, <2>1, <2>2 DEF Kept, Raced
  <2>5. CountsItsSites'
    BY <2>1, <2>3 DEF ImportInv, CountsItsSites
  <2> QED BY <2>1, <2>2, <2>4, <2>5 DEF ImportInv
<1>5. CASE UNCHANGED importVars
  BY <1>5 DEF importVars, ImportInv, Kept, Raced, Line, CountsItsSites, Stolen,
     Done
<1> QED
  BY <1>1, <1>2, <1>3, <1>4, <1>5, DeletionKeeps DEF ImportNext

(* ImportInv holds of every behaviour. *)
LEMMA ImportInvariant == ImportSpec => []ImportInv
<1>1. ImportInit => ImportInv
  <2> SUFFICES ASSUME ImportInit PROVE ImportInv
    OBVIOUS
  <2>1. RowOK(IdleImport)
    BY BulkImportAssumption DEF IdleImport, RowOK, BulkRow
  <2>2. \A q \in Imports : Stolen(q) = {} /\ bulk[q].fresh = {} /\ bulk[q].added = 0
    BY DEF ImportInit, Stolen, Done, IdleImport
  <2>3. CountsItsSites
    BY <2>2, FS_EmptySet DEF CountsItsSites
  <2> QED
    <3>1. \A q \in Imports : bulk[q] = IdleImport
      BY DEF ImportInit
    <3>2. \A q \in Imports : RowOK(bulk[q]) /\ Kept(q, bulk[q]) /\ Raced(q)
      BY <2>1, <3>1 DEF Kept, Raced, IdleImport
    <3> QED BY <2>1, <2>3, <3>2 DEF ImportInit, ImportInv, RowOK
<1> QED
  BY <1>1, ImportStep, PTL DEF ImportSpec

-----------------------------------------------------------------------------
(* Requests and the table keep their types: in particular no count exceeds the
   number of lines. *)
THEOREM ImportTypeCorrect == ImportSpec => []ImportTypeOK
<1>1. ImportInv => ImportTypeOK
  BY DEF ImportInv, ImportTypeOK
<1> QED
  BY <1>1, ImportInvariant, PTL

(* Every valid line that a request is done with is in the table, whoever
   inserted it, also after a panic or a crash, unless its site was deleted since
   (Sites.Create, DELETE /admin/sites/:id). *)
THEOREM DoneLinesStayStored == ImportSpec => []DoneLinesAreStored
<1>1. ImportInv => DoneLinesAreStored
  <2> SUFFICES ASSUME ImportInv, NEW q \in Imports
               PROVE  /\ \A i \in 1..Done(q) : IsValidUrl(bulk[q].lines[i]) =>
                           bulk[q].lines[i] \in sites \/ <<q, i>> \in deleted
                      /\ bulk[q].pc = "answered" => Done(q) = Len(bulk[q].lines)
    BY DEF DoneLinesAreStored
  <2>1. RowOK(bulk[q]) /\ Kept(q, bulk[q]) /\ Len(bulk[q].lines) \in Nat
    BY DEF ImportInv, RowOK
  <2> QED BY <2>1 DEF RowOK, Kept, Done
<1> QED
  BY <1>1, ImportInvariant, PTL

(* The count of an answer is at least the sites the request inserted, and more
   only by lines that other requests inserted meanwhile, for any number of
   requests and deletions at once (admin.POST /sites_bulk). *)
THEOREM CountsStayTrue == ImportSpec => []CountsItsSites
<1>1. ImportInv => CountsItsSites
  BY DEF ImportInv
<1> QED
  BY <1>1, ImportInvariant, PTL

=============================================================================
