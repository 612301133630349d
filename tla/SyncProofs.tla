----------------------------- MODULE SyncProofs -----------------------------
(***************************************************************************)
(* Proofs about Sync, for every batch size, every bound and every set of   *)
(* configurations.                                                         *)
(*                                                                         *)
(* Nothing is skipped because a watermark moves to the end of a batch that *)
(* was read behind it and has been stored, and the tables behind it do not *)
(* change: rows and notes are only appended, and a run behind the last one *)
(* that has ended is never ended later.  A sample keeps its label because  *)
(* its time names one reading for ever, in whatever copy of whatever batch *)
(* it travels: after a power loss, ids are given again and times are not.  *)
(***************************************************************************)
EXTENDS Sync, SequenceTheorems, WellFoundedInduction, TLAPS

RunRows    == [uid : Nat, config : Configs, ended : BOOLEAN]
SampleRows == [run : Nat, at : Nat, config : Configs]
NoteRows   == [run : Nat, at : Nat]
Samples    == [uid : Nat, at : Nat, config : Configs]

-----------------------------------------------------------------------------
(* The inductive invariant. *)

\* The tables, now and as of the last checkpoint.
TablesOK ==
  /\ runs \in Seq(RunRows) /\ rows \in Seq(SampleRows)
  /\ notes \in Seq(NoteRows)
  /\ safe[1] \in Seq(RunRows) /\ safe[2] \in Seq(SampleRows)
  /\ safe[3] \in Seq(NoteRows)
  /\ current \in {0, Len(runs)} /\ latest \in Nat /\ minted \in Nat

\* A run has its ULID for itself, and the open one has not ended.
RunsOK ==
  /\ \A i \in DOMAIN runs : runs[i].uid <= minted
  /\ \A i, j \in DOMAIN runs : runs[i].uid = runs[j].uid => i = j
  /\ current # 0 => ~runs[current].ended

\* A reading belongs to a run, under that run's configuration.
RowsOK ==
  \A i \in DOMAIN rows : /\ rows[i].run \in DOMAIN runs
                         /\ rows[i].config = runs[rows[i].run].config

\* What was checkpointed is where the tables began, but for an end since.
SafeIsPrefix ==
  /\ Len(safe[1]) <= Len(runs)
  /\ \A i \in DOMAIN safe[1] : /\ safe[1][i].uid = runs[i].uid
                               /\ safe[1][i].config = runs[i].config
                               /\ safe[1][i].ended => runs[i].ended
  /\ Len(safe[2]) <= Len(rows)
  /\ \A i \in DOMAIN safe[2] : /\ safe[2][i] = rows[i]
                               /\ safe[2][i].run \in DOMAIN safe[1]
  /\ Len(safe[3]) <= Len(notes)
  /\ \A i \in DOMAIN safe[3] : safe[3][i] = notes[i]

AgentOK ==
  /\ pc \in {"off", "top", "sessions", "errors", "samples", "waiting"}
  /\ enabled \in BOOLEAN /\ stored \in BOOLEAN /\ lapsed \in BOOLEAN
  /\ marks \in [Tables -> Nat]
  /\ IF pc = "waiting" THEN batch \in Batches ELSE batch = None /\ ~stored
  /\ late \in Seq(Batches)
  /\ failures \in Nat

LakeOK ==
  /\ lake = [runs |-> lake.runs, notes |-> lake.notes, rows |-> lake.rows]
  /\ \A u \in DOMAIN lake.runs :
       lake.runs[u] \in [uid : {u}, config : Configs, ended : BOOLEAN]
  /\ lake.notes \in Seq(NoteRows)
  /\ lake.rows \subseteq Samples

\* Every record of a sample there is: in the tables, under way, in the lake.
Shipped(b) == IF b.table = "samples" THEN Members(b.records) ELSE {}
Recorded   == {SampleRecord(rows[i]) : i \in DOMAIN rows}
UnderWay   == (UNION {Shipped(late[i]) : i \in DOMAIN late})
                \cup (IF pc = "waiting" THEN Shipped(batch) ELSE {})
Known      == Recorded \cup UnderWay \cup lake.rows

\* A time is the time of one reading.
OneReading ==
  /\ \A x \in Known : x.at <= latest
  /\ \A x, y \in Known : x.at = y.at => x = y

\* Behind the watermarks everything is in the lake.
SamplesBehind(m) == \A i \in 1 .. m : SampleRecord(rows[i]) \in lake.rows
NotesBehind(m)   == \A i \in 1 .. m : notes[i] \in Members(lake.notes)
RunsBehind(m) ==
  \A i \in DOMAIN runs : i < m =>
    /\ runs[i].uid \in DOMAIN lake.runs
    /\ runs[i].ended /\ runs[i].uid \notin stale => lake.runs[runs[i].uid].ended

\* A run that has not ended behind this place never will.
RunsFixed(m) == m <= Len(runs) + 1 /\ (current # 0 => m <= current)

MarksHold ==
  /\ marks["samples"] <= Len(rows) /\ SamplesBehind(marks["samples"])
  /\ marks["errors"] <= Len(notes) /\ NotesBehind(marks["errors"])
  /\ RunsFixed(marks["sessions"]) /\ RunsBehind(marks["sessions"])

\* The batch that is being sent has all there is between the watermark and
\* where the watermark goes next.
SamplesSent ==
  /\ batch.next <= Len(rows)
  /\ \A i \in marks["samples"] + 1 .. batch.next :
       SampleRecord(rows[i]) \in Members(batch.records)
  /\ stored => Members(batch.records) \subseteq lake.rows

NotesSent ==
  /\ batch.next <= Len(notes)
  /\ \A i \in marks["errors"] + 1 .. batch.next :
       notes[i] \in Members(batch.records)
  /\ stored => Members(batch.records) \subseteq Members(lake.notes)

RunsSent ==
  /\ RunsFixed(batch.next) /\ marks["sessions"] <= batch.next
  /\ \A i \in DOMAIN runs : i < batch.next =>
       \/ i < marks["sessions"]
       \/ \E r \in Members(batch.records) : r.uid = runs[i].uid
  /\ \A i \in DOMAIN runs : \A r \in Members(batch.records) :
       i < batch.next /\ r.uid = runs[i].uid /\ runs[i].ended => r.ended
  /\ stored => RunsBehind(batch.next)

BatchHolds ==
  pc = "waiting" => /\ batch.table = "samples"  => SamplesSent
                    /\ batch.table = "errors"   => NotesSent
                    /\ batch.table = "sessions" => RunsSent

SyncInv ==
  /\ TablesOK /\ RunsOK /\ RowsOK /\ SafeIsPrefix /\ AgentOK /\ LakeOK
  /\ OneReading
  /\ ~lapsed => MarksHold /\ BatchHolds

-----------------------------------------------------------------------------
(* What a batch read behind a watermark consists of. *)

\* A page is what is next behind the watermark, and as much as there is room
\* for.
LEMMA PageProperties ==
  ASSUME NEW S, NEW table \in Seq(S), NEW mark \in Nat
  PROVE  /\ Page(table, mark) \in Seq(S)
         /\ \A i \in DOMAIN Page(table, mark) :
              /\ mark + i \in DOMAIN table
              /\ Page(table, mark)[i] = table[mark + i]
         /\ mark <= Len(table) => mark + Len(Page(table, mark)) <= Len(table)
<1> DEFINE m == mark + 1
           n == Min2(mark + BatchRows, Len(table))
<1>1. Len(table) \in Nat /\ DOMAIN table = 1 .. Len(table) /\ BatchRows \in Nat
  BY LenProperties, BatchAssumption
<1>2. m \in Int /\ m >= 1 /\ n \in Int /\ n <= Len(table)
  BY <1>1 DEF Min2
<1>3. \A i \in m .. n : table[i] \in S
  <2>1. \A i \in m .. n : i \in 1 .. Len(table)
    BY <1>1, <1>2
  <2> QED
    BY <2>1, ElementOfSeq
<1>4. Page(table, mark) = SubSeq(table, m, n)
  BY DEF Page
<1> HIDE DEF m, n
<1>5. /\ SubSeq(table, m, n) \in Seq(S)
      /\ Len(SubSeq(table, m, n)) = IF m <= n THEN n - m + 1 ELSE 0
      /\ \A i \in 1 .. n - m + 1 : SubSeq(table, m, n)[i] = table[m + i - 1]
  BY <1>2, <1>3, SubSeqProperties
<1>6. DOMAIN SubSeq(table, m, n) = 1 .. IF m <= n THEN n - m + 1 ELSE 0
  BY <1>5, LenProperties
<1>7. ASSUME NEW i \in DOMAIN SubSeq(table, m, n)
      PROVE  /\ mark + i \in DOMAIN table
             /\ SubSeq(table, m, n)[i] = table[mark + i]
  <2>1. i \in 1 .. n - m + 1
    BY <1>2, <1>6, <1>7
  <2>2. m + i - 1 = mark + i /\ mark + i \in 1 .. Len(table)
    BY <1>1, <1>2, <2>1 DEF m
  <2> QED
    BY <1>1, <1>5, <2>1, <2>2
<1>8. mark <= Len(table) => mark + Len(SubSeq(table, m, n)) <= Len(table)
  BY <1>1, <1>2, <1>5 DEF m
<1> QED
  BY <1>4, <1>5, <1>7, <1>8

\* A page that is complete up to here holds what is between.
LEMMA PageCovers ==
  ASSUME NEW S, NEW table \in Seq(S), NEW mark \in Nat,
         NEW i \in mark + 1 .. mark + Len(Page(table, mark))
  PROVE  /\ i - mark \in DOMAIN Page(table, mark)
         /\ Page(table, mark)[i - mark] = table[i]
<1> DEFINE page == Page(table, mark)
<1>1. page \in Seq(S) /\ \A j \in DOMAIN page : page[j] = table[mark + j]
  BY PageProperties
<1> HIDE DEF page
<1>2. Len(page) \in Nat /\ DOMAIN page = 1 .. Len(page)
  BY <1>1, LenProperties
<1>3. i - mark \in 1 .. Len(page) /\ mark + (i - mark) = i
  BY <1>2 DEF page
<1> QED
  BY <1>1, <1>2, <1>3 DEF page

\* A sample as it is shipped.
LEMMA SampleRecordOK ==
  ASSUME TablesOK, RowsOK, NEW i \in DOMAIN rows
  PROVE  /\ SampleRecord(rows[i]) \in Samples
         /\ SampleRecord(rows[i]).at = rows[i].at
         /\ SampleRecord(rows[i]).config = rows[i].config
         /\ SampleRecord(rows[i]).uid = runs[rows[i].run].uid
<1>1. rows[i] \in SampleRows
  BY ElementOfSeq, LenProperties DEF TablesOK
<1>2. rows[i].run \in DOMAIN runs /\ rows[i].config = runs[rows[i].run].config
  BY DEF RowsOK
<1>3. runs[rows[i].run] \in RunRows
  BY <1>2, ElementOfSeq, LenProperties DEF TablesOK
<1> QED
  BY <1>1, <1>2, <1>3 DEF SampleRecord, Samples, SampleRows, RunRows

\* The three tables' batches.
LEMMA BatchParts ==
  /\ \A b \in Batches : /\ b.table \in Tables /\ b.next \in Nat
                        /\ b.more \in BOOLEAN
                        /\ b.table = "sessions" => b.records \in Seq(RunRows)
                        /\ b.table = "errors" => b.records \in Seq(NoteRows)
                        /\ b.table = "samples" => b.records \in Seq(Samples)
  /\ \A n \in Nat, more \in BOOLEAN, rs \in Seq(RunRows) :
       [table |-> "sessions", more |-> more, records |-> rs, next |-> n]
         \in Batches
  /\ \A n \in Nat, more \in BOOLEAN, rs \in Seq(NoteRows) :
       [table |-> "errors", more |-> more, records |-> rs, next |-> n]
         \in Batches
  /\ \A n \in Nat, more \in BOOLEAN, rs \in Seq(Samples) :
       [table |-> "samples", more |-> more, records |-> rs, next |-> n]
         \in Batches
  BY DEF Batches, Tables, RunRows, NoteRows, Samples

\* There is a last one among finitely many places.
LEMMA LastOfPlaces ==
  ASSUME NEW m \in Nat, NEW T, T \subseteq 1 .. m, T # {}
  PROVE  \E x \in T : \A y \in T : y <= x
<1> DEFINE D == {m - t : t \in T}
           R == OpToRel(<, Nat)
<1>1. D \subseteq Nat /\ D # {}
  <2>1. \A t \in T : m - t \in Nat
    OBVIOUS
  <2>2. PICK t \in T : TRUE
    OBVIOUS
  <2>3. m - t \in D
    BY <2>2
  <2> QED
    BY <2>1, <2>3
<1>2. PICK d \in D : \A e \in D : <<e, d>> \notin R
  <2>1. IsWellFoundedOn(R, Nat)
    BY NatLessThanWellFounded
  <2> HIDE DEF D, R
  <2> QED
    BY <1>1, <2>1, WFMin
<1>3. \A e \in D : ~(e < d)
  BY <1>1, <1>2 DEF OpToRel
<1>4. PICK x \in T : d = m - x
  BY <1>2
<1>5. ASSUME NEW y \in T PROVE y <= x
  <2>1. m - y \in D
    OBVIOUS
  <2>2. ~(m - y < m - x)
    BY <1>3, <1>4, <2>1
  <2> QED
    BY <2>2
<1> QED
  BY <1>5

\* The batch of sessions covers what is behind where its watermark goes.
LEMMA SessionBatchOK ==
  ASSUME SyncInv
  PROVE  /\ SessionBatch \in Batches /\ SessionBatch.table = "sessions"
         /\ ~lapsed =>
              /\ RunsFixed(SessionBatch.next)
              /\ marks["sessions"] <= SessionBatch.next
              /\ \A i \in DOMAIN runs : i < SessionBatch.next =>
                   \/ i < marks["sessions"]
                   \/ \E r \in Members(SessionBatch.records) : r.uid = runs[i].uid
              /\ \A i \in DOMAIN runs : \A r \in Members(SessionBatch.records) :
                   r.uid = runs[i].uid => r = runs[i]
<1> DEFINE from  == IF marks["sessions"] = 0 THEN 1 ELSE marks["sessions"]
           n     == IF Len(runs) + 1 - from < 0 THEN 0
                    ELSE Len(runs) + 1 - from
           recs  == [i \in 1 .. n |-> runs[from + i - 1]]
           ended == {i \in from .. Len(runs) : runs[i].ended}
           next  == IF ended = {} THEN marks["sessions"]
                    ELSE 1 + CHOOSE i \in ended : \A j \in ended : j <= i
           b     == [table |-> "sessions", more |-> FALSE, records |-> recs,
                     next |-> next]
<1>1. /\ Len(runs) \in Nat /\ DOMAIN runs = 1 .. Len(runs)
      /\ runs \in [1 .. Len(runs) -> RunRows]
  BY LenProperties DEF SyncInv, TablesOK
<1>2. marks["sessions"] \in Nat /\ from \in Nat /\ from >= 1 /\ n \in Nat
  BY <1>1 DEF SyncInv, AgentOK, Tables
<1>3. SessionBatch = b
  <2>1. 1 .. Len(runs) + 1 - from = 1 .. n
    BY <1>1, <1>2
  <2> HIDE DEF n
  <2> QED
    BY <2>1 DEF SessionBatch
<1>4. \A i \in 1 .. n : from + i - 1 \in 1 .. Len(runs)
  BY <1>1, <1>2
<1>5. recs \in Seq(RunRows) /\ DOMAIN recs = 1 .. n
  <2>1. \A i \in 1 .. n : runs[from + i - 1] \in RunRows
    BY <1>1, <1>4
  <2> HIDE DEF n, from
  <2> QED
    BY <1>2, <2>1
<1>6. ASSUME ended # {}
      PROVE  /\ next - 1 \in ended /\ next - 1 \in 1 .. Len(runs)
             /\ \A j \in ended : j <= next - 1
  <2> DEFINE last == CHOOSE i \in ended : \A j \in ended : j <= i
  <2>1. ended \subseteq 1 .. Len(runs)
    BY <1>1, <1>2
  <2>2. next = 1 + last
    BY <1>6
  <2> HIDE DEF from, ended, next
  <2>3. \E x \in ended : \A y \in ended : y <= x
    BY <1>1, <1>6, <2>1, LastOfPlaces
  <2>4. last \in ended /\ \A j \in ended : j <= last
    BY <2>3
  <2> HIDE DEF last
  <2>5. last \in Int
    BY <2>1, <2>4
  <2>6. next - 1 = last
    BY <2>2, <2>5
  <2> QED
    BY <2>1, <2>4, <2>6
<1>7. next \in Nat
  <2>1. ended = {} => next = marks["sessions"]
    OBVIOUS
  <2>2. CASE ended # {}
    <3>1. next - 1 \in 1 .. Len(runs) /\ next \in Int
      <4> DEFINE last == CHOOSE i \in ended : \A j \in ended : j <= i
      <4>1. next = 1 + last
        BY <2>2
      <4> HIDE DEF last, ended, next
      <4> QED
        BY <1>6, <2>2, <4>1
    <3> HIDE DEF next, ended
    <3> QED
      BY <1>1, <3>1
  <2> HIDE DEF next, ended
  <2> QED
    BY <1>2, <2>1, <2>2
<1>8. b \in Batches /\ b.table = "sessions" /\ b.next = next
      /\ b.records = recs
  <2> HIDE DEF recs, next
  <2> QED
    BY <1>5, <1>7, BatchParts
<1>9. ASSUME ~lapsed PROVE RunsFixed(next) /\ marks["sessions"] <= next
  <2>1. RunsFixed(marks["sessions"])
    BY <1>9 DEF SyncInv, MarksHold
  <2>2. ASSUME ended # {}
        PROVE  /\ next <= Len(runs) + 1 /\ (current # 0 => next <= current)
               /\ marks["sessions"] <= next
    <3>1. next - 1 \in 1 .. Len(runs) /\ runs[next - 1].ended
      <4>1. next - 1 \in ended /\ next - 1 \in 1 .. Len(runs)
        BY <1>6, <2>2
      <4> HIDE DEF next
      <4> QED
        BY <4>1
    <3>2. current # 0 => current = Len(runs) /\ ~runs[current].ended
      BY DEF SyncInv, TablesOK, RunsOK
    <3> HIDE DEF next
    <3>3. current # 0 => next - 1 # current
      BY <3>1, <3>2
    <3>4. next - 1 >= from
      BY <1>6, <2>2
    <3> QED
      BY <1>1, <1>2, <1>7, <3>1, <3>2, <3>3, <3>4
  <2>3. ended = {} => next = marks["sessions"]
    OBVIOUS
  <2> HIDE DEF ended, next
  <2> QED
    BY <1>2, <2>1, <2>2, <2>3 DEF RunsFixed
<1>10. ASSUME NEW i \in DOMAIN runs, i < next, ~(i < marks["sessions"])
       PROVE  \E r \in Members(recs) : r.uid = runs[i].uid
  <2>1. i \in Nat /\ i >= from /\ i <= Len(runs)
    BY <1>1, <1>2, <1>10
  <2>2. i - from + 1 \in 1 .. n /\ from + (i - from + 1) - 1 = i
    BY <1>1, <1>2, <2>1
  <2>3. recs[i - from + 1] = runs[i]
    BY <2>2
  <2> HIDE DEF recs, from, n
  <2> QED
    BY <1>5, <2>2, <2>3 DEF Members
<1>11. ASSUME NEW i \in DOMAIN runs, NEW r \in Members(recs), r.uid = runs[i].uid
       PROVE  r = runs[i]
  <2>1. PICK j \in 1 .. n : r = recs[j]
    BY <1>5 DEF Members
  <2>2. r = runs[from + j - 1] /\ from + j - 1 \in DOMAIN runs
    BY <1>1, <1>4, <2>1
  <2> HIDE DEF recs, from, n
  <2> QED
    BY <1>11, <2>2 DEF SyncInv, RunsOK
<1> HIDE DEF recs, next, b
<1>12. /\ SessionBatch \in Batches /\ SessionBatch.table = "sessions"
       /\ SessionBatch.next = next /\ SessionBatch.records = recs
  BY <1>3, <1>8
<1> QED
  BY <1>9, <1>10, <1>11, <1>12

\* A batch of errors is a page of them.
LEMMA ErrorBatchOK ==
  ASSUME SyncInv
  PROVE  /\ ErrorBatch \in Batches /\ ErrorBatch.table = "errors"
         /\ ~lapsed =>
              /\ ErrorBatch.next <= Len(notes)
              /\ \A i \in marks["errors"] + 1 .. ErrorBatch.next :
                   notes[i] \in Members(ErrorBatch.records)
<1> DEFINE mark == marks["errors"]
           page == Page(notes, mark)
<1>1. notes \in Seq(NoteRows) /\ mark \in Nat
  BY DEF SyncInv, TablesOK, AgentOK, Tables
<1> HIDE DEF mark
<1>2. /\ page \in Seq(NoteRows)
      /\ mark <= Len(notes) => mark + Len(page) <= Len(notes)
  BY <1>1, PageProperties
<1>3. \A i \in mark + 1 .. mark + Len(page) :
        i - mark \in DOMAIN page /\ page[i - mark] = notes[i]
  BY <1>1, PageCovers
<1>4. Len(page) \in Nat
  BY <1>2, LenProperties
<1>5. ErrorBatch = [table |-> "errors", more |-> FALSE, records |-> page,
                    next |-> mark + Len(page)]
  BY DEF ErrorBatch, mark
<1> HIDE DEF page
<1>6. mark + Len(page) \in Nat
  BY <1>1, <1>4
<1>7. ErrorBatch \in Batches
  BY <1>2, <1>5, <1>6, BatchParts
<1>8. /\ ErrorBatch.table = "errors" /\ ErrorBatch.records = page
      /\ ErrorBatch.next = mark + Len(page)
  BY <1>5
<1>9. ~lapsed => mark <= Len(notes)
  BY DEF SyncInv, MarksHold, mark
<1>10. \A i \in mark + 1 .. mark + Len(page) : notes[i] \in Members(page)
  BY <1>3 DEF Members
<1> QED
  BY <1>2, <1>7, <1>8, <1>9, <1>10 DEF mark

\* A batch of samples is a page of them, labelled.
LEMMA SampleBatchOK ==
  ASSUME SyncInv
  PROVE  /\ SampleBatch \in Batches /\ SampleBatch.table = "samples"
         /\ Members(SampleBatch.records) \subseteq Recorded
         /\ ~lapsed =>
              /\ SampleBatch.next <= Len(rows)
              /\ \A i \in marks["samples"] + 1 .. SampleBatch.next :
                   SampleRecord(rows[i]) \in Members(SampleBatch.records)
<1> DEFINE mark == marks["samples"]
           page == Page(rows, mark)
           recs == [i \in DOMAIN page |-> SampleRecord(page[i])]
           more == Len(page) = BatchRows
<1>1. rows \in Seq(SampleRows) /\ mark \in Nat /\ TablesOK /\ RowsOK
  BY DEF SyncInv, TablesOK, AgentOK, Tables
<1> HIDE DEF mark
<1>2. /\ page \in Seq(SampleRows)
      /\ \A i \in DOMAIN page : mark + i \in DOMAIN rows /\ page[i] = rows[mark + i]
      /\ mark <= Len(rows) => mark + Len(page) <= Len(rows)
  BY <1>1, PageProperties
<1>3. \A i \in mark + 1 .. mark + Len(page) :
        i - mark \in DOMAIN page /\ page[i - mark] = rows[i]
  BY <1>1, PageCovers
<1>4. SampleBatch = [table |-> "samples", more |-> more, records |-> recs,
                     next |-> mark + Len(page)]
  BY DEF SampleBatch, mark
<1> HIDE DEF page
<1>5. Len(page) \in Nat /\ DOMAIN page = 1 .. Len(page)
  BY <1>2, LenProperties
<1>6. \A i \in DOMAIN page : recs[i] \in Recorded /\ recs[i] \in Samples
  BY <1>1, <1>2, SampleRecordOK DEF Recorded
<1>7. recs \in Seq(Samples)
  <2>1. \A i \in 1 .. Len(page) : SampleRecord(page[i]) \in Samples
    BY <1>5, <1>6
  <2> QED
    BY <1>5, <2>1
<1>8. mark + Len(page) \in Nat /\ more \in BOOLEAN
  BY <1>1, <1>5
<1>9. \A i \in mark + 1 .. mark + Len(page) :
        SampleRecord(rows[i]) \in Members(recs)
  <2>1. ASSUME NEW i \in mark + 1 .. mark + Len(page)
        PROVE  SampleRecord(rows[i]) \in Members(recs)
    <3>1. i - mark \in DOMAIN recs /\ recs[i - mark] = SampleRecord(rows[i])
      BY <1>3, <2>1
    <3> HIDE DEF recs
    <3> QED
      BY <3>1 DEF Members
  <2> QED
    BY <2>1
<1>10. Members(recs) \subseteq Recorded
  BY <1>6 DEF Members
<1> HIDE DEF recs, more
<1>11. SampleBatch \in Batches
  BY <1>4, <1>7, <1>8, BatchParts
<1>12. /\ SampleBatch.table = "samples" /\ SampleBatch.records = recs
       /\ SampleBatch.next = mark + Len(page)
  BY <1>4
<1>13. ~lapsed => mark <= Len(rows)
  BY DEF SyncInv, MarksHold, mark
<1> QED
  BY <1>2, <1>9, <1>10, <1>11, <1>12, <1>13 DEF mark

-----------------------------------------------------------------------------
(* What the steps of the agent, the server and the recorder leave alone. *)

HostOK == TablesOK /\ RunsOK /\ RowsOK /\ SafeIsPrefix

\* The tables and their checkpoint are touched by the recorder and the host.
LEMMA HostLeaves ==
  HostOK /\ UNCHANGED <<storeVars, safe>> => HostOK'
<1> SUFFICES ASSUME HostOK, UNCHANGED <<storeVars, safe>> PROVE HostOK'
  OBVIOUS
<1> USE DEF HostOK, storeVars, tables
<1>1. TablesOK'
  BY DEF TablesOK
<1>2. RunsOK' /\ RowsOK'
  BY DEF RunsOK, RowsOK
<1>3. SafeIsPrefix'
  BY DEF SafeIsPrefix
<1> QED
  BY <1>1, <1>2, <1>3

\* The lake is touched by the server.
LEMMA LakeLeaves == LakeOK /\ UNCHANGED lake => LakeOK'
  BY DEF LakeOK

\* Without a new reading there is no new record of one.
LEMMA ReadingLeaves ==
  OneReading /\ Known' \subseteq Known /\ latest' = latest => OneReading'
  BY DEF OneReading

\* The records of the tables change with the tables only.
LEMMA RecordedLeaves == UNCHANGED <<runs, rows>> => Recorded' = Recorded
  BY DEF Recorded, SampleRecord

\* The watermarks hold while neither they, the tables nor the lake move.
LEMMA MarksLeave ==
  MarksHold /\ UNCHANGED <<storeVars, marks, lake, stale>> => MarksHold'
<1> SUFFICES ASSUME MarksHold, UNCHANGED <<storeVars, marks, lake, stale>>
             PROVE  MarksHold'
  OBVIOUS
<1> USE DEF MarksHold, storeVars, tables
<1>1. SamplesBehind(marks["samples"])'
  BY DEF SamplesBehind, SampleRecord
<1>2. NotesBehind(marks["errors"])'
  BY DEF NotesBehind
<1>3. RunsFixed(marks["sessions"])' /\ RunsBehind(marks["sessions"])'
  BY DEF RunsFixed, RunsBehind
<1> QED
  BY <1>1, <1>2, <1>3

\* So does what is known of the batch, while that is being sent.
LEMMA BatchLeaves ==
  ASSUME BatchHolds, pc = "waiting",
         UNCHANGED <<storeVars, marks, lake, stale, batch>>,
         stored' => stored
  PROVE  BatchHolds'
<1> USE DEF storeVars, tables
<1>1. batch.table = "samples" => SamplesSent'
  BY DEF BatchHolds, SamplesSent, SampleRecord
<1>2. batch.table = "errors" => NotesSent'
  BY DEF BatchHolds, NotesSent
<1>3. batch.table = "sessions" => RunsSent'
  BY DEF BatchHolds, RunsSent, RunsFixed, RunsBehind
<1> QED
  BY <1>1, <1>2, <1>3 DEF BatchHolds

\* A copy the agent stops waiting for is under way still.
LEMMA LateGrows ==
  ASSUME AgentOK, pc = "waiting", late' = Append(late, batch)
  PROVE  /\ late' \in Seq(Batches)
         /\ \A i \in DOMAIN late' : Shipped(late'[i]) \subseteq UnderWay
<1>1. late \in Seq(Batches) /\ batch \in Batches
  BY DEF AgentOK
<1> DEFINE copies == Append(late, batch)
<1>2. /\ copies \in Seq(Batches) /\ Len(copies) = Len(late) + 1
      /\ \A i \in 1 .. Len(late) : copies[i] = late[i]
      /\ copies[Len(late) + 1] = batch
  BY <1>1, AppendProperties
<1>3. /\ Len(late) \in Nat /\ DOMAIN late = 1 .. Len(late)
      /\ DOMAIN copies = 1 .. Len(late) + 1
  BY <1>1, <1>2, LenProperties
<1> HIDE DEF copies
<1>4. ASSUME NEW i \in DOMAIN copies PROVE Shipped(copies[i]) \subseteq UnderWay
  <2>1. CASE i \in 1 .. Len(late)
    BY <1>2, <1>3, <2>1 DEF UnderWay
  <2>2. CASE i = Len(late) + 1
    <3>1. copies[i] = batch
      BY <1>2, <2>2
    <3>2. Shipped(batch) \subseteq UnderWay
      BY DEF UnderWay
    <3> QED
      BY <3>1, <3>2
  <2> QED
    BY <1>3, <1>4, <2>1, <2>2
<1> QED
  BY <1>2, <1>4 DEF copies

-----------------------------------------------------------------------------
(* The agent's steps. *)

\* A step that neither begins nor ends an attempt: the top of a pass, a start,
\* a pause, a resume.
LEMMA QuietKeeps ==
  ASSUME SyncInv, Top \/ Start \/ Pause \/ Resume
  PROVE  SyncInv'
<1>1. /\ UNCHANGED <<storeVars, safe, marks, batch, stored, late, lake, stale,
                     lapsed>>
      /\ \/ pc' = pc
         \/ pc # "waiting" /\ pc' \in {"sessions", "top"}
  BY DEF Top, Start, Pause, Resume
<1>2. enabled' \in BOOLEAN /\ failures' \in Nat
  <2>1. enabled \in BOOLEAN /\ failures \in Nat
    BY DEF SyncInv, AgentOK
  <2>2. enabled' \in BOOLEAN
    BY <2>1, Zenon DEF Top, Start, Pause, Resume
  <2>3. failures' \in Nat
    BY <2>1 DEF Top, Start, Pause, Resume, Failure
  <2> QED
    BY <2>2, <2>3
<1>3. HostOK' /\ LakeOK'
  BY <1>1, HostLeaves, LakeLeaves DEF SyncInv, HostOK
<1>4. AgentOK'
  BY <1>1, <1>2 DEF SyncInv, AgentOK
<1>5. OneReading'
  <2>1. Recorded' = Recorded
    BY <1>1, RecordedLeaves DEF storeVars, tables
  <2>2. Known' \subseteq Known
    BY <1>1, <2>1 DEF Known, UnderWay, Shipped, Members
  <2> QED
    BY <1>1, <2>2, ReadingLeaves DEF SyncInv, storeVars
<1>6. ASSUME ~lapsed' PROVE MarksHold' /\ BatchHolds'
  <2>1. ~lapsed
    BY <1>1, <1>6
  <2>2. MarksHold /\ BatchHolds
    BY <2>1 DEF SyncInv
  <2>3. MarksHold'
    BY <1>1, <2>2, MarksLeave
  <2>4. CASE pc' = "waiting"
    BY <1>1, <2>2, <2>3, <2>4, BatchLeaves
  <2>5. CASE pc' # "waiting"
    BY <2>3, <2>5 DEF BatchHolds
  <2> QED
    BY <2>4, <2>5
<1> QED
  BY <1>3, <1>4, <1>5, <1>6 DEF SyncInv, HostOK

\* A batch that is read is behind the watermark of its table, all of it, and
\* labelled as the tables say.
LEMMA ReadKeeps ==
  ASSUME SyncInv, NEW b \in {SessionBatch, ErrorBatch, SampleBatch}, Read(b)
  PROVE  SyncInv'
<1>1. /\ pc = b.table
      /\ UNCHANGED <<storeVars, safe, enabled, marks, stored, late, lake,
                     stale, lapsed, failures>>
  BY DEF Read
<1>2. /\ b \in Batches /\ b.table \in Tables
      /\ b.table = "samples" => Members(b.records) \subseteq Recorded
  BY SessionBatchOK, ErrorBatchOK, SampleBatchOK DEF Tables
<1>3. pc # "waiting" /\ batch = None /\ ~stored
  BY <1>1, <1>2 DEF SyncInv, AgentOK, Tables
<1>4. \/ pc' \in {"errors", "samples", "top"} /\ batch' = batch
      \/ pc' = "waiting" /\ batch' = b
  BY <1>1, <1>2 DEF Read, Onward, Tables
<1>5. HostOK' /\ LakeOK'
  BY <1>1, HostLeaves, LakeLeaves DEF SyncInv, HostOK
<1>6. AgentOK'
  BY <1>1, <1>2, <1>3, <1>4 DEF SyncInv, AgentOK
<1>7. OneReading'
  <2>1. Recorded' = Recorded
    BY <1>1, RecordedLeaves DEF storeVars, tables
  <2>2. pc' = "waiting" => Shipped(batch') \subseteq Recorded
    BY <1>2, <1>4 DEF Shipped
  <2>3. UnderWay' \subseteq UnderWay \cup Recorded
    BY <1>1, <2>2 DEF UnderWay, Shipped, Members
  <2>4. Known' \subseteq Known
    BY <1>1, <2>1, <2>3 DEF Known
  <2> QED
    BY <1>1, <2>4, ReadingLeaves DEF SyncInv, storeVars
<1>8. ASSUME ~lapsed' PROVE MarksHold' /\ BatchHolds'
  <2>1. ~lapsed /\ MarksHold
    BY <1>1, <1>8 DEF SyncInv
  <2>2. MarksHold'
    BY <1>1, <2>1, MarksLeave
  <2>3. ASSUME pc' = "waiting", b.table = "samples" PROVE SamplesSent'
    <3>1. b = SampleBatch
      BY <2>3, SessionBatchOK, ErrorBatchOK
    <3>2. /\ b.next <= Len(rows)
          /\ \A i \in marks["samples"] + 1 .. b.next :
               SampleRecord(rows[i]) \in Members(b.records)
      BY <2>1, <3>1, SampleBatchOK
    <3>3. batch' = b /\ ~stored' /\ UNCHANGED <<rows, runs, marks>>
      BY <1>1, <1>3, <1>4, <2>3 DEF storeVars, tables
    <3> QED
      BY <3>2, <3>3 DEF SamplesSent, SampleRecord, Members
  <2>4. ASSUME pc' = "waiting", b.table = "errors" PROVE NotesSent'
    <3>1. b = ErrorBatch
      BY <2>4, SessionBatchOK, SampleBatchOK
    <3>2. /\ b.next <= Len(notes)
          /\ \A i \in marks["errors"] + 1 .. b.next :
               notes[i] \in Members(b.records)
      BY <2>1, <3>1, ErrorBatchOK
    <3>3. batch' = b /\ ~stored' /\ UNCHANGED <<notes, marks>>
      BY <1>1, <1>3, <1>4, <2>4 DEF storeVars, tables
    <3> QED
      BY <3>2, <3>3 DEF NotesSent, Members
  <2>5. ASSUME pc' = "waiting", b.table = "sessions" PROVE RunsSent'
    <3>1. b = SessionBatch
      BY <2>5, ErrorBatchOK, SampleBatchOK
    <3>2. /\ RunsFixed(b.next) /\ marks["sessions"] <= b.next
          /\ \A i \in DOMAIN runs : i < b.next =>
               \/ i < marks["sessions"]
               \/ \E r \in Members(b.records) : r.uid = runs[i].uid
          /\ \A i \in DOMAIN runs : \A r \in Members(b.records) :
               r.uid = runs[i].uid => r = runs[i]
      BY <2>1, <3>1, SessionBatchOK
    <3>3. batch' = b /\ ~stored' /\ UNCHANGED <<runs, marks, current>>
      BY <1>1, <1>3, <1>4, <2>5 DEF storeVars, tables
    <3>4. RunsFixed(batch.next)'
      BY <3>2, <3>3 DEF RunsFixed
    <3> QED
      BY <3>2, <3>3, <3>4 DEF RunsSent, Members
  <2>6. BatchHolds'
    BY <1>4, <2>3, <2>4, <2>5 DEF BatchHolds
  <2> QED
    BY <2>2, <2>6
<1> QED
  BY <1>5, <1>6, <1>7, <1>8 DEF SyncInv, HostOK

\* An attempt that ends without an answer: the batch is given up, sent again,
\* or gone with the process; a copy of it may still be under way.
LEMMA GivenUpKeeps ==
  ASSUME SyncInv, Refuse \/ NoAnswer \/ Crash
  PROVE  SyncInv'
<1>1. /\ UNCHANGED <<storeVars, safe, marks, lake, stale, lapsed>>
      /\ stored' = FALSE
      /\ \/ late' = late
         \/ pc = "waiting" /\ late' = Append(late, batch)
      /\ \/ pc' \in {"off", "errors", "samples", "top"} /\ batch' = None
         \/ pc = "waiting" /\ pc' = pc /\ batch' = batch
  <2>1. pc = "waiting" => batch.table \in Tables
    BY BatchParts DEF SyncInv, AgentOK
  <2> QED
    BY <2>1 DEF Refuse, NoAnswer, Crash, Abandon, Done, Onward, Tables
<1>2. enabled' \in BOOLEAN /\ failures' \in Nat
  <2>1. enabled \in BOOLEAN /\ failures \in Nat
    BY DEF SyncInv, AgentOK
  <2>2. enabled' \in BOOLEAN
    BY <2>1, Zenon DEF Refuse, NoAnswer, Crash
  <2>3. failures' = failures + 1
    BY Zenon DEF Refuse, NoAnswer, Crash, Abandon, Failure
  <2> QED
    BY <2>1, <2>2, <2>3
<1>3. HostOK' /\ LakeOK'
  BY <1>1, HostLeaves, LakeLeaves DEF SyncInv, HostOK
<1>4. /\ late' \in Seq(Batches)
      /\ \A i \in DOMAIN late' : Shipped(late'[i]) \subseteq UnderWay
  <2>1. CASE late' = late
    BY <2>1 DEF SyncInv, AgentOK, UnderWay
  <2>2. CASE pc = "waiting" /\ late' = Append(late, batch)
    BY <2>2, LateGrows DEF SyncInv
  <2> QED
    BY <1>1, <2>1, <2>2
<1>5. stored' \in BOOLEAN /\ ~stored'
  BY <1>1
<1>6. AgentOK'
  BY <1>1, <1>2, <1>4, <1>5 DEF SyncInv, AgentOK
<1>7. OneReading'
  <2>1. Recorded' = Recorded
    BY <1>1, RecordedLeaves DEF storeVars, tables
  <2>2. pc' = "waiting" => Shipped(batch') \subseteq UnderWay
    BY <1>1 DEF UnderWay
  <2>3. UnderWay' \subseteq UnderWay
    BY <1>4, <2>2 DEF UnderWay, Shipped, Members
  <2>4. Known' \subseteq Known
    BY <1>1, <2>1, <2>3 DEF Known
  <2> QED
    BY <1>1, <2>4, ReadingLeaves DEF SyncInv, storeVars
<1>8. ASSUME ~lapsed' PROVE MarksHold' /\ BatchHolds'
  <2>1. ~lapsed
    BY <1>1, <1>8
  <2>2. MarksHold /\ BatchHolds
    BY <2>1 DEF SyncInv
  <2>3. MarksHold'
    BY <1>1, <2>2, MarksLeave
  <2>4. CASE pc' = "waiting"
    <3>1. pc = "waiting" /\ batch' = batch /\ (stored' => stored)
      BY <1>1, <1>5, <2>4
    <3> QED
      BY <1>1, <2>2, <2>3, <3>1, BatchLeaves
  <2>5. CASE pc' # "waiting"
    BY <2>3, <2>5 DEF BatchHolds
  <2> QED
    BY <2>4, <2>5
<1> QED
  BY <1>3, <1>6, <1>7, <1>8 DEF SyncInv, HostOK

\* A watermark moves behind a batch that is stored.
LEMMA AckKeeps == SyncInv /\ Ack => SyncInv'
<1> SUFFICES ASSUME SyncInv, Ack PROVE SyncInv'
  OBVIOUS
<1>1. /\ pc = "waiting" /\ stored /\ stored' = FALSE /\ batch' = None
      /\ marks' = [marks EXCEPT ![batch.table] = batch.next]
      /\ UNCHANGED <<storeVars, safe, enabled, late, lake, stale, lapsed,
                     failures>>
  BY DEF Ack, Done
<1>2. /\ batch \in Batches /\ batch.table \in Tables /\ batch.next \in Nat
      /\ batch.more \in BOOLEAN
  BY <1>1, BatchParts DEF SyncInv, AgentOK
<1>3. pc' \in {"errors", "samples", "top"}
  BY <1>2 DEF Ack, Done, Onward, Tables
<1>4. HostOK' /\ LakeOK'
  BY <1>1, HostLeaves, LakeLeaves DEF SyncInv, HostOK
<1>5. stored' \in BOOLEAN /\ ~stored'
  BY <1>1
<1>6. /\ marks \in [Tables -> Nat] /\ marks' \in [Tables -> Nat]
      /\ marks'[batch.table] = batch.next
      /\ \A t \in Tables : t # batch.table => marks'[t] = marks[t]
  BY <1>1, <1>2 DEF SyncInv, AgentOK
<1>7. AgentOK'
  BY <1>1, <1>3, <1>5, <1>6 DEF SyncInv, AgentOK
<1>8. OneReading'
  <2>1. Recorded' = Recorded
    BY <1>1, RecordedLeaves DEF storeVars, tables
  <2>2. UnderWay' \subseteq UnderWay
    BY <1>1, <1>3 DEF UnderWay, Shipped, Members
  <2>3. Known' \subseteq Known
    BY <1>1, <2>1, <2>2 DEF Known
  <2> QED
    BY <1>1, <2>3, ReadingLeaves DEF SyncInv, storeVars
<1>9. ASSUME ~lapsed' PROVE MarksHold'
  <2>1. ~lapsed
    BY <1>1, <1>9
  <2>2. MarksHold /\ BatchHolds
    BY <2>1 DEF SyncInv
  <2>3. UNCHANGED <<runs, rows, notes, current, lake, stale>>
    BY <1>1 DEF storeVars, tables
  <2>4. /\ marks["samples"] \in Nat /\ marks["errors"] \in Nat
        /\ marks["sessions"] \in Nat
    BY <1>6 DEF Tables
  <2>5. marks'["samples"] <= Len(rows) /\ SamplesBehind(marks'["samples"])
    <3>1. CASE batch.table = "samples"
      <4>1. SamplesSent
        BY <1>1, <2>2, <3>1 DEF BatchHolds
      <4>2. \A i \in 1 .. batch.next : \/ i \in 1 .. marks["samples"]
                                       \/ i \in marks["samples"] + 1 .. batch.next
        BY <1>2, <2>4
      <4>3. SamplesBehind(batch.next)
        BY <1>1, <2>2, <4>1, <4>2 DEF SamplesSent, MarksHold, SamplesBehind
      <4> QED
        BY <1>6, <3>1, <4>1, <4>3 DEF SamplesSent
    <3>2. CASE batch.table # "samples"
      <4>1. marks'["samples"] = marks["samples"]
        BY <1>6, <3>2 DEF Tables
      <4> QED
        BY <2>2, <4>1 DEF MarksHold
    <3> QED
      BY <3>1, <3>2
  <2>6. marks'["errors"] <= Len(notes) /\ NotesBehind(marks'["errors"])
    <3>1. CASE batch.table = "errors"
      <4>1. NotesSent
        BY <1>1, <2>2, <3>1 DEF BatchHolds
      <4>2. \A i \in 1 .. batch.next : \/ i \in 1 .. marks["errors"]
                                       \/ i \in marks["errors"] + 1 .. batch.next
        BY <1>2, <2>4
      <4>3. NotesBehind(batch.next)
        BY <1>1, <2>2, <4>1, <4>2 DEF NotesSent, MarksHold, NotesBehind
      <4> QED
        BY <1>6, <3>1, <4>1, <4>3 DEF NotesSent
    <3>2. CASE batch.table # "errors"
      <4>1. marks'["errors"] = marks["errors"]
        BY <1>6, <3>2 DEF Tables
      <4> QED
        BY <2>2, <4>1 DEF MarksHold
    <3> QED
      BY <3>1, <3>2
  <2>7. RunsFixed(marks'["sessions"]) /\ RunsBehind(marks'["sessions"])
    <3>1. CASE batch.table = "sessions"
      BY <1>1, <1>6, <2>2, <3>1 DEF BatchHolds, RunsSent
    <3>2. CASE batch.table # "sessions"
      <4>1. marks'["sessions"] = marks["sessions"]
        BY <1>6, <3>2 DEF Tables
      <4> QED
        BY <2>2, <4>1 DEF MarksHold
    <3> QED
      BY <3>1, <3>2
  <2>8. SamplesBehind(marks["samples"])' /\ NotesBehind(marks["errors"])'
    BY <2>3, <2>5, <2>6 DEF SamplesBehind, NotesBehind, SampleRecord, Members
  <2>9. RunsFixed(marks["sessions"])' /\ RunsBehind(marks["sessions"])'
    BY <2>3, <2>7 DEF RunsFixed, RunsBehind
  <2> QED
    BY <2>3, <2>5, <2>6, <2>8, <2>9 DEF MarksHold
<1>10. BatchHolds'
  BY <1>3 DEF BatchHolds
<1> QED
  BY <1>4, <1>7, <1>8, <1>9, <1>10 DEF SyncInv, HostOK

-----------------------------------------------------------------------------
(* The server's steps. *)

\* What is appended is there, and so is what was.
LEMMA RangeOfConcat ==
  ASSUME NEW S, NEW s \in Seq(S), NEW t \in Seq(S)
  PROVE  Members(s) \subseteq Members(s \o t) /\ Members(t) \subseteq Members(s \o t)
<1> DEFINE m == Len(s)
           n == Len(t)
           now == s \o t
<1>1. /\ now \in Seq(S) /\ Len(now) = m + n
      /\ \A i \in 1 .. m + n : now[i] = IF i <= m THEN s[i] ELSE t[i - m]
  BY ConcatProperties
<1>2. /\ m \in Nat /\ n \in Nat /\ DOMAIN now = 1 .. m + n
      /\ DOMAIN s = 1 .. m /\ DOMAIN t = 1 .. n
  BY <1>1, LenProperties
<1> HIDE DEF m, n, now
<1>3. \A i \in 1 .. m : i \in 1 .. m + n /\ now[i] = s[i]
  BY <1>1, <1>2
<1>4. \A i \in 1 .. n : m + i \in 1 .. m + n /\ now[m + i] = t[i]
  <2>1. \A i \in 1 .. n : m + i \in 1 .. m + n /\ ~(m + i <= m) /\ (m + i) - m = i
    BY <1>2
  <2> QED
    BY <1>1, <2>1
<1>5. Members(s) \subseteq Members(now) /\ Members(t) \subseteq Members(now)
  BY <1>2, <1>3, <1>4 DEF Members
<1> QED
  BY <1>5 DEF now

\* What a batch makes of the lake.
LEMMA InsertProperties ==
  ASSUME LakeOK, NEW b \in Batches, NEW l, l = Insert(b)
  PROVE  /\ l = [runs |-> l.runs, notes |-> l.notes, rows |-> l.rows]
         /\ DOMAIN l.runs = DOMAIN lake.runs \cup Touched(b)
         /\ \A u \in DOMAIN l.runs :
              IF u \in Touched(b)
              THEN l.runs[u] \in Members(b.records) /\ l.runs[u].uid = u
              ELSE l.runs[u] = lake.runs[u]
         /\ l.rows = lake.rows \cup Shipped(b)
         /\ l.notes \in Seq(NoteRows)
         /\ Members(lake.notes) \subseteq Members(l.notes)
         /\ b.table = "errors" => Members(b.records) \subseteq Members(l.notes)
<1>1. /\ lake = [runs |-> lake.runs, notes |-> lake.notes, rows |-> lake.rows]
      /\ lake.notes \in Seq(NoteRows)
  BY DEF LakeOK
<1>2. CASE b.table = "sessions"
  <2> DEFINE uids == {r.uid : r \in Members(b.records)}
             of(u) == CHOOSE r \in Members(b.records) : r.uid = u
             now == [u \in DOMAIN lake.runs \cup uids |->
                       IF u \in uids THEN of(u) ELSE lake.runs[u]]
  <2>1. l = [lake EXCEPT !.runs = now]
    BY <1>2 DEF Insert
  <2>2. Touched(b) = uids /\ Shipped(b) = {}
    BY <1>2 DEF Touched, Shipped
  <2>3. \A u \in uids : of(u) \in Members(b.records) /\ of(u).uid = u
    OBVIOUS
  <2>4. /\ DOMAIN now = DOMAIN lake.runs \cup uids
        /\ \A u \in DOMAIN now :
             IF u \in uids
             THEN now[u] \in Members(b.records) /\ now[u].uid = u
             ELSE now[u] = lake.runs[u]
    <3> HIDE DEF uids
    <3>1. \A u \in DOMAIN now : now[u] = IF u \in uids THEN of(u) ELSE lake.runs[u]
      OBVIOUS
    <3>2. DOMAIN now = DOMAIN lake.runs \cup uids
      OBVIOUS
    <3> HIDE DEF now, of
    <3> QED
      BY <2>3, <3>1, <3>2
  <2> HIDE DEF now, uids
  <2>5. l = [runs |-> now, notes |-> lake.notes, rows |-> lake.rows]
    BY <1>1, <2>1
  <2> QED
    BY <1>1, <1>2, <2>2, <2>4, <2>5
<1>3. CASE b.table = "errors"
  <2> DEFINE now == lake.notes \o b.records
  <2>1. l = [lake EXCEPT !.notes = now]
    BY <1>3 DEF Insert
  <2>2. Touched(b) = {} /\ Shipped(b) = {}
    BY <1>3 DEF Touched, Shipped
  <2>3. b.records \in Seq(NoteRows)
    BY <1>3, BatchParts
  <2>4. now \in Seq(NoteRows)
    BY <1>1, <2>3, ConcatProperties
  <2>5. /\ Members(lake.notes) \subseteq Members(now)
        /\ Members(b.records) \subseteq Members(now)
    BY <1>1, <2>3, RangeOfConcat
  <2> HIDE DEF now
  <2>8. l = [runs |-> lake.runs, notes |-> now, rows |-> lake.rows]
    BY <1>1, <2>1
  <2> QED
    BY <1>1, <1>3, <2>2, <2>4, <2>5, <2>8
<1>4. CASE b.table = "samples"
  <2>1. l = [lake EXCEPT !.rows = lake.rows \cup Members(b.records)]
    BY <1>4 DEF Insert
  <2>2. Touched(b) = {} /\ Shipped(b) = Members(b.records)
    BY <1>4 DEF Touched, Shipped
  <2>3. l = [runs |-> lake.runs, notes |-> lake.notes,
             rows |-> lake.rows \cup Members(b.records)]
    BY <1>1, <2>1
  <2> QED
    BY <1>1, <1>4, <2>2, <2>3
<1> QED
  BY <1>2, <1>3, <1>4, BatchParts DEF Tables

\* The lake's tables stay tables.
LEMMA InsertTyped ==
  ASSUME LakeOK, NEW b \in Batches, lake' = Insert(b)
  PROVE  LakeOK'
<1>1. /\ lake' = [runs |-> lake'.runs, notes |-> lake'.notes,
                  rows |-> lake'.rows]
      /\ DOMAIN lake'.runs = DOMAIN lake.runs \cup Touched(b)
      /\ \A u \in DOMAIN lake'.runs :
           IF u \in Touched(b)
           THEN lake'.runs[u] \in Members(b.records) /\ lake'.runs[u].uid = u
           ELSE lake'.runs[u] = lake.runs[u]
      /\ lake'.rows = lake.rows \cup Shipped(b)
      /\ lake'.notes \in Seq(NoteRows)
  BY InsertProperties
<1>2. Shipped(b) \subseteq Samples
  <2>1. CASE b.table = "samples"
    BY <2>1, BatchParts, ElementOfSeq, LenProperties DEF Shipped, Members
  <2> QED
    BY <2>1 DEF Shipped
<1>3. \A u \in Touched(b) : lake'.runs[u] \in RunRows
  <2>1. CASE b.table = "sessions"
    <3>1. Members(b.records) \subseteq RunRows
      BY <2>1, BatchParts, ElementOfSeq, LenProperties DEF Members
    <3> QED
      BY <1>1, <3>1
  <2> QED
    BY <2>1 DEF Touched
<1>4. ASSUME NEW u \in DOMAIN lake'.runs
      PROVE  lake'.runs[u] \in [uid : {u}, config : Configs, ended : BOOLEAN]
  <2>1. CASE u \in Touched(b)
    BY <1>1, <1>3, <2>1 DEF RunRows
  <2>2. CASE u \notin Touched(b)
    BY <1>1, <2>2 DEF LakeOK
  <2> QED
    BY <2>1, <2>2
<1>5. lake'.rows \subseteq Samples
  BY <1>1, <1>2 DEF LakeOK
<1> QED
  BY <1>1, <1>4, <1>5 DEF LakeOK

\* The attempt the agent waits for is stored.
LEMMA StoreKeeps == SyncInv /\ Store => SyncInv'
<1> SUFFICES ASSUME SyncInv, Store PROVE SyncInv'
  OBVIOUS
<1>1. /\ pc = "waiting" /\ lake' = Insert(batch) /\ stored' = TRUE
      /\ stale' = stale \ Touched(batch)
      /\ UNCHANGED <<storeVars, safe, pc, enabled, marks, batch, late, lapsed,
                     failures>>
  BY DEF Store
<1>2. batch \in Batches /\ batch.table \in Tables
  BY <1>1, BatchParts DEF SyncInv, AgentOK
<1>3. /\ DOMAIN lake'.runs = DOMAIN lake.runs \cup Touched(batch)
      /\ \A u \in DOMAIN lake'.runs :
           IF u \in Touched(batch)
           THEN lake'.runs[u] \in Members(batch.records) /\ lake'.runs[u].uid = u
           ELSE lake'.runs[u] = lake.runs[u]
      /\ lake'.rows = lake.rows \cup Shipped(batch)
      /\ Members(lake.notes) \subseteq Members(lake'.notes)
      /\ batch.table = "errors" => Members(batch.records) \subseteq Members(lake'.notes)
  BY <1>1, <1>2, InsertProperties DEF SyncInv
<1>4. HostOK' /\ LakeOK'
  BY <1>1, <1>2, HostLeaves, InsertTyped DEF SyncInv, HostOK
<1>5. stored' \in BOOLEAN
  BY <1>1
<1>6. AgentOK'
  BY <1>1, <1>5 DEF SyncInv, AgentOK
<1>7. OneReading'
  <2>1. Recorded' = Recorded
    BY <1>1, RecordedLeaves DEF storeVars, tables
  <2>2. UnderWay' = UnderWay /\ Shipped(batch) \subseteq UnderWay
    BY <1>1 DEF UnderWay, Shipped, Members
  <2>3. Known' \subseteq Known
    BY <1>3, <2>1, <2>2 DEF Known
  <2> QED
    BY <1>1, <2>3, ReadingLeaves DEF SyncInv, storeVars
<1>8. ASSUME ~lapsed' PROVE MarksHold' /\ BatchHolds'
  <2>1. ~lapsed
    BY <1>1, <1>8
  <2>2. MarksHold /\ BatchHolds
    BY <2>1 DEF SyncInv
  <2>3. UNCHANGED <<runs, rows, notes, current, marks, batch, pc>>
    BY <1>1 DEF storeVars, tables
  <2>4. SamplesBehind(marks["samples"])' /\ NotesBehind(marks["errors"])'
    BY <1>3, <2>2, <2>3
       DEF MarksHold, SamplesBehind, NotesBehind, SampleRecord, Members
  <2>5. ASSUME NEW i \in DOMAIN runs, runs[i].uid \in Touched(batch),
               i < batch.next, runs[i].ended
        PROVE  lake'.runs[runs[i].uid].ended
    <3>1. batch.table = "sessions" /\ RunsSent
      BY <1>1, <2>2, <2>5 DEF Touched, BatchHolds
    <3>2. PICK r \in Members(batch.records) :
            r.uid = runs[i].uid /\ lake'.runs[runs[i].uid] = r
      BY <1>3, <2>5
    <3>3. r.ended
      BY <2>5, <3>1, <3>2 DEF RunsSent
    <3> QED
      BY <3>2, <3>3
  <2>6. RunsBehind(marks["sessions"])'
    <3>1. ASSUME NEW i \in DOMAIN runs, i < marks["sessions"]
          PROVE  /\ runs[i].uid \in DOMAIN lake'.runs
                 /\ runs[i].ended /\ runs[i].uid \notin stale'
                      => lake'.runs[runs[i].uid].ended
      <4>1. /\ runs[i].uid \in DOMAIN lake.runs
            /\ runs[i].ended /\ runs[i].uid \notin stale
                 => lake.runs[runs[i].uid].ended
        BY <2>2, <3>1 DEF MarksHold, RunsBehind
      <4>2. CASE runs[i].uid \in Touched(batch)
        <5>1. batch.table = "sessions" /\ RunsSent
          BY <1>1, <2>2, <4>2 DEF Touched, BatchHolds
        <5>2. i < batch.next
          <6>1. /\ i \in Nat /\ marks["sessions"] \in Nat /\ batch.next \in Nat
                /\ marks["sessions"] <= batch.next
            BY <1>2, <5>1, BatchParts, LenProperties
               DEF RunsSent, SyncInv, TablesOK, AgentOK, Tables
          <6> QED
            BY <3>1, <6>1
        <5> QED
          BY <1>3, <2>5, <4>1, <4>2, <5>2
      <4>3. CASE runs[i].uid \notin Touched(batch)
        BY <1>1, <1>3, <4>1, <4>3
      <4> QED
        BY <4>2, <4>3
    <3> QED
      BY <2>3, <3>1 DEF RunsBehind
  <2>7. MarksHold'
    BY <2>2, <2>3, <2>4, <2>6 DEF MarksHold, RunsFixed
  <2>8. batch.table = "samples" => SamplesSent'
    <3>1. ASSUME batch.table = "samples" PROVE SamplesSent'
      <4>1. SamplesSent /\ Members(batch.records) \subseteq lake'.rows
        BY <1>1, <1>3, <2>2, <3>1 DEF BatchHolds, Shipped
      <4> QED
        BY <2>3, <4>1 DEF SamplesSent, SampleRecord, Members
    <3> QED
      BY <3>1
  <2>9. batch.table = "errors" => NotesSent'
    BY <1>1, <1>3, <2>2, <2>3 DEF BatchHolds, NotesSent, Members
  <2>10. batch.table = "sessions" => RunsSent'
    <3>1. ASSUME batch.table = "sessions" PROVE RunsSent'
      <4>1. RunsSent
        BY <1>1, <2>2, <3>1 DEF BatchHolds
      <4>2. ASSUME NEW i \in DOMAIN runs, i < batch.next
            PROVE  /\ runs[i].uid \in DOMAIN lake'.runs
                   /\ runs[i].ended /\ runs[i].uid \notin stale'
                        => lake'.runs[runs[i].uid].ended
        <5>1. CASE runs[i].uid \in Touched(batch)
          BY <1>3, <2>5, <4>2, <5>1
        <5>2. CASE runs[i].uid \notin Touched(batch)
          <6>1. i < marks["sessions"]
            BY <3>1, <4>1, <4>2, <5>2 DEF RunsSent, Touched
          <6>2. /\ runs[i].uid \in DOMAIN lake.runs
                /\ runs[i].ended /\ runs[i].uid \notin stale
                     => lake.runs[runs[i].uid].ended
            BY <2>2, <6>1 DEF MarksHold, RunsBehind
          <6> QED
            BY <1>1, <1>3, <5>2, <6>2
        <5> QED
          BY <5>1, <5>2
      <4>3. RunsBehind(batch.next)'
        BY <2>3, <4>2 DEF RunsBehind
      <4> QED
        BY <2>3, <4>1, <4>3 DEF RunsSent, RunsFixed, Members
    <3> QED
      BY <3>1
  <2>11. BatchHolds'
    BY <1>1, <2>3, <2>8, <2>9, <2>10 DEF BatchHolds
  <2> QED
    BY <2>7, <2>11
<1> QED
  BY <1>4, <1>6, <1>7, <1>8 DEF SyncInv, HostOK

\* What is left when one is taken out was there.
LEMMA WithoutOne ==
  ASSUME NEW S, NEW s \in Seq(S), NEW i \in DOMAIN s
  PROVE  LET t == SubSeq(s, 1, i - 1) \o SubSeq(s, i + 1, Len(s))
         IN  /\ t \in Seq(S)
             /\ \A j \in DOMAIN t : \E k \in DOMAIN s : t[j] = s[k]
<1> DEFINE n == Len(s)
           p == SubSeq(s, 1, i - 1)
           q == SubSeq(s, i + 1, n)
           t == p \o q
<1>1. n \in Nat /\ DOMAIN s = 1 .. n /\ i \in 1 .. n
  BY LenProperties
<1>2. \A j \in 1 .. n : s[j] \in S
  BY ElementOfSeq
<1> HIDE DEF n
<1>3. /\ p \in Seq(S)
      /\ Len(p) = IF 1 <= i - 1 THEN (i - 1) - 1 + 1 ELSE 0
      /\ \A j \in 1 .. (i - 1) - 1 + 1 : p[j] = s[1 + j - 1]
  <2>1. \A j \in 1 .. i - 1 : s[j] \in S
    BY <1>1, <1>2
  <2>2. 1 \in Int /\ i - 1 \in Int
    BY <1>1
  <2> QED
    BY <2>1, <2>2, SubSeqProperties
<1>4. /\ q \in Seq(S)
      /\ Len(q) = IF i + 1 <= n THEN n - (i + 1) + 1 ELSE 0
      /\ \A j \in 1 .. n - (i + 1) + 1 : q[j] = s[(i + 1) + j - 1]
  <2>1. \A j \in i + 1 .. n : s[j] \in S
    BY <1>1, <1>2
  <2>2. i + 1 \in Int /\ n \in Int
    BY <1>1
  <2> QED
    BY <2>1, <2>2, SubSeqProperties
<1> HIDE DEF p, q
<1>5. Len(p) = i - 1 /\ Len(q) = n - i
  BY <1>1, <1>3, <1>4
<1>6. \A j \in 1 .. i - 1 : p[j] = s[j] /\ j \in 1 .. n
  BY <1>1, <1>3
<1>7. \A j \in 1 .. n - i : q[j] = s[i + j] /\ i + j \in 1 .. n
  <2>1. \A j \in 1 .. n - i : /\ j \in 1 .. n - (i + 1) + 1
                              /\ (i + 1) + j - 1 = i + j
                              /\ i + j \in 1 .. n
    BY <1>1
  <2> QED
    BY <1>4, <2>1
<1>8. /\ t \in Seq(S) /\ Len(t) = Len(p) + Len(q)
      /\ \A j \in 1 .. Len(p) + Len(q) :
           t[j] = IF j <= Len(p) THEN p[j] ELSE q[j - Len(p)]
  BY <1>3, <1>4, ConcatProperties
<1>9. DOMAIN t = 1 .. Len(p) + Len(q)
  BY <1>8, LenProperties
<1> HIDE DEF t
<1>10. ASSUME NEW j \in DOMAIN t PROVE \E k \in DOMAIN s : t[j] = s[k]
  <2>1. CASE j <= i - 1
    <3>1. j \in 1 .. i - 1 /\ t[j] = p[j]
      BY <1>1, <1>5, <1>8, <1>9, <1>10, <2>1
    <3> QED
      BY <1>1, <1>6, <3>1
  <2>2. CASE ~(j <= i - 1)
    <3>1. j \in 1 .. (i - 1) + (n - i)
      BY <1>5, <1>9, <1>10
    <3>2. j - (i - 1) \in 1 .. n - i
      BY <1>1, <2>2, <3>1
    <3>3. t[j] = q[j - (i - 1)]
      BY <1>5, <1>8, <2>2, <3>1
    <3> QED
      BY <1>1, <1>7, <3>2, <3>3
  <2> QED
    BY <2>1, <2>2
<1> QED
  BY <1>8, <1>10 DEF t, p, q, n

\* A copy nobody waits for is stored: it can only put back what was the last
\* word on a session, and that is noted.
LEMMA StoreLateKeeps == SyncInv /\ StoreLate => SyncInv'
<1> SUFFICES ASSUME SyncInv, StoreLate PROVE SyncInv'
  OBVIOUS
<1>1. PICK i \in DOMAIN late :
        /\ lake' = Insert(late[i])
        /\ late' = SubSeq(late, 1, i - 1) \o SubSeq(late, i + 1, Len(late))
        /\ stale' = stale \cup Touched(late[i])
        /\ UNCHANGED <<storeVars, safe, agentVars, lapsed, failures>>
  BY DEF StoreLate
<1>2. late \in Seq(Batches)
  BY DEF SyncInv, AgentOK
<1>3. PICK b \in Batches : b = late[i]
  BY <1>2, ElementOfSeq, LenProperties
<1>4. UNCHANGED <<runs, rows, notes, current, latest, minted, safe, pc,
                  enabled, marks, batch, stored, lapsed, failures>>
  BY <1>1 DEF storeVars, tables, agentVars
<1>5. /\ late' \in Seq(Batches)
      /\ \A j \in DOMAIN late' : \E k \in DOMAIN late : late'[j] = late[k]
  BY <1>1, <1>2, WithoutOne
<1>6. /\ DOMAIN lake'.runs = DOMAIN lake.runs \cup Touched(b)
      /\ \A u \in DOMAIN lake'.runs :
           IF u \in Touched(b)
           THEN lake'.runs[u] \in Members(b.records) /\ lake'.runs[u].uid = u
           ELSE lake'.runs[u] = lake.runs[u]
      /\ lake'.rows = lake.rows \cup Shipped(b)
      /\ Members(lake.notes) \subseteq Members(lake'.notes)
  BY <1>1, <1>3, InsertProperties DEF SyncInv
<1>7. HostOK' /\ LakeOK'
  BY <1>1, <1>3, HostLeaves, InsertTyped DEF SyncInv, HostOK
<1>8. AgentOK'
  BY <1>4, <1>5 DEF SyncInv, AgentOK
<1>9. OneReading'
  <2>1. Recorded' = Recorded
    BY <1>4, RecordedLeaves
  <2>2. UnderWay' \subseteq UnderWay
    BY <1>4, <1>5 DEF UnderWay, Shipped, Members
  <2>3. Shipped(b) \subseteq UnderWay
    BY <1>3 DEF UnderWay
  <2>4. Known' \subseteq Known
    BY <1>6, <2>1, <2>2, <2>3 DEF Known
  <2> QED
    BY <1>4, <2>4, ReadingLeaves DEF SyncInv
<1>10. ASSUME ~lapsed' PROVE MarksHold' /\ BatchHolds'
  <2>1. ~lapsed
    BY <1>4, <1>10
  <2>2. MarksHold /\ BatchHolds
    BY <2>1 DEF SyncInv
  <2>3. SamplesBehind(marks["samples"])' /\ NotesBehind(marks["errors"])'
    BY <1>4, <1>6, <2>2
       DEF MarksHold, SamplesBehind, NotesBehind, SampleRecord, Members
  <2>4. ASSUME NEW m, RunsBehind(m)
        PROVE  \A j \in DOMAIN runs : j < m =>
                 /\ runs[j].uid \in DOMAIN lake'.runs
                 /\ runs[j].ended /\ runs[j].uid \notin stale'
                      => lake'.runs[runs[j].uid].ended
    BY <1>1, <1>3, <1>6, <2>4 DEF RunsBehind
  <2>5. RunsBehind(marks["sessions"])'
    BY <1>4, <2>2, <2>4 DEF MarksHold, RunsBehind
  <2>6. MarksHold'
    BY <1>4, <2>2, <2>3, <2>5 DEF MarksHold, RunsFixed
  <2>7. ASSUME pc = "waiting", batch.table = "samples" PROVE SamplesSent'
    BY <1>4, <1>6, <2>2, <2>7 DEF BatchHolds, SamplesSent, SampleRecord, Members
  <2>8. ASSUME pc = "waiting", batch.table = "errors" PROVE NotesSent'
    <3>1. NotesSent
      BY <2>2, <2>8 DEF BatchHolds
    <3>2. Members(batch.records)' = Members(batch.records)
      BY <1>4 DEF Members
    <3>3. Members(lake.notes) \subseteq Members(lake.notes)'
      BY <1>6 DEF Members
    <3> QED
      BY <1>4, <3>1, <3>2, <3>3 DEF NotesSent
  <2>9. ASSUME pc = "waiting", batch.table = "sessions" PROVE RunsSent'
    <3>1. RunsSent
      BY <2>2, <2>9 DEF BatchHolds
    <3>2. stored => RunsBehind(batch.next)'
      BY <1>4, <2>4, <3>1 DEF RunsSent, RunsBehind
    <3> QED
      BY <1>4, <3>1, <3>2 DEF RunsSent, RunsFixed, Members
  <2>10. BatchHolds'
    BY <1>4, <2>7, <2>8, <2>9 DEF BatchHolds
  <2> QED
    BY <2>6, <2>10
<1> QED
  BY <1>7, <1>8, <1>9, <1>10 DEF SyncInv, HostOK

-----------------------------------------------------------------------------
(* The recorder's steps: what is behind a watermark does not change. *)

\* The records of samples are records of samples.
LEMMA KnownTyped == SyncInv => Known \subseteq Samples
<1> SUFFICES ASSUME SyncInv PROVE Known \subseteq Samples
  OBVIOUS
<1>1. Recorded \subseteq Samples
  BY SampleRecordOK DEF Recorded, SyncInv
<1>2. \A b \in Batches : Shipped(b) \subseteq Samples
  <2>1. ASSUME NEW b \in Batches, b.table = "samples"
        PROVE  Members(b.records) \subseteq Samples
    BY <2>1, BatchParts, ElementOfSeq, LenProperties DEF Members
  <2> QED
    BY <2>1 DEF Shipped
<1>3. \A i \in DOMAIN late : late[i] \in Batches
  BY ElementOfSeq, LenProperties DEF SyncInv, AgentOK
<1>4. UnderWay \subseteq Samples
  <2>1. pc = "waiting" => batch \in Batches
    BY DEF SyncInv, AgentOK
  <2> QED
    BY <1>2, <1>3, <2>1 DEF UnderWay
<1> QED
  BY <1>1, <1>4 DEF Known, SyncInv, LakeOK

\* What may happen to the table of runs: one is added, the open one ends.
RunsGrow ==
  /\ Len(runs) <= Len(runs')
  /\ \A i \in DOMAIN runs :
       /\ i \in DOMAIN runs'
       /\ runs'[i].uid = runs[i].uid /\ runs'[i].config = runs[i].config
       /\ runs[i].ended => runs'[i].ended
       /\ runs'[i].ended => runs[i].ended \/ (current # 0 /\ i = current)
  /\ current' \in {0, current, Len(runs) + 1}

\* The table of runs with the open one ended.
LEMMA EndedProperties ==
  ASSUME TablesOK
  PROVE  /\ Ended \in Seq(RunRows) /\ Len(Ended) = Len(runs)
         /\ \A i \in DOMAIN runs :
              /\ i \in DOMAIN Ended
              /\ Ended[i].uid = runs[i].uid /\ Ended[i].config = runs[i].config
              /\ runs[i].ended => Ended[i].ended
              /\ Ended[i].ended => runs[i].ended \/ (current # 0 /\ i = current)
<1>1. PICK yes : yes = TRUE
  BY Zenon
<1>2. Ended = IF current = 0 THEN runs
              ELSE [runs EXCEPT ![current].ended = yes]
  BY <1>1, Zenon DEF Ended
<1>3. yes \in BOOLEAN /\ yes
  BY <1>1, Zenon
<1>4. /\ runs \in Seq(RunRows) /\ current \in {0, Len(runs)}
      /\ Len(runs) \in Nat /\ DOMAIN runs = 1 .. Len(runs)
  BY LenProperties DEF TablesOK
<1>5. CASE current = 0
  BY <1>2, <1>4, <1>5
<1>6. CASE current # 0
  <2> DEFINE now == [runs EXCEPT ![current].ended = yes]
  <2>1. current \in DOMAIN runs /\ Ended = now
    BY <1>2, <1>4, <1>6
  <2>2. \A i \in DOMAIN runs : runs[i] \in RunRows
    BY <1>4, ElementOfSeq
  <2>3. now = [runs EXCEPT ![current] = [runs[current] EXCEPT !.ended = yes]]
    OBVIOUS
  <2>4. [runs[current] EXCEPT !.ended = yes]
          = [uid |-> runs[current].uid, config |-> runs[current].config,
             ended |-> yes]
    BY <2>1, <2>2 DEF RunRows
  <2>5. [runs[current] EXCEPT !.ended = yes] \in RunRows
    BY <1>3, <2>1, <2>2, <2>4 DEF RunRows
  <2>6. now \in Seq(RunRows) /\ Len(now) = Len(runs) /\ DOMAIN now = DOMAIN runs
    BY <1>4, <2>1, <2>3, <2>5
  <2>7. \A i \in DOMAIN runs : i # current => now[i] = runs[i]
    BY <1>4, <2>3
  <2>8. now[current] = [uid |-> runs[current].uid,
                        config |-> runs[current].config, ended |-> yes]
    BY <1>4, <2>1, <2>3, <2>4
  <2> HIDE DEF now
  <2> QED
    BY <1>3, <1>6, <2>1, <2>6, <2>7, <2>8
<1> QED
  BY <1>5, <1>6

\* The open run is a place in the table.
LEMMA CurrentIsPlace ==
  ASSUME TablesOK, RunsGrow PROVE current \in Nat /\ current' \in Nat
<1>1. Len(runs) \in Nat /\ current \in {0, Len(runs)}
  BY LenProperties DEF TablesOK
<1>2. current' \in {0, current, Len(runs) + 1}
  BY DEF RunsGrow
<1> QED
  BY <1>1, <1>2

\* A step on the table of runs leaves the rows' labels, the checkpoint and
\* everything behind the watermarks as they were.
LEMMA RunsGrowKeep ==
  ASSUME SyncInv, RunsGrow, TablesOK',
         UNCHANGED <<rows, notes, latest, safe, agentVars, late, lake, stale,
                     lapsed>>
  PROVE  /\ RowsOK' /\ SafeIsPrefix' /\ OneReading'
         /\ ~lapsed' => MarksHold' /\ BatchHolds'
<1> USE DEF SyncInv
<1>1. UNCHANGED <<pc, enabled, marks, batch, stored>>
  BY DEF agentVars
<1>2. RowsOK'
  BY DEF RowsOK, RunsGrow
<1>3. /\ Len(runs) \in Nat /\ DOMAIN runs = 1 .. Len(runs)
      /\ Len(runs') \in Nat /\ DOMAIN runs' = 1 .. Len(runs')
  BY LenProperties DEF TablesOK
<1>4. SafeIsPrefix'
  <2>1. /\ Len(safe[1]) \in Nat /\ DOMAIN safe[1] = 1 .. Len(safe[1])
    BY LenProperties DEF TablesOK
  <2>2. Len(safe[1]) <= Len(runs')
    BY <1>3, <2>1 DEF SafeIsPrefix, RunsGrow
  <2>3. \A i \in DOMAIN safe[1] : i \in DOMAIN runs
    BY <1>3, <2>1 DEF SafeIsPrefix
  <2>4. \A i \in DOMAIN safe[1] : /\ safe[1][i].uid = runs'[i].uid
                                  /\ safe[1][i].config = runs'[i].config
                                  /\ safe[1][i].ended => runs'[i].ended
    BY <2>3 DEF SafeIsPrefix, RunsGrow
  <2> QED
    BY <2>2, <2>4 DEF SafeIsPrefix
<1>5. \A i \in DOMAIN rows : SampleRecord(rows[i])' = SampleRecord(rows[i])
  BY DEF RowsOK, RunsGrow, SampleRecord
<1>6. OneReading'
  <2>1. Recorded' = Recorded
    BY <1>5 DEF Recorded
  <2>2. UnderWay' = UnderWay
    BY <1>1 DEF UnderWay, Shipped, Members
  <2>3. Known' \subseteq Known
    BY <2>1, <2>2 DEF Known
  <2> QED
    BY <2>3, ReadingLeaves
<1>7. ASSUME ~lapsed' PROVE MarksHold' /\ BatchHolds'
  <2>1. MarksHold /\ BatchHolds
    BY <1>7
  <2>2. ASSUME NEW m \in Nat, RunsFixed(m)
        PROVE  /\ m <= Len(runs') + 1 /\ (current' # 0 => m <= current')
               /\ \A i \in DOMAIN runs' : i < m =>
                    /\ i \in DOMAIN runs
                    /\ runs'[i].uid = runs[i].uid
                    /\ runs'[i].ended => runs[i].ended
    <3>1. m <= Len(runs) + 1 /\ (current # 0 => m <= current)
      BY <2>2 DEF RunsFixed
    <3>2. current \in Nat /\ current' \in Nat
      BY CurrentIsPlace
    <3>3. m <= Len(runs') + 1 /\ (current' # 0 => m <= current')
      BY <1>3, <3>1, <3>2 DEF RunsGrow
    <3>4. ASSUME NEW i \in DOMAIN runs', i < m
          PROVE  i \in DOMAIN runs /\ ~(current # 0 /\ i = current)
      BY <1>3, <3>1, <3>2, <3>4
    <3> QED
      BY <3>3, <3>4 DEF RunsGrow
  <2>3. ASSUME NEW m \in Nat, RunsFixed(m), RunsBehind(m)
        PROVE  \A i \in DOMAIN runs' : i < m =>
                 /\ runs'[i].uid \in DOMAIN lake'.runs
                 /\ runs'[i].ended /\ runs'[i].uid \notin stale'
                      => lake'.runs[runs'[i].uid].ended
    BY <2>2, <2>3 DEF RunsBehind
  <2>4. /\ marks["samples"] \in Nat /\ marks["errors"] \in Nat
        /\ marks["sessions"] \in Nat
    BY DEF AgentOK, Tables
  <2>5. SamplesBehind(marks["samples"])' /\ NotesBehind(marks["errors"])'
    <3>1. \A i \in 1 .. marks["samples"] : i \in DOMAIN rows
      BY <2>1, <2>4, LenProperties DEF MarksHold, TablesOK
    <3> QED
      BY <1>1, <1>5, <2>1, <3>1 DEF MarksHold, SamplesBehind, NotesBehind, Members
  <2>6. RunsFixed(marks["sessions"])' /\ RunsBehind(marks["sessions"])'
    <3>1. RunsFixed(marks["sessions"]) /\ RunsBehind(marks["sessions"])
      BY <2>1 DEF MarksHold
    <3> QED
      BY <1>1, <2>2, <2>3, <2>4, <3>1 DEF RunsFixed, RunsBehind
  <2>7. MarksHold'
    BY <1>1, <2>1, <2>5, <2>6 DEF MarksHold
  <2>8. ASSUME pc = "waiting" PROVE batch.next \in Nat
    BY <2>8, BatchParts DEF AgentOK
  <2>9. ASSUME pc = "waiting", batch.table = "samples" PROVE SamplesSent'
    <3>1. SamplesSent
      BY <2>1, <2>9 DEF BatchHolds
    <3>2. \A i \in marks["samples"] + 1 .. batch.next : i \in DOMAIN rows
      BY <2>4, <2>8, <2>9, <3>1, LenProperties DEF SamplesSent, TablesOK
    <3>3. Members(batch.records)' = Members(batch.records)
      BY <1>1 DEF Members
    <3> QED
      BY <1>1, <1>5, <3>1, <3>2, <3>3 DEF SamplesSent
  <2>10. ASSUME pc = "waiting", batch.table = "errors" PROVE NotesSent'
    BY <1>1, <2>1, <2>10 DEF BatchHolds, NotesSent, Members
  <2>11. ASSUME pc = "waiting", batch.table = "sessions" PROVE RunsSent'
    <3>1. RunsSent /\ batch.next \in Nat
      BY <2>1, <2>8, <2>11 DEF BatchHolds
    <3>2. RunsFixed(batch.next)
      BY <3>1 DEF RunsSent
    <3>3. RunsFixed(batch.next)'
      BY <1>1, <2>2, <3>1, <3>2 DEF RunsFixed
    <3>4. \A i \in DOMAIN runs' : i < batch.next =>
            /\ i \in DOMAIN runs
            /\ runs'[i].uid = runs[i].uid
            /\ runs'[i].ended => runs[i].ended
      BY <2>2, <3>1, <3>2
    <3>5. stored => RunsBehind(batch.next)'
      BY <1>1, <2>3, <3>1, <3>2 DEF RunsSent, RunsBehind
    <3>6. Members(batch.records)' = Members(batch.records)
      BY <1>1 DEF Members
    <3> QED
      BY <1>1, <3>1, <3>3, <3>4, <3>5, <3>6 DEF RunsSent
  <2>12. BatchHolds'
    BY <1>1, <2>9, <2>10, <2>11 DEF BatchHolds
  <2> QED
    BY <2>7, <2>12
<1> QED
  BY <1>2, <1>4, <1>6, <1>7

\* A run is opened, ends in order, or is left behind.
LEMMA RunStepKeeps ==
  ASSUME SyncInv,
         \/ \E config \in Configs : OpenRun(config)
         \/ EndRun
         \/ AbandonRun,
         UNCHANGED <<safe, agentVars, late, lake, stale, lapsed, failures>>
  PROVE  SyncInv'
<1>1. TablesOK /\ RunsOK
  BY DEF SyncInv
<1>2. /\ Ended \in Seq(RunRows) /\ Len(Ended) = Len(runs)
      /\ \A i \in DOMAIN runs :
           /\ i \in DOMAIN Ended
           /\ Ended[i].uid = runs[i].uid /\ Ended[i].config = runs[i].config
           /\ runs[i].ended => Ended[i].ended
           /\ Ended[i].ended => runs[i].ended \/ (current # 0 /\ i = current)
  BY <1>1, EndedProperties
<1>3. /\ Len(runs) \in Nat /\ DOMAIN runs = 1 .. Len(runs)
      /\ DOMAIN Ended = 1 .. Len(runs) /\ minted \in Nat
      /\ \A i \in DOMAIN runs : runs[i].uid \in Nat
  <2>1. \A i \in DOMAIN runs : runs[i] \in RunRows
    BY <1>1, ElementOfSeq, LenProperties DEF TablesOK
  <2> QED
    BY <1>1, <1>2, <2>1, LenProperties DEF TablesOK, RunRows
<1>4. UNCHANGED <<rows, notes, latest>>
  BY DEF OpenRun, EndRun, AbandonRun, tables
<1>5. TablesOK' /\ RunsOK' /\ RunsGrow
  <2>1. CASE \E config \in Configs : OpenRun(config)
    <3>1. PICK config \in Configs : OpenRun(config)
      BY <2>1
    <3>2. PICK no : no = FALSE
      BY Zenon
    <3>3. no \in BOOLEAN /\ ~no
      BY <3>2, Zenon
    <3> DEFINE new == [uid |-> minted + 1, config |-> config, ended |-> no]
    <3>4. runs' = Append(Ended, new)
      BY <3>1, <3>2, Zenon DEF OpenRun
    <3>5. new \in RunRows /\ new.uid = minted + 1 /\ ~new.ended
      BY <1>3, <3>3 DEF RunRows
    <3> HIDE DEF new
    <3>6. /\ runs' \in Seq(RunRows) /\ Len(runs') = Len(runs) + 1
          /\ \A i \in 1 .. Len(runs) : runs'[i] = Ended[i]
          /\ runs'[Len(runs) + 1] = new
      BY <1>2, <3>4, <3>5, AppendProperties
    <3>7. DOMAIN runs' = 1 .. Len(runs) + 1
      BY <3>6, LenProperties
    <3>8. current' = Len(runs) + 1 /\ minted' = minted + 1
      BY <3>1 DEF OpenRun
    <3>9. TablesOK'
      <4>1. /\ current' \in {0, Len(runs')} /\ minted' \in Nat
            /\ safe' = safe /\ rows' = rows /\ notes' = notes
            /\ latest' = latest
        BY <1>3, <1>4, <3>6, <3>8
      <4> QED
        BY <1>1, <3>6, <4>1 DEF TablesOK
    <3>10. RunsGrow
      BY <1>2, <1>3, <3>6, <3>7, <3>8 DEF RunsGrow
    <3>11. \A i \in 1 .. Len(runs) :
             runs'[i].uid = runs[i].uid /\ runs'[i].uid \in Nat
               /\ runs'[i].uid <= minted
      BY <1>1, <1>2, <1>3, <3>6 DEF RunsOK
    <3>12. \A i \in DOMAIN runs' : runs'[i].uid <= minted'
      BY <1>3, <3>5, <3>6, <3>7, <3>8, <3>11
    <3>13. \A i, j \in DOMAIN runs' : runs'[i].uid = runs'[j].uid => i = j
      <4>1. runs'[Len(runs) + 1].uid = minted + 1
        BY <3>5, <3>6
      <4>2. \A i \in 1 .. Len(runs) : runs'[i].uid # minted + 1
        BY <1>3, <3>11
      <4>3. \A i, j \in 1 .. Len(runs) : runs'[i].uid = runs'[j].uid => i = j
        BY <1>1, <1>3, <3>11 DEF RunsOK
      <4>4. \A i \in DOMAIN runs' : i \in 1 .. Len(runs) \/ i = Len(runs) + 1
        BY <1>3, <3>7
      <4> QED
        BY <4>1, <4>2, <4>3, <4>4
    <3>14. ~runs'[current'].ended
      BY <3>5, <3>6, <3>8
    <3> QED
      BY <3>9, <3>10, <3>12, <3>13, <3>14 DEF RunsOK
  <2>2. CASE EndRun
    <3>1. runs' = Ended /\ current' = 0 /\ minted' = minted
      BY <2>2 DEF EndRun
    <3>2. TablesOK'
      BY <1>1, <1>2, <1>4, <3>1 DEF TablesOK
    <3>3. RunsGrow
      BY <1>2, <1>3, <3>1 DEF RunsGrow
    <3>4. RunsOK'
      BY <1>1, <1>2, <1>3, <3>1 DEF RunsOK
    <3> QED
      BY <3>2, <3>3, <3>4
  <2>3. CASE AbandonRun
    <3>1. runs' = runs /\ current' = 0 /\ minted' = minted
      BY <2>3 DEF AbandonRun, tables
    <3>2. TablesOK' /\ RunsOK'
      BY <1>1, <1>4, <3>1 DEF TablesOK, RunsOK
    <3>3. RunsGrow
      BY <1>3, <3>1 DEF RunsGrow
    <3> QED
      BY <3>2, <3>3
  <2> QED
    BY <2>1, <2>2, <2>3
<1>6. /\ RowsOK' /\ SafeIsPrefix' /\ OneReading'
      /\ ~lapsed' => MarksHold' /\ BatchHolds'
  BY <1>4, <1>5, RunsGrowKeep
<1>7. AgentOK' /\ LakeOK'
  BY LakeLeaves DEF SyncInv, AgentOK, agentVars
<1> QED
  BY <1>5, <1>6, <1>7 DEF SyncInv

\* A reading is written: its time is new.
LEMMA RowStepKeeps ==
  ASSUME SyncInv, AddRows(<<latest + 1>>),
         UNCHANGED <<safe, agentVars, late, lake, stale, lapsed, failures>>
  PROVE  SyncInv'
<1>1. TablesOK /\ RunsOK /\ RowsOK /\ SafeIsPrefix
  BY DEF SyncInv
<1>2. /\ current # 0 /\ latest' = latest + 1
      /\ UNCHANGED <<runs, notes, current, minted>>
      /\ rows' = rows \o [i \in DOMAIN <<latest + 1>> |->
                            [run |-> current, at |-> <<latest + 1>>[i],
                             config |-> runs[current].config]]
  BY DEF AddRows
<1> DEFINE new == [run |-> current, at |-> latest + 1,
                   config |-> runs[current].config]
           n   == Len(rows)
<1>3. /\ latest \in Nat /\ n \in Nat /\ DOMAIN rows = 1 .. n
      /\ current \in DOMAIN runs /\ runs[current] \in RunRows
      /\ current \in Nat /\ rows \in Seq(SampleRows)
  BY <1>1, <1>2, ElementOfSeq, LenProperties DEF TablesOK
<1>4. /\ new \in SampleRows /\ new.run = current /\ new.at = latest + 1
      /\ new.config = runs[current].config
  BY <1>3 DEF SampleRows, RunRows
<1>5. rows' = Append(rows, new)
  <2>1. [i \in DOMAIN <<latest + 1>> |->
           [run |-> current, at |-> <<latest + 1>>[i],
            config |-> runs[current].config]] = <<new>>
    OBVIOUS
  <2> HIDE DEF new
  <2> QED
    BY <1>2, <1>3, <1>4, <2>1, AppendIsConcat
<1> HIDE DEF new, n
<1>6. /\ rows' \in Seq(SampleRows) /\ Len(rows') = n + 1
      /\ \A i \in 1 .. n : rows'[i] = rows[i]
      /\ rows'[n + 1] = new
  BY <1>3, <1>4, <1>5, AppendProperties DEF n
<1>7. DOMAIN rows' = 1 .. n + 1
  BY <1>6, LenProperties
<1>8. TablesOK' /\ RunsOK'
  <2>1. TablesOK'
    BY <1>1, <1>2, <1>3, <1>6 DEF TablesOK
  <2>2. RunsOK'
    BY <1>1, <1>2 DEF RunsOK
  <2> QED
    BY <2>1, <2>2
<1>9. RowsOK'
  BY <1>1, <1>2, <1>3, <1>4, <1>6, <1>7 DEF RowsOK
<1>10. SafeIsPrefix'
  <2>1. Len(safe[2]) \in Nat /\ DOMAIN safe[2] = 1 .. Len(safe[2])
    BY <1>1, LenProperties DEF TablesOK
  <2>2. Len(safe[2]) <= n
    BY <1>1 DEF SafeIsPrefix, n
  <2>3. Len(safe[2]) <= Len(rows')
    BY <1>3, <1>6, <2>1, <2>2
  <2>4. \A i \in DOMAIN safe[2] : safe[2][i] = rows'[i]
    BY <1>1, <1>3, <1>6, <2>1, <2>2 DEF SafeIsPrefix
  <2> QED
    BY <1>1, <1>2, <2>3, <2>4 DEF SafeIsPrefix
<1>11. AgentOK' /\ LakeOK'
  BY LakeLeaves DEF SyncInv, AgentOK, agentVars
<1>12. \A row : SampleRecord(row)' = SampleRecord(row)
  BY <1>2 DEF SampleRecord
<1>13. OneReading'
  <2> DEFINE shipped == SampleRecord(new)
  <2>1. shipped.at = latest + 1
    BY <1>4 DEF SampleRecord
  <2>2. Recorded' \subseteq Recorded \cup {shipped}
    <3>1. ASSUME NEW i \in 1 .. n + 1
          PROVE  SampleRecord(rows'[i]) \in Recorded \cup {shipped}
      <4>1. CASE i \in 1 .. n
        BY <1>3, <1>6, <4>1 DEF Recorded
      <4>2. CASE i = n + 1
        BY <1>6, <4>2
      <4> QED
        BY <1>3, <3>1, <4>1, <4>2
    <3>2. Recorded' = {SampleRecord(rows'[i]) : i \in 1 .. n + 1}
      BY <1>2, <1>7 DEF Recorded, SampleRecord
    <3> HIDE DEF shipped
    <3> QED
      BY <3>1, <3>2
  <2>3. UnderWay' = UnderWay
    BY DEF UnderWay, Shipped, Members, agentVars
  <2> HIDE DEF shipped
  <2>4. Known' \subseteq Known \cup {shipped}
    BY <2>2, <2>3 DEF Known
  <2>5. \A x \in Known : x.at \in Nat /\ x.at <= latest
    BY KnownTyped DEF Samples, SyncInv, OneReading
  <2>6. \A x, y \in Known : x.at = y.at => x = y
    BY DEF SyncInv, OneReading
  <2>7. \A x \in Known' : x.at <= latest'
    BY <1>2, <1>3, <2>1, <2>4, <2>5
  <2>8. \A x, y \in Known' : x.at = y.at => x = y
    <3>1. \A x \in Known : x.at # latest + 1
      BY <1>3, <2>5
    <3> QED
      BY <2>1, <2>4, <2>6, <3>1
  <2> QED
    BY <2>7, <2>8 DEF OneReading
<1>14. ASSUME ~lapsed' PROVE MarksHold' /\ BatchHolds'
  <2>1. MarksHold /\ BatchHolds
    BY <1>14 DEF SyncInv
  <2>2. UNCHANGED <<pc, enabled, marks, batch, stored, lake, stale>>
    BY DEF agentVars
  <2>3. marks["samples"] \in Nat /\ marks["samples"] <= n
    BY <2>1 DEF SyncInv, AgentOK, Tables, MarksHold, n
  <2>4. SamplesBehind(marks["samples"])' /\ NotesBehind(marks["errors"])'
    <3>1. \A i \in 1 .. marks["samples"] : i \in 1 .. n
      BY <1>3, <2>3
    <3> QED
      BY <1>2, <1>6, <1>12, <2>1, <2>2, <3>1
         DEF MarksHold, SamplesBehind, NotesBehind, Members
  <2>5. marks["samples"]' <= Len(rows')
    BY <1>3, <1>6, <2>2, <2>3
  <2>6. MarksHold'
    BY <1>2, <2>1, <2>2, <2>4, <2>5 DEF MarksHold, RunsFixed, RunsBehind
  <2>7. Members(batch.records)' = Members(batch.records)
    BY <2>2 DEF Members
  <2>8. ASSUME pc = "waiting", batch.table = "samples" PROVE SamplesSent'
    <3>1. SamplesSent /\ batch.next \in Nat
      BY <2>1, <2>8, BatchParts DEF BatchHolds, SyncInv, AgentOK
    <3>2. batch.next <= n
      BY <3>1 DEF SamplesSent, n
    <3>3. \A i \in marks["samples"] + 1 .. batch.next : i \in 1 .. n
      BY <1>3, <2>3, <3>1, <3>2
    <3>4. batch.next <= Len(rows')
      BY <1>3, <1>6, <3>1, <3>2
    <3> QED
      BY <1>6, <1>12, <2>2, <2>7, <3>1, <3>3, <3>4 DEF SamplesSent
  <2>9. ASSUME pc = "waiting", batch.table = "errors" PROVE NotesSent'
    <3>1. NotesSent
      BY <2>1, <2>9 DEF BatchHolds
    <3>2. Members(lake.notes)' = Members(lake.notes)
      BY <2>2 DEF Members
    <3> QED
      BY <1>2, <2>2, <2>7, <3>1, <3>2 DEF NotesSent
  <2>10. ASSUME pc = "waiting", batch.table = "sessions" PROVE RunsSent'
    BY <1>2, <2>1, <2>2, <2>7, <2>10
       DEF BatchHolds, RunsSent, RunsFixed, RunsBehind
  <2>11. BatchHolds'
    BY <2>2, <2>8, <2>9, <2>10 DEF BatchHolds
  <2> QED
    BY <2>6, <2>11
<1> QED
  BY <1>8, <1>9, <1>10, <1>11, <1>13, <1>14 DEF SyncInv

\* An error is written.
LEMMA NoteStepKeeps ==
  ASSUME SyncInv, NEW at \in Nat, AddNote(at),
         UNCHANGED <<safe, agentVars, late, lake, stale, lapsed, failures>>
  PROVE  SyncInv'
<1>1. TablesOK /\ RunsOK /\ RowsOK /\ SafeIsPrefix
  BY DEF SyncInv
<1> DEFINE new == [run |-> current, at |-> at]
           n   == Len(notes)
<1>2. /\ UNCHANGED <<runs, rows, current, latest, minted>>
      /\ notes' = Append(notes, new)
  BY DEF AddNote
<1>3. /\ n \in Nat /\ DOMAIN notes = 1 .. n /\ notes \in Seq(NoteRows)
      /\ current \in Nat
  BY <1>1, LenProperties DEF TablesOK
<1>4. new \in NoteRows
  BY <1>3 DEF NoteRows
<1> HIDE DEF new, n
<1>5. /\ notes' \in Seq(NoteRows) /\ Len(notes') = n + 1
      /\ \A i \in 1 .. n : notes'[i] = notes[i]
  BY <1>2, <1>3, <1>4, AppendProperties DEF n
<1>6. TablesOK' /\ RunsOK' /\ RowsOK'
  <2>1. TablesOK'
    BY <1>1, <1>2, <1>5 DEF TablesOK
  <2>2. RunsOK' /\ RowsOK'
    BY <1>1, <1>2 DEF RunsOK, RowsOK
  <2> QED
    BY <2>1, <2>2
<1>7. SafeIsPrefix'
  <2>1. Len(safe[3]) \in Nat /\ DOMAIN safe[3] = 1 .. Len(safe[3])
    BY <1>1, LenProperties DEF TablesOK
  <2>2. Len(safe[3]) <= n
    BY <1>1 DEF SafeIsPrefix, n
  <2>3. Len(safe[3]) <= Len(notes')
    BY <1>3, <1>5, <2>1, <2>2
  <2>4. \A i \in DOMAIN safe[3] : safe[3][i] = notes'[i]
    BY <1>1, <1>3, <1>5, <2>1, <2>2 DEF SafeIsPrefix
  <2> QED
    BY <1>1, <1>2, <2>3, <2>4 DEF SafeIsPrefix
<1>8. AgentOK' /\ LakeOK'
  BY LakeLeaves DEF SyncInv, AgentOK, agentVars
<1>9. OneReading'
  <2>1. Recorded' = Recorded
    BY <1>2, RecordedLeaves
  <2>2. UnderWay' = UnderWay
    BY DEF UnderWay, Shipped, Members, agentVars
  <2>3. Known' \subseteq Known
    BY <2>1, <2>2 DEF Known
  <2> QED
    BY <1>2, <2>3, ReadingLeaves DEF SyncInv
<1>10. ASSUME ~lapsed' PROVE MarksHold' /\ BatchHolds'
  <2>1. MarksHold /\ BatchHolds
    BY <1>10 DEF SyncInv
  <2>2. UNCHANGED <<pc, enabled, marks, batch, stored, lake, stale>>
    BY DEF agentVars
  <2>3. marks["errors"] \in Nat /\ marks["errors"] <= n
    BY <2>1 DEF SyncInv, AgentOK, Tables, MarksHold, n
  <2>4. SamplesBehind(marks["samples"])' /\ NotesBehind(marks["errors"])'
    <3>1. \A i \in 1 .. marks["errors"] : i \in 1 .. n
      BY <1>3, <2>3
    <3> QED
      BY <1>2, <1>5, <2>1, <2>2, <3>1
         DEF MarksHold, SamplesBehind, NotesBehind, SampleRecord, Members
  <2>5. marks["errors"]' <= Len(notes')
    BY <1>3, <1>5, <2>2, <2>3
  <2>6. MarksHold'
    BY <1>2, <2>1, <2>2, <2>4, <2>5 DEF MarksHold, RunsFixed, RunsBehind
  <2>7. Members(batch.records)' = Members(batch.records)
    BY <2>2 DEF Members
  <2>8. ASSUME pc = "waiting", batch.table = "samples" PROVE SamplesSent'
    BY <1>2, <2>1, <2>2, <2>7, <2>8 DEF BatchHolds, SamplesSent, SampleRecord
  <2>9. ASSUME pc = "waiting", batch.table = "errors" PROVE NotesSent'
    <3>1. NotesSent /\ batch.next \in Nat
      BY <2>1, <2>9, BatchParts DEF BatchHolds, SyncInv, AgentOK
    <3>2. batch.next <= n
      BY <3>1 DEF NotesSent, n
    <3>3. \A i \in marks["errors"] + 1 .. batch.next : i \in 1 .. n
      BY <1>3, <2>3, <3>1, <3>2
    <3>4. batch.next <= Len(notes')
      BY <1>3, <1>5, <3>1, <3>2
    <3>5. Members(lake.notes)' = Members(lake.notes)
      BY <2>2 DEF Members
    <3> QED
      BY <1>5, <2>2, <2>7, <3>1, <3>3, <3>4, <3>5 DEF NotesSent
  <2>10. ASSUME pc = "waiting", batch.table = "sessions" PROVE RunsSent'
    BY <1>2, <2>1, <2>2, <2>7, <2>10
       DEF BatchHolds, RunsSent, RunsFixed, RunsBehind
  <2>11. BatchHolds'
    BY <2>2, <2>8, <2>9, <2>10 DEF BatchHolds
  <2> QED
    BY <2>6, <2>11
<1> QED
  BY <1>6, <1>7, <1>8, <1>9, <1>10 DEF SyncInv

\* What the recorder does keeps the invariant.
LEMMA RecordKeeps == SyncInv /\ Record => SyncInv'
<1> SUFFICES ASSUME SyncInv, Record PROVE SyncInv'
  OBVIOUS
<1>1. UNCHANGED <<safe, agentVars, late, lake, stale, lapsed, failures>>
  BY DEF Record
<1>2. CASE \/ \E config \in Configs : OpenRun(config)
           \/ EndRun
           \/ AbandonRun
  BY <1>1, <1>2, RunStepKeeps
<1>3. CASE AddRows(<<latest + 1>>)
  BY <1>1, <1>3, RowStepKeeps
<1>4. CASE AddNote(Len(notes) + 1)
  <2>1. Len(notes) + 1 \in Nat
    BY LenProperties DEF SyncInv, TablesOK
  <2> QED
    BY <1>1, <1>4, <2>1, NoteStepKeeps
<1>5. \A config : config \in {First} => config \in Configs
  BY FirstAssumption
<1>6. \/ \E config \in Configs : OpenRun(config)
      \/ EndRun
      \/ AbandonRun
      \/ AddRows(<<latest + 1>>)
      \/ AddNote(Len(notes) + 1)
  BY <1>5, Zenon DEF Record
<1> QED
  BY <1>2, <1>3, <1>4, <1>6

-----------------------------------------------------------------------------
(* The host's steps. *)

\* What is checkpointed is what is there.
LEMMA CheckpointKeeps == SyncInv /\ Checkpoint => SyncInv'
<1> SUFFICES ASSUME SyncInv, Checkpoint PROVE SyncInv'
  OBVIOUS
<1>1. /\ safe' = <<runs, rows, notes>>
      /\ UNCHANGED <<storeVars, agentVars, late, lake, stale, lapsed, failures>>
  BY DEF Checkpoint, tables
<1>2. /\ safe'[1] = runs /\ safe'[2] = rows /\ safe'[3] = notes
      /\ UNCHANGED <<runs, rows, notes, current, latest, minted, pc, enabled,
                     marks, batch, stored>>
  BY <1>1 DEF storeVars, tables, agentVars
<1>3. TablesOK'
  BY <1>2 DEF SyncInv, TablesOK
<1>4. RunsOK' /\ RowsOK'
  BY <1>2 DEF SyncInv, RunsOK, RowsOK
<1>5. SafeIsPrefix'
  <2>1. Len(runs) \in Nat /\ Len(rows) \in Nat /\ Len(notes) \in Nat
    BY LenProperties DEF SyncInv, TablesOK
  <2>2. \A i \in DOMAIN rows : rows[i].run \in DOMAIN runs
    BY DEF SyncInv, RowsOK
  <2> QED
    BY <1>2, <2>1, <2>2 DEF SafeIsPrefix
<1>6. AgentOK' /\ LakeOK'
  BY <1>1, <1>2, LakeLeaves DEF SyncInv, AgentOK
<1>7. OneReading'
  <2>1. Recorded' = Recorded
    BY <1>2, RecordedLeaves
  <2>2. UnderWay' = UnderWay
    BY <1>1, <1>2 DEF UnderWay, Shipped, Members
  <2>3. Known' \subseteq Known
    BY <1>1, <2>1, <2>2 DEF Known
  <2> QED
    BY <1>2, <2>3, ReadingLeaves DEF SyncInv
<1>8. ASSUME ~lapsed' PROVE MarksHold' /\ BatchHolds'
  <2>1. ~lapsed
    BY <1>1, <1>8
  <2>2. MarksHold /\ BatchHolds
    BY <2>1 DEF SyncInv
  <2>3. MarksHold'
    BY <1>1, <1>2, <2>2, MarksLeave
  <2>4. CASE pc' = "waiting"
    BY <1>1, <1>2, <2>2, <2>3, <2>4, BatchLeaves
  <2>5. CASE pc' # "waiting"
    BY <2>3, <2>5 DEF BatchHolds
  <2> QED
    BY <2>4, <2>5
<1> QED
  BY <1>3, <1>4, <1>5, <1>6, <1>7, <1>8 DEF SyncInv

\* A power loss takes back what was not checkpointed; either all the
\* watermarks have passed is still there, or something has lapsed.
LEMMA PowerLossKeeps == SyncInv /\ PowerLoss => SyncInv'
<1> SUFFICES ASSUME SyncInv, PowerLoss PROVE SyncInv'
  OBVIOUS
<1>1. /\ runs' = safe[1] /\ rows' = safe[2] /\ notes' = safe[3]
      /\ current' = 0
      /\ pc' = "off" /\ batch' = None
      /\ UNCHANGED <<latest, minted, safe, enabled, marks, late, lake, stale>>
      /\ failures' = failures + 1
  BY DEF PowerLoss, Failure
<1>2. stored' \in BOOLEAN /\ ~stored'
  BY Zenon DEF PowerLoss
<1>3. lapsed' \in BOOLEAN
  BY Zenon DEF PowerLoss
<1>4. ASSUME ~lapsed'
      PROVE  /\ ~lapsed
             /\ ~(marks["samples"] > Len(safe[2]))
             /\ ~(marks["errors"] > Len(safe[3]))
             /\ ~(marks["sessions"] > Len(safe[1]) + 1)
             /\ \A i \in DOMAIN safe[1] :
                  i < marks["sessions"] => safe[1][i].ended
  BY <1>4 DEF PowerLoss
<1>5. TablesOK /\ RunsOK /\ RowsOK /\ SafeIsPrefix
  BY DEF SyncInv
<1>6. /\ Len(runs) \in Nat /\ DOMAIN runs = 1 .. Len(runs)
      /\ Len(rows) \in Nat /\ DOMAIN rows = 1 .. Len(rows)
      /\ Len(notes) \in Nat /\ DOMAIN notes = 1 .. Len(notes)
      /\ Len(safe[1]) \in Nat /\ DOMAIN safe[1] = 1 .. Len(safe[1])
      /\ Len(safe[2]) \in Nat /\ DOMAIN safe[2] = 1 .. Len(safe[2])
      /\ Len(safe[3]) \in Nat /\ DOMAIN safe[3] = 1 .. Len(safe[3])
  BY <1>5, LenProperties DEF TablesOK
<1>7. /\ \A i \in DOMAIN safe[1] : i \in DOMAIN runs
      /\ \A i \in DOMAIN safe[2] : i \in DOMAIN rows
      /\ \A i \in DOMAIN safe[3] : i \in DOMAIN notes
  BY <1>5, <1>6 DEF SafeIsPrefix
<1>8. TablesOK'
  BY <1>1, <1>5 DEF TablesOK
<1>9. RunsOK'
  BY <1>1, <1>5, <1>7 DEF RunsOK, SafeIsPrefix
<1>10. RowsOK'
  <2>1. ASSUME NEW i \in DOMAIN safe[2]
        PROVE  /\ safe[2][i].run \in DOMAIN safe[1]
               /\ safe[2][i].config = safe[1][safe[2][i].run].config
    <3>1. /\ safe[2][i] = rows[i] /\ i \in DOMAIN rows
          /\ rows[i].run \in DOMAIN safe[1]
      BY <1>5, <1>7 DEF SafeIsPrefix
    <3>2. rows[i].config = runs[rows[i].run].config
      BY <1>5, <3>1 DEF RowsOK
    <3>3. safe[1][rows[i].run].config = runs[rows[i].run].config
      BY <1>5, <3>1 DEF SafeIsPrefix
    <3> QED
      BY <3>1, <3>2, <3>3
  <2> QED
    BY <1>1, <2>1 DEF RowsOK
<1>11. SafeIsPrefix'
  BY <1>1, <1>5, <1>6 DEF SafeIsPrefix
<1>12. AgentOK'
  BY <1>1, <1>2, <1>3 DEF SyncInv, AgentOK
<1>13. LakeOK'
  BY <1>1, LakeLeaves DEF SyncInv
<1>14. \A i \in DOMAIN safe[2] :
         SampleRecord(rows[i])' = SampleRecord(rows[i])
  <2>1. ASSUME NEW i \in DOMAIN safe[2]
        PROVE  SampleRecord(rows[i])' = SampleRecord(rows[i])
    <3>1. rows'[i] = rows[i] /\ rows[i].run \in DOMAIN safe[1]
      BY <1>1, <1>5, <2>1 DEF SafeIsPrefix
    <3>2. /\ runs'[rows[i].run].uid = runs[rows[i].run].uid
          /\ runs'[rows[i].run].config = runs[rows[i].run].config
      BY <1>1, <1>5, <3>1 DEF SafeIsPrefix
    <3> QED
      BY <3>1, <3>2 DEF SampleRecord
  <2> QED
    BY <2>1
<1>15. OneReading'
  <2>1. Recorded' \subseteq Recorded
    BY <1>1, <1>7, <1>14 DEF Recorded
  <2>2. UnderWay' \subseteq UnderWay
    BY <1>1 DEF UnderWay, Shipped, Members
  <2>3. Known' \subseteq Known
    BY <1>1, <2>1, <2>2 DEF Known
  <2> QED
    BY <1>1, <2>3, ReadingLeaves DEF SyncInv
<1>16. ASSUME ~lapsed' PROVE MarksHold' /\ BatchHolds'
  <2>1. MarksHold
    BY <1>4, <1>16 DEF SyncInv
  <2>2. /\ marks["samples"] \in Nat /\ marks["errors"] \in Nat
        /\ marks["sessions"] \in Nat
    BY DEF SyncInv, AgentOK, Tables
  <2>3. /\ marks["samples"] <= Len(safe[2]) /\ marks["errors"] <= Len(safe[3])
        /\ marks["sessions"] <= Len(safe[1]) + 1
    BY <1>4, <1>6, <1>16, <2>2
  <2>4. SamplesBehind(marks["samples"])'
    <3>1. \A i \in 1 .. marks["samples"] : i \in DOMAIN safe[2]
      BY <1>6, <2>2, <2>3
    <3> QED
      BY <1>1, <1>14, <2>1, <3>1 DEF MarksHold, SamplesBehind
  <2>5. NotesBehind(marks["errors"])'
    <3>1. \A i \in 1 .. marks["errors"] : i \in DOMAIN safe[3]
      BY <1>6, <2>2, <2>3
    <3>2. \A i \in 1 .. marks["errors"] : notes'[i] = notes[i]
      BY <1>1, <1>5, <3>1 DEF SafeIsPrefix
    <3>3. Members(lake.notes)' = Members(lake.notes)
      BY <1>1 DEF Members
    <3> QED
      BY <1>1, <2>1, <3>2, <3>3 DEF MarksHold, NotesBehind
  <2>6. RunsBehind(marks["sessions"])'
    <3>1. ASSUME NEW i \in DOMAIN safe[1], i < marks["sessions"]
          PROVE  /\ i \in DOMAIN runs /\ safe[1][i].uid = runs[i].uid
                 /\ runs[i].ended
      BY <1>4, <1>5, <1>7, <1>16, <3>1 DEF SafeIsPrefix
    <3> QED
      BY <1>1, <2>1, <3>1 DEF MarksHold, RunsBehind
  <2>7. MarksHold'
    BY <1>1, <2>3, <2>4, <2>5, <2>6 DEF MarksHold, RunsFixed
  <2>8. BatchHolds'
    BY <1>1 DEF BatchHolds
  <2> QED
    BY <2>7, <2>8
<1> QED
  BY <1>8, <1>9, <1>10, <1>11, <1>12, <1>13, <1>15, <1>16 DEF SyncInv

-----------------------------------------------------------------------------
(* The invariant, and what follows. *)

\* Everything is empty at first.
LEMMA SyncInitially == Init => SyncInv
<1> SUFFICES ASSUME Init PROVE SyncInv
  OBVIOUS
<1>1. /\ runs = <<>> /\ rows = <<>> /\ notes = <<>>
      /\ current = 0 /\ latest = 0 /\ minted = 0
      /\ safe = <<runs, rows, notes>>
      /\ pc = "top" /\ batch = None /\ late = <<>> /\ failures = 0
      /\ marks = [t \in Tables |-> 0]
      /\ lake = [runs |-> <<>>, notes |-> <<>>, rows |-> {}]
  BY DEF Init, StoreInit, tables
<1>2. enabled \in BOOLEAN /\ stored \in BOOLEAN /\ ~stored /\ lapsed \in BOOLEAN
  BY Zenon DEF Init
<1>3. /\ \A S : <<>> \in Seq(S)
      /\ Len(<<>>) = 0 /\ DOMAIN <<>> = {}
  BY EmptySeq
<1>4. safe[1] = <<>> /\ safe[2] = <<>> /\ safe[3] = <<>>
  BY <1>1
<1>5. TablesOK /\ RunsOK /\ RowsOK /\ SafeIsPrefix
  BY <1>1, <1>3, <1>4 DEF TablesOK, RunsOK, RowsOK, SafeIsPrefix
<1>6. AgentOK
  BY <1>1, <1>2, <1>3 DEF AgentOK
<1>7. lake.runs = <<>> /\ lake.notes = <<>> /\ lake.rows = {}
  BY <1>1
<1>8. LakeOK
  BY <1>1, <1>3, <1>7 DEF LakeOK
<1>9. Known = {}
  BY <1>1, <1>3, <1>7 DEF Known, Recorded, UnderWay
<1>10. OneReading
  BY <1>9 DEF OneReading
<1>11. MarksHold
  BY <1>1, <1>3
     DEF MarksHold, Tables, SamplesBehind, NotesBehind, RunsFixed, RunsBehind
<1>12. BatchHolds
  BY <1>1 DEF BatchHolds
<1> QED
  BY <1>5, <1>6, <1>8, <1>10, <1>11, <1>12 DEF SyncInv

\* Every step keeps the invariant.
LEMMA SyncStep == SyncInv /\ [Next]_vars => SyncInv'
<1> SUFFICES ASSUME SyncInv, [Next]_vars PROVE SyncInv'
  OBVIOUS
<1>1. CASE AgentStep
  BY <1>1, QuietKeeps, ReadKeeps DEF AgentStep
<1>2. CASE Ack
  BY <1>2, AckKeeps
<1>3. CASE Refuse \/ NoAnswer \/ Crash
  BY <1>3, GivenUpKeeps
<1>4. CASE Pause \/ Resume
  BY <1>4, QuietKeeps
<1>5. CASE Store
  BY <1>5, StoreKeeps
<1>6. CASE StoreLate
  BY <1>6, StoreLateKeeps
<1>7. CASE Record
  BY <1>7, RecordKeeps
<1>8. CASE Checkpoint
  BY <1>8, CheckpointKeeps
<1>9. CASE PowerLoss
  BY <1>9, PowerLossKeeps
<1>10. CASE UNCHANGED vars
  <2>1. UNCHANGED <<storeVars, safe, pc, enabled, marks, batch, stored, late,
                    lake, stale, lapsed, failures>>
    BY <1>10 DEF vars, agentVars
  <2>2. HostOK' /\ LakeOK'
    BY <2>1, HostLeaves, LakeLeaves DEF SyncInv, HostOK
  <2>3. AgentOK'
    BY <2>1 DEF SyncInv, AgentOK
  <2>4. OneReading'
    <3>1. Recorded' = Recorded
      BY <2>1, RecordedLeaves DEF storeVars, tables
    <3>2. Known' \subseteq Known
      BY <2>1, <3>1 DEF Known, UnderWay, Shipped, Members
    <3> QED
      BY <2>1, <3>2, ReadingLeaves DEF SyncInv, storeVars
  <2>5. ASSUME ~lapsed' PROVE MarksHold' /\ BatchHolds'
    <3>1. ~lapsed
      BY <2>1, <2>5
    <3>2. MarksHold /\ BatchHolds
      BY <3>1 DEF SyncInv
    <3>3. MarksHold'
      BY <2>1, <3>2, MarksLeave
    <3>4. CASE pc' = "waiting"
      BY <2>1, <3>2, <3>3, <3>4, BatchLeaves
    <3>5. CASE pc' # "waiting"
      BY <3>3, <3>5 DEF BatchHolds
    <3> QED
      BY <3>4, <3>5
  <2> QED
    BY <2>2, <2>3, <2>4, <2>5 DEF SyncInv, HostOK
<1> QED
  BY <1>1, <1>2, <1>3, <1>4, <1>5, <1>6, <1>7, <1>8, <1>9, <1>10 DEF Next

\* The invariant holds of every behaviour.
THEOREM SyncInvariant == Spec => []SyncInv
<1>1. Init => SyncInv
  BY SyncInitially
<1>2. SyncInv /\ [Next]_vars => SyncInv'
  BY SyncStep
<1> QED
  BY <1>1, <1>2, PTL DEF Spec

\* The tables, the agent, the batches and the lake keep their types
\* (agent.py:108-146, 193-410, 511-618; server.py:138-258, 291-348).
THEOREM SyncTypeOK == Spec => []TypeOK
<1>1. SyncInv => TypeOK
  <2> SUFFICES ASSUME SyncInv PROVE TypeOK
    OBVIOUS
  <2>1. current \in Nat
    BY LenProperties DEF SyncInv, TablesOK
  <2>2. StoreTypeOK
    BY <2>1 DEF SyncInv, TablesOK, StoreTypeOK, RunRows, SampleRows, NoteRows
  <2> QED
    BY <2>2 DEF SyncInv, AgentOK, LakeOK, TypeOK, NoteRows, Samples
<1> QED
  BY <1>1, SyncInvariant, PTL

\* No crash, lost answer, late copy, pause or refusal makes the agent skip
\* anything, nor does a power loss that takes back nothing it had shipped
\* (agent.py:11-23, infra/README.md:95-97).
THEOREM NothingIsSkipped == Spec => []NothingSkipped
<1>1. SyncInv => NothingSkipped
  <2> SUFFICES ASSUME SyncInv, ~lapsed PROVE Skipless
    BY DEF NothingSkipped
  <2>1. MarksHold
    BY DEF SyncInv
  <2>2. ASSUME NEW i \in 1 .. marks["samples"], i \in DOMAIN rows
        PROVE  \E r \in lake.rows : /\ r.uid = runs[rows[i].run].uid
                                    /\ r.at = rows[i].at
    <3>1. SampleRecord(rows[i]) \in lake.rows
      BY <2>1, <2>2 DEF MarksHold, SamplesBehind
    <3> QED
      BY <2>2, <3>1, SampleRecordOK DEF SyncInv
  <2> QED
    BY <2>1, <2>2 DEF Skipless, MarksHold, NotesBehind, RunsBehind
<1> QED
  BY <1>1, SyncInvariant, PTL

\* A sample in the lake has the configuration it was read under
\* (agent.py:198-232).
THEOREM SamplesKeepLabel == Spec => []LabelledAsRead
<1>1. SyncInv => LabelledAsRead
  <2> SUFFICES ASSUME SyncInv, NEW i \in DOMAIN rows, NEW r \in lake.rows,
                      r.at = rows[i].at
               PROVE  r.config = rows[i].config
    BY DEF LabelledAsRead
  <2>1. SampleRecord(rows[i]) \in Known /\ r \in Known
    BY DEF Known, Recorded
  <2>2. /\ SampleRecord(rows[i]).at = rows[i].at
        /\ SampleRecord(rows[i]).config = rows[i].config
    BY SampleRecordOK DEF SyncInv
  <2>3. r = SampleRecord(rows[i])
    BY <2>1, <2>2 DEF SyncInv, OneReading
  <2> QED
    BY <2>2, <2>3
<1> QED
  BY <1>1, SyncInvariant, PTL

\* An ended session behind the watermark is ended in the lake, unless an old
\* copy was stored after the news (agent.py:511-529).
THEOREM SessionsAreSettled == Spec => []SessionsSettle
<1>1. SyncInv => SessionsSettle
  BY DEF SyncInv, MarksHold, RunsBehind, SessionsSettle
<1> QED
  BY <1>1, SyncInvariant, PTL
=============================================================================
