--------------------------- MODULE RecorderProofs ---------------------------
(* What the recorder commits is a RunStore, every row carries the mapping    *)
(* version it was read under, and a reading that entered the queue is        *)
(* written once and in order: for any queue size, chunk size, modes and      *)
(* versions, and through any number of connections, switches, clock steps,   *)
(* dead writers and restarts.                                                *)
EXTENDS Recorder, SequenceTheorems, TLAPS

\* The configurations a message finds in force when the writer gets to it:
\* that of the run message before it, or of the run the writer has open.
AtFront(j, r, runs) ==
  IF j # None /\ j.kind = "run" THEN {j.config}
  ELSE IF r = 0 THEN {} ELSE {runs[r].config}

InForce(q, front, i, config) ==
  \/ \E k \in 1..(i - 1) : /\ q[k].kind = "run" /\ q[k].config = config
                           /\ \A l \in (k + 1)..(i - 1) : q[l].kind # "run"
  \/ config \in front /\ \A k \in 1..(i - 1) : q[k].kind # "run"

Front == AtFront(job, run, disk.runs)

\* Once its run is opened the poll thread has the configuration of the last
\* run message, until it switches or connects again.
PollInForce ==
  /\ pc \in {"resolved", "top", "switched", "clock", "stepped", "cycle"} => meta \in Versions
  /\ pc \in {"top", "clock", "cycle"} => InForce(queue, Front, Len(queue) + 1, Snapshot)

\* Every reading was made under the configuration in force where it waits.
QueueInForce(q, front) ==
  \A i \in 1..Len(q) :
    q[i].kind = "s" => InForce(q, front, i, q[i].reading.config)

\* A message is popped when the buffer has room for it, and a reading after the
\* run it belongs to.
JobInForce ==
  job # None => /\ Len(pending) < Chunk
                /\ job.kind = "s" => /\ run # 0
                                     /\ job.reading.config = disk.runs[run].config

\* The buffer holds rows of the open run only.
PendingIsOwn ==
  \A i \in 1..Len(pending) : /\ pending[i].run = run /\ run # 0 /\ seen
                             /\ pending[i].config = disk.runs[run].config

\* What the writer knows of the open run.
RunIsLast ==
  /\ run # 0 => run = Len(disk.runs) /\ prov = disk.runs[run].config.version
  /\ seen => run # 0 /\ (noted = prov \/ (noted = None /\ disk.runs[run].channel = prov))
  /\ ~seen => noted = None

\* A committed row is one of a committed run, which is labelled like it.
RowsLabelled ==
  \A i \in 1..Len(disk.rows) :
    /\ disk.rows[i].run \in 1..Len(disk.runs)
    /\ disk.runs[disk.rows[i].run].config = disk.rows[i].config
    /\ disk.runs[disk.rows[i].run].channel = disk.rows[i].config.version

\* Readings are numbered as they are taken, and stay in that order: on the
\* disk, in the buffer, in the writer's hands and in the queue.
AtsOf(s)   == {s[i].at : i \in 1..Len(s)}
JobAts(j)  == IF j # None /\ j.kind = "s" THEN {j.reading.at} ELSE {}
QueueAts(q) == {q[i].reading.at : i \in {k \in 1..Len(q) : q[k].kind = "s"}}
Ahead      == AtsOf(disk.rows) \cup AtsOf(pending) \cup JobAts(job)

Sorted(s)  == \A i, j \in 1..Len(s) : i < j => s[i].at < s[j].at
Below(S, T) == \A a \in S, b \in T : a < b

AheadInOrder ==
  /\ Ahead \subseteq 1..taken
  /\ Sorted(disk.rows) /\ Sorted(pending)
  /\ Below(AtsOf(disk.rows), AtsOf(pending))
  /\ Below(AtsOf(disk.rows) \cup AtsOf(pending), JobAts(job))

QueueInOrder(q, ahead, n) ==
  \A i \in 1..Len(q) : q[i].kind = "s" =>
    /\ q[i].reading.at \in 1..n
    /\ \A a \in ahead : a < q[i].reading.at
    /\ \A j \in 1..(i - 1) : q[j].kind = "s" => q[j].reading.at < q[i].reading.at

\* What entered the queue is in one of the four places.
KeptSomewhere == kept \subseteq Ahead \cup QueueAts(queue)

RInv == /\ TypeOK
        /\ PollInForce /\ QueueInForce(queue, Front) /\ JobInForce /\ PendingIsOwn
        /\ RunIsLast /\ RowsLabelled
        /\ AheadInOrder /\ QueueInOrder(queue, Ahead, taken) /\ KeptSomewhere

USE NoneAssumption, MessageAssumption, ModesAssumption, CapAssumption
-----------------------------------------------------------------------------
(* The queue *)

\* A message put behind the queue leaves what is in force where the others
\* wait; behind a run message its configuration is in force, behind any other
\* one what was.
LEMMA AppendInForce ==
  ASSUME NEW q \in Seq(Message), NEW m \in Message, NEW F
  PROVE  /\ \A i \in 1..(Len(q) + 1), c \in Config :
              InForce(q, F, i, c) => InForce(Append(q, m), F, i, c)
         /\ \A c \in Config : m.kind # "run" /\ InForce(q, F, Len(q) + 1, c)
                       => InForce(Append(q, m), F, Len(q) + 2, c)
         /\ m.kind = "run" => InForce(Append(q, m), F, Len(q) + 2, m.config)
<1> DEFINE p == Append(q, m)
<1>1. Len(p) = Len(q) + 1 /\ Len(q) \in Nat /\ p[Len(q) + 1] = m
      /\ \A i \in 1..Len(q) : p[i] = q[i]
  OBVIOUS
<1> HIDE DEF p
<1>2. ASSUME NEW i \in 1..(Len(q) + 1), NEW c \in Config, InForce(q, F, i, c)
      PROVE  InForce(p, F, i, c)
  BY <1>1, <1>2 DEF InForce
<1>3. ASSUME NEW c \in Config, m.kind # "run", InForce(q, F, Len(q) + 1, c)
      PROVE  InForce(p, F, Len(q) + 2, c)
  BY <1>1, <1>3 DEF InForce
<1>4. ASSUME m.kind = "run" PROVE InForce(p, F, Len(q) + 2, m.config)
  BY <1>1, <1>4 DEF InForce
<1> QED
  BY <1>2, <1>3, <1>4 DEF p

\* A message that is no reading, or one in force and newer than all ahead of
\* it, keeps the queue in force and in order.
LEMMA AppendQueue ==
  ASSUME NEW q \in Seq(Message), NEW m \in Message, NEW F, NEW A, NEW n \in Nat,
         QueueInForce(q, F), QueueInOrder(q, A, n),
         m.kind = "s" => /\ InForce(q, F, Len(q) + 1, m.reading.config)
                         /\ m.reading.at \in 1..n
                         /\ \A a \in A \cup QueueAts(q) : a < m.reading.at
  PROVE  /\ QueueInForce(Append(q, m), F)
         /\ QueueInOrder(Append(q, m), A, n)
         /\ QueueAts(Append(q, m)) = QueueAts(q) \cup (IF m.kind = "s" THEN {m.reading.at} ELSE {})
<1> DEFINE p == Append(q, m)
<1>1. Len(p) = Len(q) + 1 /\ Len(q) \in Nat /\ p[Len(q) + 1] = m
      /\ \A i \in 1..Len(q) : p[i] = q[i]
  OBVIOUS
<1>2. \A i \in 1..(Len(q) + 1), c \in Config : InForce(q, F, i, c) => InForce(p, F, i, c)
  BY AppendInForce
<1>3. \A i \in 1..Len(q) : q[i] \in Message
  OBVIOUS
<1>4. \A x \in Message : x.kind = "s" => x.reading.config \in Config
  BY DEF Message, Reading
<1> HIDE DEF p
<1>5. QueueInForce(p, F)
  <2> SUFFICES ASSUME NEW i \in 1..Len(p), p[i].kind = "s"
               PROVE  InForce(p, F, i, p[i].reading.config)
    BY DEF QueueInForce
  <2>1. CASE i \in 1..Len(q)
    BY <2>1, <1>1, <1>2, <1>3, <1>4 DEF QueueInForce
  <2>2. CASE i = Len(q) + 1
    BY <2>2, <1>1, <1>2, <1>4
  <2> QED
    BY <2>1, <2>2, <1>1
<1>6. QueueInOrder(p, A, n)
  <2> SUFFICES ASSUME NEW i \in 1..Len(p), p[i].kind = "s"
               PROVE  /\ p[i].reading.at \in 1..n
                      /\ \A a \in A : a < p[i].reading.at
                      /\ \A j \in 1..(i - 1) : p[j].kind = "s" => p[j].reading.at < p[i].reading.at
    BY DEF QueueInOrder
  <2>1. CASE i \in 1..Len(q)
    BY <2>1, <1>1 DEF QueueInOrder
  <2>2. CASE i = Len(q) + 1
    BY <2>2, <1>1 DEF QueueAts
  <2> QED
    BY <2>1, <2>2, <1>1
<1>7. QueueAts(p) = QueueAts(q) \cup (IF m.kind = "s" THEN {m.reading.at} ELSE {})
  BY <1>1 DEF QueueAts
<1> QED
  BY <1>5, <1>6, <1>7 DEF p

QueueOK(q, front, ahead, n) ==
  /\ q \in Seq(Message) /\ Len(q) <= Cap
  /\ QueueInForce(q, front) /\ QueueInOrder(q, ahead, n)

\* A message that is neither is dropped or put, and changes nothing for the
\* readings.
LEMMA NowaitOther ==
  ASSUME NEW q, NEW F, NEW A, NEW n \in Nat, QueueOK(q, F, A, n),
         NEW m \in Message, m.kind \notin {"run", "s"}
  PROVE  /\ QueueOK(Nowait(q, m), F, A, n)
         /\ QueueAts(Nowait(q, m)) = QueueAts(q)
         /\ \A c \in Config : InForce(q, F, Len(q) + 1, c)
                       => InForce(Nowait(q, m), F, Len(Nowait(q, m)) + 1, c)
<1>1. CASE Len(q) < Cap
  <2>1. Nowait(q, m) = Append(q, m) /\ q \in Seq(Message)
    BY <1>1 DEF Nowait, QueueOK
  <2>2. Append(q, m) \in Seq(Message) /\ Len(Append(q, m)) = Len(q) + 1
        /\ Len(q) \in Nat
    BY <2>1
  <2>3. /\ QueueInForce(Append(q, m), F) /\ QueueInOrder(Append(q, m), A, n)
        /\ QueueAts(Append(q, m)) = QueueAts(q)
    BY <2>1, AppendQueue DEF QueueOK
  <2>4. \A c \in Config : InForce(q, F, Len(q) + 1, c)
                   => InForce(Append(q, m), F, Len(q) + 2, c)
    BY <2>1, AppendInForce
  <2> QED
    BY <1>1, <2>1, <2>2, <2>3, <2>4 DEF QueueOK
<1>2. CASE ~(Len(q) < Cap)
  BY <1>2 DEF Nowait
<1> QED
  BY <1>1, <1>2

LEMMA NoteType == Note \in Message /\ Note.kind \notin {"run", "s"}
BY DEF Note, Message

\* A run message is put, and its configuration is in force behind it.
LEMMA PutRun ==
  ASSUME NEW q, NEW F, NEW A, NEW n \in Nat, QueueOK(q, F, A, n), Len(q) < Cap,
         NEW m \in Message, m.kind = "run"
  PROVE  /\ QueueOK(Append(q, m), F, A, n)
         /\ QueueAts(Append(q, m)) = QueueAts(q)
         /\ InForce(Append(q, m), F, Len(Append(q, m)) + 1, m.config)
<1>1. q \in Seq(Message)
  BY DEF QueueOK
<1>2. Append(q, m) \in Seq(Message) /\ Len(Append(q, m)) = Len(q) + 1 /\ Len(q) \in Nat
  BY <1>1
<1>3. /\ QueueInForce(Append(q, m), F) /\ QueueInOrder(Append(q, m), A, n)
      /\ QueueAts(Append(q, m)) = QueueAts(q)
  BY <1>1, AppendQueue DEF QueueOK
<1>4. InForce(Append(q, m), F, Len(q) + 2, m.config)
  BY <1>1, AppendInForce
<1> QED
  BY <1>2, <1>3, <1>4, CapAssumption DEF QueueOK

\* A reading made under the configuration in force is dropped or put.
LEMMA NowaitReading ==
  ASSUME NEW q, NEW F, NEW A, NEW n \in Nat, QueueOK(q, F, A, n), A \subseteq 1..n,
         NEW r \in Reading, r.at = n + 1, InForce(q, F, Len(q) + 1, r.config)
  PROVE  LET p == Nowait(q, [kind |-> "s", reading |-> r])
         IN  /\ QueueOK(p, F, A, n + 1)
             /\ QueueAts(p) = QueueAts(q) \cup (IF Len(q) < Cap THEN {n + 1} ELSE {})
             /\ \A c \in Config : InForce(q, F, Len(q) + 1, c) => InForce(p, F, Len(p) + 1, c)
<1> DEFINE m == [kind |-> "s", reading |-> r]
<1>1. m \in Message /\ m.kind = "s" /\ m.reading = r
  BY DEF Message
<1> HIDE DEF m
<1>2. q \in Seq(Message) /\ Len(q) \in Nat /\ QueueInForce(q, F) /\ QueueInOrder(q, A, n)
  BY DEF QueueOK
<1>3. QueueInOrder(q, A, n + 1) /\ \A a \in A \cup QueueAts(q) : a < n + 1
  BY <1>2 DEF QueueInOrder, QueueAts
<1>4. CASE Len(q) < Cap
  <2>1. Nowait(q, m) = Append(q, m)
    BY <1>4 DEF Nowait
  <2>2. Append(q, m) \in Seq(Message) /\ Len(Append(q, m)) = Len(q) + 1
    BY <1>1, <1>2
  <2>3. /\ QueueInForce(Append(q, m), F) /\ QueueInOrder(Append(q, m), A, n + 1)
        /\ QueueAts(Append(q, m)) = QueueAts(q) \cup {n + 1}
    <3> DEFINE n1 == n + 1
    <3>1. n1 \in Nat /\ m.reading.at = n1 /\ n1 \in 1..n1 /\ QueueInOrder(q, A, n1)
          /\ \A a \in A \cup QueueAts(q) : a < n1
      BY <1>1, <1>3
    <3> HIDE DEF n1
    <3>2. /\ QueueInForce(Append(q, m), F) /\ QueueInOrder(Append(q, m), A, n1)
          /\ QueueAts(Append(q, m)) = QueueAts(q) \cup {n1}
      BY <1>1, <1>2, <3>1, AppendQueue
    <3> QED
      BY <3>2 DEF n1
  <2>4. \A c \in Config : InForce(q, F, Len(q) + 1, c)
                   => InForce(Append(q, m), F, Len(q) + 2, c)
    BY <1>1, <1>2, AppendInForce
  <2> QED
    <3>1. Len(Append(q, m)) + 1 = Len(q) + 2 /\ Len(Append(q, m)) <= Cap
      BY <1>2, <1>4, <2>2, CapAssumption
    <3>2. QueueOK(Append(q, m), F, A, n + 1)
      BY <2>2, <2>3, <3>1 DEF QueueOK
    <3> QED
      BY <1>4, <2>1, <2>3, <2>4, <3>1, <3>2 DEF m
<1>5. CASE ~(Len(q) < Cap)
  BY <1>2, <1>3, <1>5 DEF Nowait, QueueOK
<1> QED
  BY <1>4, <1>5

-----------------------------------------------------------------------------
(* The poll thread: what it does leaves the writer and the disk alone. *)

PollTypes ==
  /\ pc \in {"off", "down", "connecting", "resolved", "top", "switched",
             "clock", "stepped", "cycle"}
  /\ mode \in Modes /\ wanted \in Modes \cup {None}
  /\ meta \in Versions \cup {None} /\ anchor \in Nat
  /\ stopping \in BOOLEAN /\ writer \in {"running", "ended", "dead"}
  /\ epoch \in Nat /\ changes \in Nat

LEMMA PollLeaves ==
  ASSUME RInv, UNCHANGED <<job, pending, run, prov, seen, noted, disk>>,
         PollTypes', PollInForce', taken' \in Nat, taken <= taken', kept' \subseteq Nat,
         QueueOK(queue', Front, Ahead, taken'),
         kept' \subseteq Ahead \cup QueueAts(queue')
  PROVE  RInv'
<1>1. Front' = Front /\ Ahead' = Ahead
  BY DEF Front, Ahead
<1>2. TypeOK'
  BY DEF RInv, TypeOK, PollTypes, QueueOK
<1>3. QueueInForce(queue', Front') /\ QueueInOrder(queue', Ahead', taken')
  BY <1>1 DEF QueueOK
<1>4. JobInForce' /\ PendingIsOwn' /\ RunIsLast' /\ RowsLabelled'
  BY DEF RInv, JobInForce, PendingIsOwn, RunIsLast, RowsLabelled
<1>5. AheadInOrder'
  BY <1>1 DEF RInv, TypeOK, AheadInOrder
<1>6. KeptSomewhere'
  BY <1>1 DEF KeptSomewhere
<1> QED
  BY <1>2, <1>3, <1>4, <1>5, <1>6 DEF RInv

\* What the poll thread's lemma needs of the state before.
LEMMA Before ==
  ASSUME RInv
  PROVE  /\ PollTypes /\ taken \in Nat /\ kept \subseteq Nat /\ Ahead \subseteq 1..taken
         /\ QueueOK(queue, Front, Ahead, taken)
         /\ kept \subseteq Ahead \cup QueueAts(queue)
         /\ PollInForce /\ (meta \in Versions => Snapshot \in Config)
BY DEF RInv, TypeOK, PollTypes, QueueOK, AheadInOrder, KeptSomewhere, Snapshot, Config

\* Steps that put nothing, and leave the poll thread where it need know no
\* configuration or knows the one it knew.
LEMMA QuietInv ==
  ASSUME RInv, UNCHANGED <<queue, job, pending, run, prov, seen, noted, disk, taken, kept>>,
         PollTypes',
         pc' \in {"resolved", "top", "switched", "clock", "stepped", "cycle"} => meta' \in Versions,
         pc' \in {"top", "clock", "cycle"} =>
           pc \in {"top", "clock", "cycle"} /\ UNCHANGED <<mode, meta>>
  PROVE  RInv'
<1>1. Front' = Front /\ taken <= taken'
  BY DEF Front, RInv, TypeOK
<1>2. PollInForce'
  BY <1>1, Before DEF PollInForce, Snapshot
<1> QED
  BY <1>1, <1>2, Before, PollLeaves

LEMMA ConnectInv == ASSUME RInv, Connect PROVE RInv'
BY QuietInv, Before DEF Connect, Change, thread, PollTypes

LEMMA ResolveInv == ASSUME RInv, NEW v \in Versions, Resolve(v) PROVE RInv'
BY QuietInv, Before DEF Resolve, ghosts, thread, PollTypes

LEMMA TakeInv == ASSUME RInv, Take PROVE RInv'
BY QuietInv, Before DEF Take, ghosts, thread, PollTypes, PollInForce

LEMMA RequestModeInv == ASSUME RInv, NEW m \in Modes, RequestMode(m) PROVE RInv'
BY QuietInv, Before DEF RequestMode, Change, thread, PollTypes, PollInForce

LEMMA StepClockInv == ASSUME RInv, StepClock PROVE RInv'
BY QuietInv, Before DEF StepClock, Change, poll, thread, PollTypes, PollInForce

LEMMA RestartInv == ASSUME RInv, Restart PROVE RInv'
BY QuietInv, Before DEF Restart, Change, thread, PollTypes, PollInForce

LEMMA WriterDiesInv == ASSUME RInv, WriterDies PROVE RInv'
BY QuietInv, Before DEF WriterDies, poll, ghosts, PollTypes, PollInForce

LEMMA StutterInv == ASSUME RInv, UNCHANGED vars PROVE RInv'
BY QuietInv, Before DEF vars, poll, ghosts, thread, PollTypes, PollInForce

\* The run message a start_run puts.
RunMessage == [kind |-> "run", epoch |-> epoch, config |-> Snapshot]

LEMMA RunMessageType ==
  ASSUME RInv, meta \in Versions
  PROVE  RunMessage \in Message /\ RunMessage.kind = "run" /\ RunMessage.config = Snapshot
<1>1. Snapshot \in Config /\ epoch \in Nat
  BY Before DEF PollTypes
<1> QED
  BY <1>1 DEF RunMessage, Message

\* A run message and the event after it.
LEMMA StartRunQueue ==
  ASSUME RInv, StartRun, meta \in Versions
  PROVE  /\ QueueOK(queue', Front, Ahead, taken)
         /\ QueueAts(queue') = QueueAts(queue)
         /\ InForce(queue', Front, Len(queue') + 1, Snapshot)
<1> DEFINE q == Append(queue, RunMessage)
<1>1. taken \in Nat /\ QueueOK(queue, Front, Ahead, taken) /\ Snapshot \in Config
  BY Before
<1>2. /\ QueueOK(q, Front, Ahead, taken) /\ QueueAts(q) = QueueAts(queue)
      /\ InForce(q, Front, Len(q) + 1, Snapshot)
  <2>1. Len(queue) < Cap
    BY DEF StartRun
  <2> QED
    BY <1>1, <2>1, RunMessageType, PutRun
<1>3. queue' = Nowait(q, Note)
  BY DEF StartRun, RunMessage
<1> HIDE DEF q
<1> QED
  BY <1>1, <1>2, <1>3, NoteType, NowaitOther

LEMMA OpenInv == ASSUME RInv, Open PROVE RInv'
<1>1. meta \in Versions /\ meta' = meta /\ pc' = "top" /\ taken' = taken /\ kept' = kept
      /\ Front' = Front /\ Snapshot' = Snapshot
  BY DEF RInv, PollInForce, Open, ghosts, thread, Front, Snapshot
<1>2. /\ QueueOK(queue', Front, Ahead, taken)
      /\ QueueAts(queue') = QueueAts(queue)
      /\ InForce(queue', Front, Len(queue') + 1, Snapshot)
  BY <1>1, StartRunQueue DEF Open
<1>3. PollInForce'
  BY <1>1, <1>2 DEF PollInForce
<1>4. PollTypes' /\ taken' \in Nat /\ taken <= taken' /\ kept' \subseteq Nat
  BY <1>1, Before DEF Open, ghosts, thread, PollTypes
<1> QED
  BY <1>1, <1>2, <1>3, <1>4, Before, PollLeaves DEF Open, thread

LEMMA SwitchInv == ASSUME RInv, Switch PROVE RInv'
<1>1. meta \in Versions /\ meta' = meta /\ pc' = "clock" /\ taken' = taken /\ kept' = kept
      /\ Front' = Front /\ Snapshot' = Snapshot
  BY DEF RInv, PollInForce, Switch, ghosts, thread, Front, Snapshot
<1>2. /\ QueueOK(queue', Front, Ahead, taken)
      /\ QueueAts(queue') = QueueAts(queue)
      /\ InForce(queue', Front, Len(queue') + 1, Snapshot)
  BY <1>1, StartRunQueue DEF Switch
<1>3. PollInForce'
  BY <1>1, <1>2 DEF PollInForce
<1>4. PollTypes' /\ taken' \in Nat /\ taken <= taken' /\ kept' \subseteq Nat
  BY <1>1, Before DEF Switch, ghosts, thread, PollTypes
<1> QED
  BY <1>1, <1>2, <1>3, <1>4, Before, PollLeaves DEF Switch, thread

LEMMA RestepInv == ASSUME RInv, Restep PROVE RInv'
<1>1. meta \in Versions /\ meta' = meta /\ pc' = "cycle" /\ taken' = taken /\ kept' = kept
      /\ Front' = Front /\ Snapshot' = Snapshot
  BY DEF RInv, PollInForce, Restep, ghosts, thread, Front, Snapshot
<1>2. /\ QueueOK(queue', Front, Ahead, taken)
      /\ QueueAts(queue') = QueueAts(queue)
      /\ InForce(queue', Front, Len(queue') + 1, Snapshot)
  <2>1. Len(queue) < Cap /\ queue' = Append(queue, RunMessage)
    BY DEF Restep, RunMessage
  <2> QED
    BY <1>1, <2>1, Before, RunMessageType, PutRun
<1>3. PollInForce'
  BY <1>1, <1>2 DEF PollInForce
<1>4. PollTypes' /\ taken' \in Nat /\ taken <= taken' /\ kept' \subseteq Nat
  BY <1>1, Before DEF Restep, ghosts, thread, PollTypes
<1> QED
  BY <1>1, <1>2, <1>3, <1>4, Before, PollLeaves DEF Restep, thread

LEMMA LookAtClockInv == ASSUME RInv, LookAtClock PROVE RInv'
<1>1. meta \in Versions /\ meta' = meta /\ taken' = taken /\ kept' = kept
      /\ Front' = Front /\ Snapshot' = Snapshot
      /\ InForce(queue, Front, Len(queue) + 1, Snapshot)
  BY DEF RInv, PollInForce, LookAtClock, ghosts, thread, Front, Snapshot
<1>2. PollTypes' /\ taken' \in Nat /\ taken <= taken' /\ kept' \subseteq Nat
  BY <1>1, Before DEF LookAtClock, ghosts, thread, PollTypes
<1>3. CASE pc' = "cycle" /\ queue' = queue
  BY <1>1, <1>3, QuietInv, Before, <1>2 DEF LookAtClock, ghosts, thread
<1>4. CASE pc' = "stepped" /\ queue' = Nowait(queue, Note)
  <2>1. QueueOK(queue', Front, Ahead, taken) /\ QueueAts(queue') = QueueAts(queue)
    BY <1>4, Before, NoteType, NowaitOther
  <2>2. PollInForce'
    BY <1>1, <1>4 DEF PollInForce
  <2> QED
    BY <1>1, <1>2, <2>1, <2>2, Before, PollLeaves DEF LookAtClock, thread
<1> QED
  BY <1>3, <1>4 DEF LookAtClock

LEMMA FailInv == ASSUME RInv, Fail PROVE RInv'
<1>1. QueueOK(queue', Front, Ahead, taken) /\ QueueAts(queue') = QueueAts(queue)
  BY Before, NoteType, NowaitOther DEF Fail
<1>2. PollTypes' /\ taken' \in Nat /\ taken <= taken' /\ kept' \subseteq Nat /\ taken' = taken
      /\ kept' = kept /\ pc' = "down"
  BY Before DEF Fail, ghosts, thread, PollTypes
<1>3. PollInForce'
  BY <1>2 DEF PollInForce
<1> QED
  BY <1>1, <1>2, <1>3, Before, PollLeaves DEF Fail, thread

LEMMA StopInv == ASSUME RInv, Stop PROVE RInv'
<1> DEFINE m == [kind |-> "stop"]
<1>1. m \in Message /\ m.kind \notin {"run", "s"}
  BY DEF Message
<1>2. queue' = Nowait(queue, m)
  BY DEF Stop, Nowait
<1> HIDE DEF m
<1>3. QueueOK(queue', Front, Ahead, taken) /\ QueueAts(queue') = QueueAts(queue)
      /\ \A c \in Config : InForce(queue, Front, Len(queue) + 1, c)
                    => InForce(queue', Front, Len(queue') + 1, c)
  BY <1>1, <1>2, Before, NowaitOther
<1>4. PollTypes' /\ taken' \in Nat /\ taken <= taken' /\ kept' \subseteq Nat /\ taken' = taken
      /\ kept' = kept
  <2>1. stopping' \in BOOLEAN
    BY Zenon DEF Stop
  <2>2. UNCHANGED <<pc, mode, wanted, meta, anchor, writer, epoch, taken, kept, changes>>
    BY DEF Stop, ghosts, poll, thread
  <2> QED
    BY <2>1, <2>2, Before DEF PollTypes
<1>5. Front' = Front /\ Snapshot' = Snapshot /\ UNCHANGED <<pc, meta>>
  BY DEF Stop, thread, poll, Front, Snapshot
<1>6. PollInForce'
  BY <1>3, <1>5, Before DEF PollInForce
<1> QED
  BY <1>3, <1>4, <1>6, Before, PollLeaves DEF Stop, thread

\* A cycle notes a fault, takes a reading under the run's configuration, does
\* both or neither.
LEMMA CycleInv == ASSUME RInv, NEW faulted \in BOOLEAN, Cycle(faulted) PROVE RInv'
<1> DEFINE q == IF faulted THEN Nowait(queue, Note) ELSE queue
           reading == [at |-> taken + 1, epoch |-> epoch, config |-> Snapshot]
<1>1. meta \in Versions /\ Snapshot \in Config /\ epoch \in Nat /\ taken \in Nat
      /\ InForce(queue, Front, Len(queue) + 1, Snapshot)
  BY Before DEF PollInForce, Cycle, PollTypes
<1>2. QueueOK(q, Front, Ahead, taken) /\ QueueAts(q) = QueueAts(queue)
      /\ InForce(q, Front, Len(q) + 1, Snapshot)
  BY <1>1, Before, NoteType, NowaitOther
<1>3. /\ pc' = "top"
      /\ UNCHANGED <<mode, wanted, meta, anchor, stopping, thread, disk, epoch, changes>>
      /\ \/ queue' = q /\ UNCHANGED <<taken, kept>>
         \/ /\ taken' = taken + 1
            /\ queue' = Nowait(q, [kind |-> "s", reading |-> reading])
            /\ kept' = IF Len(q) < Cap THEN kept \cup {taken + 1} ELSE kept
  BY DEF Cycle
<1>4. reading \in Reading /\ reading.at = taken + 1 /\ reading.config = Snapshot
  BY <1>1 DEF Reading
<1> HIDE DEF q, reading
<1>5. Front' = Front /\ Snapshot' = Snapshot
  BY <1>3 DEF thread, Front, Snapshot
<1>6. PollTypes'
  BY <1>3, Before DEF thread, PollTypes
<1>7. CASE queue' = q /\ UNCHANGED <<taken, kept>>
  <2>1. PollInForce'
    BY <1>1, <1>2, <1>3, <1>5, <1>7 DEF PollInForce
  <2> QED
    BY <1>1, <1>2, <1>3, <1>6, <1>7, <2>1, Before, PollLeaves DEF thread
<1>8. CASE /\ taken' = taken + 1
           /\ queue' = Nowait(q, [kind |-> "s", reading |-> reading])
           /\ kept' = IF Len(q) < Cap THEN kept \cup {taken + 1} ELSE kept
  <2>1. /\ QueueOK(queue', Front, Ahead, taken + 1)
        /\ QueueAts(queue') = QueueAts(q) \cup (IF Len(q) < Cap THEN {taken + 1} ELSE {})
        /\ InForce(queue', Front, Len(queue') + 1, Snapshot)
    BY <1>1, <1>2, <1>4, <1>8, Before, NowaitReading
  <2>2. PollInForce'
    BY <1>1, <1>3, <1>5, <2>1 DEF PollInForce
  <2>3. taken' \in Nat /\ taken <= taken' /\ kept' \subseteq Nat
        /\ kept' \subseteq Ahead \cup QueueAts(queue')
    BY <1>1, <1>2, <1>8, <2>1, Before
  <2> QED
    BY <1>3, <1>6, <1>8, <2>1, <2>2, <2>3, PollLeaves DEF thread
<1> QED
  BY <1>3, <1>7, <1>8

\* The process is gone: nothing but the disk is left.
LEMMA ExitInv == ASSUME RInv, Exit PROVE RInv'
<1>1. queue' = <<>> /\ pending' = <<>> /\ job' = None /\ kept' = {} /\ run' = 0
      /\ noted' = None /\ taken' = taken /\ disk' = disk /\ pc' = "off"
  BY DEF Exit, Fresh
<1>2. ~seen' /\ seen' \in BOOLEAN /\ stopping' \in BOOLEAN
  BY Zenon DEF Exit, Fresh
<1>3. mode' = DefaultMode /\ wanted' = None /\ meta' = None /\ anchor' = epoch /\ prov' = None
      /\ writer' = "running" /\ epoch' = epoch /\ changes' = changes
  BY DEF Exit, Fresh
<1>4. Len(queue') = 0 /\ Len(pending') = 0
  BY <1>1
<1>5. TypeOK'
  BY <1>1, <1>2, <1>3, <1>4, Before, CapAssumption, ModesAssumption DEF RInv, TypeOK, PollTypes
<1>6. PollInForce' /\ QueueInForce(queue', Front') /\ JobInForce' /\ PendingIsOwn'
      /\ RunIsLast'
  BY <1>1, <1>2, <1>4 DEF PollInForce, QueueInForce, JobInForce, PendingIsOwn, RunIsLast
<1>7. RowsLabelled'
  BY <1>1 DEF RInv, RowsLabelled
<1>8. Ahead' = AtsOf(disk.rows) /\ AtsOf(disk.rows) \subseteq Ahead /\ AtsOf(pending') = {}
      /\ JobAts(job') = {}
  BY <1>1, <1>4 DEF Ahead, AtsOf, JobAts
<1>9. AheadInOrder'
  <2>1. Ahead \subseteq 1..taken /\ Sorted(disk.rows)
    BY DEF RInv, AheadInOrder
  <2>2. Sorted(pending') /\ Below(AtsOf(disk.rows), {})
    BY <1>4 DEF Sorted, Below
  <2>3. Below(AtsOf(disk.rows) \cup AtsOf(pending'), {})
    BY DEF Below
  <2> QED
    BY <1>1, <1>8, <2>1, <2>2, <2>3 DEF AheadInOrder
<1>10. QueueInOrder(queue', Ahead', taken') /\ KeptSomewhere'
  BY <1>1, <1>4 DEF QueueInOrder, KeptSomewhere
<1> QED
  BY <1>5, <1>6, <1>7, <1>9, <1>10 DEF RInv

LEMMA RecorderInitInv == Init => RInv
<1> SUFFICES ASSUME Init PROVE RInv
  OBVIOUS
<1>1. queue = <<>> /\ pending = <<>> /\ job = None /\ kept = {} /\ run = 0 /\ prov = None
      /\ noted = None /\ taken = 0 /\ pc = "down" /\ epoch = 0 /\ changes = 0 /\ anchor = 0
      /\ mode = DefaultMode /\ wanted = None /\ meta = None /\ writer = "running"
      /\ disk = [runs |-> <<>>, rows |-> <<>>, notes |-> <<>>]
  BY DEF Init
<1>2. ~seen /\ seen \in BOOLEAN /\ stopping \in BOOLEAN
  BY Zenon DEF Init
<1>3. Len(queue) = 0 /\ Len(pending) = 0 /\ Len(disk.rows) = 0
  BY <1>1
<1>4. TypeOK
  BY <1>1, <1>2, <1>3, CapAssumption, ModesAssumption DEF TypeOK
<1>5. PollInForce /\ QueueInForce(queue, Front) /\ JobInForce /\ PendingIsOwn
      /\ RunIsLast /\ RowsLabelled
  BY <1>1, <1>2, <1>3 DEF PollInForce, QueueInForce, JobInForce, PendingIsOwn, RunIsLast, RowsLabelled
<1>6. Ahead = {} /\ AtsOf(disk.rows) = {} /\ AtsOf(pending) = {}
  BY <1>1, <1>3 DEF Ahead, AtsOf, JobAts
<1>7. AheadInOrder /\ QueueInOrder(queue, Ahead, taken) /\ KeptSomewhere
  BY <1>1, <1>3, <1>6 DEF AheadInOrder, Sorted, Below, QueueInOrder, KeptSomewhere
<1> QED
  BY <1>4, <1>5, <1>7 DEF RInv

-----------------------------------------------------------------------------
(* The writer *)

\* Taking the head of the queue moves what is in force up to it.
LEMMA TakeHead ==
  ASSUME NEW q \in Seq(Message), q # <<>>, NEW F, NEW A, NEW n \in Nat,
         QueueInForce(q, F), QueueInOrder(q, A, n),
         NEW G, NEW B,
         G = IF Head(q).kind = "run" THEN {Head(q).config} ELSE F,
         B = IF Head(q).kind = "s" THEN {Head(q).reading.at} ELSE {}
  PROVE  /\ \A i \in 1..(Len(Tail(q)) + 1), c \in Config :
              InForce(q, F, i + 1, c) => InForce(Tail(q), G, i, c)
         /\ Len(Tail(q)) + 1 = Len(q)
         /\ QueueInForce(Tail(q), G)
         /\ QueueInOrder(Tail(q), A \cup B, n)
         /\ QueueAts(q) = B \cup QueueAts(Tail(q))
         /\ B \subseteq 1..n /\ Below(A, B)
         /\ Head(q).kind = "s" => Head(q).reading.config \in F
<1> DEFINE t == Tail(q)
           h == Head(q)
<1>1. /\ h = q[1] /\ h \in Message /\ t \in Seq(Message)
      /\ Len(t) \in Nat /\ Len(t) + 1 = Len(q)
      /\ \A i \in 1..Len(t) : t[i] = q[i + 1] /\ t[i] \in Message
  OBVIOUS
<1>2. \A x \in Message : x.kind = "s" => x.reading.config \in Config
  BY DEF Message, Reading
<1>3. \A x \in Message : x.kind = "run" => x.kind # "s"
  OBVIOUS
<1> HIDE DEF t, h
<1>4. ASSUME NEW i \in 1..(Len(t) + 1), NEW c \in Config, InForce(q, F, i + 1, c)
      PROVE  InForce(t, G, i, c)
  <2>1. CASE \A k \in 1..i : q[k].kind # "run"
    <3>1. c \in F
      BY <1>1, <1>4, <2>1 DEF InForce
    <3>2. 1 \in 1..i /\ \A k \in 1..(i - 1) : k + 1 \in 1..i /\ t[k] = q[k + 1]
      BY <1>1
    <3>3. G = F
      BY <1>1, <2>1, <3>2 DEF h
    <3>4. \A k \in 1..(i - 1) : t[k].kind # "run"
      BY <2>1, <3>2
    <3> QED
      BY <3>1, <3>3, <3>4 DEF InForce
  <2>2. CASE \E k \in 1..i : q[k].kind = "run"
    <3>1. PICK k \in 1..i : /\ q[k].kind = "run" /\ q[k].config = c
                            /\ \A l \in (k + 1)..i : q[l].kind # "run"
      BY <1>4, <2>2 DEF InForce
    <3>2. CASE k = 1
      <4>1. c \in G /\ \A l \in 1..(i - 1) : t[l].kind # "run"
        BY <1>1, <3>1, <3>2 DEF h
      <4> QED
        BY <4>1 DEF InForce
    <3>3. CASE k > 1
      <4>1. /\ k - 1 \in 1..(i - 1) /\ t[k - 1].kind = "run" /\ t[k - 1].config = c
            /\ \A l \in k..(i - 1) : t[l].kind # "run"
        BY <1>1, <3>1, <3>3
      <4> QED
        BY <4>1 DEF InForce
    <3> QED
      BY <3>2, <3>3
  <2> QED
    BY <2>1, <2>2
<1>5. QueueInForce(t, G)
  <2> SUFFICES ASSUME NEW i \in 1..Len(t), t[i].kind = "s"
               PROVE  InForce(t, G, i, t[i].reading.config)
    BY DEF QueueInForce
  <2>1. InForce(q, F, i + 1, t[i].reading.config)
    BY <1>1 DEF QueueInForce
  <2>2. t[i].reading.config \in Config /\ i \in 1..(Len(t) + 1)
    BY <1>1, <1>2
  <2> QED
    BY <1>4, <2>1, <2>2
<1>6. QueueInOrder(t, A \cup B, n)
  <2> SUFFICES ASSUME NEW i \in 1..Len(t), t[i].kind = "s"
               PROVE  /\ t[i].reading.at \in 1..n
                      /\ \A a \in A \cup B : a < t[i].reading.at
                      /\ \A j \in 1..(i - 1) : t[j].kind = "s" => t[j].reading.at < t[i].reading.at
    BY DEF QueueInOrder
  <2>1. /\ q[i + 1].kind = "s" /\ q[i + 1] = t[i] /\ i + 1 \in 1..Len(q)
        /\ \A j \in 1..(i - 1) : t[j] = q[j + 1] /\ j + 1 \in 1..i
    BY <1>1
  <2>2. /\ t[i].reading.at \in 1..n
        /\ \A a \in A : a < t[i].reading.at
        /\ \A j \in 1..i : q[j].kind = "s" => q[j].reading.at < t[i].reading.at
    BY <2>1 DEF QueueInOrder
  <2>3. \A a \in B : a < t[i].reading.at
    BY <1>1, <2>2 DEF h
  <2> QED
    BY <2>1, <2>2, <2>3
<1>7. QueueAts(q) = B \cup QueueAts(t)
  <2>1. ASSUME NEW k \in 1..Len(q), q[k].kind = "s"
        PROVE  q[k].reading.at \in B \cup QueueAts(t)
    <3>1. CASE k = 1
      BY <1>1, <2>1, <3>1 DEF h
    <3>2. CASE k > 1
      <4>1. k - 1 \in 1..Len(t) /\ t[k - 1] = q[k]
        BY <1>1, <3>2
      <4> QED
        BY <2>1, <4>1 DEF QueueAts
    <3> QED
      BY <3>1, <3>2
  <2>2. QueueAts(q) \subseteq B \cup QueueAts(t)
    BY <2>1 DEF QueueAts
  <2>3. B \subseteq QueueAts(q)
    BY <1>1 DEF QueueAts, h
  <2>4. QueueAts(t) \subseteq QueueAts(q)
    BY <1>1 DEF QueueAts
  <2> QED
    BY <2>2, <2>3, <2>4
<1>8. B \subseteq 1..n /\ Below(A, B)
  BY <1>1 DEF QueueInOrder, Below, h
<1>9. h.kind = "s" => h.reading.config \in F
  BY <1>1, <1>3 DEF QueueInForce, InForce
<1> QED
  BY <1>1, <1>4, <1>5, <1>6, <1>7, <1>8, <1>9 DEF t, h

ThreadTypes ==
  /\ writer \in {"running", "ended", "dead"} /\ job \in Message \cup {None}
  /\ pending \in Seq(Row) /\ Len(pending) <= Chunk
  /\ run \in Nat /\ prov \in Versions \cup {None} /\ seen \in BOOLEAN
  /\ noted \in Versions \cup {None}
  /\ disk \in [runs : Seq(Run), rows : Seq(Row), notes : Seq(Nat)]

LEMMA PopInv == ASSUME RInv, Pop PROVE RInv'
<1> DEFINE h == Head(queue)
           B == IF h.kind = "s" THEN {h.reading.at} ELSE {}
           G == IF h.kind = "run" THEN {h.config} ELSE Front
<1>1. /\ queue \in Seq(Message) /\ queue # <<>> /\ QueueInForce(queue, Front)
      /\ QueueInOrder(queue, Ahead, taken) /\ taken \in Nat
  BY DEF RInv, TypeOK, Pop
<1>2. /\ \A i \in 1..(Len(Tail(queue)) + 1), c \in Config :
              InForce(queue, Front, i + 1, c) => InForce(Tail(queue), G, i, c)
      /\ Len(Tail(queue)) + 1 = Len(queue)
      /\ QueueInForce(Tail(queue), G)
      /\ QueueInOrder(Tail(queue), Ahead \cup B, taken)
      /\ QueueAts(queue) = B \cup QueueAts(Tail(queue))
      /\ B \subseteq 1..taken /\ Below(Ahead, B)
      /\ h.kind = "s" => h.reading.config \in Front
  BY <1>1, TakeHead
<1>3. h \in Message /\ h # None /\ Len(queue) \in Nat \ {0} /\ Tail(queue) \in Seq(Message)
  BY <1>1, MessageAssumption
<1>4. /\ job = None /\ job' = h /\ queue' = Tail(queue) /\ Len(pending) < Chunk
      /\ UNCHANGED <<pc, mode, wanted, meta, anchor, stopping, writer, pending, run, prov, seen,
                     noted, disk, epoch, taken, kept, changes>>
  BY DEF Pop, poll, ghosts
<1>5. Front' = G
  BY <1>3, <1>4 DEF Front, AtFront
<1>6. Ahead' = Ahead \cup B /\ JobAts(job) = {} /\ JobAts(job') = B
  BY <1>3, <1>4 DEF Ahead, JobAts
<1>7. Front = IF run = 0 THEN {} ELSE {disk.runs[run].config}
  BY <1>4 DEF Front, AtFront
<1>8. TypeOK'
  BY <1>2, <1>3, <1>4 DEF RInv, TypeOK
<1>9. PollInForce'
  <2>1. pc' \in {"resolved", "top", "switched", "clock", "stepped", "cycle"} => meta' \in Versions
    BY <1>4 DEF RInv, PollInForce
  <2>2. ASSUME pc' \in {"top", "clock", "cycle"}
        PROVE  InForce(queue', Front', Len(queue') + 1, Snapshot')
    <3>1. InForce(queue, Front, Len(queue) + 1, Snapshot) /\ Snapshot \in Config
      BY <1>4, <2>2, Before DEF PollInForce
    <3>2. Snapshot' = Snapshot
      BY <1>4 DEF Snapshot
    <3>3. Len(Tail(queue)) + 1 \in 1..(Len(Tail(queue)) + 1)
          /\ Len(queue) + 1 = (Len(Tail(queue)) + 1) + 1
      BY <1>2, <1>3
    <3>4. InForce(Tail(queue), G, Len(Tail(queue)) + 1, Snapshot)
      <4> HIDE DEF G, B, h
      <4> QED
        BY <1>2, <3>1, <3>3
    <3> QED
      BY <1>4, <1>5, <3>2, <3>4
  <2> QED
    BY <2>1, <2>2 DEF PollInForce
<1>10. QueueInForce(queue', Front') /\ QueueInOrder(queue', Ahead', taken')
  BY <1>2, <1>4, <1>5, <1>6
<1>11. JobInForce'
  BY <1>2, <1>4, <1>7 DEF JobInForce
<1>12. PendingIsOwn' /\ RunIsLast' /\ RowsLabelled'
  BY <1>4 DEF RInv, PendingIsOwn, RunIsLast, RowsLabelled
<1>13. AheadInOrder'
  BY <1>2, <1>4, <1>6 DEF RInv, AheadInOrder, Ahead, Below
<1>14. KeptSomewhere'
  BY <1>2, <1>4, <1>6 DEF RInv, KeptSomewhere
<1> QED
  BY <1>8, <1>9, <1>10, <1>11, <1>12, <1>13, <1>14 DEF RInv

\* Past the queue the writer changes what it holds and the disk: the readings
\* ahead of the queue stay the same, and so does what is in force there.
LEMMA WriterLeaves ==
  ASSUME RInv, UNCHANGED <<poll, queue, stopping, ghosts>>, Front' = Front, Ahead' = Ahead,
         ThreadTypes', JobInForce', PendingIsOwn', RunIsLast', RowsLabelled',
         Sorted(disk'.rows), Sorted(pending'), Below(AtsOf(disk'.rows), AtsOf(pending')),
         Below(AtsOf(disk'.rows) \cup AtsOf(pending'), JobAts(job'))
  PROVE  RInv'
<1>1. TypeOK'
  BY DEF RInv, TypeOK, ThreadTypes, poll, ghosts
<1>2. PollInForce' /\ QueueInForce(queue', Front') /\ QueueInOrder(queue', Ahead', taken')
  BY DEF RInv, PollInForce, poll, ghosts, Snapshot
<1>3. AheadInOrder' /\ KeptSomewhere'
  BY DEF RInv, AheadInOrder, KeptSomewhere, ghosts
<1> QED
  BY <1>1, <1>2, <1>3 DEF RInv

\* What the steps of the writer start from.
LEMMA WriterBefore ==
  ASSUME RInv
  PROVE  /\ ThreadTypes /\ JobInForce /\ PendingIsOwn /\ RunIsLast /\ RowsLabelled
         /\ Sorted(disk.rows) /\ Sorted(pending) /\ Below(AtsOf(disk.rows), AtsOf(pending))
         /\ Below(AtsOf(disk.rows) \cup AtsOf(pending), JobAts(job))
         /\ disk.runs \in Seq(Run) /\ disk.rows \in Seq(Row) /\ disk.notes \in Seq(Nat)
BY DEF RInv, TypeOK, ThreadTypes, AheadInOrder

\* A run keeps the rest when it is labelled or ended.
LEMMA RunFields ==
  ASSUME NEW x \in Run, NEW v \in Versions \cup {None}
  PROVE  /\ [x EXCEPT !.channel = v] \in Run /\ [x EXCEPT !.channel = v].channel = v
         /\ [x EXCEPT !.channel = v].config = x.config
         /\ [x EXCEPT !.channel = v].ended = x.ended
         /\ [x EXCEPT !.ended = TRUE] \in Run /\ [x EXCEPT !.ended = TRUE].channel = x.channel
         /\ [x EXCEPT !.ended = TRUE].config = x.config
         /\ [x EXCEPT !.ended = TRUE].ended = TRUE
<1>1. DOMAIN x = {"config", "ended", "epoch", "channel"}
  BY DEF Run
<1>2. [x EXCEPT !.channel = v].channel = v /\ [x EXCEPT !.channel = v].config = x.config
      /\ [x EXCEPT !.channel = v].ended = x.ended
  BY <1>1, Zenon
<1>3. [x EXCEPT !.ended = TRUE].channel = x.channel /\ [x EXCEPT !.ended = TRUE].config = x.config
      /\ [x EXCEPT !.ended = TRUE].ended = TRUE
  BY <1>1, Zenon
<1>4. [x EXCEPT !.channel = v] \in Run
  BY DEF Run
<1>5. [x EXCEPT !.ended = TRUE] \in Run
  BY Zenon DEF Run
<1> QED
  BY <1>2, <1>3, <1>4, <1>5, Zenon

\* A commit labels the open run, and only it.
LEMMA CommittedRuns ==
  ASSUME RInv
  PROVE  /\ Committed \in Seq(Run) /\ Len(Committed) = Len(disk.runs)
         /\ \A i \in 1..Len(disk.runs) :
              /\ Committed[i].config = disk.runs[i].config
              /\ Committed[i].ended = disk.runs[i].ended
              /\ Committed[i].channel = IF noted # None /\ i = run THEN prov
                                        ELSE disk.runs[i].channel
<1>1. /\ disk.runs \in Seq(Run) /\ run \in Nat /\ noted \in Versions \cup {None}
      /\ noted # None => run \in 1..Len(disk.runs) /\ noted = prov
  BY WriterBefore DEF ThreadTypes, RunIsLast
<1>2. CASE noted = None
  BY <1>1, <1>2 DEF Committed
<1>3. CASE noted # None
  <2>1. Committed = [disk.runs EXCEPT ![run] = [disk.runs[run] EXCEPT !.channel = noted]]
    BY <1>3 DEF Committed
  <2> DEFINE x == [disk.runs[run] EXCEPT !.channel = noted]
  <2>2. disk.runs[run] \in Run
    BY <1>1, <1>3
  <2>3. /\ x \in Run /\ x.channel = prov /\ x.config = disk.runs[run].config
        /\ x.ended = disk.runs[run].ended
    BY <1>1, <1>3, <2>2, RunFields, Zenon
  <2> HIDE DEF x
  <2> QED
    BY <1>1, <1>3, <2>1, <2>3 DEF x
<1> QED
  BY <1>2, <1>3

\* Ending the open run changes nothing else.
LEMMA ClosedRuns ==
  ASSUME RInv
  PROVE  /\ Closed(Committed) \in Seq(Run) /\ Len(Closed(Committed)) = Len(disk.runs)
         /\ \A i \in 1..Len(disk.runs) :
              /\ Closed(Committed)[i].config = disk.runs[i].config
              /\ Closed(Committed)[i].channel = Committed[i].channel
              /\ i # run => Closed(Committed)[i].ended = disk.runs[i].ended
              /\ i = run => Closed(Committed)[i].ended = TRUE
<1> DEFINE c == Committed
<1>1. /\ c \in Seq(Run) /\ Len(c) = Len(disk.runs) /\ run \in Nat
      /\ run # 0 => run \in 1..Len(c)
      /\ \A i \in 1..Len(disk.runs) : c[i].config = disk.runs[i].config /\ c[i].ended = disk.runs[i].ended
  BY CommittedRuns, WriterBefore DEF ThreadTypes, RunIsLast
<1> HIDE DEF c
<1>2. CASE run = 0
  BY <1>1, <1>2 DEF Closed, c
<1>3. CASE run # 0
  <2> DEFINE x == [c[run] EXCEPT !.ended = TRUE]
             d == Closed(c)
  <2>1. d = [c EXCEPT ![run] = x]
    BY <1>3 DEF Closed
  <2>2. c[run] \in Run /\ None \in Versions \cup {None}
    BY <1>1, <1>3
  <2>3. /\ x \in Run /\ x.channel = c[run].channel /\ x.config = c[run].config
        /\ x.ended = TRUE
    BY <2>2, RunFields, Zenon
  <2> HIDE DEF x, d
  <2>4. d \in Seq(Run) /\ Len(d) = Len(disk.runs)
        /\ \A i \in 1..Len(disk.runs) : d[i] = IF i = run THEN x ELSE c[i]
    BY <1>1, <1>3, <2>1, <2>3
  <2>5. \A i \in 1..Len(disk.runs) :
           /\ d[i].config = disk.runs[i].config
           /\ d[i].channel = c[i].channel
           /\ i # run => d[i].ended = disk.runs[i].ended
           /\ i = run => d[i].ended = TRUE
    BY <1>1, <2>3, <2>4, Zenon
  <2> QED
    BY <2>4, <2>5 DEF c, d
<1> QED
  BY <1>2, <1>3

\* The committed rows keep their labels through a commit: the open run gets the
\* label its configuration has.
LEMMA CommitLabels ==
  ASSUME RInv, NEW i \in 1..Len(disk.rows)
  PROVE  /\ disk.rows[i].run \in 1..Len(disk.runs)
         /\ Committed[disk.rows[i].run].config = disk.rows[i].config
         /\ Committed[disk.rows[i].run].channel = disk.rows[i].config.version
BY CommittedRuns, WriterBefore DEF RowsLabelled, RunIsLast, ThreadTypes

\* The buffer goes to the disk with the label of its run.
LEMMA FlushInv == ASSUME RInv, Flush PROVE RInv'
<1> DEFINE n == Len(disk.rows)
<1>1. /\ UNCHANGED <<poll, queue, stopping, ghosts>>
      /\ UNCHANGED <<writer, job, run, prov, seen>>
      /\ noted' = None /\ pending' = <<>> /\ pending # <<>>
      /\ disk' = [disk EXCEPT !.runs = Committed, !.rows = @ \o pending]
      /\ job = None \/ job.kind \in {"run", "stop"}
  BY DEF Flush, FlushDue
<1>2. /\ disk.runs \in Seq(Run) /\ disk.rows \in Seq(Row) /\ pending \in Seq(Row)
      /\ n \in Nat /\ Len(pending) \in Nat \ {0}
  BY <1>1, WriterBefore DEF ThreadTypes
<1>3. /\ disk'.runs = Committed /\ disk'.rows = disk.rows \o pending
      /\ disk'.notes = disk.notes
  BY <1>1, WriterBefore DEF ThreadTypes
<1>4. /\ Len(disk'.rows) = n + Len(pending) /\ disk'.rows \in Seq(Row)
      /\ \A i \in 1..n : disk'.rows[i] = disk.rows[i]
      /\ \A i \in 1..Len(pending) : disk'.rows[n + i] = pending[i]
      /\ \A i \in (n + 1)..(n + Len(pending)) : disk'.rows[i] = pending[i - n]
      /\ \A i \in 1..(n + Len(pending)) : i \in 1..n \/ (i - n \in 1..Len(pending) /\ i = n + (i - n))
  BY <1>2, <1>3
<1>5. /\ Committed \in Seq(Run) /\ Len(Committed) = Len(disk.runs)
      /\ \A i \in 1..Len(disk.runs) : Committed[i].config = disk.runs[i].config
  BY CommittedRuns
<1>6. run # 0 /\ seen /\ run \in 1..Len(disk.runs) /\ prov = disk.runs[run].config.version
      /\ Committed[run].channel = prov
  <2>1. run # 0 /\ seen
    BY <1>2, WriterBefore DEF PendingIsOwn
  <2>2. run \in 1..Len(disk.runs) /\ prov = disk.runs[run].config.version
    BY <1>2, <2>1, WriterBefore DEF RunIsLast, ThreadTypes
  <2>3. noted = prov \/ (noted = None /\ disk.runs[run].channel = prov)
    BY <2>1, WriterBefore, Zenon DEF RunIsLast
  <2>4. Committed[run].channel = IF noted # None /\ run = run THEN prov
                                 ELSE disk.runs[run].channel
    BY <2>2, CommittedRuns, Zenon
  <2>5. prov # None
    <3>1. disk.runs[run] \in Run
      BY <1>2, <2>2
    <3> QED
      BY <2>2, <3>1, NoneAssumption DEF Run, Config
  <2> QED
    BY <2>1, <2>2, <2>3, <2>4, <2>5
<1> HIDE DEF n
<1>7. ThreadTypes'
  <2>1. disk' \in [runs : Seq(Run), rows : Seq(Row), notes : Seq(Nat)]
    BY <1>1, <1>3, <1>4, <1>5, WriterBefore DEF ThreadTypes
  <2>2. pending' \in Seq(Row) /\ Len(pending') <= Chunk
    BY <1>1, CapAssumption
  <2> QED
    BY <1>1, <2>1, <2>2, WriterBefore DEF ThreadTypes
<1>8. JobInForce' /\ PendingIsOwn' /\ RunIsLast'
  <2>1. Len(pending') = 0
    BY <1>1
  <2>2. JobInForce' /\ PendingIsOwn'
    BY <1>1, <2>1, CapAssumption DEF JobInForce, PendingIsOwn
  <2>3. RunIsLast'
    BY <1>1, <1>3, <1>5, <1>6, WriterBefore DEF RunIsLast
  <2> QED
    BY <2>2, <2>3
<1>9. RowsLabelled'
  <2> SUFFICES ASSUME NEW i \in 1..Len(disk'.rows)
               PROVE  /\ disk'.rows[i].run \in 1..Len(disk.runs)
                      /\ Committed[disk'.rows[i].run].config = disk'.rows[i].config
                      /\ Committed[disk'.rows[i].run].channel = disk'.rows[i].config.version
    BY <1>3, <1>5 DEF RowsLabelled
  <2>1. CASE i \in 1..n
    BY <1>4, <2>1, CommitLabels DEF n
  <2>2. CASE i - n \in 1..Len(pending) /\ i = n + (i - n)
    <3>1. disk'.rows[i] = pending[i - n]
      BY <1>4, <2>2
    <3>2. pending[i - n].run = run /\ pending[i - n].config = disk.runs[run].config
      BY <2>2, WriterBefore DEF PendingIsOwn
    <3> QED
      BY <1>5, <1>6, <3>1, <3>2
  <2> QED
    BY <1>4, <2>1, <2>2
<1>10. /\ AtsOf(disk'.rows) = AtsOf(disk.rows) \cup AtsOf(pending)
       /\ AtsOf(pending') = {} /\ JobAts(job) = {} /\ JobAts(job') = {}
  <2>1. AtsOf(disk'.rows) = AtsOf(disk.rows) \cup AtsOf(pending)
    <3>1. n = Len(disk.rows) /\ n \in Nat
      BY <1>2 DEF n
    <3>2. \A i \in 1..n : i \in 1..(n + Len(pending))
      BY <1>2, <3>1
    <3>3. \A i \in 1..Len(pending) : n + i \in 1..(n + Len(pending))
      BY <1>2, <3>1
    <3>4. ASSUME NEW a \in AtsOf(disk'.rows) PROVE a \in AtsOf(disk.rows) \cup AtsOf(pending)
      <4>1. PICK i \in 1..(n + Len(pending)) : a = disk'.rows[i].at
        BY <1>4 DEF AtsOf
      <4>2. CASE i \in 1..n
        BY <1>4, <3>1, <4>1, <4>2 DEF AtsOf
      <4>3. CASE i - n \in 1..Len(pending) /\ i = n + (i - n)
        BY <1>4, <4>1, <4>3 DEF AtsOf
      <4> QED
        BY <1>4, <4>2, <4>3
    <3>5. ASSUME NEW a \in AtsOf(disk.rows) PROVE a \in AtsOf(disk'.rows)
      BY <1>4, <3>1, <3>2 DEF AtsOf
    <3>6. ASSUME NEW a \in AtsOf(pending) PROVE a \in AtsOf(disk'.rows)
      BY <1>4, <3>3 DEF AtsOf
    <3> QED
      BY <3>4, <3>5, <3>6
  <2>2. AtsOf(pending') = {}
    BY <1>1 DEF AtsOf
  <2>3. JobAts(job) = {} /\ JobAts(job') = {}
    BY <1>1 DEF JobAts
  <2> QED
    BY <2>1, <2>2, <2>3
<1>11. Ahead' = Ahead /\ Front' = Front
  <2>1. Ahead' = Ahead
    BY <1>1, <1>10 DEF Ahead
  <2>2. disk'.runs[run].config = disk.runs[run].config
    BY <1>3, <1>5, <1>6
  <2> QED
    BY <1>1, <2>1, <2>2 DEF Front, AtFront
<1>12. Sorted(disk'.rows)
  <2> SUFFICES ASSUME NEW i \in 1..(n + Len(pending)), NEW j \in 1..(n + Len(pending)), i < j
               PROVE  disk'.rows[i].at < disk'.rows[j].at
    BY <1>4 DEF Sorted
  <2>0. n = Len(disk.rows) /\ n \in Nat
    BY <1>2 DEF n
  <2>1. CASE i \in 1..n /\ j \in 1..n
    BY <1>4, <2>0, <2>1, WriterBefore DEF Sorted
  <2>2. CASE i \in 1..n /\ j - n \in 1..Len(pending)
    <3>1. disk.rows[i].at \in AtsOf(disk.rows) /\ pending[j - n].at \in AtsOf(pending)
      BY <2>0, <2>2 DEF AtsOf
    <3>2. j \in (n + 1)..(n + Len(pending))
      BY <1>2, <2>0, <2>2
    <3>3. disk'.rows[i] = disk.rows[i] /\ disk'.rows[j] = pending[j - n]
      BY <1>4, <2>2, <3>2
    <3> QED
      BY <3>1, <3>3, WriterBefore DEF Below
  <2>3. CASE i - n \in 1..Len(pending) /\ j - n \in 1..Len(pending)
    <3>1. i \in (n + 1)..(n + Len(pending)) /\ j \in (n + 1)..(n + Len(pending)) /\ i - n < j - n
      BY <1>2, <2>0, <2>3
    <3>2. disk'.rows[i] = pending[i - n] /\ disk'.rows[j] = pending[j - n]
      BY <1>4, <3>1
    <3> QED
      BY <2>3, <3>1, <3>2, WriterBefore DEF Sorted
  <2> QED
    BY <1>2, <2>0, <2>1, <2>2, <2>3
<1>13. Sorted(pending') /\ Below(AtsOf(disk'.rows), AtsOf(pending'))
       /\ Below(AtsOf(disk'.rows) \cup AtsOf(pending'), JobAts(job'))
  <2>1. Len(pending') = 0
    BY <1>1
  <2> QED
    BY <1>10, <2>1 DEF Sorted, Below
<1> QED
  BY <1>1, <1>7, <1>8, <1>9, <1>11, <1>12, <1>13, WriterLeaves

\* A new run has no rows; the one before it is labelled and ended.
LEMMA BeginRunInv == ASSUME RInv, BeginRun PROVE RInv'
<1> DEFINE c == Closed(Committed)
           r == [config |-> job.config, ended |-> FALSE, epoch |-> job.epoch, channel |-> None]
           n == Len(disk.runs)
<1>1. /\ UNCHANGED <<poll, queue, stopping, ghosts>>
      /\ UNCHANGED <<writer, pending>>
      /\ job # None /\ job.kind = "run" /\ pending = <<>>
      /\ disk' = [disk EXCEPT !.runs = Append(c, r)]
      /\ run' = n + 1 /\ prov' = job.config.version /\ noted' = None /\ job' = None
  BY DEF BeginRun
<1>2. ~seen' /\ seen' \in BOOLEAN
  BY Zenon DEF BeginRun
<1>3. job \in Message /\ job.config \in Config /\ job.epoch \in Nat /\ job.config.version \in Versions
  <2>1. job \in Message
    BY <1>1, WriterBefore DEF ThreadTypes
  <2> QED
    BY <1>1, <2>1 DEF Message, Config
<1>4. r \in Run /\ r.config = job.config
  <2>1. FALSE \in BOOLEAN
    OBVIOUS
  <2>2. None \in Versions \cup {None}
    OBVIOUS
  <2> QED
    BY <1>3, <2>1, <2>2, Zenon DEF Run
<1>5. c \in Seq(Run) /\ Len(c) = n /\ \A i \in 1..n : c[i].config = disk.runs[i].config
  BY ClosedRuns
<1>6. n \in Nat /\ disk.rows \in Seq(Row)
  BY WriterBefore
<1> HIDE DEF c, r, n
<1>7. /\ disk'.runs = Append(c, r) /\ disk'.rows = disk.rows /\ disk'.notes = disk.notes
      /\ disk' \in [runs : Seq(Run), rows : Seq(Row), notes : Seq(Nat)]
  <2>1. Append(c, r) \in Seq(Run)
    BY <1>4, <1>5
  <2>2. disk \in [runs : Seq(Run), rows : Seq(Row), notes : Seq(Nat)]
    BY WriterBefore, Zenon DEF ThreadTypes
  <2> QED
    BY <1>1, <2>1, <2>2
<1>8. /\ Append(c, r) \in Seq(Run) /\ Len(Append(c, r)) = n + 1 /\ Append(c, r)[n + 1] = r
      /\ \A i \in 1..n : Append(c, r)[i] = c[i]
  BY <1>4, <1>5
<1>9. ThreadTypes'
  BY <1>1, <1>2, <1>3, <1>6, <1>7, WriterBefore DEF ThreadTypes
<1>10. JobInForce' /\ PendingIsOwn'
  <2>1. Len(pending') = 0
    BY <1>1
  <2> QED
    BY <1>1, <2>1, CapAssumption DEF JobInForce, PendingIsOwn
<1>11. RunIsLast'
  BY <1>1, <1>2, <1>4, <1>7, <1>8 DEF RunIsLast
<1>12. RowsLabelled'
  <2> SUFFICES ASSUME NEW i \in 1..Len(disk.rows)
               PROVE  /\ disk.rows[i].run \in 1..(n + 1)
                      /\ Append(c, r)[disk.rows[i].run].config = disk.rows[i].config
                      /\ Append(c, r)[disk.rows[i].run].channel = disk.rows[i].config.version
    BY <1>7, <1>8 DEF RowsLabelled
  <2>1. /\ disk.rows[i].run \in 1..n
        /\ Committed[disk.rows[i].run].config = disk.rows[i].config
        /\ Committed[disk.rows[i].run].channel = disk.rows[i].config.version
    BY CommitLabels DEF n
  <2>2. c[disk.rows[i].run].config = disk.runs[disk.rows[i].run].config
        /\ c[disk.rows[i].run].channel = Committed[disk.rows[i].run].channel
    BY <2>1, ClosedRuns, Zenon DEF c, n
  <2>3. Committed[disk.rows[i].run].config = disk.runs[disk.rows[i].run].config
    BY <2>1, CommittedRuns, Zenon DEF n
  <2> QED
    BY <1>6, <1>8, <2>1, <2>2, <2>3
<1>13. JobAts(job) = {} /\ JobAts(job') = {}
  BY <1>1 DEF JobAts
<1>14. Ahead' = Ahead /\ Front' = Front
  <2>1. Ahead' = Ahead
    BY <1>1, <1>7, <1>13 DEF Ahead
  <2>2. Front = {job.config} /\ Front' = {r.config}
    BY <1>1, <1>6, <1>7, <1>8 DEF Front, AtFront
  <2> QED
    BY <1>4, <2>1, <2>2
<1>15. /\ Sorted(disk'.rows) /\ Sorted(pending') /\ Below(AtsOf(disk'.rows), AtsOf(pending'))
       /\ Below(AtsOf(disk'.rows) \cup AtsOf(pending'), JobAts(job'))
  BY <1>1, <1>7, <1>13, WriterBefore DEF Below
<1> QED
  BY <1>1, <1>9, <1>10, <1>11, <1>12, <1>14, <1>15, WriterLeaves

\* A sample joins the buffer behind what was read before it.
LEMMA BufferInv == ASSUME RInv, Buffer PROVE RInv'
<1> DEFINE row == [run |-> run, at |-> job.reading.at, config |-> job.reading.config,
                   epoch |-> job.reading.epoch]
           n == Len(pending)
<1>1. /\ UNCHANGED <<poll, queue, stopping, ghosts>>
      /\ UNCHANGED <<writer, run, prov, disk>>
      /\ job # None /\ job.kind = "s" /\ run # 0 /\ job' = None
      /\ pending' = Append(pending, row)
  BY DEF Buffer
<1>2. seen' /\ seen' \in BOOLEAN
  BY Zenon DEF Buffer
<1>3. noted' = Label
  BY DEF Buffer
<1>4. job.reading \in Reading /\ row \in Row /\ job.reading.config = disk.runs[run].config
      /\ n < Chunk /\ n \in Nat /\ pending \in Seq(Row)
  <2>1. job \in Message /\ run \in Nat /\ pending \in Seq(Row)
    BY <1>1, WriterBefore DEF ThreadTypes
  <2>2. job.reading \in Reading
    BY <1>1, <2>1 DEF Message
  <2> QED
    BY <1>1, <2>1, <2>2, WriterBefore DEF JobInForce, Reading, Row
<1>5. row.run = run /\ row.at = job.reading.at /\ row.config = job.reading.config
  OBVIOUS
<1> HIDE DEF row, n
<1>6. /\ pending' \in Seq(Row) /\ Len(pending') = n + 1 /\ pending'[n + 1] = row
      /\ \A i \in 1..n : pending'[i] = pending[i]
  BY <1>1, <1>4 DEF n
<1>7. (noted' = prov \/ (noted' = None /\ disk.runs[run].channel = prov))
      /\ noted' \in Versions \cup {None}
  BY <1>3, WriterBefore, Zenon DEF Label, RunIsLast, ThreadTypes
<1>8. ThreadTypes'
  BY <1>1, <1>2, <1>4, <1>6, <1>7, CapAssumption, WriterBefore DEF ThreadTypes
<1>9. JobInForce' /\ RowsLabelled'
  BY <1>1, WriterBefore DEF JobInForce, RowsLabelled
<1>10. PendingIsOwn'
  <2> SUFFICES ASSUME NEW i \in 1..(n + 1)
               PROVE  pending'[i].run = run /\ pending'[i].config = disk.runs[run].config
    BY <1>1, <1>2, <1>6 DEF PendingIsOwn
  <2>1. CASE i \in 1..n
    BY <1>6, <2>1, WriterBefore DEF PendingIsOwn, n
  <2>2. CASE i = n + 1
    BY <1>4, <1>5, <1>6, <2>2
  <2> QED
    BY <1>4, <2>1, <2>2
<1>11. RunIsLast'
  BY <1>1, <1>2, <1>7, WriterBefore DEF RunIsLast
<1>12. /\ JobAts(job) = {row.at} /\ JobAts(job') = {}
       /\ AtsOf(pending') = AtsOf(pending) \cup {row.at}
  <2>1. JobAts(job) = {row.at} /\ JobAts(job') = {}
    BY <1>1, <1>5 DEF JobAts
  <2>2. AtsOf(pending') = {pending'[i].at : i \in 1..(n + 1)}
        /\ AtsOf(pending) = {pending[i].at : i \in 1..n}
    BY <1>6 DEF AtsOf, n
  <2> QED
    BY <1>4, <1>6, <2>1, <2>2
<1>13. Ahead' = Ahead /\ Front' = Front
  <2>1. Ahead' = Ahead
    BY <1>1, <1>12 DEF Ahead
  <2> QED
    BY <1>1, <2>1 DEF Front, AtFront
<1>14. Sorted(pending')
  <2> SUFFICES ASSUME NEW i \in 1..(n + 1), NEW j \in 1..(n + 1), i < j
               PROVE  pending'[i].at < pending'[j].at
    BY <1>6 DEF Sorted
  <2>1. CASE j \in 1..n
    <3>1. i \in 1..n /\ pending'[i] = pending[i] /\ pending'[j] = pending[j]
      BY <1>4, <1>6, <2>1
    <3>2. Sorted(pending)
      BY WriterBefore
    <3> QED
      BY <2>1, <3>1, <3>2 DEF Sorted, n
  <2>2. CASE j = n + 1
    <3>1. i \in 1..n /\ pending[i].at \in AtsOf(pending)
      BY <1>4, <2>2 DEF AtsOf, n
    <3> QED
      BY <1>6, <1>12, <2>2, <3>1, WriterBefore DEF Below
  <2> QED
    BY <1>4, <2>1, <2>2
<1>15. /\ Sorted(disk'.rows) /\ Below(AtsOf(disk'.rows), AtsOf(pending'))
       /\ Below(AtsOf(disk'.rows) \cup AtsOf(pending'), JobAts(job'))
  BY <1>1, <1>12, WriterBefore DEF Below
<1> QED
  BY <1>1, <1>8, <1>9, <1>10, <1>11, <1>13, <1>14, <1>15, WriterLeaves

\* A commit between flushes labels the open run, and leaves the rows.
LEMMA CommitOnlyInv ==
  ASSUME RInv, UNCHANGED <<poll, queue, stopping, ghosts, pending, run, prov, seen>>,
         writer' \in {"running", "ended", "dead"},
         NEW runs \in Seq(Run), disk'.runs = runs, disk'.rows = disk.rows,
         disk' \in [runs : Seq(Run), rows : Seq(Row), notes : Seq(Nat)],
         Len(runs) = Len(disk.runs),
         \A i \in 1..Len(runs) : /\ runs[i].config = disk.runs[i].config
                                 /\ runs[i].channel = Committed[i].channel,
         noted' = None, job' = None, job # None, job.kind \notin {"run", "s"}
  PROVE  RInv'
<1>1. ThreadTypes'
  BY WriterBefore DEF ThreadTypes
<1>2. JobInForce'
  BY DEF JobInForce
<1>3. run # 0 => run \in 1..Len(runs)
  BY WriterBefore DEF RunIsLast, ThreadTypes
<1>4. PendingIsOwn'
  BY <1>3, WriterBefore DEF PendingIsOwn
<1>5. RunIsLast'
  <2>1. run # 0 => run = Len(runs) /\ prov = runs[run].config.version
    BY <1>3, WriterBefore DEF RunIsLast
  <2>2. ASSUME seen PROVE run # 0 /\ runs[run].channel = prov
    <3>1. run # 0 /\ (noted = prov \/ (noted = None /\ disk.runs[run].channel = prov))
      BY <2>2, WriterBefore, Zenon DEF RunIsLast
    <3>2. runs[run].channel = IF noted # None /\ run = run THEN prov ELSE disk.runs[run].channel
      BY <1>3, <3>1, CommittedRuns, Zenon
    <3>3. prov # None
      <4>1. runs[run] \in Run
        BY <1>3, <3>1
      <4> QED
        BY <2>1, <3>1, <4>1, NoneAssumption DEF Run, Config
    <3> QED
      BY <3>1, <3>2, <3>3
  <2> QED
    BY <2>1, <2>2 DEF RunIsLast
<1>6. RowsLabelled'
  <2> SUFFICES ASSUME NEW i \in 1..Len(disk.rows)
               PROVE  /\ disk.rows[i].run \in 1..Len(runs)
                      /\ runs[disk.rows[i].run].config = disk.rows[i].config
                      /\ runs[disk.rows[i].run].channel = disk.rows[i].config.version
    BY DEF RowsLabelled
  <2>1. /\ disk.rows[i].run \in 1..Len(runs)
        /\ Committed[disk.rows[i].run].channel = disk.rows[i].config.version
    BY CommitLabels
  <2>2. disk.runs[disk.rows[i].run].config = disk.rows[i].config
    BY WriterBefore DEF RowsLabelled
  <2> QED
    BY <2>1, <2>2
<1>7. JobAts(job) = {} /\ JobAts(job') = {}
  BY DEF JobAts
<1>8. Ahead' = Ahead /\ Front' = Front
  BY <1>3, <1>7 DEF Ahead, Front, AtFront
<1>9. /\ Sorted(disk'.rows) /\ Sorted(pending') /\ Below(AtsOf(disk'.rows), AtsOf(pending'))
      /\ Below(AtsOf(disk'.rows) \cup AtsOf(pending'), JobAts(job'))
  BY <1>7, WriterBefore DEF Below
<1> QED
  BY <1>1, <1>2, <1>4, <1>5, <1>6, <1>8, <1>9, WriterLeaves

LEMMA WriteNoteInv == ASSUME RInv, WriteNote PROVE RInv'
<1> DEFINE notes == IF Len(disk.notes) < MaxNotes THEN Append(disk.notes, run) ELSE disk.notes
<1>1. job = Note /\ Note # None /\ Note.kind \notin {"run", "s"}
  BY NoteType, MessageAssumption DEF WriteNote
<1>2. disk' = [disk EXCEPT !.runs = Committed, !.notes = notes] /\ noted' = None /\ job' = None
      /\ UNCHANGED <<poll, queue, stopping, ghosts, pending, run, prov, seen>> /\ writer' = writer
  BY DEF WriteNote
<1>3. notes \in Seq(Nat) /\ writer' \in {"running", "ended", "dead"}
  BY <1>2, WriterBefore DEF ThreadTypes
<1> HIDE DEF notes
<1>4. Committed \in Seq(Run) /\ Len(Committed) = Len(disk.runs)
      /\ \A i \in 1..Len(Committed) : Committed[i].config = disk.runs[i].config
  BY CommittedRuns
<1>5. disk'.runs = Committed /\ disk'.rows = disk.rows
      /\ disk' \in [runs : Seq(Run), rows : Seq(Row), notes : Seq(Nat)]
  BY <1>2, <1>3, <1>4, WriterBefore DEF ThreadTypes
<1> QED
  BY <1>1, <1>2, <1>3, <1>4, <1>5, CommitOnlyInv

LEMMA EndWriterInv == ASSUME RInv, EndWriter PROVE RInv'
<1> DEFINE c == Closed(Committed)
<1>1. job # None /\ job.kind \notin {"run", "s"}
  BY DEF EndWriter
<1>2. disk' = [disk EXCEPT !.runs = c] /\ noted' = None /\ job' = None
      /\ UNCHANGED <<poll, queue, stopping, ghosts, pending, run, prov, seen>>
      /\ writer' \in {"running", "ended", "dead"}
  BY DEF EndWriter
<1>3. /\ c \in Seq(Run) /\ Len(c) = Len(disk.runs)
      /\ \A i \in 1..Len(c) : /\ c[i].config = disk.runs[i].config
                              /\ c[i].channel = Committed[i].channel
  BY ClosedRuns
<1> HIDE DEF c
<1>4. disk'.runs = c /\ disk'.rows = disk.rows
      /\ disk' \in [runs : Seq(Run), rows : Seq(Row), notes : Seq(Nat)]
  BY <1>2, <1>3, WriterBefore DEF ThreadTypes
<1> QED
  BY <1>1, <1>2, <1>3, <1>4, CommitOnlyInv

LEMMA SkipNoteInv == ASSUME RInv, SkipNote PROVE RInv'
<1>1. job = Note /\ Note # None /\ Note.kind \notin {"run", "s"} /\ job' = None
      /\ UNCHANGED <<poll, queue, stopping, ghosts, writer, pending, run, prov, seen, noted, disk>>
  BY NoteType, MessageAssumption DEF SkipNote
<1>2. JobAts(job) = {} /\ JobAts(job') = {}
  BY <1>1 DEF JobAts
<1>3. Ahead' = Ahead /\ Front' = Front
  BY <1>1, <1>2 DEF Ahead, Front, AtFront
<1>4. ThreadTypes'
  BY <1>1, WriterBefore DEF ThreadTypes
<1>5. JobInForce' /\ PendingIsOwn' /\ RunIsLast' /\ RowsLabelled'
  BY <1>1, WriterBefore DEF JobInForce, PendingIsOwn, RunIsLast, RowsLabelled
<1>6. /\ Sorted(disk'.rows) /\ Sorted(pending') /\ Below(AtsOf(disk'.rows), AtsOf(pending'))
      /\ Below(AtsOf(disk'.rows) \cup AtsOf(pending'), JobAts(job'))
  BY <1>1, <1>2, WriterBefore DEF Below
<1> QED
  BY <1>1, <1>3, <1>4, <1>5, <1>6, WriterLeaves

-----------------------------------------------------------------------------
(* The invariant *)

LEMMA RecorderStep == RInv /\ [Next]_vars => RInv'
<1> SUFFICES ASSUME RInv, [Next]_vars PROVE RInv'
  OBVIOUS
<1>1. CASE PollStep
  BY <1>1, ConnectInv, ResolveInv, OpenInv, TakeInv, SwitchInv, LookAtClockInv, RestepInv,
     FailInv, CycleInv DEF PollStep
<1>2. CASE WriterStep
  BY <1>2, PopInv, FlushInv, BeginRunInv, BufferInv, WriteNoteInv, SkipNoteInv, EndWriterInv
     DEF WriterStep
<1>3. CASE WriterDies \/ StepClock \/ Stop \/ Exit \/ Restart \/ \E m \in Modes : RequestMode(m)
  BY <1>3, WriterDiesInv, StepClockInv, StopInv, ExitInv, RestartInv, RequestModeInv
<1>4. CASE UNCHANGED vars
  BY <1>4, StutterInv
<1> QED
  BY <1>1, <1>2, <1>3, <1>4 DEF Next

\* The strengthened invariant: places, labels and order of what waits in the
\* recorder's queue, its writer's hands and its buffer (recorder.py).
THEOREM RecorderInvariant == Spec => []RInv
BY RecorderInitInv, RecorderStep, PTL DEF Spec

\* The recorder's state has the types the code gives it: the queue never holds
\* more than its size, the buffer never more than a chunk.
THEOREM RecorderTypeOK == Spec => []TypeOK
<1>1. RInv => TypeOK
  BY DEF RInv
<1> QED
  BY <1>1, RecorderInvariant, PTL

\* A row is published under the mode and the mapping version it was read with,
\* whatever the poll thread resolved or switched to before it was written.
THEOREM RowsKeepProvenance == Spec => []ProvenanceHolds
<1>1. RInv => ProvenanceHolds
  <2> SUFFICES ASSUME RInv, NEW i \in DOMAIN disk.rows
               PROVE  /\ disk.runs[disk.rows[i].run].config = disk.rows[i].config
                      /\ disk.runs[disk.rows[i].run].channel = disk.rows[i].config.version
    BY DEF ProvenanceHolds
  <2>1. i \in 1..Len(disk.rows)
    BY WriterBefore
  <2> QED
    BY <2>1, WriterBefore DEF RowsLabelled
<1> QED
  BY <1>1, RecorderInvariant, PTL

-----------------------------------------------------------------------------
(* None lost, none twice *)

Vals(s) == {s[i] : i \in 1..Len(s)}
Rising(s) == \A i, j \in 1..Len(s) : i < j /\ s[j] # 0 => s[i] < s[j]

\* Two lines of readings, the second behind the first, make one.
LEMMA RisingConcat ==
  ASSUME NEW s \in Seq(Nat), NEW t \in Seq(Nat), Rising(s), Rising(t),
         \A a \in Vals(s), b \in Vals(t) : b # 0 => a < b
  PROVE  s \o t \in Seq(Nat) /\ Rising(s \o t) /\ Vals(s \o t) = Vals(s) \cup Vals(t)
<1> DEFINE u == s \o t
           n == Len(s)
           m == Len(t)
<1>1. /\ u \in Seq(Nat) /\ Len(u) = n + m /\ n \in Nat /\ m \in Nat
      /\ \A i \in 1..n : u[i] = s[i] /\ u[i] \in Vals(s)
      /\ \A i \in (n + 1)..(n + m) : u[i] = t[i - n] /\ i - n \in 1..m /\ u[i] \in Vals(t)
  BY DEF Vals
<1>2. \A i \in 1..m : n + i \in (n + 1)..(n + m) /\ u[n + i] = t[i]
  <2> SUFFICES ASSUME NEW i \in 1..m PROVE n + i \in (n + 1)..(n + m) /\ u[n + i] = t[i]
    OBVIOUS
  <2>1. n + i \in (n + 1)..(n + m) /\ (n + i) - n = i
    BY <1>1
  <2> QED
    BY <1>1, <2>1
<1> HIDE DEF u, n, m
<1>3. Rising(u)
  <2> SUFFICES ASSUME NEW i \in 1..(n + m), NEW j \in 1..(n + m), i < j, u[j] # 0
               PROVE  u[i] < u[j]
    BY <1>1 DEF Rising
  <2>1. CASE j \in 1..n
    <3>1. i \in 1..n /\ u[i] = s[i] /\ u[j] = s[j]
      BY <1>1, <2>1
    <3> QED
      BY <2>1, <3>1 DEF Rising, n
  <2>2. CASE i \in 1..n /\ j \in (n + 1)..(n + m)
    BY <1>1, <2>2
  <2>3. CASE i \in (n + 1)..(n + m) /\ j \in (n + 1)..(n + m)
    <3>1. i - n < j - n
      BY <1>1, <2>3
    <3> QED
      BY <1>1, <2>3, <3>1 DEF Rising, m
  <2> QED
    BY <1>1, <2>1, <2>2, <2>3
<1>4. Vals(u) = Vals(s) \cup Vals(t)
  <2>1. Vals(u) \subseteq Vals(s) \cup Vals(t)
    <3> SUFFICES ASSUME NEW i \in 1..(n + m) PROVE u[i] \in Vals(s) \cup Vals(t)
      BY <1>1 DEF Vals
    <3>1. i \in 1..n \/ i \in (n + 1)..(n + m)
      BY <1>1
    <3> QED
      BY <1>1, <3>1
  <2>2. Vals(s) \subseteq Vals(u)
    BY <1>1 DEF Vals, n
  <2>3. Vals(t) \subseteq Vals(u)
    <3> SUFFICES ASSUME NEW i \in 1..m PROVE t[i] \in Vals(u)
      BY DEF Vals, m
    <3>1. n + i \in 1..(n + m)
      BY <1>1
    <3> QED
      BY <1>1, <1>2, <3>1 DEF Vals
  <2> QED
    BY <2>1, <2>2, <2>3
<1> QED
  BY <1>1, <1>3, <1>4 DEF u

LEMMA RowsRise ==
  ASSUME NEW s \in Seq(Row), Sorted(s)
  PROVE  Ats(s) \in Seq(Nat) /\ Rising(Ats(s)) /\ Vals(Ats(s)) = AtsOf(s)
<1>1. /\ DOMAIN s = 1..Len(s) /\ Len(s) \in Nat /\ \A i \in 1..Len(s) : s[i].at \in Nat
  <2>1. DOMAIN s = 1..Len(s) /\ Len(s) \in Nat /\ \A i \in 1..Len(s) : s[i] \in Row
    OBVIOUS
  <2>2. \A x \in Row : x.at \in Nat
    BY DEF Row
  <2> QED
    BY <2>1, <2>2
<1>2. Ats(s) \in Seq(Nat) /\ Len(Ats(s)) = Len(s) /\ \A i \in 1..Len(s) : Ats(s)[i] = s[i].at
  BY <1>1 DEF Ats
<1> QED
  BY <1>1, <1>2 DEF Rising, Sorted, Vals, AtsOf

LEMMA MessagesRise ==
  ASSUME NEW q \in Seq(Message),
         \A i, j \in 1..Len(q) : i < j /\ q[i].kind = "s" /\ q[j].kind = "s"
                                 => q[i].reading.at < q[j].reading.at,
         \A i \in 1..Len(q) : q[i].kind = "s" => q[i].reading.at \in Nat \ {0}
  PROVE  /\ Held(q) \in Seq(Nat) /\ Rising(Held(q))
         /\ QueueAts(q) \subseteq Vals(Held(q)) /\ Vals(Held(q)) \subseteq QueueAts(q) \cup {0}
<1>1. DOMAIN q = 1..Len(q) /\ Len(q) \in Nat
  OBVIOUS
<1>2. /\ Held(q) \in Seq(Nat) /\ Len(Held(q)) = Len(q)
      /\ \A i \in 1..Len(q) : Held(q)[i] = IF q[i].kind = "s" THEN q[i].reading.at ELSE 0
  BY <1>1 DEF Held
<1>3. Rising(Held(q))
  BY <1>2 DEF Rising
<1>4. QueueAts(q) \subseteq Vals(Held(q)) /\ Vals(Held(q)) \subseteq QueueAts(q) \cup {0}
  BY <1>2 DEF QueueAts, Vals
<1> QED
  BY <1>2, <1>3, <1>4

LEMMA LineInOrder == RInv => NoneLostNoneTwice
<1> SUFFICES ASSUME RInv PROVE NoneLostNoneTwice
  OBVIOUS
<1> DEFINE J == IF job = None THEN <<>> ELSE Held(<<job>>)
           R == Ats(disk.rows)
           P == Ats(pending)
           Q == Held(queue)
<1>1. R \in Seq(Nat) /\ Rising(R) /\ Vals(R) = AtsOf(disk.rows)
  BY RowsRise, WriterBefore
<1>2. P \in Seq(Nat) /\ Rising(P) /\ Vals(P) = AtsOf(pending)
  BY RowsRise, WriterBefore DEF ThreadTypes
<1>3. /\ taken \in Nat /\ Ahead \subseteq 1..taken /\ queue \in Seq(Message)
      /\ QueueInOrder(queue, Ahead, taken) /\ kept \subseteq Ahead \cup QueueAts(queue)
  BY Before DEF QueueOK
<1>4. /\ Q \in Seq(Nat) /\ Rising(Q)
      /\ QueueAts(queue) \subseteq Vals(Q) /\ Vals(Q) \subseteq QueueAts(queue) \cup {0}
  <2>1. \A i, j \in 1..Len(queue) : i < j /\ queue[i].kind = "s" /\ queue[j].kind = "s"
                                    => queue[i].reading.at < queue[j].reading.at
    BY <1>3 DEF QueueInOrder
  <2>2. \A i \in 1..Len(queue) : queue[i].kind = "s" => queue[i].reading.at \in Nat \ {0}
    BY <1>3 DEF QueueInOrder
  <2> QED
    BY <1>3, <2>1, <2>2, MessagesRise
<1>5. /\ J \in Seq(Nat) /\ Rising(J)
      /\ JobAts(job) \subseteq Vals(J) /\ Vals(J) \subseteq JobAts(job) \cup {0}
  <2>1. CASE job = None
    <3>1. J = <<>> /\ Len(J) = 0 /\ J \in Seq(Nat)
      BY <2>1
    <3> HIDE DEF J
    <3> QED
      BY <2>1, <3>1 DEF Rising, Vals, JobAts
  <2>2. CASE job # None
    <3>1. job \in Message
      BY <2>2, WriterBefore DEF ThreadTypes
    <3>2. <<job>> \in Seq(Message) /\ Len(<<job>>) = 1 /\ <<job>>[1] = job
      BY <3>1
    <3>3. job.kind = "s" => job.reading.at \in Nat \ {0}
      <4>1. job.kind = "s" => job.reading.at \in JobAts(job)
        BY <2>2 DEF JobAts
      <4>2. JobAts(job) \subseteq 1..taken
        BY <1>3 DEF Ahead
      <4> QED
        BY <1>3, <4>1, <4>2
    <3> DEFINE q == <<job>>
    <3>4. /\ q \in Seq(Message) /\ Len(q) = 1 /\ q[1] = job
      BY <3>2
    <3>5. J = Held(q)
      BY <2>2
    <3> HIDE DEF q, J
    <3>6. J \in Seq(Nat) /\ Rising(J) /\ QueueAts(q) \subseteq Vals(J)
          /\ Vals(J) \subseteq QueueAts(q) \cup {0}
      <4>1. \A i, j \in 1..Len(q) : i < j /\ q[i].kind = "s" /\ q[j].kind = "s"
                                  => q[i].reading.at < q[j].reading.at
        BY <3>4
      <4>2. \A i \in 1..Len(q) : q[i].kind = "s" => q[i].reading.at \in Nat \ {0}
        BY <3>3, <3>4
      <4> QED
        BY <3>4, <3>5, <4>1, <4>2, MessagesRise
    <3>7. QueueAts(q) = JobAts(job)
      BY <2>2, <3>4 DEF QueueAts, JobAts
    <3> QED
      BY <3>6, <3>7
  <2> QED
    BY <2>1, <2>2
<1>6. OnTheWay = ((R \o P) \o J) \o Q
  BY <1>1, <1>2, <1>4, <1>5 DEF OnTheWay
<1> HIDE DEF J, R, P, Q
<1>7. R \o P \in Seq(Nat) /\ Rising(R \o P) /\ Vals(R \o P) = AtsOf(disk.rows) \cup AtsOf(pending)
  <2>1. \A a \in Vals(R), b \in Vals(P) : b # 0 => a < b
    BY <1>1, <1>2, WriterBefore DEF Below
  <2> QED
    BY <1>1, <1>2, <2>1, RisingConcat
<1>8. /\ (R \o P) \o J \in Seq(Nat) /\ Rising((R \o P) \o J)
      /\ Ahead \subseteq Vals((R \o P) \o J) /\ Vals((R \o P) \o J) \subseteq Ahead \cup {0}
  <2>1. \A a \in Vals(R \o P), b \in Vals(J) : b # 0 => a < b
    BY <1>5, <1>7, WriterBefore DEF Below
  <2>2. /\ (R \o P) \o J \in Seq(Nat) /\ Rising((R \o P) \o J)
        /\ Vals((R \o P) \o J) = Vals(R \o P) \cup Vals(J)
    BY <1>5, <1>7, <2>1, RisingConcat
  <2> QED
    BY <1>5, <1>7, <2>2 DEF Ahead
<1>9. /\ OnTheWay \in Seq(Nat) /\ Rising(OnTheWay)
      /\ Ahead \cup QueueAts(queue) \subseteq Vals(OnTheWay)
  <2>1. \A b \in QueueAts(queue) : b \in Nat \ {0} /\ \A a \in Ahead : a < b
    <3> SUFFICES ASSUME NEW k \in 1..Len(queue), queue[k].kind = "s"
                 PROVE  /\ queue[k].reading.at \in Nat \ {0}
                        /\ \A a \in Ahead : a < queue[k].reading.at
      BY DEF QueueAts
    <3> QED
      BY <1>3 DEF QueueInOrder
  <2>2. \A a \in Vals((R \o P) \o J), b \in Vals(Q) : b # 0 => a < b
    BY <1>4, <1>8, <2>1
  <2>3. /\ OnTheWay \in Seq(Nat) /\ Rising(OnTheWay)
        /\ Vals(OnTheWay) = Vals((R \o P) \o J) \cup Vals(Q)
    BY <1>4, <1>6, <1>8, <2>2, RisingConcat
  <2> QED
    BY <1>4, <1>8, <2>3
<1>10. DOMAIN OnTheWay = 1..Len(OnTheWay)
  BY <1>9
<1> QED
  BY <1>3, <1>9, <1>10 DEF NoneLostNoneTwice, Rising, Vals

\* A reading that entered the queue is on the disk or on its way there, once,
\* in the order it was taken.
THEOREM ReadingsKeptInOrder == Spec => []NoneLostNoneTwice
BY LineInOrder, RecorderInvariant, PTL

-----------------------------------------------------------------------------
(* The recorder implements RunStore *)

\* What one row of a table becomes.
StoreRun == [uid : Nat, config : Config, ended : BOOLEAN]
StoreRow == [run : Nat, at : Nat, config : Config]

LEMMA RunRowType ==
  ASSUME NEW r \in Run, NEW i \in Nat
  PROVE  RunRow(r, i) \in StoreRun
<1>1. r.config \in Config /\ r.ended \in BOOLEAN
  BY Zenon DEF Run
<1> QED
  BY <1>1, Zenon DEF RunRow, StoreRun

LEMMA RunRowSame ==
  ASSUME NEW r, NEW s, NEW i, r.config = s.config, r.ended = s.ended
  PROVE  RunRow(r, i) = RunRow(s, i)
BY Zenon DEF RunRow

LEMMA RunRowSet ==
  ASSUME NEW r, NEW s, NEW i, r.config = s.config
  PROVE  RunRow(s, i) = [RunRow(r, i) EXCEPT !.ended = s.ended]
BY DEF RunRow

LEMMA ExceptTrue ==
  ASSUME NEW x, NEW v, v = TRUE
  PROVE  [x EXCEPT !.ended = TRUE] = [x EXCEPT !.ended = v]
BY Zenon

LEMMA RunRowEnded ==
  ASSUME NEW r, NEW s, NEW i, r.config = s.config, s.ended = TRUE
  PROVE  RunRow(s, i) = [RunRow(r, i) EXCEPT !.ended = TRUE]
<1>1. RunRow(s, i) = [RunRow(r, i) EXCEPT !.ended = s.ended]
  BY RunRowSet, Zenon
<1>2. [RunRow(r, i) EXCEPT !.ended = TRUE] = [RunRow(r, i) EXCEPT !.ended = s.ended]
  BY ExceptTrue, Zenon
<1> QED
  BY <1>1, <1>2, Zenon

LEMMA RunTable ==
  ASSUME NEW t \in Seq(Run)
  PROVE  LET u == [i \in DOMAIN t |-> RunRow(t[i], i)]
         IN  /\ u \in Seq(StoreRun) /\ Len(u) = Len(t)
             /\ \A i \in 1..Len(t) : u[i] = RunRow(t[i], i)
<1>1. DOMAIN t = 1..Len(t) /\ Len(t) \in Nat /\ \A i \in 1..Len(t) : t[i] \in Run
  OBVIOUS
<1>2. \A i \in 1..Len(t) : RunRow(t[i], i) \in StoreRun
  BY <1>1, RunRowType
<1> QED
  BY <1>1, <1>2

\* A step that only adds labels changes nothing another process reads of the
\* runs.
LEMMA RunTableSame ==
  ASSUME NEW t \in Seq(Run), NEW v \in Seq(Run), Len(v) = Len(t),
         \A i \in 1..Len(t) : v[i].config = t[i].config /\ v[i].ended = t[i].ended
  PROVE  [i \in DOMAIN v |-> RunRow(v[i], i)] = [i \in DOMAIN t |-> RunRow(t[i], i)]
<1>1. /\ DOMAIN t = 1..Len(t) /\ DOMAIN v = 1..Len(t) /\ Len(t) \in Nat
      /\ \A i \in 1..Len(t) : t[i] \in Run /\ v[i] \in Run
  OBVIOUS
<1>2. \A i \in 1..Len(t) : RunRow(v[i], i) = RunRow(t[i], i)
  BY RunRowSame, Zenon
<1> QED
  BY <1>1, <1>2

StoreUnchanged == UNCHANGED <<StoredRuns, StoredRows, StoredNotes, StoredCurrent, StoredLatest,
                              Len(disk.runs)>>

LEMMA StoreStutters ==
  ASSUME StoreUnchanged PROVE UNCHANGED Store!storeVars
BY DEF StoreUnchanged, Store!storeVars, Store!tables

LEMMA StoreIdle ==
  ASSUME UNCHANGED disk, StoredCurrent' = StoredCurrent PROVE [Store!StoreNext]_(Store!storeVars)
<1>1. StoreUnchanged
  BY DEF StoreUnchanged, StoredRuns, StoredRows, StoredNotes, StoredLatest
<1> QED
  BY <1>1, StoreStutters

\* A new run ends the one before it.
LEMMA BeginRunStore == ASSUME RInv, BeginRun PROVE \E c \in Config : Store!OpenRun(c)
<1> DEFINE c == Closed(Committed)
           r == [config |-> job.config, ended |-> FALSE, epoch |-> job.epoch, channel |-> None]
           n == Len(disk.runs)
           e == IF run = 0 THEN StoredRuns ELSE [StoredRuns EXCEPT ![run].ended = TRUE]
           x == [uid |-> n + 1, config |-> job.config, ended |-> FALSE]
<1>1. /\ job # None /\ job.kind = "run" /\ writer = "running"
      /\ disk' = [disk EXCEPT !.runs = Append(c, r)]
      /\ run' = n + 1 /\ writer' = writer
  BY DEF BeginRun, Working
<1>2. job \in Message /\ job.config \in Config /\ job.epoch \in Nat
  <2>1. job \in Message
    BY <1>1, WriterBefore DEF ThreadTypes
  <2> QED
    BY <1>1, <2>1 DEF Message, Config
<1>3. r \in Run /\ \A i \in Nat : RunRow(r, i) = [uid |-> i, config |-> job.config, ended |-> FALSE]
  <2>1. FALSE \in BOOLEAN /\ None \in Versions \cup {None}
    OBVIOUS
  <2>2. r \in Run
    BY <1>2, <2>1, Zenon DEF Run
  <2> QED
    BY <2>2, Zenon DEF RunRow
<1>4. c \in Seq(Run) /\ Len(c) = n /\ n \in Nat /\ disk.runs \in Seq(Run)
  BY ClosedRuns, WriterBefore
<1>5. /\ disk'.runs = Append(c, r) /\ disk'.rows = disk.rows /\ disk'.notes = disk.notes
  <2>1. disk \in [runs : Seq(Run), rows : Seq(Row), notes : Seq(Nat)]
    BY WriterBefore, Zenon DEF ThreadTypes
  <2> QED
    BY <1>1, <2>1
<1> HIDE DEF r, c
<1>6. Append(c, r) \in Seq(Run) /\ Len(Append(c, r)) = n + 1 /\ Append(c, r)[n + 1] = r
      /\ \A i \in 1..n : Append(c, r)[i] = c[i]
  BY <1>3, <1>4
<1>7. /\ StoredRuns \in Seq(StoreRun) /\ Len(StoredRuns) = n
      /\ \A i \in 1..n : StoredRuns[i] = RunRow(disk.runs[i], i)
  BY <1>4, RunTable DEF StoredRuns
<1>8. /\ StoredRuns' \in Seq(StoreRun) /\ Len(StoredRuns') = n + 1
      /\ \A i \in 1..(n + 1) : StoredRuns'[i] = RunRow(Append(c, r)[i], i)
  BY <1>5, <1>6, RunTable DEF StoredRuns
<1>9. x = RunRow(r, n + 1) /\ x \in StoreRun
  <2>1. n + 1 \in Nat
    BY <1>4
  <2> QED
    BY <1>3, <2>1, RunRowType, Zenon
<1>10. run # 0 => run \in 1..n
  BY <1>4, WriterBefore DEF RunIsLast, ThreadTypes
<1> HIDE DEF x
<1>11. /\ e \in Seq(StoreRun) /\ Len(e) = n
       /\ \A i \in 1..n : e[i] = RunRow(c[i], i)
  <2>1. \A i \in 1..n : c[i] \in Run /\ disk.runs[i] \in Run /\ i \in Nat
    BY <1>4
  <2>2. ASSUME NEW i \in 1..n, i # run PROVE RunRow(c[i], i) = StoredRuns[i]
    <3>1. c[i].config = disk.runs[i].config /\ c[i].ended = disk.runs[i].ended
      BY <2>2, ClosedRuns, Zenon DEF c, n
    <3>2. RunRow(c[i], i) = RunRow(disk.runs[i], i)
      BY <3>1, RunRowSame, Zenon
    <3> QED
      BY <1>7, <3>2, Zenon
  <2>3. ASSUME run # 0 PROVE RunRow(c[run], run) = [StoredRuns[run] EXCEPT !.ended = TRUE]
    <3>1. c[run].config = disk.runs[run].config /\ c[run].ended = TRUE
      BY <1>10, <2>3, ClosedRuns, Zenon DEF c, n
    <3>2. RunRow(c[run], run) = [RunRow(disk.runs[run], run) EXCEPT !.ended = TRUE]
      BY <3>1, RunRowEnded, Zenon
    <3> QED
      BY <1>7, <1>10, <2>3, <3>2, Zenon
  <2> DEFINE y == [StoredRuns[run] EXCEPT !.ended = TRUE]
  <2>4. run # 0 => y \in StoreRun
    BY <1>10, <2>1, <2>3, RunRowType, Zenon
  <2>5. e = IF run = 0 THEN StoredRuns ELSE [StoredRuns EXCEPT ![run] = y]
    OBVIOUS
  <2> HIDE DEF e, y
  <2>6. CASE run = 0
    <3>1. \A i \in 1..n : i # run
      BY <2>6
    <3> QED
      BY <1>7, <2>2, <2>5, <2>6, <3>1
  <2>7. CASE run # 0
    <3>1. /\ e \in Seq(StoreRun) /\ Len(e) = n
          /\ \A i \in 1..n : e[i] = IF i = run THEN y ELSE StoredRuns[i]
      BY <1>7, <1>10, <2>4, <2>5, <2>7
    <3> QED
      BY <2>2, <2>3, <2>7, <3>1 DEF y
  <2> QED
    BY <2>6, <2>7
<1> HIDE DEF e
<1>12. StoredRuns' = Append(e, x)
  <2>1. /\ Append(e, x) \in Seq(StoreRun) /\ Len(Append(e, x)) = n + 1
        /\ Append(e, x)[n + 1] = x /\ \A i \in 1..n : Append(e, x)[i] = e[i]
    BY <1>4, <1>9, <1>11
  <2>2. \A i \in 1..(n + 1) : i = n + 1 \/ i \in 1..n
    BY <1>4
  <2>3. \A i \in 1..(n + 1) : StoredRuns'[i] = Append(e, x)[i]
    BY <1>6, <1>8, <1>9, <1>11, <2>1, <2>2
  <2> QED
    BY <1>8, <2>1, <2>3, SeqEqual
<1>13. StoredCurrent = run /\ StoredCurrent' = Len(StoredRuns) + 1 /\ Len(disk'.runs) = n + 1
  BY <1>1, <1>5, <1>6, <1>7 DEF StoredCurrent
<1>14. UNCHANGED <<StoredRows, StoredNotes, StoredLatest>>
  BY <1>5 DEF StoredRows, StoredNotes, StoredLatest
<1>15. Store!Ended = e
  BY <1>13 DEF Store!Ended, e
<1>16. Store!OpenRun(job.config)
  BY <1>12, <1>13, <1>14, <1>15 DEF Store!OpenRun, x, n
<1> QED
  BY <1>2, <1>16

\* The runs a reader sees after a commit that ends none.
LEMMA CommitStoredRuns ==
  ASSUME RInv, disk'.runs = Committed PROVE StoredRuns' = StoredRuns /\ Len(disk'.runs) = Len(disk.runs)
<1>1. /\ disk.runs \in Seq(Run) /\ Committed \in Seq(Run) /\ Len(Committed) = Len(disk.runs)
  BY CommittedRuns, WriterBefore
<1>2. \A i \in 1..Len(disk.runs) : /\ Committed[i].config = disk.runs[i].config
                                   /\ Committed[i].ended = disk.runs[i].ended
  BY CommittedRuns, Zenon
<1> DEFINE c == Committed
<1> HIDE DEF c
<1>3. [i \in DOMAIN c |-> RunRow(c[i], i)] = [i \in DOMAIN disk.runs |-> RunRow(disk.runs[i], i)]
  BY <1>1, <1>2, RunTableSame, Zenon DEF c
<1>4. disk'.runs = c
  BY DEF c
<1>5. StoredRuns' = [i \in DOMAIN c |-> RunRow(c[i], i)]
  BY <1>4, Zenon DEF StoredRuns
<1> QED
  BY <1>1, <1>3, <1>4, <1>5 DEF StoredRuns, c

LEMMA SampleTable ==
  ASSUME NEW t \in Seq(Row)
  PROVE  LET u == [i \in DOMAIN t |-> SampleRow(t[i])]
         IN  /\ u \in Seq(StoreRow) /\ Len(u) = Len(t)
             /\ \A i \in 1..Len(t) : u[i] = SampleRow(t[i])
<1>1. DOMAIN t = 1..Len(t) /\ Len(t) \in Nat /\ \A i \in 1..Len(t) : t[i] \in Row
  OBVIOUS
<1>2. \A r \in Row : SampleRow(r) \in StoreRow
  BY DEF SampleRow, StoreRow, Row
<1> QED
  BY <1>1, <1>2

LEMMA SampleRowFields ==
  ASSUME NEW r
  PROVE  /\ SampleRow(r).run = r.run /\ SampleRow(r).at = r.at /\ SampleRow(r).config = r.config
         /\ SampleRow(r) = [run |-> r.run, at |-> r.at, config |-> r.config]
BY DEF SampleRow

\* A flush adds the readings of the buffer to the open run, newer than all that
\* is there.
LEMMA FlushStore ==
  ASSUME RInv, Flush
  PROVE  Store!AddRows([i \in DOMAIN Store!Added(StoredRows, StoredRows') |->
                          Store!Added(StoredRows, StoredRows')[i].at])
<1> DEFINE n == Len(disk.rows)
           m == Len(pending)
           A == Store!Added(StoredRows, StoredRows')
           ats == [i \in DOMAIN A |-> A[i].at]
<1>1. /\ writer = "running" /\ UNCHANGED <<writer, run>> /\ pending # <<>>
      /\ disk' = [disk EXCEPT !.runs = Committed, !.rows = @ \o pending]
  BY DEF Flush, FlushDue, Working
<1>2. /\ disk.rows \in Seq(Row) /\ pending \in Seq(Row) /\ n \in Nat /\ m \in Nat \ {0}
      /\ disk.runs \in Seq(Run)
  BY <1>1, WriterBefore DEF ThreadTypes
<1>3. /\ disk'.runs = Committed /\ disk'.rows = disk.rows \o pending
      /\ disk'.notes = disk.notes
  <2>1. disk \in [runs : Seq(Run), rows : Seq(Row), notes : Seq(Nat)]
    BY WriterBefore, Zenon DEF ThreadTypes
  <2> QED
    BY <1>1, <2>1
<1>4. /\ disk'.rows \in Seq(Row) /\ Len(disk'.rows) = n + m
      /\ \A i \in 1..n : disk'.rows[i] = disk.rows[i]
      /\ \A i \in 1..m : n + i \in 1..(n + m) /\ disk'.rows[n + i] = pending[i]
  BY <1>2, <1>3
<1>5. /\ StoredRows \in Seq(StoreRow) /\ Len(StoredRows) = n
      /\ \A i \in 1..n : StoredRows[i] = SampleRow(disk.rows[i])
  BY <1>2, SampleTable DEF StoredRows
<1>6. /\ StoredRows' \in Seq(StoreRow) /\ Len(StoredRows') = n + m
      /\ \A i \in 1..(n + m) : StoredRows'[i] = SampleRow(disk'.rows[i])
  BY <1>4, SampleTable DEF StoredRows
<1>7. run # 0 /\ run \in 1..Len(disk.runs)
      /\ \A i \in 1..m : pending[i].run = run /\ pending[i].config = disk.runs[run].config
  <2>1. \A i \in 1..m : pending[i].run = run /\ run # 0
                        /\ pending[i].config = disk.runs[run].config
    BY WriterBefore DEF PendingIsOwn
  <2>2. 1 \in 1..m
    BY <1>2
  <2>3. run # 0 /\ run \in Nat
    BY <2>1, <2>2, WriterBefore DEF ThreadTypes
  <2>4. run = Len(disk.runs)
    BY <2>3, WriterBefore DEF RunIsLast
  <2> QED
    BY <2>1, <2>3, <2>4
<1>8. StoredCurrent = run /\ StoredCurrent' = run /\ StoredRuns[run].config = disk.runs[run].config
  <2>1. StoredRuns[run] = RunRow(disk.runs[run], run)
    BY <1>2, <1>7, RunTable DEF StoredRuns
  <2>2. RunRow(disk.runs[run], run).config = disk.runs[run].config
    BY DEF RunRow
  <2> QED
    BY <1>1, <2>1, <2>2 DEF StoredCurrent
<1>9. StoredRuns' = StoredRuns /\ Len(disk'.runs) = Len(disk.runs)
  BY <1>3, CommitStoredRuns
<1> HIDE DEF n, m
<1>10. /\ DOMAIN A = 1..m /\ Len(A) = m
       /\ \A i \in 1..m : A[i] = SampleRow(pending[i])
  <2>1. A = SubSeq(StoredRows', n + 1, n + m)
    BY <1>5, <1>6 DEF Store!Added
  <2>2. /\ A \in Seq(StoreRow) /\ Len(A) = m
        /\ \A i \in 1..m : A[i] = StoredRows'[n + i]
    <3>1. \A i \in (n + 1)..(n + m) : StoredRows'[i] \in StoreRow
      BY <1>2, <1>6
    <3>2. n + 1 \in Int /\ n + m \in Int /\ n + 1 <= n + m /\ (n + m) - (n + 1) + 1 = m
      BY <1>2
    <3> HIDE DEF A
    <3>3. /\ SubSeq(StoredRows', n + 1, n + m) \in Seq(StoreRow)
          /\ Len(SubSeq(StoredRows', n + 1, n + m)) = (n + m) - (n + 1) + 1
          /\ \A i \in 1..((n + m) - (n + 1) + 1) :
               SubSeq(StoredRows', n + 1, n + m)[i] = StoredRows'[(n + 1) + i - 1]
      BY <3>1, <3>2, SubSeqProperties
    <3>4. \A i \in 1..m : (n + 1) + i - 1 = n + i
      BY <1>2
    <3> QED
      BY <2>1, <3>2, <3>3, <3>4
  <2>3. \A i \in 1..m : A[i] = SampleRow(pending[i])
    BY <1>4, <1>6, <2>2
  <2> QED
    BY <2>2, <2>3
<1> HIDE DEF A
<1>11. /\ DOMAIN ats = 1..m /\ Len(ats) = m
       /\ \A i \in 1..m : ats[i] = pending[i].at
  <2>1. m \in Nat
    BY <1>2
  <2> QED
    BY <1>10, <2>1, SampleRowFields
<1> HIDE DEF ats
<1>12. StoredLatest' = ats[Len(ats)]
  <2>1. disk'.rows # <<>> /\ disk'.rows[n + m] = pending[m] /\ m \in 1..m
    BY <1>2, <1>4
  <2> QED
    BY <1>4, <1>11, <2>1 DEF StoredLatest
<1>13. \A i \in DOMAIN ats : ats[i] > IF i = 1 THEN StoredLatest ELSE ats[i - 1]
  <2> SUFFICES ASSUME NEW i \in 1..m
               PROVE  pending[i].at > IF i = 1 THEN StoredLatest ELSE ats[i - 1]
    BY <1>11
  <2>0. \A j \in 1..m : pending[j].at \in Nat
    <3>1. \A r \in Row : r.at \in Nat
      BY DEF Row
    <3> QED
      BY <1>2, <3>1 DEF m
  <2>1. CASE i = 1
    <3>1. pending[i].at \in AtsOf(pending)
      BY DEF AtsOf, m
    <3>2. CASE disk.rows = <<>>
      <4>1. StoredLatest = 0
        BY <3>2 DEF StoredLatest
      <4>2. AtsOf(pending) \subseteq 1..taken
        BY Before DEF Ahead
      <4> QED
        BY <2>1, <3>1, <4>1, <4>2, Before
    <3>3. CASE disk.rows # <<>>
      <4>1. n \in 1..n /\ StoredLatest = disk.rows[n].at
        BY <1>2, <3>3 DEF StoredLatest, n
      <4>2. StoredLatest \in AtsOf(disk.rows)
        BY <4>1 DEF AtsOf, n
      <4>3. StoredLatest < pending[i].at
        BY <3>1, <4>2, WriterBefore, Zenon DEF Below
      <4>4. StoredLatest \in Nat
        <5>1. \A r \in Row : r.at \in Nat
          BY DEF Row
        <5> QED
          BY <1>2, <4>1, <5>1 DEF n
      <4> QED
        BY <2>0, <2>1, <4>3, <4>4
    <3> QED
      BY <3>2, <3>3
  <2>2. CASE i # 1
    <3>1. i - 1 \in 1..m /\ i - 1 < i
      BY <1>2, <2>2
    <3>2. pending[i - 1].at < pending[i].at
      BY <3>1, WriterBefore DEF Sorted, m
    <3> QED
      BY <1>11, <2>0, <2>2, <3>1, <3>2
  <2> QED
    BY <2>1, <2>2
<1>14. StoredRows' = StoredRows \o [i \in DOMAIN ats |->
                        [run |-> StoredCurrent, at |-> ats[i],
                         config |-> StoredRuns[StoredCurrent].config]]
  <2> DEFINE N == [i \in DOMAIN ats |-> [run |-> StoredCurrent, at |-> ats[i],
                                         config |-> StoredRuns[StoredCurrent].config]]
  <2>1. DOMAIN N = 1..m /\ m \in Nat /\ \A i \in 1..m : N[i] = A[i]
    <3>1. DOMAIN N = 1..m /\ m \in Nat
      BY <1>2, <1>11
    <3>2. ASSUME NEW i \in 1..m PROVE N[i] = A[i]
      <4>1. A[i] = [run |-> pending[i].run, at |-> pending[i].at, config |-> pending[i].config]
        BY <1>10, SampleRowFields
      <4> QED
        BY <1>7, <1>8, <1>11, <4>1
    <3> QED
      BY <3>1, <3>2
  <2> HIDE DEF N
  <2>2. \A i \in 1..m : A[i] \in StoreRow
    <3>1. \A i \in 1..m : A[i] = StoredRows'[n + i] /\ n + i \in 1..(n + m)
      BY <1>4, <1>6, <1>10
    <3> QED
      BY <1>6, <3>1
  <2>3. N = [i \in 1..m |-> N[i]]
    BY <2>1 DEF N
  <2>4. N \in Seq(StoreRow) /\ Len(N) = m
    BY <2>1, <2>2, <2>3
  <2>5. /\ StoredRows \o N \in Seq(StoreRow) /\ Len(StoredRows \o N) = n + m
        /\ \A i \in 1..(n + m) : (StoredRows \o N)[i] = IF i <= n THEN StoredRows[i] ELSE N[i - n]
    BY <1>5, <2>4, ConcatProperties
  <2>6. \A i \in 1..(n + m) : StoredRows'[i] = (StoredRows \o N)[i]
    <3> TAKE i \in 1..(n + m)
    <3>1. CASE i <= n
      <4>1. i \in 1..n
        BY <1>2, <3>1
      <4> QED
        BY <1>4, <1>5, <1>6, <2>5, <3>1, <4>1
    <3>2. CASE ~(i <= n)
      <4>1. i - n \in 1..m /\ n + (i - n) = i
        BY <1>2, <3>2
      <4>2. disk'.rows[i] = pending[i - n]
        BY <1>4, <4>1
      <4> QED
        BY <1>6, <1>10, <2>1, <2>5, <3>2, <4>1, <4>2
    <3> QED
      BY <3>1, <3>2
  <2>7. StoredRows' = StoredRows \o N
    BY <1>6, <2>5, <2>6, SeqEqual
  <2> QED
    BY <2>7 DEF N
<1>15. StoredNotes' = StoredNotes
  BY <1>3 DEF StoredNotes
<1>16. ats # <<>>
  BY <1>2, <1>11
<1>17. Store!AddRows(ats)
  BY <1>7, <1>8, <1>9, <1>12, <1>13, <1>14, <1>15, <1>16 DEF Store!AddRows
<1> QED
  BY <1>17 DEF ats, A

\* A note is added to the open run, or not kept: nobody sees the commit then.
LEMMA WriteNoteStore ==
  ASSUME RInv, WriteNote
  PROVE  \/ StoredNotes' # StoredNotes /\ Store!AddNote(StoredNotes'[Len(StoredNotes')].at)
         \/ StoreUnchanged
<1> DEFINE k == Len(disk.notes)
           notes == IF k < MaxNotes THEN Append(disk.notes, run) ELSE disk.notes
<1>1. /\ writer = "running" /\ UNCHANGED <<writer, run>> /\ run # 0
      /\ disk' = [disk EXCEPT !.runs = Committed, !.notes = notes]
  BY DEF WriteNote, Working
<1>2. disk.notes \in Seq(Nat) /\ run \in Nat /\ k \in Nat
  BY WriterBefore DEF ThreadTypes
<1> HIDE DEF notes
<1>3. disk'.runs = Committed /\ disk'.rows = disk.rows /\ disk'.notes = notes
  <2>1. disk \in [runs : Seq(Run), rows : Seq(Row), notes : Seq(Nat)]
    BY WriterBefore, Zenon DEF ThreadTypes
  <2> QED
    BY <1>1, <2>1
<1>4. StoredRuns' = StoredRuns /\ Len(disk'.runs) = Len(disk.runs)
  BY <1>3, CommitStoredRuns
<1>5. StoredRows' = StoredRows /\ StoredLatest' = StoredLatest
      /\ StoredCurrent = run /\ StoredCurrent' = run
  BY <1>1, <1>3 DEF StoredRows, StoredLatest, StoredCurrent
<1>6. CASE k < MaxNotes
  <2> DEFINE x == [run |-> run, at |-> 0]
             T == [run : Nat, at : Nat]
  <2>1. notes = Append(disk.notes, run)
    BY <1>6 DEF notes
  <2>2. /\ Len(notes) = k + 1 /\ DOMAIN notes = 1..(k + 1) /\ notes[k + 1] = run
        /\ \A i \in 1..k : notes[i] = disk.notes[i]
        /\ DOMAIN disk.notes = 1..k /\ \A i \in 1..k : disk.notes[i] \in Nat
    BY <1>2, <2>1
  <2>3. /\ StoredNotes \in Seq(T) /\ Len(StoredNotes) = k
        /\ \A i \in 1..k : StoredNotes[i] = [run |-> disk.notes[i], at |-> 0]
    BY <1>2, <2>2 DEF StoredNotes
  <2>4. StoredNotes' = [i \in 1..(k + 1) |-> [run |-> notes[i], at |-> 0]]
    BY <1>3, <2>2 DEF StoredNotes
  <2>5. \A i \in 1..(k + 1) : notes[i] \in Nat
    BY <1>2, <2>2
  <2>6. /\ StoredNotes' \in Seq(T) /\ Len(StoredNotes') = k + 1
        /\ \A i \in 1..(k + 1) : StoredNotes'[i] = [run |-> notes[i], at |-> 0]
    BY <1>2, <2>4, <2>5
  <2>7. /\ Append(StoredNotes, x) \in Seq(T) /\ Len(Append(StoredNotes, x)) = k + 1
        /\ Append(StoredNotes, x)[k + 1] = x
        /\ \A i \in 1..k : Append(StoredNotes, x)[i] = StoredNotes[i]
    BY <1>2, <2>3
  <2>8. \A i \in 1..(k + 1) : StoredNotes'[i] = Append(StoredNotes, x)[i]
    <3> TAKE i \in 1..(k + 1)
    <3>1. i \in 1..k \/ i = k + 1
      BY <1>2
    <3>2. CASE i \in 1..k
      <4>1. Append(StoredNotes, x)[i] = [run |-> disk.notes[i], at |-> 0]
        BY <2>3, <2>7, <3>2
      <4>2. StoredNotes'[i] = [run |-> notes[i], at |-> 0] /\ notes[i] = disk.notes[i]
        BY <2>2, <2>6, <3>2
      <4> QED
        BY <4>1, <4>2
    <3>3. CASE i = k + 1
      <4>1. StoredNotes'[k + 1] = [run |-> notes[k + 1], at |-> 0]
        BY <2>6, <3>3
      <4> QED
        BY <2>2, <2>7, <3>3, <4>1
    <3> QED
      BY <3>1, <3>2, <3>3
  <2>9. StoredNotes' = Append(StoredNotes, x)
    BY <2>6, <2>7, <2>8, SeqEqual
  <2>10. StoredNotes'[Len(StoredNotes')].at = 0 /\ StoredNotes' # StoredNotes
    <3>1. k + 1 \in 1..(k + 1) /\ k # k + 1
      BY <1>2
    <3>2. StoredNotes'[k + 1] = [run |-> notes[k + 1], at |-> 0]
      BY <2>6, <3>1
    <3> QED
      BY <2>3, <2>6, <3>1, <3>2
  <2>11. Store!AddNote(0)
    BY <1>1, <1>3, <1>4, <1>5, <2>9 DEF Store!AddNote
  <2> QED
    BY <2>10, <2>11
<1>7. CASE ~(k < MaxNotes)
  <2>1. StoredNotes' = StoredNotes
    BY <1>3, <1>7 DEF StoredNotes, notes
  <2> QED
    BY <1>4, <1>5, <2>1 DEF StoreUnchanged
<1> QED
  BY <1>6, <1>7

\* The stop message ends the open run, if there is one.
LEMMA EndWriterStore == ASSUME RInv, EndWriter PROVE Store!EndRun \/ StoreUnchanged
<1> DEFINE c == Closed(Committed)
           n == Len(disk.runs)
<1>1. /\ writer = "running" /\ writer' = "ended" /\ run' = run
      /\ disk' = [disk EXCEPT !.runs = c]
  BY DEF EndWriter, Working
<1>2. c \in Seq(Run) /\ Len(c) = n /\ n \in Nat /\ disk.runs \in Seq(Run)
  BY ClosedRuns, WriterBefore
<1> HIDE DEF c
<1>3. disk'.runs = c /\ disk'.rows = disk.rows /\ disk'.notes = disk.notes
  <2>1. disk \in [runs : Seq(Run), rows : Seq(Row), notes : Seq(Nat)]
    BY WriterBefore, Zenon DEF ThreadTypes
  <2> QED
    BY <1>1, <2>1
<1>4. UNCHANGED <<StoredRows, StoredNotes, StoredLatest>> /\ StoredCurrent' = 0
      /\ StoredCurrent = run /\ Len(disk'.runs) = Len(disk.runs)
  BY <1>1, <1>2, <1>3 DEF StoredRows, StoredNotes, StoredLatest, StoredCurrent, n
<1>5. CASE run = 0
  <2>1. c = Committed
    BY <1>5 DEF c, Closed
  <2>2. StoredRuns' = StoredRuns
    BY <1>3, <2>1, CommitStoredRuns
  <2> QED
    BY <1>4, <1>5, <2>2 DEF StoreUnchanged
<1>6. CASE run # 0
  <2> DEFINE y == [StoredRuns[run] EXCEPT !.ended = TRUE]
             e == [StoredRuns EXCEPT ![run].ended = TRUE]
  <2>1. run \in 1..n
    BY <1>2, <1>6, WriterBefore DEF RunIsLast, ThreadTypes
  <2>2. /\ StoredRuns \in Seq(StoreRun) /\ Len(StoredRuns) = n
        /\ \A i \in 1..n : StoredRuns[i] = RunRow(disk.runs[i], i)
    BY <1>2, RunTable DEF StoredRuns
  <2>3. /\ StoredRuns' \in Seq(StoreRun) /\ Len(StoredRuns') = n
        /\ \A i \in 1..n : StoredRuns'[i] = RunRow(c[i], i)
    BY <1>2, <1>3, RunTable DEF StoredRuns
  <2>4. ASSUME NEW i \in 1..n, i # run PROVE StoredRuns'[i] = StoredRuns[i]
    <3>1. c[i].config = disk.runs[i].config /\ c[i].ended = disk.runs[i].ended
      BY <2>4, ClosedRuns, Zenon DEF c, n
    <3>2. RunRow(c[i], i) = RunRow(disk.runs[i], i)
      BY <3>1, RunRowSame, Zenon
    <3> QED
      BY <2>2, <2>3, <3>2, Zenon
  <2>5. StoredRuns'[run] = y
    <3>1. c[run].config = disk.runs[run].config /\ c[run].ended = TRUE
      BY <2>1, ClosedRuns, Zenon DEF c, n
    <3>2. RunRow(c[run], run) = [RunRow(disk.runs[run], run) EXCEPT !.ended = TRUE]
      BY <3>1, RunRowEnded, Zenon
    <3> QED
      BY <2>1, <2>2, <2>3, <3>2, Zenon
  <2>6. y \in StoreRun
    BY <2>1, <2>3, <2>5
  <2>7. e = [StoredRuns EXCEPT ![run] = y]
    OBVIOUS
  <2> HIDE DEF y, e
  <2>8. /\ e \in Seq(StoreRun) /\ Len(e) = n
        /\ \A i \in 1..n : e[i] = IF i = run THEN y ELSE StoredRuns[i]
    BY <2>1, <2>2, <2>6, <2>7
  <2>9. StoredRuns' = e
    <3>1. \A i \in 1..n : StoredRuns'[i] = e[i]
      BY <2>4, <2>5, <2>8
    <3> QED
      BY <2>3, <2>8, <3>1, SeqEqual
  <2>10. Store!Ended = e
    BY <1>4, <1>6 DEF Store!Ended, e
  <2>11. Store!EndRun
    BY <1>4, <1>6, <2>9, <2>10 DEF Store!EndRun
  <2> QED
    BY <2>11
<1> QED
  BY <1>5, <1>6

\* The process is gone and with it the open run.
LEMMA ExitStore == ASSUME RInv, Exit PROVE Store!AbandonRun
<1>1. disk' = disk /\ run' = 0
  BY DEF Exit, Fresh
<1> QED
  BY <1>1 DEF Store!AbandonRun, Store!tables, StoredRuns, StoredRows, StoredNotes, StoredCurrent,
              StoredLatest

LEMMA StoreInitially == Init => Store!StoreInit
<1> SUFFICES ASSUME Init PROVE Store!StoreInit
  OBVIOUS
<1>1. disk.runs = <<>> /\ disk.rows = <<>> /\ disk.notes = <<>> /\ run = 0
  BY DEF Init
<1>2. StoredRuns = <<>> /\ StoredRows = <<>> /\ StoredNotes = <<>> /\ StoredCurrent = 0
      /\ StoredLatest = 0 /\ Len(disk.runs) = 0
  BY <1>1 DEF StoredRuns, StoredRows, StoredNotes, StoredCurrent, StoredLatest
<1> QED
  BY <1>2 DEF Store!StoreInit

LEMMA StoreStep == RInv /\ [Next]_vars => [Store!StoreNext]_(Store!storeVars)
<1> SUFFICES ASSUME RInv, [Next]_vars PROVE [Store!StoreNext]_(Store!storeVars)
  OBVIOUS
<1>1. CASE PollStep
  <2>1. UNCHANGED disk /\ UNCHANGED <<writer, run>>
    BY <1>1 DEF PollStep, Connect, Resolve, Open, Take, Switch, LookAtClock, Restep, Fail, Cycle,
                thread
  <2> QED
    BY <2>1, StoreIdle DEF StoredCurrent
<1>2. CASE Pop \/ Buffer \/ SkipNote
  <2>1. UNCHANGED disk /\ UNCHANGED <<writer, run>>
    BY <1>2 DEF Pop, Buffer, SkipNote
  <2> QED
    BY <2>1, StoreIdle DEF StoredCurrent
<1>3. CASE Flush
  BY <1>3, FlushStore DEF Store!StoreNext
<1>4. CASE BeginRun
  BY <1>4, BeginRunStore DEF Store!StoreNext
<1>5. CASE WriteNote
  BY <1>5, WriteNoteStore, StoreStutters DEF Store!StoreNext
<1>6. CASE EndWriter
  BY <1>6, EndWriterStore, StoreStutters DEF Store!StoreNext
<1>7. CASE WriterDies
  <2>1. UNCHANGED disk /\ run' = run /\ writer = "running" /\ writer' = "dead"
    BY <1>7 DEF WriterDies, Working
  <2> QED
    BY <2>1, StoreIdle DEF StoredCurrent
<1>8. CASE StepClock \/ Stop \/ Restart \/ (\E m \in Modes : RequestMode(m)) \/ UNCHANGED vars
  <2>1. UNCHANGED disk /\ UNCHANGED <<writer, run>>
    BY <1>8 DEF StepClock, Stop, Restart, RequestMode, vars, thread
  <2> QED
    BY <2>1, StoreIdle DEF StoredCurrent
<1>9. CASE Exit
  BY <1>9, ExitStore DEF Store!StoreNext
<1> QED
  BY <1>1, <1>2, <1>3, <1>4, <1>5, <1>6, <1>7, <1>8, <1>9 DEF Next, WriterStep

\* What another process sees of the database is a RunStore: rows are added to
\* the open run only, in the order they were read and under its configuration,
\* and a run that has ended gets no more.
THEOREM RecorderImplementsStore == Spec => StoreSpec
<1>1. Spec => []RInv
  BY RecorderInvariant
<1> QED
  BY <1>1, StoreInitially, StoreStep, PTL DEF Spec, StoreSpec, Store!StoreSpec
=============================================================================
