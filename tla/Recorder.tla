------------------------------ MODULE Recorder ------------------------------
(***************************************************************************)
(* live.py Recorder and the part of poll_loop that opens its runs.         *)
(*                                                                         *)
(* Two threads share a bounded queue.  The poll thread opens a run for     *)
(* every connection, every drive mode and every step of the host clock     *)
(* (a blocking put) and hands over readings, faults and events (put_nowait,*)
(* dropped when the queue is full).  The writer thread owns the SQLite     *)
(* connection: it buffers rows, and commits.  `disk` is what is committed  *)
(* - all that another process, or the next one, can see - and `noted` the  *)
(* run_channels row of the transaction that is still open.                 *)
(*                                                                         *)
(* One channel stands for all: every key of a cycle takes the same path.   *)
(* A mode switch comes from the HTTP thread through ModeControl; the       *)
(* profile of a connection carries a mapping version.  Time is an epoch:   *)
(* how often the host clock was stepped by more than CLOCK_STEP_THRESHOLD. *)
(***************************************************************************)
EXTENDS Naturals, Sequences

CONSTANTS
  Modes, Versions, DefaultMode,
  Cap,         \* the queue's maxsize
  Chunk,       \* rows per flush
  MaxReadings, \* bound: readings taken
  MaxNotes,    \* bound: faults and events committed
  MaxChanges,  \* bound: connects, mode switches, clock steps and restarts
  None

ASSUME CapAssumption == Cap \in Nat \ {0} /\ Chunk \in Nat \ {0}
ASSUME BoundsAssumption == {MaxReadings, MaxNotes, MaxChanges} \subseteq Nat
ASSUME ModesAssumption == DefaultMode \in Modes
ASSUME NoneAssumption == None \notin Modes \cup Versions

VARIABLES
  pc,       \* the poll thread
  mode,     \* modes.current, the mode of the plan
  wanted,   \* modes._pending
  meta,     \* rec.meta_source: the version of the profile
  anchor,   \* poll_loop: the clock anchor of the run
  queue,    \* self.q
  stopping, \* close() was called
  writer,   \* the writer thread: "running", "ended" or "dead"
  job,      \* the message it popped
  pending,  \* its buffer
  run,      \* self.run_id, 0 for None
  prov,     \* self.run_provenance
  seen,     \* the channel is in self.run_channel_seen
  noted,    \* the uncommitted run_channels row, None if there is none
  disk,     \* what is committed
  epoch,    \* environment: steps of the host clock so far
  taken,    \* ghost: readings taken so far
  kept,     \* ghost: readings of this process that entered the queue
  changes   \* ghost: bound on what the environment does

poll    == <<pc, mode, wanted, meta, anchor>>
thread  == <<writer, job, pending, run, prov, seen, noted>>
ghosts  == <<epoch, taken, kept, changes>>
vars    == <<poll, queue, stopping, thread, disk, ghosts>>

Config   == [mode : Modes, version : Versions]
Reading  == [at : Nat, config : Config, epoch : Nat]
Message  == [kind : {"run"}, config : Config, epoch : Nat]
            \cup [kind : {"s"}, reading : Reading]
            \cup [kind : {"note", "stop"}]
Row      == [run : Nat, at : Nat, config : Config, epoch : Nat]
Run      == [config : Config, ended : BOOLEAN, epoch : Nat,
             channel : Versions \cup {None}]

ASSUME MessageAssumption == None \notin Message

TypeOK ==
  /\ pc \in {"off", "down", "connecting", "resolved", "top", "switched",
             "clock", "stepped", "cycle"}
  /\ mode \in Modes /\ wanted \in Modes \cup {None}
  /\ meta \in Versions \cup {None}
  /\ anchor \in Nat
  /\ queue \in Seq(Message) /\ Len(queue) <= Cap
  /\ stopping \in BOOLEAN
  /\ writer \in {"running", "ended", "dead"}
  /\ job \in Message \cup {None}
  /\ pending \in Seq(Row) /\ Len(pending) <= Chunk
  /\ run \in Nat /\ prov \in Versions \cup {None} /\ seen \in BOOLEAN
  /\ noted \in Versions \cup {None}
  /\ disk \in [runs : Seq(Run), rows : Seq(Row), notes : Seq(Nat)]
  /\ epoch \in Nat /\ taken \in Nat /\ changes \in Nat
  /\ kept \subseteq Nat

\* What a process starts with.
Fresh ==
  /\ mode' = DefaultMode /\ wanted' = None /\ meta' = None
  /\ anchor' = epoch
  /\ queue' = <<>> /\ stopping' = FALSE
  /\ writer' = "running" /\ job' = None /\ pending' = <<>>
  /\ run' = 0 /\ prov' = None /\ seen' = FALSE /\ noted' = None
  /\ kept' = {}

Init ==
  /\ pc = "down"
  /\ mode = DefaultMode /\ wanted = None /\ meta = None
  /\ anchor = 0
  /\ queue = <<>> /\ stopping = FALSE
  /\ writer = "running" /\ job = None /\ pending = <<>>
  /\ run = 0 /\ prov = None /\ seen = FALSE /\ noted = None
  /\ disk = [runs |-> <<>>, rows |-> <<>>, notes |-> <<>>]
  /\ epoch = 0 /\ taken = 0 /\ kept = {} /\ changes = 0

-----------------------------------------------------------------------------
(* The poll thread *)

\* q.put_nowait: a full queue drops the message.
Nowait(q, message) == IF Len(q) < Cap THEN Append(q, message) ELSE q

Note == [kind |-> "note"]

\* _provenance_snapshot: how the channels are decoded as of now.
Snapshot == [mode |-> mode, version |-> meta]

\* start_run: the configuration is snapshot by the caller, and the put waits
\* for room.  An event follows at once.
StartRun ==
  /\ Len(queue) < Cap
  /\ queue' = Nowait(Append(queue, [kind |-> "run", epoch |-> epoch, config |-> Snapshot]),
                     Note)

Change ==
  /\ changes < MaxChanges
  /\ changes' = changes + 1

\* A connection is made and its ECU found; the clock anchor is taken.
Connect ==
  /\ pc = "down"
  /\ Change
  /\ pc' = "connecting"
  /\ anchor' = epoch
  /\ UNCHANGED <<mode, wanted, meta, queue, stopping, thread, disk, epoch,
                 taken, kept>>

\* The profile is resolved, and set_metadata points the recorder at it.
Resolve(version) ==
  /\ pc = "connecting"
  /\ pc' = "resolved"
  /\ meta' = version
  /\ UNCHANGED <<mode, wanted, anchor, queue, stopping, thread, disk, ghosts>>

\* The connection's run is opened.
Open ==
  /\ pc = "resolved"
  /\ StartRun
  /\ pc' = "top"
  /\ UNCHANGED <<mode, wanted, meta, anchor, stopping, thread, disk, ghosts>>

\* The top of a cycle takes a mode request; without a change it falls through.
Take ==
  /\ pc = "top"
  /\ wanted' = None
  /\ \/ wanted \in {None, mode} /\ pc' = "clock" /\ UNCHANGED <<mode, anchor>>
     \/ /\ wanted \notin {None, mode}
        /\ pc' = "switched"
        /\ mode' = wanted
        /\ anchor' = epoch
  /\ UNCHANGED <<meta, queue, stopping, thread, disk, ghosts>>

\* The new mode's run is opened.
Switch ==
  /\ pc = "switched"
  /\ StartRun
  /\ pc' = "clock"
  /\ UNCHANGED <<mode, wanted, meta, anchor, stopping, thread, disk, ghosts>>

\* Has the clock been stepped?  The event about it is put before the run.
LookAtClock ==
  /\ pc = "clock"
  /\ \/ anchor = epoch /\ pc' = "cycle" /\ UNCHANGED queue
     \/ anchor # epoch /\ pc' = "stepped" /\ queue' = Nowait(queue, Note)
  /\ anchor' = epoch
  /\ UNCHANGED <<mode, wanted, meta, stopping, thread, disk, ghosts>>

\* The run after a step is opened; no event follows.
Restep ==
  /\ pc = "stepped"
  /\ Len(queue) < Cap
  /\ queue' = Append(queue, [kind |-> "run", epoch |-> epoch, config |-> Snapshot])
  /\ pc' = "cycle"
  /\ UNCHANGED <<mode, wanted, meta, anchor, stopping, thread, disk, ghosts>>

\* The plan's requests are executed and what landed is written: nothing, a
\* fault, a reading or both.
Cycle(faulted) ==
  /\ pc = "cycle"
  /\ pc' = "top"
  /\ LET q == IF faulted THEN Nowait(queue, Note) ELSE queue
         reading == [at |-> taken + 1, epoch |-> epoch, config |-> Snapshot]
     IN \/ queue' = q /\ UNCHANGED <<taken, kept>>
        \/ /\ taken < MaxReadings
           /\ taken' = taken + 1
           /\ queue' = Nowait(q, [kind |-> "s", reading |-> reading])
           /\ kept' = IF Len(q) < Cap THEN kept \cup {taken + 1} ELSE kept
  /\ UNCHANGED <<mode, wanted, meta, anchor, stopping, thread, disk, epoch,
                 changes>>

\* An exception on the way: the loop notes it and starts again.
Fail ==
  /\ pc \in {"connecting", "cycle"}
  /\ pc' = "down"
  /\ queue' = Nowait(queue, Note)
  /\ UNCHANGED <<mode, wanted, meta, anchor, stopping, thread, disk, ghosts>>

-----------------------------------------------------------------------------
(* The writer thread *)

Working == writer = "running" /\ pc # "off"

Pop ==
  /\ Working
  /\ job = None
  /\ queue # <<>>
  /\ Len(pending) < Chunk
  /\ job' = Head(queue)
  /\ queue' = Tail(queue)
  /\ UNCHANGED <<poll, stopping, writer, pending, run, prov, seen, noted, disk,
                 ghosts>>

\* A commit takes the open transaction's run_channels row along.
Committed ==
  IF noted = None THEN disk.runs
  ELSE [disk.runs EXCEPT ![run].channel = noted]

\* Mutation: only a run boundary or the end flushes.
FlushAtBoundary ==
  pending # <<>> /\ (IF job = None THEN FALSE ELSE job.kind \in {"run", "stop"})

FlushDue ==
  pending # <<>> /\ (IF job = None THEN TRUE ELSE job.kind \in {"run", "stop"})

\* Mutation: the buffer is not cleared.
FlushKeeps ==
  /\ Working
  /\ FlushDue
  /\ disk' = [disk EXCEPT !.runs = Committed, !.rows = @ \o pending]
  /\ noted' = None
  /\ UNCHANGED <<poll, queue, stopping, writer, job, pending, run, prov, seen,
                 ghosts>>

\* _flush: the chunk is full, the interval is up, or a run or stop message
\* asks for it.
Flush ==
  /\ Working
  /\ FlushDue
  /\ disk' = [disk EXCEPT !.runs = Committed, !.rows = @ \o pending]
  /\ noted' = None
  /\ pending' = <<>>
  /\ UNCHANGED <<poll, queue, stopping, writer, job, run, prov, seen, ghosts>>

Closed(all) == IF run = 0 THEN all ELSE [all EXCEPT ![run].ended = TRUE]

\* Mutation: the buffer is flushed after the new run is open.
BeginRunFirst ==
  /\ Working
  /\ job # None /\ job.kind = "run"
  /\ disk' = [disk EXCEPT !.runs =
                Append(Closed(Committed),
                       [config |-> job.config, ended |-> FALSE,
                        epoch |-> job.epoch, channel |-> None])]
  /\ run' = Len(disk.runs) + 1
  /\ prov' = job.config.version
  /\ seen' = FALSE /\ noted' = None /\ job' = None
  /\ UNCHANGED <<poll, queue, stopping, writer, pending, ghosts>>

\* A run message: the run before is ended and the new one inserted, in one
\* transaction, after the flush.
BeginRun ==
  /\ Working
  /\ job # None /\ job.kind = "run"
  /\ pending = <<>>
  /\ disk' = [disk EXCEPT !.runs =
                Append(Closed(Committed),
                       [config |-> job.config, ended |-> FALSE,
                        epoch |-> job.epoch, channel |-> None])]
  /\ run' = Len(disk.runs) + 1
  /\ prov' = job.config.version
  /\ seen' = FALSE /\ noted' = None /\ job' = None
  /\ UNCHANGED <<poll, queue, stopping, writer, pending, ghosts>>

\* Mutation: the provenance is looked up when the sample is written.
LabelLive == IF seen THEN noted ELSE meta

\* _note_run_channel: the run_channels row is written on the channel's first
\* sample of the run, from the run's snapshot.
Label == IF seen THEN noted ELSE prov

\* A sample message: the channel is labelled and its row buffered.
Buffer ==
  /\ Working
  /\ job # None /\ job.kind = "s" /\ run # 0
  /\ noted' = Label
  /\ seen' = TRUE
  /\ pending' = Append(pending, [run |-> run, at |-> job.reading.at,
                                 config |-> job.reading.config,
                                 epoch |-> job.reading.epoch])
  /\ job' = None
  /\ UNCHANGED <<poll, queue, stopping, writer, run, prov, disk, ghosts>>

\* A fault or an event is inserted and committed at once.
WriteNote ==
  /\ Working
  /\ job = Note /\ run # 0
  /\ disk' = [disk EXCEPT !.runs = Committed,
                          !.notes = IF Len(@) < MaxNotes THEN Append(@, run)
                                    ELSE @]
  /\ noted' = None
  /\ job' = None
  /\ UNCHANGED <<poll, queue, stopping, writer, pending, run, prov, seen,
                 ghosts>>

\* Before the first run there is nothing to attach a note to.
SkipNote ==
  /\ Working
  /\ job = Note
  /\ run = 0
  /\ job' = None
  /\ UNCHANGED <<poll, queue, stopping, writer, pending, run, prov, seen,
                 noted, disk, ghosts>>

\* The stop message, after its flush.
EndWriter ==
  /\ Working
  /\ job # None /\ job.kind = "stop"
  /\ pending = <<>>
  /\ disk' = [disk EXCEPT !.runs = Closed(Committed)]
  /\ writer' = "ended"
  /\ job' = None /\ noted' = None
  /\ UNCHANGED <<poll, queue, stopping, pending, run, prov, seen, ghosts>>

\* SQLite raises (disk full, I/O error), and nothing catches it.
WriterDies ==
  /\ Working
  /\ job # None \/ pending # <<>>
  /\ writer' = "dead"
  /\ UNCHANGED <<poll, queue, stopping, job, pending, run, prov, seen, noted,
                 disk, ghosts>>

-----------------------------------------------------------------------------
(* The operator, the host and the process *)

\* /api/mode.
RequestMode(m) ==
  /\ pc # "off"
  /\ Change
  /\ wanted' = m
  /\ UNCHANGED <<pc, mode, meta, anchor, queue, stopping, thread, disk, epoch,
                 taken, kept>>

\* A step while there is no connection changes nothing: the anchor of the
\* next one is taken after it.
StepClock ==
  /\ pc \notin {"off", "down"}
  /\ Change
  /\ epoch' = epoch + 1
  /\ UNCHANGED <<poll, queue, stopping, thread, disk, taken, kept>>

\* close(): the stop message is put; the poll thread runs on meanwhile.
Stop ==
  /\ pc # "off"
  /\ ~stopping
  /\ Len(queue) < Cap
  /\ stopping' = TRUE
  /\ queue' = Append(queue, [kind |-> "stop"])
  /\ UNCHANGED <<poll, thread, disk, ghosts>>

\* The process is gone: after close(), its join timed out or not, or killed.
Exit ==
  /\ pc # "off"
  /\ pc' = "off"
  /\ Fresh
  /\ UNCHANGED <<disk, epoch, taken, changes>>

Restart ==
  /\ pc = "off"
  /\ Change
  /\ pc' = "down"
  /\ UNCHANGED <<mode, wanted, meta, anchor, queue, stopping, thread, disk,
                 epoch, taken, kept>>

PollStep == \/ Connect \/ (\E v \in Versions : Resolve(v)) \/ Open \/ Take \/ Switch
            \/ LookAtClock \/ Restep \/ Fail
            \/ \E faulted \in BOOLEAN : Cycle(faulted)

WriterStep == Pop \/ Flush \/ BeginRun \/ Buffer \/ WriteNote \/ SkipNote
              \/ EndWriter

Next == \/ PollStep \/ WriterStep \/ WriterDies
        \/ (\E m \in Modes : RequestMode(m))
        \/ StepClock \/ Stop \/ Exit \/ Restart

Spec == Init /\ [][Next]_vars

\* Both threads run.
FairSpec == Spec /\ WF_vars(PollStep) /\ WF_vars(WriterStep)

-----------------------------------------------------------------------------
(* Properties *)

\* The tables as another process sees them.
RunRow(r, i)  == [uid |-> i, config |-> r.config, ended |-> r.ended]
SampleRow(r)  == [run |-> r.run, at |-> r.at, config |-> r.config]
StoredRuns    == [i \in DOMAIN disk.runs |-> RunRow(disk.runs[i], i)]
StoredRows    == [i \in DOMAIN disk.rows |-> SampleRow(disk.rows[i])]
StoredNotes   == [i \in DOMAIN disk.notes |-> [run |-> disk.notes[i], at |-> 0]]
StoredCurrent == IF writer = "ended" THEN 0 ELSE run
StoredLatest  == IF disk.rows = <<>> THEN 0 ELSE disk.rows[Len(disk.rows)].at

\* What another process sees is a RunStore: one run, one configuration; rows
\* in the order they were read; nothing added to a run that has ended
\* (live.py:1726-1740, 3304-3307).
Store == INSTANCE RunStore WITH
  Configs <- Config,
  runs <- StoredRuns, rows <- StoredRows, notes <- StoredNotes,
  current <- StoredCurrent, latest <- StoredLatest, minted <- Len(disk.runs)

StoreSpec == Store!StoreSpec

\* A row is published under the mapping version and the mode it was read
\* with, whatever profile a later connection put in place before the row was
\* written (live.py:1766-1777, 2022-2057).
ProvenanceHolds ==
  \A i \in DOMAIN disk.rows :
    LET row == disk.rows[i]
    IN /\ disk.runs[row.run].config = row.config
       /\ disk.runs[row.run].channel = row.config.version

\* The readings on their way through the process, oldest first: 0 where a
\* message is not one.
Ats(s)   == [i \in DOMAIN s |-> s[i].at]
Held(s)  == [i \in DOMAIN s |-> IF s[i].kind = "s" THEN s[i].reading.at ELSE 0]
OnTheWay == Ats(disk.rows) \o Ats(pending)
            \o (IF job = None THEN <<>> ELSE Held(<<job>>)) \o Held(queue)

\* A reading that entered the queue is on the disk or still on its way to it,
\* once and in order: not across a run boundary, a full buffer, a dead writer
\* or readings that were dropped before or after it (live.py:1651-1658).
NoneLostNoneTwice ==
  /\ \A i, j \in DOMAIN OnTheWay :
       i < j /\ OnTheWay[j] # 0 => OnTheWay[i] < OnTheWay[j]
  /\ kept \subseteq {OnTheWay[i] : i \in DOMAIN OnTheWay}

\* As long as the writer lives, the poll thread does not wait for ever for room
\* in the queue (live.py:1653-1654).
Waiting == pc \in {"resolved", "switched", "stepped"}
PollLoopMoves == Waiting ~> (~Waiting \/ writer # "running")

\* A run never spans a step of the host clock: all of its rows carry times of
\* the clock it was opened under (live.py:3327-3332).
NoRunSpansAStep ==
  \A i \in DOMAIN disk.rows :
    disk.rows[i].epoch = disk.runs[disk.rows[i].run].epoch
=============================================================================
