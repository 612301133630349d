-------------------------------- MODULE Sync --------------------------------
(***************************************************************************)
(* infra/sync/agent.py ships a telemetry database to the lake, over a link *)
(* that drops without warning; infra/ingest/server.py stores what arrives. *)
(*                                                                         *)
(* The recorder is RunStore, which Recorder implements; the database is    *)
(* WAL with synchronous=NORMAL, so what is committed survives the end of a *)
(* process, and after a power loss only what was checkpointed (`safe`).    *)
(* The agent makes one pass after the other over sessions, errors and      *)
(* samples; its watermarks are in a file written with fsync and rename.    *)
(* An attempt to send is a POST the server may have stored by the time the *)
(* agent hears of it or stops waiting; a copy the agent no longer waits    *)
(* for may be stored later.                                                *)
(*                                                                         *)
(* The lake's samples and sessions are ReplacingMergeTrees read with FINAL *)
(* (one row for a key, the last one inserted); channel_errors is a plain   *)
(* MergeTree, a bag.  A sample's key is its channel, time and session,     *)
(* kept as uid and at; session ids made from ULIDs do not collide.  Every  *)
(* database has its own watermarks and its own turn: one is enough.        *)
(***************************************************************************)
EXTENDS RunStore

CONSTANTS
  BatchRows,   \* batch_rows
  LateCopies,  \* bound: copies nobody waits for, still to be stored
  MaxRuns, MaxRows, MaxNotes, MaxFailures, \* bounds
  First,       \* bound: the configuration of the first run, any will do
  None

ASSUME BatchAssumption == BatchRows \in Nat \ {0}
ASSUME SyncBoundsAssumption ==
  {LateCopies, MaxRuns, MaxRows, MaxNotes, MaxFailures} \subseteq Nat
ASSUME FirstAssumption == First \in Configs

VARIABLES
  safe,     \* the tables as of the last checkpoint
  pc,       \* the agent: "off", "top", "sessions", "errors", "samples",
            \* or "waiting" in _send_with_retry
  enabled,  \* self.enabled
  marks,    \* the state file: sessions_id, errors_rowid, samples_rowid
  batch,    \* the batch being sent
  stored,   \* has the server stored this attempt to send it?
  late,     \* the copies nobody waits for any more
  lake,     \* the lake's tables
  stale,    \* ghost: sessions whose last insert was such a copy
  lapsed,   \* ghost: a power loss took back what had been shipped
  failures  \* bound: crashes, pauses, refusals, power losses, lost
            \* acks and late copies so far

agentVars == <<pc, enabled, marks, batch, stored>>
vars      == <<storeVars, safe, agentVars, late, lake, stale, lapsed, failures>>

Tables == {"sessions", "errors", "samples"}
Batches ==
  [table : {"sessions"}, next : Nat, more : BOOLEAN,
   records : Seq([uid : Nat, config : Configs, ended : BOOLEAN])]
  \cup [table : {"errors"}, next : Nat, more : BOOLEAN,
        records : Seq([run : Nat, at : Nat])]
  \cup [table : {"samples"}, next : Nat, more : BOOLEAN,
        records : Seq([uid : Nat, at : Nat, config : Configs])]

TypeOK ==
  /\ StoreTypeOK
  /\ pc \in {"off", "top", "sessions", "errors", "samples", "waiting"}
  /\ enabled \in BOOLEAN /\ stored \in BOOLEAN /\ lapsed \in BOOLEAN
  /\ marks \in [Tables -> Nat]
  /\ IF pc = "waiting" THEN batch \in Batches ELSE batch = None
  /\ late \in Seq(Batches)
  /\ \A u \in DOMAIN lake.runs :
       lake.runs[u] \in [uid : {u}, config : Configs, ended : BOOLEAN]
  /\ lake.notes \in Seq([run : Nat, at : Nat])
  /\ lake.rows \subseteq [uid : Nat, at : Nat, config : Configs]
  /\ failures \in Nat

Init ==
  /\ StoreInit
  /\ safe = tables
  /\ pc = "top" /\ enabled = TRUE
  /\ marks = [t \in Tables |-> 0]
  /\ batch = None /\ stored = FALSE /\ late = <<>>
  /\ lake = [runs |-> <<>>, notes |-> <<>>, rows |-> {}]
  /\ stale = {} /\ lapsed = FALSE
  /\ failures = 0

-----------------------------------------------------------------------------
(* Reading the database *)

Min2(a, b) == IF a < b THEN a ELSE b

\* Mutation: a sample is labelled with its channel's first version.
SampleRecordFirst(row) == [uid |-> runs[row.run].uid, at |-> row.at,
                           config |-> runs[1].config]

\* The sample is joined to its run, and to its run's run_channels row.
SampleRecord(row) == [uid |-> runs[row.run].uid, at |-> row.at,
                      config |-> runs[row.run].config]

\* Mutation: the watermark is moved as for the other tables.
SessionBatchTop ==
  LET from == IF marks["sessions"] = 0 THEN 1 ELSE marks["sessions"]
  IN [table |-> "sessions", more |-> FALSE,
      records |-> [i \in 1 .. Len(runs) + 1 - from |-> runs[from + i - 1]],
      next |-> Len(runs) + 1]

\* New runs and the open one; the watermark moves behind the last ended one.
SessionBatch ==
  LET from  == IF marks["sessions"] = 0 THEN 1 ELSE marks["sessions"]
      ended == {i \in from .. Len(runs) : runs[i].ended}
  IN [table |-> "sessions", more |-> FALSE,
      records |-> [i \in 1 .. Len(runs) + 1 - from |-> runs[from + i - 1]],
      next |-> IF ended = {} THEN marks["sessions"]
               ELSE 1 + CHOOSE i \in ended : \A j \in ended : j <= i]

\* At most BatchRows rows behind the watermark, and the cursor after them.
Page(table, mark) == SubSeq(table, mark + 1, Min2(mark + BatchRows, Len(table)))

ErrorBatch ==
  LET page == Page(notes, marks["errors"])
  IN [table |-> "errors", more |-> FALSE, records |-> page,
      next |-> marks["errors"] + Len(page)]

SampleBatch ==
  LET page == Page(rows, marks["samples"])
  IN [table |-> "samples", more |-> Len(page) = BatchRows,
      records |-> [i \in DOMAIN page |-> SampleRecord(page[i])],
      next |-> marks["samples"] + Len(page)]

-----------------------------------------------------------------------------
(* The agent *)

\* Where a pass goes on after a batch of this table.
Onward(table, more) == CASE table = "sessions" -> "errors"
                         [] table = "errors"   -> "samples"
                         [] table = "samples"  -> IF more THEN "samples" ELSE "top"

\* The top of the loop: a paused agent waits.
Top ==
  /\ pc = "top"
  /\ enabled
  /\ pc' = "sessions"
  /\ UNCHANGED <<storeVars, safe, enabled, marks, batch, stored, late, lake,
                 stale, lapsed, failures>>

\* Mutation: without news of sessions the pass is over.
ReadStops(b) ==
  /\ pc = b.table
  /\ IF b.records = <<>> \/ (pc = "samples" /\ ~enabled)
       THEN pc' = "top" /\ UNCHANGED batch
       ELSE pc' = "waiting" /\ batch' = b
  /\ UNCHANGED <<storeVars, safe, enabled, marks, stored, late, lake, stale,
                 lapsed, failures>>

\* Reads what is behind the watermark; without any the pass goes on.
Read(b) ==
  /\ pc = b.table
  /\ IF b.records = <<>> \/ (pc = "samples" /\ ~enabled)
       THEN pc' = Onward(pc, FALSE) /\ UNCHANGED batch
       ELSE pc' = "waiting" /\ batch' = b
  /\ UNCHANGED <<storeVars, safe, enabled, marks, stored, late, lake, stale,
                 lapsed, failures>>

\* The batch is done with, and the pass goes on.
Done(more) ==
  /\ pc' = Onward(batch.table, more)
  /\ batch' = None
  /\ stored' = FALSE

\* Mutation: the watermark is set to where the table has grown meanwhile.
AckToTop ==
  /\ pc = "waiting"
  /\ stored
  /\ marks' = [marks EXCEPT ![batch.table] =
                 IF batch.table = "samples" THEN Len(rows) ELSE batch.next]
  /\ Done(batch.more)
  /\ UNCHANGED <<storeVars, safe, enabled, late, lake, stale, lapsed, failures>>

\* 200: the watermark is moved behind the batch.
Ack ==
  /\ pc = "waiting"
  /\ stored
  /\ marks' = [marks EXCEPT ![batch.table] = batch.next]
  /\ Done(batch.more)
  /\ UNCHANGED <<storeVars, safe, enabled, late, lake, stale, lapsed, failures>>

Failure ==
  /\ failures < MaxFailures
  /\ failures' = failures + 1

\* 401, 400, 413: the agent pauses itself and gives the batch up.
Refuse ==
  /\ pc = "waiting"
  /\ ~stored
  /\ Failure
  /\ enabled' = FALSE
  /\ Done(FALSE)
  /\ UNCHANGED <<storeVars, safe, marks, late, lake, stale, lapsed>>

\* What becomes of the copy the agent stops waiting for: it was stored, or
\* the server has it and is not done.  A lost one leaves nothing behind.
Abandon ==
  /\ Failure
  /\ \/ stored /\ UNCHANGED late
     \/ ~stored /\ Len(late) < LateCopies /\ late' = Append(late, batch)

\* A network error, a timeout, a 429 or a 5xx: the same batch is sent again.
\* An attempt that was lost changes nothing and is a stuttering step.
NoAnswer ==
  /\ pc = "waiting"
  /\ Abandon
  /\ stored' = FALSE
  /\ UNCHANGED <<storeVars, safe, pc, enabled, marks, batch, lake, stale,
                 lapsed>>

\* The agent's process ends; its service manager starts it again.
Crash ==
  /\ pc # "off"
  /\ Failure
  /\ pc' = "off"
  /\ batch' = None /\ stored' = FALSE
  /\ \/ UNCHANGED late
     \/ /\ pc = "waiting" /\ ~stored /\ Len(late) < LateCopies
        /\ late' = Append(late, batch)
  /\ UNCHANGED <<storeVars, safe, enabled, marks, lake, stale, lapsed>>

Start ==
  /\ pc = "off"
  /\ pc' = "top"
  /\ enabled' = TRUE
  /\ UNCHANGED <<storeVars, safe, marks, batch, stored, late, lake, stale,
                 lapsed, failures>>

\* /sync/pause.
Pause ==
  /\ pc # "off"
  /\ enabled
  /\ Failure
  /\ enabled' = FALSE
  /\ UNCHANGED <<storeVars, safe, pc, marks, batch, stored, late, lake, stale,
                 lapsed>>

\* /sync/resume.
Resume ==
  /\ pc # "off"
  /\ ~enabled
  /\ enabled' = TRUE
  /\ UNCHANGED <<storeVars, safe, pc, marks, batch, stored, late, lake, stale,
                 lapsed, failures>>

-----------------------------------------------------------------------------
(* The ingest server and the lake *)

Members(s) == {s[i] : i \in DOMAIN s}

\* The lake after a batch: a session replaces what was there of its key.
Insert(b) ==
  CASE b.table = "sessions" ->
         LET uids == {r.uid : r \in Members(b.records)}
         IN [lake EXCEPT !.runs =
               [u \in DOMAIN @ \cup uids |->
                  IF u \in uids THEN CHOOSE r \in Members(b.records) : r.uid = u
                  ELSE @[u]]]
    [] b.table = "errors"  -> [lake EXCEPT !.notes = @ \o b.records]
    [] b.table = "samples" -> [lake EXCEPT !.rows = @ \cup Members(b.records)]

Touched(b) == IF b.table = "sessions" THEN {r.uid : r \in Members(b.records)} ELSE {}

\* do_POST: the attempt the agent waits for is stored.
Store ==
  /\ pc = "waiting"
  /\ ~stored
  /\ lake' = Insert(batch)
  /\ stored' = TRUE
  /\ stale' = stale \ Touched(batch)
  /\ UNCHANGED <<storeVars, safe, pc, enabled, marks, batch, late, lapsed,
                 failures>>

\* A copy nobody waits for is stored.
StoreLate ==
  \E i \in DOMAIN late :
    /\ lake' = Insert(late[i])
    /\ late' = SubSeq(late, 1, i - 1) \o SubSeq(late, i + 1, Len(late))
    /\ stale' = stale \cup Touched(late[i])
    /\ UNCHANGED <<storeVars, safe, agentVars, lapsed, failures>>

-----------------------------------------------------------------------------
(* The recorder and the host *)

Record ==
  /\ \/ /\ minted < MaxRuns
        /\ \E config \in IF minted = 0 THEN {First} ELSE Configs : OpenRun(config)
     \/ EndRun
     \/ current # 0 /\ AbandonRun
     \/ latest < MaxRows /\ AddRows(<<latest + 1>>)
     \/ Len(notes) < MaxNotes /\ AddNote(Len(notes) + 1)
  /\ UNCHANGED <<safe, agentVars, late, lake, stale, lapsed, failures>>

\* The WAL reaches the disk, which tells only while power may be lost.
Checkpoint ==
  /\ failures < MaxFailures
  /\ safe # tables
  /\ safe' = tables
  /\ UNCHANGED <<storeVars, agentVars, late, lake, stale, lapsed, failures>>

\* The host loses power: what was committed since the checkpoint is undone,
\* and its ids will be given again.
PowerLoss ==
  /\ Failure
  /\ runs' = safe[1] /\ rows' = safe[2] /\ notes' = safe[3]
  /\ current' = 0
  /\ lapsed' = (lapsed \/ marks["samples"] > Len(safe[2])
                       \/ marks["errors"] > Len(safe[3])
                       \/ marks["sessions"] > Len(safe[1]) + 1
                       \/ \E i \in DOMAIN safe[1] :
                            i < marks["sessions"] /\ ~safe[1][i].ended)
  /\ pc' = "off" /\ batch' = None /\ stored' = FALSE
  /\ UNCHANGED <<latest, minted, safe, enabled, marks, late, lake, stale>>

AgentStep == \/ Top \/ Start
             \/ \E b \in {SessionBatch, ErrorBatch, SampleBatch} : Read(b)

Next == \/ AgentStep \/ Ack \/ Refuse \/ NoAnswer \/ Crash
        \/ Pause \/ Resume
        \/ Store \/ StoreLate
        \/ Record \/ Checkpoint \/ PowerLoss

Spec == Init /\ [][Next]_vars

\* The agent runs, and no batch is retried for ever: the link, which fails
\* MaxFailures times here, lets an attempt and its answer through in the end.
FairSpec == Spec /\ WF_vars(AgentStep \/ Store \/ Ack)

-----------------------------------------------------------------------------
(* Properties *)

\* Everything behind a watermark is in the lake.
Skipless ==
  /\ \A i \in 1 .. marks["samples"] :
       i \in DOMAIN rows =>
         \E r \in lake.rows : /\ r.uid = runs[rows[i].run].uid
                              /\ r.at = rows[i].at
  /\ \A i \in 1 .. marks["errors"] :
       i \in DOMAIN notes => notes[i] \in Members(lake.notes)
  /\ \A i \in DOMAIN runs :
       i < marks["sessions"] => runs[i].uid \in DOMAIN lake.runs

\* Nothing is skipped, by crashes, lost acks, late copies, pauses or refusals,
\* nor by a power loss that takes back nothing that was shipped
\* (agent.py:11-23, infra/README.md:95-97).
NothingSkipped == ~lapsed => Skipless

\* A watermark never skips data: "never re-uploading acked data, never
\* skipping unacked data" (infra/README.md:95-97).
NeverSkips == Skipless

\* Every sample in the lake carries the configuration it was read under,
\* however often mapping and mode changed before it was shipped
\* (agent.py:198-232).
LabelledAsRead ==
  \A i \in DOMAIN rows : \A r \in lake.rows :
    r.uid = runs[rows[i].run].uid /\ r.at = rows[i].at
      => r.config = rows[i].config

\* A session behind the watermark that has ended is ended in the lake, unless
\* an old copy was stored after the news (agent.py:511-529).
SessionsSettle ==
  \A i \in DOMAIN runs :
    i < marks["sessions"] /\ runs[i].ended /\ runs[i].uid \notin stale /\ ~lapsed
      => runs[i].uid \in DOMAIN lake.runs /\ lake.runs[runs[i].uid].ended

\* Again and again everything recorded is shipped, unless the agent is paused
\* (agent.py:583-616).
CaughtUp == []<>(marks["samples"] >= Len(rows) \/ ~enabled)
=============================================================================
