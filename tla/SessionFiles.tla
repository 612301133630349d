---------------------------- MODULE SessionFiles ----------------------------
(***************************************************************************)
(* The per-drive databases on the card, shared by three processes: the     *)
(* runtime writes one, the sync agent ships them and keeps a watermark     *)
(* each, and the admin panel (admin/server.py) deletes one when asked to.  *)
(*                                                                         *)
(* The panel guesses which file is being written from the modification     *)
(* times.  A database in WAL mode is modified at its creation, at a        *)
(* checkpoint and at a clean close, not by a commit; and the host has no   *)
(* clock of its own, so that a boot may set the time back.  A drive is     *)
(* named by its start time and never reused.  The agent's side is          *)
(* Sync.tla: what is behind a watermark is in the lake.                    *)
(***************************************************************************)
EXTENDS Integers

CONSTANTS
  Drives,             \* names of the databases
  MaxRows, MaxTime,   \* bounds
  Nobody

ASSUME NobodyAssumption == Nobody \notin Drives /\ {MaxRows, MaxTime} \subseteq Nat

VARIABLES
  now,       \* the host's clock
  stepped,   \* ghost: it was set back
  disk,      \* the files in the directory
  begun,     \* the names used so far
  mtime,     \* of each main file
  rows,      \* committed rows of `samples`
  live,      \* the drive the runtime writes, or Nobody
  mark,      \* the watermark of each drive; -1 before the agent has seen it
  asked,     \* the deletion in progress: [name, force], or Nobody
  stage,     \* how far it has come
  deleted    \* ghost: deletions done: [name, force, live]

fileVars == <<now, stepped, disk, begun, mtime, rows, live, mark, asked, stage,
              deleted>>

FilesTypeOK ==
  /\ now \in 0 .. MaxTime
  /\ disk \subseteq begun /\ begun \subseteq Drives
  /\ live \in begun \cup {Nobody}
  /\ \A d \in Drives : mark[d] <= rows[d]
  /\ stage \in {"idle", "newest", "listed", "remove"}

FilesInit ==
  /\ now = 0 /\ stepped = FALSE /\ disk = {} /\ begun = {}
  /\ mtime = [d \in Drives |-> 0] /\ rows = [d \in Drives |-> 0]
  /\ live = Nobody /\ mark = [d \in Drives |-> -1]
  /\ asked = Nobody /\ stage = "idle" /\ deleted = {}

panelVars == <<asked, stage, deleted>>
runtimeVars == <<disk, begun, mtime, rows, live>>

\* A file is modified now; no two files ever at the same nanosecond.
Touch(d, time) ==
  /\ \A e \in disk \ {d} : mtime[e] # time
  /\ mtime' = [mtime EXCEPT ![d] = time]

-----------------------------------------------------------------------------
(* The runtime, the agent and the host's clock (seen from the panel). *)

StartDrive(d) ==
  /\ live = Nobody
  /\ d \notin begun
  /\ now < MaxTime /\ now' = now + 1
  /\ live' = d /\ begun' = begun \cup {d} /\ disk' = disk \cup {d}
  /\ Touch(d, now')
  /\ UNCHANGED <<stepped, rows, mark, panelVars>>

\* A commit goes to the WAL; an unlinked file takes rows as well.
Commit ==
  /\ live # Nobody
  /\ rows[live] < MaxRows
  /\ rows' = [rows EXCEPT ![live] = @ + 1]
  /\ UNCHANGED <<now, stepped, disk, begun, mtime, live, mark, panelVars>>

CheckpointFile ==
  /\ live # Nobody
  /\ Touch(live, now)
  /\ UNCHANGED <<now, stepped, disk, begun, rows, live, mark, panelVars>>

\* A clean end checkpoints; the power going does not.
EndDrive ==
  /\ live # Nobody
  /\ live' = Nobody
  /\ Touch(live, now) \/ UNCHANGED mtime
  /\ UNCHANGED <<now, stepped, disk, begun, rows, mark, panelVars>>

\* The agent ships what it reads of a file that is there.
Ship(d) ==
  /\ d \in disk
  /\ mark' = [mark EXCEPT ![d] = rows[d]]
  /\ UNCHANGED <<now, stepped, runtimeVars, panelVars>>

SetClock ==
  /\ \E t \in 0 .. MaxTime :
       /\ t = now + 1 \/ (t < now /\ ~stepped)
       /\ now' = t /\ stepped' = (stepped \/ t < now)
  /\ UNCHANGED <<runtimeVars, mark, panelVars>>

-----------------------------------------------------------------------------
(* POST /api/action/delete_session *)

\* `max(names, key=getmtime)`: any of the newest.
NewestSession == {d \in disk : \A e \in disk : mtime[e] <= mtime[d]}

\* Mutation: any watermark will do.
SyncedIfSeen(d) == mark[d] >= 0

\* read_session_files: TRUE only when both numbers are known and agree.
Synced(d) == mark[d] >= 0 /\ mark[d] >= rows[d]

\* The name is a plain one, and the file exists.
AskDelete(d, force) ==
  /\ asked = Nobody
  /\ d \in disk
  /\ asked' = [name |-> d, force |-> force]
  /\ stage' = "newest"
  /\ UNCHANGED <<now, stepped, runtimeVars, mark, deleted>>

Refuse == asked' = Nobody /\ stage' = "idle"
GoOn(next) == stage' = next /\ UNCHANGED asked

\* The newest database is never a target.
CheckNewest ==
  /\ stage = "newest"
  /\ \E newest \in NewestSession :
       IF newest = asked.name THEN Refuse ELSE GoOn("listed")
  /\ UNCHANGED <<now, stepped, runtimeVars, mark, deleted>>

\* It must be confirmed in the lake, unless forced.
CheckSynced ==
  /\ stage = "listed"
  /\ IF asked.force \/ Synced(asked.name) THEN GoOn("remove") ELSE Refuse
  /\ UNCHANGED <<now, stepped, runtimeVars, mark, deleted>>

\* The file, its WAL and its index go.
RemoveFile ==
  /\ stage = "remove"
  /\ Refuse
  /\ disk' = disk \ {asked.name}
  /\ deleted' = deleted \cup {[name |-> asked.name, force |-> asked.force,
                               live |-> asked.name = live]}
  /\ UNCHANGED <<now, stepped, begun, mtime, rows, live, mark>>

FilesNext ==
  \/ \E d \in Drives : StartDrive(d) \/ Ship(d)
                         \/ \E force \in BOOLEAN : AskDelete(d, force)
  \/ Commit \/ CheckpointFile \/ EndDrive \/ SetClock
  \/ CheckNewest \/ CheckSynced \/ RemoveFile

FilesSpec == FilesInit /\ [][FilesNext]_fileVars

-----------------------------------------------------------------------------
(* Properties *)

\* A deletion that was not forced never loses a sample the lake does not have,
\* before or after it, as long as the clock only goes forward: neither the
\* look at the times, nor the agent's watermark, nor the removal is atomic with
\* the other two (admin/server.py:1032-1066).
OnlyShippedIsDeleted ==
  \A d \in deleted : stepped \/ d.force \/ mark[d.name] = rows[d.name]

\* "the database the runtime is currently writing is never a target"
\* (admin/server.py:1003).
LiveNeverDeleted == \A d \in deleted : ~d.live
=============================================================================
