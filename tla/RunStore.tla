------------------------------ MODULE RunStore ------------------------------
(***************************************************************************)
(* What the telemetry database promises its readers, as one abstract       *)
(* specification: a drive is a sequence of runs, each with ONE sampling     *)
(* configuration (drive mode and mapping version); rows are only ever      *)
(* appended, in the order they were read, to the run that is open, and     *)
(* under that run's configuration; opening a run ends the one before it;   *)
(* a run that has ended never gets another row.  Recorder implements this, *)
(* Sync reads it.                                                          *)
(*                                                                         *)
(* Indices are ids: run i is runs[i], row i has rowid i.  `at` and `uid`   *)
(* identify a reading (its channel and time) and a run (its ULID).         *)
(***************************************************************************)
EXTENDS Naturals, Sequences

CONSTANT Configs \* pairs of a drive mode and a mapping version

VARIABLES
  runs,    \* the runs table: [uid, config, ended]
  rows,    \* the samples table: [run, at, config], config being the one the
           \* reading was made under (not a column)
  notes,   \* the errors and events tables: [run, at]
  current, \* the run the recording process has open, 0 if none
  latest,  \* the newest reading written so far
  minted   \* the runs opened so far

tables    == <<runs, rows, notes>>
storeVars == <<tables, current, latest, minted>>

StoreTypeOK ==
  /\ runs \in Seq([uid : Nat, config : Configs, ended : BOOLEAN])
  /\ rows \in Seq([run : Nat, at : Nat, config : Configs])
  /\ notes \in Seq([run : Nat, at : Nat])
  /\ current \in Nat /\ latest \in Nat /\ minted \in Nat

StoreInit ==
  /\ runs = <<>> /\ rows = <<>> /\ notes = <<>>
  /\ current = 0 /\ latest = 0 /\ minted = 0

\* The runs with the open one ended.
Ended == IF current = 0 THEN runs ELSE [runs EXCEPT ![current].ended = TRUE]

OpenRun(config) ==
  /\ runs' = Append(Ended, [uid |-> minted + 1, config |-> config,
                            ended |-> FALSE])
  /\ current' = Len(runs) + 1
  /\ minted' = minted + 1
  /\ UNCHANGED <<rows, notes, latest>>

\* The process stops in order.
EndRun ==
  /\ current # 0
  /\ runs' = Ended
  /\ current' = 0
  /\ UNCHANGED <<rows, notes, latest, minted>>

\* The process is gone and has ended nothing.
AbandonRun ==
  /\ current' = 0
  /\ UNCHANGED <<tables, latest, minted>>

\* Readings, oldest first, made under the open run's configuration.
AddRows(ats) ==
  /\ current # 0
  /\ ats # <<>>
  /\ \A i \in DOMAIN ats :
       ats[i] > IF i = 1 THEN latest ELSE ats[i - 1]
  /\ rows' = rows \o [i \in DOMAIN ats |->
                        [run |-> current, at |-> ats[i],
                         config |-> runs[current].config]]
  /\ latest' = ats[Len(ats)]
  /\ UNCHANGED <<runs, notes, current, minted>>

AddNote(at) ==
  /\ current # 0
  /\ notes' = Append(notes, [run |-> current, at |-> at])
  /\ UNCHANGED <<runs, rows, current, latest, minted>>

\* What a step added to a table.
Added(table, table2) == SubSeq(table2, Len(table) + 1, Len(table2))

StoreNext ==
  \/ \E config \in Configs : OpenRun(config)
  \/ EndRun
  \/ AbandonRun
  \/ AddRows([i \in DOMAIN Added(rows, rows') |-> Added(rows, rows')[i].at])
  \/ notes' # notes /\ AddNote(notes'[Len(notes')].at)

StoreSpec == StoreInit /\ [][StoreNext]_storeVars
=============================================================================
