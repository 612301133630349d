--------------------------- MODULE OdometerStream ---------------------------
(***************************************************************************)
(* live.py _odometer_stream: the threads that send the odometer's state to *)
(* clients, over Odometer.  A thread takes (version, snapshot) under the   *)
(* lock, sleeps out the gap to its last event and then takes both again,   *)
(* and sends outside the lock: the poll loop may feed between any two of   *)
(* its steps.  How long the gap is does not matter here; a keepalive line  *)
(* changes nothing.                                                        *)
(***************************************************************************)
EXTENDS Odometer

CONSTANT Nothing

VARIABLES
  pc,   \* where each thread is
  snap, \* its snapshot
  sent  \* the last body its client received

streamVars == <<pc, snap, sent>>

\* _snapshot, field by field (`odometer_m` is None without an anchor).
Snapshot == [odometer_m |-> total, known |-> anchor # NoAnchor,
             odometer_t |-> anchorT, speed_t |-> speedT,
             connected |-> connected, clock_synced |-> synced,
             resets |-> resets, rejected |-> rejected, mapping |-> loaded]

StreamInit ==
  /\ pc = [s \in Streams |-> "closed"]
  /\ snap = [s \in Streams |-> Nothing]
  /\ sent = [s \in Streams |-> Nothing]

\* A client connects; without the channel it gets a 503 instead.
Open(s) ==
  /\ pc[s] = "closed"
  /\ loaded
  /\ pc' = [pc EXCEPT ![s] = "waiting"]
  /\ upToDate' = upToDate \ {s}
  /\ UNCHANGED <<body, world, ghosts, snap, sent>>

\* Both are taken under the lock.
Take(s) ==
  /\ snap' = [snap EXCEPT ![s] = Snapshot]
  /\ upToDate' = upToDate \cup {s}

\* wait() returns with something new.
Wait(s) ==
  /\ pc[s] = "waiting"
  /\ s \notin upToDate
  /\ Take(s)
  /\ pc' = [pc EXCEPT ![s] = "pacing"]
  /\ UNCHANGED <<body, world, ghosts, sent>>

\* The gap is slept out, and the latest state is taken; or there is no gap.
Pace(s) ==
  /\ pc[s] = "pacing"
  /\ Take(s) \/ UNCHANGED <<snap, upToDate>>
  /\ pc' = [pc EXCEPT ![s] = "sending"]
  /\ UNCHANGED <<body, world, ghosts, sent>>

\* The event is written.
SendEvent(s) ==
  /\ pc[s] = "sending"
  /\ sent' = [sent EXCEPT ![s] = snap[s]]
  /\ pc' = [pc EXCEPT ![s] = "waiting"]
  /\ UNCHANGED <<body, upToDate, world, ghosts, snap>>

\* Writing to a client that is gone fails, and the thread ends.
Close(s) ==
  /\ pc[s] \in {"waiting", "sending"}
  /\ pc' = [pc EXCEPT ![s] = "closed"]
  /\ snap' = [snap EXCEPT ![s] = Nothing]
  /\ sent' = [sent EXCEPT ![s] = Nothing]
  /\ UNCHANGED <<body, upToDate, world, ghosts>>

StreamStep(s) == Open(s) \/ Wait(s) \/ Pace(s) \/ SendEvent(s) \/ Close(s)

StreamSpec ==
  /\ Init /\ StreamInit
  /\ [][\/ Next /\ UNCHANGED streamVars
        \/ \E s \in Streams : StreamStep(s)]_<<vars, streamVars>>

-----------------------------------------------------------------------------
\* A client whose thread waits for news has the state as it is: no change of
\* any published field - a refusal, a change of anchor, the link, the mapping -
\* goes unannounced, and none that lands while an event is being paced or sent
\* is taken for one that was sent (live.py:4211-4231, 4895-4938).
StreamFresh ==
  \A s \in Streams :
    pc[s] = "waiting" /\ s \in upToDate => sent[s] = Snapshot
=============================================================================
