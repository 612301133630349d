------------------------------ MODULE Executor ------------------------------
(***************************************************************************)
(* mapping/execute.py MappingExecutor with its OBD reader, live.py         *)
(* ObdSession: what one connection does with the requests a cycle hands    *)
(* it.  A step is one exchange on the wire with everything the code does   *)
(* about its outcome.                                                      *)
(*                                                                         *)
(* The requests in Defines are read through one dynamic identifier of one  *)
(* ECU: a clear frame and a define frame, then the poll, the same bytes    *)
(* for all of them.  The ECU takes a frame only when it is done with the   *)
(* one before (HsfzClient with EcuDepth = 1), and what the transport       *)
(* promises is what HsfzClient is shown to implement (Transport): an       *)
(* answer that is not the call's own is flagged.  The counters of the      *)
(* diagnostics view are left out; `settled` stands for the fault stream    *)
(* and the readings.                                                       *)
(***************************************************************************)
EXTENDS Integers, FiniteSets, FiniteSetsExt

CONSTANTS
  Defines, Plain,       \* generic requests, with and without setup frames
  Pids,                 \* the PIDs of the OBD requests
  BatchSize, Strikes,   \* ObdSession: six to a frame, three strikes
  RequestFaultLimit, TransportFaultBudget, RestSeconds, RestMax,
  None

Generic == Defines \cup Plain

ASSUME LimitsAssumption ==
  /\ {BatchSize, Strikes, RequestFaultLimit, TransportFaultBudget,
      RestSeconds} \subseteq Nat \ {0}
  /\ RestMax \in Nat /\ RestMax >= RestSeconds
ASSUME NamesAssumption == None \notin Generic /\ Defines \cap Plain = {}

VARIABLES
  pc, cur,          \* where the executor is; the request it is at
  todo,             \* generic requests of this cycle still to come
  armed,            \* self._armed of the ECU of Defines
  silences,         \* self._transport_faults
  faults, restLen, restLeft, \* per request; the rest as ticks still owed
  multi, strikes, dead,      \* ObdSession: multi_ok, fails, dead
  ask, left, got,   \* ObdSession.read: its pids, those still to go, result
  settled,          \* pids of this read with a fault reported or a value
  reading,          \* the last reading of a generic request
  slot, held        \* the ECU: what its identifier is defined as, the frame
                    \* it is still working on

health  == <<silences, faults, restLen, restLeft>>
obd     == <<multi, strikes, dead, ask, left, got, settled>>
ecuVars == <<slot, held>>
execVars == <<pc, cur, todo, armed, health, obd, reading, ecuVars>>

\* errors.py: does a fault of this kind stay with its request, and is it an
\* answer?  ("other" is any exception outside the taxonomy.)
Kinds == {"timeout", "pending", "nack", "negative", "link", "other"}
RequestFaults == Kinds \ {"link", "other"}
Silent == {"timeout"}

ExecTypeOK ==
  /\ pc \in {"between", "batch", "single", "next", "clear", "define", "poll",
             "down"}
  /\ cur \in Generic \cup {None} /\ todo \subseteq Generic
  /\ armed \in Defines \cup {None}
  /\ silences \in 0 .. TransportFaultBudget
  /\ faults \in [Generic -> 0 .. RequestFaultLimit - 1]
  /\ restLen \in [Generic -> 0 .. RestMax]
  /\ restLeft \in [Generic -> 0 .. RestMax]
  /\ multi \in BOOLEAN /\ strikes \in [Pids -> 0 .. Strikes]
  /\ dead \subseteq Pids /\ ask \subseteq Pids /\ left \subseteq ask
  /\ got \subseteq ask /\ settled \subseteq ask
  /\ slot \in Defines \cup {None}

ExecInit ==
  /\ pc = "between" /\ cur = None /\ todo = {} /\ armed = None
  /\ silences = 0
  /\ faults = [r \in Generic |-> 0]
  /\ restLen = [r \in Generic |-> 0] /\ restLeft = [r \in Generic |-> 0]
  /\ multi = TRUE /\ strikes = [x \in Pids |-> 0] /\ dead = {}
  /\ ask = {} /\ left = {} /\ got = {} /\ settled = {}
  /\ reading = None /\ slot = None /\ held = None

-----------------------------------------------------------------------------
(* The ECU and the transport (external). *)

\* What the ECU makes of a frame: its new definition, and its answer.
SlotAfter(f) ==
  CASE f = "clear"  -> None
    [] f = "define" -> cur
    [] f = "poll"   -> slot

Work(f) == [frame |-> f,
            by |-> IF cur \in Plain THEN cur ELSE SlotAfter(f)]

Take(f, rest) ==
  IF cur \in Plain THEN UNCHANGED ecuVars
  ELSE slot' = SlotAfter(f) /\ held' = rest

\* A frame whose answer does not come in time: lost, refused a place because
\* the ECU is busy, or processed with the answer late or lost.
Unanswered(f, kind) ==
  \/ kind = "timeout" /\ UNCHANGED ecuVars
  \/ Take(f, None)
  \/ cur \in Defines /\ Take(f, Work(f))

\* A poll of an identifier that is not defined is refused; anything may be.
Refused(kind) ==
  IF kind = "negative" /\ cur \in Defines
    THEN held' = None /\ UNCHANGED slot
    ELSE UNCHANGED ecuVars

\* An answer of this shape: the frame's own, or the late one of a frame the
\* ECU was still working on, which the transport flags.
Answered(f, by, flagged) ==
  \/ /\ f = "poll" => Work(f).by # None
     /\ by = Work(f).by
     /\ flagged \in BOOLEAN
     /\ Take(f, None)
  \/ /\ cur \in Defines /\ held # None
     /\ held.frame = f
     /\ by = held.by
     /\ flagged = TRUE
     /\ UNCHANGED slot /\ held' = None

Fault(f, kind) ==
  IF kind \in {"timeout", "pending"} THEN Unanswered(f, kind) ELSE Refused(kind)

\* The ECU finishes by itself; its definition does not survive its sleep.
EcuFinishes ==
  /\ held # None
  /\ held' = None
  /\ UNCHANGED <<pc, cur, todo, armed, health, obd, reading, slot>>

EcuForgets ==
  /\ slot # None
  /\ slot' = None
  /\ UNCHANGED <<pc, cur, todo, armed, health, obd, reading, held>>

-----------------------------------------------------------------------------
(* execute_detailed: the OBD requests first, then the others in turn. *)

Start(generic, pids) ==
  /\ pc = "between"
  /\ todo' = generic
  /\ ask' = pids \ dead
  /\ left' = pids \ dead
  /\ got' = {} /\ settled' = {}
  /\ pc' = IF pids \subseteq dead THEN "next"
           ELSE IF multi THEN "batch" ELSE "single"
  /\ UNCHANGED <<cur, armed, health, multi, strikes, dead, reading, ecuVars>>

\* A link fault, or one nobody knows, is raised from wherever it happens; the
\* connection is torn down.  A define sequence is disarmed on the way, and
\* what the read had so far is dropped with it.
LinkLost ==
  /\ pc \in {"batch", "single", "clear", "define", "poll"}
  /\ pc' = "down"
  /\ armed' = IF cur \in Defines THEN None ELSE armed
  /\ UNCHANGED <<cur, todo, health, obd, reading, ecuVars>>

-----------------------------------------------------------------------------
(* ObdSession.read *)

\* The frame as a whole failed: a fault on every PID it carried, and one
\* frame per PID from here on.
BatchFails(batch) ==
  /\ pc' = "single"
  /\ settled' = settled \cup batch
  /\ UNCHANGED got /\ left' = ask \ got

\* Mutation: an answer that is not complete ends the read.
BatchEndsRead(batch, returned) ==
  /\ got' = got \cup returned
  /\ settled' = settled \cup returned
  /\ left' = left \ batch
  /\ pc' = IF left = batch THEN "next" ELSE "batch"

\* The frame was answered with some of its PIDs; the ones left out are
\* reported by _account_obd, whether or not the re-read delivers them.
BatchAnswers(batch, returned) ==
  /\ got' = got \cup returned
  /\ settled' = settled \cup batch
  /\ left' = IF returned = batch THEN left \ batch ELSE ask \ got'
  /\ pc' = IF returned # batch THEN "single"
           ELSE IF left = batch THEN "next" ELSE "batch"

Batch ==
  /\ pc = "batch"
  /\ \E batch \in kSubset(IF Cardinality(left) < BatchSize
                            THEN Cardinality(left) ELSE BatchSize, left) :
       \/ BatchFails(batch) /\ multi' = FALSE
       \/ \E returned \in SUBSET batch :
            /\ BatchAnswers(batch, returned)
            /\ multi' = (returned = batch)
  /\ UNCHANGED <<cur, todo, armed, health, strikes, dead, ask, reading,
                 ecuVars>>

\* One PID, one frame.  A value clears its strikes; an error or an answer
\* without it is a strike, and the third one retires it.
StrikeOrClear(p, back) ==
  /\ strikes' = [strikes EXCEPT ![p] = IF back THEN 0 ELSE @ + 1]
  /\ dead' = IF ~back /\ strikes[p] + 1 >= Strikes THEN dead \cup {p} ELSE dead

Single ==
  /\ pc = "single"
  /\ \E p \in left, back \in BOOLEAN :
       /\ StrikeOrClear(p, back)
       /\ got' = IF back THEN got \cup {p} ELSE got
       /\ settled' = settled \cup {p}
       /\ left' = left \ {p}
       /\ pc' = IF left = {p} THEN "next" ELSE "single"
  /\ UNCHANGED <<cur, todo, armed, health, multi, ask, reading, ecuVars>>

-----------------------------------------------------------------------------
(* _run_generic *)

\* The next request: it rests, or its setup is sent unless it is armed.
Skip(r) ==
  /\ pc = "next"
  /\ r \in todo
  /\ restLeft[r] > 0
  /\ todo' = todo \ {r}
  /\ UNCHANGED <<pc, cur, armed, health, obd, reading, ecuVars>>

Submit(r) ==
  /\ pc = "next"
  /\ r \in todo
  /\ restLeft[r] = 0
  /\ cur' = r
  /\ todo' = todo \ {r}
  /\ pc' = IF r \in Defines /\ armed # r THEN "clear" ELSE "poll"
  /\ UNCHANGED <<armed, health, obd, reading, ecuVars>>

\* A setup frame is answered; the last one arms.
SetupAnswered ==
  /\ pc \in {"clear", "define"}
  /\ \E by \in Defines \cup {None}, flagged \in BOOLEAN :
       Answered(pc, by, flagged)
  /\ pc' = IF pc = "clear" THEN "define" ELSE "poll"
  /\ armed' = IF pc = "define" THEN cur ELSE armed
  /\ UNCHANGED <<cur, todo, health, obd, reading>>

\* _request_recovered
Recovered(r) ==
  /\ faults' = [faults EXCEPT ![r] = 0]
  /\ restLen' = [restLen EXCEPT ![r] = 0]
  /\ restLeft' = [restLeft EXCEPT ![r] = 0]

\* The poll is answered: the link and the request are healthy, whatever the
\* decoder makes of the answer.  A flagged one is recorded as stale.
Polled ==
  /\ pc = "poll"
  /\ \E by \in Generic, flagged \in BOOLEAN :
       /\ Answered("poll", by, flagged)
       /\ reading' \in {None, [req |-> cur, by |-> by, stale |-> flagged]}
  /\ silences' = 0
  /\ Recovered(cur)
  /\ pc' = "next"
  /\ cur' = None
  /\ UNCHANGED <<todo, armed, obd>>

\* Mutation: only a fault of the poll disarms.
DisarmAfterPoll(r) == IF r \in Defines /\ pc = "poll" THEN None ELSE armed

\* `self._armed.pop(bound.dst, None)` for a request with a setup.
Disarm(r) == IF r \in Defines THEN None ELSE armed

\* _rest_request: the length of the rest that begins.
RestOf(r) ==
  LET twice == IF restLen[r] * 2 > RestSeconds THEN restLen[r] * 2
               ELSE RestSeconds
  IN IF twice > RestMax THEN RestMax ELSE twice

\* An exchange failed, but not the link: note, count, rest, and give up on
\* the link after a budget of silences.
Failed ==
  /\ pc \in {"clear", "define", "poll"}
  /\ \E kind \in RequestFaults :
       /\ Fault(pc, kind)
       /\ silences' = IF kind \in Silent THEN silences + 1 ELSE silences
  /\ armed' = Disarm(cur)
  /\ IF faults[cur] + 1 >= RequestFaultLimit
       THEN /\ faults' = [faults EXCEPT ![cur] = 0]
            /\ restLen' = [restLen EXCEPT ![cur] = RestOf(cur)]
            /\ restLeft' = [restLeft EXCEPT ![cur] = RestOf(cur)]
       ELSE /\ faults' = [faults EXCEPT ![cur] = @ + 1]
            /\ UNCHANGED <<restLen, restLeft>>
  /\ IF silences' >= TransportFaultBudget
       THEN pc' = "down" ELSE pc' = "next"
  /\ cur' = None
  /\ UNCHANGED <<todo, obd, reading>>

\* The cycle is over, and the loop sleeps; the rests run on the monotonic
\* clock.
Finish(ticks) ==
  /\ pc = "next"
  /\ todo = {}
  /\ pc' = "between"
  /\ ask' = {} /\ left' = {} /\ got' = {} /\ settled' = {}
  /\ reading' = None
  /\ restLeft' = [r \in Generic |->
                   IF restLeft[r] > ticks THEN restLeft[r] - ticks ELSE 0]
  /\ UNCHANGED <<cur, todo, armed, silences, faults, restLen, multi, strikes,
                 dead, ecuVars>>

\* A new connection builds a new executor and a new OBD session; the ECU
\* keeps its definition.
Reconnect ==
  /\ pc = "down"
  /\ pc' = "between" /\ cur' = None /\ todo' = {} /\ armed' = None
  /\ silences' = 0
  /\ faults' = [r \in Generic |-> 0]
  /\ restLen' = [r \in Generic |-> 0] /\ restLeft' = [r \in Generic |-> 0]
  /\ multi' = TRUE /\ strikes' = [x \in Pids |-> 0] /\ dead' = {}
  /\ ask' = {} /\ left' = {} /\ got' = {} /\ settled' = {}
  /\ reading' = None /\ held' = None
  /\ UNCHANGED slot

ExecStep ==
  \/ Batch \/ Single \/ SetupAnswered \/ Polled \/ Failed \/ LinkLost
  \/ \E r \in Generic : Skip(r) \/ Submit(r)
=============================================================================
