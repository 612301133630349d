----------------------------- MODULE Workbench -----------------------------
(* The tools a person runs on the car by hand, with the runtime stopped:     *)
(* validate_candidate.py sends the requests of a candidate mapping once      *)
(* (`run`) or round after round (`sweep`), dtc.py reads the fault memory;    *)
(* what the car said goes into artifacts at the end.  A dynamic request      *)
(* reads the identifier 0xF303 after defining it in the ECU, which keeps     *)
(* what it was told: an earlier session may have left a definition, a        *)
(* definition on top of another one is read behind it, and a frame may be    *)
(* refused, or be lost on its way there or back.                             *)
EXTENDS Integers, Sequences, FiniteSets

CONSTANTS Candidates,  \* the requests of a file: [id, dynamic, safe, target]
          Ecus,        \* addresses, the engine's among them
          Engine, NoTarget,
          Faults,      \* how many faults the memory holds
          MaxRounds,   \* bound: rounds of a sweep
          Stray        \* what an earlier session left in an ECU

\* The requests a file may name.
Listed == UNION {{list[i] : i \in DOMAIN list} : list \in Candidates}

\* A command has something to do, and somebody to ask.
ASSUME CandidatesAssumption ==
  /\ Candidates \subseteq Seq(Listed) \ {<<>>}
  /\ \A c \in Listed : c.dynamic \in BOOLEAN /\ c.target \in Ecus \cup {NoTarget}
  /\ Engine \in Ecus /\ Faults \in Nat

VARIABLES slot,      \* what 0xF303 reads in each ECU, in order
          job,       \* the command: [cmd, list, at, step, refused, round]
          records,   \* RunArtifacts.records, and the sweep's series
          sent,      \* ghost: exchanges begun
          artifacts  \* "none" or "written"

benchVars == <<slot, job, records, sent, artifacts>>

\* destination(): the fixed target when there is one, or the engine.
Destination(c) == IF c.target = NoTarget THEN Engine ELSE c.target

Idle == [cmd |-> "none", list |-> <<>>, at |-> 0, step |-> "idle", refused |-> FALSE, round |-> 0]
Current == job.list[job.at]

\* The setup of a dynamic request clears 0xF303 and defines it.
FirstStep(c) == IF c.dynamic THEN "clear" ELSE "poll"
\* Only the first request of a session sets up.
FirstStepOnce(c) == IF c.dynamic /\ records = <<>> THEN "clear" ELSE "poll"
Arm(c) == FirstStep(c)

BenchInit ==
  /\ slot \in [Ecus -> {<<>>, <<Stray>>}]
  /\ job = Idle /\ records = <<>> /\ sent = 0 /\ artifacts = "none"

-----------------------------------------------------------------------------
(* cmd_run(), cmd_sweep() and dtc.main() up to the first exchange *)

\* Everything is checked against the allowlist before the car is touched.
Begin ==
  /\ job.step = "idle"
  /\ \E cmd \in {"run", "sweep"}, list \in Candidates :
       IF \A i \in DOMAIN list : list[i].safe
       THEN job' = [Idle EXCEPT !.cmd = cmd, !.list = list, !.at = 1, !.step = Arm(list[1])]
       ELSE job' = [Idle EXCEPT !.cmd = cmd, !.step = "ended"]
  /\ UNCHANGED <<slot, records, sent, artifacts>>

\* `list` holds the exchanges still to come.
BeginReadout ==
  /\ job.step = "idle"
  /\ \E count \in BOOLEAN :
       job' = [Idle EXCEPT !.cmd = "dtc", !.step = "read",
                           !.list = (IF count THEN <<"count">> ELSE <<>>) \o <<"report">>]
  /\ UNCHANGED <<slot, records, sent, artifacts>>

-----------------------------------------------------------------------------
(* One frame through the GatedTransport *)

Fates == {"answered", "refused", "lost", "answer lost"}

\* What the ECU does with it, if it gets it and takes it.
Executed(ecu, frame, id) ==
  IF frame = "clear" THEN [slot EXCEPT ![ecu] = <<>>]
  ELSE IF frame = "define" THEN [slot EXCEPT ![ecu] = Append(@, id)] ELSE slot

\* A refusal is data; a timeout leaves the loop, past artifacts.write().
SetUp ==
  /\ job.step \in {"clear", "define"}
  /\ sent' = sent + 1
  /\ \E fate \in Fates :
       /\ slot' = IF fate \in {"answered", "answer lost"}
                  THEN Executed(Destination(Current), job.step, Current.id) ELSE slot
       /\ job' = IF fate \in {"lost", "answer lost"} THEN [job EXCEPT !.step = "ended"]
                 ELSE [job EXCEPT !.step = IF @ = "clear" THEN "define" ELSE "poll",
                                  !.refused = @ \/ fate = "refused"]
  /\ UNCHANGED <<records, artifacts>>

\* What the ECU answers to a read of a dynamic request: its own data, or the
\* data of the definition in front of it, which may or may not decode.
Answers(c) ==
  IF ~c.dynamic THEN {<<"decoded", c.id>>}
  ELSE IF slot[Destination(c)] = <<>> THEN {}
  ELSE LET first == Head(slot[Destination(c)]) IN
       {<<"decoded", first>>} \cup IF first = c.id THEN {} ELSE {<<"decode_error", first>>}

\* `run` keeps a record of every request with its frames; a sweep keeps the
\* values, and neither the frames nor what did not decode.
Noted(c, outcome, source) ==
  records' = IF job.cmd = "sweep" /\ outcome # "decoded" THEN records
             ELSE Append(records, [request |-> c.id, outcome |-> outcome, source |-> source,
                                   refused |-> job.refused])

PollOnce ==
  /\ job.step = "poll"
  /\ sent' = sent + 1
  /\ \/ \E answer \in Answers(Current) :
          /\ Noted(Current, answer[1], answer[2])
          /\ job' = [job EXCEPT !.step = "next"]
     \/ /\ Noted(Current, "negative_response", Current.id)
        /\ job' = [job EXCEPT !.step = "next"]
     \/ /\ job' = [job EXCEPT !.step = "ended"]
        /\ UNCHANGED records
  /\ UNCHANGED <<slot, artifacts>>

\* On to the next request of the file; a sweep starts the next round.
MoveOn(last) ==
  IF job.at < Len(job.list)
  THEN [job EXCEPT !.at = @ + 1, !.step = Arm(job.list[job.at + 1]), !.refused = FALSE]
  ELSE IF ~last /\ job.cmd = "sweep"
       THEN [job EXCEPT !.at = 1, !.step = Arm(job.list[1]), !.refused = FALSE, !.round = @ + 1]
       ELSE [job EXCEPT !.step = "write"]

\* `run` clears what a dynamic request left behind, whatever becomes of it.
Tidied ==
  IF job.cmd = "run" /\ Current.dynamic /\ job.at < Len(job.list)
  THEN {slot, [slot EXCEPT ![Destination(Current)] = <<>>]} ELSE {slot}

NextRequest ==
  /\ job.step = "next"
  /\ slot' \in Tidied
  /\ job' = MoveOn(job.round + 1 >= MaxRounds)
  /\ UNCHANGED <<records, sent, artifacts>>

\* --step, and Ctrl-C in a sweep.
StopEarly ==
  /\ job.step = "next"
  /\ slot' \in Tidied
  /\ job' = [job EXCEPT !.step = "write"]
  /\ UNCHANGED <<records, sent, artifacts>>

-----------------------------------------------------------------------------
(* read_faults() *)

\* A reported fault is asked about twice.
Details(n) == IF n = 0 THEN <<>> ELSE [i \in 1..(2 * n) |-> "detail"]

\* Everything that can go wrong ends in a record.
AfterFailure == [job EXCEPT !.list = Tail(@)]
\* As if a timeout were not caught.
AfterFailureRaised == [job EXCEPT !.step = "ended"]
NoResponse == AfterFailure

ReadMemory ==
  /\ job.step = "read" /\ job.list # <<>>
  /\ sent' = sent + 1
  /\ \E outcome \in {"ok", "unparsed", "negative_response", "no_response"}, detail \in BOOLEAN :
       /\ job' = IF outcome = "no_response" THEN NoResponse
                 ELSE [job EXCEPT !.list = Tail(@) \o
                        IF outcome = "ok" /\ Head(@) = "report" /\ detail
                        THEN Details(Faults) ELSE <<>>]
       /\ records' = Append(records, [request |-> Head(job.list), outcome |-> outcome,
                                      source |-> Head(job.list), refused |-> FALSE])
  /\ UNCHANGED <<slot, artifacts>>

ReadoutDone ==
  /\ job.step = "read" /\ job.list = <<>>
  /\ job' = [job EXCEPT !.step = "write"]
  /\ UNCHANGED <<slot, records, sent, artifacts>>

\* RunArtifacts.write(), after the connection is closed.
WriteArtifacts ==
  /\ job.step = "write"
  /\ artifacts' = "written"
  /\ job' = [job EXCEPT !.step = "ended"]
  /\ UNCHANGED <<slot, records, sent>>

BenchNext ==
  \/ Begin \/ BeginReadout \/ SetUp \/ PollOnce \/ NextRequest \/ StopEarly
  \/ ReadMemory \/ ReadoutDone \/ WriteArtifacts

BenchSpec == BenchInit /\ [][BenchNext]_benchVars

-----------------------------------------------------------------------------
(* Properties *)

\* The evidence is about the request it names: a value that decoded after a
\* set-up no frame of which was refused is what that request's own definition
\* reads, whatever an earlier request, round or session left in the ECU.  (The
\* frames of a `run` record show a refusal; a sweep's values do not.)
\* (validate_candidate.py:552-560, 667-680, 741-753).
EvidenceIsOwn ==
  \A i \in DOMAIN records :
    records[i].outcome = "decoded" /\ ~records[i].refused => records[i].source = records[i].request

\* A fault readout that touched the car is kept, exchange by exchange, whatever
\* the car did: nothing it was asked is lost (dtc.py:74-84, 86-125, 277-297).
ReadoutKept ==
  job.cmd = "dtc" /\ job.step = "ended" => artifacts = "written" /\ Len(records) = sent

\* "EVERY run writes a complete, timestamped artifact set so nothing about a
\* session is lost" (validate_candidate.py:35): a timeout loses it.
RunKept ==
  job.cmd = "run" /\ job.step = "ended" /\ sent > 0 => artifacts = "written"

\* "each fully cleared before the next - never two defines armed at once"
\* (validate_candidate.py:27): a refused or lost clear goes unnoticed.
NeverTwoArmed == \A e \in Ecus : Len(slot[e]) <= 1
=============================================================================
