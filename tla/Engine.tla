------------------------------- MODULE Engine -------------------------------
(***************************************************************************)
(* The acquisition of one connection: live.py poll_loop runs the requests  *)
(* PollingPlan says are due through the Executor, cycle after cycle,       *)
(* switches the drive mode between two cycles, and builds everything anew  *)
(* when the link is lost.                                                  *)
(***************************************************************************)
EXTENDS Executor, PollingPlan

CONSTANTS
  FirstMode, \* the mode the process starts in
  MaxTicks   \* ticks of the loop a cycle may take

vars == <<execVars, planVars>>

TypeOK == ExecTypeOK /\ PlanTypeOK

Init == ExecInit /\ PlanInit(FirstMode)

\* `executor.execute_readings_at(plan.due(cycle, started))`
Cycle ==
  /\ Start(Due \cap Generic, Due \cap Pids)
  /\ Fire

Execute == ExecStep /\ UNCHANGED planVars

EndCycle == \E ticks \in 1 .. MaxTicks : Finish(ticks) /\ Older(ticks)

\* A switch is applied between cycles, never during one.
SwitchMode(m) ==
  /\ pc = "between"
  /\ m # mode
  /\ SetMode(m)
  /\ UNCHANGED <<execVars, cursor>>

\* A new connection: the plan starts over in the mode that is current.
Restart ==
  /\ Reconnect
  /\ Rebuild

Ecu == (EcuFinishes \/ EcuForgets) /\ UNCHANGED planVars

Loop == Cycle \/ Execute \/ EndCycle \/ Restart

Next == Loop \/ Ecu \/ \E m \in Modes : SwitchMode(m)

\* The poll loop's thread runs: every exchange ends (HsfzClient.CallReturns).
Spec == Init /\ [][Next]_vars
FairSpec == Spec /\ WF_vars(Loop)

-----------------------------------------------------------------------------
(* Properties *)

\* What is recorded for a request was computed under that request's own
\* definition of the dynamic identifier it shares, stale or not, whichever
\* frame of a sequence was lost, processed late or refused
\* (execute.py:1090-1094, 1169-1182).
ReadingIsOwn == reading # None => reading.by = reading.req

\* A read of the OBD PIDs leaves none of them without a value or a reported
\* fault, however the ECU splits, refuses or ignores the batches
\* (execute.py:991-1068, live.py:1416-1483).
EveryPidAccounted == pc \in {"next", "between"} => settled = ask

\* While the link is up and the mode polls, every request is asked again and
\* again: rotations, rests, duty windows, mode switches and the turns a
\* resting member wastes never add up to a request that is not
\* (execute.py:764-803, 1084-1101; polling.py:288-363).
EveryRequestComesRound ==
  \A r \in Asked :
    []<>(pc = "down" \/ ~mode.polls \/ cur = r \/ r \in ask \cup dead)

\* An exchange that succeeds, of whatever protocol, takes back the silences
\* counted against the link (execute.py:452-460: "Any success resets it").
AnySuccessResets == [][got' \ got # {} \/ reading' \notin {reading, None}
                         => silences' = 0]_vars
=============================================================================
