------------------------------- MODULE Report -------------------------------
(* The report of one run (analysis/session_report.py): which samples it      *)
(* reads, which it compares with which (analysis/alignment.py), and what it  *)
(* concludes about hardware (bmwdiag/vehicle.py).  The run is recorded in    *)
(* the model too, with the true time of every sample beside the time the     *)
(* host's clock showed, so that a comparison can be held against the truth.  *)
EXTENDS Integers, Sequences, FiniteSets, SequencesExt, Chronology

CONSTANTS Tolerance,          \* pairing_for(actual, setpoint).max_age_s
          DrivingSpeed,       \* DRIVING_SPEED
          Flags,              \* labels of a sample that is not "ok"
          Steps,              \* by how much NTP moves an undisciplined clock
          MaxSamples, MaxTrue, \* bounds
          Unsaid               \* NULL

ASSUME ReportAssumption == Tolerance \in Nat

VARIABLES clock,   \* the true time, the clock's error, has it stepped
          drive,   \* the row of `runs`
          samples, \* the rows of `samples`, oldest first
          fitted,  \* is the filter on the car: [then, today]
          today    \* what the owner declares of it today

reportVars == <<clock, drive, samples, fitted, today>>

Measured == {"act", "set", "speed"}
Declared == {Unsaid, "fitted", "removed", "maybe"}

-----------------------------------------------------------------------------
(* VehicleProfile: a part is there, is not, or nobody knows *)

State(said) ==
  IF said \in {"present", "fitted"} THEN "present"
  ELSE IF said \in {"absent", "removed"} THEN "absent" ELSE "unknown"

\* fingerprint() and from_fingerprint(): a profile that declares nothing of the
\* part leaves nothing on the run.
Fingerprint(said) == IF said = Unsaid THEN Unsaid ELSE State(said)

\* The owner may say nothing or something vague, not something untrue.
Truthful(said, there) == State(said) \in {"unknown", IF there THEN "present" ELSE "absent"}

-----------------------------------------------------------------------------
(* Recording *)

ReportInit ==
  /\ clock = [now |-> 0, skew |-> 0, stepped |-> FALSE]
  /\ \E there \in BOOLEAN, said \in Declared, synced \in {Unsaid, 0, 1} :
       /\ Truthful(said, there)
       /\ fitted = [then |-> there, today |-> there]
       /\ today = said
       /\ drive = [synced |-> synced, hardware |-> Unsaid] \/
          drive = [synced |-> synced, hardware |-> Fingerprint(said)]
  /\ samples = <<>>

Sample ==
  /\ Len(samples) < MaxSamples
  /\ \E key \in Measured, at \in clock.now..MaxTrue, quality \in {"ok"} \cup Flags,
        value \in {0, DrivingSpeed + 1} :
       /\ IF key = "speed" THEN quality = "ok" ELSE value = 0
       /\ clock' = [clock EXCEPT !.now = at]
       /\ samples' = Append(samples, [key |-> key, at |-> at, ts |-> at + clock.skew,
                                      quality |-> quality, value |-> value])
  /\ UNCHANGED <<drive, fitted, today>>

\* Only a clock NTP had not disciplined when the run was opened steps.
ClockSteps ==
  /\ drive.synced # 1 /\ ~clock.stepped
  /\ \E by \in Steps : clock' = [clock EXCEPT !.skew = by, !.stepped = TRUE]
  /\ UNCHANGED <<drive, samples, fitted, today>>

\* After the drive the filter goes, or comes, and the profile with it.
Refit ==
  /\ samples # <<>> /\ fitted.then = fitted.today
  /\ fitted' = [fitted EXCEPT !.today = ~@]
  /\ today' \in {said \in Declared : Truthful(said, ~fitted.today)}
  /\ UNCHANGED <<clock, drive, samples>>

ReportNext == Sample \/ ClockSteps \/ Refit

ReportSpec == ReportInit /\ [][ReportNext]_reportVars

-----------------------------------------------------------------------------
(* load_run() *)

\* ORDER BY s.ts
Rows ==
  LET order == Order([i \in DOMAIN samples |-> samples[i].ts])
  IN [k \in DOMAIN samples |-> samples[order[k]]]

Loaded == {samples[i] : i \in DOMAIN samples}

Series(key) == Only(Rows, {r \in Loaded : r.key = key /\ r.quality = "ok"})

\* The run's own snapshot, or the profile of today standing in for it.
SnapshotFirst ==
  IF drive.hardware # Unsaid THEN [state |-> State(drive.hardware), provenance |-> "run"]
  ELSE IF today # Unsaid THEN [state |-> State(Fingerprint(today)), provenance |-> "current"]
  ELSE [state |-> "unknown", provenance |-> "none"]

\* Today's profile relabels the history.
TodayFirst ==
  IF today # Unsaid THEN [state |-> State(Fingerprint(today)), provenance |-> "run"]
  ELSE IF drive.hardware # Unsaid THEN [state |-> State(drive.hardware), provenance |-> "run"]
  ELSE [state |-> "unknown", provenance |-> "none"]

Vehicle == SnapshotFirst

\* A run that predates the flag is not known to be bad.
NotRefuted == drive.synced # 0

\* time_trusted()
TimeTrusted == drive.synced = 1

-----------------------------------------------------------------------------
(* align() *)

Distance(x, y) == IF x > y THEN x - y ELSE y - x

\* The last b at or before the sample, from where the previous one left off.
Advance(b, index, ts) ==
  LET later == {i \in (index + 1)..Len(b) : \A j \in (index + 1)..i : b[j].ts <= ts}
  IN index + Cardinality(later)

\* It, and its successor; the first of them on a tie.
Neighbours(b, index) == {index, index + 1} \cap DOMAIN b

\* A scan that starts again where it is and looks backward only.
Backward(b, index) == {index} \cap DOMAIN b

Closest(b, near, ts) ==
  CHOOSE i \in near : \A j \in near \ {i} :
    \/ Distance(b[i].ts, ts) < Distance(b[j].ts, ts)
    \/ Distance(b[i].ts, ts) = Distance(b[j].ts, ts) /\ i < j

Near(b, index) == Neighbours(b, index)

\* One sample of `a`: the nearest b, if it is near enough.
Match(scan, x, b, tolerance) ==
  LET index == Advance(b, scan.index, x.ts)
      near == Near(b, index)
      best == Closest(b, near, x.ts)
      pairs == IF near # {} /\ Distance(b[best].ts, x.ts) <= tolerance
               THEN Append(scan.pairs, <<x, b[best]>>) ELSE scan.pairs
  IN [index |-> index, pairs |-> pairs]

Align(a, b, tolerance) ==
  LET scan[n \in 0..Len(a)] ==
        IF n = 0 THEN [index |-> 1, pairs |-> <<>>] ELSE Match(scan[n - 1], a[n], b, tolerance)
  IN scan[Len(a)].pairs

\* AlignmentResult.usable: MIN_USEFUL_COVERAGE is a half.
EnoughPairs(pairs, attempted) == pairs # <<>> /\ 2 * Len(pairs) >= attempted

-----------------------------------------------------------------------------
(* What the report says *)

\* phase_mask() and _in_span(): from the first sample in motion to the last, or
\* the whole run when there is none.
Driving == Only(Series("speed"), {r \in Loaded : r.value > DrivingSpeed})

InSpan(series) ==
  LET driving == Driving IN
  IF driving = <<>> THEN series
  ELSE Only(series, {r \in Loaded : Head(driving).ts <= r.ts /\ r.ts <= Last(driving).ts})

\* load_behaviour(): how the actual value followed its setpoint.
Tracking ==
  IF TimeTrusted THEN Align(InSpan(Series("act")), Series("set"), Tolerance) ELSE <<>>

\* dpf() and findings(): the filter's two soot values agree, so that its
\* pressure sensor is sound.
FilterPairs ==
  IF Vehicle.state = "present" /\ TimeTrusted
  THEN Align(Series("act"), Series("set"), Tolerance) ELSE <<>>
FilterFinding == FilterPairs # <<>>

-----------------------------------------------------------------------------
(* Properties *)

\* What the report compares was measured together, by the true time and not by
\* the clock's: every sample of the actual value from the drive is set against
\* the setpoint nearest to it, when one is near enough, and against none
\* otherwise; and neither side is a value the decoder flagged
\* (alignment.py:177-227, session_report.py:338-351, 527-582).
PairedInTruth ==
  LET near(x) == {i \in DOMAIN samples : samples[i].key = "set" /\ samples[i].quality = "ok"
                                        /\ Distance(samples[i].at, x.at) <= Tolerance}
      series == InSpan(Series("act"))
      pairs == Tracking
  IN TimeTrusted \/ pairs # <<>> =>
       /\ \A i \in DOMAIN pairs :
            LET x == pairs[i][1]  y == pairs[i][2] IN
            /\ x.quality = "ok" /\ y.quality = "ok"
            /\ Distance(y.at, x.at) <= Tolerance
            /\ \A j \in near(x) : Distance(y.at, x.at) <= Distance(samples[j].at, x.at)
       /\ Len(pairs) = Cardinality({i \in DOMAIN series : near(series[i]) # {}})

\* The report speaks of a filter's health only when the car had the filter on
\* that drive, or says that it speaks of the car as it is today
\* (session_report.py:218-246, 584-657).
FilterWasFitted ==
  FilterFinding => fitted.then \/ (Vehicle.provenance = "current" /\ fitted.today)

\* The local report "refuses unusable conclusions" (docs/ALIGNMENT.md:167): the
\* filter's finding does not ask how much of the data could be compared.
ConcludedFromUsable ==
  FilterFinding => EnoughPairs(FilterPairs, Len(Series("act")))
=============================================================================
