------------------------------- MODULE History -------------------------------
(* The offline history: recorded runs are grouped into trips                 *)
(* (analysis/trips.py), the usable trips into populations that may be        *)
(* compared (analysis/health/eligibility.py, baseline.py), and the earliest  *)
(* trips of the last population are set against its latest.  Here the host   *)
(* that records those runs is a part of the model: it has no clock of its    *)
(* own while it is off, is killed and rebooted, and meets NTP sooner or      *)
(* later, so that what the grouping reads can be held against what happened. *)
EXTENDS Integers, Sequences, FiniteSets, SequencesExt, Chronology

CONSTANTS MaxGap,        \* MAX_TRIP_GAP_S
          Preferred,     \* the channels a model tries, best first
          References, Currents, \* trips per side (baseline definition)
          MaxRuns, MaxDrive, MaxNow, MaxBoots, MaxEvents, MaxBuild, \* bounds
          Missing        \* NULL

ASSUME HistoryAssumption ==
  /\ Missing \notin Int
  /\ {MaxGap, References, Currents, MaxNow} \subseteq Nat

VARIABLES now,      \* the true time
          host,     \* its clock's error, NTP seen, its boot, does it name things
          vehicle,      \* its hardware, and the mapping it is decoded with
          runs,     \* the rows of `runs`, with what their samples show
          events    \* when the vehicle was worked on

historyVars == <<now, host, vehicle, runs, events>>

Channels == {Preferred[i] : i \in DOMAIN Preferred}

HistoryInit ==
  /\ now = 0
  /\ host \in [skew : {0}, synced : BOOLEAN, boot : {1}, names : BOOLEAN]
  /\ vehicle \in [hardware : {"old"}, build : {1}]
  /\ runs = <<>>
  /\ events = {}

-----------------------------------------------------------------------------
(* The recorder's side, a run at a time *)

\* A run from a true time to another, on a clock that is off by `skew`, whose
\* last sample came at `last` and whose usable ones are of `data`.  A recorder
\* that names neither its boot nor the vehicle writes "", and ended_at stays NULL
\* when the process is killed.
\* `from` and `alive` are the true times of its start and last sign of life.
Row(from, skew, synced, last, to, data) ==
  [started |-> from + skew,
   ended |-> IF to = Missing THEN Missing ELSE to + skew,
   last |-> IF last = Missing THEN Missing ELSE last + skew,
   synced |-> synced,
   boot |-> IF host.names THEN host.boot ELSE Missing,
   hardware |-> IF host.names THEN vehicle.hardware ELSE Missing, build |-> vehicle.build, data |-> data,
   from |-> from,
   alive |-> IF to # Missing THEN to ELSE IF last # Missing THEN last ELSE from]

\* No sample at all, or a last one, and the channels with usable ones.
Sampling(stop) == {<<Missing, {}>>} \cup {<<stop, d>> : d \in {{}} \cup {{c} : c \in Channels}}

Until(t) == t..(IF t + MaxDrive < MaxNow THEN t + MaxDrive ELSE MaxNow)

Record ==
  /\ Len(runs) < MaxRuns
  /\ \E stop \in Until(now) :
     \E s \in Sampling(stop), to \in {stop, Missing} :
       /\ now' = stop
       /\ runs' = Append(runs, Row(now, host.skew, host.synced, s[1], to, s[2]))
  /\ UNCHANGED <<host, vehicle, events>>

\* NTP lands while a run is open: the poll loop sees the clock step, closes the
\* run on the new clock and opens another, of which the rest is recorded.
RecordAcrossStep ==
  /\ Len(runs) + 2 <= MaxRuns /\ ~host.synced /\ host.skew # 0
  /\ \E step \in Until(now) : \E stop \in Until(step) :
     \E s \in Sampling(stop) :
       LET before == Row(now, host.skew, FALSE, now, step, s[2])
       IN /\ now' = stop
          /\ runs' = runs \o << [before EXCEPT !.ended = step],
                               Row(step, 0, TRUE, s[1], stop, s[2]) >>
  /\ host' = [host EXCEPT !.skew = 0, !.synced = TRUE]
  /\ UNCHANGED <<vehicle, events>>

\* Between drives: time passes, or the host is off for a while and goes on from
\* the time it was switched off at; NTP lands; the vehicle is worked on, at a date
\* somebody writes down; another mapping is installed.
Wait ==
  /\ now' \in (now + 1)..MaxNow
  /\ UNCHANGED <<host, vehicle, runs, events>>

PowerCycle ==
  /\ host.boot < MaxBoots
  /\ \E next \in (now + 1)..MaxNow :
       /\ now' = next
       /\ host' = [host EXCEPT !.skew = @ - (next - now), !.boot = @ + 1, !.synced = FALSE]
  /\ UNCHANGED <<vehicle, runs, events>>

NtpSync ==
  /\ ~host.synced
  /\ host' = [host EXCEPT !.skew = 0, !.synced = TRUE]
  /\ UNCHANGED <<now, vehicle, runs, events>>

Workshop ==
  /\ Cardinality(events) < MaxEvents
  /\ \E at \in 0..now : events' = events \cup {at}
  /\ \E hardware \in {"old", "new"} : vehicle' = [vehicle EXCEPT !.hardware = hardware]
  /\ UNCHANGED <<now, host, runs>>

Remap ==
  /\ vehicle.build < MaxBuild
  /\ vehicle' = [vehicle EXCEPT !.build = @ + 1]
  /\ UNCHANGED <<now, host, runs, events>>

HostNext == PowerCycle \/ NtpSync \/ RecordAcrossStep
CarNext == Workshop \/ Remap
HistoryNext == Record \/ Wait \/ HostNext \/ CarNext

HistorySpec == HistoryInit /\ [][HistoryNext]_historyVars

-----------------------------------------------------------------------------
(* Trips (trips.py) *)

\* RunRow.finished_at
FinishedAt(run) ==
  IF run.ended # Missing THEN run.ended
  ELSE IF run.last # Missing THEN run.last ELSE run.started

\* A killed run is measured from its start: its samples are not consulted.
FinishedAtStart(run) == IF run.ended # Missing THEN run.ended ELSE run.started

Finish(run) == FinishedAt(run)

Differ(a, b) == a # Missing /\ b # Missing /\ a # b

\* _boundary_reason() is None
SameTrip(prev, run) ==
  /\ ~Differ(prev.boot, run.boot)
  /\ ~Differ(prev.hardware, run.hardware)
  /\ prev.synced /\ run.synced
  /\ run.started - Finish(prev) \in 0..MaxGap

\* sorted(runs, key=(started, run_id))
Ordered ==
  LET order == Order([i \in DOMAIN runs |-> runs[i].started])
  IN [k \in DOMAIN runs |-> runs[order[k]]]

\* group_trips(): a trip is a sequence of runs.
Joined(trips, run) ==
  LET n == Len(trips) IN
  IF n > 0 /\ SameTrip(Last(trips[n]), run)
  THEN [trips EXCEPT ![n] = Append(@, run)]
  ELSE Append(trips, <<run>>)

Trips ==
  LET grouped[n \in 0..Len(runs)] ==
        IF n = 0 THEN <<>> ELSE Joined(grouped[n - 1], Ordered[n])
  IN grouped[Len(runs)]

Started(trip) == Head(trip).started
Ended(trip) == Finish(Last(trip))

-----------------------------------------------------------------------------
(* Populations (eligibility.py, baseline.py) *)

Has(trip, c) == \E i \in DOMAIN trip : c \in trip[i].data

\* load_eligible()
Eligible(trip) == /\ \A i \in DOMAIN trip : trip[i].synced
                  /\ \E c \in Channels : Has(trip, c)

\* first_present(): the channel a model uses in this trip.
Used(trip) == SelectSeq(Preferred, LAMBDA c : Has(trip, c))[1]

\* version_of(): the versions it was decoded with.
Versions(trip) == {r.build : r \in {trip[i] : i \in {j \in DOMAIN trip : Used(trip) \in trip[j].data}}}

Label(trip) == [channel |-> Used(trip), versions |-> Versions(trip)]

\* Only the channel is compared, not the mapping it was decoded with.
LabelByChannel(trip) == [channel |-> Used(trip), versions |-> {}]

PoolLabel(trip) == Label(trip)

\* events_between()
EventsBetween(a, b) ==
  LET lo == IF a <= b THEN a ELSE b
      hi == IF a <= b THEN b ELSE a
  IN {e \in events : lo < e /\ e <= hi}

\* segment(), of the eligible trips: a trip of mixed versions is dropped, any other joins the last
\* population or starts one.
Segmented(segments, trip) ==
  LET n == Len(segments) IN
  IF ~Eligible(trip) \/ Cardinality(Versions(trip)) > 1 THEN segments
  ELSE IF /\ n > 0
          /\ EventsBetween(Ended(Last(segments[n])), Started(trip)) = {}
          /\ PoolLabel(segments[n][1]) = PoolLabel(trip)
       THEN [segments EXCEPT ![n] = Append(@, trip)]
       ELSE Append(segments, <<trip>>)

Segments ==
  LET trips == Trips
      divided[n \in 0..Len(trips)] ==
        IF n = 0 THEN <<>> ELSE Segmented(divided[n - 1], trips[n])
  IN divided[Len(trips)]

\* _population(): the last one, and compare(): its earliest trips against its
\* latest, when it has enough for both.
Sides ==
  LET segments == Segments
      pool == IF segments = <<>> THEN <<>> ELSE Last(segments)
  IN IF Len(pool) < References + Currents THEN [reference |-> <<>>, current |-> <<>>]
     ELSE [reference |-> SubSeq(pool, 1, References),
           current |-> SubSeq(pool, Len(pool) - Currents + 1, Len(pool))]

-----------------------------------------------------------------------------
(* Properties *)

\* What is grouped into one trip was one drive, and one drive is not torn: a
\* run follows its predecessor in truth, within the gap, whatever the clock
\* showed and whoever was killed; and a run that came back within the gap of
\* the last sign of life of the one before it, on the same trusted clock,
\* continues its trip (trips.py:19-27, 63-82).
FollowsInTruth(r, s) == s.from - r.alive \in 0..MaxGap

TripIsOneDrive ==
  LET trips == Trips  rows == Ordered IN
  /\ \A k \in DOMAIN trips : \A i \in 1..(Len(trips[k]) - 1) :
       FollowsInTruth(trips[k][i], trips[k][i + 1])
  /\ \A i \in 1..(Len(rows) - 1) :
       LET r == rows[i]  s == rows[i + 1] IN
       (/\ r.synced /\ s.synced
        /\ ~Differ(r.boot, s.boot) /\ ~Differ(r.hardware, s.hardware)
        /\ FollowsInTruth(r, s))
       => \E k \in DOMAIN trips : {r, s} \subseteq {trips[k][j] : j \in DOMAIN trips[k]}

\* The two sides of a comparison measure the same thing: the value channel is
\* the same and every run behind it was decoded by one mapping, the reference
\* ended before the current one began, and nothing was done to the vehicle between
\* two trips of the population while it stood (baseline.py:3-20, 82-150).
PooledAlike ==
  LET pool == Sides.reference \o Sides.current
      TrueStart(trip) == Head(trip).from
      TrueEnd(trip) == Last(trip).alive
      During(e) == \E k \in DOMAIN Trips : /\ Eligible(Trips[k])
                                          /\ TrueStart(Trips[k]) < e
                                          /\ e <= TrueEnd(Trips[k])
  IN \A i, j \in DOMAIN pool : i < j =>
       /\ Label(pool[i]) = Label(pool[j])
       /\ TrueEnd(pool[i]) <= TrueStart(pool[j])
       /\ \A e \in events : TrueEnd(pool[i]) < e /\ e <= TrueStart(pool[j]) => During(e)
=============================================================================
