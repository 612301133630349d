------------------------------ MODULE Odometer ------------------------------
(***************************************************************************)
(* live.py Odometer: a distance that only grows, accumulated from an ECU   *)
(* counter that restarts at zero with every regeneration, over a link that *)
(* drops, with stamps from a host clock that is stepped.                   *)
(*                                                                         *)
(* Distances are whole metres (the channel is a u32 of metres), times are  *)
(* whole ticks.  feed, configure and set_connected run under one lock and  *)
(* are one action each.  `version` is only ever compared with the version  *)
(* a stream saw last, so it is kept as the set of streams that saw it.  A  *)
(* reading is the counter's value, or a GLITCH: a usable reading of some   *)
(* other value (execute.py cannot tell two dynamic reads apart by their    *)
(* identifier).  Log lines are left out, and so is a reading that is not a *)
(* number (a u32 decodes to one).                                          *)
(***************************************************************************)
EXTENDS Integers

CONSTANTS
  MaxM,         \* ODOMETER_MAX_M
  MaxSpeed,     \* ODOMETER_MAX_SPEED_KMH, metres per tick
  Slack,        \* ODOMETER_DELTA_SLACK_M
  ResyncAfter,  \* ODOMETER_RESYNC_AFTER
  Glitches,     \* the values a misread sample may decode to
  TopSpeed,     \* environment: metres the car covers in a tick
  Speeds,       \* environment: may a cycle carry a usable speed?
  Syncs,        \* environment: the values clock_is_synced() takes
  StepsTo,      \* environment: what the host clock may be stepped to
  ForwardSteps, \* environment: may it be stepped forward?
  Profiles,     \* environment: may a profile (not) have the channel?
  Counters, StartClock, \* environment: where both stand at the start
  Streams,      \* the clients that follow the odometer
  MaxGlitches, MaxClock, MaxElapsed, MaxDriven, MaxRejected, \* bounds
  NoAnchor

ASSUME BoundsAssumption ==
  {MaxM, MaxSpeed, Slack, ResyncAfter, StartClock, MaxGlitches, MaxClock,
   MaxElapsed, MaxDriven, MaxRejected} \subseteq Nat
ASSUME CarAssumption == TopSpeed \in Nat /\ TopSpeed <= MaxSpeed
ASSUME ReadingsAssumption == Glitches \subseteq Nat /\ Counters \subseteq Nat
ASSUME StepsAssumption == StepsTo \subseteq Nat /\ ForwardSteps \in BOOLEAN
ASSUME CycleAssumption ==
  Speeds \subseteq BOOLEAN /\ Syncs \subseteq BOOLEAN /\ Profiles \subseteq BOOLEAN
ASSUME NoAnchorAssumption == NoAnchor \notin Nat

VARIABLES
  anchor,     \* self._prev_raw
  anchorT,    \* self.odometer_t
  total,      \* self.odometer_m; None for as long as there is no anchor
  refused,    \* self._refused_in_a_row
  resets, rejected,
  speedT,     \* self.speed_t (the speed itself is data)
  loaded,     \* self.loaded, and the mapping_ver that comes with it
  connected, synced,
  upToDate,   \* the streams whose last version is self.version
  counter,    \* environment: the ECU's counter
  clock,      \* environment: the host's wall clock
  driven,     \* ghost: metres really driven since the first sample
  passed,     \* ghost: metres really driven since the anchor's sample
  elapsed,    \* ghost: ticks since the anchor's sample
  glitches,   \* ghost: glitches fed so far
  starved,    \* ghost: genuine samples in a row that were not accepted
  excused     \* ghost: a glitch, a regeneration or a clock step happened

distance == <<anchor, anchorT, total, refused, resets>>
link     == <<connected, synced>>
body     == <<distance, rejected, speedT, loaded, link>>
world    == <<counter, clock, driven>>
ghosts   == <<passed, elapsed, glitches, starved, excused>>
vars     == <<body, upToDate, world, ghosts>>

TypeOK ==
  /\ anchor \in 0 .. MaxM \cup {NoAnchor}
  /\ anchorT \in Nat /\ total \in Nat /\ refused \in Nat
  /\ resets \in Nat /\ rejected \in Nat /\ speedT \in Nat
  /\ upToDate \subseteq Streams
  /\ loaded \in BOOLEAN /\ connected \in BOOLEAN /\ synced \in BOOLEAN
  /\ counter \in Nat /\ clock \in Nat /\ driven \in Nat
  /\ passed \in Nat /\ elapsed \in Nat /\ glitches \in Nat /\ starved \in Nat
  /\ excused \in BOOLEAN

Init ==
  /\ anchor = NoAnchor
  /\ anchorT = 0 /\ total = 0 /\ refused = 0
  /\ resets = 0 /\ rejected = 0 /\ speedT = 0 /\ upToDate = {}
  /\ loaded \in Profiles
  /\ connected = FALSE /\ synced = FALSE
  /\ counter \in Counters
  /\ clock = StartClock
  /\ driven = 0 /\ passed = 0 /\ elapsed = 0 /\ glitches = 0 /\ starved = 0
  /\ excused = FALSE

-----------------------------------------------------------------------------
(* _feed_distance *)

\* Mutations: the distance between two stamps whichever came first; the
\* elapsed time left out of the bound.
SpanEitherWay == IF clock > anchorT THEN clock - anchorT ELSE anchorT - clock
SpanIgnored   == 0

\* What the two stamps say has passed; a clock stepped back counts as none.
Span == IF clock > anchorT THEN clock - anchorT ELSE 0

Ceiling == Span * MaxSpeed + Slack

\* The metres a sample is worth - a counter that went backwards restarted at
\* zero - and whether they can have been driven.
Credit(raw) == IF raw >= anchor THEN raw - anchor ELSE raw
Possible(raw) == Credit(raw) <= Ceiling

\* `_reject`: the anchor is not moved.
Reject(against) ==
  /\ rejected' = rejected + 1
  /\ refused' = IF against THEN refused + 1 ELSE refused
  /\ UNCHANGED <<anchor, anchorT, total, resets, passed, elapsed>>

Anchor(raw) ==
  /\ anchor' = raw
  /\ anchorT' = clock
  /\ refused' = 0
  /\ passed' = 0
  /\ elapsed' = 0

Origin(raw) ==
  /\ Anchor(raw)
  /\ total' = 0
  /\ UNCHANGED <<resets, rejected>>

Accept(raw) ==
  /\ Anchor(raw)
  /\ total' = total + Credit(raw)
  /\ resets' = IF raw < anchor THEN resets + 1 ELSE resets
  /\ UNCHANGED rejected

\* Mutations: the reading that replaces the anchor is credited like a reset;
\* the wrong anchor is kept.
ResyncCredits(raw) ==
  /\ Anchor(raw)
  /\ total' = total + raw
  /\ rejected' = rejected + 1
  /\ UNCHANGED resets
ResyncKeepsAnchor(raw) ==
  /\ refused' = 0
  /\ rejected' = rejected + 1
  /\ UNCHANGED <<anchor, anchorT, total, resets, passed, elapsed>>

\* The second half of `_refuse_or_resync`: the anchor is what is wrong, and
\* the gap is dropped.
Resync(raw) ==
  /\ Anchor(raw)
  /\ rejected' = rejected + 1
  /\ UNCHANGED <<total, resets>>

\* _feed_distance, path by path.
Sample(raw) ==
  \/ raw > MaxM /\ Reject(TRUE)
  \/ raw <= MaxM /\ anchor = NoAnchor /\ Origin(raw)
  \/ raw <= MaxM /\ anchor # NoAnchor /\ Possible(raw) /\ Accept(raw)
  \/ /\ raw <= MaxM /\ anchor # NoAnchor /\ ~Possible(raw)
     /\ \/ refused < ResyncAfter /\ Reject(TRUE)
        \/ refused >= ResyncAfter /\ Resync(raw)

-----------------------------------------------------------------------------
(* feed, configure, set_connected *)

\* Mutation: a refusal alone wakes nobody.
ChangedByLanding(landed) == landed \/ link' # link

\* What wakes the streams: a sample, a refusal, a change of the link state.
Changed(landed) == landed \/ rejected' # rejected \/ link' # link

\* _bump: no stream has seen this version yet.
Bump(changed) == upToDate' = IF changed THEN {} ELSE upToDate

\* The rest of feed(): the speed, the link, and the bump.
Cycle(landed) ==
  /\ rejected < MaxRejected
  /\ connected' = TRUE
  /\ synced' \in Syncs
  /\ \E speed \in Speeds :
       /\ speedT' = IF speed THEN clock ELSE speedT
       /\ Bump(Changed(landed \/ speed))
  /\ UNCHANGED <<loaded, world>>

\* The cycle carried no 44BF reading.
FeedNothing ==
  /\ UNCHANGED <<distance, rejected, ghosts>>
  /\ Cycle(FALSE)

\* The decoder flagged the reading: it is counted, and says nothing about
\* the anchor.
FeedFlagged ==
  /\ loaded
  /\ Reject(FALSE)
  /\ Cycle(FALSE)
  /\ UNCHANGED <<glitches, starved, excused>>

\* The reading is the counter's value.
FeedGenuine ==
  /\ loaded
  /\ Sample(counter)
  /\ Cycle(rejected' = rejected)
  /\ starved' = IF rejected' = rejected THEN 0
                ELSE IF counter <= MaxM THEN starved + 1 ELSE starved
  /\ UNCHANGED <<glitches, excused>>

\* The reading is not the counter's value, and nothing says so.
FeedGlitch(raw) ==
  /\ loaded
  /\ raw # counter
  /\ glitches < MaxGlitches
  /\ Sample(raw)
  /\ Cycle(rejected' = rejected)
  /\ glitches' = glitches + 1
  /\ starved' = 0
  /\ excused' = TRUE

\* configure(): a profile was resolved, with the channel in it or not.
Configure(with) ==
  /\ loaded' = with
  /\ Bump(TRUE)
  /\ UNCHANGED <<distance, rejected, speedT, link, world, ghosts>>

\* set_connected(False): the link failed.
Disconnect ==
  /\ connected' = FALSE
  /\ Bump(connected)
  /\ UNCHANGED <<distance, rejected, speedT, loaded, synced, world, ghosts>>

-----------------------------------------------------------------------------
(* The car and the host clock *)

\* A tick, in which the car covers some distance.
Drive(d) ==
  /\ clock < MaxClock
  /\ elapsed < MaxElapsed
  /\ driven + d <= MaxDriven
  /\ clock' = clock + 1
  /\ counter' = counter + d
  /\ elapsed' = elapsed + 1
  /\ IF anchor = NoAnchor
       THEN UNCHANGED <<driven, passed>>
       ELSE driven' = driven + d /\ passed' = passed + d
  /\ UNCHANGED <<body, upToDate, glitches, starved, excused>>

\* A regeneration succeeds: the ECU restarts its counter.
Regenerate ==
  /\ counter > 0
  /\ counter' = 0
  /\ excused' = TRUE
  /\ UNCHANGED <<body, upToDate, clock, driven, passed, elapsed, glitches,
                 starved>>

\* NTP lands, or the host boots its clock back from disk.
StepClock(to) ==
  /\ to # clock
  /\ to > clock => ForwardSteps
  /\ clock' = to
  /\ starved' = 0
  /\ excused' = TRUE
  /\ UNCHANGED <<body, upToDate, counter, driven, passed, elapsed, glitches>>

Feed == FeedNothing \/ FeedFlagged \/ FeedGenuine
        \/ \E raw \in Glitches : FeedGlitch(raw)

Next ==
  \/ Feed
  \/ \E with \in Profiles : Configure(with)
  \/ Disconnect
  \/ \E d \in 0 .. TopSpeed : Drive(d)
  \/ Regenerate
  \/ \E to \in StepsTo : StepClock(to)

Spec == Init /\ [][Next]_vars

-----------------------------------------------------------------------------
(* Properties *)

\* Whatever the ECU, the link and the host clock do, metres nobody drove are
\* never published as long as every usable reading was the counter's own
\* value: not across a reset, an outage, a clock step or a change of anchor
\* (live.py:4100-4107, 4308-4314).
NeverInvented == glitches = 0 => total <= driven

\* Nothing is lost either while the counter just counts and the host clock
\* keeps time: an outage of any length, flagged readings and cycles without
\* one are bridged to the metre by the next sample (live.py:4085-4090).
OutageBridged ==
  ~excused /\ anchor # NoAnchor => total + passed = driven

\* The odometer does not freeze: after any glitch at most ResyncAfter refusals
\* and the change of anchor separate it from the next accepted sample,
\* whatever is flagged in between (live.py:4094-4107).
ServiceResumes == starved <= ResyncAfter + 1

\* The published distance is never corrected downwards (live.py:4076), and no
\* sample adds more metres than fit into the time that really passed since the
\* sample before it, glitch or not (live.py:4084-4090).
CreditFitsTime ==
  [][/\ total' >= total
     /\ total' - total <= elapsed * MaxSpeed + Slack]_vars
=============================================================================
