--------------------------- MODULE OdometerProofs ---------------------------
(***************************************************************************)
(* Theorems about Odometer and OdometerStream, for every counter, speed,   *)
(* slack, clock, number of refusals and of streams.  Each sample takes one *)
(* of five paths; the lemmas say what a path leaves behind, and the rest   *)
(* of a step of Next touches the world and the ghosts only.                *)
(***************************************************************************)
EXTENDS OdometerStream, TLAPS

\* The assumptions, one fact a line.
LEMMA Constants ==
  /\ MaxM \in Nat /\ MaxSpeed \in Nat /\ Slack \in Nat /\ ResyncAfter \in Nat
  /\ TopSpeed \in Nat /\ TopSpeed <= MaxSpeed /\ StartClock \in Nat
  /\ Glitches \subseteq Nat /\ Counters \subseteq Nat /\ StepsTo \subseteq Nat
  /\ ForwardSteps \in BOOLEAN /\ NoAnchor \notin Nat
BY BoundsAssumption, CarAssumption, ReadingsAssumption, StepsAssumption,
   NoAnchorAssumption

\* The anchor is a value of the counter once there is one.
LEMMA AnchorNat == TypeOK /\ anchor # NoAnchor => anchor \in Nat /\ anchor <= MaxM
BY Constants DEF TypeOK

\* What a sample is worth is a number of metres, and a possible one fits the
\* time between the stamps.
LEMMA CreditNat ==
  ASSUME TypeOK, anchor # NoAnchor, NEW raw \in Nat
  PROVE  Credit(raw) \in Nat
BY AnchorNat DEF Credit

LEMMA SpanNat == TypeOK => Span \in Nat /\ Ceiling \in Nat
<1> SUFFICES ASSUME TypeOK PROVE Span \in Nat /\ Ceiling \in Nat
  OBVIOUS
<1>1. Span \in Nat
  BY DEF Span, TypeOK
<1>2. \A s \in Nat : s * MaxSpeed + Slack \in Nat
  BY Constants
<1> QED BY <1>1, <1>2 DEF Ceiling

-----------------------------------------------------------------------------
(* Types *)

\* The variables a sample writes keep their types on every path.
LEMMA SampleTypes ==
  ASSUME TypeOK, NEW raw \in Nat, Sample(raw)
  PROVE  /\ anchor' \in 0 .. MaxM \cup {NoAnchor}
         /\ anchorT' \in Nat /\ total' \in Nat /\ refused' \in Nat
         /\ resets' \in Nat /\ rejected' \in Nat
         /\ passed' \in Nat /\ elapsed' \in Nat
<1>1. CASE Reject(TRUE)
  BY <1>1 DEF Reject, TypeOK
<1>2. CASE raw <= MaxM /\ Origin(raw)
  BY <1>2, Constants DEF Origin, Anchor, TypeOK
<1>3. CASE raw <= MaxM /\ anchor # NoAnchor /\ Accept(raw)
  <2>1. total + Credit(raw) \in Nat
    BY <1>3, CreditNat DEF TypeOK
  <2> QED BY <1>3, <2>1, Constants DEF Accept, Anchor, TypeOK
<1>4. CASE raw <= MaxM /\ Resync(raw)
  BY <1>4, Constants DEF Resync, Anchor, TypeOK
<1> QED BY <1>1, <1>2, <1>3, <1>4 DEF Sample

\* So do those of the rest of a cycle.
LEMMA CycleTypes ==
  ASSUME TypeOK, NEW landed, Cycle(landed)
  PROVE  /\ speedT' \in Nat /\ upToDate' \subseteq Streams
         /\ loaded' \in BOOLEAN /\ connected' \in BOOLEAN /\ synced' \in BOOLEAN
         /\ counter' \in Nat /\ clock' \in Nat /\ driven' \in Nat
<1>1. speedT' \in Nat /\ upToDate' \subseteq Streams
  BY DEF Cycle, Bump, TypeOK
<1>2. synced' \in BOOLEAN
  BY CycleAssumption DEF Cycle
<1> QED BY <1>1, <1>2 DEF Cycle, world, TypeOK

LEMMA TypeStep == TypeOK /\ [Next]_vars => TypeOK'
<1> SUFFICES ASSUME TypeOK, [Next]_vars PROVE TypeOK'
  OBVIOUS
<1>1. CASE FeedNothing
  <2>1. UNCHANGED <<distance, rejected, ghosts>> /\ Cycle(FALSE)
    BY <1>1 DEF FeedNothing
  <2> QED BY <2>1, CycleTypes DEF TypeOK, distance, ghosts
<1>2. CASE FeedFlagged
  <2>1. Reject(FALSE) /\ Cycle(FALSE) /\ UNCHANGED <<glitches, starved, excused>>
    BY <1>2 DEF FeedFlagged
  <2>2. rejected' \in Nat /\ refused' \in Nat
        /\ UNCHANGED <<anchor, anchorT, total, resets, passed, elapsed>>
    BY <2>1 DEF Reject, TypeOK
  <2>3. /\ speedT' \in Nat /\ upToDate' \subseteq Streams
        /\ loaded' \in BOOLEAN /\ connected' \in BOOLEAN /\ synced' \in BOOLEAN
        /\ counter' \in Nat /\ clock' \in Nat /\ driven' \in Nat
    BY <2>1, CycleTypes
  <2> QED BY <2>1, <2>2, <2>3 DEF TypeOK
<1>3. CASE FeedGenuine
  <2>1. Sample(counter) /\ Cycle(rejected' = rejected)
    BY <1>3 DEF FeedGenuine
  <2>2. starved' \in Nat /\ UNCHANGED <<glitches, excused>>
    BY <1>3, Constants DEF FeedGenuine, TypeOK
  <2>3. counter \in Nat
    BY DEF TypeOK
  <2> QED BY <2>1, <2>2, <2>3, SampleTypes, CycleTypes DEF TypeOK
<1>4. ASSUME NEW raw \in Glitches, FeedGlitch(raw) PROVE TypeOK'
  <2>1. Sample(raw) /\ Cycle(rejected' = rejected)
    BY <1>4 DEF FeedGlitch
  <2>2. starved' \in Nat /\ glitches' \in Nat /\ excused' \in BOOLEAN
    BY <1>4 DEF FeedGlitch, TypeOK
  <2>3. raw \in Nat
    BY Constants
  <2> QED BY <2>1, <2>2, <2>3, SampleTypes, CycleTypes DEF TypeOK
<1>5. ASSUME NEW with \in Profiles, Configure(with) PROVE TypeOK'
  BY <1>5, CycleAssumption
  DEF Configure, Bump, TypeOK, distance, link, world, ghosts
<1>6. CASE Disconnect
  BY <1>6 DEF Disconnect, Bump, TypeOK, distance, world, ghosts
<1>7. ASSUME NEW d \in 0 .. TopSpeed, Drive(d) PROVE TypeOK'
  <2>1. UNCHANGED <<body, upToDate, glitches, starved, excused>>
    BY <1>7 DEF Drive
  <2>2. clock' \in Nat /\ counter' \in Nat /\ elapsed' \in Nat
        /\ driven' \in Nat /\ passed' \in Nat
    BY <1>7, Constants DEF Drive, TypeOK
  <2> QED BY <2>1, <2>2 DEF TypeOK, body, distance, link
<1>8. CASE Regenerate
  BY <1>8 DEF Regenerate, TypeOK, body, distance, link
<1>9. ASSUME NEW to \in StepsTo, StepClock(to) PROVE TypeOK'
  BY <1>9, Constants DEF StepClock, TypeOK, body, distance, link
<1>10. CASE UNCHANGED vars
  BY <1>10 DEF TypeOK, vars, body, distance, link, world, ghosts
<1>11. Feed \/ (\E with \in Profiles : Configure(with)) \/ Disconnect
       \/ (\E d \in 0 .. TopSpeed : Drive(d)) \/ Regenerate
       \/ (\E to \in StepsTo : StepClock(to)) \/ UNCHANGED vars
  BY DEF Next
<1>12. CASE Feed
  BY <1>1, <1>2, <1>3, <1>4, <1>12 DEF Feed
<1> QED BY <1>5, <1>6, <1>7, <1>8, <1>9, <1>10, <1>11, <1>12

LEMMA TypeInit == Init => TypeOK
<1> SUFFICES ASSUME Init PROVE TypeOK
  OBVIOUS
<1>1. anchor \in 0 .. MaxM \cup {NoAnchor}
  BY DEF Init
<1>2. loaded \in BOOLEAN /\ connected \in BOOLEAN /\ synced \in BOOLEAN
      /\ excused \in BOOLEAN
  BY CycleAssumption DEF Init
<1>3. /\ anchorT \in Nat /\ total \in Nat /\ refused \in Nat
      /\ resets \in Nat /\ rejected \in Nat /\ speedT \in Nat
      /\ driven \in Nat /\ passed \in Nat /\ elapsed \in Nat
      /\ glitches \in Nat /\ starved \in Nat
  BY DEF Init
<1>4. counter \in Nat /\ clock \in Nat /\ upToDate \subseteq Streams
  BY Constants DEF Init
<1> QED BY <1>1, <1>2, <1>3, <1>4 DEF TypeOK

\* The types of the state, and with them 0 <= anchor <= MaxM: no reading out
\* of range is ever measured against, not even after a change of anchor
\* (live.py:4316-4318).
THEOREM OdometerTypeCorrect == Spec => []TypeOK
BY TypeInit, TypeStep, PTL DEF Spec

-----------------------------------------------------------------------------
(* What is true of the distance                                            *)
(*                                                                         *)
(* NeverInvented and OutageBridged say nothing about what the NEXT sample  *)
(* may credit.  That is decided by where the ECU's counter stands relative *)
(* to the anchor and to the metres driven since its sample (`passed`), so  *)
(* the invariants below relate these three.                                *)

\* Before the first sample nothing is counted.
Unstarted ==
  anchor = NoAnchor => total = 0 /\ driven = 0 /\ passed = 0

\* A counter that stands at or above the anchor got there by less than was
\* driven; one that stands below it restarted, and counts part of what was.
Honest ==
  glitches = 0 /\ anchor # NoAnchor =>
    /\ total + passed <= driven
    /\ counter <= anchor + passed
    /\ counter < anchor => counter <= passed

\* The counter just counted, the clock just ran, and the car was no faster
\* than the bound.
Steady ==
  ~excused /\ anchor # NoAnchor =>
    /\ total + passed = driven
    /\ counter = anchor + passed
    /\ clock = anchorT + elapsed
    /\ passed <= elapsed * MaxSpeed

\* A clock that is only ever stepped back never claims more time than passed.
Timed ==
  ~ForwardSteps /\ anchor # NoAnchor => clock <= anchorT + elapsed

IInv == TypeOK /\ Unstarted /\ Honest /\ Steady /\ Timed

LEMMA InitIInv == Init => IInv
<1> SUFFICES ASSUME Init PROVE IInv
  OBVIOUS
<1>1. Unstarted /\ Honest /\ Steady /\ Timed
  BY DEF Init, Unstarted, Honest, Steady, Timed
<1> QED BY <1>1, TypeInit DEF IInv

\* The product the bound is made of grows by one speed a tick, and with the
\* time.
LEMMA OneTickMore ==
  ASSUME NEW e \in Nat PROVE (e + 1) * MaxSpeed = e * MaxSpeed + MaxSpeed
BY Constants

LEMMA MoreTime ==
  ASSUME NEW a \in Nat, NEW b \in Nat, a <= b
  PROVE  a * MaxSpeed <= b * MaxSpeed
<1>1. PICK k \in Nat : b = a + k
  <2>1. b - a \in Nat /\ b = a + (b - a)
    OBVIOUS
  <2> QED BY <2>1
<1>2. (a + k) * MaxSpeed = a * MaxSpeed + k * MaxSpeed
  BY Constants
<1>3. k * MaxSpeed \in Nat /\ a * MaxSpeed \in Nat
  BY Constants
<1> QED BY <1>1, <1>2, <1>3

\* A genuine sample credits no more than was driven since the anchor's.
LEMMA GenuineCredit ==
  ASSUME TypeOK, Honest, glitches = 0, anchor # NoAnchor
  PROVE  Credit(counter) <= passed
BY AnchorNat DEF TypeOK, Honest, Credit

\* Every path of a sample leaves Unstarted and, if the sample is genuine,
\* Honest.
LEMMA SampleUnstarted ==
  ASSUME TypeOK, Unstarted, NEW raw \in Nat, Sample(raw), UNCHANGED driven
  PROVE  Unstarted'
<1>1. raw <= MaxM => raw # NoAnchor
  BY Constants
<1>2. CASE Reject(TRUE)
  BY <1>2 DEF Reject, Unstarted
<1>3. CASE raw <= MaxM /\ anchor' = raw
  BY <1>1, <1>3 DEF Unstarted
<1> QED BY <1>2, <1>3 DEF Sample, Origin, Accept, Resync, Anchor

LEMMA SampleHonest ==
  ASSUME TypeOK, Unstarted, Honest, glitches = 0, Sample(counter),
         UNCHANGED <<counter, driven, glitches>>
  PROVE  Honest'
<1>0. counter \in Nat /\ driven \in Nat /\ total \in Nat /\ passed \in Nat
  BY DEF TypeOK
<1>1. CASE Reject(TRUE)
  BY <1>1 DEF Reject, Honest
<1>2. CASE anchor = NoAnchor /\ Origin(counter)
  BY <1>0, <1>2 DEF Origin, Anchor, Honest, Unstarted
<1>3. CASE anchor # NoAnchor /\ Accept(counter)
  <2>1. Credit(counter) <= passed /\ Credit(counter) \in Nat
    BY <1>0, <1>3, GenuineCredit, CreditNat
  <2>2. total' <= driven /\ anchor' = counter /\ passed' = 0
    BY <1>0, <1>3, <2>1 DEF Accept, Anchor, Honest
  <2>3. total' \in Nat
    BY <1>0, <1>3, <2>1 DEF Accept
  <2>4. counter <= counter + 0 /\ ~(counter < counter)
    BY <1>0
  <2>5. total' + 0 = total'
    <3>1. \A m \in Nat : m + 0 = m
      OBVIOUS
    <3> QED BY <2>3, <3>1
  <2> QED BY <2>2, <2>4, <2>5 DEF Honest
<1>4. CASE anchor # NoAnchor /\ Resync(counter)
  BY <1>0, <1>4 DEF Resync, Anchor, Honest
<1> QED BY <1>1, <1>2, <1>3, <1>4 DEF Sample

\* In steady times every genuine sample in range is possible, and worth
\* exactly what was driven since the anchor's.
LEMMA SampleSteady ==
  ASSUME TypeOK, Unstarted, Steady, ~excused, Sample(counter),
         UNCHANGED <<counter, driven, clock, excused>>
  PROVE  Steady'
<1>0. /\ counter \in Nat /\ driven \in Nat /\ total \in Nat /\ passed \in Nat
      /\ clock \in Nat /\ anchorT \in Nat /\ elapsed \in Nat
  BY DEF TypeOK
<1>1. CASE counter > MaxM /\ Reject(TRUE)
  BY <1>1 DEF Reject, Steady
<1>2. CASE anchor = NoAnchor /\ Origin(counter)
  BY <1>0, <1>2, Constants DEF Origin, Anchor, Steady, Unstarted
<1>3. CASE anchor # NoAnchor /\ Accept(counter)
  <2>1. Credit(counter) = passed
    BY <1>0, <1>3, AnchorNat DEF Credit, Steady
  <2>2. total' = driven /\ anchor' = counter /\ passed' = 0 /\ elapsed' = 0
        /\ anchorT' = clock
    BY <1>0, <1>3, <2>1 DEF Accept, Anchor, Steady
  <2>3. 0 <= 0 * MaxSpeed
    BY Constants
  <2> QED BY <1>0, <2>2, <2>3 DEF Steady
<1>4. CASE anchor # NoAnchor /\ ~Possible(counter)
  <2>1. Credit(counter) = passed
    BY <1>0, <1>4, AnchorNat DEF Credit, Steady
  <2>2. Span = elapsed
    BY <1>0, <1>4 DEF Span, Steady
  <2>3. passed <= elapsed * MaxSpeed /\ elapsed * MaxSpeed \in Nat
    BY <1>0, <1>4, Constants DEF Steady
  <2>4. passed <= elapsed * MaxSpeed + Slack
    BY <1>0, <2>3, Constants
  <2> QED BY <1>4, <2>1, <2>2, <2>4 DEF Possible, Ceiling
<1> QED BY <1>1, <1>2, <1>3, <1>4 DEF Sample

LEMMA SampleTimed ==
  ASSUME TypeOK, Timed, NEW raw \in Nat, Sample(raw), UNCHANGED clock
  PROVE  Timed'
<1>1. CASE Reject(TRUE)
  BY <1>1 DEF Reject, Timed
<1>2. CASE anchorT' = clock /\ elapsed' = 0
  BY <1>2 DEF Timed, TypeOK
<1> QED BY <1>1, <1>2 DEF Sample, Origin, Accept, Resync, Anchor

-----------------------------------------------------------------------------
(* One step of each action *)

\* The two actions that feed a sample, and the world they leave alone.
LEMMA GenuineStep == IInv /\ FeedGenuine => IInv'
<1> SUFFICES ASSUME IInv, FeedGenuine PROVE Unstarted' /\ Honest' /\ Steady' /\ Timed'
  BY TypeStep DEF IInv, Next, Feed
<1>1. Sample(counter) /\ UNCHANGED <<counter, clock, driven, glitches, excused>>
  BY DEF FeedGenuine, Cycle, world
<1>2. TypeOK /\ Unstarted /\ Honest /\ Steady /\ Timed /\ counter \in Nat
  BY DEF IInv, TypeOK
<1>3. Unstarted' /\ Timed'
  BY <1>1, <1>2, SampleUnstarted, SampleTimed
<1>4. Honest'
  <2>1. CASE glitches = 0
    BY <1>1, <1>2, <2>1, SampleHonest
  <2>2. CASE glitches # 0
    BY <1>1, <2>2 DEF Honest
  <2> QED BY <2>1, <2>2
<1>5. Steady'
  <2>1. CASE ~excused
    BY <1>1, <1>2, <2>1, SampleSteady
  <2>2. CASE excused
    BY <1>1, <2>2 DEF Steady
  <2> QED BY <2>1, <2>2
<1> QED BY <1>3, <1>4, <1>5

LEMMA GlitchStep ==
  ASSUME IInv, NEW raw \in Glitches, FeedGlitch(raw)
  PROVE  IInv'
<1>1. Sample(raw) /\ UNCHANGED <<counter, clock, driven>> /\ raw \in Nat
  BY Constants DEF FeedGlitch, Cycle, world
<1>2. glitches' # 0 /\ excused' = TRUE
  BY DEF FeedGlitch, IInv, TypeOK
<1>3. Unstarted' /\ Timed'
  BY <1>1, SampleUnstarted, SampleTimed DEF IInv
<1>4. Honest' /\ Steady'
  BY <1>2 DEF Honest, Steady
<1>5. TypeOK'
  BY TypeStep DEF IInv, Next, Feed
<1> QED BY <1>3, <1>4, <1>5 DEF IInv

\* A tick adds at most one top speed to what was driven.
LEMMA DriveStep ==
  ASSUME IInv, NEW d \in 0 .. TopSpeed, Drive(d)
  PROVE  IInv'
<1>1. TypeOK'
  BY TypeStep DEF IInv, Next
<1>2. /\ counter \in Nat /\ driven \in Nat /\ total \in Nat /\ passed \in Nat
      /\ clock \in Nat /\ anchorT \in Nat /\ elapsed \in Nat
      /\ d \in Nat /\ d <= MaxSpeed
  BY Constants DEF IInv, TypeOK
<1>3. /\ clock' = clock + 1 /\ counter' = counter + d /\ elapsed' = elapsed + 1
      /\ UNCHANGED <<anchor, anchorT, total, glitches, excused>>
  BY DEF Drive, body, distance
<1>4. CASE anchor = NoAnchor
  BY <1>1, <1>3, <1>4 DEF IInv, Unstarted, Honest, Steady, Timed, Drive
<1>5. CASE anchor # NoAnchor
  <2>1. driven' = driven + d /\ passed' = passed + d
    BY <1>5 DEF Drive
  <2>2. anchor \in Nat
    BY <1>5, AnchorNat DEF IInv
  <2>3. Honest'
    BY <1>2, <1>3, <1>5, <2>1, <2>2 DEF IInv, Honest
  <2>4. Steady'
    <3>1. SUFFICES ASSUME ~excused
                   PROVE  passed + d <= (elapsed + 1) * MaxSpeed
      BY <1>2, <1>3, <1>5, <2>1, <2>2 DEF IInv, Steady
    <3>2. passed <= elapsed * MaxSpeed /\ elapsed * MaxSpeed \in Nat
      BY <1>2, <1>5, <3>1, Constants DEF IInv, Steady
    <3> QED BY <1>2, <3>2, OneTickMore, Constants
  <2>5. Unstarted' /\ Timed'
    BY <1>2, <1>3, <1>5 DEF IInv, Unstarted, Timed
  <2> QED BY <1>1, <2>3, <2>4, <2>5 DEF IInv
<1> QED BY <1>4, <1>5

LEMMA RegenerateStep == IInv /\ Regenerate => IInv'
<1> SUFFICES ASSUME IInv, Regenerate PROVE IInv'
  OBVIOUS
<1>1. TypeOK'
  BY TypeStep DEF IInv, Next
<1>2. /\ counter' = 0 /\ excused' = TRUE
      /\ UNCHANGED <<anchor, anchorT, total, glitches, driven, passed, clock,
                     elapsed>>
  BY DEF Regenerate, body, distance
<1>3. Honest'
  BY <1>2, AnchorNat DEF IInv, Honest, TypeOK
<1> QED BY <1>1, <1>2, <1>3 DEF IInv, Unstarted, Steady, Timed

LEMMA StepClockStep ==
  ASSUME IInv, NEW to \in StepsTo, StepClock(to)
  PROVE  IInv'
<1>1. TypeOK'
  BY TypeStep DEF IInv, Next
<1>2. /\ clock' = to /\ excused' = TRUE /\ (to > clock => ForwardSteps)
      /\ UNCHANGED <<anchor, anchorT, total, glitches, driven, passed, counter,
                     elapsed>>
  BY DEF StepClock, body, distance
<1>3. Timed'
  <2>1. to \in Nat /\ clock \in Nat /\ anchorT \in Nat /\ elapsed \in Nat
    BY Constants DEF IInv, TypeOK
  <2> QED BY <1>2, <2>1 DEF IInv, Timed
<1> QED BY <1>1, <1>2, <1>3 DEF IInv, Unstarted, Honest, Steady

\* The other steps leave everything these invariants speak of.
LEMMA QuietStep ==
  ASSUME IInv, TypeOK',
         UNCHANGED <<anchor, anchorT, total, passed, elapsed, glitches, excused,
                     counter, clock, driven>>
  PROVE  IInv'
BY DEF IInv, Unstarted, Honest, Steady, Timed

LEMMA NextIInv == IInv /\ [Next]_vars => IInv'
<1> SUFFICES ASSUME IInv, [Next]_vars PROVE IInv'
  OBVIOUS
<1>0. TypeOK'
  BY TypeStep DEF IInv
<1>1. CASE FeedNothing
  BY <1>0, <1>1, QuietStep DEF FeedNothing, Cycle, distance, ghosts, world
<1>2. CASE FeedFlagged
  BY <1>0, <1>2, QuietStep DEF FeedFlagged, Reject, Cycle, world
<1>3. CASE FeedGenuine
  BY <1>3, GenuineStep
<1>4. CASE \E raw \in Glitches : FeedGlitch(raw)
  BY <1>4, GlitchStep
<1>5. CASE \E with \in Profiles : Configure(with)
  BY <1>0, <1>5, QuietStep DEF Configure, distance, ghosts, world
<1>6. CASE Disconnect
  BY <1>0, <1>6, QuietStep DEF Disconnect, distance, ghosts, world
<1>7. CASE \E d \in 0 .. TopSpeed : Drive(d)
  BY <1>7, DriveStep
<1>8. CASE Regenerate
  BY <1>8, RegenerateStep
<1>9. CASE \E to \in StepsTo : StepClock(to)
  BY <1>9, StepClockStep
<1>10. CASE UNCHANGED vars
  BY <1>0, <1>10, QuietStep DEF vars, body, distance, ghosts, world
<1>11. Feed \/ (\E with \in Profiles : Configure(with)) \/ Disconnect
       \/ (\E d \in 0 .. TopSpeed : Drive(d)) \/ Regenerate
       \/ (\E to \in StepsTo : StepClock(to)) \/ UNCHANGED vars
  BY DEF Next
<1>12. CASE Feed
  BY <1>1, <1>2, <1>3, <1>4, <1>12 DEF Feed
<1> QED BY <1>5, <1>6, <1>7, <1>8, <1>9, <1>10, <1>11, <1>12

-----------------------------------------------------------------------------
(* The theorems *)

\* What every step of the odometer keeps (live.py:4068-4143): where the anchor
\* stands relative to the counter and to what was driven.
THEOREM OdometerInvariant == Spec => []IInv
BY InitIInv, NextIInv, PTL DEF Spec

\* As long as every usable reading was the counter's own, no metre is
\* published that was not driven (live.py:4100-4107).
THEOREM NoMetreInvented == Spec => []NeverInvented
<1>1. IInv => NeverInvented
  BY DEF IInv, TypeOK, Unstarted, Honest, NeverInvented
<1> QED BY <1>1, OdometerInvariant, PTL

\* While the counter just counts and the clock keeps time, none is lost
\* across an outage either (live.py:4087-4090).
THEOREM NoMetreLost == Spec => []OutageBridged
<1>1. IInv => OutageBridged
  BY DEF IInv, Steady, OutageBridged
<1> QED BY <1>1, OdometerInvariant, PTL

\* The total only grows (live.py:4076): a path that credits anything credits
\* a number of metres, and the first sample of a process starts from nothing.
LEMMA SampleCredits ==
  ASSUME TypeOK, Unstarted, NEW raw \in Nat, Sample(raw)
  PROVE  \/ total' = total
         \/ /\ anchor # NoAnchor
            /\ Possible(raw)
            /\ total' = total + Credit(raw)
BY DEF Sample, Reject, Origin, Accept, Resync, Unstarted

\* Only a sample moves the total.
LEMMA OnlySamplesCredit ==
  ASSUME IInv, [Next]_vars
  PROVE  \/ total' = total
         \/ \E raw \in Nat : /\ anchor # NoAnchor
                            /\ Possible(raw)
                            /\ total' = total + Credit(raw)
<1>1. CASE FeedGenuine
  <2>1. Sample(counter) /\ counter \in Nat /\ TypeOK /\ Unstarted
    BY <1>1 DEF FeedGenuine, IInv, TypeOK
  <2> QED BY <2>1, SampleCredits
<1>2. ASSUME NEW raw \in Glitches, FeedGlitch(raw)
      PROVE  \/ total' = total
             \/ /\ anchor # NoAnchor
                /\ Possible(raw)
                /\ total' = total + Credit(raw)
  <2>1. Sample(raw) /\ raw \in Nat /\ TypeOK /\ Unstarted
    BY <1>2, Constants DEF FeedGlitch, IInv
  <2> QED BY <2>1, SampleCredits
<1>3. CASE FeedNothing \/ FeedFlagged \/ Disconnect \/ Regenerate \/ UNCHANGED vars
  BY <1>3 DEF FeedNothing, FeedFlagged, Reject, Disconnect, Regenerate, vars,
              body, distance
<1>4. CASE \E with \in Profiles : Configure(with)
  BY <1>4 DEF Configure, distance
<1>5. CASE \E d \in 0 .. TopSpeed : Drive(d)
  BY <1>5 DEF Drive, body, distance
<1>6. CASE \E to \in StepsTo : StepClock(to)
  BY <1>6 DEF StepClock, body, distance
<1>7. \A raw \in Glitches : raw \in Nat
  BY Constants
<1> QED BY <1>1, <1>2, <1>3, <1>4, <1>5, <1>6, <1>7 DEF Next, Feed

\* The published distance is never corrected downwards (live.py:4076).
LEMMA TotalOnlyGrows ==
  ASSUME IInv, [Next]_vars PROVE total' >= total
<1>1. total \in Nat
  BY DEF IInv, TypeOK
<1>2. \A m, n \in Nat : m + n >= m /\ m >= m
  OBVIOUS
<1>3. CASE total' = total
  BY <1>1, <1>2, <1>3
<1>4. ASSUME NEW raw \in Nat, anchor # NoAnchor, total' = total + Credit(raw)
      PROVE  total' >= total
  BY <1>1, <1>2, <1>4, CreditNat DEF IInv
<1> QED BY <1>3, <1>4, OnlySamplesCredit

\* It grows whatever the host clock does (live.py:4076, 4278-4281).
THEOREM TotalIsMonotonic == Spec => [][total' >= total]_vars
BY TotalOnlyGrows, OdometerInvariant, PTL DEF Spec

\* On a host whose clock is never stepped forward no sample, misread or not,
\* is worth more than fits into the time that really passed
\* (live.py:4084-4090).
THEOREM CreditsFitTheTime ==
  ASSUME ~ForwardSteps PROVE Spec => CreditFitsTime
<1>1. ASSUME IInv, [Next]_vars
      PROVE  total' - total <= elapsed * MaxSpeed + Slack
  <2>1. total \in Nat /\ elapsed \in Nat /\ elapsed * MaxSpeed + Slack \in Nat
    <3>1. total \in Nat /\ elapsed \in Nat
      BY <1>1 DEF IInv, TypeOK
    <3>2. \A e \in Nat : e * MaxSpeed + Slack \in Nat
      BY Constants
    <3> QED BY <3>1, <3>2
  <2>2. \A m, n \in Nat : (m + n) - m = n /\ m - m <= n
    OBVIOUS
  <2>3. CASE total' = total
    BY <2>1, <2>2, <2>3
  <2>4. ASSUME NEW raw \in Nat, anchor # NoAnchor, Possible(raw),
               total' = total + Credit(raw)
        PROVE  total' - total <= elapsed * MaxSpeed + Slack
    <3>1. Credit(raw) \in Nat /\ Credit(raw) <= Span * MaxSpeed + Slack
      BY <1>1, <2>4, CreditNat DEF IInv, Possible, Ceiling
    <3>2. Span \in Nat /\ Span <= elapsed
      BY <1>1, <2>4 DEF IInv, TypeOK, Timed, Span
    <3>3. Span * MaxSpeed <= elapsed * MaxSpeed
      BY <2>1, <3>2, MoreTime
    <3>4. Span * MaxSpeed \in Nat /\ elapsed * MaxSpeed \in Nat
      BY <2>1, <3>2, Constants
    <3>5. Credit(raw) <= elapsed * MaxSpeed + Slack
      BY <3>1, <3>3, <3>4, Constants
    <3> QED BY <2>1, <2>2, <2>4, <3>1, <3>5
  <2> QED BY <1>1, <2>3, <2>4, OnlySamplesCredit
<1> QED BY <1>1, TotalOnlyGrows, OdometerInvariant, PTL DEF Spec, CreditFitsTime

-----------------------------------------------------------------------------
(* The odometer does not freeze                                            *)
(*                                                                         *)
(* A run of genuine samples that are not accepted is either still being    *)
(* counted by `refused`, or the anchor was replaced in it - by a genuine   *)
(* sample, next to which the following one is possible.                    *)

\* The anchor is a genuine sample, and the clock has kept time since.
Fresh ==
  /\ anchor # NoAnchor
  /\ counter <= anchor + passed
  /\ counter < anchor => counter <= passed
  /\ clock = anchorT + elapsed
  /\ passed <= elapsed * MaxSpeed

Resumes ==
  \/ starved <= refused /\ starved <= ResyncAfter
  \/ starved <= ResyncAfter + 1 /\ Fresh

LEMMA FreshIsPossible ==
  ASSUME TypeOK, Fresh PROVE Possible(counter)
<1>0. /\ counter \in Nat /\ passed \in Nat /\ clock \in Nat
      /\ anchorT \in Nat /\ elapsed \in Nat
  BY DEF TypeOK
<1>1. Credit(counter) <= passed /\ Credit(counter) \in Nat
  BY <1>0, AnchorNat, CreditNat DEF Credit, Fresh
<1>2. Span = elapsed
  BY <1>0 DEF Span, Fresh
<1>3. elapsed * MaxSpeed \in Nat /\ passed <= elapsed * MaxSpeed
  BY <1>0, Constants DEF Fresh
<1>4. Credit(counter) <= elapsed * MaxSpeed + Slack
  BY <1>0, <1>1, <1>3, Constants
<1> QED BY <1>2, <1>4 DEF Possible, Ceiling

\* A genuine sample, path by path.
LEMMA GenuineResumes ==
  ASSUME TypeOK, Resumes, FeedGenuine PROVE Resumes'
<1>0. /\ counter \in Nat /\ passed \in Nat /\ clock \in Nat /\ refused \in Nat
      /\ anchorT \in Nat /\ elapsed \in Nat /\ starved \in Nat
      /\ rejected \in Nat /\ ResyncAfter \in Nat
      /\ UNCHANGED <<counter, clock>>
  BY Constants DEF TypeOK, FeedGenuine, Cycle, world
<1>1. CASE counter > MaxM /\ Reject(TRUE)
  <2>1. starved' = starved /\ refused' = refused + 1
        /\ UNCHANGED <<anchor, anchorT, passed, elapsed>>
    BY <1>0, <1>1, Constants DEF FeedGenuine, Reject
  <2>2. starved <= refused => starved <= refused + 1
    BY <1>0
  <2> QED BY <1>0, <2>1, <2>2 DEF Resumes, Fresh
<1>2. CASE Origin(counter) \/ Accept(counter)
  <2>1. starved' = 0 /\ refused' = 0
    BY <1>2 DEF FeedGenuine, Origin, Accept, Anchor
  <2> QED BY <1>0, <2>1 DEF Resumes
<1>3. CASE counter <= MaxM /\ anchor # NoAnchor /\ ~Possible(counter)
           /\ refused < ResyncAfter /\ Reject(TRUE)
  <2>1. starved' = starved + 1 /\ refused' = refused + 1
    BY <1>0, <1>3 DEF FeedGenuine, Reject
  <2>2. starved <= refused
    BY <1>3, FreshIsPossible DEF Resumes
  <2>3. starved + 1 <= refused + 1 /\ starved + 1 <= ResyncAfter
    BY <1>0, <1>3, <2>2
  <2> QED BY <2>1, <2>3 DEF Resumes
<1>4. CASE counter <= MaxM /\ anchor # NoAnchor /\ ~Possible(counter)
           /\ Resync(counter)
  <2>1. /\ starved' = starved + 1 /\ anchor' = counter /\ anchorT' = clock
        /\ passed' = 0 /\ elapsed' = 0
    BY <1>0, <1>4 DEF FeedGenuine, Resync, Anchor
  <2>2. starved <= ResyncAfter
    BY <1>4, FreshIsPossible DEF Resumes
  <2>3. starved + 1 <= ResyncAfter + 1
    BY <1>0, <2>2
  <2>4. /\ counter <= counter + 0 /\ ~(counter < counter)
        /\ clock = clock + 0 /\ 0 <= 0 * MaxSpeed /\ counter # NoAnchor
    BY <1>0, Constants
  <2> QED BY <1>0, <2>1, <2>3, <2>4 DEF Resumes, Fresh
<1> QED BY <1>1, <1>2, <1>3, <1>4 DEF FeedGenuine, Sample

\* A tick keeps a fresh anchor fresh.
LEMMA DriveFresh ==
  ASSUME TypeOK, Fresh, NEW d \in 0 .. TopSpeed, Drive(d) PROVE Fresh'
<1>0. /\ counter \in Nat /\ passed \in Nat /\ clock \in Nat
      /\ anchorT \in Nat /\ elapsed \in Nat
      /\ d \in Nat /\ d <= MaxSpeed /\ anchor \in Nat
  BY Constants, AnchorNat DEF TypeOK, Fresh
<1>1. /\ clock' = clock + 1 /\ counter' = counter + d /\ elapsed' = elapsed + 1
      /\ passed' = passed + d /\ UNCHANGED <<anchor, anchorT>>
  BY DEF Drive, Fresh, body, distance
<1>2. passed <= elapsed * MaxSpeed /\ elapsed * MaxSpeed \in Nat
  BY <1>0, Constants DEF Fresh
<1>3. passed + d <= (elapsed + 1) * MaxSpeed
  BY <1>0, <1>2, OneTickMore, Constants
<1> QED BY <1>0, <1>1, <1>3 DEF Fresh

LEMMA RegenerateFresh ==
  ASSUME TypeOK, Fresh, Regenerate PROVE Fresh'
BY AnchorNat DEF TypeOK, Fresh, Regenerate, body, distance

LEMMA NextResumes == TypeOK /\ Resumes /\ [Next]_vars => Resumes'
<1> SUFFICES ASSUME TypeOK, Resumes, [Next]_vars PROVE Resumes'
  OBVIOUS
<1>0. starved' = 0 /\ TypeOK' => Resumes'
  BY Constants DEF Resumes, TypeOK
<1>1. CASE FeedGenuine
  BY <1>1, GenuineResumes
<1>2. CASE \E raw \in Glitches : FeedGlitch(raw)
  BY <1>0, <1>2, TypeStep DEF FeedGlitch
<1>3. CASE FeedNothing \/ FeedFlagged \/ Disconnect \/ UNCHANGED vars
           \/ \E with \in Profiles : Configure(with)
  <2>1. UNCHANGED <<starved, refused, anchor, anchorT, passed, elapsed, counter,
                    clock>>
    BY <1>3 DEF FeedNothing, FeedFlagged, Reject, Cycle, Disconnect, Configure,
                vars, body, distance, ghosts, world
  <2> QED BY <2>1 DEF Resumes, Fresh
<1>4. CASE \E d \in 0 .. TopSpeed : Drive(d)
  <2>1. UNCHANGED <<starved, refused>>
    BY <1>4 DEF Drive, body, distance
  <2> QED BY <1>4, <2>1, DriveFresh DEF Resumes
<1>5. CASE Regenerate
  <2>1. UNCHANGED <<starved, refused>>
    BY <1>5 DEF Regenerate, body, distance
  <2> QED BY <1>5, <2>1, RegenerateFresh DEF Resumes
<1>6. CASE \E to \in StepsTo : StepClock(to)
  BY <1>0, <1>6, TypeStep DEF StepClock
<1> QED BY <1>1, <1>2, <1>3, <1>4, <1>5, <1>6 DEF Next, Feed

\* After a glitch or a clock step, at most ResyncAfter refusals and one change
\* of anchor separate the odometer from its next accepted genuine sample
\* (live.py:4094-4107).
THEOREM ServiceAlwaysResumes == Spec => []ServiceResumes
<1>1. Init => Resumes
  BY Constants DEF Init, Resumes
<1>2. TypeOK /\ Resumes => ServiceResumes
  <2>1. \A n \in Nat : n <= ResyncAfter => n <= ResyncAfter + 1
    BY Constants
  <2> QED BY <2>1 DEF Resumes, ServiceResumes, TypeOK
<1> QED BY <1>1, <1>2, NextResumes, OdometerTypeCorrect, PTL DEF Spec

-----------------------------------------------------------------------------
(* The streams *)

\* A thread that has seen the present version holds the present snapshot, in
\* hand while it paces or sends, and at its client once it waits again.
StreamInv ==
  /\ TypeOK
  /\ pc \in [Streams -> {"closed", "waiting", "pacing", "sending"}]
  /\ DOMAIN snap = Streams /\ DOMAIN sent = Streams
  /\ \A s \in upToDate :
       /\ pc[s] \in {"pacing", "sending"} => snap[s] = Snapshot
       /\ pc[s] = "waiting" => sent[s] = Snapshot

\* No step of the odometer changes a published field without a new version.
LEMMA NewsIsAnnounced ==
  TypeOK /\ [Next]_vars =>
    \/ upToDate' = {}
    \/ UNCHANGED upToDate /\ Snapshot' = Snapshot
<1> SUFFICES ASSUME TypeOK, [Next]_vars
             PROVE  \/ upToDate' = {}
                    \/ UNCHANGED upToDate /\ Snapshot' = Snapshot
  OBVIOUS
<1>0. rejected \in Nat
  BY DEF TypeOK
<1>1. ASSUME UNCHANGED <<body, upToDate>>
      PROVE  UNCHANGED upToDate /\ Snapshot' = Snapshot
  BY <1>1 DEF body, distance, link, Snapshot
<1>2. ASSUME NEW landed, Cycle(landed), landed \/ rejected' # rejected
      PROVE  upToDate' = {}
  BY <1>2 DEF Cycle, Bump, Changed
<1>3. CASE FeedNothing
  <2>1. UNCHANGED <<distance, rejected>> /\ Cycle(FALSE)
    BY <1>3 DEF FeedNothing
  <2>2. PICK speed \in Speeds : /\ speedT' = IF speed THEN clock ELSE speedT
                               /\ Bump(Changed(FALSE \/ speed))
    BY <2>1 DEF Cycle
  <2>3. CASE speed \/ link' # link
    BY <2>2, <2>3 DEF Bump, Changed
  <2>4. CASE ~speed /\ link' = link
    <3>1. speedT' = speedT
      BY Zenon, <2>2, <2>4
    <3>2. UNCHANGED loaded
      BY <2>1 DEF Cycle
    <3>3. Snapshot' = Snapshot
      BY <2>1, <2>4, <3>1, <3>2 DEF distance, link, Snapshot
    <3>4. UNCHANGED upToDate \/ upToDate' = {}
      BY <2>2 DEF Bump
    <3> QED BY <3>3, <3>4
  <2> QED BY <2>3, <2>4
<1>4. CASE FeedFlagged
  <2>1. rejected' # rejected
    BY <1>0, <1>4 DEF FeedFlagged, Reject
  <2>2. Cycle(FALSE)
    BY <1>4 DEF FeedFlagged
  <2> QED BY <1>2, <2>1, <2>2
<1>5. CASE FeedGenuine
  BY <1>2, <1>5 DEF FeedGenuine
<1>6. CASE \E raw \in Glitches : FeedGlitch(raw)
  BY <1>2, <1>6 DEF FeedGlitch
<1>7. CASE \E with \in Profiles : Configure(with)
  BY <1>7 DEF Configure, Bump
<1>8. CASE Disconnect
  <2>1. CASE connected
    BY <1>8, <2>1 DEF Disconnect, Bump
  <2>2. CASE ~connected
    <3>1. connected' = connected
      BY Zenon, <1>8, <2>2 DEF Disconnect, TypeOK
    <3> QED BY <1>8, <2>2, <3>1 DEF Disconnect, Bump, distance, Snapshot
  <2> QED BY <2>1, <2>2
<1>9. CASE \/ (\E d \in 0 .. TopSpeed : Drive(d))
           \/ Regenerate
           \/ (\E to \in StepsTo : StepClock(to))
           \/ UNCHANGED vars
  BY <1>1, <1>9 DEF Drive, Regenerate, StepClock, vars
<1> QED BY <1>3, <1>4, <1>5, <1>6, <1>7, <1>8, <1>9 DEF Next, Feed

\* The odometer moves: nothing is claimed of a thread that has not seen it.
LEMMA NewsStep ==
  ASSUME StreamInv, [Next]_vars, UNCHANGED streamVars PROVE StreamInv'
<1>1. TypeOK' /\ UNCHANGED <<pc, snap, sent>>
  BY TypeStep DEF StreamInv, streamVars
<1>2. CASE upToDate' = {}
  BY <1>1, <1>2 DEF StreamInv
<1>3. CASE UNCHANGED upToDate /\ Snapshot' = Snapshot
  BY <1>1, <1>3 DEF StreamInv
<1> QED BY <1>2, <1>3, NewsIsAnnounced DEF StreamInv

\* A thread's own step leaves the odometer alone, and the threads beside it.
LEMMA StreamStepInv ==
  ASSUME StreamInv, NEW s \in Streams, StreamStep(s) PROVE StreamInv'
<1>1. UNCHANGED <<body, world, ghosts>> /\ upToDate' \subseteq Streams
  BY DEF StreamStep, Open, Wait, Pace, Take, SendEvent, Close, StreamInv, TypeOK
<1>2. TypeOK'
  BY <1>1 DEF StreamInv, TypeOK, body, distance, link, world, ghosts
<1>3. Snapshot' = Snapshot
  BY <1>1 DEF body, distance, link, Snapshot
<1>4. CASE Open(s)
  BY <1>2, <1>3, <1>4 DEF Open, StreamInv
<1>5. CASE Wait(s)
  BY <1>2, <1>3, <1>5 DEF Wait, Take, StreamInv
<1>6. CASE Pace(s)
  <2>1. pc[s] = "pacing" /\ pc' = [pc EXCEPT ![s] = "sending"] /\ UNCHANGED sent
    BY <1>6 DEF Pace
  <2>2. CASE Take(s)
    BY <1>2, <1>3, <2>1, <2>2 DEF Take, StreamInv
  <2>3. CASE UNCHANGED <<snap, upToDate>>
    BY <1>2, <1>3, <2>1, <2>3 DEF StreamInv
  <2> QED BY <1>6, <2>2, <2>3 DEF Pace
<1>7. CASE SendEvent(s)
  BY <1>2, <1>3, <1>7 DEF SendEvent, StreamInv
<1>8. CASE Close(s)
  BY <1>2, <1>3, <1>8 DEF Close, StreamInv
<1> QED BY <1>4, <1>5, <1>6, <1>7, <1>8 DEF StreamStep

\* A client whose thread waits for news has the state as it is, for any number
\* of clients and any interleaving with the poll loop: no change of a published
\* field goes unannounced, and none is taken for one that was sent
\* (live.py:4211-4231, 4895-4938).
THEOREM StreamsAreFresh == StreamSpec => []StreamFresh
<1>1. Init /\ StreamInit => StreamInv
  <2> SUFFICES ASSUME Init, StreamInit PROVE StreamInv
    OBVIOUS
  <2>1. TypeOK /\ upToDate = {}
    BY TypeInit DEF Init
  <2> QED BY <2>1 DEF StreamInit, StreamInv
<1>2. StreamInv => StreamFresh
  BY DEF StreamInv, StreamFresh
<1>3. StreamInv /\ [\/ Next /\ UNCHANGED streamVars
                   \/ \E s \in Streams : StreamStep(s)]_<<vars, streamVars>>
      => StreamInv'
  BY NewsStep, StreamStepInv
<1> QED BY <1>1, <1>2, <1>3, PTL DEF StreamSpec
=============================================================================
