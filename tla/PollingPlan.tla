---------------------------- MODULE PollingPlan ----------------------------
(***************************************************************************)
(* mapping/polling.py PollingPlan and mapping/modes.py DriveMode: which    *)
(* requests a cycle sends.                                                 *)
(*                                                                         *)
(* Times are whole ticks of the poll loop.  `_last` is kept as the ticks   *)
(* that have passed since, up to the longest period, and the duty origin   *)
(* as the tick of the duty cycle; nothing else is ever read from them.     *)
(* SCHEDULE_SLACK is what makes a period of n ticks due after n of them.   *)
(* The plan is validated at construction (_validate_pairs): ValidPairs.    *)
(***************************************************************************)
EXTENDS Integers, Sequences, FiniteSets, SequencesExt

CONSTANTS
  Requests,  \* in the plan's order: by priority, order and id
  Classes,   \* polling classes
  ClassOf,   \* request -> class
  PairOf,    \* request -> its polling pair, or Unset
  Declared,  \* class -> [period, stagger]
  Modes,     \* drive modes: [factor, polls, duty, exempt]
  Unset

VARIABLES
  mode,    \* self.mode
  age,     \* self._last: ticks since a key fired, or Unset
  cursor,  \* self._rotation
  phase    \* self._duty_origin: tick of the duty cycle, or Unset

planVars == <<mode, age, cursor, phase>>

Asked == {Requests[i] : i \in DOMAIN Requests}
Staggered == {c \in Classes : Declared[c].stagger}
Keys == {r \in Asked : ClassOf[r] \notin Staggered} \cup Staggered

\* _validate_pairs: two members, of one class, and that class staggered.
ValidPairs ==
  \A r \in Asked : PairOf[r] # Unset =>
    LET members == {q \in Asked : PairOf[q] = PairOf[r]}
    IN /\ Cardinality(members) = 2
       /\ \A q \in members : ClassOf[q] = ClassOf[r]
       /\ ClassOf[r] \in Staggered

ASSUME PlanAssumption ==
  /\ ClassOf \in [Asked -> Classes]
  /\ \A c \in Classes : Declared[c].period \in Nat \ {0}
  /\ \A m \in Modes : m.factor \in [Classes -> Nat \ {0}]
  /\ ValidPairs

\* apply_mode: always from the declared classes.
Period(key, m) ==
  LET c == IF key \in Classes THEN key ELSE ClassOf[key]
  IN Declared[c].period * m.factor[c]

Longest ==
  CHOOSE n \in {Period(k, m) : k \in Keys, m \in Modes} :
    \A k \in Keys, m \in Modes : Period(k, m) <= n

DutyPeriod(m) == m.duty.awake + m.duty.asleep

\* DriveMode.awake_at, of the phase that due() has set by then.
AwakeAt(m, tick) == m.duty = Unset \/ tick < m.duty.awake

\* _rotation_slots: a pair takes the position of its first member.
FirstOfSlot(i) ==
  PairOf[Requests[i]] = Unset
    \/ \A j \in 1 .. i - 1 : PairOf[Requests[j]] # PairOf[Requests[i]]

SlotAt(i) ==
  LET r == Requests[i]
  IN {q \in Asked : q = r \/ (PairOf[q] # Unset /\ PairOf[q] = PairOf[r])}

Slots ==
  [c \in Staggered |->
    LET firsts == SelectSeq([i \in DOMAIN Requests |-> i],
                    LAMBDA i : ClassOf[Requests[i]] = c /\ FirstOfSlot(i))
    IN [n \in DOMAIN firsts |-> SlotAt(firsts[n])]]

\* _is_due
IsDue(key) == age[key] = Unset \/ age[key] >= Period(key, mode)

Origin == IF phase = Unset THEN 0 ELSE phase
Runs(c) == AwakeAt(mode, Origin) \/ c \in mode.exempt

\* The keys that fire, and what they send: the eager requests, and one slot
\* of each staggered class that has a member.
Firing ==
  IF ~mode.polls THEN {}
  ELSE {k \in Keys : /\ IsDue(k)
                     /\ Runs(IF k \in Classes THEN k ELSE ClassOf[k])}

Turning == {c \in Firing \cap Staggered : Slots[c] # <<>>}

SlotOf(c) == Slots[c][(cursor[c] % Len(Slots[c])) + 1]

Due == (Firing \ Staggered) \cup UNION {SlotOf(c) : c \in Turning}

\* Mutation: a class that fired keeps its place.
CursorStays(c) == cursor[c]

\* `cursor + 1`; only its remainder is ever read.
NextCursor(c) == (cursor[c] + 1) % Len(Slots[c])

PlanInit(m) ==
  /\ mode = m
  /\ age = [k \in Keys |-> Unset]
  /\ cursor = [c \in Staggered |-> 0]
  /\ phase = Unset

\* due(): `_last` of what fired, the cursors that moved, the duty origin.
Fire ==
  /\ age' = [k \in Keys |-> IF k \in Firing THEN 0 ELSE age[k]]
  /\ cursor' = [c \in Staggered |->
                 IF c \in Turning THEN NextCursor(c) ELSE cursor[c]]
  /\ phase' = IF mode.polls /\ mode.duty # Unset THEN Origin ELSE phase
  /\ UNCHANGED mode

\* set_mode: everything is due again; the rotations are left alone.
SetMode(m) ==
  /\ mode' = m
  /\ age' = [k \in Keys |-> Unset]
  /\ phase' = Unset

\* Time passes between two calls of due().
Older(d) ==
  /\ age' = [k \in Keys |->
              IF age[k] = Unset THEN Unset
              ELSE IF age[k] + d > Longest THEN Longest ELSE age[k] + d]
  /\ phase' = IF phase = Unset THEN Unset ELSE (phase + d) % DutyPeriod(mode)
  /\ UNCHANGED <<mode, cursor>>

\* A plan is built for the mode that is current.
Rebuild ==
  /\ SetMode(mode)
  /\ cursor' = [k \in Staggered |-> 0]

PlanTypeOK ==
  /\ mode \in Modes
  /\ age \in [Keys -> (0 .. Longest) \cup {Unset}]
  /\ \A c \in Staggered : cursor[c] \in 0 .. Len(Slots[c])
  /\ phase \in Nat \cup {Unset}
=============================================================================
