---------------------------- MODULE EngineProofs ----------------------------
(***************************************************************************)
(* Proofs about Engine, for every plan, every set of requests and PIDs and *)
(* every limit.                                                            *)
(*                                                                         *)
(* A reading is its own because an armed identifier has been through a     *)
(* clear and a define that were both answered: the ECU then works on       *)
(* nothing else, and its definition is the armed one, or lost in a sleep   *)
(* (which the poll's refusal shows).  Every path on which that may fail    *)
(* disarms first.                                                          *)
(***************************************************************************)
EXTENDS Engine, TLAPS

\* Where the executor is, and the request it is at.
AtRequest ==
  /\ pc \in {"between", "batch", "single", "next", "clear", "define", "poll",
             "down"}
  /\ cur \in Generic \cup {None} /\ todo \subseteq Generic
  /\ pc \in {"clear", "define"} => cur \in Defines
  /\ pc = "poll" => cur \in Generic
  /\ pc = "poll" /\ cur \in Defines => armed = cur

\* An armed identifier is defined as what armed it, or not at all, and the
\* ECU has nothing of an earlier sequence left to answer.
ArmedIsDefined ==
  /\ armed \in Defines \cup {None} /\ slot \in Defines \cup {None}
  /\ armed # None => slot \in {armed, None} /\ held = None
  /\ pc = "define" => held = None

\* The faults counted; the budget of silences is reached on a link that is
\* given up, only.
HealthCounts ==
  /\ silences \in 0 .. TransportFaultBudget
  /\ faults \in [Generic -> 0 .. RequestFaultLimit - 1]
  /\ restLen \in [Generic -> 0 .. RestMax]
  /\ restLeft \in [Generic -> 0 .. RestMax]
  /\ silences = TransportFaultBudget => pc = "down"

\* A PID has fewer strikes than it takes to retire it, or is retired and not
\* among those still to go.
StrikesCount ==
  /\ multi \in BOOLEAN /\ strikes \in [Pids -> 0 .. Strikes]
  /\ dead \subseteq Pids /\ ask \subseteq Pids
  /\ \A p \in Pids \ dead : strikes[p] < Strikes
  /\ left \cap dead = {}
  /\ pc = "batch" => ask \cap dead = {}

\* A read that is not over has its PIDs still to go or already accounted.
ReadCovers ==
  /\ left \subseteq ask /\ settled \subseteq ask /\ got \subseteq settled
  /\ pc \in {"batch", "single"} => ask \subseteq left \cup settled
  /\ pc \notin {"batch", "single", "down"} => settled = ask

EngineInv ==
  /\ AtRequest /\ ArmedIsDefined /\ HealthCounts /\ StrikesCount
  /\ ReadCovers /\ ReadingIsOwn

-----------------------------------------------------------------------------
\* The limits are counts.
LEMMA Limits ==
  /\ BatchSize \in Nat \ {0} /\ Strikes \in Nat \ {0}
  /\ RequestFaultLimit \in Nat \ {0} /\ TransportFaultBudget \in Nat \ {0}
  /\ RestSeconds \in Nat \ {0} /\ RestMax \in Nat /\ RestMax >= RestSeconds
  BY LimitsAssumption

\* The first connection starts with nothing asked, counted or defined.
LEMMA EngineInitially == Init => EngineInv
<1> SUFFICES ASSUME Init PROVE EngineInv
  OBVIOUS
<1> USE Limits DEF Init, ExecInit
<1>1. AtRequest /\ ArmedIsDefined
  BY DEF AtRequest, ArmedIsDefined
<1>2. HealthCounts
  BY DEF HealthCounts
<1>3. StrikesCount
  <2>1. multi \in BOOLEAN
    BY Zenon
  <2>2. strikes \in [Pids -> 0 .. Strikes]
    OBVIOUS
  <2> QED
    BY <2>1, <2>2 DEF StrikesCount
<1>4. ReadCovers /\ ReadingIsOwn
  BY DEF ReadCovers, ReadingIsOwn
<1> QED
  BY <1>1, <1>2, <1>3, <1>4 DEF EngineInv

-----------------------------------------------------------------------------
(* What the OBD read does to its PIDs. *)

\* A read begins with every PID that is not retired still to go.
LEMMA StartKeeps ==
  ASSUME EngineInv, NEW generic, NEW pids, generic \subseteq Generic,
         pids \subseteq Pids, Start(generic, pids)
  PROVE  EngineInv'
<1> USE DEF EngineInv, Start, health, obd, ecuVars
<1>1. AtRequest' /\ ArmedIsDefined'
  BY DEF AtRequest, ArmedIsDefined
<1>2. HealthCounts'
  BY DEF HealthCounts
<1>3. StrikesCount'
  BY DEF StrikesCount
<1>4. ReadCovers'
  BY DEF ReadCovers
<1>5. ReadingIsOwn'
  BY DEF ReadingIsOwn
<1> QED
  BY <1>1, <1>2, <1>3, <1>4, <1>5

\* A batch that fails, or leaves some of its PIDs out, hands on what is not
\* read; one that is complete is done with its PIDs.
LEMMA BatchKeeps == EngineInv /\ Batch => EngineInv'
<1> SUFFICES ASSUME EngineInv, Batch PROVE EngineInv'
  OBVIOUS
<1> USE DEF EngineInv
<1>1. PICK batch \in SUBSET left :
        \/ BatchFails(batch) /\ multi' = FALSE
        \/ \E returned \in SUBSET batch :
             BatchAnswers(batch, returned) /\ multi' = (returned = batch)
  BY DEF Batch, kSubset
<1>2. /\ pc = "batch"
      /\ UNCHANGED <<cur, todo, armed, silences, faults, restLen, restLeft,
                     strikes, dead, ask, reading, slot, held>>
  BY DEF Batch, health, ecuVars
<1>3. multi' \in BOOLEAN
  BY <1>1, Zenon
<1>4. /\ pc' \in {"batch", "single", "next"} /\ ReadCovers'
      /\ left' \subseteq ask
  <2>1. /\ left \subseteq ask /\ settled \subseteq ask /\ got \subseteq settled
        /\ ask \subseteq left \cup settled
    BY <1>2 DEF ReadCovers
  <2>2. CASE BatchFails(batch)
    BY <1>2, <2>1, <2>2 DEF BatchFails, ReadCovers
  <2>3. CASE \E returned \in SUBSET batch : BatchAnswers(batch, returned)
    <3>1. PICK returned \in SUBSET batch : BatchAnswers(batch, returned)
      BY <2>3
    <3> QED
      BY <1>2, <2>1, <3>1 DEF BatchAnswers, ReadCovers
  <2> QED
    BY <1>1, <2>2, <2>3
<1>5. AtRequest' /\ ArmedIsDefined'
  BY <1>2, <1>4 DEF AtRequest, ArmedIsDefined
<1>6. HealthCounts'
  BY <1>2 DEF HealthCounts
<1>7. StrikesCount'
  BY <1>2, <1>3, <1>4, <1>5 DEF StrikesCount
<1>8. ReadingIsOwn'
  BY <1>2 DEF ReadingIsOwn
<1> QED
  BY <1>4, <1>5, <1>6, <1>7, <1>8

\* A single read settles its PID; a strike retires it before it is one too
\* many.
LEMMA SingleKeeps == EngineInv /\ Single => EngineInv'
<1> SUFFICES ASSUME EngineInv, Single PROVE EngineInv'
  OBVIOUS
<1> USE DEF EngineInv
<1>1. PICK p \in left, back \in BOOLEAN :
        /\ StrikeOrClear(p, back)
        /\ got' = IF back THEN got \cup {p} ELSE got
        /\ settled' = settled \cup {p}
        /\ left' = left \ {p}
        /\ pc' = IF left = {p} THEN "next" ELSE "single"
  BY Zenon DEF Single
<1>2. /\ pc = "single"
      /\ UNCHANGED <<cur, todo, armed, silences, faults, restLen, restLeft,
                     multi, ask, reading, slot, held>>
  BY DEF Single, health, ecuVars
<1>3. p \in Pids
  BY DEF ReadCovers, StrikesCount
<1>4. AtRequest' /\ ArmedIsDefined'
  BY <1>1, <1>2 DEF AtRequest, ArmedIsDefined
<1>5. HealthCounts'
  BY <1>2 DEF HealthCounts
<1>6. StrikesCount'
  <2>1. dead' \subseteq Pids /\ left' \cap dead' = {} /\ pc' # "batch"
    BY <1>1, <1>3 DEF StrikeOrClear, StrikesCount
  <2>2. strikes[p] \in Nat /\ strikes[p] < Strikes
    BY <1>3, Limits DEF StrikesCount
  <2>3. strikes' \in [Pids -> 0 .. Strikes]
    BY <1>1, <1>3, <2>2, Limits DEF StrikeOrClear, StrikesCount
  <2>4. \A q \in Pids \ dead' : strikes'[q] < Strikes
    BY <1>1, <1>3, <2>2, Limits DEF StrikeOrClear, StrikesCount
  <2> QED
    BY <1>2, <2>1, <2>3, <2>4 DEF StrikesCount
<1>7. ReadCovers'
  BY <1>1, <1>2 DEF ReadCovers
<1>8. ReadingIsOwn'
  BY <1>2 DEF ReadingIsOwn
<1> QED
  BY <1>4, <1>5, <1>6, <1>7, <1>8

-----------------------------------------------------------------------------
(* What the generic requests do to the ECU's definition. *)

\* An answered frame of a sequence leaves the ECU with nothing to do, and
\* with the frame's own definition unless the answer was a late one.
LEMMA AnswerSettles ==
  ASSUME NEW f \in {"clear", "define", "poll"}, NEW by, NEW flagged,
         cur \in Defines, Answered(f, by, flagged)
  PROVE  /\ held' = None
         /\ \/ slot' = SlotAfter(f) /\ by = SlotAfter(f)
               /\ (f = "poll" => by # None)
            \/ slot' = slot /\ held # None
<1>1. cur \notin Plain
  BY NamesAssumption
<1> QED
  BY <1>1 DEF Answered, Take, Work, ecuVars

\* A plain request does not touch the identifier.
LEMMA PlainAnswers ==
  ASSUME NEW f, NEW by, NEW flagged, cur \in Plain, Answered(f, by, flagged)
  PROVE  /\ by = cur
         /\ UNCHANGED ecuVars
<1>1. cur \notin Defines
  BY NamesAssumption
<1> QED
  BY <1>1 DEF Answered, Take, Work

\* A resting request is left out; another one is begun where it stands.
LEMMA SubmitKeeps ==
  ASSUME EngineInv, NEW r \in Generic, Skip(r) \/ Submit(r)
  PROVE  EngineInv'
<1> USE DEF EngineInv
<1>1. /\ pc = "next" /\ r \in todo /\ todo' = todo \ {r}
      /\ UNCHANGED <<armed, silences, faults, restLen, restLeft, multi,
                     strikes, dead, ask, left, got, settled, reading, slot,
                     held>>
      /\ \/ UNCHANGED <<pc, cur>>
         \/ cur' = r
            /\ pc' = IF r \in Defines /\ armed # r THEN "clear" ELSE "poll"
  BY DEF Skip, Submit, health, obd, ecuVars
<1>2. AtRequest' /\ ArmedIsDefined'
  BY <1>1 DEF AtRequest, ArmedIsDefined
<1>3. HealthCounts'
  BY <1>1 DEF HealthCounts
<1>4. StrikesCount' /\ ReadCovers'
  BY <1>1 DEF StrikesCount, ReadCovers
<1>5. ReadingIsOwn'
  BY <1>1 DEF ReadingIsOwn
<1> QED
  BY <1>2, <1>3, <1>4, <1>5

\* A clear that is answered leaves the ECU idle, so that the define that is
\* answered next is this sequence's own: what it arms is what the ECU holds.
LEMMA SetupKeeps == EngineInv /\ SetupAnswered => EngineInv'
<1> SUFFICES ASSUME EngineInv, SetupAnswered PROVE EngineInv'
  OBVIOUS
<1> USE DEF EngineInv
<1>1. /\ pc \in {"clear", "define"}
      /\ pc' = IF pc = "clear" THEN "define" ELSE "poll"
      /\ armed' = IF pc = "define" THEN cur ELSE armed
      /\ UNCHANGED <<cur, todo, silences, faults, restLen, restLeft, multi,
                     strikes, dead, ask, left, got, settled, reading>>
  BY DEF SetupAnswered, health, obd
<1>2. cur \in Defines /\ cur # None
  BY <1>1, NamesAssumption DEF AtRequest, Generic
<1>3. PICK by \in Defines \cup {None}, flagged \in BOOLEAN :
        Answered(pc, by, flagged)
  BY DEF SetupAnswered
<1>4. /\ held' = None
      /\ \/ slot' = SlotAfter(pc)
         \/ slot' = slot /\ held # None
  BY <1>1, <1>2, <1>3, AnswerSettles
<1>5. slot' \in Defines \cup {None}
  BY <1>1, <1>2, <1>4 DEF SlotAfter, ArmedIsDefined
<1>6. ArmedIsDefined'
  <2>1. CASE pc = "clear"
    BY <1>1, <1>4, <1>5, <2>1 DEF SlotAfter, ArmedIsDefined
  <2>2. CASE pc = "define"
    BY <1>1, <1>2, <1>4, <1>5, <2>2 DEF SlotAfter, ArmedIsDefined
  <2> QED
    BY <1>1, <2>1, <2>2
<1>7. AtRequest'
  BY <1>1, <1>2 DEF AtRequest
<1>8. HealthCounts'
  BY <1>1 DEF HealthCounts
<1>9. StrikesCount' /\ ReadCovers'
  BY <1>1 DEF StrikesCount, ReadCovers
<1>10. ReadingIsOwn'
  BY <1>1 DEF ReadingIsOwn
<1> QED
  BY <1>6, <1>7, <1>8, <1>9, <1>10

\* A poll that is answered was computed under the definition that armed it:
\* nothing late is left to answer in its place.
LEMMA PolledKeeps == EngineInv /\ Polled => EngineInv'
<1> SUFFICES ASSUME EngineInv, Polled PROVE EngineInv'
  OBVIOUS
<1> USE DEF EngineInv
<1>1. /\ pc = "poll" /\ pc' = "next" /\ cur' = None /\ silences' = 0
      /\ Recovered(cur)
      /\ UNCHANGED <<todo, armed, multi, strikes, dead, ask, left, got,
                     settled>>
  BY DEF Polled, obd
<1>2. PICK by \in Generic, flagged \in BOOLEAN :
        /\ Answered("poll", by, flagged)
        /\ reading' \in {None, [req |-> cur, by |-> by, stale |-> flagged]}
  BY DEF Polled
<1>3. cur \in Generic
  BY <1>1 DEF AtRequest
<1>4. by = cur /\ ArmedIsDefined'
  <2>1. CASE cur \in Plain
    BY <1>1, <1>2, <2>1, PlainAnswers DEF ArmedIsDefined, ecuVars
  <2>2. CASE cur \in Defines
    <3>1. armed = cur /\ armed # None
      BY <1>1, <2>2, NamesAssumption DEF AtRequest, Generic
    <3>2. held = None /\ slot \in {armed, None}
      BY <3>1 DEF ArmedIsDefined
    <3>3. /\ held' = None
          /\ \/ slot' = SlotAfter("poll") /\ by = SlotAfter("poll")
                /\ by # None
             \/ slot' = slot /\ held # None
      BY <1>2, <2>2, AnswerSettles
    <3>4. slot' = slot /\ by = slot /\ by # None
      BY <3>2, <3>3 DEF SlotAfter
    <3> QED
      BY <1>1, <3>1, <3>2, <3>3, <3>4 DEF ArmedIsDefined
  <2> QED
    BY <1>3, <2>1, <2>2 DEF Generic
<1>5. ReadingIsOwn'
  BY <1>2, <1>4 DEF ReadingIsOwn
<1>6. HealthCounts'
  BY <1>1, <1>3, Limits DEF HealthCounts, Recovered
<1>7. AtRequest'
  BY <1>1 DEF AtRequest
<1>8. StrikesCount' /\ ReadCovers'
  BY <1>1 DEF StrikesCount, ReadCovers
<1> QED
  BY <1>4, <1>5, <1>6, <1>7, <1>8

\* A request that fails is disarmed whichever frame failed, whatever the ECU
\* makes of that frame later; an exchange that fails costs the link its
\* budget at most.
LEMMA FailedKeeps == EngineInv /\ Failed => EngineInv'
<1> SUFFICES ASSUME EngineInv, Failed PROVE EngineInv'
  OBVIOUS
<1> USE DEF EngineInv
<1>1. /\ pc \in {"clear", "define", "poll"}
      /\ armed' = Disarm(cur)
      /\ IF silences' >= TransportFaultBudget
           THEN pc' = "down" ELSE pc' = "next"
      /\ cur' = None
      /\ UNCHANGED <<todo, multi, strikes, dead, ask, left, got, settled,
                     reading>>
  BY DEF Failed, obd
<1>2. cur \in Generic
  BY <1>1 DEF AtRequest, Generic
<1>3. PICK kind \in RequestFaults :
        /\ Fault(pc, kind)
        /\ silences' = IF kind \in Silent THEN silences + 1 ELSE silences
  BY DEF Failed
<1>4. ArmedIsDefined'
  <2>1. CASE cur \in Plain
    <3>1. cur \notin Defines
      BY <2>1, NamesAssumption
    <3>2. UNCHANGED <<slot, held, armed>>
      BY <1>1, <1>3, <2>1, <3>1
         DEF Fault, Unanswered, Refused, Take, Disarm, ecuVars
    <3> QED
      BY <1>1, <3>2 DEF ArmedIsDefined
  <2>2. CASE cur \in Defines
    <3>1. cur \notin Plain /\ armed' = None
      BY <1>1, <2>2, NamesAssumption DEF Disarm
    <3>2. slot' \in {slot, SlotAfter(pc)}
      BY <1>3, <2>2, <3>1 DEF Fault, Unanswered, Refused, Take, ecuVars
    <3>3. slot' \in Defines \cup {None}
      BY <1>1, <2>2, <3>2 DEF SlotAfter, ArmedIsDefined
    <3> QED
      BY <1>1, <3>1, <3>3 DEF ArmedIsDefined
  <2> QED
    BY <1>2, <2>1, <2>2 DEF Generic
<1>5. HealthCounts'
  <2>1. silences \in Nat /\ silences < TransportFaultBudget
    BY <1>1, Limits DEF HealthCounts
  <2>2. /\ silences' \in 0 .. TransportFaultBudget
        /\ silences' = TransportFaultBudget => pc' = "down"
    BY <1>1, <1>3, <2>1, Limits
  <2>3. RestOf(cur) \in 0 .. RestMax
    BY <1>2, Limits DEF RestOf, HealthCounts
  <2>4. faults' \in [Generic -> 0 .. RequestFaultLimit - 1]
    <3>1. faults[cur] \in 0 .. RequestFaultLimit - 1
      BY <1>2 DEF HealthCounts
    <3>2. CASE faults[cur] + 1 >= RequestFaultLimit
      BY <1>2, <3>2, Limits DEF Failed, HealthCounts
    <3>3. CASE ~(faults[cur] + 1 >= RequestFaultLimit)
      BY <1>2, <3>1, <3>3, Limits DEF Failed, HealthCounts
    <3> QED
      BY <3>2, <3>3
  <2>5. /\ restLen' \in [Generic -> 0 .. RestMax]
        /\ restLeft' \in [Generic -> 0 .. RestMax]
    BY <1>2, <2>3 DEF Failed, HealthCounts
  <2> QED
    BY <2>2, <2>4, <2>5 DEF HealthCounts
<1>6. AtRequest'
  BY <1>1 DEF AtRequest
<1>7. StrikesCount' /\ ReadCovers'
  BY <1>1 DEF StrikesCount, ReadCovers
<1>8. ReadingIsOwn'
  BY <1>1 DEF ReadingIsOwn
<1> QED
  BY <1>4, <1>5, <1>6, <1>7, <1>8

-----------------------------------------------------------------------------
(* The link, the end of a cycle, the ECU, and the plan around them. *)

\* A link fault leaves the ECU as it is and nothing armed that was not sure.
LEMMA LinkLostKeeps == EngineInv /\ LinkLost => EngineInv'
<1> SUFFICES ASSUME EngineInv, LinkLost PROVE EngineInv'
  OBVIOUS
<1> USE DEF EngineInv, LinkLost, health, obd, ecuVars
<1>1. AtRequest' /\ ArmedIsDefined'
  BY DEF AtRequest, ArmedIsDefined
<1>2. HealthCounts'
  BY DEF HealthCounts
<1>3. StrikesCount' /\ ReadCovers'
  BY DEF StrikesCount, ReadCovers
<1>4. ReadingIsOwn'
  BY DEF ReadingIsOwn
<1> QED
  BY <1>1, <1>2, <1>3, <1>4

\* A cycle that is over has nothing left to account; the rests shorten.
LEMMA FinishKeeps ==
  ASSUME EngineInv, NEW ticks \in 1 .. MaxTicks, Finish(ticks)
  PROVE  EngineInv'
<1> USE DEF EngineInv, Finish, ecuVars
<1>1. AtRequest' /\ ArmedIsDefined'
  BY DEF AtRequest, ArmedIsDefined
<1>2. restLeft' \in [Generic -> 0 .. RestMax]
  <2>1. ticks \in Int /\ ticks >= 1
    OBVIOUS
  <2> QED
    BY <2>1, Limits DEF HealthCounts
<1>3. HealthCounts'
  BY <1>2, Limits DEF HealthCounts
<1>4. StrikesCount' /\ ReadCovers'
  BY DEF StrikesCount, ReadCovers
<1>5. ReadingIsOwn'
  BY DEF ReadingIsOwn
<1> QED
  BY <1>1, <1>3, <1>4, <1>5

\* A new connection trusts nothing of the old one but the ECU's definition.
LEMMA ReconnectKeeps == EngineInv /\ Reconnect => EngineInv'
<1> SUFFICES ASSUME EngineInv, Reconnect PROVE EngineInv'
  OBVIOUS
<1> USE DEF EngineInv, Reconnect
<1>1. AtRequest' /\ ArmedIsDefined'
  BY DEF AtRequest, ArmedIsDefined
<1>2. HealthCounts'
  BY Limits DEF HealthCounts
<1>3. StrikesCount'
  <2>1. multi' \in BOOLEAN
    BY Zenon
  <2>2. strikes' \in [Pids -> 0 .. Strikes] /\ \A p \in Pids : strikes'[p] = 0
    BY Limits
  <2>3. pc' = "between" /\ dead' = {} /\ ask' = {} /\ left' = {}
    OBVIOUS
  <2> QED
    BY <2>1, <2>2, <2>3, Limits DEF StrikesCount
<1>4. ReadCovers' /\ ReadingIsOwn'
  BY DEF ReadCovers, ReadingIsOwn
<1> QED
  BY <1>1, <1>2, <1>3, <1>4

\* What the ECU does by itself never gives an armed identifier away.
LEMMA EcuKeeps == EngineInv /\ (EcuFinishes \/ EcuForgets) => EngineInv'
<1> SUFFICES ASSUME EngineInv, EcuFinishes \/ EcuForgets PROVE EngineInv'
  OBVIOUS
<1> USE DEF EngineInv
<1>1. /\ UNCHANGED <<pc, cur, todo, armed, silences, faults, restLen,
                     restLeft, multi, strikes, dead, ask, left, got, settled,
                     reading>>
      /\ slot' \in {slot, None} /\ held' \in {held, None}
  BY DEF EcuFinishes, EcuForgets, health, obd
<1>2. AtRequest' /\ ArmedIsDefined'
  BY <1>1 DEF AtRequest, ArmedIsDefined
<1>3. HealthCounts'
  BY <1>1 DEF HealthCounts
<1>4. StrikesCount' /\ ReadCovers'
  BY <1>1 DEF StrikesCount, ReadCovers
<1>5. ReadingIsOwn'
  BY <1>1 DEF ReadingIsOwn
<1> QED
  BY <1>2, <1>3, <1>4, <1>5

\* The plan alone does not touch the executor.
LEMMA PlanKeeps == EngineInv /\ UNCHANGED execVars => EngineInv'
<1> SUFFICES ASSUME EngineInv, UNCHANGED execVars PROVE EngineInv'
  OBVIOUS
<1> USE DEF EngineInv, execVars, health, obd, ecuVars
<1>1. AtRequest' /\ ArmedIsDefined'
  BY DEF AtRequest, ArmedIsDefined
<1>2. HealthCounts'
  BY DEF HealthCounts
<1>3. StrikesCount' /\ ReadCovers'
  BY DEF StrikesCount, ReadCovers
<1>4. ReadingIsOwn'
  BY DEF ReadingIsOwn
<1> QED
  BY <1>1, <1>2, <1>3, <1>4

\* Every step of the loop, of the ECU and of the person who switches modes
\* keeps the invariant.
LEMMA EngineStep == EngineInv /\ [Next]_vars => EngineInv'
<1> SUFFICES ASSUME EngineInv, [Next]_vars PROVE EngineInv'
  OBVIOUS
<1>1. CASE Cycle
  <2>1. /\ Due \cap Generic \subseteq Generic
        /\ Due \cap Pids \subseteq Pids
    OBVIOUS
  <2> QED
    BY <1>1, <2>1, StartKeeps DEF Cycle
<1>2. CASE Execute
  BY <1>2, BatchKeeps, SingleKeeps, SetupKeeps, PolledKeeps, FailedKeeps,
     LinkLostKeeps, SubmitKeeps DEF Execute, ExecStep
<1>3. CASE EndCycle
  BY <1>3, FinishKeeps DEF EndCycle
<1>4. CASE Restart
  BY <1>4, ReconnectKeeps DEF Restart
<1>5. CASE Ecu
  BY <1>5, EcuKeeps DEF Ecu
<1>6. CASE \E m \in Modes : SwitchMode(m)
  BY <1>6, PlanKeeps DEF SwitchMode
<1>7. CASE UNCHANGED vars
  BY <1>7, PlanKeeps DEF vars
<1> QED
  BY <1>1, <1>2, <1>3, <1>4, <1>5, <1>6, <1>7 DEF Next, Loop

-----------------------------------------------------------------------------
(* What holds of the acquisition, whatever the plan asks and the link does. *)

\* The invariant holds of every behaviour.
THEOREM EngineInvariant == Spec => []EngineInv
<1>1. Init => EngineInv
  BY EngineInitially
<1>2. EngineInv /\ [Next]_vars => EngineInv'
  BY EngineStep
<1> QED
  BY <1>1, <1>2, PTL DEF Spec

\* The executor and the OBD session stay within their limits: silences,
\* faults, strikes and rests (execute.py:452-481, 1084-1131;
\* live.py:1416-1483).
THEOREM EngineTypeOK == Spec => []ExecTypeOK
<1>1. EngineInv => ExecTypeOK
  BY DEF EngineInv, AtRequest, ArmedIsDefined, HealthCounts, StrikesCount,
         ReadCovers, ExecTypeOK
<1> QED
  BY <1>1, EngineInvariant, PTL

\* No reading is computed under another request's definition of the dynamic
\* identifier, whichever frame of a sequence was lost, late or refused
\* (execute.py:1090-1094, 1169-1182).
THEOREM ReadingsAreOwn == Spec => []ReadingIsOwn
<1>1. EngineInv => ReadingIsOwn
  BY DEF EngineInv
<1> QED
  BY <1>1, EngineInvariant, PTL

\* A read of the OBD PIDs that is over has a value or a reported fault for
\* every one of them (execute.py:991-1068, live.py:1416-1483).
THEOREM PidsAccounted == Spec => []EveryPidAccounted
<1>1. EngineInv => EveryPidAccounted
  BY DEF EngineInv, ReadCovers, EveryPidAccounted
<1> QED
  BY <1>1, EngineInvariant, PTL
=============================================================================
