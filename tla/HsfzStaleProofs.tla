--------------------------- MODULE HsfzStaleProofs ---------------------------
(***************************************************************************)
(* An answer that is late is recognised: for every number of ECUs, every   *)
(* request, every timing of the client and every order of events.          *)
(*                                                                         *)
(* The client keeps ONE record per ECU and looks for a late answer in one  *)
(* window before the next request, so what it can promise depends on how   *)
(* long an ECU works on a request it was given.  Attributable and Prompt   *)
(* say how long; the instance of hsfz_slow is Attributable and that of     *)
(* hsfz_prompt Prompt, both Patient, with Patience = 2.  From the same     *)
(* invariant, the client implements Transport.                             *)
(***************************************************************************)
EXTENDS HsfzClientProofs

CONSTANT Patience  \* no wait for an answer is shorter

Longest == Latency + MaxNotices * NoticeLatency
Window == Least(SettleQuiet, SettleMax)

Patient ==
  /\ Patience \in Nat
  /\ Patience <= PendingExtension
  /\ \A base \in Timeouts : Patience <= base
  /\ Longest <= Patience + PendingMaxTotal

\* What the ledger's one record per ECU can attribute: one request of a
\* single-outstanding ECU, that is answered before a second wait for the same
\* ECU and the two windows are over.
Attributable ==
  /\ EcuDepth <= 1 /\ ~AnswersMayCross
  /\ Longest < 2 * (Patience + Window)
  /\ \A r, q \in Requests : CouldBeMistaken(r, q) => IndistinguishableFrom(r, q)

\* Whatever is late is in before the window of the next call closes.
Prompt == Longest < Patience + Window

\* How long a held request may still be answered.
Remaining(h) == h.left + (MaxNotices - h.notices) * NoticeLatency

\* An ECU that works on what the client gave up on.
Lingers(e) == ecu[e] # <<>> /\ ~(pc = "waiting" /\ e = cur.ecu /\ Head(ecu[e]).own)

\* The time the present wait has taken; in the window what it will have taken
\* less what is left of it.
Waited(e) ==
  IF e # cur.ecu THEN 0
  ELSE IF pc = "settling" THEN 0 - Least(quiet, end)
  ELSE IF pc = "waiting" THEN HardBound(cur.base) - hard ELSE 0

\* The record keeps what lingers in view, which is over before `due`.
Traced(e, due) ==
  LET record == outstanding[e]  left == Remaining(Head(ecu[e])) IN
  /\ record # NoRecord
  /\ ~record.answered
  /\ record.age + left <= due
  /\ pc \in {"settling", "waiting"} /\ cur.ecu = e => record.settled
  /\ record.settled => left + Waited(e) <= due - Window
  /\ pc = "waiting" /\ cur.ecu = e /\ IndistinguishableFrom(record.req, cur.req)
       => ambiguous

First == Longest - Patience
Second == First - Window - Patience

\* It is the request of the record, or one that a second call was sent beside.
LingeringTraced ==
  \A e \in Ecus : Lingers(e) =>
    \/ Traced(e, First) /\ outstanding[e].req = Head(ecu[e]).req
    \/ Traced(e, Second)

HeldOnce ==
  \A e \in Ecus : /\ Len(ecu[e]) <= 1
                  /\ ecu[e] # <<>> => Head(ecu[e]).notices <= MaxNotices

\* What an ECU sent for one request are promises and then an answer.
FramesInOrder ==
  /\ \A i, j \in DOMAIN inbox :
       i < j /\ inbox[i].ecu = inbox[j].ecu =>
         inbox[i].kind = "pending" /\ inbox[i].service = inbox[j].service
  /\ \A e \in Ecus : ecu[e] # <<>> =>
       \A i \in DOMAIN inbox : inbox[i].ecu = e =>
         inbox[i].kind = "pending" /\ inbox[i].service = Head(ecu[e]).req.service

\* The present call's own request.
OwnInTime ==
  pc = "waiting" =>
    /\ Patience <= deadline + (HardBound(cur.base) - hard)
    /\ ecu[cur.ecu] # <<>> /\ Head(ecu[cur.ecu]).own =>
         /\ Head(ecu[cur.ecu]).req = cur.req
         /\ Remaining(Head(ecu[cur.ecu])) + (HardBound(cur.base) - hard) <= Longest

\* What is held when a call begins is not its own.
NothingOwnYet ==
  pc \in {"discarding", "settling"} /\ ecu[cur.ecu] # <<>> => ~Head(ecu[cur.ecu]).own

\* No frame of the ECU is left in the buffer when the request is sent.
WindowShut ==
  pc = "settling" =>
    /\ quiet <= SettleQuiet
    /\ Least(quiet, end) = 0 => \A i \in DOMAIN inbox : inbox[i].ecu # cur.ecu

\* A frame that could be taken for the call's answer is its own, or is flagged.
StaleIsFlagged ==
  pc = "waiting" =>
    \A i \in DOMAIN inbox : inbox[i].ecu = cur.ecu /\ ~inbox[i].own =>
      /\ ~Prompt
      /\ inbox[i].kind = "positive" /\ MatchesPositive(cur.req, inbox[i]) =>
           ambiguous /\ outstanding[cur.ecu] # NoRecord

Kept ==
  pc # "down" =>
    /\ HeldOnce
    /\ FramesInOrder
    /\ LingeringTraced
    /\ NothingOwnYet
    /\ OwnInTime
    /\ WindowShut
    /\ StaleIsFlagged

Setting == Patient /\ (Attributable \/ Prompt)

-----------------------------------------------------------------------------
(* How long an ECU may still work *)

LEMMA Times ==
  ASSUME Setting
  PROVE  /\ Longest \in Nat /\ Window \in Nat /\ Patience \in Nat
         /\ First \in Int /\ Second \in Int
         /\ Window <= SettleQuiet /\ Window <= SettleMax
         /\ First <= PendingMaxTotal /\ Second <= First
         /\ Second < Window
         /\ ~Attributable \/ Prompt => First < Window
<1>1. Latency \in Nat /\ MaxNotices \in Nat /\ NoticeLatency \in Nat
  BY EcuAssumption
<1>2. MaxNotices * NoticeLatency \in Nat
  BY <1>1
<1>3. Longest \in Nat
  BY <1>1, <1>2 DEF Longest
<1>4. Window \in Nat /\ Window <= SettleQuiet /\ Window <= SettleMax
  BY TimesAssumption DEF Window, Least
<1>5. Patience \in Nat /\ Longest <= Patience + PendingMaxTotal /\ PendingMaxTotal \in Nat
  BY TimesAssumption DEF Setting, Patient
<1>6. CASE Prompt
  BY <1>3, <1>4, <1>5, <1>6 DEF First, Second, Prompt
<1>7. CASE Attributable /\ ~Prompt
  <2>1. Longest < 2 * (Patience + Window)
    BY <1>7 DEF Attributable
  <2> QED BY <1>3, <1>4, <1>5, <1>7, <2>1 DEF First, Second
<1> QED BY <1>6, <1>7 DEF Setting

LEMMA RemainingIs ==
  ASSUME NEW h \in Held, h.notices <= MaxNotices
  PROVE  Remaining(h) \in Nat /\ h.left <= Remaining(h)
<1>1. /\ h.left \in Nat /\ h.notices \in Nat
      /\ MaxNotices \in Nat /\ NoticeLatency \in Nat
  BY EcuAssumption DEF Held
<1>2. MaxNotices - h.notices \in Nat
  BY <1>1
<1>3. (MaxNotices - h.notices) * NoticeLatency \in Nat
  BY <1>1, <1>2
<1> DEFINE m == (MaxNotices - h.notices) * NoticeLatency
<1>4. Remaining(h) = h.left + m
  BY DEF Remaining
<1> HIDE DEF m
<1>5. m \in Nat
  BY <1>3 DEF m
<1> QED BY <1>1, <1>4, <1>5

\* A promise buys one of the waits that are left, and no more.
LEMMA PromiseSpends ==
  ASSUME NEW h \in Held, h.notices < MaxNotices
  PROVE  /\ Promised(h).req = h.req /\ Promised(h).own = h.own
         /\ Promised(h).notices <= MaxNotices
         /\ Remaining(Promised(h)) <= Remaining(h)
<1>1. /\ h.left \in Nat /\ h.notices \in Nat
      /\ MaxNotices \in Nat /\ NoticeLatency \in Nat
  BY EcuAssumption DEF Held
<1>2. /\ Promised(h).req = h.req /\ Promised(h).own = h.own
      /\ Promised(h).notices = h.notices + 1 /\ Promised(h).left = NoticeLatency
  BY DEF Promised, Held
<1>3. Remaining(Promised(h)) = NoticeLatency + (MaxNotices - (h.notices + 1)) * NoticeLatency
  BY <1>2 DEF Remaining
<1> DEFINE k == MaxNotices - (h.notices + 1)
<1>4. k \in Nat /\ MaxNotices - h.notices = k + 1
  BY <1>1
<1>5. Remaining(h) = h.left + (k + 1) * NoticeLatency
  BY <1>4 DEF Remaining
<1>6. Remaining(Promised(h)) = NoticeLatency + k * NoticeLatency
  BY <1>3
<1> HIDE DEF k
<1>7. (k + 1) * NoticeLatency = k * NoticeLatency + NoticeLatency /\ k * NoticeLatency \in Nat
  BY <1>1, <1>4
<1> DEFINE m == k * NoticeLatency
<1>8. m \in Nat /\ Remaining(h) = h.left + (m + NoticeLatency)
      /\ Remaining(Promised(h)) = NoticeLatency + m
  BY <1>5, <1>6, <1>7
<1> HIDE DEF m
<1>9. Remaining(Promised(h)) <= Remaining(h)
  BY <1>1, <1>8
<1> QED BY <1>1, <1>2, <1>9

LEMMA RemainingOlder ==
  ASSUME NEW s \in Seq(Held), s # <<>>, \A i \in DOMAIN s : s[i].left > 0,
         s[1].notices <= MaxNotices
  PROVE  /\ Older(s) # <<>> /\ Len(Older(s)) = Len(s)
         /\ Head(Older(s)).req = Head(s).req /\ Head(Older(s)).own = Head(s).own
         /\ Head(Older(s)).notices = Head(s).notices
         /\ Remaining(Head(Older(s))) = Remaining(Head(s)) - 1
<1>1. 1 \in DOMAIN s /\ s[1] \in Held /\ Head(s) = s[1] /\ Len(s) \in Nat
  OBVIOUS
<1>2. Older(s) \in Seq(Held)
  BY OlderType
<1>3. DOMAIN Older(s) = DOMAIN s /\ Older(s)[1] = [s[1] EXCEPT !.left = @ - 1]
  BY <1>1 DEF Older
<1>4. Len(Older(s)) = Len(s)
  BY <1>2, <1>3
<1>5. Older(s) # <<>> /\ Head(Older(s)) = Older(s)[1]
  BY <1>1, <1>2, <1>3
<1> DEFINE h == s[1]
           g == Older(s)[1]
<1>6. g.req = h.req /\ g.own = h.own /\ g.notices = h.notices /\ g.left = h.left - 1
  BY <1>1, <1>3 DEF Held
<1>7. h.left \in Nat
  BY <1>1 DEF Held
<1>8. Remaining(h) \in Nat
  BY <1>1, RemainingIs
<1> DEFINE m == (MaxNotices - h.notices) * NoticeLatency
<1>9. Remaining(h) = h.left + m /\ Remaining(g) = (h.left - 1) + m
  BY <1>6 DEF Remaining
<1>10. m \in Int
  BY <1>1, EcuAssumption DEF Held
<1> HIDE DEF m, g, h
<1>11. Remaining(g) = Remaining(h) - 1
  BY <1>7, <1>9, <1>10
<1> QED BY <1>1, <1>4, <1>5, <1>6, <1>11 DEF g, h

LEMMA RemainingDisowned ==
  ASSUME NEW s \in Seq(Held), s # <<>>
  PROVE  /\ Disowned(s) # <<>> /\ Len(Disowned(s)) = Len(s)
         /\ Head(Disowned(s)).req = Head(s).req
         /\ Head(Disowned(s)).notices = Head(s).notices
         /\ Remaining(Head(Disowned(s))) = Remaining(Head(s))
         /\ ~Head(Disowned(s)).own
<1>1. 1 \in DOMAIN s /\ s[1] \in Held /\ Head(s) = s[1] /\ Len(s) \in Nat
  OBVIOUS
<1>2. Disowned(s) \in Seq(Held)
  BY DisownedType
<1>3. DOMAIN Disowned(s) = DOMAIN s /\ Disowned(s)[1] = [s[1] EXCEPT !.own = FALSE]
  BY <1>1 DEF Disowned
<1>4. Len(Disowned(s)) = Len(s)
  BY <1>2, <1>3
<1>5. Disowned(s) # <<>> /\ Head(Disowned(s)) = Disowned(s)[1]
  BY <1>1, <1>2, <1>3
<1>6. /\ Disowned(s)[1].req = s[1].req /\ Disowned(s)[1].notices = s[1].notices
      /\ Disowned(s)[1].left = s[1].left
  BY <1>1, <1>3 DEF Held
<1>7. Remaining(Disowned(s)[1]) = Remaining(s[1])
  BY <1>6 DEF Remaining
<1>8. ~Disowned(s)[1].own
  BY Zenon, <1>1, <1>3 DEF Held
<1> QED BY <1>1, <1>4, <1>5, <1>6, <1>7, <1>8

-----------------------------------------------------------------------------
(* The ledger *)

\* A promise of an ECU takes nothing from its record but time.
LEMMA OrphanKeeps ==
  ASSUME NEW l \in Ledger, NEW f \in Frame
  PROVE  /\ \A x \in Ecus \ {f.ecu} : AfterOrphan(l, f)[x] = l[x]
         /\ l[f.ecu] # NoRecord /\ l[f.ecu].age <= PendingMaxTotal /\ f.kind = "pending" =>
              /\ AfterOrphan(l, f)[f.ecu] # NoRecord
              /\ AfterOrphan(l, f)[f.ecu].req = l[f.ecu].req
              /\ AfterOrphan(l, f)[f.ecu].answered = l[f.ecu].answered
              /\ AfterOrphan(l, f)[f.ecu].settled = l[f.ecu].settled
              /\ AfterOrphan(l, f)[f.ecu].age <= l[f.ecu].age
<1> DEFINE m == Expire(l, f.ecu)
           outcome == IF m[f.ecu] = NoRecord THEN FOREIGN
                      ELSE Classify(m[f.ecu].req, f)
<1>1. f.ecu \in Ecus
  BY DEF Frame
<1>2. m \in Ledger /\ \A x \in Ecus \ {f.ecu} : m[x] = l[x]
  BY <1>1 DEF Expire, Ledger
<1>3. AfterOrphan(l, f) =
        IF outcome = PENDING
          THEN [m EXCEPT ![f.ecu] = [@ EXCEPT !.age = 0, !.promised = TRUE]]
        ELSE IF outcome = FOREIGN
          THEN m
        ELSE [m EXCEPT ![f.ecu] = NoRecord]
  BY DEF AfterOrphan
<1>4. \A x \in Ecus \ {f.ecu} : AfterOrphan(l, f)[x] = l[x]
  <2> HIDE DEF m, outcome
  <2> QED BY <1>2, <1>3 DEF Ledger
<1>5. ASSUME l[f.ecu] # NoRecord, l[f.ecu].age <= PendingMaxTotal, f.kind = "pending"
      PROVE  /\ AfterOrphan(l, f)[f.ecu] # NoRecord
             /\ AfterOrphan(l, f)[f.ecu].req = l[f.ecu].req
             /\ AfterOrphan(l, f)[f.ecu].answered = l[f.ecu].answered
             /\ AfterOrphan(l, f)[f.ecu].settled = l[f.ecu].settled
             /\ AfterOrphan(l, f)[f.ecu].age <= l[f.ecu].age
  <2>1. l[f.ecu] \in Record /\ l[f.ecu].age \in Nat /\ PendingMaxTotal \in Nat
    BY <1>1, <1>5, TimesAssumption DEF Ledger, Record
  <2>2. m = l
    BY <1>5, <2>1 DEF Expire
  <2>3. outcome \in {PENDING, FOREIGN}
    BY <1>5 DEF Classify, PENDING, FOREIGN, MATCH, NEGATIVE
  <2> HIDE DEF m, outcome
  <2>4. CASE outcome = PENDING
    <3> DEFINE r == l[f.ecu]
    <3>1. AfterOrphan(l, f)[f.ecu] = [r EXCEPT !.age = 0, !.promised = TRUE]
      BY <1>1, <1>2, <1>3, <2>2, <2>4 DEF Ledger
    <3>2. r \in Record
      BY <2>1
    <3> DEFINE g == [r EXCEPT !.age = 0, !.promised = TRUE]
    <3>3. g \in Record
      <4> HIDE DEF r
      <4> QED BY <3>2 DEF Record
    <3>4. g.req = r.req /\ g.age = 0
      <4> HIDE DEF r
      <4> QED BY <3>2 DEF Record
    <3>5. g.answered = r.answered /\ g.settled = r.settled
      <4> HIDE DEF r
      <4> QED BY Zenon, <3>2 DEF Record
    <3>6. r.age \in Nat
      BY <2>1
    <3> HIDE DEF r
    <3>7. /\ g \in Record
          /\ g.req = r.req
          /\ g.answered = r.answered
          /\ g.settled = r.settled
          /\ g.age <= r.age
      <4> HIDE DEF g
      <4> QED BY <3>3, <3>4, <3>5, <3>6
    <3>8. g # NoRecord
      BY <3>7, NoRecordAssumption DEF Record
    <3> QED BY <3>1, <3>7, <3>8 DEF r
  <2>5. CASE outcome = FOREIGN
    <3>1. AfterOrphan(l, f) = l
      BY <1>3, <2>2, <2>5 DEF PENDING, FOREIGN
    <3> QED BY <1>5, <2>1, <3>1
  <2> QED BY <2>3, <2>4, <2>5
<1> QED BY <1>4, <1>5

-----------------------------------------------------------------------------
(* What a step leaves as it was *)

LEMMA HeldHead ==
  ASSUME TypeOK, NEW e \in Ecus, ecu[e] # <<>>
  PROVE  /\ Head(ecu[e]) = ecu[e][1] /\ 1 \in DOMAIN ecu[e]
         /\ Head(ecu[e]) \in Held /\ Len(ecu[e]) \in Nat
BY DEF TypeOK

LEMMA HeldRemaining ==
  ASSUME TypeOK, HeldOnce, NEW e \in Ecus, ecu[e] # <<>>
  PROVE  /\ Remaining(Head(ecu[e])) \in Nat
         /\ Head(ecu[e]).left <= Remaining(Head(ecu[e]))
BY HeldHead, RemainingIs DEF HeldOnce

LEMMA WaitedType ==
  ASSUME TypeOK, Budget, NEW e \in Ecus
  PROVE  /\ Waited(e) \in Int
         /\ pc # "settling" => 0 <= Waited(e)
         /\ pc \notin {"settling", "waiting"} => Waited(e) = 0
         /\ e # cur.ecu => Waited(e) = 0
<1>1. HardBound(cur.base) \in Nat /\ hard \in Nat /\ quiet \in Nat /\ end \in Nat
  BY HardBoundType DEF TypeOK
<1>2. Least(quiet, end) \in Nat
  BY <1>1 DEF Least
<1>3. pc = "waiting" => hard <= HardBound(cur.base)
  BY DEF Budget
<1> QED BY <1>1, <1>2, <1>3 DEF Waited

\* The same of the state after a step.
LEMMA NextTypes ==
  ASSUME TypeOK', Budget', HeldOnce', NEW e \in Ecus
  PROVE  /\ Waited(e)' \in Int
         /\ ecu'[e] # <<>> => /\ Remaining(Head(ecu'[e])) \in Nat
                              /\ Head(ecu'[e]) \in Held
<1>1. HardBound(cur'.base) \in Nat /\ hard' \in Nat /\ quiet' \in Nat /\ end' \in Nat
  BY HardBoundType DEF TypeOK
<1>2. Least(quiet', end') \in Nat
  BY <1>1 DEF Least
<1>3. Waited(e)' \in Int
  BY <1>1, <1>2 DEF Waited
<1>4. ASSUME ecu'[e] # <<>>
      PROVE  Remaining(Head(ecu'[e])) \in Nat /\ Head(ecu'[e]) \in Held
  <2>1. Head(ecu'[e]) \in Held
    BY <1>4 DEF TypeOK
  <2>2. Head(ecu'[e]).notices <= MaxNotices
    BY <1>4 DEF HeldOnce
  <2> QED BY <2>1, <2>2, RemainingIs
<1> QED BY <1>3, <1>4

\* A record that has an ECU in view keeps it in view while the wait and the
\* request lose the time that passes.
LEMMA TraceStep ==
  ASSUME TypeOK, TypeOK', NEW e \in Ecus, NEW due \in Int, NEW n \in Nat,
         Traced(e, due),
         Waited(e) \in Int, Waited(e)' \in Int, Window \in Nat,
         Remaining(Head(ecu[e])) \in Int, Remaining(Head(ecu'[e])) \in Int,
         Remaining(Head(ecu'[e])) + n <= Remaining(Head(ecu[e])),
         outstanding'[e] # NoRecord,
         outstanding'[e].req = outstanding[e].req,
         outstanding'[e].answered = outstanding[e].answered,
         outstanding'[e].settled = outstanding[e].settled,
         outstanding'[e].age <= outstanding[e].age + n,
         Waited(e)' <= Waited(e) + n,
         pc' \in {"settling", "waiting"} /\ cur'.ecu = e =>
           pc' = pc /\ cur' = cur /\ ambiguous' = ambiguous
  PROVE  Traced(e, due)'
<1> DEFINE r == outstanding[e]
           q == outstanding'[e]
           a == Remaining(Head(ecu[e]))
           b == Remaining(Head(ecu'[e]))
           v == Waited(e)
           w == Waited(e)'
<1>1. r \in Record /\ q \in Record
  BY DEF TypeOK, Traced
<1>2. r.age \in Nat /\ q.age \in Nat
  BY <1>1 DEF Record
<1>3. /\ r # NoRecord /\ ~r.answered /\ r.age + a <= due
      /\ (pc \in {"settling", "waiting"} /\ cur.ecu = e => r.settled)
      /\ (r.settled => a + v <= due - Window)
      /\ (pc = "waiting" /\ cur.ecu = e /\ IndistinguishableFrom(r.req, cur.req) => ambiguous)
  BY DEF Traced
<1>4. q # NoRecord /\ ~q.answered
  BY <1>3
<1>5. q.age + b <= due
  <2> HIDE DEF r, q, a, b
  <2> QED BY <1>2, <1>3 DEF r, q, a, b
<1>6. pc' \in {"settling", "waiting"} /\ cur'.ecu = e => q.settled
  BY <1>3
<1>7. q.settled => b + w <= due - Window
  <2>1. a \in Int /\ b \in Int /\ v \in Int /\ w \in Int
        /\ b + n <= a /\ w <= v + n
    OBVIOUS
  <2>2. a + v <= due - Window => b + w <= due - Window
    <3> HIDE DEF a, b, v, w
    <3> QED BY <2>1
  <2> QED BY <1>3, <2>2
<1>8. pc' = "waiting" /\ cur'.ecu = e /\ IndistinguishableFrom(q.req, cur'.req)
        => ambiguous'
  BY <1>3
<1> QED BY <1>4, <1>5, <1>6, <1>7, <1>8 DEF Traced

\* What a step does to what lingers, when it does nothing to the record but
\* let it age: any ECU that lingers after it did before.
SameLeft(e, n) ==
  /\ ecu[e] # <<>>
  /\ Head(ecu'[e]).req = Head(ecu[e]).req
  /\ Remaining(Head(ecu'[e])) + n <= Remaining(Head(ecu[e]))

SameRecord(e, n) ==
  /\ outstanding'[e] # NoRecord
  /\ outstanding'[e].req = outstanding[e].req
  /\ outstanding'[e].answered = outstanding[e].answered
  /\ outstanding'[e].settled = outstanding[e].settled
  /\ outstanding'[e].age <= outstanding[e].age + n

TracedSomehow(e) ==
  \/ Traced(e, First) /\ outstanding[e].req = Head(ecu[e]).req
  \/ Traced(e, Second)

LEMMA LingeringStep ==
  ASSUME Setting, IInv, IInv', HeldOnce, HeldOnce', NEW e \in Ecus, NEW n \in Nat,
         TracedSomehow(e), ecu'[e] # <<>>, SameLeft(e, n), SameRecord(e, n),
         Waited(e)' <= Waited(e) + n,
         pc' \in {"settling", "waiting"} /\ cur'.ecu = e =>
           pc' = pc /\ cur' = cur /\ ambiguous' = ambiguous
  PROVE  TracedSomehow(e)'
<1>1. TypeOK /\ TypeOK' /\ Budget /\ Budget'
  BY DEF IInv
<1>2. /\ First \in Int /\ Second \in Int /\ Window \in Nat
  BY Times
<1>3. Waited(e) \in Int /\ Waited(e)' \in Int
  BY <1>1, WaitedType, NextTypes
<1>4. Remaining(Head(ecu[e])) \in Int
  BY <1>1, HeldRemaining DEF SameLeft
<1>5. Remaining(Head(ecu'[e])) \in Int
  BY <1>1, NextTypes
<1>6. ASSUME NEW due \in Int, Traced(e, due) PROVE Traced(e, due)'
  BY <1>1, <1>2, <1>3, <1>4, <1>5, <1>6, TraceStep DEF SameLeft, SameRecord
<1>7. outstanding[e].req = Head(ecu[e]).req => outstanding'[e].req = Head(ecu'[e]).req
  BY DEF SameLeft, SameRecord
<1> QED BY <1>2, <1>6, <1>7 DEF TracedSomehow

\* The records of what lingers have not expired.
LEMMA NotExpired ==
  ASSUME Setting, IInv, HeldOnce, NEW e \in Ecus, ecu[e] # <<>>, TracedSomehow(e)
  PROVE  outstanding[e] # NoRecord /\ outstanding[e] \in Record
         /\ outstanding[e].age <= PendingMaxTotal
<1>1. First <= PendingMaxTotal /\ Second <= First /\ First \in Int /\ Second \in Int
      /\ PendingMaxTotal \in Nat
  BY Times, TimesAssumption
<1>2. outstanding[e] # NoRecord /\ \/ outstanding[e].age + Remaining(Head(ecu[e])) <= First
                                   \/ outstanding[e].age + Remaining(Head(ecu[e])) <= Second
  BY DEF TracedSomehow, Traced
<1>3. Remaining(Head(ecu[e])) \in Nat
  BY HeldRemaining DEF IInv
<1>4. outstanding[e] \in Record /\ outstanding[e].age \in Nat
  BY <1>2 DEF IInv, TypeOK, Record
<1> QED BY <1>1, <1>2, <1>3, <1>4

\* After its window a record has in view only the request it names.
LEMMA AfterWindow ==
  ASSUME Setting, IInv, HeldOnce, NEW e \in Ecus, ecu[e] # <<>>, TracedSomehow(e),
         outstanding[e].settled, 0 <= Waited(e)
  PROVE  /\ Attributable /\ ~Prompt
         /\ Traced(e, First) /\ outstanding[e].req = Head(ecu[e]).req
         /\ Remaining(Head(ecu[e])) + Waited(e) <= First - Window
<1>1. /\ First \in Int /\ Second \in Int /\ Window \in Nat
      /\ Second < Window /\ (~Attributable \/ Prompt => First < Window)
  BY Times
<1>2. Remaining(Head(ecu[e])) \in Nat /\ Waited(e) \in Int
  BY HeldRemaining, WaitedType DEF IInv
<1>3. ~Traced(e, Second)
  BY <1>1, <1>2 DEF Traced
<1>4. Traced(e, First) /\ outstanding[e].req = Head(ecu[e]).req
  BY <1>3 DEF TracedSomehow
<1>5. Remaining(Head(ecu[e])) + Waited(e) <= First - Window
  BY <1>4 DEF Traced
<1>6. ~(First < Window)
  BY <1>1, <1>2, <1>5
<1> QED BY <1>1, <1>4, <1>5, <1>6

-----------------------------------------------------------------------------
(* Frames that are read as orphans *)

LEMMA FirstFrame ==
  ASSUME TypeOK, inbox # <<>>
  PROVE  /\ 1 \in DOMAIN inbox /\ Head(inbox) = inbox[1] /\ Head(inbox) \in Frame
         /\ \A i \in DOMAIN Tail(inbox) : i + 1 \in DOMAIN inbox /\ Tail(inbox)[i] = inbox[i + 1]
BY DEF TypeOK

LEMMA FramesTail ==
  ASSUME TypeOK, FramesInOrder, inbox # <<>>, inbox' = Tail(inbox), UNCHANGED ecu
  PROVE  FramesInOrder'
<1>1. \A i \in DOMAIN inbox' :
        i \in Int /\ i + 1 \in DOMAIN inbox /\ inbox'[i] = inbox[i + 1]
  BY FirstFrame DEF TypeOK
<1>2. ASSUME NEW i \in DOMAIN inbox', NEW j \in DOMAIN inbox',
             i < j, inbox'[i].ecu = inbox'[j].ecu
      PROVE  inbox'[i].kind = "pending" /\ inbox'[i].service = inbox'[j].service
  <2>1. i + 1 < j + 1
    BY <1>1, <1>2
  <2> QED BY <1>1, <1>2, <2>1 DEF FramesInOrder
<1>3. ASSUME NEW e \in Ecus, ecu[e] # <<>>, NEW i \in DOMAIN inbox', inbox'[i].ecu = e
      PROVE  inbox'[i].kind = "pending" /\ inbox'[i].service = Head(ecu[e]).req.service
  BY <1>1, <1>3 DEF FramesInOrder
<1> QED BY <1>2, <1>3 DEF FramesInOrder

LEMMA OrphanRecord ==
  ASSUME Setting, IInv, HeldOnce, FramesInOrder, inbox # <<>>,
         outstanding' = AfterOrphan(outstanding, Head(inbox)),
         NEW e \in Ecus, ecu[e] # <<>>, TracedSomehow(e)
  PROVE  SameRecord(e, 0)
<1> DEFINE f == Head(inbox)
<1>1. f \in Frame /\ f = inbox[1] /\ 1 \in DOMAIN inbox
  BY FirstFrame DEF IInv
<1>2. outstanding \in Ledger
  BY DEF IInv, TypeOK, Ledger
<1>3. /\ outstanding[e] # NoRecord /\ outstanding[e] \in Record
      /\ outstanding[e].age <= PendingMaxTotal
  BY NotExpired
<1>4. outstanding[e].age \in Nat
  BY <1>3 DEF Record
<1>5. CASE f.ecu # e
  <2>1. outstanding'[e] = outstanding[e]
    BY <1>1, <1>2, <1>5, OrphanKeeps
  <2> QED BY <1>3, <1>4, <2>1 DEF SameRecord
<1>6. CASE f.ecu = e
  <2>1. f.kind = "pending"
    BY <1>1, <1>6 DEF FramesInOrder
  <2>2. /\ outstanding'[e] # NoRecord
        /\ outstanding'[e].req = outstanding[e].req
        /\ outstanding'[e].answered = outstanding[e].answered
        /\ outstanding'[e].settled = outstanding[e].settled
        /\ outstanding'[e].age <= outstanding[e].age
    BY <1>1, <1>2, <1>3, <1>6, <2>1, OrphanKeeps
  <2>3. outstanding[e].age + 0 = outstanding[e].age
    BY <1>4
  <2> QED BY <2>2, <2>3 DEF SameRecord
<1> QED BY <1>5, <1>6

\* Where the requests stay where they are.
LEMMA LingeringStays ==
  ASSUME Setting, IInv, IInv', Kept, pc # "down", UNCHANGED ecu,
         \A e \in Ecus : Lingers(e)' => Lingers(e),
         \A e \in Ecus : ecu[e] # <<>> /\ TracedSomehow(e) => SameRecord(e, 0),
         \A e \in Ecus : Waited(e)' <= Waited(e),
         \A e \in Ecus : pc' \in {"settling", "waiting"} /\ cur'.ecu = e =>
           pc' = pc /\ cur' = cur /\ ambiguous' = ambiguous
  PROVE  LingeringTraced'
<1>1. HeldOnce /\ HeldOnce' /\ TypeOK
  BY DEF Kept, HeldOnce, IInv
<1>2. ASSUME NEW e \in Ecus, Lingers(e)' PROVE TracedSomehow(e)'
  <2>1. Lingers(e) /\ ecu[e] # <<>> /\ ecu'[e] # <<>>
    BY <1>2 DEF Lingers
  <2>2. TracedSomehow(e)
    BY <2>1 DEF Kept, LingeringTraced, TracedSomehow
  <2>3. SameRecord(e, 0)
    BY <2>1, <2>2
  <2>4. Remaining(Head(ecu[e])) \in Nat
    BY <1>1, <2>1, HeldRemaining
  <2>5. SameLeft(e, 0)
    <3>1. Head(ecu'[e]) = Head(ecu[e])
      OBVIOUS
    <3> QED BY <2>1, <2>4, <3>1 DEF SameLeft
  <2>6. Waited(e)' <= Waited(e) + 0
    <3>1. Waited(e) \in Int
      BY WaitedType DEF IInv
    <3>2. Waited(e)' <= Waited(e)
      OBVIOUS
    <3> QED BY <3>1, <3>2
  <2> QED BY <1>1, <2>1, <2>2, <2>3, <2>5, <2>6, LingeringStep
<1> QED BY <1>2 DEF LingeringTraced, TracedSomehow

LEMMA DiscardKept == ASSUME Setting, IInv, IInv', Kept, Discard PROVE Kept'
<1>1. /\ pc = "discarding" /\ inbox # <<>> /\ inbox' = Tail(inbox)
      /\ outstanding' = AfterOrphan(outstanding, Head(inbox))
      /\ UNCHANGED <<pc, cur, ecu>>
  BY DEF Discard, callVars
<1>2. HeldOnce /\ FramesInOrder /\ LingeringTraced
  BY <1>1 DEF Kept
<1>3. HeldOnce' /\ FramesInOrder'
  BY <1>1, <1>2, FramesTail DEF HeldOnce, IInv
<1>4. LingeringTraced'
  <2>1. ASSUME NEW e \in Ecus
        PROVE  /\ Lingers(e)' => Lingers(e)
               /\ Waited(e)' <= Waited(e)
    BY <1>1, WaitedType DEF Lingers, Waited, IInv
  <2>2. \A e \in Ecus : ecu[e] # <<>> /\ TracedSomehow(e) => SameRecord(e, 0)
    BY <1>1, <1>2, OrphanRecord
  <2> QED BY <1>1, <2>1, <2>2, LingeringStays
<1>5. OwnInTime' /\ WindowShut' /\ StaleIsFlagged' /\ NothingOwnYet'
  BY <1>1 DEF OwnInTime, WindowShut, StaleIsFlagged, NothingOwnYet, Kept
<1> QED BY <1>3, <1>4, <1>5 DEF Kept

\* Before the window closes for good there is time for the frame.
LEMMA QuietAgain ==
  ASSUME IInv, WindowShut, pc = "settling", Least(quiet, end) > 0
  PROVE  /\ Least(quiet, end) <= Least(SettleQuiet, end)
         /\ Least(SettleQuiet, end) > 0
         /\ Least(quiet, end) \in Nat /\ Least(SettleQuiet, end) \in Nat
BY TimesAssumption DEF IInv, TypeOK, WindowShut, Least

LEMMA SettleReadKept == ASSUME Setting, IInv, IInv', Kept, SettleRead PROVE Kept'
<1>1. /\ pc = "settling" /\ inbox # <<>> /\ inbox' = Tail(inbox)
      /\ Least(quiet, end) > 0 /\ quiet' = SettleQuiet
      /\ outstanding' = AfterOrphan(outstanding, Head(inbox))
      /\ UNCHANGED <<pc, cur, ecu, ambiguous, end>>
  BY DEF SettleRead, callVars
<1>2. HeldOnce /\ FramesInOrder /\ LingeringTraced /\ WindowShut
  BY <1>1 DEF Kept
<1>3. HeldOnce' /\ FramesInOrder'
  BY <1>1, <1>2, FramesTail DEF HeldOnce, IInv
<1>4. /\ Least(quiet, end) <= Least(quiet', end') /\ Least(quiet', end') > 0
      /\ Least(quiet, end) \in Nat /\ Least(quiet', end') \in Nat
  BY <1>1, <1>2, QuietAgain
<1>5. LingeringTraced'
  <2>1. ASSUME NEW e \in Ecus
        PROVE  /\ Lingers(e)' => Lingers(e)
               /\ Waited(e)' <= Waited(e)
    BY <1>1, <1>4 DEF Lingers, Waited
  <2>2. \A e \in Ecus : ecu[e] # <<>> /\ TracedSomehow(e) => SameRecord(e, 0)
    BY <1>1, <1>2, OrphanRecord
  <2> QED BY <1>1, <2>1, <2>2, LingeringStays
<1>6. OwnInTime' /\ StaleIsFlagged' /\ NothingOwnYet'
  BY <1>1 DEF OwnInTime, StaleIsFlagged, NothingOwnYet, Kept
<1>7. WindowShut'
  BY <1>1, <1>4, TimesAssumption DEF WindowShut
<1> QED BY <1>3, <1>5, <1>6, <1>7 DEF Kept

LEMMA SettleAliveKept == ASSUME Setting, IInv, IInv', Kept, SettleAlive PROVE Kept'
<1>1. /\ pc = "settling" /\ Least(quiet, end) > 0 /\ quiet' = SettleQuiet
      /\ UNCHANGED <<pc, cur, ecu, ambiguous, end, inbox, outstanding>>
  BY DEF SettleAlive, callVars
<1>2. HeldOnce /\ FramesInOrder /\ LingeringTraced /\ WindowShut
  BY <1>1 DEF Kept
<1>3. HeldOnce' /\ FramesInOrder'
  BY <1>1, <1>2 DEF HeldOnce, FramesInOrder
<1>4. /\ Least(quiet, end) <= Least(quiet', end') /\ Least(quiet', end') > 0
      /\ Least(quiet, end) \in Nat /\ Least(quiet', end') \in Nat
  BY <1>1, <1>2, QuietAgain
<1>5. LingeringTraced'
  <2>1. ASSUME NEW e \in Ecus
        PROVE  /\ Lingers(e)' => Lingers(e)
               /\ Waited(e)' <= Waited(e)
    BY <1>1, <1>4 DEF Lingers, Waited
  <2>2. ASSUME NEW e \in Ecus, ecu[e] # <<>>, TracedSomehow(e) PROVE SameRecord(e, 0)
    <3>1. outstanding[e] # NoRecord /\ outstanding[e] \in Record
      BY <1>2, <2>2, NotExpired
    <3> QED BY <1>1, <3>1 DEF SameRecord, Record
  <2> QED BY <1>1, <2>1, <2>2, LingeringStays
<1>6. OwnInTime' /\ StaleIsFlagged' /\ NothingOwnYet'
  BY <1>1 DEF OwnInTime, StaleIsFlagged, NothingOwnYet, Kept
<1>7. WindowShut'
  BY <1>1, <1>4, TimesAssumption DEF WindowShut
<1> QED BY <1>3, <1>5, <1>6, <1>7 DEF Kept

LEMMA ReadOrphanKept == ASSUME Setting, IInv, IInv', Kept, ReadOrphan PROVE Kept'
<1> DEFINE f == Head(inbox)
<1>1. /\ pc = "waiting" /\ inbox # <<>> /\ inbox' = Tail(inbox)
      /\ f.ecu # cur.ecu \/ Classify(cur.req, f) = FOREIGN
      /\ outstanding' = AfterOrphan(outstanding, f)
      /\ UNCHANGED <<pc, cur, ecu, ambiguous, deadline, hard>>
  BY DEF ReadOrphan, callVars
<1>2. /\ HeldOnce /\ FramesInOrder /\ LingeringTraced
      /\ OwnInTime /\ StaleIsFlagged
  BY <1>1 DEF Kept
<1>3. HeldOnce' /\ FramesInOrder'
  BY <1>1, <1>2, FramesTail DEF HeldOnce, IInv
<1>4. LingeringTraced'
  <2>1. ASSUME NEW e \in Ecus
        PROVE  /\ Lingers(e)' => Lingers(e)
               /\ Waited(e)' <= Waited(e)
    <3>1. Waited(e)' = Waited(e) /\ Waited(e) \in Int
      BY <1>1, WaitedType DEF Waited, IInv
    <3> QED BY <1>1, <3>1 DEF Lingers
  <2>2. \A e \in Ecus : ecu[e] # <<>> /\ TracedSomehow(e) => SameRecord(e, 0)
    BY <1>1, <1>2, OrphanRecord
  <2> QED BY <1>1, <2>1, <2>2, LingeringStays
<1>5. OwnInTime'
  BY <1>1, <1>2 DEF OwnInTime
<1>6. ASSUME NEW i \in DOMAIN inbox', inbox'[i].ecu = cur.ecu, ~inbox'[i].own
      PROVE  /\ ~Prompt
             /\ inbox'[i].kind = "positive" /\ MatchesPositive(cur.req, inbox'[i])
                  => ambiguous /\ outstanding'[cur.ecu] # NoRecord
  <2>1. i \in Int /\ 1 < i + 1 /\ i + 1 \in DOMAIN inbox /\ inbox'[i] = inbox[i + 1]
    BY <1>1, FirstFrame DEF IInv, TypeOK
  <2>2. /\ ~Prompt
        /\ inbox'[i].kind = "positive" /\ MatchesPositive(cur.req, inbox'[i])
             => ambiguous /\ outstanding[cur.ecu] # NoRecord
    BY <1>1, <1>2, <1>6, <2>1 DEF StaleIsFlagged
  <2>3. f = inbox[1] /\ 1 \in DOMAIN inbox /\ f \in Frame
    BY <1>1, FirstFrame DEF IInv
  <2>4. CASE f.ecu # cur.ecu
    <3>1. outstanding'[cur.ecu] = outstanding[cur.ecu]
      <4>1. outstanding \in Ledger /\ cur.ecu \in Ecus \ {f.ecu}
        BY <2>4 DEF IInv, TypeOK, Ledger
      <4> HIDE DEF f
      <4> QED BY <1>1, <2>3, <4>1, OrphanKeeps
    <3> QED BY <2>2, <3>1
  <2>5. CASE f.ecu = cur.ecu
    <3>1. f.kind = "pending" /\ f.service = inbox'[i].service
      BY <1>2, <1>6, <2>1, <2>3, <2>5 DEF FramesInOrder
    <3>2. Classify(cur.req, f) = FOREIGN
      BY <1>1, <2>5
    <3>3. f.service # cur.req.service
      BY <3>1, <3>2 DEF Classify, FOREIGN, PENDING
    <3>4. ~MatchesPositive(cur.req, inbox'[i])
      BY <3>1, <3>3 DEF MatchesPositive
    <3> QED BY <2>2, <3>4
  <2> QED BY <2>4, <2>5
<1>7. StaleIsFlagged' /\ WindowShut' /\ NothingOwnYet'
  BY <1>1, <1>6 DEF StaleIsFlagged, WindowShut, NothingOwnYet
<1> QED BY <1>3, <1>4, <1>5, <1>7 DEF Kept

-----------------------------------------------------------------------------
(* The call's other steps *)

LEMMA FramesDisowned ==
  ASSUME NEW s \in Seq(Frame)
  PROVE  /\ DOMAIN Disowned(s) = DOMAIN s
         /\ \A i \in DOMAIN s : /\ Disowned(s)[i].ecu = s[i].ecu
                                /\ Disowned(s)[i].kind = s[i].kind
                                /\ Disowned(s)[i].service = s[i].service
<1>1. \A i \in DOMAIN s : s[i] \in Frame /\ Disowned(s)[i] = [s[i] EXCEPT !.own = FALSE]
  BY DEF Disowned
<1>2. DOMAIN Disowned(s) = DOMAIN s
  BY DEF Disowned
<1>3. ASSUME NEW i \in DOMAIN s
      PROVE  /\ Disowned(s)[i].ecu = s[i].ecu /\ Disowned(s)[i].kind = s[i].kind
             /\ Disowned(s)[i].service = s[i].service
  <2>1. s[i] \in Frame /\ Disowned(s)[i] = [s[i] EXCEPT !.own = FALSE]
    BY <1>1
  <2> DEFINE f == s[i]
             g == Disowned(s)[i]
  <2>2. f \in Frame /\ g = [f EXCEPT !.own = FALSE]
    BY <2>1
  <2> HIDE DEF f, g
  <2>3. g.ecu = f.ecu /\ g.kind = f.kind /\ g.service = f.service
    BY Zenon, <2>2 DEF Frame
  <2> QED BY <2>3 DEF f, g
<1> QED BY <1>2, <1>3

LEMMA BeginKept ==
  ASSUME Setting, IInv, IInv', Kept,
         NEW x \in Ecus, NEW req \in Requests, NEW base \in Timeouts, Begin(x, req, base)
  PROVE  Kept'
<1>1. /\ pc = "idle" /\ pc' = "discarding" /\ inbox' = Disowned(inbox)
      /\ ecu' = [e \in Ecus |-> Disowned(ecu[e])]
      /\ UNCHANGED outstanding
  BY DEF Begin
<1>2. HeldOnce /\ FramesInOrder /\ LingeringTraced /\ TypeOK
  BY <1>1 DEF Kept, IInv
<1>3. ASSUME NEW e \in Ecus, ecu'[e] # <<>>
      PROVE  /\ ecu[e] # <<>> /\ Len(ecu'[e]) = Len(ecu[e])
             /\ Head(ecu'[e]).req = Head(ecu[e]).req
             /\ Head(ecu'[e]).notices = Head(ecu[e]).notices
             /\ Remaining(Head(ecu'[e])) = Remaining(Head(ecu[e]))
             /\ ~Head(ecu'[e]).own
  <2>1. ecu[e] \in Seq(Held) /\ ecu'[e] = Disowned(ecu[e])
    BY <1>1, <1>2 DEF TypeOK
  <2>2. ecu[e] # <<>>
    BY <1>3, <2>1 DEF Disowned
  <2> QED BY <2>1, <2>2, RemainingDisowned
<1>4. HeldOnce'
  <2>1. ASSUME NEW e \in Ecus, ecu'[e] = <<>> PROVE Len(ecu'[e]) <= 1
    BY <2>1
  <2> QED BY <1>2, <1>3, <2>1 DEF HeldOnce
<1>5. FramesInOrder'
  <2>1. /\ DOMAIN inbox' = DOMAIN inbox
        /\ \A i \in DOMAIN inbox : inbox'[i].ecu = inbox[i].ecu
             /\ inbox'[i].kind = inbox[i].kind /\ inbox'[i].service = inbox[i].service
    BY <1>1, <1>2, FramesDisowned DEF TypeOK
  <2> QED BY <1>2, <1>3, <2>1 DEF FramesInOrder
<1>6. LingeringTraced'
  <2>1. ASSUME NEW e \in Ecus, Lingers(e)' PROVE TracedSomehow(e)'
    <3>1. ecu'[e] # <<>> /\ ecu[e] # <<>> /\ Lingers(e)
      BY <1>1, <1>3, <2>1 DEF Lingers
    <3>2. TracedSomehow(e)
      BY <1>2, <3>1 DEF LingeringTraced, TracedSomehow
    <3>3. outstanding[e] # NoRecord /\ outstanding[e] \in Record
      BY <1>2, <3>1, <3>2, NotExpired
    <3>4. SameRecord(e, 0)
      BY <1>1, <3>3 DEF SameRecord, Record
    <3>5. Remaining(Head(ecu[e])) \in Nat
      BY <1>2, <3>1, HeldRemaining
    <3>6. SameLeft(e, 0)
      BY <1>3, <3>1, <3>5 DEF SameLeft
    <3>7. Waited(e)' <= Waited(e) + 0
      BY <1>1 DEF Waited
    <3> QED BY <1>1, <1>2, <1>4, <3>1, <3>2, <3>4, <3>6, <3>7, LingeringStep
  <2> QED BY <2>1 DEF LingeringTraced, TracedSomehow
<1>7. OwnInTime' /\ WindowShut' /\ StaleIsFlagged'
  BY <1>1 DEF OwnInTime, WindowShut, StaleIsFlagged
<1>8. NothingOwnYet'
  <2>1. cur'.ecu \in Ecus
    BY DEF IInv, TypeOK
  <2> QED BY <1>3, <2>1 DEF NothingOwnYet
<1> QED BY <1>4, <1>5, <1>6, <1>7, <1>8 DEF Kept

\* What the ECU is working on when a request is sent beside it.
LEMMA SendKept ==
  ASSUME Setting, IInv, IInv', Kept, NEW amb \in BOOLEAN, Send(amb),
         pc \in {"discarding", "settling"},
         \A i \in DOMAIN inbox : inbox[i].ecu # cur.ecu,
         \A e \in Ecus \ {cur.ecu} : outstanding'[e] = outstanding[e],
         Lingers(cur.ecu) =>
           /\ outstanding'[cur.ecu] = outstanding[cur.ecu]
           /\ outstanding[cur.ecu].settled /\ 0 <= Waited(cur.ecu)
           /\ amb = Ambiguous(outstanding[cur.ecu], cur.req)
  PROVE  Kept'
<1> DEFINE x == cur.ecu
           own == [req |-> cur.req, left |-> Latency, notices |-> 0, own |-> TRUE]
<1>1. /\ pc' = "waiting" /\ ambiguous' = amb
      /\ deadline' = cur.base /\ hard' = HardBound(cur.base)
      /\ UNCHANGED <<cur, inbox>>
      /\ \/ Len(ecu[x]) < EcuDepth /\ ecu' = [ecu EXCEPT ![x] = Append(@, own)]
         \/ UNCHANGED ecu
  BY DEF Send
<1>2. /\ HeldOnce /\ FramesInOrder /\ LingeringTraced /\ TypeOK
      /\ x \in Ecus /\ cur.req \in Requests /\ cur.base \in Timeouts
  BY <1>1 DEF Kept, IInv, TypeOK
<1>3. HardBound(cur.base) \in Nat /\ cur.base <= HardBound(cur.base) /\ Patience <= cur.base
      /\ cur.base \in Nat /\ Patience \in Nat
  BY <1>2, HardBoundType, TimesAssumption DEF Setting, Patient
<1>4. Waited(x)' = 0 /\ \A e \in Ecus \ {x} : Waited(e)' = 0 /\ Waited(e) = 0
  BY <1>1, <1>3 DEF Waited
<1>5. ASSUME ecu[x] # <<>>
      PROVE  /\ Attributable /\ ~Prompt
             /\ Traced(x, First) /\ outstanding[x].req = Head(ecu[x]).req
             /\ Remaining(Head(ecu[x])) + Waited(x) <= First - Window
             /\ outstanding'[x] = outstanding[x] /\ outstanding[x].settled
             /\ amb = Ambiguous(outstanding[x], cur.req)
             /\ 0 <= Waited(x)
  <2>1. Lingers(x)
    BY <1>5 DEF Lingers
  <2>2. TracedSomehow(x)
    BY <1>2, <2>1 DEF LingeringTraced, TracedSomehow
  <2> QED BY <1>2, <1>5, <2>1, <2>2, AfterWindow
<1>6. CASE ecu[x] = <<>> /\ ecu' = [ecu EXCEPT ![x] = Append(@, own)]
  <2>1. ecu'[x] = <<own>> /\ \A e \in Ecus \ {x} : ecu'[e] = ecu[e]
    <3> HIDE DEF own, x
    <3> QED BY <1>2, <1>6 DEF TypeOK
  <2>2. ecu'[x] # <<>> /\ Head(ecu'[x]) = own /\ Len(ecu'[x]) = 1
    <3> HIDE DEF own, x
    <3> QED BY <2>1
  <2>3. HeldOnce'
    <3>1. own.notices <= MaxNotices
      BY EcuAssumption
    <3>2. ASSUME NEW e \in Ecus
          PROVE  Len(ecu'[e]) <= 1 /\ (ecu'[e] # <<>> => Head(ecu'[e]).notices <= MaxNotices)
      <4> HIDE DEF own
      <4>1. CASE e = x
        <5>1. ecu'[e] = ecu'[x]
          BY <4>1
        <5>2. Len(ecu'[e]) = 1 /\ Head(ecu'[e]) = own
          BY <2>2, <5>1
        <5>3. Head(ecu'[e]).notices <= MaxNotices
          BY Zenon, <3>1, <5>2
        <5> QED BY <5>2, <5>3
      <4>2. CASE e # x
        <5>1. ecu'[e] = ecu[e]
          BY <2>1, <4>2
        <5> QED BY <1>2, <5>1 DEF HeldOnce
      <4> QED BY <4>1, <4>2
    <3> QED BY <3>2 DEF HeldOnce
  <2>4. FramesInOrder'
    BY <1>1, <1>2, <2>1 DEF FramesInOrder
  <2>5. LingeringTraced'
    <3>1. ASSUME NEW e \in Ecus, Lingers(e)' PROVE e # x /\ ecu[e] # <<>>
      <4>1. own.own
        BY Zenon
      <4>2. e # x
        BY Zenon, <1>1, <2>2, <3>1, <4>1 DEF Lingers
      <4> QED BY <2>1, <3>1, <4>2 DEF Lingers
    <3>2. ASSUME NEW e \in Ecus, Lingers(e)' PROVE TracedSomehow(e)'
      <4>1. e # x /\ ecu[e] # <<>> /\ ecu'[e] = ecu[e] /\ outstanding'[e] = outstanding[e]
        BY <2>1, <3>1, <3>2
      <4>2. Lingers(e) /\ TracedSomehow(e)
        BY <1>2, <4>1 DEF LingeringTraced, TracedSomehow, Lingers
      <4>3. outstanding[e] # NoRecord /\ outstanding[e] \in Record
        BY <1>2, <4>1, <4>2, NotExpired
      <4>4. SameRecord(e, 0)
        BY <4>1, <4>3 DEF SameRecord, Record
      <4>5. Remaining(Head(ecu[e])) \in Nat
        BY <1>2, <4>1, HeldRemaining
      <4>6. SameLeft(e, 0)
        BY <4>1, <4>5 DEF SameLeft
      <4>7. Waited(e)' <= Waited(e) + 0 /\ cur'.ecu # e
        BY <1>1, <1>4, <4>1
      <4> QED BY <1>2, <2>3, <4>1, <4>2, <4>4, <4>6, <4>7, LingeringStep
    <3> QED BY <3>2 DEF LingeringTraced, TracedSomehow
  <2>6. OwnInTime'
    <3>1. Remaining(own) = Latency + (MaxNotices - 0) * NoticeLatency
      BY DEF Remaining
    <3>2. Remaining(own) = Longest
      BY <3>1, EcuAssumption DEF Longest
    <3>3. Longest \in Nat
      BY Times
    <3> HIDE DEF own
    <3>4. Patience <= deadline' + (HardBound(cur'.base) - hard')
      BY <1>1, <1>3
    <3>5. Remaining(Head(ecu'[x])) + (HardBound(cur'.base) - hard') <= Longest
      BY <1>1, <1>3, <2>2, <3>2, <3>3
    <3>6. Head(ecu'[x]).req = cur.req
      BY <2>2 DEF own
    <3> QED BY <1>1, <3>4, <3>5, <3>6 DEF OwnInTime
  <2>7. WindowShut' /\ StaleIsFlagged' /\ NothingOwnYet'
    BY <1>1 DEF WindowShut, StaleIsFlagged, NothingOwnYet
  <2> QED BY <2>3, <2>4, <2>5, <2>6, <2>7 DEF Kept
<1>7. CASE ecu[x] # <<>> \/ UNCHANGED ecu
  <2>1. UNCHANGED ecu
    <3>1. CASE ecu[x] # <<>>
      <4>1. EcuDepth <= 1 /\ EcuDepth \in Nat /\ Len(ecu[x]) \in Nat /\ Len(ecu[x]) # 0
        BY <1>2, <1>5, <3>1, HeldHead, EcuAssumption DEF Attributable, TypeOK
      <4>2. ~(Len(ecu[x]) < EcuDepth)
        BY <4>1
      <4> QED BY <1>1, <4>2
    <3> QED BY <1>7, <3>1
  <2>2. HeldOnce' /\ FramesInOrder'
    BY <1>1, <1>2, <2>1 DEF HeldOnce, FramesInOrder
  <2>3. LingeringTraced'
    <3>1. ASSUME NEW e \in Ecus \ {x}, Lingers(e)' PROVE TracedSomehow(e)'
      <4>1. ecu[e] # <<>> /\ ecu'[e] = ecu[e] /\ outstanding'[e] = outstanding[e]
        BY <2>1, <3>1 DEF Lingers
      <4>2. Lingers(e) /\ TracedSomehow(e)
        BY <1>2, <4>1 DEF LingeringTraced, TracedSomehow, Lingers
      <4>3. outstanding[e] # NoRecord /\ outstanding[e] \in Record
        BY <1>2, <4>1, <4>2, NotExpired
      <4>4. SameRecord(e, 0)
        BY <4>1, <4>3 DEF SameRecord, Record
      <4>5. Remaining(Head(ecu[e])) \in Nat
        BY <1>2, <4>1, HeldRemaining
      <4>6. SameLeft(e, 0)
        BY <4>1, <4>5 DEF SameLeft
      <4>7. Waited(e)' <= Waited(e) + 0 /\ cur'.ecu # e
        BY <1>1, <1>4
      <4> QED BY <1>2, <2>2, <4>1, <4>2, <4>4, <4>6, <4>7, LingeringStep
    <3>2. ASSUME Lingers(x)' PROVE TracedSomehow(x)'
      <4>1. ecu[x] # <<>> /\ ecu'[x] = ecu[x] /\ outstanding'[x] = outstanding[x]
        BY <1>1, <1>5, <2>1, <3>2 DEF Lingers
      <4> DEFINE a == Remaining(Head(ecu[x]))
      <4>2. a \in Nat /\ Waited(x) \in Int /\ First \in Int /\ Window \in Nat
        BY <1>2, <4>1, HeldRemaining, WaitedType, Times DEF IInv
      <4>3. a + Waited(x)' <= First - Window
        <5>1. a + Waited(x) <= First - Window /\ 0 <= Waited(x)
          BY <1>5, <4>1
        <5> HIDE DEF a
        <5> QED BY <1>4, <4>2, <5>1
      <4>4. IndistinguishableFrom(outstanding[x].req, cur.req) => ambiguous'
        BY <1>1, <1>5, <4>1 DEF Ambiguous, Traced
      <4>5. Traced(x, First)'
        BY <1>1, <1>5, <4>1, <4>3, <4>4 DEF Traced
      <4> QED BY <1>1, <1>5, <4>1, <4>5 DEF TracedSomehow
    <3> QED BY <1>1, <3>1, <3>2 DEF LingeringTraced, TracedSomehow
  <2>4. OwnInTime'
    <3>1. Patience <= deadline' + (HardBound(cur'.base) - hard')
      BY <1>1, <1>3
    <3>2. ecu[x] # <<>> => ~Head(ecu[x]).own
      BY DEF Kept, NothingOwnYet
    <3> QED BY <1>1, <2>1, <3>1, <3>2 DEF OwnInTime
  <2>5. WindowShut' /\ StaleIsFlagged' /\ NothingOwnYet'
    BY <1>1 DEF WindowShut, StaleIsFlagged, NothingOwnYet
  <2> QED BY <2>2, <2>3, <2>4, <2>5 DEF Kept
<1> QED BY <1>1, <1>6, <1>7

\* A record in view of something is not expired when a call begins.
LEMMA NothingExpires ==
  ASSUME Setting, IInv, Kept, pc \in {"discarding", "settling"}, Lingers(cur.ecu)
  PROVE  /\ TracedSomehow(cur.ecu) /\ ecu[cur.ecu] # <<>>
         /\ outstanding[cur.ecu] # NoRecord /\ outstanding[cur.ecu] \in Record
         /\ Expire(outstanding, cur.ecu) = outstanding
<1>1. HeldOnce /\ LingeringTraced /\ TypeOK /\ cur.ecu \in Ecus
  BY DEF Kept, IInv, TypeOK
<1>2. ecu[cur.ecu] # <<>>
  BY DEF Lingers
<1>3. TracedSomehow(cur.ecu)
  BY <1>1 DEF LingeringTraced, TracedSomehow
<1>4. /\ outstanding[cur.ecu] # NoRecord /\ outstanding[cur.ecu] \in Record
      /\ outstanding[cur.ecu].age <= PendingMaxTotal
  BY <1>1, <1>2, <1>3, NotExpired
<1>5. outstanding[cur.ecu].age \in Nat /\ PendingMaxTotal \in Nat
  BY <1>4, TimesAssumption DEF Record
<1>6. ~(outstanding[cur.ecu].age > PendingMaxTotal)
  BY <1>4, <1>5
<1> QED BY <1>2, <1>3, <1>4, <1>6 DEF Expire

LEMMA SendNowKept == ASSUME Setting, IInv, IInv', Kept, SendNow PROVE Kept'
<1> DEFINE ledger == Expire(outstanding, cur.ecu)
           record == ledger[cur.ecu]
<1>1. /\ pc = "discarding" /\ inbox = <<>> /\ outstanding' = ledger
      /\ \/ record = NoRecord /\ Send(FALSE)
         \/ record # NoRecord /\ record.settled /\ Send(Ambiguous(record, cur.req))
  BY DEF SendNow
<1>2. cur.ecu \in Ecus /\ outstanding \in Ledger
  BY DEF IInv, TypeOK, Ledger
<1>3. \A e \in Ecus \ {cur.ecu} : outstanding'[e] = outstanding[e]
  BY <1>1, <1>2 DEF Expire, Ledger
<1>4. Waited(cur.ecu) = 0
  BY <1>1, <1>2, WaitedType DEF IInv
<1>5. \A i \in DOMAIN inbox : inbox[i].ecu # cur.ecu
  BY <1>1
<1>6. PICK amb \in BOOLEAN :
        /\ Send(amb)
        /\ \/ record = NoRecord
           \/ record.settled /\ amb = Ambiguous(record, cur.req)
  <2>1. CASE record = NoRecord /\ Send(FALSE)
    BY <2>1
  <2>2. CASE record # NoRecord /\ record.settled /\ Send(Ambiguous(record, cur.req))
    <3>1. Ambiguous(record, cur.req) \in BOOLEAN
      BY DEF Ambiguous
    <3> QED BY <2>2, <3>1
  <2> QED BY <1>1, <2>1, <2>2
<1>7. Lingers(cur.ecu) =>
        /\ outstanding'[cur.ecu] = outstanding[cur.ecu]
        /\ outstanding[cur.ecu].settled /\ 0 <= Waited(cur.ecu)
        /\ amb = Ambiguous(outstanding[cur.ecu], cur.req)
  <2> SUFFICES ASSUME Lingers(cur.ecu)
               PROVE  /\ outstanding'[cur.ecu] = outstanding[cur.ecu]
                      /\ outstanding[cur.ecu].settled
                      /\ amb = Ambiguous(outstanding[cur.ecu], cur.req)
    BY <1>4
  <2>1. outstanding[cur.ecu] # NoRecord /\ ledger = outstanding
    BY <1>1, NothingExpires
  <2> QED BY <1>1, <1>6, <2>1
<1> QED BY <1>1, <1>3, <1>5, <1>6, <1>7, SendKept

LEMMA SettleDoneKept == ASSUME Setting, IInv, IInv', Kept, SettleDone PROVE Kept'
<1> DEFINE record == outstanding[cur.ecu]
           amb == record # NoRecord /\ Ambiguous(record, cur.req)
<1>1. /\ pc = "settling" /\ Least(quiet, end) = 0 /\ outstanding' = outstanding
      /\ Send(amb) /\ amb \in BOOLEAN
  BY DEF SettleDone
<1>2. \A i \in DOMAIN inbox : inbox[i].ecu # cur.ecu
  BY <1>1 DEF Kept, WindowShut
<1>3. Lingers(cur.ecu) =>
        /\ outstanding'[cur.ecu] = outstanding[cur.ecu]
        /\ outstanding[cur.ecu].settled /\ 0 <= Waited(cur.ecu)
        /\ amb = Ambiguous(outstanding[cur.ecu], cur.req)
  <2> SUFFICES ASSUME Lingers(cur.ecu)
               PROVE  record # NoRecord /\ record.settled /\ 0 <= Waited(cur.ecu)
    BY <1>1 DEF Ambiguous
  <2>1. TracedSomehow(cur.ecu) /\ record # NoRecord
    BY <1>1, NothingExpires
  <2>2. record.settled
    BY <1>1, <2>1 DEF TracedSomehow, Traced
  <2>3. Waited(cur.ecu) = 0
    BY <1>1 DEF Waited
  <2> QED BY <2>1, <2>2, <2>3
<1> HIDE DEF amb
<1> QED BY <1>1, <1>2, <1>3, SendKept

LEMMA StartSettleKept == ASSUME Setting, IInv, IInv', Kept, StartSettle PROVE Kept'
<1> DEFINE x == cur.ecu
           ledger == Expire(outstanding, x)
<1>1. /\ pc = "discarding" /\ pc' = "settling" /\ inbox = <<>>
      /\ ledger[x] # NoRecord
      /\ outstanding' = [ledger EXCEPT ![x].settled = TRUE]
      /\ quiet' = SettleQuiet /\ end' = SettleMax
      /\ UNCHANGED <<cur, inbox, ecu, ambiguous>>
  BY DEF StartSettle, callVars
<1>2. /\ HeldOnce /\ FramesInOrder /\ LingeringTraced /\ TypeOK /\ NothingOwnYet
      /\ x \in Ecus /\ outstanding \in Ledger
  BY <1>1 DEF Kept, IInv, TypeOK, Ledger
<1>3. HeldOnce' /\ FramesInOrder'
  BY <1>1, <1>2 DEF HeldOnce, FramesInOrder
<1>4. ASSUME NEW e \in Ecus \ {x}, Lingers(e)' PROVE TracedSomehow(e)'
  <2>1. ecu[e] # <<>> /\ ecu'[e] = ecu[e] /\ Lingers(e)
    BY <1>1, <1>4 DEF Lingers
  <2>2. TracedSomehow(e)
    BY <1>2, <2>1 DEF LingeringTraced, TracedSomehow
  <2>3. outstanding'[e] = outstanding[e]
    BY <1>1, <1>2 DEF Expire, Ledger
  <2>4. outstanding[e] # NoRecord /\ outstanding[e] \in Record
    BY <1>2, <2>1, <2>2, NotExpired
  <2>5. SameRecord(e, 0)
    BY <2>3, <2>4 DEF SameRecord, Record
  <2>6. Remaining(Head(ecu[e])) \in Nat
    BY <1>2, <2>1, HeldRemaining
  <2>7. SameLeft(e, 0)
    BY <2>1, <2>6 DEF SameLeft
  <2>8. Waited(e)' <= Waited(e) + 0 /\ cur'.ecu # e
    BY <1>1, <1>4 DEF Waited
  <2> QED BY <1>2, <1>3, <2>1, <2>2, <2>5, <2>7, <2>8, LingeringStep
<1>5. ASSUME Lingers(x)' PROVE TracedSomehow(x)'
  <2>1. ecu[x] # <<>> /\ ecu'[x] = ecu[x] /\ Lingers(x)
    BY <1>1, <1>5 DEF Lingers
  <2>2. /\ TracedSomehow(x) /\ outstanding[x] # NoRecord /\ outstanding[x] \in Record
        /\ ledger = outstanding
    BY <1>1, <2>1, NothingExpires
  <2> DEFINE r == outstanding[x]
             q == outstanding'[x]
             a == Remaining(Head(ecu[x]))
  <2>3. q = [r EXCEPT !.settled = TRUE]
    BY <1>1, <1>2, <2>2 DEF Ledger
  <2>4. q.req = r.req /\ q.age = r.age
    <3> HIDE DEF r, q
    <3> QED BY <2>2, <2>3 DEF r, Record
  <2>5. q.answered = r.answered /\ q.settled
    <3>1. r \in Record
      BY <2>2
    <3> HIDE DEF r, q
    <3> QED BY Zenon, <2>3, <3>1 DEF Record
  <2>6. q # NoRecord
    <3>1. q \in Record
      <4>1. r \in Record
        BY <2>2
      <4> HIDE DEF r, q
      <4> QED BY <2>3, <4>1 DEF Record
    <3> HIDE DEF q
    <3> QED BY <3>1, NoRecordAssumption DEF Record
  <2>7. Waited(x)' = 0 - Window
    BY <1>1 DEF Waited, Window
  <2>8. a \in Nat /\ Window \in Nat /\ r.age \in Nat /\ First \in Int /\ Second \in Int
    BY <1>2, <2>1, <2>2, HeldRemaining, Times DEF Record
  <2>9. ASSUME NEW due \in Int, Traced(x, due) PROVE Traced(x, due)'
    <3>1. ~r.answered /\ r.age + a <= due
      BY <2>9 DEF Traced
    <3>2. a + Waited(x)' <= due - Window
      <4> HIDE DEF a, r
      <4> QED BY <2>7, <2>8, <2>9, <3>1
    <3>3. q.age + a <= due /\ ~q.answered
      BY <2>4, <2>5, <3>1
    <3> QED BY <1>1, <2>1, <2>5, <2>6, <3>2, <3>3 DEF Traced
  <2> QED BY <1>1, <2>1, <2>2, <2>4, <2>8, <2>9 DEF TracedSomehow
<1>6. LingeringTraced'
  BY <1>1, <1>4, <1>5 DEF LingeringTraced, TracedSomehow
<1>7. OwnInTime' /\ StaleIsFlagged' /\ NothingOwnYet'
  BY <1>1, <1>2 DEF OwnInTime, StaleIsFlagged, NothingOwnYet
<1>8. WindowShut'
  BY <1>1, TimesAssumption DEF WindowShut
<1> QED BY <1>3, <1>6, <1>7, <1>8 DEF Kept

-----------------------------------------------------------------------------
(* Where the call goes on or ends *)

LEMMA RecordStays ==
  ASSUME Setting, IInv, HeldOnce, UNCHANGED outstanding,
         NEW e \in Ecus, ecu[e] # <<>>, TracedSomehow(e)
  PROVE  SameRecord(e, 0)
<1>1. outstanding[e] # NoRecord /\ outstanding[e] \in Record
  BY NotExpired
<1> QED BY <1>1 DEF SameRecord, Record

LEMMA ReadPendingKept == ASSUME Setting, IInv, IInv', Kept, ReadPending PROVE Kept'
<1>1. /\ pc = "waiting" /\ inbox # <<>> /\ inbox' = Tail(inbox)
      /\ deadline' = Extended(hard)
      /\ UNCHANGED <<pc, cur, ecu, ambiguous, hard, outstanding>>
  BY DEF ReadPending, Fits
<1>2. /\ HeldOnce /\ FramesInOrder /\ LingeringTraced /\ TypeOK
      /\ OwnInTime /\ StaleIsFlagged /\ cur.base \in Timeouts
  BY <1>1 DEF Kept, IInv, TypeOK
<1>3. HeldOnce' /\ FramesInOrder'
  BY <1>1, <1>2, FramesTail DEF HeldOnce
<1>4. LingeringTraced'
  <2>1. ASSUME NEW e \in Ecus
        PROVE  /\ Lingers(e)' => Lingers(e)
               /\ Waited(e)' <= Waited(e)
    <3>1. Waited(e)' = Waited(e) /\ Waited(e) \in Int
      BY <1>1, WaitedType DEF Waited, IInv
    <3> QED BY <1>1, <3>1 DEF Lingers
  <2>2. \A e \in Ecus : ecu[e] # <<>> /\ TracedSomehow(e) => SameRecord(e, 0)
    BY <1>1, <1>2, RecordStays
  <2> QED BY <1>1, <2>1, <2>2, LingeringStays
<1>5. OwnInTime'
  <2>1. /\ HardBound(cur.base) \in Nat /\ cur.base <= HardBound(cur.base)
        /\ Patience <= cur.base /\ Patience <= PendingExtension
        /\ cur.base \in Nat /\ Patience \in Nat /\ hard \in Nat /\ PendingExtension \in Nat
        /\ hard <= HardBound(cur.base)
    BY <1>1, <1>2, HardBoundType, TimesAssumption DEF Setting, Patient, TypeOK, IInv, Budget
  <2>2. Patience <= deadline' + (HardBound(cur.base) - hard)
    BY <1>1, <2>1 DEF Extended, Least
  <2> QED BY <1>1, <1>2, <2>2 DEF OwnInTime
<1>6. StaleIsFlagged'
  <2>1. \A i \in DOMAIN inbox' : i + 1 \in DOMAIN inbox /\ inbox'[i] = inbox[i + 1]
    BY <1>1, <1>2, FirstFrame
  <2> QED BY <1>1, <1>2, <2>1 DEF StaleIsFlagged
<1>7. WindowShut' /\ NothingOwnYet'
  BY <1>1 DEF WindowShut, NothingOwnYet
<1> QED BY <1>3, <1>4, <1>5, <1>6, <1>7 DEF Kept

\* An answer or a refusal is the last an ECU sends for a request.
LEMMA AnswerEnds ==
  ASSUME Setting, IInv, IInv', Kept,
         pc = "waiting", pc' = "idle", inbox # <<>>, inbox' = Tail(inbox),
         Head(inbox).ecu = cur.ecu, Head(inbox).kind # "pending", UNCHANGED ecu,
         \A e \in Ecus \ {cur.ecu} : outstanding'[e] = outstanding[e]
  PROVE  Kept'
<1>1. HeldOnce /\ FramesInOrder /\ LingeringTraced /\ TypeOK /\ cur.ecu \in Ecus
  BY DEF Kept, IInv, TypeOK
<1>2. HeldOnce' /\ FramesInOrder'
  BY <1>1, FramesTail DEF HeldOnce
<1>3. ecu[cur.ecu] = <<>>
  BY <1>1, FirstFrame DEF FramesInOrder
<1>4. LingeringTraced'
  <2>1. ASSUME NEW e \in Ecus
        PROVE  /\ Lingers(e)' => Lingers(e)
               /\ Waited(e)' <= Waited(e)
    <3>1. Waited(e)' = 0 /\ 0 <= Waited(e)
      BY WaitedType DEF Waited, IInv
    <3>2. Lingers(e)' => ecu[e] # <<>>
      BY DEF Lingers
    <3> QED BY <1>3, <3>1, <3>2 DEF Lingers
  <2>2. ASSUME NEW e \in Ecus, ecu[e] # <<>>, TracedSomehow(e) PROVE SameRecord(e, 0)
    <3>1. outstanding[e] # NoRecord /\ outstanding[e] \in Record
      BY <1>1, <2>2, NotExpired
    <3>2. outstanding'[e] = outstanding[e]
      BY <1>3, <2>2
    <3> QED BY <3>1, <3>2 DEF SameRecord, Record
  <2> QED BY <2>1, <2>2, LingeringStays
<1>5. OwnInTime' /\ WindowShut' /\ StaleIsFlagged' /\ NothingOwnYet'
  BY DEF OwnInTime, WindowShut, StaleIsFlagged, NothingOwnYet
<1> QED BY <1>2, <1>4, <1>5 DEF Kept

LEMMA ReadNegativeKept == ASSUME Setting, IInv, IInv', Kept, ReadNegative PROVE Kept'
<1>1. /\ pc = "waiting" /\ pc' = "idle" /\ inbox # <<>> /\ inbox' = Tail(inbox)
      /\ Head(inbox).ecu = cur.ecu /\ Classify(cur.req, Head(inbox)) = NEGATIVE
      /\ UNCHANGED <<ecu, outstanding>>
  BY DEF ReadNegative, Fits, Return
<1>2. Head(inbox).kind # "pending"
  BY <1>1 DEF Classify, MATCH, NEGATIVE, PENDING, FOREIGN
<1> QED BY <1>1, <1>2, AnswerEnds

LEMMA ReadAnswerKept == ASSUME Setting, IInv, IInv', Kept, ReadAnswer PROVE Kept'
<1> DEFINE x == cur.ecu
           flagged == ambiguous /\ outstanding[x] # NoRecord
           age == HardBound(cur.base) - hard
<1>1. /\ pc = "waiting" /\ pc' = "idle" /\ inbox # <<>> /\ inbox' = Tail(inbox)
      /\ Head(inbox).ecu = x /\ Classify(cur.req, Head(inbox)) = MATCH
      /\ outstanding' = IF flagged THEN AfterAmbiguous(outstanding, x, cur.req, age)
                        ELSE AfterAnswer(outstanding, x)
      /\ UNCHANGED ecu
  BY DEF ReadAnswer, Fits, Return
<1>2. Head(inbox).kind # "pending"
  BY <1>1 DEF Classify, MATCH, NEGATIVE, PENDING, FOREIGN
<1>3. ASSUME NEW e \in Ecus \ {x} PROVE outstanding'[e] = outstanding[e]
  <2>1. outstanding \in Ledger /\ x \in Ecus
    BY DEF IInv, TypeOK, Ledger
  <2>2. AfterAmbiguous(outstanding, x, cur.req, age)[e] = outstanding[e]
    <3> HIDE DEF age, x
    <3> QED BY <1>3, <2>1 DEF AfterAmbiguous, Ledger
  <2>3. AfterAnswer(outstanding, x)[e] = outstanding[e]
    <3> HIDE DEF x
    <3> QED BY <1>3, <2>1 DEF AfterAnswer, Ledger
  <2> HIDE DEF flagged, age, x
  <2> QED BY <1>1, <2>2, <2>3
<1> QED BY <1>1, <1>2, <1>3, AnswerEnds

LEMMA NackKept == ASSUME Setting, IInv, IInv', Kept, Nack PROVE Kept'
<1>1. /\ pc = "waiting" /\ pc' = "idle"
      /\ \A i \in DOMAIN ecu[cur.ecu] : ~ecu[cur.ecu][i].own
      /\ UNCHANGED <<ecu, outstanding, inbox>>
  BY DEF Nack, Return
<1>2. HeldOnce /\ FramesInOrder /\ LingeringTraced /\ TypeOK
  BY <1>1 DEF Kept, IInv
<1>3. HeldOnce' /\ FramesInOrder'
  BY <1>1, <1>2 DEF HeldOnce, FramesInOrder
<1>4. LingeringTraced'
  <2>1. ASSUME NEW e \in Ecus
        PROVE  /\ Lingers(e)' => Lingers(e)
               /\ Waited(e)' <= Waited(e)
    <3>1. Waited(e)' = 0 /\ 0 <= Waited(e)
      BY <1>1, WaitedType DEF Waited, IInv
    <3>2. e = cur.ecu /\ ecu[e] # <<>> => ~Head(ecu[e]).own
      BY <1>1, <1>2, HeldHead
    <3> QED BY <1>1, <3>1, <3>2 DEF Lingers
  <2>2. \A e \in Ecus : ecu[e] # <<>> /\ TracedSomehow(e) => SameRecord(e, 0)
    BY <1>1, <1>2, RecordStays
  <2> QED BY <1>1, <2>1, <2>2, LingeringStays
<1>5. OwnInTime' /\ WindowShut' /\ StaleIsFlagged' /\ NothingOwnYet'
  BY <1>1 DEF OwnInTime, WindowShut, StaleIsFlagged, NothingOwnYet
<1> QED BY <1>3, <1>4, <1>5 DEF Kept

LEMMA LinkKept == ASSUME Setting, IInv, IInv', Kept, LinkLost \/ Connect PROVE Kept'
<1>1. CASE LinkLost
  BY <1>1 DEF LinkLost, Kept
<1>2. CASE Connect
  <2>1. /\ pc' = "idle" /\ inbox' = <<>> /\ ecu' = [e \in Ecus |-> <<>>]
    BY <1>2 DEF Connect
  <2>2. HeldOnce' /\ FramesInOrder' /\ LingeringTraced'
    BY <2>1 DEF HeldOnce, FramesInOrder, LingeringTraced, Lingers
  <2>3. OwnInTime' /\ WindowShut' /\ StaleIsFlagged' /\ NothingOwnYet'
    BY <2>1 DEF OwnInTime, WindowShut, StaleIsFlagged, NothingOwnYet
  <2> QED BY <2>2, <2>3 DEF Kept
<1> QED BY <1>1, <1>2

\* The request given up on takes the record: what it was sent beside, if
\* anything, has lost a wait and a window of its time by then.
LEMMA TimedOutKept == ASSUME Setting, IInv, IInv', Kept, TimedOut PROVE Kept'
<1> DEFINE x == cur.ecu
           new == [req |-> cur.req, age |-> 0, promised |-> promised,
                   settled |-> FALSE, answered |-> FALSE]
<1>1. /\ pc = "waiting" /\ pc' = "idle" /\ deadline = 0
      /\ outstanding' = [outstanding EXCEPT ![x] = new]
      /\ UNCHANGED <<cur, ecu, inbox>>
  BY DEF TimedOut, Return, AfterTimeout, callVars
<1>2. /\ HeldOnce /\ FramesInOrder /\ LingeringTraced /\ OwnInTime /\ TypeOK /\ Budget
      /\ x \in Ecus /\ cur.req \in Requests /\ cur.base \in Timeouts /\ promised \in BOOLEAN
  BY <1>1 DEF Kept, IInv, TypeOK
<1>3. HeldOnce' /\ FramesInOrder'
  BY <1>1, <1>2 DEF HeldOnce, FramesInOrder
<1>4. ASSUME NEW e \in Ecus \ {x}, Lingers(e)' PROVE TracedSomehow(e)'
  <2>1. ecu[e] # <<>> /\ ecu'[e] = ecu[e] /\ Lingers(e)
    BY <1>1, <1>4 DEF Lingers
  <2>2. TracedSomehow(e)
    BY <1>2, <2>1 DEF LingeringTraced, TracedSomehow
  <2>3. outstanding'[e] = outstanding[e]
    <3> HIDE DEF x, new
    <3> QED BY <1>1, <1>2, <1>4 DEF TypeOK
  <2>4. outstanding[e] # NoRecord /\ outstanding[e] \in Record
    BY <1>2, <2>1, <2>2, NotExpired
  <2>5. SameRecord(e, 0)
    BY <2>3, <2>4 DEF SameRecord, Record
  <2>6. Remaining(Head(ecu[e])) \in Nat
    BY <1>2, <2>1, HeldRemaining
  <2>7. SameLeft(e, 0)
    BY <2>1, <2>6 DEF SameLeft
  <2>8. Waited(e)' <= Waited(e) + 0 /\ cur'.ecu # e
    BY <1>1, <1>4 DEF Waited
  <2> QED BY <1>1, <1>2, <1>3, <2>1, <2>2, <2>5, <2>7, <2>8, LingeringStep
<1>5. ASSUME ecu[x] # <<>> PROVE TracedSomehow(x)'
  <2> DEFINE q == outstanding'[x]
             a == Remaining(Head(ecu[x]))
  <2>1. q = new
    <3> HIDE DEF x, new
    <3> QED BY <1>1, <1>2 DEF TypeOK
  <2>2. q.req = cur.req /\ q.age = 0
    BY <2>1
  <2>3. ~q.settled /\ ~q.answered
    <3>1. ~new.settled /\ ~new.answered
      BY Zenon
    <3> HIDE DEF new, q
    <3> QED BY <2>1, <3>1
  <2>4. q # NoRecord
    <3>1. new \in Record
      BY <1>2 DEF Record
    <3> HIDE DEF new
    <3> QED BY <2>1, <3>1, NoRecordAssumption DEF Record
  <2>5. a \in Nat /\ First \in Int /\ Second \in Int /\ Window \in Nat
        /\ Patience \in Nat /\ Longest \in Nat /\ HardBound(cur.base) \in Nat /\ hard \in Nat
    BY <1>2, <1>5, HeldRemaining, Times, HardBoundType DEF TypeOK
  <2>6. Patience <= HardBound(cur.base) - hard
    BY <1>1, <1>2, <2>5 DEF OwnInTime
  <2>7. ASSUME NEW due \in Int, a <= due PROVE Traced(x, due)'
    <3>1. q.age + a <= due
      <4> HIDE DEF a, q
      <4> QED BY <2>2, <2>5, <2>7
    <3>2. Remaining(Head(ecu'[x])) = a
      BY <1>1
    <3> HIDE DEF a
    <3> QED BY <1>1, <2>3, <2>4, <3>1, <3>2 DEF Traced
  <2>8. CASE Head(ecu[x]).own
    <3>1. Head(ecu[x]).req = cur.req
          /\ a + (HardBound(cur.base) - hard) <= Longest
      BY <1>1, <1>2, <1>5, <2>8 DEF OwnInTime
    <3>2. a <= First
      <4> HIDE DEF a
      <4> QED BY <2>5, <2>6, <3>1 DEF First
    <3>3. Traced(x, First)'
      BY <2>5, <2>7, <3>2
    <3> QED BY <1>1, <2>2, <3>1, <3>3 DEF TracedSomehow
  <2>9. CASE ~Head(ecu[x]).own
    <3>1. Lingers(x)
      BY <1>5, <2>9 DEF Lingers
    <3>2. TracedSomehow(x)
      BY <1>2, <3>1 DEF LingeringTraced, TracedSomehow
    <3>3. outstanding[x].settled
      BY <1>1, <3>2 DEF TracedSomehow, Traced
    <3>4. Waited(x) = HardBound(cur.base) - hard
      BY <1>1 DEF Waited
    <3>5. 0 <= Waited(x)
      BY <2>5, <2>6, <3>4
    <3>6. a + Waited(x) <= First - Window
      BY <1>2, <1>5, <3>2, <3>3, <3>5, AfterWindow
    <3>7. a <= Second
      <4> HIDE DEF a
      <4> QED BY <2>5, <2>6, <3>4, <3>6 DEF Second
    <3>8. Traced(x, Second)'
      BY <2>5, <2>7, <3>7
    <3> QED BY <1>1, <3>8 DEF TracedSomehow
  <2> QED BY <2>8, <2>9
<1>6. LingeringTraced'
  <2>1. Lingers(x)' => ecu[x] # <<>>
    BY <1>1 DEF Lingers
  <2> QED BY <1>1, <1>4, <1>5, <2>1 DEF LingeringTraced, TracedSomehow
<1>7. OwnInTime' /\ WindowShut' /\ StaleIsFlagged' /\ NothingOwnYet'
  BY <1>1 DEF OwnInTime, WindowShut, StaleIsFlagged, NothingOwnYet
<1> QED BY <1>3, <1>6, <1>7 DEF Kept

-----------------------------------------------------------------------------
(* The environment *)

\* The other ECUs are as they were.
LEMMA OthersTraced ==
  ASSUME Setting, IInv, IInv', Kept, HeldOnce', pc # "down",
         NEW x \in Ecus, \A e \in Ecus \ {x} : ecu'[e] = ecu[e],
         UNCHANGED <<pc, callVars, settleVars, outstanding>>
  PROVE  \A e \in Ecus \ {x} : Lingers(e)' => TracedSomehow(e)'
<1>1. HeldOnce /\ LingeringTraced /\ TypeOK
  BY DEF Kept, IInv
<1> SUFFICES ASSUME NEW e \in Ecus \ {x}, Lingers(e)' PROVE TracedSomehow(e)'
  OBVIOUS
<1>2. ecu[e] # <<>> /\ ecu'[e] = ecu[e] /\ Lingers(e)
  BY DEF Lingers, callVars
<1>3. TracedSomehow(e)
  BY <1>1, <1>2 DEF LingeringTraced, TracedSomehow
<1>4. SameRecord(e, 0)
  BY <1>1, <1>2, <1>3, RecordStays
<1>5. Remaining(Head(ecu[e])) \in Nat
  BY <1>1, <1>2, HeldRemaining
<1>6. SameLeft(e, 0)
  BY <1>2, <1>5 DEF SameLeft
<1>7. Waited(e)' = Waited(e) /\ Waited(e) \in Int
  BY <1>1, WaitedType DEF IInv, Waited, callVars, settleVars
<1>8. Waited(e)' <= Waited(e) + 0
  BY <1>7
<1> QED BY <1>1, <1>2, <1>3, <1>4, <1>6, <1>8, LingeringStep DEF callVars

\* A frame arrives: where it could be taken for the answer to another call,
\* the call is marked.
LEMMA ReceiveKept ==
  ASSUME Setting, IInv, IInv', Kept, pc # "down", NEW x \in Ecus, ecu[x] # <<>>,
         NEW f \in Frame, Receive(f),
         f.ecu = x, f.service = Head(ecu[x]).req.service, f.own = Head(ecu[x]).own,
         f.kind = "positive" =>
           Head(ecu[x]).req.echo = {} \/ f.id \in Head(ecu[x]).req.echo,
         f.kind = "pending" \/ ecu'[x] = <<>>,
         ecu'[x] # <<>> => Head(ecu'[x]).req = Head(ecu[x]).req,
         \A e \in Ecus \ {x} : ecu'[e] = ecu[e],
         UNCHANGED <<pc, callVars, settleVars, outstanding>>
  PROVE  FramesInOrder' /\ WindowShut' /\ StaleIsFlagged'
<1> DEFINE h == Head(ecu[x])
<1>1. /\ HeldOnce /\ FramesInOrder /\ LingeringTraced /\ TypeOK /\ WindowShut
      /\ StaleIsFlagged /\ h \in Held
  BY HeldHead DEF Kept, IInv
<1>2. /\ inbox' = Append(inbox, f)
      /\ pc = "settling" /\ Least(quiet, end) = 0 => AnswersMayCross
  BY DEF Receive
<1>3. /\ Len(inbox) \in Nat /\ DOMAIN inbox = 1 .. Len(inbox)
      /\ DOMAIN inbox' = 1 .. Len(inbox) + 1
      /\ \A i \in DOMAIN inbox : inbox'[i] = inbox[i]
      /\ inbox'[Len(inbox) + 1] = f
  BY <1>1, <1>2 DEF TypeOK
<1>4. \A i \in DOMAIN inbox' : i \in DOMAIN inbox \/ (i = Len(inbox) + 1 /\ inbox'[i] = f)
  BY <1>3
<1>5. ASSUME cur.ecu = x, ~(pc = "waiting" /\ h.own), pc \in {"settling", "waiting"},
             0 <= Waited(x)
      PROVE  /\ Attributable /\ ~Prompt /\ Traced(x, First) /\ outstanding[x].req = h.req
  <2>1. Lingers(x)
    BY <1>5 DEF Lingers
  <2>2. TracedSomehow(x)
    BY <1>1, <2>1 DEF LingeringTraced, TracedSomehow
  <2>3. outstanding[x].settled
    BY <1>5, <2>2 DEF TracedSomehow, Traced
  <2> QED BY <1>1, <1>5, <2>2, <2>3, AfterWindow
<1>6. FramesInOrder'
  <2>1. ASSUME NEW i \in DOMAIN inbox', NEW j \in DOMAIN inbox',
               i < j, inbox'[i].ecu = inbox'[j].ecu
        PROVE  inbox'[i].kind = "pending" /\ inbox'[i].service = inbox'[j].service
    <3>1. i \in DOMAIN inbox
      BY <1>3, <2>1
    <3>2. CASE j \in DOMAIN inbox
      BY <1>1, <1>3, <2>1, <3>1, <3>2 DEF FramesInOrder
    <3>3. CASE inbox'[j] = f
      <4>1. inbox[i].ecu = x
        BY <1>3, <2>1, <3>1, <3>3
      <4> QED BY <1>1, <1>3, <3>1, <3>3, <4>1 DEF FramesInOrder
    <3> QED BY <1>4, <3>2, <3>3
  <2>2. ASSUME NEW e \in Ecus, ecu'[e] # <<>>, NEW i \in DOMAIN inbox', inbox'[i].ecu = e
        PROVE  inbox'[i].kind = "pending" /\ inbox'[i].service = Head(ecu'[e]).req.service
    <3>1. ecu[e] # <<>> /\ Head(ecu'[e]).req = Head(ecu[e]).req
      <4>1. CASE e = x
        BY <2>2, <4>1
      <4>2. CASE e # x
        <5>1. ecu'[e] = ecu[e]
          BY <4>2
        <5> QED BY <2>2, <5>1
      <4> QED BY <4>1, <4>2
    <3>2. CASE i \in DOMAIN inbox
      BY <1>1, <1>3, <2>2, <3>1, <3>2 DEF FramesInOrder
    <3>3. CASE inbox'[i] = f
      <4>1. e = x /\ f.kind = "pending"
        BY <2>2, <3>3
      <4> QED BY <3>1, <3>3, <4>1
    <3> QED BY <1>4, <3>2, <3>3
  <2> QED BY <2>1, <2>2 DEF FramesInOrder
<1>7. WindowShut'
  <2>1. ASSUME pc = "settling", Least(quiet, end) = 0 PROVE f.ecu # cur.ecu
    <3> SUFFICES ASSUME cur.ecu = x PROVE FALSE
      OBVIOUS
    <3>1. AnswersMayCross
      BY <1>2, <2>1
    <3>2. Waited(x) = 0
      BY <2>1 DEF Waited
    <3>3. Attributable
      BY <1>5, <2>1, <3>2
    <3> QED BY <3>1, <3>3 DEF Attributable
  <2>2. ASSUME pc = "settling", Least(quiet, end) = 0, NEW i \in DOMAIN inbox'
        PROVE  inbox'[i].ecu # cur.ecu
    <3>1. CASE i \in DOMAIN inbox
      BY <1>1, <1>3, <2>2, <3>1 DEF WindowShut
    <3>2. CASE inbox'[i] = f
      BY <2>1, <2>2, <3>2
    <3> QED BY <1>4, <3>1, <3>2
  <2> QED BY <1>1, <2>2 DEF WindowShut, callVars, settleVars
<1>8. StaleIsFlagged'
  <2>1. ASSUME pc = "waiting", cur.ecu = x, ~f.own
        PROVE  /\ ~Prompt
               /\ f.kind = "positive" /\ MatchesPositive(cur.req, f) =>
                    ambiguous /\ outstanding[x] # NoRecord
    <3>1. 0 <= Waited(x)
      BY <2>1, WaitedType DEF IInv
    <3>2. Attributable /\ ~Prompt /\ Traced(x, First) /\ outstanding[x].req = h.req
      BY <1>5, <2>1, <3>1
    <3>3. ASSUME f.kind = "positive", MatchesPositive(cur.req, f)
          PROVE  CouldBeMistaken(h.req, cur.req)
      BY <3>3 DEF MatchesPositive, CouldBeMistaken
    <3>4. h.req \in Requests /\ cur.req \in Requests
      BY <1>1 DEF Held, TypeOK
    <3>5. CouldBeMistaken(h.req, cur.req) => IndistinguishableFrom(h.req, cur.req)
      BY <3>2, <3>4 DEF Attributable
    <3>6. outstanding[x] # NoRecord
          /\ (IndistinguishableFrom(outstanding[x].req, cur.req) => ambiguous)
      BY <2>1, <3>2 DEF Traced
    <3> QED BY <3>2, <3>3, <3>5, <3>6
  <2>2. ASSUME pc = "waiting", NEW i \in DOMAIN inbox', inbox'[i].ecu = cur.ecu, ~inbox'[i].own
        PROVE  /\ ~Prompt
               /\ inbox'[i].kind = "positive" /\ MatchesPositive(cur.req, inbox'[i]) =>
                    ambiguous /\ outstanding[cur.ecu] # NoRecord
    <3>1. CASE i \in DOMAIN inbox
      BY <1>1, <1>3, <2>2, <3>1 DEF StaleIsFlagged
    <3>2. CASE inbox'[i] = f
      BY <2>1, <2>2, <3>2
    <3> QED BY <1>4, <3>1, <3>2
  <2> QED BY <2>2 DEF StaleIsFlagged, callVars
<1> QED BY <1>6, <1>7, <1>8

\* An ECU that holds one request at most is done with it when it drops it.
LEMMA LastOne ==
  ASSUME TypeOK, HeldOnce, NEW e \in Ecus, ecu[e] # <<>>
  PROVE  Tail(ecu[e]) = <<>>
BY DEF TypeOK, HeldOnce

LEMMA EcuAnswerKept ==
  ASSUME Setting, IInv, IInv', Kept, pc # "down", NEW x \in Ecus, EcuAnswer(x)
  PROVE  Kept'
<1> DEFINE h == Head(ecu[x])
<1>1. /\ ecu[x] # <<>> /\ ecu' = [ecu EXCEPT ![x] = Tail(@)]
      /\ UNCHANGED <<pc, callVars, settleVars, outstanding>>
      /\ \/ \E id \in IF h.req.echo = {} THEN Ids ELSE h.req.echo :
              Receive(Body(x, h, "positive", id))
         \/ Receive(Body(x, h, "negative", NoId))
  BY DEF EcuAnswer
<1>2. HeldOnce /\ TypeOK /\ OwnInTime /\ NothingOwnYet /\ h \in Held
  BY <1>1, HeldHead DEF Kept, IInv
<1>3. ecu'[x] = <<>> /\ \A e \in Ecus \ {x} : ecu'[e] = ecu[e]
  BY <1>1, <1>2, LastOne DEF TypeOK
<1>4. HeldOnce'
  <2>1. ASSUME NEW e \in Ecus
        PROVE  Len(ecu'[e]) <= 1 /\ (ecu'[e] # <<>> => Head(ecu'[e]).notices <= MaxNotices)
    <3>1. CASE e = x
      BY <1>3, <3>1
    <3>2. CASE e # x
      <4>1. ecu'[e] = ecu[e]
        BY <1>3, <3>2
      <4> QED BY <1>2, <4>1 DEF HeldOnce
    <3> QED BY <3>1, <3>2
  <2> QED BY <2>1 DEF HeldOnce
<1>5. LingeringTraced'
  <2>1. \A e \in Ecus \ {x} : Lingers(e)' => TracedSomehow(e)'
    BY <1>1, <1>3, <1>4, OthersTraced
  <2>2. ~Lingers(x)'
    BY <1>3 DEF Lingers
  <2> QED BY <2>1, <2>2 DEF LingeringTraced, TracedSomehow
<1>6. PICK id \in Ids \cup {NoId}, kind \in {"positive", "negative"} :
        /\ Receive(Body(x, h, kind, id))
        /\ kind = "positive" => h.req.echo = {} \/ id \in h.req.echo
  <2>1. (IF h.req.echo = {} THEN Ids ELSE h.req.echo) \subseteq Ids
    BY <1>2, RequestsAssumption DEF Held
  <2>2. CASE Receive(Body(x, h, "negative", NoId))
    <3> HIDE DEF h
    <3> QED BY <2>2
  <2>3. CASE \E id \in IF h.req.echo = {} THEN Ids ELSE h.req.echo :
              Receive(Body(x, h, "positive", id))
    <3> HIDE DEF h
    <3> QED BY <2>1, <2>3
  <2> QED BY <1>1, <2>2, <2>3
<1>7. FramesInOrder' /\ WindowShut' /\ StaleIsFlagged'
  <2> DEFINE f == Body(x, h, kind, id)
  <2>1. f \in Frame
    BY <1>2, BodyType
  <2>2. f.ecu = x /\ f.service = h.req.service /\ f.kind = kind /\ f.id = id
    BY DEF Body
  <2>3. f.own = h.own
    BY Zenon DEF Body
  <2> HIDE DEF f
  <2>4. Receive(f)
    BY <1>6 DEF f
  <2> QED BY <1>1, <1>3, <1>6, <2>1, <2>2, <2>3, <2>4, ReceiveKept
<1>8. OwnInTime' /\ NothingOwnYet'
  <2>1. cur.ecu \in Ecus /\ cur' = cur /\ pc' = pc /\ hard' = hard /\ deadline' = deadline
    BY <1>1, <1>2 DEF TypeOK, callVars
  <2>2. ecu'[cur.ecu] # <<>> => ecu'[cur.ecu] = ecu[cur.ecu]
    BY <1>3, <2>1
  <2> QED BY <1>2, <2>1, <2>2 DEF OwnInTime, NothingOwnYet
<1> QED BY <1>4, <1>5, <1>7, <1>8 DEF Kept

LEMMA EcuPendingKept ==
  ASSUME Setting, IInv, IInv', Kept, pc # "down", NEW x \in Ecus, EcuPending(x)
  PROVE  Kept'
<1> DEFINE h == Head(ecu[x])
           f == Body(x, h, "pending", NoId)
<1>1. /\ ecu[x] # <<>> /\ h.notices < MaxNotices /\ Receive(f)
      /\ ecu' = [ecu EXCEPT ![x] = <<Promised(h)>> \o Tail(ecu[x])]
      /\ UNCHANGED <<pc, callVars, settleVars, outstanding>>
  BY DEF EcuPending
<1>2. HeldOnce /\ LingeringTraced /\ TypeOK /\ OwnInTime /\ NothingOwnYet /\ h \in Held
  BY <1>1, HeldHead DEF Kept, IInv
<1>3. ecu'[x] = <<Promised(h)>> /\ \A e \in Ecus \ {x} : ecu'[e] = ecu[e]
  <2>1. Tail(ecu[x]) = <<>>
    BY <1>1, <1>2, LastOne
  <2> HIDE DEF h
  <2>2. <<Promised(h)>> \in Seq(Held)
    BY <1>2, PromisedType
  <2>3. <<Promised(h)>> \o Tail(ecu[x]) = <<Promised(h)>>
    BY <2>1, <2>2, ConcatEmptySeq
  <2> QED BY <1>1, <1>2, <2>3 DEF TypeOK
<1>4. ecu'[x] # <<>> /\ Head(ecu'[x]) = Promised(h) /\ Len(ecu'[x]) = 1
  <2> HIDE DEF h
  <2> QED BY <1>3
<1>5. /\ Promised(h).req = h.req /\ Promised(h).own = h.own
      /\ Promised(h).notices <= MaxNotices
      /\ Remaining(Promised(h)) <= Remaining(h)
  BY <1>1, <1>2, PromiseSpends
<1>6. HeldOnce'
  <2>1. ASSUME NEW e \in Ecus
        PROVE  Len(ecu'[e]) <= 1 /\ (ecu'[e] # <<>> => Head(ecu'[e]).notices <= MaxNotices)
    <3>1. CASE e = x
      <4>1. ecu'[e] = ecu'[x]
        BY <3>1
      <4>2. Len(ecu'[e]) = 1 /\ Head(ecu'[e]) = Promised(h)
        BY <1>4, <4>1
      <4>3. Head(ecu'[e]).notices <= MaxNotices
        BY Zenon, <1>5, <4>2
      <4> QED BY <4>2, <4>3
    <3>2. CASE e # x
      <4>1. ecu'[e] = ecu[e]
        BY <1>3, <3>2
      <4> QED BY <1>2, <4>1 DEF HeldOnce
    <3> QED BY <3>1, <3>2
  <2> QED BY <2>1 DEF HeldOnce
<1>7. Remaining(h) \in Nat /\ Remaining(Promised(h)) \in Nat
  <2>1. h.notices <= MaxNotices
    BY <1>1, <1>2 DEF HeldOnce
  <2>2. Promised(h) \in Held
    BY <1>2, PromisedType
  <2> QED BY <1>2, <1>5, <2>1, <2>2, RemainingIs
<1>8. LingeringTraced'
  <2>1. \A e \in Ecus \ {x} : Lingers(e)' => TracedSomehow(e)'
    BY <1>1, <1>3, <1>6, OthersTraced
  <2>2. ASSUME Lingers(x)' PROVE TracedSomehow(x)'
    <3>1. Lingers(x)
      <4>1. Head(ecu'[x]).own = h.own
        BY Zenon, <1>4, <1>5
      <4> QED BY <1>1, <2>2, <4>1 DEF Lingers, callVars
    <3>2. TracedSomehow(x)
      BY <1>2, <3>1 DEF LingeringTraced, TracedSomehow
    <3>3. SameRecord(x, 0)
      BY <1>1, <1>2, <3>2, RecordStays
    <3>4. SameLeft(x, 0)
      <4>1. Remaining(Head(ecu'[x])) + 0 <= Remaining(Head(ecu[x]))
        BY <1>4, <1>5, <1>7
      <4> QED BY <1>1, <1>4, <1>5, <4>1 DEF SameLeft
    <3>5. Waited(x)' = Waited(x) /\ Waited(x) \in Int
      BY <1>1, <1>2, WaitedType DEF IInv, Waited, callVars, settleVars
    <3>6. Waited(x)' <= Waited(x) + 0
      BY <3>5
    <3> QED BY <1>1, <1>2, <1>4, <1>6, <3>2, <3>3, <3>4, <3>6, LingeringStep DEF callVars
  <2> QED BY <2>1, <2>2 DEF LingeringTraced, TracedSomehow
<1>9. FramesInOrder' /\ WindowShut' /\ StaleIsFlagged'
  <2>1. f \in Frame
    BY <1>2, BodyType
  <2>2. f.ecu = x /\ f.service = h.req.service /\ f.kind = "pending"
    BY DEF Body
  <2>3. f.own = h.own
    BY Zenon DEF Body
  <2>4. Head(ecu'[x]).req = h.req
    BY <1>4, <1>5
  <2> HIDE DEF f
  <2> QED BY <1>1, <1>3, <2>1, <2>2, <2>3, <2>4, ReceiveKept
<1>10. OwnInTime' /\ NothingOwnYet'
  <2>1. /\ cur.ecu \in Ecus /\ cur' = cur /\ pc' = pc /\ hard' = hard /\ deadline' = deadline
        /\ hard \in Nat /\ HardBound(cur.base) \in Nat /\ Longest \in Nat
    BY <1>1, <1>2, HardBoundType, Times DEF TypeOK, callVars
  <2>2. CASE cur.ecu # x
    <3>1. ecu'[cur.ecu] = ecu[cur.ecu]
      BY <1>3, <2>1, <2>2
    <3> QED BY <1>2, <2>1, <3>1 DEF OwnInTime, NothingOwnYet
  <2>3. CASE cur.ecu = x
    <3>1. Head(ecu'[x]).own = h.own
      BY Zenon, <1>4, <1>5
    <3>2. NothingOwnYet'
      BY <1>1, <1>2, <2>1, <2>3, <3>1 DEF NothingOwnYet
    <3>3. ASSUME pc = "waiting", h.own
          PROVE  /\ Head(ecu'[x]).req = cur.req
                 /\ Remaining(Head(ecu'[x])) + (HardBound(cur.base) - hard) <= Longest
      <4>1. h.req = cur.req /\ Remaining(h) + (HardBound(cur.base) - hard) <= Longest
        BY <1>1, <1>2, <2>3, <3>3 DEF OwnInTime
      <4> QED BY <1>4, <1>5, <1>7, <2>1, <4>1
    <3>4. pc = "waiting" => Patience <= deadline + (HardBound(cur.base) - hard)
      BY <1>2 DEF OwnInTime
    <3> QED BY <2>1, <2>3, <3>1, <3>2, <3>3, <3>4 DEF OwnInTime
  <2> QED BY <2>2, <2>3
<1> QED BY <1>6, <1>8, <1>9, <1>10 DEF Kept

LEMMA EcuGivesUpKept ==
  ASSUME Setting, IInv, IInv', Kept, pc # "down", NEW x \in Ecus, EcuGivesUp(x)
  PROVE  Kept'
<1>1. /\ ecu[x] # <<>> /\ ecu' = [ecu EXCEPT ![x] = Tail(@)]
      /\ UNCHANGED <<pc, callVars, settleVars, outstanding, inbox>>
  BY DEF EcuGivesUp
<1>2. /\ HeldOnce /\ TypeOK /\ FramesInOrder /\ OwnInTime /\ NothingOwnYet
      /\ WindowShut /\ StaleIsFlagged
  BY DEF Kept, IInv
<1>3. ecu'[x] = <<>> /\ \A e \in Ecus \ {x} : ecu'[e] = ecu[e]
  BY <1>1, <1>2, LastOne DEF TypeOK
<1>4. \A e \in Ecus : ecu'[e] # <<>> => ecu'[e] = ecu[e]
  BY <1>3
<1>5. HeldOnce'
  <2>1. ASSUME NEW e \in Ecus, ecu'[e] = <<>> PROVE Len(ecu'[e]) <= 1
    BY <2>1
  <2> QED BY <1>2, <1>4, <2>1 DEF HeldOnce
<1>6. LingeringTraced'
  <2>1. \A e \in Ecus \ {x} : Lingers(e)' => TracedSomehow(e)'
    BY <1>1, <1>3, <1>5, OthersTraced
  <2>2. ~Lingers(x)'
    BY <1>3 DEF Lingers
  <2> QED BY <2>1, <2>2 DEF LingeringTraced, TracedSomehow
<1>7. FramesInOrder'
  <2>1. ASSUME NEW e \in Ecus, ecu'[e] # <<>>, NEW i \in DOMAIN inbox, inbox[i].ecu = e
        PROVE  inbox[i].kind = "pending" /\ inbox[i].service = Head(ecu'[e]).req.service
    <3>1. ecu'[e] = ecu[e]
      BY <1>4, <2>1
    <3>2. ecu[e] # <<>>
      BY <2>1, <3>1
    <3> QED BY <1>2, <2>1, <3>1, <3>2 DEF FramesInOrder
  <2>2. \A i, j \in DOMAIN inbox :
          i < j /\ inbox[i].ecu = inbox[j].ecu =>
            inbox[i].kind = "pending" /\ inbox[i].service = inbox[j].service
    BY <1>2 DEF FramesInOrder
  <2>3. inbox' = inbox
    BY <1>1
  <2> QED BY <2>1, <2>2, <2>3 DEF FramesInOrder
<1>8. OwnInTime' /\ NothingOwnYet'
  <2>1. cur.ecu \in Ecus
    BY <1>2 DEF TypeOK
  <2> QED BY <1>1, <1>2, <1>4, <2>1 DEF OwnInTime, NothingOwnYet, callVars
<1>9. WindowShut' /\ StaleIsFlagged'
  BY <1>1, <1>2 DEF WindowShut, StaleIsFlagged, callVars, settleVars
<1> QED BY <1>5, <1>6, <1>7, <1>8, <1>9 DEF Kept

LEMMA AgedRecord ==
  ASSUME NEW r \in Record
  PROVE  /\ Aged(r) # NoRecord /\ Aged(r).req = r.req
         /\ Aged(r).answered = r.answered /\ Aged(r).settled = r.settled
         /\ Aged(r).age <= r.age + 1
<1>1. r # NoRecord /\ r.age \in Nat /\ PendingMaxTotal \in Nat
  BY NoRecordAssumption, TimesAssumption DEF Record
<1> DEFINE a == Least(r.age + 1, PendingMaxTotal + 1)
<1>2. a \in Nat /\ a <= r.age + 1
  BY <1>1 DEF Least
<1>3. Aged(r) = [r EXCEPT !.age = a]
  BY <1>1 DEF Aged
<1> HIDE DEF a
<1>4. Aged(r) \in Record /\ Aged(r).req = r.req /\ Aged(r).age = a
  BY <1>2, <1>3 DEF Record
<1>5. Aged(r).answered = r.answered /\ Aged(r).settled = r.settled
  BY Zenon, <1>3 DEF Record
<1>6. Aged(r) # NoRecord
  BY <1>4, NoRecordAssumption DEF Record
<1> QED BY <1>2, <1>4, <1>5, <1>6

LEMMA TickKept == ASSUME Setting, IInv, IInv', Kept, pc # "down", Tick PROVE Kept'
<1>1. /\ \A e \in Ecus : \A i \in DOMAIN ecu[e] : ecu[e][i].left > 0
      /\ outstanding' = [e \in Ecus |-> Aged(outstanding[e])]
      /\ ecu' = [e \in Ecus |-> Older(ecu[e])]
      /\ UNCHANGED <<pc, cur, ambiguous, inbox>>
      /\ \/ pc \in {"idle", "down"}
         \/ /\ pc = "settling" /\ inbox = <<>>
            /\ quiet' = quiet - 1 /\ end' = end - 1
         \/ /\ pc = "waiting" /\ inbox = <<>> /\ deadline > 0
            /\ deadline' = deadline - 1 /\ hard' = hard - 1
  BY DEF Tick
<1>2. /\ HeldOnce /\ FramesInOrder /\ LingeringTraced /\ OwnInTime /\ NothingOwnYet
      /\ WindowShut /\ TypeOK /\ cur.ecu \in Ecus /\ cur.base \in Timeouts
  BY DEF Kept, IInv, TypeOK
<1>3. ASSUME NEW e \in Ecus, ecu'[e] # <<>>
      PROVE  /\ ecu[e] # <<>> /\ Len(ecu'[e]) = Len(ecu[e])
             /\ Head(ecu'[e]).req = Head(ecu[e]).req /\ Head(ecu'[e]).own = Head(ecu[e]).own
             /\ Head(ecu'[e]).notices = Head(ecu[e]).notices
             /\ Remaining(Head(ecu'[e])) = Remaining(Head(ecu[e])) - 1
             /\ Remaining(Head(ecu[e])) \in Nat
  <2>1. ecu[e] \in Seq(Held) /\ ecu'[e] = Older(ecu[e])
    BY <1>1, <1>2 DEF TypeOK
  <2>2. ecu[e] # <<>>
    BY <1>3, <2>1 DEF Older
  <2>3. ecu[e][1].notices <= MaxNotices
    BY <1>2, <2>2, HeldHead DEF HeldOnce
  <2>4. Remaining(Head(ecu[e])) \in Nat
    BY <1>2, <2>2, HeldRemaining
  <2> QED BY <1>1, <2>1, <2>2, <2>3, <2>4, RemainingOlder
<1>4. HeldOnce'
  <2>1. ASSUME NEW e \in Ecus, ecu'[e] = <<>> PROVE Len(ecu'[e]) <= 1
    BY <2>1
  <2> QED BY <1>2, <1>3, <2>1 DEF HeldOnce
<1>5. FramesInOrder'
  BY <1>1, <1>2, <1>3 DEF FramesInOrder
<1>6. LingeringTraced'
  <2>1. ASSUME NEW e \in Ecus, Lingers(e)' PROVE TracedSomehow(e)'
    <3>1. ecu'[e] # <<>> /\ ecu[e] # <<>>
      BY <1>3, <2>1 DEF Lingers
    <3>2. Lingers(e)
      BY <1>1, <1>3, <2>1, <3>1 DEF Lingers
    <3>3. TracedSomehow(e)
      BY <1>2, <3>2 DEF LingeringTraced, TracedSomehow
    <3>4. outstanding[e] # NoRecord /\ outstanding[e] \in Record
      BY <1>2, <3>1, <3>3, NotExpired
    <3>5. SameRecord(e, 1)
      BY <1>1, <3>4, AgedRecord DEF SameRecord
    <3>6. SameLeft(e, 1)
      <4>1. Remaining(Head(ecu'[e])) + 1 <= Remaining(Head(ecu[e]))
        BY <1>3, <3>1
      <4> QED BY <1>3, <3>1, <4>1 DEF SameLeft
    <3>7. Waited(e)' <= Waited(e) + 1
      <4>1. HardBound(cur.base) \in Nat /\ hard \in Nat /\ quiet \in Nat /\ end \in Nat
        BY <1>2, HardBoundType DEF TypeOK
      <4>2. CASE e # cur.ecu
        BY <1>1, <4>2 DEF Waited
      <4>3. CASE e = cur.ecu /\ pc = "settling"
        <5>1. Waited(e) = 0 - Least(quiet, end) /\ Waited(e)' = 0 - Least(quiet', end')
          BY <1>1, <4>3 DEF Waited
        <5>2. quiet' = quiet - 1 /\ end' = end - 1
          BY <1>1, <4>3
        <5> QED BY <4>1, <5>1, <5>2 DEF Least
      <4>4. CASE e = cur.ecu /\ pc = "waiting"
        <5>1. Waited(e) = HardBound(cur.base) - hard /\ Waited(e)' = HardBound(cur.base) - hard'
          BY <1>1, <4>4 DEF Waited
        <5>2. hard' = hard - 1
          BY <1>1, <4>4
        <5> QED BY <4>1, <5>1, <5>2
      <4>5. CASE pc \in {"idle", "down"}
        BY <1>1, <4>5 DEF Waited
      <4> QED BY <1>1, <4>2, <4>3, <4>4, <4>5
    <3> QED BY <1>1, <1>2, <1>4, <3>1, <3>3, <3>5, <3>6, <3>7, LingeringStep
  <2> QED BY <2>1 DEF LingeringTraced, TracedSomehow
<1>7. OwnInTime'
  <2> SUFFICES ASSUME pc = "waiting"
               PROVE  /\ Patience <= deadline' + (HardBound(cur.base) - hard')
                      /\ ecu'[cur.ecu] # <<>> /\ Head(ecu'[cur.ecu]).own =>
                           /\ Head(ecu'[cur.ecu]).req = cur.req
                           /\ Remaining(Head(ecu'[cur.ecu])) + (HardBound(cur.base) - hard')
                                <= Longest
    BY <1>1 DEF OwnInTime
  <2>1. /\ HardBound(cur.base) \in Nat /\ hard \in Nat /\ deadline \in Nat
        /\ Patience \in Nat /\ Longest \in Nat
        /\ deadline' = deadline - 1 /\ hard' = hard - 1
    BY <1>1, <1>2, HardBoundType, Times DEF TypeOK
  <2>2. Patience <= deadline + (HardBound(cur.base) - hard)
    BY <1>2 DEF OwnInTime
  <2>3. ASSUME ecu'[cur.ecu] # <<>>, Head(ecu'[cur.ecu]).own
        PROVE  /\ Head(ecu'[cur.ecu]).req = cur.req
               /\ Remaining(Head(ecu'[cur.ecu])) + (HardBound(cur.base) - hard') <= Longest
    <3>1. /\ ecu[cur.ecu] # <<>> /\ Head(ecu[cur.ecu]).own
          /\ Head(ecu'[cur.ecu]).req = Head(ecu[cur.ecu]).req
          /\ Remaining(Head(ecu'[cur.ecu])) = Remaining(Head(ecu[cur.ecu])) - 1
          /\ Remaining(Head(ecu[cur.ecu])) \in Nat
      BY <1>2, <1>3, <2>3
    <3>2. /\ Head(ecu[cur.ecu]).req = cur.req
          /\ Remaining(Head(ecu[cur.ecu])) + (HardBound(cur.base) - hard) <= Longest
      BY <1>2, <3>1 DEF OwnInTime
    <3> QED BY <2>1, <3>1, <3>2
  <2> QED BY <2>1, <2>2, <2>3
<1>8. NothingOwnYet'
  BY <1>1, <1>2, <1>3 DEF NothingOwnYet
<1>9. WindowShut'
  <2> SUFFICES ASSUME pc = "settling" PROVE quiet' <= SettleQuiet
    BY <1>1 DEF WindowShut
  <2>1. quiet \in Nat /\ quiet <= SettleQuiet /\ quiet' = quiet - 1 /\ SettleQuiet \in Nat
    BY <1>1, <1>2, TimesAssumption DEF WindowShut, TypeOK
  <2> QED BY <2>1
<1>10. StaleIsFlagged'
  <2>1. pc = "waiting" => inbox = <<>>
    BY <1>1
  <2> QED BY <1>1, <2>1 DEF StaleIsFlagged
<1> QED BY <1>4, <1>5, <1>6, <1>7, <1>8, <1>9, <1>10 DEF Kept

-----------------------------------------------------------------------------
LEMMA KeptInit == Init => Kept
<1> SUFFICES ASSUME Init PROVE Kept
  OBVIOUS
<1>1. /\ pc = "idle" /\ inbox = <<>> /\ ecu = [e \in Ecus |-> <<>>]
  BY DEF Init
<1>2. HeldOnce /\ FramesInOrder /\ LingeringTraced
  BY <1>1 DEF HeldOnce, FramesInOrder, LingeringTraced, Lingers
<1>3. NothingOwnYet /\ OwnInTime /\ WindowShut /\ StaleIsFlagged
  BY <1>1 DEF NothingOwnYet, OwnInTime, WindowShut, StaleIsFlagged
<1> QED BY <1>2, <1>3 DEF Kept

\* Without a session nothing is promised, and only connect() leaves it.
LEMMA KeptStep ==
  ASSUME Setting, IInv, IInv', Kept, [Next]_vars
  PROVE  Kept'
<1>1. CASE UNCHANGED vars
  BY <1>1 DEF Kept, HeldOnce, FramesInOrder, LingeringTraced, Lingers, Traced, Waited,
     NothingOwnYet, OwnInTime, WindowShut, StaleIsFlagged, vars, callVars, settleVars
<1>2. ASSUME NEW e \in Ecus, NEW req \in Requests, NEW base \in Timeouts,
             Begin(e, req, base)
      PROVE  Kept'
  BY <1>2, BeginKept
<1>3. CASE ClientStep
  BY <1>3, DiscardKept, SendNowKept, StartSettleKept, SettleReadKept, SettleDoneKept,
     ReadOrphanKept, ReadPendingKept, ReadNegativeKept, ReadAnswerKept, TimedOutKept
     DEF ClientStep
<1>4. CASE SettleAlive \/ Nack \/ LinkLost \/ Connect
  BY <1>4, SettleAliveKept, NackKept, LinkKept
<1>5. ASSUME NEW e \in Ecus, EcuAnswer(e) \/ EcuPending(e) \/ EcuGivesUp(e)
      PROVE  Kept'
  <2>1. CASE pc = "down"
    BY <1>5, <2>1 DEF EcuAnswer, EcuPending, EcuGivesUp, Kept
  <2>2. CASE pc # "down"
    BY <1>5, <2>2, EcuAnswerKept, EcuPendingKept, EcuGivesUpKept
  <2> QED BY <2>1, <2>2
<1>6. CASE Tick
  <2>1. CASE pc = "down"
    BY <1>6, <2>1 DEF Tick, Kept
  <2> QED BY <1>6, <2>1, TickKept
<1> QED BY <1>1, <1>2, <1>3, <1>4, <1>5, <1>6 DEF Next

\* What a step makes of the outcome: only an answer or a refusal is one.
LEMMA OutcomeStep ==
  ASSUME [Next]_vars
  PROVE  UNCHANGED last \/ ReadAnswer \/ ReadNegative
         \/ last'.kind \notin {"answer", "negative"}
<1>1. ASSUME NEW e \in Ecus, NEW req \in Requests, NEW base \in Timeouts,
             Begin(e, req, base)
      PROVE  last'.kind = "none"
  BY <1>1 DEF Begin, Nothing
<1>2. CASE Discard \/ SendNow \/ StartSettle \/ SettleRead \/ SettleDone
           \/ ReadOrphan \/ ReadPending
  BY <1>2 DEF Discard, SendNow, StartSettle, SettleRead, SettleDone, Send, ReadOrphan,
              ReadPending
<1>3. CASE TimedOut
  <2>1. last'.kind \in {"pending_timeout", "timeout"}
    BY <1>3 DEF TimedOut, Return
  <2> QED BY <2>1
<1>4. CASE Nack \/ LinkLost
  BY <1>4 DEF Nack, LinkLost, Return
<1>5. CASE SettleAlive \/ Connect \/ Tick
  BY <1>5 DEF SettleAlive, Connect, Tick
<1>6. ASSUME NEW e \in Ecus, EcuAnswer(e) \/ EcuPending(e) \/ EcuGivesUp(e)
      PROVE  UNCHANGED last
  BY <1>6 DEF EcuAnswer, EcuPending, EcuGivesUp
<1>7. CASE UNCHANGED vars
  BY <1>7 DEF vars
<1> QED BY <1>1, <1>2, <1>3, <1>4, <1>5, <1>6, <1>7 DEF Next, ClientStep

\* The frame an answer or a refusal is read from.
LEMMA ReadsOwn ==
  ASSUME IInv, Kept, ReadAnswer \/ ReadNegative
  PROVE  /\ last'.own = Head(inbox).own
         /\ Prompt => Head(inbox).own
         /\ ReadAnswer /\ ~last'.flagged => Head(inbox).own
<1>1. /\ pc = "waiting" /\ inbox # <<>> /\ Head(inbox).ecu = cur.ecu
      /\ last'.own = Head(inbox).own
  <2>1. pc = "waiting" /\ inbox # <<>> /\ Head(inbox).ecu = cur.ecu
    BY DEF ReadAnswer, ReadNegative, Fits
  <2>2. CASE ReadAnswer
    <3>1. last'.own = Head(inbox).own
      BY Zenon, <2>2 DEF ReadAnswer, Return
    <3> QED BY <2>1, <3>1
  <2>3. CASE ReadNegative
    <3>1. last'.own = Head(inbox).own
      BY Zenon, <2>3 DEF ReadNegative, Return
    <3> QED BY <2>1, <3>1
  <2> QED BY <2>2, <2>3
<1>2. Head(inbox) = inbox[1] /\ 1 \in DOMAIN inbox
  BY <1>1, FirstFrame DEF IInv
<1>3. StaleIsFlagged
  BY <1>1 DEF Kept
<1>4. Prompt => Head(inbox).own
  BY <1>1, <1>2, <1>3 DEF StaleIsFlagged
<1>5. ASSUME ReadAnswer, ~last'.flagged, ~Head(inbox).own PROVE FALSE
  <2>1. Classify(cur.req, Head(inbox)) = MATCH
    BY <1>5 DEF ReadAnswer, Fits
  <2>2. Head(inbox).kind = "positive" /\ MatchesPositive(cur.req, Head(inbox))
    BY <2>1 DEF Classify, MATCH, PENDING, NEGATIVE, FOREIGN
  <2>3. ambiguous /\ outstanding[cur.ecu] # NoRecord
    BY <1>1, <1>2, <1>3, <1>5, <2>2 DEF StaleIsFlagged
  <2>4. last'.flagged = (ambiguous /\ outstanding[cur.ecu] # NoRecord)
    BY Zenon, <1>5 DEF ReadAnswer, Return
  <2> QED BY <1>5, <2>3, <2>4
<1> QED BY <1>1, <1>4, <1>5

\* Of an ECU that works on one request at a time and is done with it before a
\* second wait and the two windows are over, no call is ever handed an answer
\* of another unmarked, whatever the number of ECUs, the requests, the timing
\* and the order of events (live.py:464-473, 913-923, 1156-1174).
THEOREM NothingStaleUnmarked ==
  ASSUME Patient, Attributable
  PROVE  Spec => []NoSilentStale
<1> DEFINE Inv == IInv /\ Kept /\ NoSilentStale
<1>1. Setting
  BY DEF Setting
<1>2. Init => Inv
  BY InitInv, KeptInit DEF NoSilentStale, Init, Nothing
<1>3. Inv /\ [Next]_vars => Inv'
  <2> SUFFICES ASSUME Inv, [Next]_vars PROVE Inv'
    OBVIOUS
  <2>1. IInv' /\ Kept'
    BY <1>1, StepInv, KeptStep
  <2>2. NoSilentStale'
    <3>1. CASE UNCHANGED last \/ last'.kind \notin {"answer", "negative"}
      BY <3>1 DEF NoSilentStale
    <3>2. CASE ReadAnswer
      <4>1. last'.own = Head(inbox).own /\ (~last'.flagged => Head(inbox).own)
        BY <3>2, ReadsOwn
      <4> QED BY Zenon, <4>1 DEF NoSilentStale
    <3>3. CASE ReadNegative
      BY <3>3 DEF ReadNegative, Return, NoSilentStale
    <3> QED BY <3>1, <3>2, <3>3, OutcomeStep
  <2> QED BY <2>1, <2>2
<1>4. Inv => NoSilentStale
  OBVIOUS
<1> HIDE DEF Inv
<1> QED BY <1>2, <1>3, <1>4, PTL DEF Spec

\* Where every answer is in before the window of the next call can close, a
\* call is handed nothing but its own, refusals included: the window alone
\* does it, for ECUs that queue and for answers that cross a request
\* (live.py:464-473, 1235-1283).
THEOREM PromptIsFresh ==
  ASSUME Patient, Prompt
  PROVE  Spec => []NoStaleAnswer
<1> DEFINE Inv == IInv /\ Kept /\ NoStaleAnswer
<1>1. Setting
  BY DEF Setting
<1>2. Init => Inv
  BY InitInv, KeptInit DEF NoStaleAnswer, Init, Nothing
<1>3. Inv /\ [Next]_vars => Inv'
  <2> SUFFICES ASSUME Inv, [Next]_vars PROVE Inv'
    OBVIOUS
  <2>1. IInv' /\ Kept'
    BY <1>1, StepInv, KeptStep
  <2>2. NoStaleAnswer'
    <3>1. CASE UNCHANGED last \/ last'.kind \notin {"answer", "negative"}
      BY <3>1 DEF NoStaleAnswer
    <3>2. CASE ReadAnswer \/ ReadNegative
      <4>1. last'.own = Head(inbox).own /\ Head(inbox).own
        BY <3>2, ReadsOwn
      <4> QED BY Zenon, <4>1 DEF NoStaleAnswer
    <3> QED BY <3>1, <3>2, OutcomeStep
  <2> QED BY <2>1, <2>2
<1>4. Inv => NoStaleAnswer
  OBVIOUS
<1> HIDE DEF Inv
<1> QED BY <1>2, <1>3, <1>4, PTL DEF Spec
-----------------------------------------------------------------------------
(* The client is a Transport *)

Calling == {"discarding", "settling", "waiting"}

\* A call that was promised nothing has what is left of its time still to wait.
NotEarly == pc = "waiting" /\ ~promised => cur.base <= spent + deadline

LEMMA NotEarlyStep ==
  ASSUME IInv, NotEarly, [Next]_vars PROVE NotEarly'
<1>1. /\ cur.base \in Nat /\ spent \in Nat /\ deadline \in Nat
      /\ pc \in {"idle", "discarding", "settling", "waiting", "down"}
  BY TimesAssumption DEF IInv, TypeOK
<1>2. ASSUME NEW amb, Send(amb) PROVE NotEarly'
  <2>1. deadline' = cur.base /\ cur' = cur /\ spent' = spent
    BY <1>2 DEF Send
  <2> QED BY <1>1, <2>1 DEF NotEarly
<1>3. CASE SendNow \/ SettleDone
  <2>1. \E amb : Send(amb)
    BY <1>3 DEF SendNow, SettleDone
  <2> QED BY <1>2, <2>1
<1>4. CASE Tick
  <2>1. cur' = cur /\ pc' = pc /\ promised' = promised
    BY <1>4 DEF Tick
  <2>2. pc = "waiting" => deadline' = deadline - 1 /\ spent' = spent + 1
    BY <1>4 DEF Tick
  <2> QED BY <1>1, <2>1, <2>2 DEF NotEarly
<1>5. CASE \E e \in Ecus, req \in Requests, base \in Timeouts : Begin(e, req, base)
  BY <1>5 DEF Begin, NotEarly
<1>6. CASE ReadPending
  BY <1>6 DEF ReadPending, NotEarly
<1>7. CASE Discard \/ StartSettle \/ SettleRead \/ SettleAlive \/ ReadOrphan \/ ReadNegative
           \/ ReadAnswer \/ TimedOut \/ Nack \/ LinkLost \/ Connect
  BY <1>7 DEF Discard, StartSettle, SettleRead, SettleAlive, ReadOrphan, ReadNegative,
              ReadAnswer, TimedOut, Nack, LinkLost, Connect, Return, NotEarly, callVars
<1>8. ASSUME NEW e \in Ecus, EcuAnswer(e) \/ EcuPending(e) \/ EcuGivesUp(e) PROVE NotEarly'
  BY <1>8 DEF EcuAnswer, EcuPending, EcuGivesUp, NotEarly, callVars
<1>9. CASE UNCHANGED vars
  BY <1>9 DEF vars, callVars, NotEarly
<1> QED BY <1>3, <1>4, <1>5, <1>6, <1>7, <1>8, <1>9 DEF Next, ClientStep

\* What the caller sees nothing of.
LEMMA CallerSeesNothing ==
  ASSUME UNCHANGED <<cur, spent, last, doubt>>,
         pc' = pc \/ (pc \in Calling /\ pc' \in Calling)
  PROVE  UNCHANGED Called!transportVars
BY DEF Called!transportVars, Calling

LEMMA AskStep ==
  ASSUME NEW e \in Ecus, NEW req \in Requests, NEW base \in Timeouts, Begin(e, req, base)
  PROVE  Called!Ask
<1>1. /\ pc = "idle" /\ pc' = "discarding" /\ cur' = [ecu |-> e, req |-> req, base |-> base]
      /\ last' = Nothing /\ spent' = 0 /\ doubt' = doubt
  BY DEF Begin
<1>2. cur'.ecu = e /\ cur'.base = base
  BY <1>1
<1> QED BY <1>1, <1>2 DEF Called!Ask, Called!Open, Nothing

LEMMA CallTimes ==
  ASSUME IInv
  PROVE  /\ spent \in Nat /\ deadline \in Nat /\ hard \in Nat /\ quiet \in Nat /\ end \in Nat
         /\ SettleMax \in Nat /\ HardBound(cur.base) \in Nat
         /\ Called!Limit = SettleMax + HardBound(cur.base)
<1>1. /\ spent \in Nat /\ deadline \in Nat /\ hard \in Nat /\ quiet \in Nat /\ end \in Nat
      /\ cur.base \in Timeouts
  BY DEF IInv, TypeOK
<1>2. cur.base \in Nat /\ SettleMax \in Nat /\ PendingMaxTotal \in Nat
  BY <1>1, TimesAssumption
<1>3. HardBound(cur.base) \in Nat
  BY <1>2 DEF HardBound, Greatest
<1>4. Called!Limit = SettleMax + HardBound(cur.base)
  BY <1>2 DEF Called!Limit, HardBound, Greatest
<1> QED BY <1>1, <1>2, <1>3, <1>4

\* A tick of a call that is not over is within its limit.
LEMMA WaitStep ==
  ASSUME IInv, Tick PROVE Called!Wait \/ UNCHANGED Called!transportVars
<1>1. UNCHANGED <<pc, cur, last, doubt>>
  BY DEF Tick
<1>2. CASE pc \in {"idle", "down"}
  <2>1. spent' = spent
    BY <1>2 DEF Tick
  <2> QED BY <1>1, <2>1, CallerSeesNothing
<1>3. CASE pc \in {"settling", "waiting"}
  <2>1. spent' = spent + 1
    BY <1>3 DEF Tick
  <2>2. spent < SettleMax + HardBound(cur.base)
    <3>1. CASE pc = "settling"
      <4>1. spent + end <= SettleMax
        BY <3>1 DEF IInv, Budget
      <4>2. Least(quiet, end) > 0
        BY <3>1 DEF Tick
      <4> QED BY <4>1, <4>2, CallTimes DEF Least
    <3>2. CASE pc = "waiting"
      <4>1. spent + hard <= SettleMax + HardBound(cur.base) /\ deadline <= hard
        BY <3>2 DEF IInv, Budget
      <4>2. deadline > 0
        BY <3>2 DEF Tick
      <4> QED BY <4>1, <4>2, CallTimes
    <3> QED BY <1>3, <3>1, <3>2
  <2>3. spent < Called!Limit
    BY <2>2, CallTimes
  <2> QED BY <1>1, <1>3, <2>1, <2>3 DEF Called!Wait
<1>4. pc \in {"idle", "down", "settling", "waiting"}
  BY DEF Tick
<1> QED BY <1>2, <1>3, <1>4

LEMMA AnswerStep ==
  ASSUME IInv, Kept, ReadAnswer PROVE Called!Answer
<1> DEFINE mine == Head(inbox).own
           marked == ambiguous /\ outstanding[cur.ecu] # NoRecord
<1>1. /\ pc = "waiting" /\ inbox # <<>> /\ UNCHANGED <<cur, spent>> /\ pc' = "idle"
      /\ last' = [kind |-> "answer", own |-> mine, flagged |-> marked]
      /\ doubt' = IF marked THEN [doubt EXCEPT ![cur.ecu] = FALSE] ELSE doubt
  BY DEF ReadAnswer, Fits, Return, callVars
<1>2. mine \in BOOLEAN
  BY <1>1, HeadInbox DEF IInv, TypeOK, Frame
<1>3. marked \in BOOLEAN
  BY DEF IInv, TypeOK
<1>4. mine \/ marked
  <2>1. ~last'.flagged => mine
    BY ReadsOwn
  <2>2. last'.flagged = marked
    BY Zenon, <1>1
  <2> QED BY <2>1, <2>2
<1>5. cur.ecu \in Ecus /\ doubt \in [Ecus -> BOOLEAN]
  BY DEF IInv, TypeOK
<1>6. marked => cur.ecu \in {e \in Ecus : doubt[e]}
  BY <1>1, <1>5 DEF IInv, Doubted
<1> HIDE DEF mine, marked
<1>7. {e \in Ecus : doubt'[e]}
        = IF marked THEN {e \in Ecus : doubt[e]} \ {cur.ecu} ELSE {e \in Ecus : doubt[e]}
  BY <1>1, <1>5
<1> QED BY <1>1, <1>2, <1>3, <1>4, <1>6, <1>7 DEF Called!Answer, Called!Ended

LEMMA RefuseStep == ASSUME IInv, ReadNegative PROVE Called!Refuse
<1>1. /\ pc = "waiting" /\ inbox # <<>> /\ UNCHANGED <<cur, spent, doubt>> /\ pc' = "idle"
      /\ last' = [kind |-> "negative", own |-> Head(inbox).own, flagged |-> FALSE]
  BY DEF ReadNegative, Fits, Return, callVars
<1>2. Head(inbox).own \in BOOLEAN
  BY <1>1, HeadInbox DEF IInv, TypeOK, Frame
<1> QED BY <1>1, <1>2 DEF Called!Refuse, Called!Ended

LEMMA GiveUpStep == ASSUME IInv, NotEarly, TimedOut PROVE Called!GiveUp
<1>1. /\ pc = "waiting" /\ deadline = 0 /\ UNCHANGED <<cur, spent>> /\ pc' = "idle"
      /\ last' = [kind |-> IF promised THEN "pending_timeout" ELSE "timeout",
                  own |-> TRUE, flagged |-> FALSE]
      /\ doubt' = [doubt EXCEPT ![cur.ecu] = TRUE]
  BY DEF TimedOut, Return, callVars
<1>2. ~promised => cur.base <= spent
  <2>1. cur.base \in Nat /\ spent \in Nat
    BY TimesAssumption DEF IInv, TypeOK
  <2> QED BY <1>1, <2>1 DEF NotEarly
<1>3. {e \in Ecus : doubt'[e]} = {e \in Ecus : doubt[e]} \cup {cur.ecu}
  BY <1>1 DEF IInv, TypeOK
<1> QED BY <1>1, <1>2, <1>3 DEF Called!GiveUp, Called!Ended

LEMMA OtherEndings ==
  /\ Nack => Called!Unroutable
  /\ LinkLost => Called!Lose
  /\ Connect => Called!Renew
<1>1. ASSUME Nack PROVE Called!Unroutable
  BY <1>1 DEF Nack, Return, callVars, Called!Unroutable, Called!Ended
<1>2. ASSUME LinkLost PROVE Called!Lose
  BY <1>2 DEF LinkLost, callVars, Called!Lose
<1>3. ASSUME Connect PROVE Called!Renew
  <2>1. {e \in Ecus : doubt'[e]} = {}
    BY <1>3 DEF Connect
  <2> QED BY <1>3, <2>1 DEF Connect, callVars, Called!Renew
<1> QED BY <1>1, <1>2, <1>3

LEMMA TransportStep ==
  ASSUME IInv, Kept, NotEarly, [Next]_vars
  PROVE  [Called!TransportNext]_(Called!transportVars)
<1>1. CASE \E e \in Ecus, req \in Requests, base \in Timeouts : Begin(e, req, base)
  BY <1>1, AskStep DEF Called!TransportNext
<1>2. CASE Tick
  BY <1>2, WaitStep DEF Called!TransportNext
<1>3. CASE ReadAnswer
  BY <1>3, AnswerStep DEF Called!TransportNext
<1>4. CASE ReadNegative
  BY <1>4, RefuseStep DEF Called!TransportNext
<1>5. CASE TimedOut
  BY <1>5, GiveUpStep DEF Called!TransportNext
<1>6. CASE Nack \/ LinkLost \/ Connect
  BY <1>6, OtherEndings DEF Called!TransportNext
<1>7. CASE Discard \/ SendNow \/ StartSettle \/ SettleRead \/ SettleAlive \/ SettleDone
           \/ ReadOrphan \/ ReadPending
  <2>1. UNCHANGED <<cur, spent, last, doubt>> /\ pc \in Calling /\ pc' \in Calling
    BY <1>7 DEF Discard, SendNow, StartSettle, SettleRead, SettleAlive, SettleDone, Send,
                ReadOrphan, ReadPending, Fits, callVars, Calling
  <2> QED BY <2>1, CallerSeesNothing
<1>8. ASSUME NEW e \in Ecus, EcuAnswer(e) \/ EcuPending(e) \/ EcuGivesUp(e)
      PROVE  UNCHANGED Called!transportVars
  <2>1. UNCHANGED <<pc, cur, spent, last, doubt>>
    BY <1>8 DEF EcuAnswer, EcuPending, EcuGivesUp, callVars
  <2> QED BY <2>1, CallerSeesNothing
<1>9. CASE UNCHANGED vars
  BY <1>9, CallerSeesNothing DEF vars, callVars
<1> QED BY <1>1, <1>2, <1>3, <1>4, <1>5, <1>6, <1>7, <1>8, <1>9 DEF Next, ClientStep

\* To its caller the client is a Transport, for every number of ECUs of the kind
\* it can attribute, all requests and timings: every step is one of the
\* transport's or nothing the caller sees (live.py:1023-1179).
THEOREM ClientIsTransport ==
  ASSUME Patient, Attributable
  PROVE  Spec => TransportSpec
<1> DEFINE Inv == IInv /\ Kept /\ NotEarly
<1>1. Setting
  BY DEF Setting
<1>2. Init => Inv
  BY InitInv, KeptInit DEF NotEarly, Init
<1>3. Inv /\ [Next]_vars => Inv'
  BY <1>1, StepInv, KeptStep, NotEarlyStep
<1>4. Init => Called!TransportInit
  <2> SUFFICES ASSUME Init PROVE Called!TransportInit
    OBVIOUS
  <2>1. {e \in Ecus : doubt[e]} = {}
    BY DEF Init
  <2>2. cur.ecu \in Ecus /\ cur.base \in Timeouts
    BY DEF Init
  <2> QED BY <2>1, <2>2 DEF Init, Called!TransportInit, Called!Open, Nothing
<1>5. Inv /\ [Next]_vars => [Called!TransportNext]_(Called!transportVars)
  BY TransportStep
<1> HIDE DEF Inv
<1> QED BY <1>2, <1>3, <1>4, <1>5, PTL DEF Spec, TransportSpec, Called!TransportSpec
=============================================================================
