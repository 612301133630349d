-------------------------- MODULE HsfzClientProofs --------------------------
(***************************************************************************)
(* For every set of ECUs and requests, every timing constant and every     *)
(* behaviour of the ECUs: the state is well typed, a call is bounded, and  *)
(* a flag is paid for by a timeout.                                        *)
(***************************************************************************)
EXTENDS HsfzClient, SequenceTheorems, TLAPS

Ledger == [Ecus -> Record \cup {NoRecord}]

\* What the deadlines still allow, plus what was spent, stays in the bound.
Budget ==
  /\ pc = "discarding" => spent = 0
  /\ pc = "settling" => spent + end <= SettleMax
  /\ pc = "waiting" => /\ spent + hard <= SettleMax + HardBound(cur.base)
                       /\ deadline <= hard
                       /\ hard <= HardBound(cur.base)

\* An unanswered record, and a call sent beside one, stem from a timeout
\* that no flag was raised for yet.
Doubted ==
  /\ \A e \in Ecus : outstanding[e] # NoRecord /\ ~outstanding[e].answered
                       => doubt[e]
  /\ pc = "waiting" /\ ambiguous => doubt[cur.ecu]

IInv == TypeOK /\ Budget /\ Doubted

-----------------------------------------------------------------------------
(* The ledger's operators keep its type, and never make a record           *)
(* unanswered.                                                             *)

LEMMA HardBoundType ==
  ASSUME NEW base \in Timeouts
  PROVE  HardBound(base) \in Nat /\ base <= HardBound(base)
BY TimesAssumption DEF HardBound, Greatest

LEMMA ExpireType ==
  ASSUME NEW l \in Ledger, NEW e \in Ecus
  PROVE  /\ Expire(l, e) \in Ledger
         /\ \A x \in Ecus : Expire(l, e)[x] \in {l[x], NoRecord}
BY DEF Expire, Ledger

LEMMA OrphanType ==
  ASSUME NEW l \in Ledger, NEW f \in Frame
  PROVE  /\ AfterOrphan(l, f) \in Ledger
         /\ \A x \in Ecus :
              AfterOrphan(l, f)[x] # NoRecord =>
                /\ l[x] # NoRecord
                /\ AfterOrphan(l, f)[x].answered = l[x].answered
<1> DEFINE m == Expire(l, f.ecu)
           outcome == IF m[f.ecu] = NoRecord THEN FOREIGN
                      ELSE Classify(m[f.ecu].req, f)
<1>1. f.ecu \in Ecus
  BY DEF Frame
<1>2. /\ m \in Ledger
      /\ \A x \in Ecus : m[x] \in {l[x], NoRecord}
  BY <1>1, ExpireType
<1>3. AfterOrphan(l, f) =
        IF outcome = PENDING
          THEN [m EXCEPT ![f.ecu] = [@ EXCEPT !.age = 0, !.promised = TRUE]]
        ELSE IF outcome = FOREIGN
          THEN m
        ELSE [m EXCEPT ![f.ecu] = NoRecord]
  BY DEF AfterOrphan
<1>4. outcome = PENDING => m[f.ecu] # NoRecord
  BY DEF PENDING, FOREIGN
<1>5. m[f.ecu] # NoRecord => m[f.ecu] \in Record
  BY <1>1, <1>2 DEF Ledger
<1> HIDE DEF m, outcome
<1>6. CASE outcome = PENDING
  <2>1. AfterOrphan(l, f) =
          [m EXCEPT ![f.ecu] = [m[f.ecu] EXCEPT !.age = 0, !.promised = TRUE]]
    BY <1>3, <1>6, <1>1, <1>2 DEF Ledger
  <2>2. /\ [m[f.ecu] EXCEPT !.age = 0, !.promised = TRUE] \in Record
        /\ [m[f.ecu] EXCEPT !.age = 0, !.promised = TRUE].answered
             = m[f.ecu].answered
    BY <1>4, <1>5, <1>6 DEF Record
  <2> QED
    BY <2>1, <2>2, <1>1, <1>2, <1>4, <1>6 DEF Ledger
<1>7. CASE outcome # PENDING /\ outcome = FOREIGN
  BY <1>2, <1>3, <1>7 DEF Ledger
<1>8. CASE outcome # PENDING /\ outcome # FOREIGN
  <2>1. AfterOrphan(l, f) = [m EXCEPT ![f.ecu] = NoRecord]
    BY <1>3, <1>8
  <2> QED
    BY <2>1, <1>1, <1>2 DEF Ledger
<1> QED
  BY <1>6, <1>7, <1>8

LEMMA AnswerType ==
  ASSUME NEW l \in Ledger, NEW e \in Ecus
  PROVE  /\ AfterAnswer(l, e) \in Ledger
         /\ \A x \in Ecus : AfterAnswer(l, e)[x] \in {l[x], NoRecord}
BY DEF AfterAnswer, Ledger

LEMMA TimeoutType ==
  ASSUME NEW l \in Ledger, NEW e \in Ecus, NEW req \in Requests,
         NEW pend \in BOOLEAN
  PROVE  /\ AfterTimeout(l, e, req, pend) \in Ledger
         /\ \A x \in Ecus \ {e} : AfterTimeout(l, e, req, pend)[x] = l[x]
BY DEF AfterTimeout, Ledger, Record

LEMMA AmbiguousType ==
  ASSUME NEW l \in Ledger, NEW e \in Ecus, NEW req \in Requests,
         NEW age \in Nat
  PROVE  /\ AfterAmbiguous(l, e, req, age) \in Ledger
         /\ AfterAmbiguous(l, e, req, age)[e].answered
         /\ \A x \in Ecus \ {e} : AfterAmbiguous(l, e, req, age)[x] = l[x]
BY DEF AfterAmbiguous, Ledger, Record

LEMMA DisownedType ==
  /\ \A s \in Seq(Frame) : Disowned(s) \in Seq(Frame)
  /\ \A s \in Seq(Held) : Disowned(s) \in Seq(Held)
<1>1. ASSUME NEW s \in Seq(Frame)
      PROVE  Disowned(s) \in Seq(Frame)
  <2>1. \A i \in DOMAIN s : s[i] \in Frame
    BY <1>1
  <2>2. \A i \in DOMAIN s : [s[i] EXCEPT !.own = FALSE] \in Frame
    BY <2>1 DEF Frame
  <2> QED
    BY <2>2, IsASeq DEF Disowned
<1>2. ASSUME NEW s \in Seq(Held)
      PROVE  Disowned(s) \in Seq(Held)
  <2>1. \A i \in DOMAIN s : s[i] \in Held
    BY <1>2
  <2>2. \A i \in DOMAIN s : [s[i] EXCEPT !.own = FALSE] \in Held
    BY <2>1 DEF Held
  <2> QED
    BY <2>2, IsASeq DEF Disowned
<1> QED
  BY <1>1, <1>2

LEMMA OlderType ==
  ASSUME NEW s \in Seq(Held), \A i \in DOMAIN s : s[i].left > 0
  PROVE  Older(s) \in Seq(Held)
<1>1. \A i \in DOMAIN s : s[i] \in Held
  OBVIOUS
<1>2. \A i \in DOMAIN s : [s[i] EXCEPT !.left = @ - 1] \in Held
  BY <1>1 DEF Held
<1> QED
  BY <1>2, IsASeq DEF Older

-----------------------------------------------------------------------------
LEMMA InitInv == Init => IInv
<1> SUFFICES ASSUME Init PROVE IInv
  OBVIOUS
<1>1. TypeOK
  BY EmptySeq DEF Init, TypeOK, Nothing, Outcome
<1>2. Budget /\ Doubted
  BY DEF Init, Budget, Doubted
<1> QED
  BY <1>1, <1>2 DEF IInv

\* Where a call begins, and where it reads nothing but orphans.
LEMMA BeginInv ==
  ASSUME IInv, NEW e \in Ecus, NEW req \in Requests, NEW base \in Timeouts,
         Begin(e, req, base)
  PROVE  IInv'
<1> USE DEF IInv
<1>1. inbox' \in Seq(Frame) /\ ecu' \in [Ecus -> Seq(Held)]
  BY DisownedType DEF Begin, TypeOK
<1>2. TypeOK'
  BY <1>1 DEF Begin, TypeOK, Nothing, Outcome, settleVars
<1>3. Budget'
  BY DEF Begin, Budget
<1>4. Doubted'
  BY DEF Begin, Doubted, TypeOK, settleVars
<1> QED
  BY <1>2, <1>3, <1>4

LEMMA HeadInbox ==
  ASSUME TypeOK, inbox # <<>>
  PROVE  Head(inbox) \in Frame /\ Tail(inbox) \in Seq(Frame)
BY HeadTailProperties DEF TypeOK

\* An orphan read leaves no record that was not there before.
LEMMA ReadInv ==
  ASSUME IInv, inbox # <<>>,
         outstanding' = AfterOrphan(outstanding, Head(inbox)),
         inbox' = Tail(inbox)
  PROVE  /\ outstanding' \in Ledger
         /\ inbox' \in Seq(Frame)
         /\ \A e \in Ecus : outstanding'[e] # NoRecord
                              /\ ~outstanding'[e].answered => doubt[e]
<1>1. outstanding \in Ledger
  BY DEF IInv, TypeOK, Ledger
<1>2. Head(inbox) \in Frame /\ Tail(inbox) \in Seq(Frame)
  BY HeadInbox DEF IInv
<1> QED
  BY <1>1, <1>2, OrphanType DEF IInv, Doubted

LEMMA OrphanInv ==
  ASSUME IInv, Discard \/ SettleRead \/ ReadOrphan
  PROVE  IInv'
<1> USE DEF IInv
<1>1. CASE Discard
  <2>1. /\ outstanding' \in Ledger
        /\ inbox' \in Seq(Frame)
        /\ \A e \in Ecus : outstanding'[e] # NoRecord
                             /\ ~outstanding'[e].answered => doubt[e]
    BY <1>1, ReadInv DEF Discard
  <2>2. TypeOK'
    BY <1>1, <2>1 DEF Discard, TypeOK, callVars, settleVars, Ledger
  <2> QED
    BY <1>1, <2>1, <2>2 DEF Discard, Budget, Doubted, callVars, settleVars
<1>2. CASE SettleRead
  <2>1. /\ outstanding' \in Ledger
        /\ inbox' \in Seq(Frame)
        /\ \A e \in Ecus : outstanding'[e] # NoRecord
                             /\ ~outstanding'[e].answered => doubt[e]
    BY <1>2, ReadInv DEF SettleRead
  <2>2. TypeOK'
    BY <1>2, <2>1, TimesAssumption DEF SettleRead, TypeOK, callVars, Ledger
  <2> QED
    BY <1>2, <2>1, <2>2 DEF SettleRead, Budget, Doubted, callVars
<1>3. CASE ReadOrphan
  <2>1. /\ outstanding' \in Ledger
        /\ inbox' \in Seq(Frame)
        /\ \A e \in Ecus : outstanding'[e] # NoRecord
                             /\ ~outstanding'[e].answered => doubt[e]
    BY <1>3, ReadInv DEF ReadOrphan
  <2>2. TypeOK'
    BY <1>3, <2>1 DEF ReadOrphan, TypeOK, callVars, settleVars, Ledger
  <2> QED
    BY <1>3, <2>1, <2>2 DEF ReadOrphan, Budget, Doubted, callVars, settleVars
<1> QED
  BY <1>1, <1>2, <1>3

\* Where the request is sent, within the budget of the settle window.
LEMMA SendInv ==
  ASSUME IInv, NEW amb \in BOOLEAN, Send(amb),
         outstanding' \in Ledger,
         \A e \in Ecus : outstanding'[e] # NoRecord
                           /\ ~outstanding'[e].answered => doubt[e],
         amb => doubt[cur.ecu], spent <= SettleMax, UNCHANGED settleVars
  PROVE  IInv'
<1> USE DEF IInv
<1>1. /\ cur.ecu \in Ecus /\ cur.req \in Requests /\ cur.base \in Timeouts
      /\ HardBound(cur.base) \in Nat /\ cur.base <= HardBound(cur.base)
  BY HardBoundType DEF TypeOK
<1>2. [req |-> cur.req, left |-> Latency, notices |-> 0, own |-> TRUE] \in Held
  BY <1>1, EcuAssumption DEF Held
<1>3. ecu' \in [Ecus -> Seq(Held)]
  <2>1. ecu[cur.ecu] \in Seq(Held)
    BY <1>1 DEF TypeOK
  <2>2. Append(ecu[cur.ecu], [req |-> cur.req, left |-> Latency,
                              notices |-> 0, own |-> TRUE]) \in Seq(Held)
    BY <2>1, <1>2, AppendProperties
  <2> QED
    BY <2>2, <1>1 DEF Send, TypeOK
<1>4. TypeOK'
  BY <1>1, <1>3, TimesAssumption DEF Send, TypeOK, settleVars, Ledger
<1>5. Budget'
  BY <1>1, TimesAssumption DEF Send, Budget, TypeOK
<1>6. Doubted'
  BY DEF Send, Doubted
<1> QED
  BY <1>4, <1>5, <1>6

LEMMA SendNowInv ==
  ASSUME IInv, SendNow
  PROVE  IInv'
<1> USE DEF IInv
<1> DEFINE ledger == Expire(outstanding, cur.ecu)
           record == ledger[cur.ecu]
<1>1. cur.ecu \in Ecus /\ outstanding \in Ledger
  BY DEF TypeOK, Ledger
<1>2. /\ ledger \in Ledger
      /\ \A x \in Ecus : ledger[x] \in {outstanding[x], NoRecord}
  BY <1>1, ExpireType
<1>3. \A x \in Ecus : ledger[x] # NoRecord /\ ~ledger[x].answered => doubt[x]
  BY <1>2 DEF Doubted
<1>4. /\ outstanding' = ledger
      /\ UNCHANGED settleVars
      /\ \/ Send(FALSE)
         \/ record # NoRecord /\ Send(Ambiguous(record, cur.req))
  BY DEF SendNow
<1>5. spent <= SettleMax
  BY TimesAssumption DEF SendNow, Budget
<1> HIDE DEF ledger
<1>6. CASE Send(FALSE)
  BY <1>2, <1>3, <1>4, <1>5, <1>6, SendInv
<1>7. CASE record # NoRecord /\ Send(Ambiguous(record, cur.req))
  <2>1. Ambiguous(record, cur.req) \in BOOLEAN
    BY DEF Ambiguous
  <2>2. Ambiguous(record, cur.req) => doubt[cur.ecu]
    BY <1>1, <1>3, <1>7 DEF Ambiguous
  <2> QED
    BY <1>2, <1>3, <1>4, <1>5, <1>7, <2>1, <2>2, SendInv
<1> QED
  BY <1>4, <1>6, <1>7

LEMMA StartSettleInv ==
  ASSUME IInv, StartSettle
  PROVE  IInv'
<1> USE DEF IInv
<1> DEFINE ledger == Expire(outstanding, cur.ecu)
<1>1. cur.ecu \in Ecus /\ outstanding \in Ledger
  BY DEF TypeOK, Ledger
<1>2. /\ ledger \in Ledger
      /\ \A x \in Ecus : ledger[x] \in {outstanding[x], NoRecord}
  BY <1>1, ExpireType
<1>3. /\ ledger[cur.ecu] # NoRecord
      /\ outstanding' = [ledger EXCEPT ![cur.ecu] =
                           [ledger[cur.ecu] EXCEPT !.settled = TRUE]]
  BY DEF StartSettle
<1> HIDE DEF ledger
<1>4. ledger[cur.ecu] \in Record
  BY <1>1, <1>2, <1>3 DEF Ledger
<1>5. /\ [ledger[cur.ecu] EXCEPT !.settled = TRUE] \in Record
      /\ [ledger[cur.ecu] EXCEPT !.settled = TRUE].answered
           = ledger[cur.ecu].answered
  BY <1>4 DEF Record
<1>6. outstanding' \in Ledger
  BY <1>1, <1>2, <1>3, <1>5 DEF Ledger
<1>7. \A x \in Ecus : outstanding'[x] # NoRecord /\ ~outstanding'[x].answered
                        => doubt[x]
  BY <1>1, <1>2, <1>3, <1>5 DEF Doubted, Ledger
<1>8. TypeOK'
  BY <1>6, TimesAssumption DEF StartSettle, TypeOK, Ledger, callVars
<1>9. Budget' /\ Doubted'
  BY <1>7, TimesAssumption DEF StartSettle, Budget, Doubted, callVars
<1> QED
  BY <1>8, <1>9

LEMMA SettleDoneInv ==
  ASSUME IInv, SettleDone
  PROVE  IInv'
<1> USE DEF IInv
<1> DEFINE record == outstanding[cur.ecu]
           amb == record # NoRecord /\ Ambiguous(record, cur.req)
<1>1. /\ Send(amb)
      /\ UNCHANGED settleVars
      /\ outstanding' = outstanding
      /\ amb \in BOOLEAN
  BY DEF SettleDone
<1>2. amb => doubt[cur.ecu]
  BY DEF Ambiguous, Doubted, TypeOK
<1>3. spent <= SettleMax
  BY TimesAssumption DEF SettleDone, Budget, TypeOK
<1>4. outstanding' \in Ledger
  BY <1>1 DEF TypeOK, Ledger
<1>5. \A e \in Ecus : outstanding'[e] # NoRecord /\ ~outstanding'[e].answered
                        => doubt[e]
  BY <1>1 DEF Doubted
<1> HIDE DEF amb
<1> QED
  BY <1>1, <1>2, <1>3, <1>4, <1>5, SendInv

\* Where the call goes on or ends.
LEMMA ReadPendingInv ==
  ASSUME IInv, ReadPending
  PROVE  IInv'
<1> USE DEF IInv
<1>1. inbox' \in Seq(Frame)
  BY HeadInbox DEF ReadPending, Fits
<1>2. deadline' \in Nat /\ deadline' <= hard
  BY TimesAssumption DEF ReadPending, Extended, Least, TypeOK
<1>3. TypeOK'
  BY <1>1, <1>2 DEF ReadPending, Fits, TypeOK, settleVars
<1>4. Budget' /\ Doubted'
  BY <1>2 DEF ReadPending, Fits, Budget, Doubted
<1> QED
  BY <1>3, <1>4

LEMMA ReadNegativeInv ==
  ASSUME IInv, ReadNegative
  PROVE  IInv'
<1> USE DEF IInv
<1>1. /\ inbox' \in Seq(Frame)
      /\ Head(inbox).own \in BOOLEAN
  BY HeadInbox DEF ReadNegative, Fits, Frame
<1>2. TypeOK'
  BY <1>1 DEF ReadNegative, Fits, Return, TypeOK, callVars, settleVars, Outcome
<1>3. Budget' /\ Doubted'
  BY DEF ReadNegative, Fits, Return, Budget, Doubted
<1> QED
  BY <1>2, <1>3

LEMMA ReadAnswerInv ==
  ASSUME IInv, ReadAnswer
  PROVE  IInv'
<1> USE DEF IInv
<1> DEFINE e == cur.ecu
           flagged == ambiguous /\ outstanding[e] # NoRecord
           age == HardBound(cur.base) - hard
<1>1. /\ inbox' \in Seq(Frame)
      /\ Head(inbox).own \in BOOLEAN
  BY HeadInbox DEF ReadAnswer, Fits, Frame
<1>2. /\ e \in Ecus /\ cur.req \in Requests /\ cur.base \in Timeouts
      /\ outstanding \in Ledger /\ doubt \in [Ecus -> BOOLEAN]
  BY DEF TypeOK, Ledger
<1>3. /\ pc = "waiting" /\ pc' = "idle"
      /\ last' = [kind |-> "answer", own |-> Head(inbox).own,
                  flagged |-> flagged]
      /\ outstanding' = IF flagged
                          THEN AfterAmbiguous(outstanding, e, cur.req, age)
                          ELSE AfterAnswer(outstanding, e)
      /\ doubt' = IF flagged THEN [doubt EXCEPT ![e] = FALSE] ELSE doubt
      /\ UNCHANGED <<callVars, settleVars, ecu, spent>>
  BY DEF ReadAnswer, Fits, Return
<1>4. flagged \in BOOLEAN
  OBVIOUS
<1>5. outstanding' \in Ledger /\ doubt' \in [Ecus -> BOOLEAN]
      /\ \A x \in Ecus : outstanding'[x] # NoRecord /\ ~outstanding'[x].answered
                           => doubt'[x]
  <2>1. CASE flagged
    <3>1. age \in Nat
      <4>1. HardBound(cur.base) \in Nat /\ hard \in Nat
        BY <1>2, HardBoundType DEF TypeOK
      <4>2. hard <= HardBound(cur.base)
        BY DEF ReadAnswer, Fits, Budget
      <4> QED
        BY <4>1, <4>2
    <3>2. /\ outstanding' = AfterAmbiguous(outstanding, e, cur.req, age)
          /\ doubt' = [doubt EXCEPT ![e] = FALSE]
      BY <1>3, <2>1
    <3> HIDE DEF age
    <3>3. /\ outstanding' \in Ledger
          /\ outstanding'[e].answered
          /\ \A x \in Ecus \ {e} : outstanding'[x] = outstanding[x]
      BY <1>2, <3>1, <3>2, AmbiguousType
    <3> QED
      BY <1>2, <3>2, <3>3 DEF Doubted
  <2>2. CASE ~flagged
    <3>1. outstanding' = AfterAnswer(outstanding, e) /\ doubt' = doubt
      BY <1>3, <2>2
    <3>2. /\ outstanding' \in Ledger
          /\ \A x \in Ecus : outstanding'[x] \in {outstanding[x], NoRecord}
      BY <1>2, <3>1, AnswerType
    <3> QED
      BY <1>2, <3>1, <3>2 DEF Doubted
  <2> QED
    BY <2>1, <2>2
<1> HIDE DEF flagged
<1>6. TypeOK'
  BY <1>1, <1>3, <1>4, <1>5 DEF TypeOK, Ledger, callVars, settleVars, Outcome
<1>7. Budget' /\ Doubted'
  BY <1>3, <1>5 DEF Budget, Doubted
<1> QED
  BY <1>6, <1>7

LEMMA TimedOutInv ==
  ASSUME IInv, TimedOut
  PROVE  IInv'
<1> USE DEF IInv
<1>1. /\ cur.ecu \in Ecus /\ cur.req \in Requests /\ promised \in BOOLEAN
      /\ outstanding \in Ledger /\ doubt \in [Ecus -> BOOLEAN]
  BY DEF TypeOK, Ledger
<1>2. /\ outstanding' \in Ledger
      /\ \A x \in Ecus \ {cur.ecu} : outstanding'[x] = outstanding[x]
  BY <1>1, TimeoutType DEF TimedOut
<1>3. doubt' = [doubt EXCEPT ![cur.ecu] = TRUE]
  BY DEF TimedOut
<1>4. TypeOK'
  BY <1>1, <1>2, <1>3
     DEF TimedOut, Return, TypeOK, Ledger, callVars, settleVars, Outcome
<1>5. Doubted'
  BY <1>1, <1>2, <1>3 DEF TimedOut, Return, Doubted
<1>6. Budget'
  BY DEF TimedOut, Return, Budget
<1> QED
  BY <1>4, <1>5, <1>6

LEMMA OtherClientInv ==
  ASSUME IInv, SettleAlive \/ Nack \/ LinkLost \/ Connect
  PROVE  IInv'
<1> USE DEF IInv
<1>1. CASE SettleAlive
  <2>1. TypeOK'
    BY <1>1, TimesAssumption DEF SettleAlive, TypeOK, callVars
  <2> QED
    BY <1>1, <2>1 DEF SettleAlive, Budget, Doubted, callVars
<1>2. CASE Nack
  <2>1. TypeOK'
    BY <1>2 DEF Nack, Return, TypeOK, callVars, settleVars, Outcome
  <2> QED
    BY <1>2, <2>1 DEF Nack, Return, Budget, Doubted
<1>3. CASE LinkLost
  <2>1. TypeOK'
    BY <1>3 DEF LinkLost, TypeOK, callVars, settleVars, Outcome
  <2> QED
    BY <1>3, <2>1 DEF LinkLost, Budget, Doubted
<1>4. CASE Connect
  <2>1. TypeOK'
    BY <1>4, EmptySeq DEF Connect, TypeOK, callVars, settleVars
  <2> QED
    BY <1>4, <2>1 DEF Connect, Budget, Doubted
<1> QED
  BY <1>1, <1>2, <1>3, <1>4

\* The environment's steps touch the buffer and what the ECUs hold.
LEMMA BodyType ==
  ASSUME NEW e \in Ecus, NEW h \in Held, NEW id \in Ids \cup {NoId},
         NEW kind \in {"positive", "negative", "pending"}
  PROVE  Body(e, h, kind, id) \in Frame
<1>1. h.req \in Requests /\ h.own \in BOOLEAN
  BY DEF Held
<1>2. h.req.service \in Services
  BY <1>1, RequestsAssumption
<1> QED
  BY <1>1, <1>2 DEF Body, Frame

LEMMA ReceiveType ==
  ASSUME TypeOK, NEW f \in Frame, Receive(f)
  PROVE  inbox' \in Seq(Frame)
BY AppendProperties DEF Receive, TypeOK

LEMMA PromisedType ==
  ASSUME NEW h \in Held
  PROVE  Promised(h) \in Held
<1>1. NoticeLatency \in Nat /\ h.notices + 1 \in Nat
  BY EcuAssumption DEF Held
<1> QED
  BY <1>1 DEF Held, Promised

LEMMA EcuInv ==
  ASSUME IInv, NEW e \in Ecus, EcuAnswer(e) \/ EcuPending(e) \/ EcuGivesUp(e)
  PROVE  IInv'
<1> USE DEF IInv
<1>1. ecu[e] \in Seq(Held)
  BY DEF TypeOK
<1>2. ecu[e] # <<>> => Head(ecu[e]) \in Held /\ Tail(ecu[e]) \in Seq(Held)
  BY <1>1, HeadTailProperties
<1>3. CASE EcuAnswer(e)
  <2>1. ecu' \in [Ecus -> Seq(Held)]
    BY <1>2, <1>3 DEF EcuAnswer, TypeOK
  <2>2. inbox' \in Seq(Frame)
    <3> DEFINE h == Head(ecu[e])
    <3>1. h \in Held
      BY <1>2, <1>3 DEF EcuAnswer
    <3>2. (IF h.req.echo = {} THEN Ids ELSE h.req.echo) \subseteq Ids
      BY <3>1, RequestsAssumption DEF Held
    <3>3. \/ \E id \in IF h.req.echo = {} THEN Ids ELSE h.req.echo :
               Receive(Body(e, h, "positive", id))
          \/ Receive(Body(e, h, "negative", NoId))
      BY <1>3 DEF EcuAnswer
    <3> HIDE DEF h
    <3>4. \E id \in Ids \cup {NoId}, kind \in {"positive", "negative", "pending"} :
            Receive(Body(e, h, kind, id))
      BY <3>2, <3>3
    <3> QED
      BY <3>1, <3>4, BodyType, ReceiveType
  <2>3. TypeOK'
    BY <1>3, <2>1, <2>2 DEF EcuAnswer, TypeOK, callVars, settleVars
  <2> QED
    BY <1>3, <2>3 DEF EcuAnswer, Budget, Doubted, callVars, settleVars
<1>4. CASE EcuPending(e)
  <2> DEFINE h == Head(ecu[e])
  <2>1. h \in Held /\ ecu[e] # <<>> /\ Receive(Body(e, h, "pending", NoId))
    BY <1>2, <1>4 DEF EcuPending
  <2>2. inbox' \in Seq(Frame)
    BY <2>1, BodyType, ReceiveType
  <2>3. Promised(h) \in Held
    BY <2>1, PromisedType
  <2>4. <<Promised(h)>> \o Tail(ecu[e]) \in Seq(Held)
    BY <1>2, <2>1, <2>3, ConcatProperties
  <2>5. ecu' = [ecu EXCEPT ![e] = <<Promised(h)>> \o Tail(ecu[e])]
    BY <1>4 DEF EcuPending
  <2>6. ecu' \in [Ecus -> Seq(Held)]
    BY <2>4, <2>5 DEF TypeOK
  <2>7. TypeOK'
    BY <1>4, <2>2, <2>6 DEF EcuPending, TypeOK, callVars, settleVars
  <2> QED
    BY <1>4, <2>7 DEF EcuPending, Budget, Doubted, callVars, settleVars
<1>5. CASE EcuGivesUp(e)
  <2>1. ecu[e] # <<>>
    BY <1>1, <1>5 DEF EcuGivesUp
  <2>2. ecu' \in [Ecus -> Seq(Held)]
    BY <1>2, <1>5, <2>1 DEF EcuGivesUp, TypeOK
  <2>3. TypeOK'
    BY <1>5, <2>2 DEF EcuGivesUp, TypeOK, callVars, settleVars
  <2> QED
    BY <1>5, <2>3 DEF EcuGivesUp, Budget, Doubted, callVars, settleVars
<1> QED
  BY <1>3, <1>4, <1>5

LEMMA AgedType ==
  ASSUME NEW r \in Record \cup {NoRecord}
  PROVE  /\ Aged(r) \in Record \cup {NoRecord}
         /\ Aged(r) # NoRecord => r # NoRecord /\ Aged(r).answered = r.answered
<1>1. CASE r = NoRecord
  BY <1>1 DEF Aged
<1>2. CASE r # NoRecord
  <2>1. r \in Record /\ r.age \in Nat
    BY <1>2 DEF Record
  <2>2. Least(r.age + 1, PendingMaxTotal + 1) \in Nat
    BY <2>1, TimesAssumption DEF Least
  <2>3. Aged(r) = [r EXCEPT !.age = Least(r.age + 1, PendingMaxTotal + 1)]
    BY <1>2 DEF Aged
  <2> QED
    BY <1>2, <2>1, <2>2, <2>3 DEF Record
<1> QED
  BY <1>1, <1>2

LEMMA TickInv ==
  ASSUME IInv, Tick
  PROVE  IInv'
<1> USE DEF IInv
<1>1. ecu' \in [Ecus -> Seq(Held)]
  BY OlderType DEF Tick, TypeOK
<1>2. /\ outstanding' \in Ledger
      /\ \A e \in Ecus : outstanding'[e] # NoRecord /\ ~outstanding'[e].answered
                           => doubt[e]
  BY AgedType DEF Tick, TypeOK, Ledger, Doubted
<1>3. CASE pc \in {"idle", "down"} /\ UNCHANGED <<deadline, hard, settleVars, spent>>
  <2>1. TypeOK'
    BY <1>1, <1>2, <1>3 DEF Tick, TypeOK, Ledger, settleVars
  <2> QED
    BY <1>2, <1>3, <2>1 DEF Tick, Budget, Doubted
<1>4. CASE /\ pc = "settling" /\ Least(quiet, end) > 0
           /\ quiet' = quiet - 1 /\ end' = end - 1 /\ spent' = spent + 1
           /\ UNCHANGED <<deadline, hard>>
  <2>1. quiet' \in Nat /\ end' \in Nat /\ spent' \in Nat
    BY <1>4 DEF TypeOK, Least
  <2>2. TypeOK'
    BY <1>1, <1>2, <1>4, <2>1 DEF Tick, TypeOK, Ledger
  <2>3. Budget'
    BY <1>4, TimesAssumption DEF Tick, Budget, TypeOK
  <2> QED
    BY <1>2, <1>4, <2>2, <2>3 DEF Tick, Doubted
<1>5. CASE /\ pc = "waiting" /\ deadline > 0
           /\ deadline' = deadline - 1 /\ hard' = hard - 1 /\ spent' = spent + 1
           /\ UNCHANGED settleVars
  <2>0. HardBound(cur.base) \in Nat
    BY HardBoundType DEF TypeOK
  <2>1. deadline' \in Nat /\ hard' \in Nat /\ spent' \in Nat
    BY <1>5 DEF TypeOK, Budget
  <2>2. TypeOK'
    BY <1>1, <1>2, <1>5, <2>1 DEF Tick, TypeOK, Ledger, settleVars
  <2>3. Budget'
    BY <1>5, <2>0, TimesAssumption DEF Tick, Budget, TypeOK
  <2> QED
    BY <1>2, <1>5, <2>2, <2>3 DEF Tick, Doubted
<1> QED
  BY <1>3, <1>4, <1>5 DEF Tick

-----------------------------------------------------------------------------
LEMMA StepInv == IInv /\ [Next]_vars => IInv'
<1> SUFFICES ASSUME IInv, [Next]_vars PROVE IInv'
  OBVIOUS
<1>1. CASE UNCHANGED vars
  BY <1>1 DEF IInv, TypeOK, Budget, Doubted, vars, callVars, settleVars
<1>2. ASSUME NEW e \in Ecus, NEW req \in Requests, NEW base \in Timeouts,
             Begin(e, req, base)
      PROVE  IInv'
  BY <1>2, BeginInv
<1>3. CASE ClientStep
  BY <1>3, OrphanInv, SendNowInv, StartSettleInv, SettleDoneInv,
     ReadPendingInv, ReadNegativeInv, ReadAnswerInv, TimedOutInv DEF ClientStep
<1>4. CASE SettleAlive \/ Nack \/ LinkLost \/ Connect
  BY <1>4, OtherClientInv
<1>5. ASSUME NEW e \in Ecus, EcuAnswer(e) \/ EcuPending(e) \/ EcuGivesUp(e)
      PROVE  IInv'
  BY <1>5, EcuInv
<1>6. CASE Tick
  BY <1>6, TickInv
<1> QED
  BY <1>1, <1>2, <1>3, <1>4, <1>5, <1>6 DEF Next

\* IInv holds in every reachable state.
LEMMA Inductive == Spec => []IInv
  BY InitInv, StepInv, PTL DEF Spec

\* Type correctness: in particular no clock of the client ever runs below
\* zero, so none of its waits is negative (live.py HsfzClient).
THEOREM TypeCorrect == Spec => []TypeOK
<1>1. IInv => TypeOK
  BY DEF IInv
<1> QED
  BY <1>1, Inductive, PTL

\* However many frames, alive checks and responsePendings arrive, and for
\* every value of the timing constants, request() is over within one settle
\* window and one absolute deadline (live.py:475-481, 859-911, 1045-1049).
THEOREM CallsAreBounded == Spec => []CallBounded
<1>1. IInv => CallBounded
  <2> SUFFICES ASSUME IInv, pc \in {"discarding", "settling", "waiting"}
               PROVE  spent <= SettleMax + HardBound(cur.base)
    BY DEF CallBounded
  <2>1. HardBound(cur.base) \in Nat /\ SettleMax \in Nat
    BY HardBoundType, TimesAssumption DEF IInv, TypeOK
  <2> QED
    BY <2>1 DEF IInv, TypeOK, Budget
<1> QED
  BY <1>1, Inductive, PTL

\* Between two flagged answers of an ECU lies a timeout of that ECU: the
\* record kept for attribution never flags (live.py:913-923).
THEOREM FlagsNeedTimeouts == Spec => FlagNeedsTimeout
<1>1. IInv /\ [Next]_vars => [last'.flagged /\ ~last.flagged => doubt[cur.ecu]]_vars
  <2> SUFFICES ASSUME IInv, Next, last'.flagged, ~last.flagged
               PROVE  doubt[cur.ecu]
    OBVIOUS
  <2>1. ReadAnswer \/ ~last'.flagged
    <3>1. ASSUME NEW e \in Ecus, NEW req \in Requests, NEW base \in Timeouts,
                 Begin(e, req, base)
          PROVE  ~last'.flagged
      BY <3>1 DEF Begin, Nothing
    <3>2. CASE \/ Discard \/ SendNow \/ StartSettle \/ SettleRead \/ SettleDone
               \/ ReadOrphan \/ ReadPending
      BY <3>2 DEF Discard, SendNow, StartSettle, SettleRead, SettleDone, Send,
                  ReadOrphan, ReadPending
    <3>3. CASE ReadNegative \/ TimedOut \/ Nack \/ LinkLost
      BY <3>3 DEF ReadNegative, TimedOut, Nack, LinkLost, Return
    <3>4. CASE SettleAlive \/ Connect \/ Tick
      BY <3>4 DEF SettleAlive, Connect, Tick
    <3>5. ASSUME NEW e \in Ecus, EcuAnswer(e) \/ EcuPending(e) \/ EcuGivesUp(e)
          PROVE  ~last'.flagged
      BY <3>5 DEF EcuAnswer, EcuPending, EcuGivesUp
    <3> QED
      BY <3>1, <3>2, <3>3, <3>4, <3>5 DEF Next, ClientStep
  <2>2. CASE ReadAnswer
    BY <2>2 DEF ReadAnswer, Fits, Return, IInv, Doubted
  <2> QED
    BY <2>1, <2>2
<1> QED
  BY <1>1, Inductive, PTL DEF Spec, FlagNeedsTimeout
=============================================================================
