----------------------------- MODULE HsfzClient -----------------------------
(***************************************************************************)
(* live.py HsfzClient: one request at a time over a TCP session to the     *)
(* gateway, and the correlation of what comes back.                        *)
(*                                                                         *)
(* The client's state is its ledger `outstanding` (per ECU, the request it *)
(* gave up on), the receive buffer `inbox` (socket buffer and self.buf),   *)
(* and the deadlines of the call in progress, kept as REMAINING ticks: a   *)
(* behaviour has no absolute time and may be as long as one likes.         *)
(*                                                                         *)
(* The ECUs and the gateway are the environment.  An ECU takes a request   *)
(* if it holds fewer than EcuDepth, answers in order at any moment within  *)
(* Latency of the send, may refuse, may promise an answer with up to       *)
(* MaxNotices responsePendings (each buys NoticeLatency more), or may stay *)
(* silent.  EcuDepth = 1 is the single-outstanding ECU of ISO 14229;       *)
(* EcuDepth = 2 an ECU that queues the request it was re-sent.             *)
(*                                                                         *)
(* Every entry and frame carries the ghost `own`: does it belong to the    *)
(* call in progress?  The client never reads it.                           *)
(***************************************************************************)
EXTENDS Integers, Sequences, Correlate

CONSTANTS
  Ecus,            \* diagnostic addresses
  Services, Ids,   \* what a request names and its answer echoes
  Requests,        \* the requests made, [service, echo]
  Timeouts,        \* the values of `timeout or self.timeout`
  SettleQuiet, SettleMax, PendingExtension, PendingMaxTotal,
  EcuDepth, Latency, NoticeLatency, MaxNotices,   \* bounds of the ECU
  AnswersMayCross, \* may an answer pass a request that is being sent?
  NoRecord, NoId

ASSUME RequestsAssumption ==
  Requests \subseteq [service : Services, echo : SUBSET Ids]
ASSUME TimesAssumption ==
  /\ Timeouts \subseteq Nat
  /\ {SettleQuiet, SettleMax, PendingExtension, PendingMaxTotal} \subseteq Nat
ASSUME EcuAssumption ==
  {EcuDepth, Latency, NoticeLatency, MaxNotices} \subseteq Nat
ASSUME CrossingAssumption == AnswersMayCross \in BOOLEAN
ASSUME NoRecordAssumption ==
  NoRecord \notin [req : Requests, age : Nat, promised : BOOLEAN,
                   settled : BOOLEAN, answered : BOOLEAN]

VARIABLES
  pc,          \* where request() is
  cur,         \* its arguments: [ecu, req, base]
  deadline,    \* ticks left until `deadline`
  hard,        \* ticks left until `hard_deadline`
  quiet, end,  \* _settle: ticks left until `quiet_until` and `end`
  promised,    \* request(): pending > 0
  ambiguous,   \* request(): the value _settle returned
  outstanding, \* self._outstanding
  inbox,       \* frames received and not read yet
  last,        \* the outcome of the last call
  ecu,         \* environment: requests each ECU holds
  spent,       \* ghost: ticks since the call began
  doubt        \* ghost: per ECU, a timeout since the last flagged answer

callVars   == <<cur, deadline, hard, promised, ambiguous>>
settleVars == <<quiet, end>>
vars == <<pc, callVars, settleVars, outstanding, inbox, last, ecu, spent,
          doubt>>

Least(a, b)    == IF a < b THEN a ELSE b
Greatest(a, b) == IF a > b THEN a ELSE b

\* `started + max(base, self.pending_max_total)`
HardBound(base) == Greatest(base, PendingMaxTotal)

Record == [req : Requests, age : Nat, promised : BOOLEAN,
           settled : BOOLEAN, answered : BOOLEAN]
Frame  == [ecu : Ecus, kind : {"positive", "negative", "pending"},
           service : Services, id : Ids \cup {NoId}, own : BOOLEAN]
Held   == [req : Requests, left : Nat, notices : Nat, own : BOOLEAN]
Outcome == {"none", "answer", "negative", "timeout", "pending_timeout",
            "nack", "link"}
Nothing == [kind |-> "none", own |-> TRUE, flagged |-> FALSE]

TypeOK ==
  /\ pc \in {"idle", "discarding", "settling", "waiting", "down"}
  /\ cur \in [ecu : Ecus, req : Requests, base : Timeouts]
  /\ deadline \in Nat /\ hard \in Nat
  /\ quiet \in Nat /\ end \in Nat /\ spent \in Nat
  /\ promised \in BOOLEAN /\ ambiguous \in BOOLEAN
  /\ outstanding \in [Ecus -> Record \cup {NoRecord}]
  /\ inbox \in Seq(Frame)
  /\ last \in [kind : Outcome, own : BOOLEAN, flagged : BOOLEAN]
  /\ ecu \in [Ecus -> Seq(Held)]
  /\ doubt \in [Ecus -> BOOLEAN]

Init ==
  /\ pc = "idle"
  /\ cur \in [ecu : Ecus, req : Requests, base : Timeouts]
  /\ deadline = 0 /\ hard = 0 /\ quiet = 0 /\ end = 0 /\ spent = 0
  /\ promised = FALSE /\ ambiguous = FALSE
  /\ outstanding = [e \in Ecus |-> NoRecord]
  /\ inbox = <<>>
  /\ last = Nothing
  /\ ecu = [e \in Ecus |-> <<>>]
  /\ doubt = [e \in Ecus |-> FALSE]

-----------------------------------------------------------------------------
(* The ledger. *)

\* _expire: a record older than PENDING_MAX_TOTAL is forgotten.
Expire(ledger, e) ==
  IF ledger[e] # NoRecord /\ ledger[e].age > PendingMaxTotal
    THEN [ledger EXCEPT ![e] = NoRecord]
    ELSE ledger

\* _orphan: a late promise restarts the record's clock, a late answer or
\* refusal settles it, anything else leaves the ledger as it is.
AfterOrphan(ledger, f) ==
  LET l == Expire(ledger, f.ecu)
      outcome == IF l[f.ecu] = NoRecord THEN FOREIGN
                 ELSE Classify(l[f.ecu].req, f)
  IN IF outcome = PENDING
       THEN [l EXCEPT ![f.ecu] = [@ EXCEPT !.age = 0, !.promised = TRUE]]
     ELSE IF outcome = FOREIGN
       THEN l
     ELSE [l EXCEPT ![f.ecu] = NoRecord]

\* Mutation: the window after a timeout is skipped.
AfterTimeoutSettled(ledger, e, req, pend) ==
  [ledger EXCEPT ![e] = [req |-> req, age |-> 0, promised |-> pend,
                         settled |-> TRUE, answered |-> FALSE]]

\* _timed_out: the request given up on takes the ECU's slot.
AfterTimeout(ledger, e, req, pend) ==
  [ledger EXCEPT ![e] = [req |-> req, age |-> 0, promised |-> pend,
                         settled |-> FALSE, answered |-> FALSE]]

\* _answered: the ECU has moved past the record, unless it had promised it.
AfterAnswer(ledger, e) ==
  IF ledger[e] # NoRecord /\ ledger[e].promised /\ ~ledger[e].answered
    THEN ledger
    ELSE [ledger EXCEPT ![e] = NoRecord]

\* Mutation: the record kept after an ambiguous answer flags the next one.
AmbiguousAgain(ledger, e, req, age) ==
  [ledger EXCEPT ![e] = [req |-> req, age |-> age, promised |-> FALSE,
                         settled |-> FALSE, answered |-> FALSE]]

\* The record kept after an ambiguous answer: this request's, since its send.
AfterAmbiguous(ledger, e, req, age) ==
  [ledger EXCEPT ![e] = [req |-> req, age |-> age, promised |-> FALSE,
                         settled |-> FALSE, answered |-> TRUE]]

\* Mutation: a settled record is trusted.
AmbiguousUntilSettled(record, req) ==
  /\ ~record.answered /\ ~record.settled
  /\ IndistinguishableFrom(record.req, req)

\* _ambiguous: could the record's answer be mistaken for this request's?
Ambiguous(record, req) ==
  /\ ~record.answered
  /\ IndistinguishableFrom(record.req, req)

-----------------------------------------------------------------------------
(* request() *)

Disowned(s) == [i \in DOMAIN s |-> [s[i] EXCEPT !.own = FALSE]]

\* A call of request(): the gate and the socket check are passed.  What is
\* in flight from now on belongs to an earlier call.
Begin(e, req, base) ==
  /\ pc = "idle"
  /\ pc' = "discarding"
  /\ cur' = [ecu |-> e, req |-> req, base |-> base]
  /\ last' = Nothing
  /\ spent' = 0
  /\ ecu' = [x \in Ecus |-> Disowned(ecu[x])]
  /\ inbox' = Disowned(inbox)
  /\ UNCHANGED <<deadline, hard, promised, ambiguous, settleVars,
                 outstanding, doubt>>

\* _discard_queued: one frame of the buffer through _stray and _orphan.
Discard ==
  /\ pc = "discarding"
  /\ inbox # <<>>
  /\ outstanding' = AfterOrphan(outstanding, Head(inbox))
  /\ inbox' = Tail(inbox)
  /\ UNCHANGED <<pc, callVars, settleVars, last, ecu, spent, doubt>>

\* _send and the deadlines it starts.  The ECU takes the request, or it is
\* lost: ignored, unroutable, or the ECU is full.
Send(amb) ==
  /\ pc' = "waiting"
  /\ ambiguous' = amb
  /\ promised' = FALSE
  /\ deadline' = cur.base
  /\ hard' = HardBound(cur.base)
  /\ \/ /\ Len(ecu[cur.ecu]) < EcuDepth
        /\ ecu' = [ecu EXCEPT ![cur.ecu] =
                     Append(@, [req |-> cur.req, left |-> Latency,
                                notices |-> 0, own |-> TRUE])]
     \/ UNCHANGED ecu
  /\ UNCHANGED <<cur, inbox, last, spent, doubt>>

\* _settle when there is nothing to listen for: no record, or one that was
\* settled before.
SendNow ==
  /\ pc = "discarding"
  /\ inbox = <<>>
  /\ LET ledger == Expire(outstanding, cur.ecu)
         record == ledger[cur.ecu]
     IN /\ \/ record = NoRecord /\ Send(FALSE)
           \/ /\ record # NoRecord
              /\ record.settled
              /\ Send(Ambiguous(record, cur.req))
        /\ outstanding' = ledger
  /\ UNCHANGED settleVars

\* _settle, up to its loop.
StartSettle ==
  /\ pc = "discarding"
  /\ inbox = <<>>
  /\ LET ledger == Expire(outstanding, cur.ecu)
     IN /\ ledger[cur.ecu] # NoRecord
        /\ ~ledger[cur.ecu].settled
        /\ outstanding' = [ledger EXCEPT ![cur.ecu].settled = TRUE]
  /\ pc' = "settling"
  /\ quiet' = SettleQuiet
  /\ end' = SettleMax
  /\ UNCHANGED <<callVars, inbox, last, ecu, spent, doubt>>

\* A frame read inside the window is an orphan, and the line is not quiet.
SettleRead ==
  /\ pc = "settling"
  /\ Least(quiet, end) > 0
  /\ inbox # <<>>
  /\ outstanding' = AfterOrphan(outstanding, Head(inbox))
  /\ inbox' = Tail(inbox)
  /\ quiet' = SettleQuiet
  /\ UNCHANGED <<pc, callVars, end, last, ecu, spent, doubt>>

\* So does the gateway's alive check, which _stray answers.
SettleAlive ==
  /\ pc = "settling"
  /\ Least(quiet, end) > 0
  /\ quiet' = SettleQuiet
  /\ UNCHANGED <<pc, callVars, end, outstanding, inbox, last, ecu, spent,
                 doubt>>

\* The window closes: quiet, or SETTLE_MAX is up.
SettleDone ==
  /\ pc = "settling"
  /\ Least(quiet, end) = 0
  /\ LET record == outstanding[cur.ecu]
     IN Send(record # NoRecord /\ Ambiguous(record, cur.req))
  /\ UNCHANGED <<outstanding, settleVars>>

\* The call returns or raises.
Return(kind, own, flagged) ==
  /\ pc' = "idle"
  /\ last' = [kind |-> kind, own |-> own, flagged |-> flagged]

\* A frame of another ECU, or one that is not the answer to this request.
ReadOrphan ==
  /\ pc = "waiting"
  /\ inbox # <<>>
  /\ LET f == Head(inbox)
     IN /\ f.ecu # cur.ecu \/ Classify(cur.req, f) = FOREIGN
        /\ outstanding' = AfterOrphan(outstanding, f)
  /\ inbox' = Tail(inbox)
  /\ UNCHANGED <<pc, callVars, settleVars, last, ecu, spent, doubt>>

\* A frame from this ECU that is no orphan.
Fits(outcome) ==
  /\ pc = "waiting"
  /\ inbox # <<>>
  /\ Head(inbox).ecu = cur.ecu
  /\ Classify(cur.req, Head(inbox)) = outcome
  /\ inbox' = Tail(inbox)

\* Mutation: every responsePending extends.
ExtendedAlways(left) == PendingExtension

\* responsePending moves the deadline, never past the absolute one.
Extended(left) == Least(PendingExtension, left)

ReadPending ==
  /\ Fits(PENDING)
  /\ promised' = TRUE
  /\ deadline' = Extended(hard)
  /\ UNCHANGED <<pc, cur, hard, ambiguous, settleVars, outstanding, last,
                 ecu, spent, doubt>>

\* A refusal is raised; the ledger stays.
ReadNegative ==
  /\ Fits(NEGATIVE)
  /\ Return("negative", Head(inbox).own, FALSE)
  /\ UNCHANGED <<callVars, settleVars, outstanding, ecu, spent, doubt>>

\* The answer.  While the record of an indistinguishable request is still
\* there it is flagged (last_answer_ambiguous) and the record becomes this
\* request's own.
ReadAnswer ==
  /\ Fits(MATCH)
  /\ LET flagged == ambiguous /\ outstanding[cur.ecu] # NoRecord
     IN /\ Return("answer", Head(inbox).own, flagged)
        /\ outstanding' =
             IF flagged
               THEN AfterAmbiguous(outstanding, cur.ecu, cur.req,
                                   HardBound(cur.base) - hard)
               ELSE AfterAnswer(outstanding, cur.ecu)
        /\ doubt' = IF flagged THEN [doubt EXCEPT ![cur.ecu] = FALSE]
                    ELSE doubt
  /\ UNCHANGED <<callVars, settleVars, ecu, spent>>

\* Mutation: a promised answer is waited for.
TimedOutUnlessPromised ==
  /\ pc = "waiting"
  /\ deadline = 0
  /\ ~promised
  /\ Return("timeout", TRUE, FALSE)
  /\ outstanding' = AfterTimeout(outstanding, cur.ecu, cur.req, promised)
  /\ doubt' = [doubt EXCEPT ![cur.ecu] = TRUE]
  /\ UNCHANGED <<callVars, settleVars, inbox, ecu, spent>>

\* The deadline passes.  _fill raises without looking at the socket, so a
\* frame may be waiting in it.
TimedOut ==
  /\ pc = "waiting"
  /\ deadline = 0
  /\ Return(IF promised THEN "pending_timeout" ELSE "timeout", TRUE, FALSE)
  /\ outstanding' = AfterTimeout(outstanding, cur.ecu, cur.req, promised)
  /\ doubt' = [doubt EXCEPT ![cur.ecu] = TRUE]
  /\ UNCHANGED <<callVars, settleVars, inbox, ecu, spent>>

\* The gateway could not route the request (HsfzNack).
Nack ==
  /\ pc = "waiting"
  /\ inbox = <<>>
  /\ \A i \in DOMAIN ecu[cur.ecu] : ~ecu[cur.ecu][i].own
  /\ Return("nack", TRUE, FALSE)
  /\ UNCHANGED <<callVars, settleVars, outstanding, inbox, ecu, spent, doubt>>

\* recv returns b'' or raises: HsfzLinkError.  The ledger is not touched.
LinkLost ==
  /\ pc \in {"discarding", "settling", "waiting"}
  /\ pc' = "down"
  /\ last' = [kind |-> "link", own |-> TRUE, flagged |-> FALSE]
  /\ UNCHANGED <<callVars, settleVars, outstanding, inbox, ecu, spent, doubt>>

\* connect(): a new TCP session, which nothing of the old one can reach.
Connect ==
  /\ pc = "down"
  /\ pc' = "idle"
  /\ inbox' = <<>>
  /\ outstanding' = [e \in Ecus |-> NoRecord]
  /\ ecu' = [e \in Ecus |-> <<>>]
  /\ doubt' = [e \in Ecus |-> FALSE]
  /\ UNCHANGED <<callVars, settleVars, last, spent>>

-----------------------------------------------------------------------------
(* The environment *)

\* A frame leaves the ECU and reaches the socket, if there is one.  The
\* moment between the last look of _settle and the send is when an answer
\* can cross the request.
Receive(f) ==
  /\ pc = "settling" /\ Least(quiet, end) = 0 => AnswersMayCross
  /\ inbox' = IF pc = "down" THEN inbox ELSE Append(inbox, f)

Body(e, h, kind, id) ==
  [ecu |-> e, kind |-> kind, service |-> h.req.service, id |-> id,
   own |-> h.own]

\* The oldest request is answered - starting with one of the identifiers it
\* asked for - or refused.
EcuAnswer(e) ==
  /\ ecu[e] # <<>>
  /\ LET h == Head(ecu[e])
     IN \/ \E id \in IF h.req.echo = {} THEN Ids ELSE h.req.echo :
             Receive(Body(e, h, "positive", id))
        \/ Receive(Body(e, h, "negative", NoId))
  /\ ecu' = [ecu EXCEPT ![e] = Tail(@)]
  /\ UNCHANGED <<pc, callVars, settleVars, outstanding, last, spent, doubt>>

Promised(h) == [h EXCEPT !.notices = h.notices + 1, !.left = NoticeLatency]

EcuPending(e) ==
  /\ ecu[e] # <<>>
  /\ Head(ecu[e]).notices < MaxNotices
  /\ Receive(Body(e, Head(ecu[e]), "pending", NoId))
  /\ ecu' = [ecu EXCEPT ![e] = <<Promised(Head(ecu[e]))>> \o Tail(ecu[e])]
  /\ UNCHANGED <<pc, callVars, settleVars, outstanding, last, spent, doubt>>

\* A request held for its whole latency will not be answered any more; a
\* queue does not overtake the request at its head.
EcuGivesUp(e) ==
  /\ \E i \in DOMAIN ecu[e] : ecu[e][i].left = 0
  /\ ecu' = [ecu EXCEPT ![e] = Tail(@)]
  /\ UNCHANGED <<pc, callVars, settleVars, outstanding, inbox, last, spent,
                 doubt>>

\* A tick of the monotonic clock.  The client never sleeps past a frame it
\* can read nor past its deadline.  Ages beyond the expiry bound are alike.
Aged(record) ==
  IF record = NoRecord THEN NoRecord
  ELSE [record EXCEPT !.age = Least(@ + 1, PendingMaxTotal + 1)]

Older(s) == [i \in DOMAIN s |-> [s[i] EXCEPT !.left = @ - 1]]

Tick ==
  /\ \A e \in Ecus : \A i \in DOMAIN ecu[e] : ecu[e][i].left > 0
  /\ \/ pc \in {"idle", "down"} /\ UNCHANGED <<deadline, hard, settleVars, spent>>
     \/ /\ pc = "settling"
        /\ inbox = <<>>
        /\ Least(quiet, end) > 0
        /\ quiet' = quiet - 1 /\ end' = end - 1 /\ spent' = spent + 1
        /\ UNCHANGED <<deadline, hard>>
     \/ /\ pc = "waiting"
        /\ inbox = <<>>
        /\ deadline > 0
        /\ deadline' = deadline - 1 /\ hard' = hard - 1 /\ spent' = spent + 1
        /\ UNCHANGED settleVars
  /\ outstanding' = [e \in Ecus |-> Aged(outstanding[e])]
  /\ ecu' = [e \in Ecus |-> Older(ecu[e])]
  /\ UNCHANGED <<pc, cur, promised, ambiguous, inbox, last, doubt>>

-----------------------------------------------------------------------------
ClientStep ==
  \/ Discard \/ SendNow \/ StartSettle \/ SettleRead \/ SettleDone
  \/ ReadOrphan \/ ReadPending \/ ReadNegative \/ ReadAnswer \/ TimedOut

Next ==
  \/ \E e \in Ecus, req \in Requests, base \in Timeouts : Begin(e, req, base)
  \/ ClientStep
  \/ SettleAlive \/ Nack \/ LinkLost \/ Connect
  \/ \E e \in Ecus : EcuAnswer(e) \/ EcuPending(e) \/ EcuGivesUp(e)
  \/ Tick

Spec == Init /\ [][Next]_vars

\* The client's thread runs, and time passes (a latency that is up being up
\* is part of that).
Fairness ==
  /\ WF_vars(ClientStep)
  /\ WF_vars(Tick)
  /\ \A e \in Ecus : WF_vars(EcuGivesUp(e))
FairSpec == Spec /\ Fairness

-----------------------------------------------------------------------------
(* Properties *)

\* An answer that is not the call's own is never returned unmarked: either
\* content told it apart, or the flag says it may be one period old
\* (live.py:464-473, 1156-1174).
NoSilentStale ==
  last.kind = "answer" /\ ~last.flagged => last.own

\* When every answer is in before the settle window can close, no answer and
\* no refusal is ever taken for that of a later call, whatever the ECU queues:
\* the window catches it (live.py:464-473).
NoStaleAnswer ==
  last.kind \in {"answer", "negative"} => last.own

\* A call takes at most one settle window and one absolute deadline, however
\* many frames, alive checks and responsePendings arrive (live.py:475-481).
CallBounded ==
  pc \in {"discarding", "settling", "waiting"} =>
    spent <= SettleMax + HardBound(cur.base)

\* To its caller the client is a Transport: it answers with the call's own or
\* flags it, flags no more often than it gave up, and gives up neither too
\* early nor too late (live.py:1023-1179, protocol/request.py:39-51).
Called == INSTANCE Transport WITH
  state <- IF pc \in {"discarding", "settling", "waiting"} THEN "busy" ELSE pc,
  call <- [ecu |-> cur.ecu, timeout |-> cur.base],
  waited <- spent, result <- last, owed <- {e \in Ecus : doubt[e]}

TransportSpec == Called!TransportSpec

\* A flag is paid for by a timeout of its own: the record kept to attribute
\* a second answer never flags another (live.py:913-923).
FlagNeedsTimeout ==
  [][last'.flagged /\ ~last.flagged => doubt[cur.ecu]]_vars

\* Every call comes back (live.py:1023-1179).
CallReturns == (pc \in {"discarding", "settling", "waiting"}) ~>
                 (pc \in {"idle", "down"})

\* The resend whose answer some answer to the outstanding request could be
\* mistaken for is the one that is counted and flagged (live.py:916-920).
MistakableIsAmbiguous ==
  pc = "waiting" /\ ~ambiguous /\ outstanding[cur.ecu] # NoRecord
  /\ ~outstanding[cur.ecu].answered
    => ~CouldBeMistaken(outstanding[cur.ecu].req, cur.req)
=============================================================================
