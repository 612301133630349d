------------------------------ MODULE Transport ------------------------------
(***************************************************************************)
(* What a caller is promised by the transport (DiagnosticTransport in      *)
(* protocol/request.py, the faults of bmwdiag/errors.py), whatever frames  *)
(* pass below it: one call at a time, that ends within its limit in one    *)
(* way; of the answers, which are the call's own and which may be those of *)
(* an earlier one.  HsfzClient implements it; Executor relies on it.       *)
(***************************************************************************)
EXTENDS Integers

CONSTANTS
  Ecus, Timeouts,
  SettleMax, PendingMaxTotal

VARIABLES
  state,   \* "idle", "busy", "down"
  call,    \* the arguments of the last call: [ecu, timeout]
  waited,  \* ticks since it was made
  result,  \* how it ended
  owed     \* ECUs with a timeout since the last flagged answer

transportVars == <<state, call, waited, result, owed>>

Open == [kind |-> "none", own |-> TRUE, flagged |-> FALSE]

\* The window before the send, and the longest wait after it.
Limit ==
  SettleMax + IF call.timeout < PendingMaxTotal THEN PendingMaxTotal ELSE call.timeout

TransportInit ==
  /\ state = "idle"
  /\ call \in [ecu : Ecus, timeout : Timeouts]
  /\ waited = 0
  /\ result = Open
  /\ owed = {}

Ask ==
  /\ state = "idle" /\ state' = "busy"
  /\ call' \in [ecu : Ecus, timeout : Timeouts]
  /\ waited' = 0
  /\ result' = Open
  /\ UNCHANGED owed

Wait ==
  /\ state = "busy"
  /\ waited < Limit
  /\ waited' = waited + 1
  /\ UNCHANGED <<state, call, result, owed>>

Ended(kind, own, flagged) ==
  /\ state = "busy" /\ state' = "idle"
  /\ result' = [kind |-> kind, own |-> own, flagged |-> flagged]
  /\ UNCHANGED <<call, waited>>

\* The answer is the call's own, or flagged; a flag uses up a timeout.
Answer ==
  \E own, flagged \in BOOLEAN :
    /\ own \/ flagged
    /\ flagged => call.ecu \in owed
    /\ Ended("answer", own, flagged)
    /\ owed' = IF flagged THEN owed \ {call.ecu} ELSE owed

\* NegativeResponse: a refusal names a service, not a request.
Refuse == \E own \in BOOLEAN : Ended("negative", own, FALSE) /\ UNCHANGED owed

\* RequestTimeout: an ECU that promised nothing has had the time the caller
\* gave it, counted from the call.
GiveUp ==
  /\ \/ Ended("timeout", TRUE, FALSE) /\ call.timeout <= waited
     \/ Ended("pending_timeout", TRUE, FALSE)
  /\ owed' = owed \cup {call.ecu}

\* RoutingNack
Unroutable == Ended("nack", TRUE, FALSE) /\ UNCHANGED owed

\* LinkError: nothing works until there is a new connection, on which nothing
\* of the old one arrives.
Lose ==
  /\ state = "busy" /\ state' = "down"
  /\ result' = [kind |-> "link", own |-> TRUE, flagged |-> FALSE]
  /\ UNCHANGED <<call, waited, owed>>

Renew ==
  /\ state = "down" /\ state' = "idle"
  /\ owed' = {}
  /\ UNCHANGED <<call, waited, result>>

TransportNext ==
  Ask \/ Wait \/ Answer \/ Refuse \/ GiveUp \/ Unroutable \/ Lose \/ Renew

TransportSpec == TransportInit /\ [][TransportNext]_transportVars
=============================================================================
