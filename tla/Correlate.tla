----------------------------- MODULE Correlate -----------------------------
(***************************************************************************)
(* bmwdiag/protocol/correlate.py: is a received frame the answer to a      *)
(* request?  The decision is made from bytes alone.  What it looks at is   *)
(* kept: the service a request names, the identifiers its positive answer  *)
(* may echo, and for a received body whether it is positive (`62 F3 03`),  *)
(* a refusal (`7F <service> <nrc>`) or a responsePending (`7F .. 78`).     *)
(* The bytes behind the echoed identifier are data and are left out, and   *)
(* a body too short for its declared minimum is just a frame that matches  *)
(* nothing.                                                                *)
(*                                                                         *)
(* A request is [service, echo]: echo is the set of alternatives, one of   *)
(* which the answer starts with; {} correlates on the service alone.       *)
(* A body is [kind, service, id].                                          *)
(***************************************************************************)

\* The outcomes of `classify`.
MATCH    == "match"
PENDING  == "pending"
NEGATIVE == "negative"
FOREIGN  == "foreign"

\* ResponseExpectation.matches_positive: one alternative of the echo fits.
MatchesPositive(expectation, body) ==
  /\ body.service = expectation.service
  /\ \/ expectation.echo = {}
     \/ body.id \in expectation.echo

\* classify: a 7F names a service and nothing else, so a refusal or a
\* pending notice fits every request of that service.
Classify(expectation, body) ==
  CASE body.kind = "positive" /\ MatchesPositive(expectation, body) -> MATCH
    [] body.kind = "pending"  /\ body.service = expectation.service -> PENDING
    [] body.kind = "negative" /\ body.service = expectation.service -> NEGATIVE
    [] OTHER -> FOREIGN

\* ResponseExpectation.indistinguishable_from: would EVERY frame `older`
\* accepts also satisfy `newer`?
IndistinguishableFrom(older, newer) ==
  /\ older.service = newer.service
  /\ \/ newer.echo = {}
     \/ older.echo # {} /\ older.echo \subseteq newer.echo

\* What the word "ambiguous" of live.py:916-920 asks: could SOME answer to
\* `older` be taken for the answer to `newer`?  Not in the code; properties
\* compare the code's rule with it.
CouldBeMistaken(older, newer) ==
  /\ older.service = newer.service
  /\ \/ older.echo = {} \/ newer.echo = {}
     \/ older.echo \cap newer.echo # {}
=============================================================================
