----------------------------- MODULE MCOdometer -----------------------------
(* The odometer on a small road, in two families of behaviours: with no     *)
(* client, over the full bounds; and followed by a client, over the first   *)
(* ticks, with every interleaving of its thread.                            *)
EXTENDS OdometerStream

\* A value that looks like a reset, one that looks like a jump, and one that
\* no counter can have.
MisreadValues == {1, MaxM - 1, MaxM + 1}

Followed == \E s \in Streams : pc[s] # "never"

\* The share of the bounds each family takes.
Within ==
  IF Followed
    THEN /\ clock \in {StartClock, StartClock + 1}
         /\ elapsed <= 1 /\ driven <= 1 /\ rejected <= 2
         /\ counter <= 1
         /\ anchor \in {NoAnchor, 0, 1} /\ resets = 0
    ELSE loaded /\ speedT = 0

MCInit ==
  /\ Init
  /\ \/ StreamInit
     \/ /\ pc = [s \in Streams |-> "never"]
        /\ snap = [s \in Streams |-> Nothing]
        /\ sent = [s \in Streams |-> Nothing]
  /\ Within

MCSpec ==
  /\ MCInit
  /\ [][/\ \/ Next /\ UNCHANGED streamVars
           \/ \E s \in Streams : StreamStep(s)
        /\ Within']_<<vars, streamVars>>
=============================================================================
