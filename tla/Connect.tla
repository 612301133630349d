------------------------------- MODULE Connect -------------------------------
(***************************************************************************)
(* How live.py poll_loop gets from nothing to polling: connect to the      *)
(* gateway, find the engine ECU by what it advertises (probe,              *)
(* discover_ecus, connect_and_discover; bmwdiag/obd/capability.py), let it *)
(* prove the diagnostic profiles the mapping files require                 *)
(* (bmwdiag/variant.py), and resolve the files against that.               *)
(*                                                                         *)
(* A car maps the addresses where somebody speaks OBD to the bitmask       *)
(* blocks that ECU has, each a set of PIDs; "rpm" is PID 0x0C.  `speaks`   *)
(* is the set of nominated requests its engine answers in their shape.     *)
(* The wire may lose MaxLosses exchanges, or the link as many times.       *)
(* The discovery of the gateway itself, names and the report are left out. *)
(***************************************************************************)
EXTENDS Integers, FiniteSets, Sequences, TLC

CONSTANTS
  Cars,         \* [blocks, functional, speaks]
  Functional,   \* how many functional addresses are tried
  Likely,       \* LIKELY_ADDRS, a sequence
  Sweep,        \* 0x00 .. 0xFF, a sequence
  DdeAddr,      \* the default destination
  Forced,       \* values of --ecu, Nowhere when not given
  Files,        \* mapping files: [profile, sgbd, probe], Unset when absent
  MaxLosses,
  Nowhere, Unset

VARIABLES
  at,           \* where the loop is
  car, forced,  \* the car it is plugged into; args.ecu
  lastEngine, engine, dst,  \* last_engine, engine.addr, client.dst
  found, tried, next,       \* discover_ecus: found, tried, the address it is at
  results,      \* per profile, what its probes came to
  asked,        \* [profile, position] of the nomination being probed
  active,       \* the files in the resolved profile
  heard,        \* what the engine answered in shape since the connect
  losses

connectVars == <<at, car, forced, lastEngine, engine, dst, found, tried, next,
                 results, asked, active, heard, losses>>

Addresses == {Likely[i] : i \in DOMAIN Likely} \cup {Sweep[i] : i \in DOMAIN Sweep}
NoEcu == [a \in {} |-> {}]
IsEngine(supported) == "rpm" \in supported
Engines == {a \in DOMAIN found : IsEngine(found[a])}

\* The profiles the files require, and the probes they nominate for each.
Profiles == {f.profile : f \in {g \in Files : g.profile # Unset}}
Nominated(p) == UNION {f.probe : f \in {g \in Files : g.profile = p}}

\* What walk_supported_pids brings home from an ECU when its first n blocks
\* are answered.
Walked(a, n) == UNION {car.blocks[a][i] : i \in 1 .. n}

\* The walk ends with the first failure: fewer blocks than there are cost one.
Walk(a, n) ==
  /\ n \in 0 .. Len(car.blocks[a])
  /\ losses' = losses + (IF n < Len(car.blocks[a]) THEN 1 ELSE 0)
  /\ losses' <= MaxLosses

Lose == losses < MaxLosses /\ losses' = losses + 1

-----------------------------------------------------------------------------
ConnectInit ==
  /\ car \in Cars
  /\ forced \in Forced /\ (forced # Nowhere => forced \in DOMAIN car.blocks)
  /\ at = "down" /\ lastEngine = Nowhere /\ engine = Nowhere /\ dst = DdeAddr
  /\ found = NoEcu /\ tried = {} /\ next = 1
  /\ results = [p \in Profiles |-> "unknown"] /\ asked = {}
  /\ active = {} /\ heard = {} /\ losses = 0

\* HsfzClient(...), connect(): a new client knows the default destination.
Connect ==
  /\ at = "down"
  /\ dst' = DdeAddr
  /\ found' = NoEcu /\ tried' = {} /\ next' = 1
  /\ results' = [p \in Profiles |-> "unknown"] /\ asked' = {}
  /\ active' = {} /\ heard' = {}
  /\ at' = IF forced # Nowhere \/ lastEngine # Nowhere THEN "prefer" ELSE "broadcast"
  /\ UNCHANGED <<car, forced, lastEngine, engine, losses>>

Target == IF forced # Nowhere THEN forced ELSE lastEngine

\* The address forced, or the one of last time, is asked alone.
PreferAnswers ==
  /\ at = "prefer" /\ Target \in DOMAIN car.blocks
  /\ \E n \in 0 .. Len(car.blocks[Target]) :
       Walk(Target, n) /\ found' = (Target :> Walked(Target, n))
  /\ engine' = Target /\ lastEngine' = Target
  /\ at' = "prove"
  /\ UNCHANGED <<car, forced, dst, tried, next, results, asked, active, heard>>

PreferSilent ==
  /\ at = "prefer"
  /\ IF Target \in DOMAIN car.blocks THEN Lose ELSE UNCHANGED losses
  /\ at' = IF forced # Nowhere THEN "down" ELSE "broadcast"
  /\ UNCHANGED <<car, forced, lastEngine, engine, dst, found, tried, next,
                 results, asked, active, heard>>

\* HsfzClient.collect: of the ECUs that listen to a functional address, those
\* whose answer arrives within the window.
Collected == SUBSET (IF car.functional THEN DOMAIN car.blocks ELSE {})

\* One functional address, and the blocks of everyone who answered it.
Broadcast ==
  /\ at = "broadcast"
  /\ \E answering \in Collected :
     \E n \in [answering -> 0 .. 2] :
       /\ \A a \in answering : n[a] <= Len(car.blocks[a])
       /\ losses' = losses
            + Cardinality({a \in answering : n[a] < Len(car.blocks[a])})
            + (IF car.functional /\ answering # DOMAIN car.blocks THEN 1 ELSE 0)
       /\ losses' <= MaxLosses
       /\ found' = [a \in answering |-> Walked(a, n[a])]
  /\ IF found' # NoEcu \/ next = Functional
       THEN at' = "likely" /\ next' = 1
       ELSE at' = at /\ next' = next + 1
  /\ UNCHANGED <<car, forced, lastEngine, engine, dst, tried, results, asked,
                 active, heard>>

\* probe, of an address nobody has, or whose answer is lost, or answered.
ProbeAt(a) ==
  \/ a \notin DOMAIN car.blocks /\ UNCHANGED <<found, losses>>
  \/ a \in DOMAIN car.blocks /\ Lose /\ UNCHANGED found
  \/ /\ a \in DOMAIN car.blocks
     /\ \E n \in 0 .. Len(car.blocks[a]) :
          /\ Walk(a, n)
          /\ found' = (a :> Walked(a, n)) @@ found

\* Mutation: the search ends with the first ECU that answers.
AnyFound == DOMAIN found # {}

Enough == Engines # {}

\* The likely addresses, those not met yet, until an engine is found.
ProbeLikely ==
  /\ at = "likely" /\ ~Enough /\ next <= Len(Likely)
  /\ IF Likely[next] \in tried \cup DOMAIN found
       THEN UNCHANGED <<found, tried, losses>>
       ELSE ProbeAt(Likely[next]) /\ tried' = tried \cup {Likely[next]}
  /\ next' = next + 1
  /\ UNCHANGED <<at, car, forced, lastEngine, engine, dst, results, asked,
                 active, heard>>

LikelyDone ==
  /\ at = "likely" /\ (Enough \/ next > Len(Likely))
  /\ at' = IF Enough THEN "choose" ELSE "sweep"
  /\ next' = 1
  /\ UNCHANGED <<car, forced, lastEngine, engine, dst, found, tried, results,
                 asked, active, heard, losses>>

\* Every other address, the ones found without a bitmask included.
ProbeSwept ==
  /\ at = "sweep" /\ ~Enough /\ next <= Len(Sweep)
  /\ IF Sweep[next] \in tried THEN UNCHANGED <<found, losses>>
     ELSE ProbeAt(Sweep[next])
  /\ next' = next + 1
  /\ UNCHANGED <<at, car, forced, lastEngine, engine, dst, tried, results,
                 asked, active, heard>>

SweepDone ==
  /\ at = "sweep" /\ (Enough \/ next > Len(Sweep))
  /\ at' = "choose"
  /\ UNCHANGED <<car, forced, lastEngine, engine, dst, found, tried, next,
                 results, asked, active, heard, losses>>

\* The engine that advertises most; without one the attempt has failed.
Choose ==
  /\ at = "choose"
  /\ IF Engines = {}
       THEN at' = "down" /\ UNCHANGED <<lastEngine, engine, dst>>
       ELSE /\ \E a \in Engines :
                 /\ \A b \in Engines : Cardinality(found[a]) >= Cardinality(found[b])
                 /\ engine' = a /\ lastEngine' = a /\ dst' = a
            /\ at' = "prove"
  /\ UNCHANGED <<car, forced, found, tried, next, results, asked, active, heard,
                 losses>>

-----------------------------------------------------------------------------
(* variant.py *)

\* resolve_profile: the nominated requests of a profile, one after another,
\* until one is answered in its shape.
Prove(p, r) ==
  /\ at = "prove"
  /\ results[p] # "compatible" /\ r \in Nominated(p) /\ <<p, r>> \notin asked
  /\ asked' = asked \cup {<<p, r>>}
  /\ \/ /\ r \in car.speaks
        /\ results' = [results EXCEPT ![p] = "compatible"]
        /\ heard' = heard \cup {<<engine, r>>}
        /\ UNCHANGED losses
     \/ /\ results' = [results EXCEPT ![p] = "unsupported"]
        /\ IF r \in car.speaks THEN Lose ELSE UNCHANGED losses
        /\ UNCHANGED heard
  /\ UNCHANGED <<at, car, forced, lastEngine, engine, dst, found, tried, next, active>>

Proving(p) ==
  results[p] # "compatible" /\ \E r \in Nominated(p) : <<p, r>> \notin asked

\* EcuIdentity.outcome for exact_sgbd: no identity evidence is ever read.
Identity == "unknown"

\* Mutation: only a profile that was refused is not satisfied.
NotRefused(f) ==
  /\ f.profile = Unset \/ results[f.profile] # "unsupported"
  /\ f.sgbd = Unset \/ Identity = "confirmed"

\* EcuIdentity.satisfies, for what the match of a file requires.
Satisfies(f) ==
  /\ f.profile = Unset \/ results[f.profile] = "compatible"
  /\ f.sgbd = Unset \/ Identity = "confirmed"

\* registry.resolve, by files (Catalogue has the rest).  A file without a
\* profile asks for the PIDs the engine advertises: with none of them, and no
\* other file, there is nothing to poll and the attempt has failed.
StartPolling ==
  /\ at = "prove" /\ ~\E p \in Profiles : Proving(p)
  /\ active' = {f \in Files : Satisfies(f)}
  /\ at' = IF found[engine] = {} /\ \A f \in active' : f.profile = Unset
             THEN "down" ELSE "polling"
  /\ UNCHANGED <<car, forced, lastEngine, engine, dst, found, tried, next,
                 results, asked, heard, losses>>

\* The link breaks and the one reconnect of request_safe does not help, or the
\* cycle raises: the client is closed and the loop begins again.
LinkFails ==
  /\ at # "down" /\ Lose
  /\ at' = "down"
  /\ UNCHANGED <<car, forced, lastEngine, engine, dst, found, tried, next,
                 results, asked, active, heard>>

ConnectStep ==
  \/ Connect \/ PreferAnswers \/ PreferSilent \/ Broadcast \/ ProbeLikely
  \/ LikelyDone \/ ProbeSwept \/ SweepDone \/ Choose \/ StartPolling
  \/ \E p \in Profiles : \E r \in Nominated(p) : Prove(p, r)
ConnectNext == ConnectStep \/ LinkFails

ConnectSpec == ConnectInit /\ [][ConnectNext]_connectVars

-----------------------------------------------------------------------------
(* Properties *)

\* A file that requires a profile is active only if one of the requests
\* nominated for that profile was answered in its shape, by this engine and on
\* this connection; one that requires an exact SGBD never is, for a probe
\* proves no identity (variant.py:20-44, live.py:3121-3139).
ActiveOnlyWhenProven ==
  at = "polling" =>
    \A f \in active :
      /\ f.profile # Unset =>
           \E r \in Nominated(f.profile) : <<engine, r>> \in heard
      /\ f.sgbd = Unset

\* The car has an engine ECU: once the wire loses nothing more it is found,
\* wherever it is and whatever else answers (live.py:2892-2965, 2987-3018).
EngineFound == []<>(at = "polling")

\* live.py:2828-2830: "Address is not evidence; the supported-PID bitmask is":
\* what the OBD session asks goes to the ECU that was found.
AskedIsEngine == at = "polling" => dst = engine
=============================================================================
