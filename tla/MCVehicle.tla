------------------------------ MODULE MCVehicle ------------------------------
(* What is done around the poll loop, each in behaviours of its own: what a  *)
(* connection finds, which files it may use and what their answers decode    *)
(* to; the tools run by hand; the history of a car and the report of a run;  *)
(* the versions of the files.  `part` says whose behaviour it is; the other  *)
(* parts stand still.                                                        *)
EXTENDS Decoding, Catalogue, Connect, Workbench, History, Health, Versions

VARIABLE part

vars == <<part, decodeVars, catalogueVars, connectVars, benchVars, historyVars,
          reportVars, versionVars, trip>>

-----------------------------------------------------------------------------
(* Decoding: every type with the values at its edges, every way to name a    *)
(* request, answers of up to four more bytes *)

Decoder == [type |-> "uint8", offset |-> 0, length |-> Absent, bit |-> Absent,
            mask |-> Absent, shift |-> Absent, enum |-> FALSE, invalid |-> {},
            saturated |-> {}, validMax |-> Absent, scale |-> 1, add |-> 0]
Scaled == {[Decoder EXCEPT !.type = t, !.offset = o, !.invalid = {255}, !.scale = 2,
                           !.add = -1, !.validMax = 100] :
             t \in {"uint8", "int16_be"}, o \in {-1, 0, 1}}
SingleBits == {[Decoder EXCEPT !.type = "bit", !.bit = b, !.length = n] :
                 b \in {Absent, 8, 16}, n \in {Absent, 2}}
BitFields == {[Decoder EXCEPT !.type = "bitfield", !.mask = m, !.shift = h] :
                m \in {Absent, 6, 256}, h \in {Absent, 1, -1}}
Odd == {[Decoder EXCEPT !.type = t, !.length = n, !.enum = e] :
          t \in {"bytes", "float32_be"}, n \in {Absent, 2}, e \in BOOLEAN}

Name == [protocol |-> "obd", service |-> Absent, pid |-> Absent, did |-> Absent,
         payload |-> Absent]
Named == {[Name EXCEPT !.pid = 12], [Name EXCEPT !.did = 12],
          [Name EXCEPT !.payload = <<1, 511>>],
          [Name EXCEPT !.protocol = "uds", !.service = 34, !.did = 62211],
          [Name EXCEPT !.protocol = "uds", !.service = 46, !.did = 62211],
          [Name EXCEPT !.protocol = "uds", !.did = 62211],
          [Name EXCEPT !.protocol = "raw", !.payload = <<34, 243, 3>>],
          [Name EXCEPT !.protocol = "raw", !.service = 33, !.pid = 12]}
Whole(n, d, o, l, m) ==
  [protocol |-> n.protocol, service |-> n.service, pid |-> n.pid, did |-> n.did,
   payload |-> n.payload, prefix |-> Absent, payloadOffset |-> o,
   dataLength |-> l, minLength |-> m, decode |-> d]
MCTexts == {Whole(n, d, o, l, m) :
              n \in Named, d \in Scaled \cup SingleBits \cup BitFields \cup Odd,
              o \in {Absent, 1}, l \in {Absent, 2, 4}, m \in {0, 4}}
MCTails == BoundedSeq({0, 255}, 4)

-----------------------------------------------------------------------------
(* Catalogue: two derived channels that may feed each other, and a second    *)
(* file that may clash with the first *)

Derive(k, n, b, t) == [key |-> k, needs |-> n, fallbacks |-> b, trigger |-> t]
Derivable(k, other) ==
  {Derive(k, n, b, t) : n \in {{}, {"x"}, {"y"}, {other}, {"x", other}},
                        b \in {{}, {"y"}, {other}}, t \in {Default, {"x"}, {"w"}}}
File(id, production, requests, family, derived) ==
  [id |-> id, production |-> production, wellFormed |-> TRUE, family |-> family,
   match |-> {}, probe |-> {}, period |-> 1, requests |-> requests, derived |-> derived]
Ask(id, needs, key) == [id |-> id, needs |-> needs, signals |-> {key}]
First(derived) == File("f", TRUE, <<Ask("r1", {}, "x"), Ask("r2", {"p"}, "y")>>, "dde", derived)
MCTrees ==
  {<<First(<<a, b>>)>> : a \in Derivable("a", "b"), b \in Derivable("b", "a")}
  \cup {<<First(<<Derive("a", {"y"}, {}, Default)>>), File("g", p, <<Ask(r, {}, k)>>, m, <<>>)>> :
         p \in BOOLEAN, r \in {"r1", "r3"}, k \in {"a", "v"}, m \in {"dde", "egs"}}
MCAbilities == {{}, {"p"}, {"p", "m"}}

-----------------------------------------------------------------------------
(* Connect: the engine at the default address, next to it, or where only the *)
(* sweep gets; another ECU that answers 01 00 as well *)

MCCars == {[blocks |-> b, functional |-> f, speaks |-> s] :
   b \in {(18 :> << {"rpm", "load"}, {"fuel"} >>),
          (16 :> << {"rpm", "load"}, {"fuel"} >>) @@ (24 :> << {"load"} >>),
          (99 :> << {"rpm"} >>) @@ (16 :> << {"load"} >>)},
   f \in BOOLEAN, s \in {{}, {"r2"}}}
MCLikely == <<18, 16, 24>>
MCSweep == <<7, 16, 18, 24, 99>>
MCForced == {Nowhere, 16}
Profile(p, s, r) == [profile |-> p, sgbd |-> s, probe |-> r]
MCFiles == {Profile(Unset, Unset, {}), Profile("f303", Unset, {"r1", "r2"}),
            Profile("kwp", Unset, {}), Profile("f303", "d72", {"r2"})}

-----------------------------------------------------------------------------
(* Workbench: two dynamic requests after each other, on one ECU and on two,  *)
(* and a file with a request that is not read-only *)

Candidate(id, dynamic, safe, target) ==
  [id |-> id, dynamic |-> dynamic, safe |-> safe, target |-> target]
MCCandidates ==
  {<<Candidate("a", TRUE, TRUE, NoTarget), Candidate("b", TRUE, TRUE, NoTarget)>>,
   <<Candidate("a", TRUE, TRUE, NoTarget), Candidate("b", TRUE, TRUE, 24),
     Candidate("c", FALSE, TRUE, NoTarget)>>,
   <<Candidate("a", TRUE, TRUE, NoTarget), Candidate("b", FALSE, FALSE, NoTarget)>>}

MCPreferred == <<"dde", "obd">>
MCSteps == {-2, 1}
MCContents == {<<1, 2>>, <<2, 1>>, <<1>>}

-----------------------------------------------------------------------------
(* Health: a cold start in degrees by ten, and a loop over one second less *)

MCReadings == [coolant |-> {3, 6, 8, 9}, oil |-> {5, 6}, act |-> {0}, set |-> {0},
               rpm |-> {1, 2, 4}, demand |-> {0, 3}]
MCSpread == [rpm |-> 1, demand |-> 2]
MCBins == [rpm |-> {<<0, 2>>, <<2, 4>>}, demand |-> {<<0, 3>>, <<3, 5>>}]

-----------------------------------------------------------------------------
(* A part that stands still *)

DecodeStill == /\ text = (CHOOSE t \in Texts : TRUE) /\ stage = "refused"
               /\ outcome = Outcome(Absent, Absent, Absent)
CatalogueStill == /\ tree = <<>> /\ able = {} /\ known = <<>> /\ profile = Nothing
                  /\ stance = "refused" /\ shown = {}
ConnectStill ==
  /\ car = CHOOSE c \in Cars : TRUE
  /\ forced = Nowhere /\ at = "polling" /\ lastEngine = DdeAddr /\ engine = DdeAddr
  /\ dst = DdeAddr /\ found = NoEcu /\ tried = {} /\ next = 1
  /\ results = [p \in Profiles |-> "unknown"] /\ asked = {}
  /\ active = {} /\ heard = {} /\ losses = 0
BenchStill == /\ slot = [e \in Ecus |-> <<>>] /\ job = Idle /\ records = <<>> /\ sent = 0
              /\ artifacts = "none"
HistoryStill ==
  /\ now = 0 /\ host = [skew |-> 0, synced |-> FALSE, boot |-> 1, names |-> FALSE]
  /\ vehicle = [hardware |-> "old", build |-> 1] /\ runs = <<>> /\ events = {}
ReportStill ==
  /\ clock = [now |-> 0, skew |-> 0, stepped |-> FALSE]
  /\ drive = [synced |-> 0, hardware |-> Unsaid] /\ samples = <<>>
  /\ fitted = [then |-> FALSE, today |-> FALSE] /\ today = Unsaid
VersionsStill ==
  /\ master = [files |-> [p \in Paths |-> Gone], lock |-> <<>>] /\ pull = Gone
  /\ ledger = {} /\ merges = 0 /\ moved = FALSE /\ lowered = FALSE

MCInit ==
  /\ part \in {"decoding", "catalogue", "connect", "bench", "clocks", "cars", "report",
               "versions", "health"}
  /\ IF part = "decoding" THEN DecodeInit ELSE DecodeStill
  /\ IF part = "catalogue" THEN CatalogueInit ELSE CatalogueStill
  /\ IF part = "connect" THEN ConnectInit ELSE ConnectStill
  /\ IF part = "bench" THEN BenchInit ELSE BenchStill
  /\ IF part \in {"clocks", "cars"} THEN HistoryInit ELSE HistoryStill
  /\ IF part = "report" THEN ReportInit ELSE ReportStill
  /\ IF part = "versions" THEN VersionsInit ELSE VersionsStill
  /\ IF part = "health" THEN HealthInit ELSE trip = <<>>
  /\ part = "cars" => host.synced

-----------------------------------------------------------------------------
(* The history is long, so its two questions are asked one at a time: the    *)
(* host's clock, with one channel and one car; and the car, on a host whose  *)
(* clock is right and which is not killed.  A report of the ordinary case is *)
(* longer than the others. *)

Recorded == runs' # runs
HistoryStep ==
  \/ /\ part = "clocks" /\ (Record \/ Wait \/ HostNext)
     /\ Recorded => Last(runs').data \subseteq {"dde"}
  \/ /\ part = "cars" /\ (Record \/ Wait \/ CarNext)
     /\ Recorded => Missing \notin {Last(runs').ended, Last(runs').last}

Ordinary == drive = [synced |-> 1, hardware |-> "present"] /\ today = "fitted"
ReportStep == ReportNext /\ Len(samples') <= (IF Ordinary THEN MaxSamples ELSE 2)

MCConnect ==
  /\ part = "connect" /\ ConnectStep
  /\ UNCHANGED <<part, decodeVars, catalogueVars, benchVars, historyVars, reportVars, versionVars, trip>>

MCNext ==
  \/ /\ part = "decoding" /\ DecodeNext
     /\ UNCHANGED <<part, catalogueVars, connectVars, benchVars, historyVars, reportVars, versionVars, trip>>
  \/ /\ part = "catalogue" /\ CatalogueNext
     /\ UNCHANGED <<part, decodeVars, connectVars, benchVars, historyVars, reportVars, versionVars, trip>>
  \/ /\ part = "connect" /\ ConnectNext
     /\ UNCHANGED <<part, decodeVars, catalogueVars, benchVars, historyVars, reportVars, versionVars, trip>>
  \/ /\ part = "bench" /\ BenchNext
     /\ UNCHANGED <<part, decodeVars, catalogueVars, connectVars, historyVars, reportVars, versionVars, trip>>
  \/ /\ HistoryStep
     /\ UNCHANGED <<part, decodeVars, catalogueVars, connectVars, benchVars, reportVars, versionVars, trip>>
  \/ /\ part = "report" /\ ReportStep
     /\ UNCHANGED <<part, decodeVars, catalogueVars, connectVars, benchVars, historyVars, versionVars, trip>>
  \/ /\ part = "versions" /\ VersionsNext
     /\ UNCHANGED <<part, decodeVars, catalogueVars, connectVars, benchVars, historyVars, reportVars, trip>>
  \/ /\ part = "health" /\ ReadOn
     /\ "act" \in DOMAIN trip => \A t \in Latest' : t < MaxTs
     /\ UNCHANGED <<part, decodeVars, catalogueVars, connectVars, benchVars, historyVars,
                    reportVars, versionVars>>

\* The poll thread runs.
MCSpec == MCInit /\ [][MCNext]_vars /\ WF_vars(MCConnect)

\* The connection alone.
ConnectOnly == MCInit /\ part = "connect" /\ [][MCNext]_vars
=============================================================================
