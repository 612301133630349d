---------------------------- MODULE VehicleProofs ----------------------------
(***************************************************************************)
(* Theorems about what is done around the poll loop: what a connection     *)
(* proves (Connect), what the tools record (Workbench), what the report of *)
(* a run says of the car (Report), what a trip's figures may depend on     *)
(* (Health), what is a trip and what may be compared (History), what is    *)
(* polled and shown of the mapping files (Catalogue), and what a version   *)
(* names (Versions).                                                       *)
(***************************************************************************)
EXTENDS Decoding, Connect, Workbench, Health, History, Catalogue, Versions,
        FiniteSetTheorems, SequenceTheorems, WellFoundedInduction, TLAPS

-----------------------------------------------------------------------------
(* Connect *)

\* A profile that counts as compatible was answered by the present engine since
\* the connect; before the probing begins nothing counts as anything.
Proven ==
  /\ DOMAIN results = Profiles
  /\ at \notin {"down", "prove", "polling"} =>
       \A p \in Profiles : results[p] = "unknown"
  /\ at \in {"prove", "polling"} =>
       \A p \in Profiles : results[p] = "compatible" =>
         \E r \in Nominated(p) : <<engine, r>> \in heard

ConnectInv == Proven /\ ActiveOnlyWhenProven

\* What ends the search for the engine leaves the results as they were.
LEMMA SearchStep ==
  ASSUME ConnectInv,
         \/ PreferAnswers \/ PreferSilent \/ Broadcast \/ ProbeLikely
         \/ LikelyDone \/ ProbeSwept \/ SweepDone \/ Choose
  PROVE  ConnectInv'
<1>1. /\ UNCHANGED <<results, active, heard>>
      /\ at \notin {"down", "prove", "polling"}
      /\ at' # "polling"
  BY DEF PreferAnswers, PreferSilent, Broadcast, ProbeLikely, LikelyDone,
         ProbeSwept, SweepDone, Choose
<1>2. \A p \in Profiles : results[p] = "unknown"
  BY <1>1 DEF ConnectInv, Proven
<1> QED BY <1>1, <1>2 DEF ConnectInv, Proven, ActiveOnlyWhenProven

\* A probe that is answered in its shape was heard from this engine.
LEMMA ProveStep ==
  ASSUME ConnectInv, NEW p \in Profiles, NEW r \in Nominated(p), Prove(p, r)
  PROVE  ConnectInv'
<1>1. at = "prove" /\ UNCHANGED <<at, engine, active>>
  BY DEF Prove
<1>2. CASE results' = [results EXCEPT ![p] = "compatible"]
           /\ heard' = heard \cup {<<engine, r>>}
  BY <1>1, <1>2 DEF ConnectInv, Proven, ActiveOnlyWhenProven
<1>3. CASE results' = [results EXCEPT ![p] = "unsupported"] /\ UNCHANGED heard
  BY <1>1, <1>3 DEF ConnectInv, Proven, ActiveOnlyWhenProven
<1> QED BY <1>2, <1>3 DEF Prove

\* The files that become active are those whose profile counts as compatible.
LEMMA StartPollingStep == ASSUME ConnectInv, StartPolling PROVE ConnectInv'
<1>1. at = "prove" /\ at' \in {"down", "polling"}
      /\ active' = {f \in Files : Satisfies(f)}
      /\ UNCHANGED <<engine, results, heard>>
  BY DEF StartPolling
<1>2. ASSUME NEW f \in active'
      PROVE  /\ f.profile # Unset =>
                   \E r \in Nominated(f.profile) : <<engine, r>> \in heard
             /\ f.sgbd = Unset
  <2>1. f \in Files /\ Satisfies(f)
    BY <1>1, <1>2
  <2>2. f.sgbd = Unset
    BY <2>1 DEF Satisfies, Identity
  <2>3. f.profile # Unset => f.profile \in Profiles /\ results[f.profile] = "compatible"
    BY <2>1 DEF Satisfies, Profiles
  <2> QED BY <1>1, <2>2, <2>3 DEF ConnectInv, Proven
<1> QED BY <1>1, <1>2 DEF ConnectInv, Proven, ActiveOnlyWhenProven

LEMMA ConnectStepInv == ConnectInv /\ [ConnectNext]_connectVars => ConnectInv'
<1> SUFFICES ASSUME ConnectInv, [ConnectNext]_connectVars PROVE ConnectInv'
  OBVIOUS
<1>1. CASE Connect
  BY <1>1 DEF Connect, ConnectInv, Proven, ActiveOnlyWhenProven
<1>2. CASE \/ PreferAnswers \/ PreferSilent \/ Broadcast \/ ProbeLikely
           \/ LikelyDone \/ ProbeSwept \/ SweepDone \/ Choose
  BY <1>2, SearchStep
<1>3. CASE \E p \in Profiles : \E r \in Nominated(p) : Prove(p, r)
  BY <1>3, ProveStep
<1>4. CASE StartPolling
  BY <1>4, StartPollingStep
<1>5. CASE LinkFails
  BY <1>5 DEF LinkFails, ConnectInv, Proven, ActiveOnlyWhenProven
<1>6. CASE UNCHANGED connectVars
  BY <1>6 DEF connectVars, ConnectInv, Proven, ActiveOnlyWhenProven
<1> QED BY <1>1, <1>2, <1>3, <1>4, <1>5, <1>6 DEF ConnectNext, ConnectStep

\* A file that requires a profile is polled only if a request nominated for the
\* profile was answered in its shape by this engine on this connection, and
\* one that requires an exact SGBD never is, for any cars, files, losses and
\* reconnects (variant.py:20-44, live.py:3121-3139).
THEOREM PolledIsProven == ConnectSpec => []ActiveOnlyWhenProven
<1>1. ConnectInit => ConnectInv
  BY DEF ConnectInit, ConnectInv, Proven, ActiveOnlyWhenProven
<1>2. ConnectInv => ActiveOnlyWhenProven
  BY DEF ConnectInv
<1> QED BY <1>1, <1>2, ConnectStepInv, PTL DEF ConnectSpec

-----------------------------------------------------------------------------
(* Decoding *)

\* What is loaded was found in order, and what came of it is a reading.
DecodingInv ==
  /\ text \in RequestTexts
  /\ stage \in {"loaded", "sent"} => RequestOk(text)
  /\ LoadedDecodes

LEMMA WidthIsNumber ==
  ASSUME NEW d \in DecoderTexts, DecodeOk(d) PROVE Width(d) \in Int
<1>1. d.length \in Optional(Int)
  BY DEF DecoderTexts
<1>2. d.type \in DOMAIN Fixed => Fixed[d.type] \in Int
  BY DEF Fixed
<1>3. Written(Width(d))
  BY DEF DecodeOk
<1> QED BY <1>1, <1>2, <1>3 DEF Width, Written, Optional

\* A decoder that loads and has none of the known gaps does not raise.
LEMMA NothingRaises ==
  ASSUME NEW d \in DecoderTexts, DecodeOk(d),
         ~(Written(d.shift) /\ d.shift < 0),
         ~(d.enum /\ d.type \in Variable \cup {"float32_be"})
  PROVE  ~Raises(d)
<1>1. Integral(d) \/ ~d.enum
  BY DEF Integral
<1>2. ~(Shift(d) < 0)
  <2>1. CASE Written(d.shift)
    BY <2>1 DEF Shift
  <2>2. CASE ~Written(d.shift)
    <3> DEFINE zeros == {n \in 1 .. Width(d) * 8 : d.mask % 2 ^ n = 0}
    <3>1. IsFiniteSet(1 .. Width(d) * 8)
      BY WidthIsNumber, FS_Interval
    <3>2. zeros \subseteq 1 .. Width(d) * 8
      OBVIOUS
    <3> HIDE DEF zeros
    <3>3. Cardinality(zeros) \in Nat
      BY <3>1, <3>2, FS_Subset, FS_CardinalityType
    <3>4. Shift(d) = Cardinality(zeros)
      BY <2>2 DEF Shift, TrailingZeros, zeros
    <3> QED BY <3>3, <3>4
  <2> QED BY <2>1, <2>2
<1> QED BY <1>1, <1>2 DEF Raises

LEMMA PrefixIsBytes ==
  ASSUME NEW r \in RequestTexts PROVE Prefix(r) \in Seq(Int)
<1>1. /\ r.prefix \in Optional(Seq(Int)) /\ r.service \in Optional(Int)
      /\ r.pid \in Optional(Int) /\ r.did \in Optional(Int)
  BY DEF RequestTexts
<1>2. CASE Written(r.prefix)
  BY <1>1, <1>2 DEF Prefix, Written, Optional
<1>3. CASE ~Written(r.prefix) /\ ~Written(Service(r))
  BY <1>3 DEF Prefix
<1>4. CASE ~Written(r.prefix) /\ Written(Service(r))
  <2> DEFINE sid == (Service(r) + 64) % 256
  <2>1. Service(r) \in Int
    BY <1>1, <1>4 DEF Service, Written, Optional
  <2>2. sid \in Int
    BY <2>1
  <2>3. <<sid>> \in Seq(Int)
    BY <2>2
  <2>4. Written(r.pid) => <<sid, r.pid>> \in Seq(Int)
    BY <1>1, <2>2 DEF Written, Optional
  <2>5. Written(r.did) => <<sid, r.did \div 256, r.did % 256>> \in Seq(Int)
    <3> SUFFICES ASSUME Written(r.did)
                 PROVE  <<sid, r.did \div 256, r.did % 256>> \in Seq(Int)
      OBVIOUS
    <3>1. r.did \in Int
      BY <1>1 DEF Written, Optional
    <3>2. r.did \div 256 \in Int /\ r.did % 256 \in Int
      BY <3>1
    <3> HIDE DEF sid
    <3> QED BY <2>2, <3>2
  <2>6. Prefix(r) \in {<<sid>>} \cup (IF Written(r.pid) THEN {<<sid, r.pid>>} ELSE {})
                       \cup (IF Written(r.did) THEN {<<sid, r.did \div 256, r.did % 256>>} ELSE {})
    BY <1>4 DEF Prefix
  <2> HIDE DEF sid
  <2> QED BY <2>3, <2>4, <2>5, <2>6
<1> QED BY <1>2, <1>3, <1>4

\* Of a request that loads the encoder makes a payload, of bytes if it is not
\* written out.
LEMMA PayloadIsBytes ==
  ASSUME NEW r \in RequestTexts, IdentifierOk(r)
  PROVE  /\ Payload(r) \in Seq(Int) /\ Payload(r) # <<>>
         /\ ~Written(r.payload) => \A i \in 1 .. Len(Payload(r)) : Payload(r)[i] \in 0 .. 255
<1>1. /\ r.payload \in Optional(Seq(Int)) /\ r.service \in Optional(Int)
      /\ r.pid \in Optional(Int) /\ r.did \in Optional(Int)
      /\ r.protocol \in {"obd", "uds", "raw"}
  BY DEF RequestTexts
<1>2. CASE Written(r.payload)
  BY <1>1, <1>2 DEF Payload, IdentifierOk, Written, Optional
<1>3. CASE ~Written(r.payload)
  <2>1. Service(r) \in Int /\ Service(r) % 256 \in 0 .. 255
    <3>1. Service(r) \in Int
      BY <1>1, <1>3 DEF IdentifierOk, Service, Written, Optional
    <3> QED BY <3>1
  <2>2. CASE r.protocol = "obd"
    <3>1. r.pid \in Int /\ r.pid % 256 \in 0 .. 255
      <4>1. r.pid \in Int
        BY <1>1, <1>3, <2>2 DEF IdentifierOk, Written, Optional
      <4> QED BY <4>1
    <3>2. Payload(r) = <<Service(r) % 256, r.pid % 256>>
      BY <1>3, <2>2 DEF Payload
    <3> QED BY <2>1, <3>1, <3>2
  <2>3. CASE r.protocol = "uds"
    <3>1. r.did \in Int
      BY <1>1, <1>3, <2>3 DEF IdentifierOk, Written, Optional
    <3>2. r.did % 256 \in 0 .. 255 /\ (r.did \div 256) % 256 \in 0 .. 255
      BY <3>1
    <3>3. Payload(r) = <<Service(r) % 256, (r.did \div 256) % 256, r.did % 256>>
      BY <1>3, <2>3 DEF Payload
    <3> QED BY <2>1, <3>2, <3>3
  <2>4. CASE r.protocol = "raw"
    <3> DEFINE first == Service(r) % 256
               second == r.pid % 256
    <3>1. Payload(r) = <<first>> \o (IF Written(r.pid) THEN <<second>> ELSE <<>>)
      BY <1>3, <2>4 DEF Payload
    <3>2. Written(r.pid) => second \in 0 .. 255
      <4>1. Written(r.pid) => r.pid \in Int
        BY <1>1 DEF Written, Optional
      <4> QED BY <4>1
    <3> HIDE DEF first, second
    <3>3. first \in 0 .. 255
      BY <2>1 DEF first
    <3>4. CASE Written(r.pid)
      <4>1. Payload(r) = <<first>> \o <<second>>
        BY <3>1, <3>4
      <4>2. <<first>> \in Seq(0 .. 255) /\ <<second>> \in Seq(0 .. 255)
        BY <3>2, <3>3, <3>4
      <4>3. Payload(r) \in Seq(0 .. 255) /\ Len(Payload(r)) = 2
        BY <4>1, <4>2, ConcatProperties
      <4>4. \A i \in 1 .. Len(Payload(r)) : Payload(r)[i] \in 0 .. 255
        BY <4>3, ElementOfSeq
      <4>5. <<first>> \in Seq(Int) /\ <<second>> \in Seq(Int)
        BY <3>2, <3>3, <3>4
      <4>6. Payload(r) \in Seq(Int)
        BY <4>1, <4>5, ConcatProperties
      <4>7. Payload(r) # << >>
        <5>1. Len(<< >>) = 0
          OBVIOUS
        <5>2. Len(Payload(r)) # 0
          BY <4>3
        <5> QED BY Zenon, <5>1, <5>2
      <4> QED BY <4>4, <4>6, <4>7
    <3>5. CASE ~Written(r.pid)
      <4>1. Payload(r) = <<first>> \o << >>
        BY <3>1, <3>5
      <4>2. Payload(r) = <<first>>
        BY <4>1
      <4> QED BY <1>3, <3>3, <4>2
    <3> QED BY <3>4, <3>5
  <2> QED BY <1>1, <2>2, <2>3, <2>4
<1> QED BY <1>2, <1>3

\* The heads an answer may have are made of bytes.
LEMMA HeadsAreBytes ==
  ASSUME NEW p \in Seq(Int), p # <<>> PROVE Structural(p) \subseteq Seq(Int)
<1> DEFINE n == EchoLength(p[1])
           sid == (p[1] + 64) % 256
           body == Tail(p)
           m == IF n < Len(body) THEN n ELSE Len(body)
           listed == {SubSeq(body, i * n + 1, i * n + n) : i \in 0 .. Len(body) \div n - 1}
           echo == IF p[1] \in ListServices THEN listed ELSE {SubSeq(body, 1, m)}
<1>1. p[1] \in Int /\ body \in Seq(Int)
  BY EmptySeq, HeadTailProperties
<1>2. sid \in Int /\ Len(body) \in Nat
  BY <1>1
<1>3. n \in {0, 1, 2, 3}
  BY DEF EchoLength
<1>4. p[1] \in ListServices => n \in {1, 2}
  BY DEF ListServices, EchoLength
<1> HIDE DEF n, body
<1>5. p[1] \in ListServices => listed \subseteq Seq(Int)
  <2> SUFFICES ASSUME n \in {1, 2}, NEW i \in 0 .. Len(body) \div n - 1
               PROVE  SubSeq(body, i * n + 1, i * n + n) \in Seq(Int)
    BY <1>4
  <2>1. i * n + 1 \in 1 .. Len(body) /\ i * n + n \in 1 .. Len(body)
    <3>1. CASE n = 1
      BY <1>2, <3>1
    <3>2. CASE n = 2
      BY <1>2, <3>2
    <3> QED BY <3>1, <3>2
  <2> QED BY <1>1, <1>2, <2>1, SubSeqProperties
<1>6. SubSeq(body, 1, m) \in Seq(Int)
  <2>1. m \in 0 .. Len(body)
    BY <1>2, <1>3
  <2> HIDE DEF m
  <2> QED BY <1>1, <2>1, SubSeqProperties
<1> HIDE DEF listed, m
<1>7. echo \subseteq Seq(Int)
  BY <1>5, <1>6
<1>8. Structural(p) = IF echo = {} THEN {<<sid>>} ELSE {<<sid>> \o e : e \in echo}
  BY DEF Structural, n, sid, body, m, listed, echo
<1> HIDE DEF echo, sid
<1>9. <<sid>> \in Seq(Int)
  BY <1>2
<1>10. \A e \in echo : <<sid>> \o e \in Seq(Int)
  BY <1>7, <1>9, ConcatProperties
<1> QED BY <1>8, <1>9, <1>10

LEMMA HeadsOf ==
  ASSUME NEW r \in RequestTexts, RequestOk(r) PROVE Expected(r) \subseteq Seq(Int)
<1>1. Prefix(r) \in Seq(Int) /\ Payload(r) \in Seq(Int) /\ Payload(r) # <<>>
  BY PrefixIsBytes, PayloadIsBytes DEF RequestOk
<1> QED BY <1>1, HeadsAreBytes DEF Expected

\* The answer the transport takes holds the whole window, and the window the
\* signal.
LEMMA AnswerIsRead ==
  ASSUME NEW r \in RequestTexts, RequestOk(r), Written(r.dataLength), ~KnownGaps(r),
         NEW response \in Seq(Int), IsAnswer(r, response)
  PROVE  Decoded(r, response).result = "reading"
<1> DEFINE d == r.decode
           from == PayloadOffset(r)
           to == from + r.dataLength
           window == SubSeq(response, from + 1, to)
           end == d.offset + Width(d)
<1>1. /\ d \in DecoderTexts /\ r.dataLength \in Int /\ r.minLength \in Int
      /\ r.payloadOffset \in Optional(Int) /\ Len(response) \in Nat
  BY DEF RequestTexts, Written, Optional
<1>2. DecodeOk(d) /\ WindowOk(r) /\ ResponseOk(r)
  BY DEF RequestOk
<1>3. from \in Nat /\ r.dataLength > 0
  <2>1. Prefix(r) \in Seq(Int)
    BY PrefixIsBytes
  <2>2. from \in Int
    BY <1>1, <2>1 DEF PayloadOffset, Written, Optional
  <2> QED BY <1>2, <2>2 DEF ResponseOk
<1>4. d.offset \in Int /\ Width(d) \in Int
  BY <1>1, <1>2, WidthIsNumber DEF DecoderTexts
<1>5. end \in Int /\ end <= r.dataLength
  BY <1>2, <1>4 DEF WindowOk
<1> HIDE DEF from, end
<1>6. to \in Nat /\ to <= MinLength(r)
  BY <1>1, <1>3 DEF MinLength, from
<1>7. MinLength(r) \in Int
  BY <1>1, <1>6 DEF MinLength, from
<1>8. Len(response) >= MinLength(r) /\ to <= Len(response)
  BY <1>1, <1>6, <1>7 DEF IsAnswer
<1>9. Len(window) = r.dataLength
  <2>1. from + 1 \in 1 .. Len(response) /\ to \in 1 .. Len(response)
    BY <1>1, <1>3, <1>8
  <2>2. \A i \in from + 1 .. to : response[i] \in Int
    BY <1>1, <1>3, <1>8
  <2>3. Len(window) = to - (from + 1) + 1
    <3>1. from + 1 \in Int /\ to \in Int /\ from + 1 <= to + 1
      BY <1>1, <1>3, <1>6
    <3> HIDE DEF to
    <3> QED BY <2>2, <3>1, SubSeqProperties
  <2> QED BY <1>1, <1>3, <2>3
<1>10. IsPrefix(Prefix(r), response)
  <2>1. CASE Prefix(r) = <<>>
    <3>1. SubSeq(response, 1, 0) = <<>> /\ Len(<<>>) = 0
      BY SubSeqProperties
    <3>2. SubSeq(<<>>, 1, 0) = <<>>
      OBVIOUS
    <3> QED BY <1>1, <2>1, <3>1, <3>2 DEF IsPrefix
  <2>2. CASE Prefix(r) # <<>>
    BY <2>2 DEF IsAnswer, Expected
  <2> QED BY <2>1, <2>2
<1>11. ~Raises(d)
  BY <1>1, <1>2, NothingRaises DEF KnownGaps
<1>12. ReadValue(d, window).result = "reading"
  <2> HIDE DEF window
  <2>1. ~(end > Len(window))
    BY <1>1, <1>5, <1>9
  <2> QED BY <1>11, <2>1 DEF ReadValue, Outcome, end
<1>13. Decoded(r, response) = ReadValue(d, window)
  <2>1. ~(Len(response) < MinLength(r)) /\ (IF to < Len(response) THEN to ELSE Len(response)) = to
    BY <1>1, <1>6, <1>7, <1>8
  <2> QED BY <1>10, <2>1 DEF Decoded, from
<1> QED BY <1>12, <1>13

LEMMA LoadStep == ASSUME DecodingInv, LoadRequest PROVE DecodingInv'
BY DEF DecodingInv, LoadRequest, LoadedDecodes

LEMMA SendStep == ASSUME DecodingInv, SendRequest PROVE DecodingInv'
<1>1. text \in RequestTexts /\ RequestOk(text) /\ text' = text
  BY DEF DecodingInv, SendRequest
<1>2. CASE \E i \in 1 .. Len(Payload(text)) : Payload(text)[i] \notin 0 .. 255
  <2>1. Written(text.payload)
    BY <1>1, <1>2, PayloadIsBytes DEF RequestOk
  <2>2. KnownGaps(text)
    BY <1>2, <2>1 DEF KnownGaps, Payload
  <2>3. stage' = "decoded"
    BY <1>2 DEF SendRequest
  <2> QED BY <1>1, <2>2, <2>3 DEF DecodingInv, LoadedDecodes
<1>3. CASE ~\E i \in 1 .. Len(Payload(text)) : Payload(text)[i] \notin 0 .. 255
  <2>1. stage' \in {"sent", "blocked"}
    BY <1>3 DEF SendRequest
  <2> QED BY <1>1, <2>1 DEF DecodingInv, LoadedDecodes
<1> QED BY <1>2, <1>3

LEMMA TakeStep == ASSUME DecodingInv, TakeAnswer PROVE DecodingInv'
<1>1. /\ text \in RequestTexts /\ RequestOk(text) /\ text' = text /\ stage' = "decoded"
  BY DEF DecodingInv, TakeAnswer
<1>2. PICK head \in Expected(text), tail \in Tails :
        IsAnswer(text, head \o tail) /\ outcome' = Decoded(text, head \o tail)
  BY DEF TakeAnswer
<1>3. head \o tail \in Seq(Int)
  BY <1>1, HeadsOf, DecodingAssumption, ConcatProperties
<1>4. Written(text.dataLength) /\ ~KnownGaps(text) => outcome'.result = "reading"
  BY <1>1, <1>2, <1>3, AnswerIsRead
<1> QED BY <1>1, <1>4 DEF DecodingInv, LoadedDecodes

\* A request that loaded, declares how long its answer is and has none of the
\* known gaps decodes every answer the transport takes for its own, for any
\* requests and answers (loader.py:1-8, 1120-1135, decoder.py:349-356).
THEOREM LoadedRequestsDecode == DecodeSpec => []LoadedDecodes
<1>1. DecodeInit => DecodingInv
  BY DecodingAssumption DEF DecodeInit, DecodingInv, LoadedDecodes
<1>2. DecodingInv /\ [DecodeNext]_decodeVars => DecodingInv'
  <2> SUFFICES ASSUME DecodingInv, [DecodeNext]_decodeVars PROVE DecodingInv'
    OBVIOUS
  <2>1. CASE UNCHANGED decodeVars
    BY <2>1 DEF decodeVars, DecodingInv, LoadedDecodes
  <2> QED BY <2>1, LoadStep, SendStep, TakeStep DEF DecodeNext
<1>3. DecodingInv => LoadedDecodes
  BY DEF DecodingInv
<1> QED BY <1>1, <1>2, <1>3, PTL DEF DecodeSpec

-----------------------------------------------------------------------------
(* Workbench *)

Exchanges == {"count", "report", "detail"}
Names == {c.id : c \in Listed} \cup {Stray} \cup Exchanges
Evidence == [request : Names, refused : BOOLEAN, source : Names,
             outcome : {"decoded", "decode_error", "negative_response", "ok",
                        "unparsed", "no_response"}]

JobSteps == {"idle", "clear", "define", "poll", "next", "read", "write", "ended"}
Jobs == [cmd : {"none", "run", "sweep", "dtc"}, list : Seq(Listed \cup Exchanges),
         at : Nat, step : JobSteps, refused : BOOLEAN, round : Nat]

BenchTypes ==
  /\ slot \in [Ecus -> Seq(Names)]
  /\ job \in Jobs
  /\ records \in Seq(Evidence) /\ sent \in Nat

\* Where the steps of a command can be: a request in hand is one of its list.
InCommand ==
  /\ job.step \in {"clear", "define", "poll", "next"} =>
       job.cmd # "dtc" /\ job.list \in Candidates /\ job.at \in DOMAIN job.list
  /\ job.step = "idle" => records = <<>> /\ sent = 0 /\ job.cmd = "none"
  /\ job.step = "read" => job.cmd = "dtc" /\ job.list \in Seq(Exchanges)

\* As long as no frame of its set-up was refused, the ECU of the request in hand
\* has forgotten every definition once it was told to, and then has this one.
Armed ==
  ~job.refused =>
    /\ job.step = "define" => slot[Destination(Current)] = <<>>
    /\ job.step = "poll" /\ Current.dynamic =>
         slot[Destination(Current)] = <<Current.id>>

\* A readout has a record of every exchange, and ends only after writing.
Readout ==
  job.cmd = "dtc" => /\ Len(records) = sent
                     /\ job.step \in {"read", "write", "ended"}
                     /\ job.step = "ended" => artifacts = "written"

BenchInv == BenchTypes /\ InCommand /\ Armed /\ Readout /\ EvidenceIsOwn

\* The request in hand is one of the file's, for an ECU that exists.
LEMMA InHand ==
  ASSUME BenchInv, job.step \in {"clear", "define", "poll", "next"}
  PROVE  /\ Current \in Listed /\ Current.id \in Names
         /\ Current.dynamic \in BOOLEAN /\ Destination(Current) \in Ecus
<1>1. job.list \in Candidates /\ job.at \in DOMAIN job.list
  BY DEF BenchInv, InCommand
<1>2. Current \in Listed
  BY <1>1 DEF Current, Listed
<1> QED BY <1>2, CandidatesAssumption DEF Names, Destination

\* Only the step of a command changes.
LEMMA Moves ==
  ASSUME BenchInv, NEW st \in JobSteps, job' = [job EXCEPT !.step = st]
  PROVE  /\ job' \in Jobs /\ job'.step = st
         /\ job'.cmd = job.cmd /\ job'.list = job.list /\ job'.at = job.at
         /\ job'.refused = job.refused
BY DEF BenchInv, BenchTypes, Jobs

\* One more record, of evidence that is the request's own or says it need not be.
LEMMA OneMore ==
  ASSUME BenchInv, NEW e \in Evidence, records' = Append(records, e),
         e.outcome = "decoded" /\ ~e.refused => e.source = e.request
  PROVE  records' \in Seq(Evidence) /\ Len(records') = Len(records) + 1 /\ EvidenceIsOwn'
<1>1. /\ records \in Seq(Evidence)
      /\ Len(records') = Len(records) + 1 /\ records' \in Seq(Evidence)
      /\ records'[Len(records) + 1] = e
      /\ \A i \in DOMAIN records : records'[i] = records[i]
  BY DEF BenchInv, BenchTypes
<1>2. \A i \in DOMAIN records' : i \in DOMAIN records \/ i = Len(records) + 1
  BY <1>1
<1> QED BY <1>1, <1>2 DEF BenchInv, EvidenceIsOwn

LEMMA BeginStep == ASSUME BenchInv, Begin PROVE BenchInv'
<1>1. /\ job.step = "idle" /\ UNCHANGED <<slot, records, sent, artifacts>>
      /\ records = <<>> /\ sent = 0
  BY DEF Begin, BenchInv, InCommand
<1>2. PICK cmd \in {"run", "sweep"}, list \in Candidates :
        \/ job' = [Idle EXCEPT !.cmd = cmd, !.list = list, !.at = 1, !.step = Arm(list[1])]
        \/ job' = [Idle EXCEPT !.cmd = cmd, !.step = "ended"]
  BY DEF Begin
<1>3. /\ list \in Seq(Listed) /\ list # <<>> /\ 1 \in DOMAIN list
      /\ list \in Seq(Listed \cup Exchanges)
  BY CandidatesAssumption
<1>4. list[1] \in Listed
  BY <1>3
<1>5. Arm(list[1]) \in {"clear", "poll"} /\ (list[1].dynamic => Arm(list[1]) = "clear")
  BY DEF Arm, FirstStep
<1>6. CASE job' = [Idle EXCEPT !.cmd = cmd, !.list = list, !.at = 1, !.step = Arm(list[1])]
  <2>1. /\ job'.cmd = cmd /\ job'.list = list /\ job'.at = 1 /\ job'.step = Arm(list[1])
        /\ BenchTypes'
    BY <1>1, <1>3, <1>5, <1>6 DEF Idle, BenchInv, BenchTypes, Jobs, JobSteps
  <2>2. InCommand' /\ Readout'
    BY <1>3, <1>5, <2>1 DEF InCommand, Readout
  <2>3. Armed'
    BY <1>5, <2>1 DEF Armed, Current
  <2> QED BY <1>1, <2>1, <2>2, <2>3 DEF BenchInv, EvidenceIsOwn
<1>7. CASE job' = [Idle EXCEPT !.cmd = cmd, !.step = "ended"]
  <2>0. <<>> \in Seq(Listed \cup Exchanges)
    OBVIOUS
  <2>1. job'.cmd = cmd /\ job'.step = "ended" /\ BenchTypes'
    BY <1>1, <1>7, <2>0 DEF Idle, BenchInv, BenchTypes, Jobs, JobSteps
  <2> QED BY <1>1, <2>1 DEF BenchInv, InCommand, Readout, Armed, EvidenceIsOwn
<1> QED BY <1>2, <1>6, <1>7

LEMMA BeginReadoutStep == ASSUME BenchInv, BeginReadout PROVE BenchInv'
<1>1. /\ job.step = "idle" /\ UNCHANGED <<slot, records, sent, artifacts>>
      /\ records = <<>> /\ sent = 0
  BY DEF BeginReadout, BenchInv, InCommand
<1>2. PICK count \in BOOLEAN :
        job' = [Idle EXCEPT !.cmd = "dtc", !.step = "read",
                  !.list = (IF count THEN <<"count">> ELSE <<>>) \o <<"report">>]
  BY Zenon DEF BeginReadout
<1> DEFINE first == IF count THEN <<"count">> ELSE <<>>
           list == first \o <<"report">>
<1>3. first \in {<<"count">>, <<>>}
  BY Zenon
<1>4. <<"count">> \in Seq(Exchanges) /\ <<>> \in Seq(Exchanges)
  BY DEF Exchanges
<1>5. <<"report">> \in Seq(Exchanges)
  BY DEF Exchanges
<1>6. first \in Seq(Exchanges)
  BY <1>3, <1>4
<1>7. job' = [Idle EXCEPT !.cmd = "dtc", !.step = "read", !.list = list]
  BY Zenon, <1>2
<1> HIDE DEF first
<1>8. list \in Seq(Exchanges)
  BY <1>5, <1>6
<1>9. list \in Seq(Exchanges) /\ list \in Seq(Listed \cup Exchanges)
  BY <1>8
<1> HIDE DEF list
<1>10. job'.cmd = "dtc" /\ job'.step = "read" /\ job'.list = list /\ BenchTypes'
  BY <1>1, <1>9, <1>7 DEF Idle, BenchInv, BenchTypes, Jobs, JobSteps
<1> QED BY <1>1, <1>9, <1>10 DEF BenchInv, InCommand, Readout, Armed, EvidenceIsOwn

\* A frame of the set-up is executed and answered, refused, or lost.
LEMMA SetUpStep == ASSUME BenchInv, SetUp PROVE BenchInv'
<1>1. job.step \in {"clear", "define"} /\ sent' = sent + 1
      /\ UNCHANGED <<records, artifacts>>
  BY DEF SetUp
<1>2. /\ Current.id \in Names /\ Destination(Current) \in Ecus
      /\ job.cmd # "dtc" /\ job.list \in Candidates /\ job.at \in DOMAIN job.list
  BY <1>1, InHand DEF BenchInv, InCommand
<1> DEFINE to == Destination(Current)
           id == Current.id
<1>3. slot \in [Ecus -> Seq(Names)] /\ slot[to] \in Seq(Names)
  BY <1>2 DEF BenchInv, BenchTypes
<1>4. PICK fate \in Fates :
        /\ slot' = IF fate \in {"answered", "answer lost"}
                   THEN Executed(to, job.step, id) ELSE slot
        /\ job' = IF fate \in {"lost", "answer lost"} THEN [job EXCEPT !.step = "ended"]
                  ELSE [job EXCEPT !.step = IF @ = "clear" THEN "define" ELSE "poll",
                                   !.refused = @ \/ fate = "refused"]
  BY DEF SetUp
<1>5. slot' \in [Ecus -> Seq(Names)]
  <2>1. <<>> \in Seq(Names) /\ Append(slot[to], id) \in Seq(Names)
    BY <1>2, <1>3
  <2> QED BY <1>3, <1>4, <2>1 DEF Executed
<1>6. EvidenceIsOwn'
  BY <1>1 DEF BenchInv, EvidenceIsOwn
<1>7. CASE fate \in {"lost", "answer lost"}
  <2>1. job' = [job EXCEPT !.step = "ended"]
    BY <1>4, <1>7
  <2>2. job'.step = "ended" /\ job'.cmd = job.cmd /\ job' \in Jobs
    BY <2>1, Moves DEF JobSteps
  <2>3. BenchTypes'
    BY <1>1, <1>5, <2>2 DEF BenchInv, BenchTypes
  <2> QED BY <1>2, <1>6, <2>2, <2>3 DEF BenchInv, InCommand, Armed, Readout
<1>8. CASE fate \in {"answered", "refused"}
  <2>1. job' = [job EXCEPT !.step = IF @ = "clear" THEN "define" ELSE "poll",
                           !.refused = @ \/ fate = "refused"]
    BY <1>4, <1>8
  <2>2. (job.refused \/ fate = "refused") \in BOOLEAN
    OBVIOUS
  <2>3. /\ job'.step = (IF job.step = "clear" THEN "define" ELSE "poll")
        /\ job'.cmd = job.cmd /\ job'.list = job.list /\ job'.at = job.at
        /\ job' \in Jobs
    BY <1>1, <2>1, <2>2 DEF BenchInv, BenchTypes, Jobs, JobSteps
  <2>4. job'.refused = (job.refused \/ fate = "refused")
    BY <2>1 DEF BenchInv, BenchTypes, Jobs
  <2>5. BenchTypes'
    BY <1>1, <1>5, <2>3 DEF BenchInv, BenchTypes
  <2>6. InCommand' /\ Readout'
    BY <1>1, <1>2, <2>3 DEF InCommand, Readout
  <2>7. Current' = Current /\ Destination(Current)' = to
    BY <2>3 DEF Current, Destination
  <2>8. ASSUME ~job'.refused
        PROVE  slot' = Executed(to, job.step, id) /\ ~job.refused
    <3>1. ~job.refused /\ fate # "refused"
      BY Zenon, <2>4, <2>8
    <3> QED BY <1>4, <1>8, <3>1
  <2>9. Armed'
    <3> SUFFICES ASSUME ~job'.refused
                 PROVE  /\ job'.step = "define" => slot'[to] = <<>>
                        /\ job'.step = "poll" => slot'[to] = <<id>>
      BY <2>7 DEF Armed
    <3>1. slot' = Executed(to, job.step, id) /\ ~job.refused
      BY <2>8
    <3>2. CASE job.step = "clear"
      BY <1>2, <1>3, <2>3, <3>1, <3>2 DEF Executed
    <3>3. CASE job.step = "define"
      <4>1. slot[to] = <<>>
        BY <3>1, <3>3 DEF BenchInv, Armed
      <4>2. slot'[to] = Append(slot[to], id)
        BY <1>2, <1>3, <3>1, <3>3 DEF Executed
      <4> QED BY <2>3, <3>3, <4>1, <4>2
    <3> QED BY <1>1, <3>2, <3>3
  <2> QED BY <1>6, <2>5, <2>6, <2>9 DEF BenchInv
<1> QED BY <1>7, <1>8 DEF Fates

\* What is noted of an answer, or left out of a sweep.
LEMMA NotedStep ==
  ASSUME BenchInv, job.step = "poll", NEW source \in Names,
         NEW fate \in {"decoded", "decode_error", "negative_response"},
         fate = "decoded" /\ ~job.refused => source = Current.id,
         Noted(Current, fate, source)
  PROVE  records' \in Seq(Evidence) /\ EvidenceIsOwn'
<1> DEFINE e == [request |-> Current.id, outcome |-> fate, source |-> source,
                 refused |-> job.refused]
<1>1. records' = records \/ records' = Append(records, e)
  BY DEF Noted
<1>2. CASE records' = records
  BY <1>2 DEF BenchInv, BenchTypes, EvidenceIsOwn
<1>3. CASE records' = Append(records, e)
  <2>1. job.refused \in BOOLEAN /\ Current.id \in Names
    BY InHand DEF BenchInv, BenchTypes, Jobs
  <2>2. e \in Evidence /\ e.outcome = fate /\ e.source = source
        /\ e.request = Current.id
    BY <2>1 DEF Evidence
  <2>3. e.refused = job.refused
    OBVIOUS
  <2>4. e.outcome = "decoded" /\ ~e.refused => e.source = e.request
    BY Zenon, <2>2, <2>3
  <2> HIDE DEF e
  <2> QED BY <1>3, <2>2, <2>4, OneMore
<1> QED BY <1>1, <1>2, <1>3

\* A poll answered with the request's own data, or with those of a definition
\* that a refused frame left in front of it.
LEMMA PollOnceStep == ASSUME BenchInv, PollOnce PROVE BenchInv'
<1>1. job.step = "poll" /\ sent' = sent + 1 /\ UNCHANGED <<slot, artifacts>>
  BY DEF PollOnce
<1>2. /\ Current.id \in Names /\ Destination(Current) \in Ecus
      /\ Current.dynamic \in BOOLEAN /\ job.cmd # "dtc"
      /\ job.list \in Candidates /\ job.at \in DOMAIN job.list
  BY <1>1, InHand DEF BenchInv, InCommand
<1>3. slot[Destination(Current)] \in Seq(Names)
  BY <1>2 DEF BenchInv, BenchTypes
<1>4. ASSUME NEW st \in {"next", "ended"}, job' = [job EXCEPT !.step = st],
             records' \in Seq(Evidence), EvidenceIsOwn'
      PROVE  BenchInv'
  <2>1. /\ job' \in Jobs /\ job'.step = st /\ job'.cmd = job.cmd
        /\ job'.list = job.list /\ job'.at = job.at
    BY <1>4, Moves DEF JobSteps
  <2>2. BenchTypes'
    BY <1>1, <1>4, <2>1 DEF BenchInv, BenchTypes
  <2>3. InCommand' /\ Armed' /\ Readout'
    BY <1>2, <1>4, <2>1 DEF InCommand, Armed, Readout
  <2> QED BY <1>4, <2>2, <2>3 DEF BenchInv
<1>5. ASSUME NEW answer \in Answers(Current)
      PROVE  /\ answer[1] \in {"decoded", "decode_error"} /\ answer[2] \in Names
             /\ answer[1] = "decoded" /\ ~job.refused => answer[2] = Current.id
  <2>1. CASE ~Current.dynamic
    BY <1>2, <1>5, <2>1 DEF Answers
  <2>2. CASE Current.dynamic
    <3>1. slot[Destination(Current)] # <<>>
      BY <1>5, <2>2 DEF Answers
    <3> DEFINE first == Head(slot[Destination(Current)])
    <3>2. first \in Names
      BY <1>3, <3>1
    <3>3. answer \in {<<"decoded", first>>, <<"decode_error", first>>}
      BY <1>5, <2>2, <3>1 DEF Answers
    <3>4. ~job.refused => first = Current.id
      BY <1>1, <2>2 DEF BenchInv, Armed
    <3> HIDE DEF first
    <3> QED BY <3>2, <3>3, <3>4
  <2> QED BY <1>2, <2>1, <2>2
<1>6. CASE \E answer \in Answers(Current) :
             /\ Noted(Current, answer[1], answer[2])
             /\ job' = [job EXCEPT !.step = "next"]
  <2>1. PICK answer \in Answers(Current) : /\ Noted(Current, answer[1], answer[2])
                                          /\ job' = [job EXCEPT !.step = "next"]
    BY <1>6
  <2>2. records' \in Seq(Evidence) /\ EvidenceIsOwn'
    BY <1>1, <1>5, <2>1, NotedStep
  <2> QED BY <1>4, <2>1, <2>2
<1>7. CASE Noted(Current, "negative_response", Current.id) /\ job' = [job EXCEPT !.step = "next"]
  <2>1. records' \in Seq(Evidence) /\ EvidenceIsOwn'
    BY <1>1, <1>2, <1>7, NotedStep
  <2> QED BY <1>4, <1>7, <2>1
<1>8. CASE job' = [job EXCEPT !.step = "ended"] /\ UNCHANGED records
  <2>1. records' \in Seq(Evidence) /\ EvidenceIsOwn'
    BY <1>8 DEF BenchInv, BenchTypes, EvidenceIsOwn
  <2> QED BY <1>4, <1>8, <2>1
<1> QED BY <1>6, <1>7, <1>8 DEF PollOnce

\* What `run` tidies up leaves sequences of names.
LEMMA TidiedTypes ==
  ASSUME BenchInv, job.step = "next", slot' \in Tidied
  PROVE  slot' \in [Ecus -> Seq(Names)]
<1>1. <<>> \in Seq(Names)
  OBVIOUS
<1> QED BY <1>1, InHand DEF Tidied, BenchInv, BenchTypes

\* The next request, of this round or the next one, starts with its own set-up.
LEMMA NextRequestStep == ASSUME BenchInv, NextRequest PROVE BenchInv'
<1>1. /\ job.step = "next" /\ slot' \in [Ecus -> Seq(Names)]
      /\ UNCHANGED <<records, sent, artifacts>>
  BY TidiedTypes DEF NextRequest
<1>2. /\ job.cmd # "dtc" /\ job.list \in Candidates /\ job.at \in DOMAIN job.list
      /\ job.list \in Seq(Listed) /\ job.list # <<>> /\ job \in Jobs
  BY <1>1, CandidatesAssumption DEF BenchInv, InCommand, BenchTypes
<1>3. EvidenceIsOwn' /\ records' \in Seq(Evidence) /\ sent' \in Nat
  BY <1>1 DEF BenchInv, BenchTypes, EvidenceIsOwn
<1>4. ASSUME NEW i \in DOMAIN job.list, NEW n \in Nat,
             job' = [job EXCEPT !.at = i, !.step = Arm(job.list[i]), !.refused = FALSE,
                                !.round = n]
      PROVE  BenchInv'
  <2>1. i \in Nat /\ job.list[i] \in Listed
    BY <1>2
  <2>2. Arm(job.list[i]) \in {"clear", "poll"}
        /\ (job.list[i].dynamic => Arm(job.list[i]) = "clear")
    BY DEF Arm, FirstStep
  <2>3. /\ job' \in Jobs /\ job'.cmd = job.cmd /\ job'.list = job.list
        /\ job'.at = i /\ job'.step = Arm(job.list[i])
    BY <1>2, <1>4, <2>1, <2>2 DEF Jobs, JobSteps
  <2>4. BenchTypes' /\ InCommand' /\ Readout'
    BY <1>1, <1>2, <1>3, <2>2, <2>3 DEF BenchTypes, InCommand, Readout
  <2>5. Armed'
    BY <2>2, <2>3 DEF Armed, Current
  <2> QED BY <1>3, <2>4, <2>5 DEF BenchInv
<1>5. CASE job.at < Len(job.list)
  <2>1. job.at + 1 \in DOMAIN job.list
    BY <1>2, <1>5
  <2>2. job' = [job EXCEPT !.at = @ + 1, !.step = Arm(job.list[job.at + 1]), !.refused = FALSE]
    BY <1>5 DEF NextRequest, MoveOn
  <2>3. job' = [job EXCEPT !.at = job.at + 1, !.step = Arm(job.list[job.at + 1]),
                           !.refused = FALSE, !.round = job.round]
    BY <1>2, <2>2 DEF Jobs
  <2> QED BY <1>2, <1>4, <2>1, <2>3 DEF Jobs
<1>6. CASE job' = [job EXCEPT !.at = 1, !.step = Arm(job.list[1]), !.refused = FALSE, !.round = @ + 1]
  <2>1. 1 \in DOMAIN job.list /\ job.round + 1 \in Nat
    BY <1>2 DEF Jobs
  <2>2. job' = [job EXCEPT !.at = 1, !.step = Arm(job.list[1]), !.refused = FALSE,
                           !.round = job.round + 1]
    BY <1>6
  <2> QED BY <1>4, <2>1, <2>2
<1>7. CASE job' = [job EXCEPT !.step = "write"]
  <2>1. job' \in Jobs /\ job'.step = "write" /\ job'.cmd = job.cmd
    BY <1>7, Moves DEF JobSteps
  <2> QED BY <1>1, <1>2, <1>3, <2>1 DEF BenchInv, BenchTypes, InCommand, Armed, Readout
<1> QED BY <1>5, <1>6, <1>7 DEF NextRequest, MoveOn

\* Every exchange of a readout, failed or not, leaves a record and maybe more
\* exchanges to come.
LEMMA ReadMemoryStep == ASSUME BenchInv, ReadMemory PROVE BenchInv'
<1>1. /\ job.step = "read" /\ job.list # <<>> /\ sent' = sent + 1
      /\ UNCHANGED <<slot, artifacts>>
  BY DEF ReadMemory
<1>2. job.cmd = "dtc" /\ job.list \in Seq(Exchanges) /\ job \in Jobs
      /\ Len(records) = sent
  BY <1>1 DEF BenchInv, InCommand, BenchTypes, Readout
<1>3. Head(job.list) \in Exchanges /\ Tail(job.list) \in Seq(Exchanges)
  BY <1>1, <1>2
<1>4. PICK fate \in {"ok", "unparsed", "negative_response", "no_response"},
           detail \in BOOLEAN :
        /\ job' = IF fate = "no_response" THEN NoResponse
                  ELSE [job EXCEPT !.list = Tail(@) \o
                         IF fate = "ok" /\ Head(@) = "report" /\ detail
                         THEN Details(Faults) ELSE <<>>]
        /\ records' = Append(records, [request |-> Head(job.list), outcome |-> fate,
                                      source |-> Head(job.list), refused |-> FALSE])
  BY DEF ReadMemory
<1>5. PICK no \in BOOLEAN : no = FALSE
  BY Zenon
<1> DEFINE e == [request |-> Head(job.list), outcome |-> fate,
                 source |-> Head(job.list), refused |-> no]
<1>6. records' = Append(records, e)
  BY Zenon, <1>4, <1>5
<1>7. e \in Evidence /\ e.source = e.request
  BY <1>3 DEF Evidence, Names
<1>8. records' \in Seq(Evidence) /\ Len(records') = Len(records) + 1 /\ EvidenceIsOwn'
  <2> HIDE DEF e
  <2> QED BY <1>6, <1>7, OneMore
<1>9. Details(Faults) \in Seq(Exchanges) /\ <<>> \in Seq(Exchanges)
  <2> DEFINE m == 2 * Faults
  <2>1. m \in Nat
    BY CandidatesAssumption
  <2>2. \A n \in Nat : [i \in 1 .. n |-> "detail"] \in Seq(Exchanges)
    BY DEF Exchanges
  <2>3. <<>> \in Seq(Exchanges)
    OBVIOUS
  <2>4. Details(Faults) = <<>> \/ Details(Faults) = [i \in 1 .. m |-> "detail"]
    BY Zenon DEF Details
  <2> HIDE DEF m
  <2> QED BY <2>1, <2>2, <2>3, <2>4
<1>10. PICK list \in Seq(Exchanges) : job' = [job EXCEPT !.list = list]
  <2>1. CASE fate = "no_response"
    BY <1>3, <1>4, <2>1 DEF NoResponse, AfterFailure
  <2>2. CASE fate # "no_response"
    <3> DEFINE more == IF fate = "ok" /\ Head(job.list) = "report" /\ detail
                       THEN Details(Faults) ELSE <<>>
    <3>1. more \in Seq(Exchanges)
      BY <1>9
    <3>2. job' = [job EXCEPT !.list = Tail(job.list) \o more]
      BY <1>4, <2>2
    <3> HIDE DEF more
    <3>3. Tail(job.list) \o more \in Seq(Exchanges)
      BY <1>3, <3>1
    <3> QED BY <3>2, <3>3
  <2> QED BY <2>1, <2>2
<1>11. list \in Seq(Listed \cup Exchanges)
  OBVIOUS
<1>12. job' \in Jobs /\ job'.step = "read" /\ job'.cmd = "dtc" /\ job'.list = list
  BY <1>1, <1>2, <1>10, <1>11 DEF Jobs
<1>13. sent' \in Nat /\ Len(records') = sent'
  BY <1>1, <1>2, <1>8 DEF BenchInv, BenchTypes
<1> QED BY <1>1, <1>8, <1>12, <1>13
        DEF BenchInv, BenchTypes, InCommand, Armed, Readout

\* What ends a command: asking for no more, and writing.
LEMMA EndStep ==
  ASSUME BenchInv, StopEarly \/ ReadoutDone \/ WriteArtifacts PROVE BenchInv'
<1>1. UNCHANGED <<records, sent>>
  BY DEF StopEarly, ReadoutDone, WriteArtifacts
<1>2. EvidenceIsOwn' /\ records' \in Seq(Evidence) /\ sent' \in Nat
  BY <1>1 DEF BenchInv, BenchTypes, EvidenceIsOwn
<1>3. slot' \in [Ecus -> Seq(Names)]
  BY TidiedTypes DEF StopEarly, ReadoutDone, WriteArtifacts, BenchInv, BenchTypes
<1>4. CASE StopEarly \/ ReadoutDone
  <2>1. job' \in Jobs /\ job'.step = "write" /\ job'.cmd = job.cmd
    BY <1>4, Moves DEF StopEarly, ReadoutDone, JobSteps
  <2>2. artifacts' = artifacts
    BY <1>4 DEF StopEarly, ReadoutDone
  <2> QED BY <1>1, <1>2, <1>3, <2>1, <2>2
          DEF BenchInv, BenchTypes, InCommand, Armed, Readout
<1>5. CASE WriteArtifacts
  <2>1. job' \in Jobs /\ job'.step = "ended" /\ job'.cmd = job.cmd
    BY <1>5, Moves DEF WriteArtifacts, JobSteps
  <2>2. artifacts' = "written"
    BY <1>5 DEF WriteArtifacts
  <2> QED BY <1>1, <1>2, <1>3, <2>1, <2>2
          DEF BenchInv, BenchTypes, InCommand, Armed, Readout
<1> QED BY <1>4, <1>5

LEMMA BenchStepInv == BenchInv /\ [BenchNext]_benchVars => BenchInv'
<1>1. BenchInv /\ UNCHANGED benchVars => BenchInv'
  BY DEF benchVars, BenchInv, BenchTypes, InCommand, Armed, Readout, EvidenceIsOwn,
         Current, Destination
<1> QED BY <1>1, BeginStep, BeginReadoutStep, SetUpStep, PollOnceStep, NextRequestStep,
           ReadMemoryStep, EndStep DEF BenchNext

LEMMA BenchInitInv == BenchInit => BenchInv
<1> SUFFICES ASSUME BenchInit PROVE BenchInv
  OBVIOUS
<1>1. /\ slot \in [Ecus -> {<<>>, <<Stray>>}] /\ job = Idle
      /\ records = <<>> /\ sent = 0
  BY DEF BenchInit
<1>2. {<<>>, <<Stray>>} \subseteq Seq(Names)
  BY DEF Names
<1>3. PICK no \in BOOLEAN : no = FALSE
  BY Zenon
<1>4. job = [cmd |-> "none", list |-> <<>>, at |-> 0, step |-> "idle", refused |-> no,
             round |-> 0]
  BY Zenon, <1>1, <1>3 DEF Idle
<1>5. job \in Jobs /\ job.step = "idle" /\ job.cmd = "none"
  BY <1>4 DEF Jobs, JobSteps
<1>6. records \in Seq(Evidence) /\ DOMAIN records = {}
  BY <1>1
<1> QED BY <1>1, <1>2, <1>5, <1>6
        DEF BenchInv, BenchTypes, InCommand, Armed, Readout, EvidenceIsOwn

\* A value that decoded after a set-up no frame of which was refused is what the
\* request's own definition reads, for any requests, ECUs and rounds, whatever
\* an earlier request or session left in the ECU and whichever frames were lost
\* (validate_candidate.py:552-560, 667-680, 741-753).
THEOREM EvidenceIsTheRequests == BenchSpec => []EvidenceIsOwn
<1>1. BenchInv => EvidenceIsOwn
  BY DEF BenchInv
<1> QED BY <1>1, BenchInitInv, BenchStepInv, PTL DEF BenchSpec

\* A fault readout that touched the car is kept, exchange by exchange, whatever
\* the car did and however many faults it holds (dtc.py:74-84, 86-125, 277-297).
THEOREM ReadoutsAreKept == BenchSpec => []ReadoutKept
<1>1. BenchInv => ReadoutKept
  BY DEF BenchInv, Readout, ReadoutKept
<1> QED BY <1>1, BenchInitInv, BenchStepInv, PTL DEF BenchSpec

-----------------------------------------------------------------------------
(* Report *)

\* What a run and the owner say of the filter is true or vague.
ReportInv ==
  /\ fitted \in [then : BOOLEAN, today : BOOLEAN]
  /\ drive.hardware # Unsaid /\ State(drive.hardware) = "present" => fitted.then
  /\ State(today) = "present" => fitted.today

LEMMA TruthIsPresent ==
  ASSUME NEW said, NEW there \in BOOLEAN, Truthful(said, there), State(said) = "present"
  PROVE  there
BY DEF Truthful

\* A fingerprint says what was declared when it was taken.
LEMMA FingerprintSays ==
  ASSUME NEW said, State(Fingerprint(said)) = "present", Fingerprint(said) # Unsaid
  PROVE  State(said) = "present"
BY DEF Fingerprint, State

LEMMA ReportInitInv == ReportInit => ReportInv
<1> SUFFICES ASSUME ReportInit PROVE ReportInv
  OBVIOUS
<1>1. PICK there \in BOOLEAN, said \in Declared, synced \in {Unsaid, 0, 1} :
        /\ Truthful(said, there)
        /\ fitted = [then |-> there, today |-> there]
        /\ today = said
        /\ \/ drive = [synced |-> synced, hardware |-> Unsaid]
           \/ drive = [synced |-> synced, hardware |-> Fingerprint(said)]
  BY DEF ReportInit
<1>2. fitted \in [then : BOOLEAN, today : BOOLEAN]
  BY <1>1
<1>3. fitted.then = there /\ fitted.today = there
  BY <1>1
<1>4. State(said) = "present" => there
  BY <1>1, TruthIsPresent
<1>5. drive.hardware = Unsaid \/ drive.hardware = Fingerprint(said)
  BY <1>1
<1>6. drive.hardware # Unsaid /\ State(drive.hardware) = "present" => State(said) = "present"
  BY Zenon, <1>5, FingerprintSays
<1>7. State(today) = "present" => fitted.today
  BY Zenon, <1>1, <1>3, <1>4
<1>8. drive.hardware # Unsaid /\ State(drive.hardware) = "present" => fitted.then
  BY Zenon, <1>3, <1>4, <1>6
<1> QED BY <1>2, <1>7, <1>8 DEF ReportInv

LEMMA ReportStepInv == ReportInv /\ [ReportNext]_reportVars => ReportInv'
<1> SUFFICES ASSUME ReportInv, [ReportNext]_reportVars PROVE ReportInv'
  OBVIOUS
<1>1. CASE Sample \/ ClockSteps \/ UNCHANGED reportVars
  BY <1>1 DEF Sample, ClockSteps, reportVars, ReportInv
<1>2. CASE Refit
  <2>1. /\ fitted' = [fitted EXCEPT !.today = ~@] /\ UNCHANGED drive
        /\ Truthful(today', ~fitted.today)
    BY <1>2 DEF Refit
  <2>2. fitted.then \in BOOLEAN /\ fitted.today \in BOOLEAN
    BY DEF ReportInv
  <2>3. fitted' \in [then : BOOLEAN, today : BOOLEAN] /\ fitted'.then = fitted.then
    BY <2>1 DEF ReportInv
  <2>4. fitted'.today = ~fitted.today
    BY <2>1 DEF ReportInv
  <2>5. State(today') = "present" => ~fitted.today
    BY <2>1, <2>2, TruthIsPresent
  <2>6. State(today') = "present" => fitted'.today
    BY Zenon, <2>4, <2>5
  <2>7. drive'.hardware # Unsaid /\ State(drive'.hardware) = "present" => fitted'.then
    BY Zenon, <2>1, <2>3 DEF ReportInv
  <2> QED BY Zenon, <2>3, <2>6, <2>7 DEF ReportInv
<1> QED BY <1>1, <1>2 DEF ReportNext

\* The report speaks of a filter's health only when the car had the filter on
\* that drive, or says that it speaks of the car as it is today, for any
\* samples, clocks and changes of hardware (session_report.py:218-246, 584-657).
THEOREM FilterWasThere == ReportSpec => []FilterWasFitted
<1>1. ReportInv => FilterWasFitted
  <2> SUFFICES ASSUME ReportInv, FilterFinding
               PROVE  fitted.then \/ (Vehicle.provenance = "current" /\ fitted.today)
    BY DEF FilterWasFitted
  <2>1. Vehicle.state = "present"
    BY Zenon DEF FilterFinding, FilterPairs
  <2>2. CASE drive.hardware # Unsaid
    <3>1. Vehicle.state = State(drive.hardware)
      BY <2>2 DEF Vehicle, SnapshotFirst
    <3> QED BY Zenon, <2>1, <2>2, <3>1 DEF ReportInv
  <2>3. CASE drive.hardware = Unsaid /\ today # Unsaid
    <3>1. Vehicle.state = State(Fingerprint(today)) /\ Vehicle.provenance = "current"
      BY <2>3 DEF Vehicle, SnapshotFirst
    <3>2. State(today) = "present"
      BY <2>1, <2>3, <3>1 DEF Fingerprint, State
    <3> QED BY Zenon, <3>1, <3>2 DEF ReportInv
  <2>4. CASE drive.hardware = Unsaid /\ today = Unsaid
    BY <2>1, <2>4 DEF Vehicle, SnapshotFirst
  <2> QED BY <2>2, <2>3, <2>4
<1> QED BY <1>1, ReportInitInv, ReportStepInv, PTL DEF ReportSpec

-----------------------------------------------------------------------------
(* Health *)

Sampled == [ts : 0 .. MaxTs, value : UNION {Readings[key] : key \in WarmChannels \cup LoopChannels}]

\* A trip is a sequence of samples for each channel of its kind.
TripTypes ==
  /\ DOMAIN trip \in {WarmChannels, LoopChannels}
  /\ \A key \in DOMAIN trip : trip[key] \in Seq(Sampled)

Hot(series, mark) == {i \in DOMAIN series : series[i].value >= mark}

\* There is a first among places.
LEMMA FirstOfPlaces ==
  ASSUME NEW T \in SUBSET Nat, T # {}
  PROVE  Min(T) \in T /\ \A x \in T : Min(T) <= x
<1> DEFINE R == OpToRel(<, Nat)
<1>1. PICK d \in T : \A e \in T : <<e, d>> \notin R
  <2>1. IsWellFoundedOn(R, Nat)
    BY NatLessThanWellFounded
  <2> HIDE DEF R
  <2> QED BY <2>1, WFMin
<1>2. \A e \in T : ~(e < d)
  BY <1>1 DEF OpToRel
<1>3. \A e \in T : d <= e
  BY <1>2
<1> QED BY <1>3 DEF Min

\* Places that join after the others do not move the first.
LEMMA FirstStays ==
  ASSUME NEW n \in Nat, NEW T, NEW U,
         T \subseteq 1 .. n, T # {}, T \subseteq U, U \subseteq T \cup {n + 1}
  PROVE  Min(U) = Min(T)
<1>1. T \in SUBSET Nat /\ U \in SUBSET Nat /\ U # {}
  <2>1. 1 .. n \subseteq Nat /\ n + 1 \in Nat
    OBVIOUS
  <2> QED BY Zenon, <2>1
<1>2. Min(T) \in T /\ \A x \in T : Min(T) <= x
  BY <1>1, FirstOfPlaces
<1>3. Min(U) \in U /\ \A x \in U : Min(U) <= x
  BY <1>1, FirstOfPlaces
<1> DEFINE t == Min(T)
           u == Min(U)
<1>4. t \in T /\ u \in U /\ u <= t /\ (u \in T => t <= u)
  BY <1>2, <1>3
<1> HIDE DEF t, u
<1>5. t \in 1 .. n /\ u \in Nat
  BY <1>1, <1>4
<1>6. u # n + 1
  BY <1>4, <1>5
<1>7. u \in T
  BY <1>4, <1>6
<1>8. u = t
  BY <1>4, <1>5, <1>7
<1> QED BY <1>8 DEF t, u

\* s goes on as r: it is r, or one sample has been added.
GoesOn(s, r) == s \in Seq(Sampled) /\ (r = s \/ \E e \in Sampled : r = Append(s, e))

\* A crossing stays where it was.
LEMMA CrossingStays ==
  ASSUME NEW s, NEW r, GoesOn(s, r), NEW mark, FirstCrossing(s, mark) # Unsaid
  PROVE  /\ FirstCrossing(s, mark) \in DOMAIN s
         /\ FirstCrossing(r, mark) = FirstCrossing(s, mark)
<1>1. s \in Seq(Sampled) /\ Len(s) \in Nat /\ DOMAIN s = 1 .. Len(s)
  BY DEF GoesOn
<1>2. Hot(s, mark) # {} /\ FirstCrossing(s, mark) = Min(Hot(s, mark))
  BY DEF FirstCrossing, Hot
<1>3. Hot(s, mark) \subseteq 1 .. Len(s) /\ Hot(s, mark) \in SUBSET Nat
  BY <1>1 DEF Hot
<1>4. FirstCrossing(s, mark) \in DOMAIN s
  BY <1>1, <1>2, <1>3, FirstOfPlaces
<1>5. CASE r = s
  BY <1>4, <1>5
<1>6. ASSUME NEW e \in Sampled, r = Append(s, e)
      PROVE  FirstCrossing(r, mark) = FirstCrossing(s, mark)
  <2>1. /\ DOMAIN r = 1 .. Len(s) + 1
        /\ \A i \in 1 .. Len(s) : r[i] = s[i]
    BY <1>1, <1>6
  <2>2. Hot(s, mark) \subseteq Hot(r, mark)
    BY <1>1, <2>1 DEF Hot
  <2>3. Hot(r, mark) \subseteq Hot(s, mark) \cup {Len(s) + 1}
    BY <1>1, <2>1 DEF Hot
  <2>4. Hot(r, mark) # {}
    BY <1>2, <2>2
  <2>5. Min(Hot(r, mark)) = Min(Hot(s, mark))
    BY <1>1, <1>2, <1>3, <2>2, <2>3, FirstStays
  <2>6. FirstCrossing(r, mark) = Min(Hot(r, mark))
    BY <2>4 DEF FirstCrossing, Hot
  <2> QED BY <1>2, <2>5, <2>6
<1> QED BY <1>4, <1>5, <1>6 DEF GoesOn

\* What there was is there, and in its place.
LEMMA PastStays ==
  ASSUME NEW s, NEW r, GoesOn(s, r)
  PROVE  /\ s \in Seq(Sampled) /\ r \in Seq(Sampled)
         /\ \A i \in 1 .. Len(s) : r[i] = s[i]
         /\ \A n \in 1 .. Len(s) : SubSeq(r, 1, n) = SubSeq(s, 1, n)
<1>1. s \in Seq(Sampled) /\ r \in Seq(Sampled) /\ Len(s) \in Nat /\ Len(r) >= Len(s)
  BY DEF GoesOn
<1>2. \A i \in 1 .. Len(s) : r[i] = s[i]
  BY DEF GoesOn
<1>3. ASSUME NEW n \in 1 .. Len(s) PROVE SubSeq(r, 1, n) = SubSeq(s, 1, n)
  <2>1. /\ SubSeq(r, 1, n) = [i \in 1 .. n |-> r[i]]
        /\ SubSeq(s, 1, n) = [i \in 1 .. n |-> s[i]]
    BY <1>1
  <2>2. \A i \in 1 .. n : r[i] = s[i]
    BY <1>1, <1>2
  <2> QED BY <2>1, <2>2
<1> QED BY <1>1, <1>2, <1>3

LEMMA TimeKept ==
  ASSUME NEW s, NEW r, GoesOn(s, r), NEW mark
  PROVE  Stands(TimeTo(s, mark), TimeTo(r, mark))
<1> SUFFICES ASSUME TimeTo(s, mark) # Unsaid PROVE TimeTo(r, mark) = TimeTo(s, mark)
  BY DEF Stands
<1> DEFINE i == FirstCrossing(s, mark)
<1>1. i # Unsaid
  BY DEF TimeTo
<1>2. i \in DOMAIN s /\ FirstCrossing(r, mark) = i
  BY <1>1, CrossingStays
<1>3. s \in Seq(Sampled) /\ \A j \in 1 .. Len(s) : r[j] = s[j]
  BY PastStays
<1> HIDE DEF i
<1>4. i \in 1 .. Len(s) /\ Len(s) \in Nat
  BY <1>2, <1>3
<1>5. r[i] = s[i] /\ r[1] = s[1] /\ (i > 1 => r[i - 1] = s[i - 1])
  BY <1>3, <1>4
<1>6. TimeTo(s, mark) =
        [after |-> s[i].ts - s[1].ts,
         resolution |-> IF i > 1 THEN s[i].ts - s[i - 1].ts ELSE Unsaid]
  BY <1>1 DEF TimeTo, i
<1>7. TimeTo(r, mark) =
        [after |-> r[i].ts - r[1].ts,
         resolution |-> IF i > 1 THEN r[i].ts - r[i - 1].ts ELSE Unsaid]
  BY <1>1, <1>2 DEF TimeTo
<1> QED BY <1>5, <1>6, <1>7

LEMMA SlopeKept ==
  ASSUME NEW s, NEW r, GoesOn(s, r)
  PROVE  Stands(WarmupSlope(s), WarmupSlope(r))
<1> SUFFICES ASSUME WarmupSlope(s) # Unsaid PROVE WarmupSlope(r) = WarmupSlope(s)
  BY DEF Stands
<1> DEFINE i == FirstCrossing(s, RampMark)
<1>1. i # Unsaid
  BY DEF WarmupSlope, SlopeWhenComplete
<1>2. i \in DOMAIN s /\ FirstCrossing(r, RampMark) = i
  BY <1>1, CrossingStays
<1>3. s \in Seq(Sampled) /\ \A n \in 1 .. Len(s) : SubSeq(r, 1, n) = SubSeq(s, 1, n)
  BY PastStays
<1>4. Ramp(s) = SubSeq(s, 1, i)
  BY <1>1 DEF Ramp
<1>5. Ramp(r) = SubSeq(r, 1, i)
  BY <1>1, <1>2 DEF Ramp
<1>6. Ramp(r) = Ramp(s)
  <2> HIDE DEF i
  <2> QED BY <1>2, <1>3, <1>4, <1>5
<1>7. SlopeOfAny(r) = SlopeOfAny(s)
  BY <1>6 DEF SlopeOfAny
<1> QED BY <1>1, <1>2, <1>7 DEF WarmupSlope, SlopeWhenComplete

LEMMA LagKept ==
  ASSUME NEW s, NEW r, GoesOn(s, r), NEW o, NEW q, GoesOn(o, q)
  PROVE  Stands(OilLag(s, o), OilLag(r, q))
<1> SUFFICES ASSUME OilLag(s, o) # Unsaid PROVE OilLag(r, q) = OilLag(s, o)
  BY DEF Stands
<1> DEFINE c == FirstCrossing(s, LagMark)
           d == FirstCrossing(o, LagMark)
<1>1. c # Unsaid /\ d # Unsaid
  BY DEF OilLag
<1>2. /\ c \in DOMAIN s /\ FirstCrossing(r, LagMark) = c
      /\ d \in DOMAIN o /\ FirstCrossing(q, LagMark) = d
  BY <1>1, CrossingStays
<1>3. /\ s \in Seq(Sampled) /\ \A j \in 1 .. Len(s) : r[j] = s[j]
      /\ o \in Seq(Sampled) /\ \A j \in 1 .. Len(o) : q[j] = o[j]
  BY PastStays
<1>4. OilLag(s, o) = o[d].ts - s[c].ts /\ OilLag(r, q) = q[d].ts - r[c].ts
  BY <1>1, <1>2 DEF OilLag
<1> HIDE DEF c, d
<1> QED BY <1>2, <1>3, <1>4

\* A step of the trip leaves each channel as it was, or adds a sample to it.
LEMMA TripGoesOn ==
  ASSUME TripTypes, ReadOn, NEW key \in WarmChannels
  PROVE  GoesOn(SeriesOf(key), SeriesOf(key)')
<1>1. PICK k \in DOMAIN trip, ts \in 0 .. MaxTs : \E value \in Readings[k] :
        trip' = [trip EXCEPT ![k] = Append(@, [ts |-> ts, value |-> value])]
  BY DEF ReadOn
<1>2. PICK value \in Readings[k] :
        trip' = [trip EXCEPT ![k] = Append(@, [ts |-> ts, value |-> value])]
  BY <1>1
<1> DEFINE e == [ts |-> ts, value |-> value]
<1>3. e \in Sampled
  BY <1>1, <1>2 DEF TripTypes, Sampled
<1> HIDE DEF e
<1>4. DOMAIN trip' = DOMAIN trip /\ trip' = [trip EXCEPT ![k] = Append(@, e)]
  BY <1>2 DEF e
<1>5. CASE key \notin DOMAIN trip
  <2>1. SeriesOf(key) = <<>> /\ SeriesOf(key)' = <<>>
    BY <1>4, <1>5 DEF SeriesOf
  <2> QED BY <2>1 DEF GoesOn
<1>6. CASE key \in DOMAIN trip
  <2>1. SeriesOf(key) = trip[key] /\ SeriesOf(key)' = trip'[key]
    BY <1>4, <1>6 DEF SeriesOf
  <2>2. trip[key] \in Seq(Sampled)
    BY <1>6 DEF TripTypes
  <2>3. trip'[key] = IF key = k THEN Append(trip[key], e) ELSE trip[key]
    BY <1>4, <1>6
  <2> QED BY <1>3, <2>1, <2>2, <2>3 DEF GoesOn
<1> QED BY <1>5, <1>6

LEMMA TripStep == TripTypes /\ [ReadOn]_trip => TripTypes'
<1> SUFFICES ASSUME TripTypes, ReadOn PROVE TripTypes'
  BY DEF TripTypes
<1>1. PICK k \in DOMAIN trip, ts \in 0 .. MaxTs : \E value \in Readings[k] :
        trip' = [trip EXCEPT ![k] = Append(@, [ts |-> ts, value |-> value])]
  BY DEF ReadOn
<1>2. PICK value \in Readings[k] :
        trip' = [trip EXCEPT ![k] = Append(@, [ts |-> ts, value |-> value])]
  BY <1>1
<1> DEFINE e == [ts |-> ts, value |-> value]
<1>3. e \in Sampled
  BY <1>1, <1>2 DEF TripTypes, Sampled
<1> HIDE DEF e
<1>4. DOMAIN trip' = DOMAIN trip /\ trip' = [trip EXCEPT ![k] = Append(@, e)]
  BY <1>2 DEF e
<1>5. ASSUME NEW key \in DOMAIN trip PROVE trip'[key] \in Seq(Sampled)
  BY <1>3, <1>4, <1>5 DEF TripTypes
<1> QED BY <1>4, <1>5 DEF TripTypes

LEMMA TripInit == HealthInit => TripTypes
<1> SUFFICES ASSUME HealthInit PROVE TripTypes
  OBVIOUS
<1>1. PICK K \in {WarmChannels, LoopChannels} : trip = [key \in K |-> <<>>]
  BY DEF HealthInit
<1>2. <<>> \in Seq(Sampled)
  OBVIOUS
<1> QED BY <1>1, <1>2 DEF TripTypes

\* What was cold stays cold: the first sample of the coolant is the first.
LEMMA ColdStays ==
  ASSUME TripTypes, ReadOn, SeriesOf("coolant") # <<>>
  PROVE  ColdStarted' = ColdStarted
<1> DEFINE s == SeriesOf("coolant")
           r == SeriesOf("coolant")'
<1>1. GoesOn(s, r)
  BY TripGoesOn DEF WarmChannels
<1>2. s \in Seq(Sampled) /\ r \in Seq(Sampled) /\ \A i \in 1 .. Len(s) : r[i] = s[i]
  BY <1>1, PastStays
<1>3. s # <<>> /\ r # <<>>
  BY <1>1 DEF GoesOn
<1>4. Head(s) = s[1] /\ Head(r) = r[1] /\ r[1] = s[1]
  <2> HIDE DEF s, r
  <2> QED BY <1>2, <1>3
<1> QED BY <1>3, <1>4 DEF ColdStarted

\* Wherever a trip of any length ends, a figure that is reported of its warm-up
\* is the one that a longer trip would have reported (models.py:357-376).
THEOREM FiguresStand == HealthSpec => ReportedForGood
<1> DEFINE coolant == SeriesOf("coolant")
           oil == SeriesOf("oil")
           If(cold, figure) == IF cold THEN figure ELSE Unsaid
<1>1. ASSUME TripTypes, ReadOn PROVE FiguresKept
  <2>1. GoesOn(coolant, coolant') /\ GoesOn(oil, oil')
    BY <1>1, TripGoesOn DEF WarmChannels
  <2>2. /\ \A mark \in Marks : Stands(TimeTo(coolant, mark), TimeTo(coolant, mark)')
        /\ Stands(WarmupSlope(coolant), WarmupSlope(coolant)')
        /\ Stands(OilLag(coolant, oil), OilLag(coolant, oil)')
    BY <2>1, TimeKept, SlopeKept, LagKept
  <2>3. /\ \A mark \in Marks :
             /\ Figures.times[mark] = If(ColdStarted, TimeTo(coolant, mark))
             /\ Figures'.times[mark] = If(ColdStarted', TimeTo(coolant, mark)')
        /\ Figures.slope = If(ColdStarted, WarmupSlope(coolant))
        /\ Figures'.slope = If(ColdStarted', WarmupSlope(coolant)')
        /\ Figures.lag = If(ColdStarted, OilLag(coolant, oil))
        /\ Figures'.lag = If(ColdStarted', OilLag(coolant, oil)')
    BY DEF Figures
  <2>4. CASE ColdStarted
    <3>1. ColdStarted'
      BY <1>1, <2>4, ColdStays DEF ColdStarted
    <3> QED BY <2>2, <2>3, <2>4, <3>1 DEF FiguresKept, Stands
  <2>5. CASE ~ColdStarted
    BY <2>3, <2>5 DEF FiguresKept, Stands
  <2> QED BY <2>4, <2>5
<1>2. TripTypes /\ [ReadOn]_trip => [FiguresKept]_trip
  BY <1>1
<1> QED BY <1>2, TripInit, TripStep, PTL DEF HealthSpec, ReportedForGood

-----------------------------------------------------------------------------
(* What a scan over a list computes *)

\* What holds at the start and goes on from place to place holds up to the end.
LEMMA UpTo ==
  ASSUME NEW N \in Nat, NEW T, 0 \in T, \A n \in 1 .. N : n - 1 \in T => n \in T
  PROVE  N \in T /\ \A n \in 0 .. N : n \in T
<1> DEFINE Out == {n \in 0 .. N : n \notin T}
<1> SUFFICES ASSUME Out # {} PROVE FALSE
  OBVIOUS
<1>1. Out \in SUBSET Nat
  OBVIOUS
<1> DEFINE m == Min(Out)
<1>2. m \in Out /\ \A x \in Out : m <= x
  BY <1>1, FirstOfPlaces
<1> HIDE DEF m
<1>3. m \in 1 .. N
  BY <1>2
<1>4. m - 1 \in T
  BY <1>2, <1>3
<1> QED BY <1>2, <1>3, <1>4

\* The outcomes of a scan of N places, each step on top of the one before.
Scanned(f, X, N, base, step) ==
  /\ f \in [0 .. N -> X] /\ f[0] = base
  /\ \A n \in 1 .. N : f[n] = step[n][f[n - 1]]

\* A scan has an outcome after each place.
LEMMA Recursion ==
  ASSUME NEW X, NEW N \in Nat, NEW base \in X, NEW step \in [1 .. N -> [X -> X]]
  PROVE  \E f : Scanned(f, X, N, base, step)
<1> DEFINE Scan(m, f) == Scanned(f, X, m, base, step)
           Done == {m \in 0 .. N : \E f : Scan(m, f)}
<1>1. 0 \in Done
  <2> DEFINE f == [n \in 0 .. 0 |-> base]
  <2>1. Scan(0, f)
    BY DEF Scanned
  <2> HIDE DEF Scan, f
  <2> QED BY <2>1
<1>2. ASSUME NEW m \in 1 .. N, m - 1 \in Done PROVE m \in Done
  <2>1. PICK g : Scan(m - 1, g)
    BY <1>2
  <2> DEFINE f == [n \in 0 .. m |-> IF n = m THEN step[m][g[m - 1]] ELSE g[n]]
  <2>2. m - 1 \in 0 .. m - 1 /\ step[m][g[m - 1]] \in X
    BY <2>1 DEF Scanned
  <2>3. f \in [0 .. m -> X] /\ f[0] = base
    BY <2>1, <2>2 DEF Scanned
  <2>4. ASSUME NEW n \in 1 .. m PROVE f[n] = step[n][f[n - 1]]
    BY <2>1 DEF Scanned
  <2> HIDE DEF f
  <2>5. Scan(m, f)
    BY <2>3, <2>4 DEF Scanned
  <2> HIDE DEF Scan
  <2> QED BY <2>5
<1>3. N \in Done
  <2> HIDE DEF Done
  <2> QED BY ONLY <1>1, <1>2, N \in Nat, UpTo
<1> QED BY <1>3

-----------------------------------------------------------------------------
(* The order of time (Chronology) *)

\* Every place of the sorted list is the position of one stamp, and positions
\* follow the order the stamps are sorted by.
LEMMA PositionsTaken ==
  ASSUME NEW N \in Nat, NEW stamps \in [1 .. N -> Int]
  PROVE  /\ \A i \in 1 .. N : Position(stamps, i) \in 1 .. N
         /\ \A i, j \in 1 .. N : Precedes(stamps, i, j) => Position(stamps, i) < Position(stamps, j)
         /\ \A i, j \in 1 .. N : i = j \/ Precedes(stamps, i, j) \/ Precedes(stamps, j, i)
         /\ \A k \in 1 .. N : \E i \in 1 .. N : Position(stamps, i) = k
<1> DEFINE D == 1 .. N
           Before(i) == {j \in D : Precedes(stamps, j, i)}
<1>1. D = 1 .. N /\ D = DOMAIN stamps
  OBVIOUS
<1>2. \A i \in D : stamps[i] \in Int
  OBVIOUS
<1>3. IsFiniteSet(D) /\ Cardinality(D) = N
  BY <1>1, FS_Interval
<1> HIDE DEF D
<1>4. /\ \A i \in D : ~Precedes(stamps, i, i)
      /\ \A i, j \in D : i = j \/ Precedes(stamps, i, j) \/ Precedes(stamps, j, i)
      /\ \A i, j, k \in D : Precedes(stamps, i, j) /\ Precedes(stamps, j, k) => Precedes(stamps, i, k)
  BY <1>1, <1>2 DEF Precedes
<1>5. \A i \in D : Before(i) \in SUBSET D /\ IsFiniteSet(Before(i)) /\ Cardinality(Before(i)) \in Nat
  <2> SUFFICES ASSUME NEW i \in D
               PROVE  /\ Before(i) \in SUBSET D /\ IsFiniteSet(Before(i))
                      /\ Cardinality(Before(i)) \in Nat
    OBVIOUS
  <2>1. Before(i) \in SUBSET D
    OBVIOUS
  <2> HIDE DEF Before
  <2> QED BY <1>3, <2>1, FS_Subset, FS_CardinalityType
<1>6. \A i \in D : Position(stamps, i) = Cardinality(Before(i)) + 1
  BY <1>1 DEF Position
<1>7. ASSUME NEW i \in D PROVE Position(stamps, i) \in D
  <2>1. i \notin Before(i)
    BY <1>4
  <2> HIDE DEF Before
  <2>2. Before(i) # D
    BY <2>1
  <2>3. Cardinality(Before(i)) <= N /\ Cardinality(Before(i)) # N
    BY <1>3, <1>5, <2>2, FS_Subset
  <2>4. Cardinality(Before(i)) \in Nat
    BY <1>5
  <2>5. Position(stamps, i) \in 1 .. N
    BY <1>1, <1>6, <2>3, <2>4
  <2> QED BY <1>1, <2>5
<1>8. ASSUME NEW i \in D, NEW j \in D, Precedes(stamps, i, j)
      PROVE  Position(stamps, i) < Position(stamps, j)
  <2>1. Before(i) \in SUBSET Before(j) /\ i \in Before(j) /\ i \notin Before(i)
    BY <1>4, <1>8
  <2> HIDE DEF Before
  <2>2. /\ Cardinality(Before(i)) <= Cardinality(Before(j))
        /\ Cardinality(Before(i)) # Cardinality(Before(j))
    BY <1>5, <2>1, FS_Subset
  <2>3. Cardinality(Before(i)) \in Nat /\ Cardinality(Before(j)) \in Nat
    BY <1>5
  <2> QED BY <1>6, <2>2, <2>3
<1>9. ASSUME NEW k \in D, \A i \in D : Position(stamps, i) # k PROVE FALSE
  <2> DEFINE f == [i \in D |-> Position(stamps, i)]
             E == D \ {k}
  <2>1. E \in SUBSET D /\ E # D
    BY <1>9
  <2>2. f \in [D -> E]
    BY <1>7, <1>9
  <2>3. \A i, j \in D : i # j => f[i] # f[j]
    <3> SUFFICES ASSUME NEW i \in D, NEW j \in D, i # j PROVE Position(stamps, i) # Position(stamps, j)
      OBVIOUS
    <3>1. Position(stamps, i) < Position(stamps, j) \/ Position(stamps, j) < Position(stamps, i)
      BY <1>4, <1>8
    <3>2. Position(stamps, i) \in Int /\ Position(stamps, j) \in Int
      BY <1>1, <1>7
    <3> QED BY <3>1, <3>2
  <2> HIDE DEF E, f
  <2>4. IsFiniteSet(E) /\ Cardinality(E) <= N /\ Cardinality(E) # N
    BY <1>3, <2>1, FS_Subset
  <2>5. Cardinality(E) \in Nat
    BY <2>4, FS_CardinalityType
  <2>6. Cardinality(E) < Cardinality(D)
    BY <1>1, <1>3, <2>4, <2>5
  <2> QED BY <1>3, <2>2, <2>3, <2>4, <2>6, FS_PigeonHole
<1> QED BY <1>4, <1>7, <1>8, <1>9 DEF D

\* The list in the order of time has what was stamped, all of it, and a place
\* before another holds what precedes.
LEMMA InTime ==
  ASSUME NEW N \in Nat, NEW stamps \in [1 .. N -> Int]
  PROVE  /\ Order(stamps) \in [1 .. N -> 1 .. N]
         /\ \A k, l \in 1 .. N : k < l => Precedes(stamps, Order(stamps)[k], Order(stamps)[l])
         /\ \A i \in 1 .. N : \E k \in 1 .. N : Order(stamps)[k] = i
<1> DEFINE D == 1 .. N
           place(k) == CHOOSE i \in D : Position(stamps, i) = k
<1>1. DOMAIN stamps = D
  OBVIOUS
<1>2. \A k \in D : place(k) \in D /\ Position(stamps, place(k)) = k
  BY PositionsTaken
<1>3. Order(stamps) = [k \in D |-> place(k)]
  BY <1>1 DEF Order
<1>4. /\ \A i, j \in D : Precedes(stamps, i, j) => Position(stamps, i) < Position(stamps, j)
      /\ \A i, j \in D : i = j \/ Precedes(stamps, i, j) \/ Precedes(stamps, j, i)
  BY PositionsTaken
<1> HIDE DEF place
<1>5. ASSUME NEW k \in D, NEW l \in D, k < l
      PROVE  Precedes(stamps, place(k), place(l))
  <2>1. ~Precedes(stamps, place(l), place(k))
    <3> SUFFICES ASSUME Precedes(stamps, place(l), place(k)) PROVE FALSE
      OBVIOUS
    <3>1. Position(stamps, place(l)) < Position(stamps, place(k))
      BY <1>2, <1>4
    <3>2. l < k
      BY <1>2, <3>1
    <3> QED BY <1>5, <3>2
  <2>2. place(k) # place(l)
    BY <1>2, <1>5
  <2> QED BY <1>2, <1>4, <2>1, <2>2
<1>6. ASSUME NEW i \in D PROVE \E k \in D : place(k) = i
  <2> DEFINE k == Position(stamps, i)
  <2>1. k \in D
    BY PositionsTaken
  <2>2. place(k) \in D /\ Position(stamps, place(k)) = k
    BY <1>2, <2>1
  <2>3. ~Precedes(stamps, place(k), i) /\ ~Precedes(stamps, i, place(k))
    <3>1. ~(k < k)
      BY <2>1
    <3> HIDE DEF k
    <3>2. Position(stamps, i) = k
      BY DEF k
    <3> QED BY <1>4, <2>2, <3>1, <3>2
  <2>4. place(k) = i
    BY <1>4, <2>2, <2>3
  <2> QED BY <2>1, <2>4
<1> QED BY <1>2, <1>3, <1>5, <1>6

-----------------------------------------------------------------------------
(* Alignment *)

\* Rows that are stamped.
Timed(X) == \A x \in X : x.ts \in Int

\* Two rows that may be set against each other.
Together(X, a, b, tolerance) ==
  {<<a[i], b[j]>> : i \in DOMAIN a, j \in DOMAIN b} \cap
    {p \in X \X X : Distance(p[2].ts, p[1].ts) <= tolerance}

Scans(X, a, b, tolerance) == [index : Nat, pairs : Seq(Together(X, a, b, tolerance))]

\* Of some places there is one that is closest: it is one of them, and none of
\* them is closer.
LEMMA ClosestIsNear ==
  ASSUME NEW X, Timed(X), NEW b \in Seq(X), NEW near, near \subseteq DOMAIN b, near # {},
         NEW ts \in Int
  PROVE  /\ Closest(b, near, ts) \in near
         /\ \A j \in near :
              Distance(b[Closest(b, near, ts)].ts, ts) <= Distance(b[j].ts, ts)
<1> DEFINE far(i) == Distance(b[i].ts, ts)
           Gaps == {far(i) : i \in near}
           First(i) == \A j \in near \ {i} : far(i) < far(j) \/ (far(i) = far(j) /\ i < j)
<1>1. DOMAIN b = 1 .. Len(b) /\ Len(b) \in Nat
  OBVIOUS
<1>2. \A i \in near : far(i) \in Nat
  <2> SUFFICES ASSUME NEW i \in near PROVE far(i) \in Nat
    OBVIOUS
  <2>1. b[i] \in X
    BY <1>1
  <2>2. b[i].ts \in Int
    BY <2>1 DEF Timed
  <2> QED BY <2>2 DEF Distance
<1>3. Closest(b, near, ts) = CHOOSE i \in near : First(i)
  BY DEF Closest
<1> HIDE DEF far
<1>4. Gaps \in SUBSET Nat /\ Gaps # {}
  BY <1>2
<1>5. PICK gap \in Gaps : \A g \in Gaps : gap <= g
  BY <1>4, FirstOfPlaces
<1> DEFINE best == {i \in near : far(i) = gap}
<1>6. best \in SUBSET Nat /\ best # {}
  BY <1>1, <1>5
<1>7. PICK i \in best : \A j \in best : i <= j
  BY <1>6, FirstOfPlaces
<1>8. i \in near
  BY <1>7
<1>9. ASSUME NEW j \in near \ {i}
      PROVE  far(i) < far(j) \/ (far(i) = far(j) /\ i < j)
  <2>1. gap \in Nat /\ far(i) = gap /\ far(j) \in Nat /\ gap <= far(j)
    BY <1>2, <1>4, <1>5, <1>7
  <2>2. i \in Nat /\ j \in Nat
    BY <1>1, <1>8
  <2>3. far(j) = gap => i <= j
    BY <1>7
  <2> QED BY <2>1, <2>2, <2>3
<1>10. \E k \in near : First(k)
  BY <1>8, <1>9
<1> HIDE DEF First
<1> DEFINE k == Closest(b, near, ts)
<1>11. k \in near /\ First(k)
  BY <1>3, <1>10
<1> HIDE DEF k
<1>12. \A j \in near : far(k) <= far(j)
  BY <1>2, <1>11 DEF First
<1> QED BY <1>11, <1>12 DEF k, far

\* One row of a list adds a pair of its own, near enough, or none.
LEMMA MatchAdds ==
  ASSUME NEW X, Timed(X), NEW a \in Seq(X), NEW b \in Seq(X), NEW tolerance \in Nat,
         NEW s \in Scans(X, a, b, tolerance), NEW n \in DOMAIN a
  PROVE  Match(s, a[n], b, tolerance) \in Scans(X, a, b, tolerance)
<1> DEFINE x == a[n]
           P == Together(X, a, b, tolerance)
           index == Advance(b, s.index, x.ts)
           near == Near(b, index)
           best == Closest(b, near, x.ts)
<1>1. x \in X /\ x.ts \in Int
  BY DEF Timed
<1>2. s.index \in Nat /\ s.pairs \in Seq(P)
  BY DEF Scans
<1>3. index \in Nat
  <2> DEFINE later == {i \in (s.index + 1)..Len(b) : \A j \in (s.index + 1)..i : b[j].ts <= x.ts}
  <2>1. IsFiniteSet((s.index + 1)..Len(b))
    BY <1>2, FS_Interval
  <2>2. later \subseteq (s.index + 1)..Len(b)
    OBVIOUS
  <2>3. IsFiniteSet(later)
    BY <2>1, <2>2, FS_Subset
  <2>4. Cardinality(later) \in Nat
    BY <2>3, FS_CardinalityType
  <2> QED BY <1>2, <2>4 DEF Advance
<1>4. near \subseteq DOMAIN b
  BY DEF Near, Neighbours
<1>5. CASE near # {} /\ Distance(b[best].ts, x.ts) <= tolerance
  <2>1. best \in DOMAIN b
    BY <1>1, <1>4, <1>5, ClosestIsNear
  <2>2. b[best] \in X
    BY <2>1
  <2>3. <<x, b[best]>> \in P
    <3> HIDE DEF best
    <3> QED BY <1>1, <1>5, <2>1, <2>2 DEF Together
  <2>4. Match(s, x, b, tolerance) = [index |-> index, pairs |-> Append(s.pairs, <<x, b[best]>>)]
    BY <1>5 DEF Match
  <2> HIDE DEF x, P, index, near, best
  <2>5. Append(s.pairs, <<x, b[best]>>) \in Seq(P)
    BY <1>2, <2>3
  <2> QED BY <1>3, <2>4, <2>5 DEF x, P, Scans
<1>6. CASE ~(near # {} /\ Distance(b[best].ts, x.ts) <= tolerance)
  <2>1. Match(s, x, b, tolerance) = [index |-> index, pairs |-> s.pairs]
    BY <1>6 DEF Match
  <2> HIDE DEF x, index, P
  <2> QED BY <1>2, <1>3, <2>1 DEF x, P, Scans
<1> QED BY <1>5, <1>6

Start == [index |-> 1, pairs |-> <<>>]

\* The scan behind an alignment, after each row of the first list.
AlignScan(f, a, b, tolerance) ==
  /\ f[0] = Start
  /\ \A n \in 1 .. Len(a) : f[n] = Match(f[n - 1], a[n], b, tolerance)
  /\ Align(a, b, tolerance) = f[Len(a)].pairs

LEMMA AlignScans ==
  ASSUME NEW X, Timed(X), NEW a \in Seq(X), NEW b \in Seq(X), NEW tolerance \in Nat
  PROVE  \E f \in [0 .. Len(a) -> Scans(X, a, b, tolerance)] : AlignScan(f, a, b, tolerance)
<1> DEFINE S == Scans(X, a, b, tolerance)
           step == [n \in 1 .. Len(a) |-> [s \in S |-> Match(s, a[n], b, tolerance)]]
           IsScan(f) == f = [n \in 0 .. Len(a) |->
                             IF n = 0 THEN Start ELSE Match(f[n - 1], a[n], b, tolerance)]
           f == CHOOSE g : IsScan(g)
<1>1. Start \in S /\ Len(a) \in Nat /\ DOMAIN a = 1 .. Len(a)
  BY DEF Start, Scans
<1>2. \A n \in 1 .. Len(a), s \in S : Match(s, a[n], b, tolerance) \in S
  BY <1>1, MatchAdds
<1> HIDE DEF S
<1>3. \E g : IsScan(g)
  <2>1. step \in [1 .. Len(a) -> [S -> S]]
    BY <1>2
  <2>2. \A s \in S : \A n \in 1 .. Len(a) : step[n][s] = Match(s, a[n], b, tolerance)
    OBVIOUS
  <2> HIDE DEF step
  <2>3. PICK g : Scanned(g, S, Len(a), Start, step)
    BY <1>1, <2>1, Recursion
  <2>4. ASSUME NEW n \in 0 .. Len(a)
        PROVE  g[n] = IF n = 0 THEN Start ELSE Match(g[n - 1], a[n], b, tolerance)
    <3>1. n # 0 => n \in 1 .. Len(a) /\ n - 1 \in 0 .. Len(a) /\ g[n - 1] \in S
      <4>1. n # 0 => n \in 1 .. Len(a) /\ n - 1 \in 0 .. Len(a)
        BY <1>1
      <4> QED BY ONLY <4>1, <2>3 DEF Scanned
    <3>2. g[n] = IF n = 0 THEN Start ELSE step[n][g[n - 1]]
      BY <2>3, <3>1 DEF Scanned
    <3> QED BY <2>2, <3>1, <3>2
  <2>5. IsScan(g)
    BY <2>3, <2>4 DEF Scanned
  <2> QED BY <2>5
<1>4. IsScan(f)
  BY <1>3
<1>5. Align(a, b, tolerance) = f[Len(a)].pairs
  BY DEF Align, Start
<1> HIDE DEF f
<1>6. f[0] = Start /\ \A n \in 1 .. Len(a) : f[n] = Match(f[n - 1], a[n], b, tolerance)
  BY <1>1, <1>4
<1> DEFINE T == {n \in 0 .. Len(a) : f[n] \in S}
<1>7. 0 \in T
  BY <1>1, <1>6
<1>8. ASSUME NEW n \in 1 .. Len(a), n - 1 \in T PROVE n \in T
  BY <1>2, <1>6, <1>8
<1> HIDE DEF T
<1>9. \A n \in 0 .. Len(a) : n \in T
  BY ONLY <1>1, <1>7, <1>8, UpTo
<1>10. f \in [0 .. Len(a) -> S]
  BY <1>4, <1>9 DEF T
<1> QED BY <1>5, <1>6, <1>10 DEF AlignScan, S

\* What is aligned are rows of the two series, no further apart than the
\* tolerance (alignment.py:177-227).
LEMMA AlignedTogether ==
  ASSUME NEW X, Timed(X), NEW a \in Seq(X), NEW b \in Seq(X), NEW tolerance \in Nat
  PROVE  Align(a, b, tolerance) \in Seq(Together(X, a, b, tolerance))
<1>1. PICK f \in [0 .. Len(a) -> Scans(X, a, b, tolerance)] : AlignScan(f, a, b, tolerance)
  BY AlignScans
<1>2. Len(a) \in 0 .. Len(a)
  OBVIOUS
<1> QED BY <1>1, <1>2 DEF AlignScan, Scans

LEMMA SampledAreTimed == Timed(Sampled)
<1> SUFFICES ASSUME NEW x \in Sampled PROVE x.ts \in Int
  BY DEF Timed
<1> QED BY HealthAssumption DEF Sampled

\* What is near in time is within the window around the sample.
LEMMA WithinTheWindow ==
  ASSUME NEW s \in Seq(Sampled), NEW ts \in Nat
  PROVE  /\ \A i \in DOMAIN s : s[i].ts \in Nat /\ s[i].value \in Int
         /\ \A i \in DOMAIN s : Distance(s[i].ts, ts) <= Half => i \in Window(s, ts)
<1>1. ASSUME NEW i \in DOMAIN s PROVE s[i].ts \in Nat /\ s[i].value \in Int
  <2>1. s[i] \in Sampled
    OBVIOUS
  <2>2. PICK key \in WarmChannels \cup LoopChannels : s[i].value \in Readings[key]
    BY <2>1 DEF Sampled
  <2>3. s[i].value \in Int
    BY <2>2, HealthAssumption
  <2>4. s[i].ts \in Nat
    BY <2>1, HealthAssumption DEF Sampled
  <2> QED BY <2>3, <2>4
<1>2. ASSUME NEW i \in DOMAIN s, Distance(s[i].ts, ts) <= Half
      PROVE  i \in Window(s, ts)
  <2>1. s[i].ts \in Nat /\ Half \in Nat
    BY <1>1, HealthAssumption
  <2>2. ts - Half <= s[i].ts /\ s[i].ts <= ts + Half
    BY <1>2, <2>1 DEF Distance
  <2> QED BY <2>2 DEF Window, WindowAround, Around
<1> QED BY <1>1, <1>2

\* A band that is said holds the value of a sample within the lookup.
LEMMA BandHolds ==
  ASSUME NEW key \in Context, SeriesOf(key) \in Seq(Sampled), NEW ts \in Nat,
         Band(key, ts) # Unsaid
  PROVE  /\ Band(key, ts) \in Int \X Int
         /\ \E n \in Window(SeriesOf(key), ts) :
              /\ n \in DOMAIN SeriesOf(key)
              /\ Band(key, ts)[1] <= SeriesOf(key)[n].value
              /\ SeriesOf(key)[n].value < Band(key, ts)[2]
<1> DEFINE series == SeriesOf(key)
           near == {i \in DOMAIN series : Distance(series[i].ts, ts) <= Lookup}
           n == Closest(series, near, ts)
           in == {b \in Bins[key] : b[1] <= series[n].value /\ series[n].value < b[2]}
<1>1. near # {} /\ in # {} /\ Band(key, ts) = CHOOSE b \in in : TRUE
  BY DEF Band
<1> HIDE DEF n
<1>2. Band(key, ts) \in in
  BY <1>1
<1>3. n \in near
  <2>1. series \in Seq(Sampled) /\ near \subseteq DOMAIN series /\ near # {} /\ ts \in Int
    BY <1>1
  <2> HIDE DEF series, near
  <2> QED BY <2>1, SampledAreTimed, ClosestIsNear DEF n
<1>4. Distance(series[n].ts, ts) <= Half
  <2> DEFINE gap == Distance(series[n].ts, ts)
  <2>1. gap <= Lookup
    BY <1>3
  <2>2. series[n].ts \in Nat
    BY <1>3, WithinTheWindow
  <2>3. gap \in Int
    BY <2>2 DEF Distance
  <2> HIDE DEF gap
  <2>4. gap <= Half
    BY <2>1, <2>3, HealthAssumption
  <2> QED BY <2>4 DEF gap
<1>5. n \in Window(series, ts)
  BY <1>3, <1>4, WithinTheWindow
<1>6. Band(key, ts) \in Int \X Int
  BY <1>2, HealthAssumption
<1> QED BY <1>2, <1>3, <1>5, <1>6

\* Between the reads of one pair, and around them, the engine was at one
\* operating point, however long the trip and whatever was read
\* (models.py:436-447, 497-545).
THEOREM SteadyIsAroundBoth == HealthSpec => []SteadyOverBothReads
<1>1. TripTypes => SteadyOverBothReads
  <2> SUFFICES ASSUME TripTypes, NEW i \in DOMAIN Pairs, Placed(Pairs[i]).state = "steady",
                      NEW key \in Context
               PROVE  LET a == Pairs[i][1].ts  s == Pairs[i][2].ts
                          series == SeriesOf(key)
                          between == {k \in DOMAIN series :
                                        \/ a <= series[k].ts /\ series[k].ts <= s
                                        \/ s <= series[k].ts /\ series[k].ts <= a}
                          band == Placed(Pairs[i]).cell[key]
                      IN /\ Steady(key, between)
                         /\ \A k \in between : /\ band[1] - Spread[key] <= series[k].value
                                               /\ series[k].value < band[2] + Spread[key]
    BY DEF SteadyOverBothReads
  <2> DEFINE a == Pairs[i][1].ts
             s == Pairs[i][2].ts
             series == SeriesOf(key)
             between == {k \in DOMAIN series : \/ a <= series[k].ts /\ series[k].ts <= s
                                               \/ s <= series[k].ts /\ series[k].ts <= a}
             band == Band(key, a)
  <2>1. \A c : SeriesOf(c) \in Seq(Sampled)
    BY DEF TripTypes, SeriesOf
  <2>2. a \in Nat /\ s \in Nat /\ Distance(s, a) <= Tolerance
    <3> DEFINE P == Together(Sampled, SeriesOf("act"), SeriesOf("set"), Tolerance)
    <3>1. Pairs \in Seq(P)
      BY <2>1, SampledAreTimed, AlignedTogether, ReportAssumption DEF Pairs
    <3> HIDE DEF P
    <3>2. Pairs[i] \in P
      BY <3>1
    <3>3. /\ Pairs[i][1] \in Sampled /\ Pairs[i][2] \in Sampled
          /\ Distance(Pairs[i][2].ts, Pairs[i][1].ts) <= Tolerance
      BY <3>2 DEF P, Together
    <3> QED BY <3>3, HealthAssumption DEF Sampled
  <2>3. /\ Steady(key, Window(series, a)) /\ band # Unsaid
        /\ Placed(Pairs[i]).cell[key] = band
    <3> HIDE DEF a, s, series, between
    <3> DEFINE window == [k \in Context |-> Window(SeriesOf(k), a)]
               cell == [k \in Context |-> Band(k, a)]
               In(state) == [state |-> state, cell |-> IF state = "steady" THEN cell ELSE Unsaid]
               few == \E k \in Context : Cardinality(window[k]) < MinContext
               unsteady == \E k \in Context : ~Steady(k, window[k])
               nowhere == \E k \in Context : cell[k] = Unsaid
    <3>1. Placed(Pairs[i]) = IF few THEN In("unassessed") ELSE IF unsteady THEN In("transient")
                             ELSE IF nowhere THEN In("unassessed") ELSE In("steady")
      BY DEF Placed, a
    <3> HIDE DEF few, unsteady, nowhere, window, cell
    <3>2. ~unsteady /\ ~nowhere /\ Placed(Pairs[i]).cell = cell
      BY <3>1
    <3> QED BY <3>2 DEF unsteady, nowhere, window, cell, series
  <2> HIDE DEF a, s, band
  <2>4. between \subseteq Window(series, a)
    <3> SUFFICES ASSUME NEW k \in between PROVE k \in Window(series, a)
      OBVIOUS
    <3>1. series[k].ts \in Nat /\ k \in DOMAIN series
      BY <2>1, <2>2, WithinTheWindow
    <3>2. Distance(series[k].ts, a) <= Half
      BY <2>2, <3>1, HealthAssumption, ReportAssumption DEF Distance
    <3> QED BY <2>1, <2>2, <3>1, <3>2, WithinTheWindow
  <2>5. Steady(key, between)
    BY <2>3, <2>4 DEF Steady
  <2>6. PICK n \in Window(series, a) : /\ n \in DOMAIN series
                                       /\ band[1] <= series[n].value
                                       /\ series[n].value < band[2]
    BY <2>1, <2>2, <2>3, BandHolds DEF band
  <2>7. band[1] \in Int /\ band[2] \in Int
    BY <2>1, <2>2, <2>3, BandHolds DEF band
  <2>8. ASSUME NEW k \in between
        PROVE  /\ band[1] - Spread[key] <= series[k].value
               /\ series[k].value < band[2] + Spread[key]
    <3>1. /\ series[k].value - series[n].value <= Spread[key]
          /\ series[n].value - series[k].value <= Spread[key]
      BY <2>3, <2>4, <2>6 DEF Steady
    <3>2. series[k].value \in Int /\ series[n].value \in Int
      BY <2>1, <2>2, <2>6, WithinTheWindow
    <3>3. Spread[key] \in Int
      BY HealthAssumption
    <3> QED BY <2>6, <2>7, <3>1, <3>2, <3>3
  <2> QED BY <2>3, <2>5, <2>8 DEF a, s
<1> QED BY <1>1, TripInit, TripStep, PTL DEF HealthSpec

-----------------------------------------------------------------------------
(* Report: what is compared *)

\* Rows in the order of time.
Rising(rows) == \A i, j \in DOMAIN rows : i <= j => rows[i].ts <= rows[j].ts

\* Of the first n rows those that are in `chosen`, in their order.
KeptOf(X, rows, chosen, n, s) ==
  /\ s \in Seq(X \cap chosen)
  /\ \A i \in 1 .. n : rows[i] \in chosen => \E k \in DOMAIN s : s[k] = rows[i]
  /\ \A k \in DOMAIN s : \E i \in 1 .. n : s[k] = rows[i]
  /\ \A k, l \in DOMAIN s : k < l =>
       \E i, j \in 1 .. n : i < j /\ s[k] = rows[i] /\ s[l] = rows[j]

\* The next row is kept behind the others, or it is not.
LEMMA OneMoreRow ==
  ASSUME NEW X, NEW rows \in Seq(X), NEW chosen, NEW n \in 1 .. Len(rows),
         NEW s, KeptOf(X, rows, chosen, n - 1, s)
  PROVE  KeptOf(X, rows, chosen, n,
                IF rows[n] \in chosen THEN Append(s, rows[n]) ELSE s)
<1>1. rows[n] \in X /\ n \in Nat /\ n \in 1 .. n
  OBVIOUS
<1>2. \A i \in 1 .. n : i = n \/ i \in 1 .. n - 1
  OBVIOUS
<1>3. \A i \in 1 .. n - 1 : i \in 1 .. n /\ i < n
  OBVIOUS
<1>4. s \in Seq(X \cap chosen)
  BY DEF KeptOf
<1>5. CASE rows[n] \notin chosen
  BY <1>2, <1>3, <1>5 DEF KeptOf
<1>6. CASE rows[n] \in chosen
  <2> DEFINE r == Append(s, rows[n])
             m == Len(s) + 1
  <2>1. /\ r \in Seq(X \cap chosen) /\ DOMAIN r = 1 .. m /\ r[m] = rows[n]
        /\ DOMAIN s = 1 .. Len(s) /\ Len(s) \in Nat
        /\ \A k \in DOMAIN s : r[k] = s[k]
    BY <1>1, <1>4, <1>6, AppendProperties, LenProperties
  <2> HIDE DEF r
  <2>2. \A k \in DOMAIN r : k = m \/ (k \in DOMAIN s /\ k < m)
    BY <2>1
  <2>3. \A k \in DOMAIN s : k \in DOMAIN r
    BY <2>1
  <2>4. ASSUME NEW i \in 1 .. n, rows[i] \in chosen PROVE \E k \in DOMAIN r : r[k] = rows[i]
    <3>1. CASE i = n
      <4>1. m \in DOMAIN r
        BY <2>1
      <4> QED BY <2>1, <3>1, <4>1
    <3>2. CASE i \in 1 .. n - 1
      BY <2>1, <2>3, <2>4, <3>2 DEF KeptOf
    <3> QED BY <1>2, <3>1, <3>2
  <2>5. ASSUME NEW k \in DOMAIN r PROVE \E i \in 1 .. n : r[k] = rows[i]
    BY <1>1, <1>3, <2>1, <2>2 DEF KeptOf
  <2>6. ASSUME NEW k \in DOMAIN r, NEW l \in DOMAIN r, k < l
        PROVE  \E i, j \in 1 .. n : i < j /\ r[k] = rows[i] /\ r[l] = rows[j]
    <3>1. k \in DOMAIN s /\ r[k] = s[k]
      BY <2>1, <2>2, <2>6
    <3>2. CASE l = m
      <4>1. PICK i \in 1 .. n - 1 : s[k] = rows[i]
        BY <3>1 DEF KeptOf
      <4> QED BY <1>1, <1>3, <2>1, <3>1, <3>2, <4>1
    <3>3. CASE l \in DOMAIN s
      <4>1. \E i, j \in 1 .. n - 1 : i < j /\ s[k] = rows[i] /\ s[l] = rows[j]
        BY <2>6, <3>1, <3>3 DEF KeptOf
      <4> QED BY <1>3, <2>1, <3>1, <3>3, <4>1
    <3> QED BY <2>2, <3>2, <3>3
  <2>7. KeptOf(X, rows, chosen, n, r)
    BY <2>1, <2>4, <2>5, <2>6 DEF KeptOf
  <2> QED BY <1>6, <2>7 DEF r
<1> QED BY <1>5, <1>6

\* A selection has the chosen rows, all of them, in their order.
LEMMA OnlyKeeps ==
  ASSUME NEW X, NEW rows \in Seq(X), NEW chosen
  PROVE  KeptOf(X, rows, chosen, Len(rows), Only(rows, chosen))
<1> DEFINE S == Seq(X)
           N == Len(rows)
           put(n, s) == IF rows[n] \in chosen THEN Append(s, rows[n]) ELSE s
           step == [n \in 1 .. N |-> [s \in S |-> put(n, s)]]
           IsKept(f) == f = [n \in 0 .. N |-> IF n = 0 THEN <<>> ELSE put(n, f[n - 1])]
           f == CHOOSE g : IsKept(g)
<1>1. <<>> \in S /\ N \in Nat
  OBVIOUS
<1>2. \A n \in 1 .. N, s \in S : put(n, s) \in S
  OBVIOUS
<1>3. Only(rows, chosen) = f[N]
  BY DEF Only
<1> HIDE DEF S, put
<1>4. \E g : IsKept(g)
  <2>1. step \in [1 .. N -> [S -> S]]
    BY <1>2
  <2>2. \A s \in S : \A n \in 1 .. N : step[n][s] = put(n, s)
    OBVIOUS
  <2> HIDE DEF step
  <2>3. PICK g : Scanned(g, S, N, <<>>, step)
    BY <1>1, <2>1, Recursion
  <2>4. ASSUME NEW n \in 0 .. N
        PROVE  g[n] = IF n = 0 THEN <<>> ELSE put(n, g[n - 1])
    <3>1. n # 0 => n \in 1 .. N /\ n - 1 \in 0 .. N /\ g[n - 1] \in S
      <4>1. n # 0 => n \in 1 .. N /\ n - 1 \in 0 .. N
        BY <1>1
      <4> QED BY ONLY <4>1, <2>3 DEF Scanned
    <3>2. g[n] = IF n = 0 THEN <<>> ELSE step[n][g[n - 1]]
      BY <2>3, <3>1 DEF Scanned
    <3> QED BY <2>2, <3>1, <3>2
  <2>5. IsKept(g)
    BY <2>3, <2>4 DEF Scanned
  <2> QED BY <2>5
<1>5. IsKept(f)
  BY <1>4
<1> HIDE DEF f
<1>6. f[0] = <<>> /\ \A n \in 1 .. N : f[n] = put(n, f[n - 1])
  BY <1>1, <1>5
<1> DEFINE T == {n \in 0 .. N : KeptOf(X, rows, chosen, n, f[n])}
<1>7. 0 \in T
  <2>1. KeptOf(X, rows, chosen, 0, <<>>)
    BY DEF KeptOf
  <2> QED BY <1>1, <1>6, <2>1
<1>8. ASSUME NEW n \in 1 .. N, n - 1 \in T PROVE n \in T
  <2>1. KeptOf(X, rows, chosen, n - 1, f[n - 1])
    BY <1>8
  <2>2. KeptOf(X, rows, chosen, n, put(n, f[n - 1]))
    BY <2>1, OneMoreRow DEF put
  <2>3. n \in 0 .. N
    BY <1>1
  <2> QED BY <1>6, <2>2, <2>3
<1> HIDE DEF T
<1>9. N \in T
  BY ONLY <1>1, <1>7, <1>8, UpTo
<1> QED BY <1>3, <1>9 DEF T

\* What is kept of rows in the order of time is in that order.
LEMMA KeptRises ==
  ASSUME NEW X, Timed(X), NEW rows \in Seq(X), Rising(rows), NEW chosen, NEW s,
         KeptOf(X, rows, chosen, Len(rows), s)
  PROVE  Rising(s)
<1> SUFFICES ASSUME NEW k \in DOMAIN s, NEW l \in DOMAIN s, k <= l
             PROVE  s[k].ts <= s[l].ts
  BY DEF Rising
<1>1. s \in Seq(X) /\ k \in Int /\ l \in Int
  BY DEF KeptOf
<1>2. CASE k < l
  <2>1. PICK i, j \in 1 .. Len(rows) : i < j /\ s[k] = rows[i] /\ s[l] = rows[j]
    BY <1>2 DEF KeptOf
  <2>2. i \in DOMAIN rows /\ j \in DOMAIN rows /\ i <= j
    BY <2>1
  <2> QED BY <2>1, <2>2 DEF Rising
<1>3. CASE k = l
  <2>1. s[k] \in X
    BY <1>1
  <2>2. s[k].ts \in Int
    BY <2>1 DEF Timed
  <2> QED BY <1>3, <2>2
<1> QED BY <1>1, <1>2, <1>3

\* The loaded rows are the samples, all of them, in the order of time.
LEMMA RowsRise ==
  ASSUME NEW X, Timed(X), samples \in Seq(X)
  PROVE  /\ Rows \in Seq(X) /\ Rising(Rows) /\ Len(Rows) = Len(samples)
         /\ \A k \in DOMAIN Rows : \E i \in DOMAIN samples : Rows[k] = samples[i]
         /\ \A i \in DOMAIN samples : \E k \in DOMAIN Rows : Rows[k] = samples[i]
<1> DEFINE D == 1 .. Len(samples)
           stamps == [i \in DOMAIN samples |-> samples[i].ts]
           place == Order(stamps)
<1>1. D = DOMAIN samples /\ Len(samples) \in Nat
  OBVIOUS
<1>2. stamps \in [D -> Int]
  <2> SUFFICES ASSUME NEW i \in D PROVE samples[i].ts \in Int
    BY <1>1
  <2>1. samples[i] \in X
    BY <1>1
  <2> QED BY <2>1 DEF Timed
<1>3. \A i, j \in D : Precedes(stamps, i, j) => samples[i].ts <= samples[j].ts
  <2> SUFFICES ASSUME NEW i \in D, NEW j \in D, Precedes(stamps, i, j)
               PROVE  samples[i].ts <= samples[j].ts
    OBVIOUS
  <2>1. /\ stamps[i] = samples[i].ts /\ stamps[j] = samples[j].ts
        /\ stamps[i] \in Int /\ stamps[j] \in Int
    BY <1>1, <1>2
  <2> HIDE DEF stamps
  <2> QED BY <2>1 DEF Precedes
<1>4. Rows = [k \in D |-> samples[place[k]]]
  BY <1>1 DEF Rows
<1> HIDE DEF stamps
<1>5. /\ place \in [D -> D]
      /\ \A k, l \in D : k < l => Precedes(stamps, place[k], place[l])
      /\ \A i \in D : \E k \in D : place[k] = i
  BY <1>1, <1>2, InTime
<1> HIDE DEF place
<1>6. \A k \in D : place[k] \in D /\ samples[place[k]] \in X
  BY <1>1, <1>5
<1>7. Rows \in Seq(X) /\ DOMAIN Rows = D /\ Len(Rows) = Len(samples)
  BY <1>1, <1>4, <1>6
<1>8. ASSUME NEW k \in D, NEW l \in D, k <= l PROVE Rows[k].ts <= Rows[l].ts
  <2>1. CASE k < l
    BY <1>3, <1>4, <1>5, <1>6, <2>1
  <2>2. CASE k = l
    <3>1. Rows[k].ts \in Int
      BY <1>4, <1>6 DEF Timed
    <3> QED BY <2>2, <3>1
  <2> QED BY <1>8, <2>1, <2>2
<1>9. Rising(Rows)
  BY <1>7, <1>8 DEF Rising
<1> QED BY <1>1, <1>4, <1>5, <1>6, <1>7, <1>9

\* A pointer goes on over what is not later than the stamp: it stays where it was
\* or stops on such a row, and of rows in the order of time all behind it are later.
LEMMA AdvanceStops ==
  ASSUME NEW X, Timed(X), NEW b \in Seq(X), Rising(b), NEW index \in Nat, NEW ts \in Int
  PROVE  /\ Advance(b, index, ts) \in Nat /\ index <= Advance(b, index, ts)
         /\ \/ Advance(b, index, ts) = index
            \/ /\ Advance(b, index, ts) \in DOMAIN b
               /\ b[Advance(b, index, ts)].ts <= ts
         /\ \A j \in DOMAIN b : j > Advance(b, index, ts) => b[j].ts > ts
<1> DEFINE N == Len(b)
           later == {i \in (index + 1)..N : \A j \in (index + 1)..i : b[j].ts <= ts}
           beyond == {i \in (index + 1)..N : b[i].ts > ts}
           stop == IF beyond = {} THEN (IF N > index THEN N ELSE index) ELSE Min(beyond) - 1
<1>1. N \in Nat /\ DOMAIN b = 1 .. N
  OBVIOUS
<1>2. \A j \in DOMAIN b : b[j].ts \in Int
  BY DEF Timed
<1>3. beyond \in SUBSET Nat
  BY <1>1
<1>4. /\ stop \in Nat /\ index <= stop
      /\ stop = index \/ stop \in (index + 1)..N
      /\ \A j \in (index + 1)..N : j <= stop <=> b[j].ts <= ts
  <2>1. CASE beyond = {}
    <3>1. \A j \in (index + 1)..N : b[j].ts <= ts
      BY <1>1, <1>2, <2>1
    <3>2. stop = IF N > index THEN N ELSE index
      BY <2>1
    <3> HIDE DEF beyond, stop
    <3>3. stop \in Nat /\ index <= stop /\ (stop = index \/ stop \in (index + 1)..N)
      <4>1. CASE N > index
        <5>1. stop = N /\ N \in Nat
          BY <1>1, <3>2, <4>1
        <5> HIDE DEF N
        <5> QED BY <4>1, <5>1
      <4>2. CASE ~(N > index)
        BY <3>2, <4>2
      <4> QED BY <4>1, <4>2
    <3>4. \A j \in (index + 1)..N : j <= stop
      BY <1>1, <3>2
    <3> QED BY <3>1, <3>3, <3>4
  <2>2. CASE beyond # {}
    <3> DEFINE m == Min(beyond)
    <3>1. m \in beyond /\ \A x \in beyond : m <= x
      BY <1>3, <2>2, FirstOfPlaces
    <3>2. stop = m - 1
      BY <2>2
    <3> HIDE DEF m, stop
    <3>3. m \in (index + 1)..N /\ b[m].ts > ts
      BY <3>1
    <3>4. ASSUME NEW j \in (index + 1)..N, j < m PROVE b[j].ts <= ts
      <4>1. j \notin beyond
        BY <3>1, <3>3, <3>4
      <4>2. b[j].ts \in Int
        BY <1>1, <1>2
      <4> QED BY <4>1, <4>2
    <3>5. ASSUME NEW j \in (index + 1)..N, m <= j PROVE b[j].ts > ts
      <4>1. j \in DOMAIN b /\ m \in DOMAIN b
        BY <1>1, <3>3
      <4>2. b[m].ts <= b[j].ts
        BY <3>5, <4>1 DEF Rising
      <4>3. b[m].ts \in Int /\ b[j].ts \in Int
        BY <1>2, <4>1
      <4> QED BY <3>3, <4>2, <4>3
    <3>6. stop \in Nat /\ index <= stop /\ (stop = index \/ stop \in (index + 1)..N)
      BY <1>1, <3>2, <3>3
    <3>7. ASSUME NEW j \in (index + 1)..N PROVE j <= stop <=> b[j].ts <= ts
      <4>1. j <= stop <=> j < m
        BY <3>2, <3>3
      <4>2. b[j].ts \in Int /\ (j < m \/ m <= j)
        BY <1>1, <1>2, <3>3
      <4> QED BY <3>4, <3>5, <4>1, <4>2
    <3> QED BY <3>6, <3>7
  <2> QED BY <2>1, <2>2
<1> HIDE DEF stop
<1>5. later = (index + 1)..stop
  <2>1. ASSUME NEW i \in (index + 1)..N
        PROVE  i <= stop <=> \A j \in (index + 1)..i : b[j].ts <= ts
    <3>1. i \in (index + 1)..i /\ \A j \in (index + 1)..i : j \in (index + 1)..N
      BY <1>1
    <3>2. i <= stop => \A j \in (index + 1)..i : j <= stop
      BY <1>4
    <3> QED BY <1>4, <3>1, <3>2
  <2>2. \A i \in (index + 1)..stop : i \in (index + 1)..N
    BY <1>1, <1>4
  <2>3. \A i : i \in later <=> i \in (index + 1)..N /\ i <= stop
    BY <2>1
  <2>4. \A i : i \in (index + 1)..stop <=> i \in (index + 1)..N /\ i <= stop
    BY <1>1, <1>4, <2>2
  <2> HIDE DEF later
  <2> QED BY <2>3, <2>4
<1>6. Advance(b, index, ts) = index + Cardinality(later)
  BY DEF Advance
<1> HIDE DEF later
<1>7. Cardinality(later) = stop - index
  BY <1>4, <1>5, FS_Interval
<1>8. Advance(b, index, ts) = stop
  BY <1>4, <1>6, <1>7
<1>9. ASSUME NEW j \in DOMAIN b, j > stop PROVE b[j].ts > ts
  <2>1. j \in (index + 1)..N /\ ~(j <= stop)
    BY <1>1, <1>4, <1>9
  <2>2. b[j].ts \in Int
    BY <1>2
  <2> QED BY <1>4, <2>1, <2>2
<1>10. stop = index \/ (stop \in DOMAIN b /\ b[stop].ts <= ts)
  <2> SUFFICES ASSUME stop \in (index + 1)..N PROVE stop \in DOMAIN b /\ b[stop].ts <= ts
    BY <1>4
  <2> QED BY <1>1, <1>4
<1> QED BY <1>4, <1>8, <1>9, <1>10

\* A row of the second list is near enough to x.
Reached(b, x, tolerance) == \E j \in DOMAIN b : Distance(b[j].ts, x.ts) <= tolerance

\* The places of the first list that reach the second.
Reaching(a, b, tolerance) == {i \in DOMAIN a : Reached(b, a[i], tolerance)}

NearestOf(b, pair) ==
  \A j \in DOMAIN b : Distance(pair[2].ts, pair[1].ts) <= Distance(b[j].ts, pair[1].ts)

\* After n rows of the first list the pointer is on no later row than the last
\* of them, and each row that reaches one of the second has been set against the
\* nearest.
PairedTo(X, a, b, tolerance, n, s) ==
  /\ s \in Scans(X, a, b, tolerance)
  /\ s.index = 1 \/ (s.index \in DOMAIN b /\ n \in DOMAIN a /\ b[s.index].ts <= a[n].ts)
  /\ \A k \in DOMAIN s.pairs : NearestOf(b, s.pairs[k])
  /\ Len(s.pairs) = Cardinality({i \in 1 .. n : Reached(b, a[i], tolerance)})

\* The nearest of all is the row under the pointer or the one behind it.
LEMMA NearestIsNext ==
  ASSUME NEW X, Timed(X), NEW b \in Seq(X), Rising(b), b # <<>>, NEW ts \in Int,
         NEW index \in Nat,
         index = 1 \/ (index \in DOMAIN b /\ b[index].ts <= ts),
         \A j \in DOMAIN b : j > index => b[j].ts > ts
  PROVE  /\ Near(b, index) # {} /\ Near(b, index) \subseteq DOMAIN b
         /\ \A j \in DOMAIN b :
              Distance(b[Closest(b, Near(b, index), ts)].ts, ts) <= Distance(b[j].ts, ts)
<1> DEFINE near == Near(b, index)
           best == Closest(b, near, ts)
<1>1. Len(b) \in Nat /\ DOMAIN b = 1 .. Len(b) /\ Len(b) # 0
  BY EmptySeq
<1>2. near = {index, index + 1} \cap DOMAIN b
  BY DEF Near, Neighbours
<1>3. index \in DOMAIN b /\ index \in near
  BY <1>1, <1>2
<1>4. \A j \in DOMAIN b : b[j].ts \in Int
  BY DEF Timed
<1> HIDE DEF near
<1>5. best \in near /\ \A j \in near : Distance(b[best].ts, ts) <= Distance(b[j].ts, ts)
  BY <1>2, <1>3, ClosestIsNear
<1>6. best \in DOMAIN b
  BY <1>2, <1>5
<1> HIDE DEF best
<1>7. \A j \in DOMAIN b : Distance(b[j].ts, ts) \in Int
  BY <1>4 DEF Distance
<1>8. ASSUME NEW j \in DOMAIN b
      PROVE  \E i \in near : Distance(b[i].ts, ts) <= Distance(b[j].ts, ts)
  <2>1. CASE j <= index
    <3>1. CASE j = index
      BY <1>3, <1>7, <3>1
    <3>2. CASE j < index
      <4>1. b[index].ts <= ts
        BY <1>1, <3>2
      <4>2. b[j].ts <= b[index].ts
        BY <1>3, <2>1 DEF Rising
      <4>3. Distance(b[index].ts, ts) <= Distance(b[j].ts, ts)
        BY <1>3, <1>4, <4>1, <4>2 DEF Distance
      <4> QED BY <1>3, <4>3
    <3> QED BY <1>1, <2>1, <3>1, <3>2
  <2>2. CASE j > index
    <3>1. index + 1 \in near
      BY <1>1, <1>2, <1>3, <2>2
    <3>2. index + 1 \in DOMAIN b /\ index + 1 > index /\ index + 1 <= j
      BY <1>1, <1>3, <2>2
    <3>3. b[index + 1].ts > ts /\ b[index + 1].ts <= b[j].ts
      BY <3>2 DEF Rising
    <3>4. Distance(b[index + 1].ts, ts) <= Distance(b[j].ts, ts)
      BY <1>4, <3>2, <3>3 DEF Distance
    <3> QED BY <3>1, <3>4
  <2> QED BY <1>1, <2>1, <2>2
<1>9. ASSUME NEW j \in DOMAIN b PROVE Distance(b[best].ts, ts) <= Distance(b[j].ts, ts)
  <2>1. PICK i \in near : Distance(b[i].ts, ts) <= Distance(b[j].ts, ts)
    BY <1>8
  <2>2. i \in DOMAIN b
    BY <1>2
  <2> QED BY <1>5, <1>6, <1>7, <2>1, <2>2
<1> QED BY <1>2, <1>3, <1>9 DEF near, best

LEMMA OneMorePlace ==
  ASSUME NEW n \in Nat, n # 0, NEW R
  PROVE  /\ n \in R => Cardinality((1 .. n) \cap R) = Cardinality((1 .. n - 1) \cap R) + 1
         /\ n \notin R => (1 .. n) \cap R = (1 .. n - 1) \cap R
<1> DEFINE upTo == (1 .. n) \cap R
           before == (1 .. n - 1) \cap R
<1>1. IsFiniteSet(1 .. n - 1) /\ before \in SUBSET (1 .. n - 1)
  BY FS_Interval
<1>2. IsFiniteSet(before)
  BY <1>1, FS_Subset
<1>3. n \in R => upTo = before \cup {n} /\ n \notin before
  OBVIOUS
<1>4. n \notin R => upTo = before
  OBVIOUS
<1> HIDE DEF upTo, before
<1>5. n \in R => Cardinality(upTo) = Cardinality(before) + 1
  BY <1>2, <1>3, FS_AddElement
<1> QED BY <1>4, <1>5 DEF upTo, before

\* The next row goes on from where the pointer is.
LEMMA MatchPairs ==
  ASSUME NEW X, Timed(X), NEW a \in Seq(X), Rising(a), NEW b \in Seq(X), Rising(b),
         NEW tolerance \in Nat, NEW n \in 1 .. Len(a), NEW s,
         PairedTo(X, a, b, tolerance, n - 1, s)
  PROVE  PairedTo(X, a, b, tolerance, n, Match(s, a[n], b, tolerance))
<1> DEFINE x == a[n]
           index == Advance(b, s.index, x.ts)
           near == Near(b, index)
           best == Closest(b, near, x.ts)
           R == {i \in 1 .. Len(a) : Reached(b, a[i], tolerance)}
           r == Match(s, x, b, tolerance)
           P == Together(X, a, b, tolerance)
<1>1. /\ n \in DOMAIN a /\ x \in X /\ x.ts \in Int /\ Len(a) \in Nat
      /\ \A j \in DOMAIN b : b[j].ts \in Int
  BY DEF Timed
<1>2. s \in Scans(X, a, b, tolerance) /\ s.index \in Nat /\ s.pairs \in Seq(P)
  BY DEF PairedTo, Scans
<1>3. r \in Scans(X, a, b, tolerance)
  BY <1>1, <1>2, MatchAdds
<1>4. n \in Nat /\ n # 0
  OBVIOUS
<1>5. Cardinality((1 .. n - 1) \cap R) = Len(s.pairs)
  <2>1. (1 .. n - 1) \cap R = {i \in 1 .. n - 1 : Reached(b, a[i], tolerance)}
    BY <1>1
  <2> QED BY <2>1 DEF PairedTo
<1>6. (1 .. n) \cap R = {i \in 1 .. n : Reached(b, a[i], tolerance)}
  BY <1>1
<1>7. n \in R <=> Reached(b, x, tolerance)
  BY <1>1
<1>8. /\ n \in R => Cardinality((1 .. n) \cap R) = Len(s.pairs) + 1
      /\ n \notin R => Cardinality((1 .. n) \cap R) = Len(s.pairs)
  <2> HIDE DEF R
  <2> QED BY <1>4, <1>5, OneMorePlace
<1> HIDE DEF R
<1>9. /\ index \in Nat
      /\ index = s.index \/ (index \in DOMAIN b /\ b[index].ts <= x.ts)
      /\ \A j \in DOMAIN b : j > index => b[j].ts > x.ts
  BY <1>1, <1>2, AdvanceStops
<1>10. index = 1 \/ (index \in DOMAIN b /\ b[index].ts <= x.ts)
  <2> SUFFICES ASSUME index = s.index, s.index # 1
               PROVE  index \in DOMAIN b /\ b[index].ts <= x.ts
    BY <1>9
  <2>1. s.index \in DOMAIN b /\ n - 1 \in DOMAIN a /\ b[s.index].ts <= a[n - 1].ts
    BY DEF PairedTo
  <2>2. a[n - 1].ts <= x.ts /\ a[n - 1].ts \in Int
    BY <1>1, <2>1 DEF Rising, Timed
  <2> QED BY <1>1, <2>1, <2>2
<1>11. /\ r.index = index
       /\ r.pairs = IF near # {} /\ Distance(b[best].ts, x.ts) <= tolerance
                    THEN Append(s.pairs, <<x, b[best]>>) ELSE s.pairs
  BY DEF Match
<1> HIDE DEF index, r
<1>12. ASSUME b = <<>> PROVE PairedTo(X, a, b, tolerance, n, r)
  <2>1. near = {} /\ ~Reached(b, x, tolerance)
    BY <1>12 DEF Near, Neighbours, Reached
  <2>2. r.pairs = s.pairs /\ n \notin R
    BY <1>7, <1>11, <2>1
  <2> QED BY <1>1, <1>3, <1>6, <1>8, <1>10, <1>11, <2>2 DEF PairedTo
<1>13. ASSUME b # <<>> PROVE PairedTo(X, a, b, tolerance, n, r)
  <2>1. /\ near # {} /\ near \subseteq DOMAIN b
        /\ \A j \in DOMAIN b : Distance(b[best].ts, x.ts) <= Distance(b[j].ts, x.ts)
    BY <1>1, <1>9, <1>10, <1>13, NearestIsNext
  <2>2. best \in DOMAIN b
    BY <1>1, <2>1, ClosestIsNear
  <2> HIDE DEF near, best
  <2>3. \A j \in DOMAIN b : Distance(b[j].ts, x.ts) \in Int
    BY <1>1 DEF Distance
  <2>4. Distance(b[best].ts, x.ts) <= tolerance <=> n \in R
    BY <1>7, <2>1, <2>2, <2>3 DEF Reached
  <2>5. CASE n \in R
    <3> DEFINE pair == <<x, b[best]>>
    <3>1. r.pairs = Append(s.pairs, pair)
      BY <1>11, <2>1, <2>4, <2>5
    <3>2. NearestOf(b, pair)
      BY <2>1 DEF NearestOf
    <3>3. pair \in P
      <4>1. b[best] \in X /\ Distance(b[best].ts, x.ts) <= tolerance
        BY <2>2, <2>4, <2>5
      <4> QED BY <1>1, <2>2, <4>1 DEF Together
    <3> HIDE DEF pair, P
    <3>4. /\ Len(r.pairs) = Len(s.pairs) + 1 /\ DOMAIN r.pairs = 1 .. Len(s.pairs) + 1
          /\ r.pairs[Len(s.pairs) + 1] = pair
          /\ \A k \in 1 .. Len(s.pairs) : k \in DOMAIN s.pairs /\ r.pairs[k] = s.pairs[k]
      BY <1>2, <3>1, <3>3, AppendProperties, LenProperties
    <3>5. Len(s.pairs) \in Nat
      BY <1>2
    <3>6. \A k \in DOMAIN r.pairs : NearestOf(b, r.pairs[k])
      <4> SUFFICES ASSUME NEW k \in DOMAIN r.pairs PROVE NearestOf(b, r.pairs[k])
        OBVIOUS
      <4>1. k = Len(s.pairs) + 1 \/ k \in 1 .. Len(s.pairs)
        BY <3>4, <3>5
      <4> QED BY <3>2, <3>4, <4>1 DEF PairedTo
    <3> QED BY <1>1, <1>3, <1>6, <1>8, <1>10, <1>11, <2>5, <3>4, <3>6 DEF PairedTo
  <2>6. CASE n \notin R
    <3>1. r.pairs = s.pairs
      BY <1>11, <2>4, <2>6
    <3> QED BY <1>1, <1>3, <1>6, <1>8, <1>10, <1>11, <2>6, <3>1 DEF PairedTo
  <2> QED BY <2>5, <2>6
<1> QED BY <1>12, <1>13 DEF r

\* Of two lists in the order of time every row of the first that reaches a row of
\* the second is set against the nearest, and no other (alignment.py:177-227).
LEMMA AlignedNearest ==
  ASSUME NEW X, Timed(X), NEW a \in Seq(X), Rising(a), NEW b \in Seq(X), Rising(b),
         NEW tolerance \in Nat
  PROVE  /\ Align(a, b, tolerance) \in Seq(Together(X, a, b, tolerance))
         /\ \A k \in DOMAIN Align(a, b, tolerance) : NearestOf(b, Align(a, b, tolerance)[k])
         /\ Len(Align(a, b, tolerance)) = Cardinality(Reaching(a, b, tolerance))
<1>1. PICK f \in [0 .. Len(a) -> Scans(X, a, b, tolerance)] : AlignScan(f, a, b, tolerance)
  BY AlignScans
<1> DEFINE N == Len(a)
           T == {n \in 0 .. N : PairedTo(X, a, b, tolerance, n, f[n])}
<1>2. N \in Nat /\ DOMAIN a = 1 .. N /\ N \in 0 .. N
  OBVIOUS
<1>3. 0 \in T
  <2>1. f[0] = Start /\ 0 \in 0 .. N
    BY <1>1, <1>2 DEF AlignScan
  <2>2. {i \in 1 .. 0 : Reached(b, a[i], tolerance)} = {}
    OBVIOUS
  <2>3. Cardinality({i \in 1 .. 0 : Reached(b, a[i], tolerance)}) = 0
    BY <2>2, FS_EmptySet
  <2>4. Start.index = 1 /\ Start.pairs = <<>>
    BY DEF Start
  <2>5. f[0] \in Scans(X, a, b, tolerance)
    BY <1>1, <2>1
  <2> QED BY <2>1, <2>3, <2>4, <2>5 DEF PairedTo
<1>4. ASSUME NEW n \in 1 .. N, n - 1 \in T PROVE n \in T
  <2>1. PairedTo(X, a, b, tolerance, n - 1, f[n - 1]) /\ n \in 0 .. N
    BY <1>2, <1>4
  <2>2. f[n] = Match(f[n - 1], a[n], b, tolerance)
    BY <1>1 DEF AlignScan
  <2> QED BY <2>1, <2>2, MatchPairs
<1> HIDE DEF T
<1>5. N \in T
  BY ONLY <1>2, <1>3, <1>4, UpTo
<1>6. PairedTo(X, a, b, tolerance, N, f[N]) /\ Align(a, b, tolerance) = f[N].pairs
  BY <1>1, <1>5 DEF T, AlignScan
<1>7. {i \in 1 .. N : Reached(b, a[i], tolerance)} = Reaching(a, b, tolerance)
  BY <1>2 DEF Reaching
<1> QED BY <1>6, <1>7 DEF PairedTo, Scans

\* Samples whose stamp is the true time.
TrueRows ==
  {r \in [key : Measured, at : Int, ts : Int, quality : {"ok"} \cup Flags,
          value : {0, DrivingSpeed + 1}] : r.ts = r.at}

\* The clock of a run that was opened on a disciplined clock has never been off.
ClockHolds ==
  drive.synced = 1 => /\ clock \in [now : Int, skew : {0}, stepped : BOOLEAN]
                      /\ samples \in Seq(TrueRows)

LEMMA ClockHoldsInit == ReportInit => ClockHolds
BY DEF ReportInit, ClockHolds

LEMMA ClockHoldsStep == ClockHolds /\ [ReportNext]_reportVars => ClockHolds'
<1> SUFFICES ASSUME ClockHolds, [ReportNext]_reportVars PROVE ClockHolds'
  OBVIOUS
<1>1. CASE Sample
  <2> SUFFICES ASSUME drive'.synced = 1
               PROVE  /\ clock' \in [now : Int, skew : {0}, stepped : BOOLEAN]
                      /\ samples' \in Seq(TrueRows)
    BY DEF ClockHolds
  <2>1. /\ clock \in [now : Int, skew : {0}, stepped : BOOLEAN]
        /\ samples \in Seq(TrueRows)
    BY <1>1 DEF Sample, ClockHolds
  <2>2. PICK key \in Measured, at0 \in clock.now..MaxTrue, quality \in {"ok"} \cup Flags,
             value \in {0, DrivingSpeed + 1} :
          /\ clock' = [clock EXCEPT !.now = at0]
          /\ samples' = Append(samples, [key |-> key, at |-> at0, ts |-> at0 + clock.skew,
                                         quality |-> quality, value |-> value])
    BY <1>1 DEF Sample
  <2>3. at0 \in Int /\ at0 + clock.skew = at0
    BY <2>1
  <2>4. [key |-> key, at |-> at0, ts |-> at0 + clock.skew, quality |-> quality,
         value |-> value] \in TrueRows
    BY <2>3 DEF TrueRows
  <2> QED BY <2>1, <2>2, <2>3, <2>4
<1>2. CASE ClockSteps
  BY <1>2 DEF ClockSteps, ClockHolds
<1>3. CASE Refit \/ UNCHANGED reportVars
  BY <1>3 DEF Refit, reportVars, ClockHolds
<1> QED BY <1>1, <1>2, <1>3 DEF ReportNext

LEMMA TrueRowsTimed == Timed(TrueRows)
BY DEF Timed, TrueRows

\* A series has the samples of its channel that are not flagged, all of them, in
\* the order of time.
LEMMA SeriesHas ==
  ASSUME samples \in Seq(TrueRows), NEW key
  PROVE  /\ Series(key) \in Seq(TrueRows) /\ Rising(Series(key))
         /\ \A k \in DOMAIN Series(key) : Series(key)[k].quality = "ok"
         /\ \A i \in DOMAIN samples : samples[i].key = key /\ samples[i].quality = "ok" =>
              \E k \in DOMAIN Series(key) : Series(key)[k] = samples[i]
         /\ \A k \in DOMAIN Series(key) :
              \E i \in DOMAIN samples : /\ Series(key)[k] = samples[i]
                                        /\ samples[i].key = key /\ samples[i].quality = "ok"
<1> DEFINE chosen == {r \in Loaded : r.key = key /\ r.quality = "ok"}
           s == Series(key)
<1>1. /\ Rows \in Seq(TrueRows) /\ Rising(Rows)
      /\ \A k \in DOMAIN Rows : \E i \in DOMAIN samples : Rows[k] = samples[i]
      /\ \A i \in DOMAIN samples : \E k \in DOMAIN Rows : Rows[k] = samples[i]
  BY TrueRowsTimed, RowsRise
<1>2. s = Only(Rows, chosen)
  BY DEF Series
<1>3. \A r : r \in chosen <=> /\ \E i \in DOMAIN samples : r = samples[i]
                              /\ r.key = key /\ r.quality = "ok"
  BY DEF Loaded
<1> HIDE DEF chosen, s
<1>4. KeptOf(TrueRows, Rows, chosen, Len(Rows), s)
  BY <1>1, <1>2, OnlyKeeps
<1>5. Rising(s)
  BY <1>1, <1>4, TrueRowsTimed, KeptRises
<1>6. s \in Seq(TrueRows \cap chosen)
  BY <1>4 DEF KeptOf
<1>7. \A k \in DOMAIN s : s[k] \in chosen
  BY <1>6
<1>8. s \in Seq(TrueRows)
  BY <1>6
<1>9. ASSUME NEW i \in DOMAIN samples, samples[i].key = key, samples[i].quality = "ok"
      PROVE  \E k \in DOMAIN s : s[k] = samples[i]
  <2>1. PICK n \in DOMAIN Rows : Rows[n] = samples[i]
    BY <1>1
  <2>2. Rows[n] \in chosen /\ n \in 1 .. Len(Rows)
    BY <1>1, <1>3, <1>9, <2>1
  <2> QED BY <1>4, <2>1, <2>2 DEF KeptOf
<1> QED BY <1>3, <1>5, <1>7, <1>8, <1>9 DEF s

\* So has what is in the span of the drive.
LEMMA InSpanHas ==
  ASSUME samples \in Seq(TrueRows), NEW series \in Seq(TrueRows), Rising(series),
         \A k \in DOMAIN series : series[k].quality = "ok"
  PROVE  /\ InSpan(series) \in Seq(TrueRows) /\ Rising(InSpan(series))
         /\ \A k \in DOMAIN InSpan(series) : InSpan(series)[k].quality = "ok"
<1> DEFINE driven == {r \in Loaded : Head(Driving).ts <= r.ts /\ r.ts <= Last(Driving).ts}
           s == Only(series, driven)
<1>1. InSpan(series) = series \/ InSpan(series) = s
  BY DEF InSpan
<1> HIDE DEF driven
<1>2. KeptOf(TrueRows, series, driven, Len(series), s)
  BY OnlyKeeps
<1> HIDE DEF s
<1>3. Rising(s)
  BY <1>2, TrueRowsTimed, KeptRises
<1>4. s \in Seq(TrueRows)
  BY <1>2 DEF KeptOf
<1>5. \A k \in DOMAIN s : s[k].quality = "ok"
  BY <1>2 DEF KeptOf
<1> QED BY <1>1, <1>3, <1>4, <1>5

\* What the report compares was measured together, by the true time: every sample
\* from the drive is set against the setpoint nearest to it, when one is near
\* enough, and against none otherwise, for any samples, flags, clocks and
\* tolerance (alignment.py:177-227, session_report.py:338-351, 527-582).
THEOREM ComparedInTruth == ReportSpec => []PairedInTruth
<1>1. ClockHolds => PairedInTruth
  <2> DEFINE near(x) == {i \in DOMAIN samples :
                           /\ samples[i].key = "set" /\ samples[i].quality = "ok"
                           /\ Distance(samples[i].at, x.at) <= Tolerance}
             series == InSpan(Series("act"))
             sets == Series("set")
             pairs == Tracking
             Nearest(pair) ==
               /\ pair[1].quality = "ok" /\ pair[2].quality = "ok"
               /\ Distance(pair[2].at, pair[1].at) <= Tolerance
               /\ \A j \in near(pair[1]) : Distance(pair[2].at, pair[1].at)
                                            <= Distance(samples[j].at, pair[1].at)
  <2>1. SUFFICES ASSUME ClockHolds, TimeTrusted
                 PROVE  /\ \A i \in DOMAIN pairs : Nearest(pairs[i])
                        /\ Len(pairs) = Cardinality({i \in DOMAIN series : near(series[i]) # {}})
    <3>1. pairs # <<>> => TimeTrusted
      BY DEF Tracking
    <3> HIDE DEF pairs, series
    <3> QED BY <3>1 DEF PairedInTruth, pairs, series
  <2>2. samples \in Seq(TrueRows)
    BY <2>1 DEF ClockHolds, TimeTrusted
  <2>3. /\ Series("act") \in Seq(TrueRows) /\ Rising(Series("act"))
        /\ \A k \in DOMAIN Series("act") : Series("act")[k].quality = "ok"
    BY <2>2, SeriesHas
  <2>4. /\ series \in Seq(TrueRows) /\ Rising(series)
        /\ \A k \in DOMAIN series : series[k].quality = "ok"
    BY <2>2, <2>3, InSpanHas
  <2>5. /\ sets \in Seq(TrueRows) /\ Rising(sets)
        /\ \A k \in DOMAIN sets : sets[k].quality = "ok"
        /\ \A i \in DOMAIN samples : samples[i].key = "set" /\ samples[i].quality = "ok" =>
             \E k \in DOMAIN sets : sets[k] = samples[i]
        /\ \A k \in DOMAIN sets :
             \E i \in DOMAIN samples : /\ sets[k] = samples[i]
                                       /\ samples[i].key = "set" /\ samples[i].quality = "ok"
    BY <2>2, SeriesHas
  <2>6. pairs = Align(series, sets, Tolerance)
    BY <2>1 DEF Tracking
  <2> HIDE DEF series, sets, pairs
  <2>7. /\ pairs \in Seq(Together(TrueRows, series, sets, Tolerance))
        /\ \A k \in DOMAIN pairs : NearestOf(sets, pairs[k])
        /\ Len(pairs) = Cardinality(Reaching(series, sets, Tolerance))
    <3> DEFINE aligned == Align(series, sets, Tolerance)
    <3>1. /\ series \in Seq(TrueRows) /\ Rising(series)
          /\ sets \in Seq(TrueRows) /\ Rising(sets) /\ Tolerance \in Nat
      BY <2>4, <2>5, ReportAssumption
    <3>2. /\ aligned \in Seq(Together(TrueRows, series, sets, Tolerance))
          /\ \A k \in DOMAIN aligned : NearestOf(sets, aligned[k])
          /\ Len(aligned) = Cardinality(Reaching(series, sets, Tolerance))
      BY ONLY <3>1, TrueRowsTimed, AlignedNearest
    <3> QED BY ONLY <2>6, <3>2
  <2>8. \A r \in TrueRows : r.at = r.ts
    BY DEF TrueRows
  <2>9. \A i \in DOMAIN samples : samples[i].at = samples[i].ts
    BY <2>2, <2>8
  <2>10. ASSUME NEW i \in DOMAIN pairs PROVE Nearest(pairs[i])
    <3> DEFINE x == pairs[i][1]
               y == pairs[i][2]
    <3>1. pairs[i] \in Together(TrueRows, series, sets, Tolerance)
      BY <2>7
    <3>2. PICK k \in DOMAIN series, l \in DOMAIN sets : pairs[i] = <<series[k], sets[l]>>
      BY <3>1 DEF Together
    <3>3. /\ x \in TrueRows /\ y \in TrueRows /\ Distance(y.ts, x.ts) <= Tolerance
          /\ x.quality = "ok" /\ y.quality = "ok"
      BY <2>4, <2>5, <3>1, <3>2 DEF Together
    <3>4. \A j \in DOMAIN sets : Distance(y.ts, x.ts) <= Distance(sets[j].ts, x.ts)
      BY <2>7 DEF NearestOf
    <3>5. x.at = x.ts /\ y.at = y.ts
      BY <2>8, <3>3
    <3> HIDE DEF x, y
    <3>6. ASSUME NEW j \in near(x) PROVE Distance(y.at, x.at) <= Distance(samples[j].at, x.at)
      <4>1. j \in DOMAIN samples /\ samples[j].key = "set" /\ samples[j].quality = "ok"
        OBVIOUS
      <4>2. PICK m \in DOMAIN sets : sets[m] = samples[j]
        BY <2>5, <4>1
      <4> QED BY <2>9, <3>4, <3>5, <4>1, <4>2
    <3> QED BY <3>3, <3>5, <3>6 DEF x, y
  <2>11. ASSUME NEW i \in DOMAIN series
         PROVE  Reached(sets, series[i], Tolerance) <=> near(series[i]) # {}
    <3>1. series[i].at = series[i].ts
      BY <2>4, <2>8
    <3>2. ASSUME Reached(sets, series[i], Tolerance) PROVE near(series[i]) # {}
      <4>1. PICK k \in DOMAIN sets : Distance(sets[k].ts, series[i].ts) <= Tolerance
        BY <3>2 DEF Reached
      <4>2. PICK j \in DOMAIN samples : /\ sets[k] = samples[j]
                                        /\ samples[j].key = "set" /\ samples[j].quality = "ok"
        BY <2>5
      <4> QED BY <2>9, <3>1, <4>1, <4>2
    <3>3. ASSUME NEW j \in near(series[i]) PROVE Reached(sets, series[i], Tolerance)
      <4>1. PICK k \in DOMAIN sets : sets[k] = samples[j]
        BY <2>5
      <4> QED BY <2>9, <3>1, <4>1 DEF Reached
    <3> QED BY <3>2, <3>3
  <2>12. Reaching(series, sets, Tolerance) = {i \in DOMAIN series : near(series[i]) # {}}
    <3> HIDE DEF near
    <3> QED BY <2>11 DEF Reaching
  <2> HIDE DEF near
  <2> QED BY <2>7, <2>10, <2>12
<1> QED BY <1>1, ClockHoldsInit, ClockHoldsStep, PTL DEF ReportSpec

-----------------------------------------------------------------------------
(* History *)

RunRows ==
  [started : Int, ended : Int \cup {Missing}, last : Int \cup {Missing},
   synced : BOOLEAN, boot : Int \cup {Missing}, hardware : {"old", "new", Missing},
   build : Nat, data : SUBSET Channels, from : Nat, alive : Nat]

Hosts == [skew : Int, synced : BOOLEAN, boot : Int, names : BOOLEAN]
Vehicles == [hardware : {"old", "new"}, build : Nat]

\* What the clock showed of a run that knows it was disciplined is the truth.
TrueBy(r, t) == /\ r.from <= r.alive /\ r.alive <= t
                /\ r.synced => r.started = r.from /\ Finish(r) = r.alive

\* Runs are true, and follow each other.
RowsTold(rs, t) == /\ rs \in Seq(RunRows)
                   /\ \A i \in DOMAIN rs : TrueBy(rs[i], t)
                   /\ \A i, j \in DOMAIN rs : i < j => rs[i].alive <= rs[j].from

\* A disciplined clock is right, and so are the runs it stamped.
HistoryInv ==
  /\ now \in Nat /\ host \in Hosts /\ vehicle \in Vehicles /\ events \subseteq Nat
  /\ host.synced => host.skew = 0
  /\ RowsTold(runs, now)

\* Where a run ended by the clock is a time, however it ended.
LEMMA FinishIsATime ==
  ASSUME NEW r \in RunRows PROVE Finish(r) \in Int
BY DEF RunRows, Finish, FinishedAt

\* A row is true of the drive it was recorded on.
LEMMA RowIsTrue ==
  ASSUME HistoryInv, NEW from \in Nat, NEW skew \in Int, NEW synced \in BOOLEAN,
         synced => skew = 0, NEW stop \in Nat, from <= stop,
         NEW s \in Sampling(stop), NEW to \in {stop, Missing}
  PROVE  LET r == Row(from, skew, synced, s[1], to, s[2])
         IN /\ r \in RunRows /\ r.from = from /\ from <= r.alive /\ r.alive <= stop
            /\ r.synced = synced
            /\ to # Missing => r.alive = stop
            /\ r.synced => r.started = r.from /\ Finish(r) = r.alive
<1> DEFINE r == Row(from, skew, synced, s[1], to, s[2])
<1>1. s[1] \in {stop, Missing} /\ s[2] \in SUBSET Channels
  BY DEF Sampling
<1>2. stop # Missing /\ stop + skew # Missing /\ stop + skew \in Int
  BY HistoryAssumption
<1>3. /\ r.started = from + skew /\ r.from = from /\ r.synced = synced
      /\ r.ended = IF to = Missing THEN Missing ELSE to + skew
      /\ r.last = IF s[1] = Missing THEN Missing ELSE s[1] + skew
      /\ r.alive = IF to # Missing THEN to ELSE IF s[1] # Missing THEN s[1] ELSE from
  BY DEF Row
<1>4. r \in RunRows
  <2>1. /\ (IF to = Missing THEN Missing ELSE to + skew) \in Int \cup {Missing}
        /\ (IF s[1] = Missing THEN Missing ELSE s[1] + skew) \in Int \cup {Missing}
        /\ (IF to # Missing THEN to ELSE IF s[1] # Missing THEN s[1] ELSE from) \in Nat
        /\ from + skew \in Int
    BY <1>1, <1>2
  <2>2. /\ (IF host.names THEN host.boot ELSE Missing) \in Int \cup {Missing}
        /\ (IF host.names THEN vehicle.hardware ELSE Missing) \in {"old", "new", Missing}
        /\ vehicle.build \in Nat
    BY DEF HistoryInv, Hosts, Vehicles
  <2> QED BY <1>1, <2>1, <2>2 DEF Row, RunRows
<1> HIDE DEF r
<1>5. from <= r.alive /\ r.alive <= stop /\ (to # Missing => r.alive = stop)
  BY <1>1, <1>2, <1>3
<1>6. synced => r.started = r.from /\ Finish(r) = r.alive
  BY <1>1, <1>2, <1>3 DEF Finish, FinishedAt
<1> QED BY <1>3, <1>4, <1>5, <1>6 DEF r

\* What the host's record is once fields of it have changed.
LEMMA HostChanged ==
  ASSUME NEW h \in Hosts, NEW k \in Int, NEW n \in Int, NEW b \in BOOLEAN
  PROVE  /\ [h EXCEPT !.skew = k, !.synced = b] \in Hosts
         /\ [h EXCEPT !.skew = k, !.boot = n, !.synced = b] \in Hosts
BY DEF Hosts

\* The same of the vehicle's record.
LEMMA VehicleChanged ==
  ASSUME NEW v \in Vehicles, NEW w \in {"old", "new"}, NEW n \in Nat
  PROVE  [v EXCEPT !.hardware = w] \in Vehicles /\ [v EXCEPT !.build = n] \in Vehicles
BY DEF Vehicles

\* The rows of a list, and their times.
LEMMA RowsOf ==
  ASSUME NEW rs \in Seq(RunRows), NEW i \in DOMAIN rs
  PROVE  rs[i] \in RunRows /\ rs[i].alive \in Nat /\ rs[i].from \in Nat
<1>1. rs[i] \in RunRows
  OBVIOUS
<1> QED BY <1>1 DEF RunRows

\* Rows stay true as time goes on.
LEMMA RowsLeft ==
  ASSUME NEW rs, NEW t \in Nat, NEW u \in Nat, RowsTold(rs, t), t <= u
  PROVE  RowsTold(rs, u)
<1>1. rs \in Seq(RunRows)
  BY DEF RowsTold
<1>2. ASSUME NEW i \in DOMAIN rs PROVE TrueBy(rs[i], u)
  <2>1. TrueBy(rs[i], t) /\ rs[i].alive \in Nat
    BY <1>1, RowsOf DEF RowsTold
  <2> QED BY <2>1 DEF TrueBy
<1> QED BY <1>2 DEF RowsTold

\* A true row behind the others keeps them in order.
LEMMA RowAppended ==
  ASSUME NEW rs, NEW t \in Nat, NEW u \in Nat, NEW r \in RunRows,
         RowsTold(rs, t), TrueBy(r, u), t <= r.from, t <= u
  PROVE  RowsTold(Append(rs, r), u)
<1> DEFINE qs == Append(rs, r)
<1>1. rs \in Seq(RunRows)
  BY DEF RowsTold
<1>2. /\ qs \in Seq(RunRows) /\ DOMAIN qs = 1 .. Len(rs) + 1 /\ Len(rs) \in Nat
      /\ qs[Len(rs) + 1] = r /\ \A i \in DOMAIN rs : qs[i] = rs[i] /\ DOMAIN rs = 1 .. Len(rs)
  BY <1>1
<1> HIDE DEF qs
<1>3. \A i \in DOMAIN qs : i = Len(rs) + 1 \/ (i \in DOMAIN rs /\ qs[i] = rs[i])
  BY <1>2
<1>4. RowsTold(rs, u)
  BY RowsLeft
<1>5. ASSUME NEW i \in DOMAIN qs PROVE TrueBy(qs[i], u)
  BY <1>2, <1>3, <1>4 DEF RowsTold
<1>6. ASSUME NEW i \in DOMAIN qs, NEW j \in DOMAIN qs, i < j
      PROVE  qs[i].alive <= qs[j].from
  <2>1. i \in DOMAIN rs /\ qs[i] = rs[i] /\ rs[i].alive \in Nat
    BY <1>1, <1>2, <1>6, RowsOf
  <2>2. rs[i].alive <= t
    BY <2>1 DEF RowsTold, TrueBy
  <2>3. CASE j = Len(rs) + 1
    <3>1. qs[j].from = r.from /\ r.from \in Nat
      BY <1>2, <2>3 DEF RunRows
    <3> QED BY <2>1, <2>2, <3>1
  <2>4. CASE j \in DOMAIN rs /\ qs[j] = rs[j]
    BY <1>6, <2>1, <2>4 DEF RowsTold
  <2> QED BY <1>3, <2>3, <2>4
<1> QED BY <1>2, <1>5, <1>6 DEF RowsTold, qs

\* A run recorded behind the others.
LEMMA RecordStep ==
  ASSUME HistoryInv, Record PROVE HistoryInv'
<1>0. PICK stop \in Until(now) : \E s \in Sampling(stop), to \in {stop, Missing} :
        /\ now' = stop
        /\ runs' = Append(runs, Row(now, host.skew, host.synced, s[1], to, s[2]))
  BY DEF Record
<1>1. PICK s \in Sampling(stop), to \in {stop, Missing} :
        /\ now' = stop
        /\ runs' = Append(runs, Row(now, host.skew, host.synced, s[1], to, s[2]))
  BY <1>0
<1> DEFINE r == Row(now, host.skew, host.synced, s[1], to, s[2])
<1>2. stop \in Nat /\ now <= stop /\ now \in Nat
  BY DEF Until, HistoryInv
<1>3. /\ host.skew \in Int /\ host.synced \in BOOLEAN /\ (host.synced => host.skew = 0)
      /\ UNCHANGED <<host, vehicle, events>> /\ RowsTold(runs, now)
  BY DEF HistoryInv, Hosts, Record
<1>4. /\ r \in RunRows /\ r.from = now /\ now <= r.alive /\ r.alive <= stop
      /\ r.synced => r.started = r.from /\ Finish(r) = r.alive
  BY <1>2, <1>3, RowIsTrue
<1> HIDE DEF r
<1>5. TrueBy(r, stop) /\ now <= r.from
  BY <1>2, <1>4 DEF TrueBy
<1>6. runs' = Append(runs, r) /\ now' = stop
  BY <1>1 DEF r
<1>7. RowsTold(runs', now')
  BY <1>2, <1>3, <1>4, <1>5, <1>6, RowAppended
<1> QED BY <1>2, <1>3, <1>6, <1>7 DEF HistoryInv

\* A run closed on the new clock, and one opened on it.
LEMMA AcrossStep ==
  ASSUME HistoryInv, RecordAcrossStep PROVE HistoryInv'
<1>1. PICK step \in Until(now) : \E stop \in Until(step) : \E s \in Sampling(stop) :
        LET before == Row(now, host.skew, FALSE, now, step, s[2])
        IN /\ now' = stop
           /\ runs' = runs \o << [before EXCEPT !.ended = step],
                                Row(step, 0, TRUE, s[1], stop, s[2]) >>
  BY DEF RecordAcrossStep
<1>2. PICK stop \in Until(step) : \E s \in Sampling(stop) :
        LET before == Row(now, host.skew, FALSE, now, step, s[2])
        IN /\ now' = stop
           /\ runs' = runs \o << [before EXCEPT !.ended = step],
                                Row(step, 0, TRUE, s[1], stop, s[2]) >>
  BY <1>1
<1>3. PICK s \in Sampling(stop) :
        LET before == Row(now, host.skew, FALSE, now, step, s[2])
        IN /\ now' = stop
           /\ runs' = runs \o << [before EXCEPT !.ended = step],
                                Row(step, 0, TRUE, s[1], stop, s[2]) >>
  BY <1>2
<1> DEFINE p == Row(now, host.skew, FALSE, now, step, s[2])
           q == [p EXCEPT !.ended = step]
           r == Row(step, 0, TRUE, s[1], stop, s[2])
<1>4. /\ now \in Nat /\ step \in Nat /\ stop \in Nat /\ now <= step /\ step <= stop
      /\ RowsTold(runs, now) /\ host.skew \in Int /\ s[2] \in SUBSET Channels
  <2>1. now \in Nat /\ RowsTold(runs, now) /\ host.skew \in Int
    BY DEF HistoryInv, Hosts
  <2>2. step \in Nat /\ now <= step
    BY <2>1 DEF Until
  <2> QED BY <2>1, <2>2 DEF Until, Sampling
<1>5. runs \in Seq(RunRows) /\ now' = stop /\ runs' = runs \o <<q, r>>
  BY <1>3, <1>4 DEF RowsTold
<1>6. /\ r \in RunRows /\ r.from = step /\ r.alive = stop
      /\ r.synced => r.started = r.from /\ Finish(r) = r.alive
  <2>1. stop # Missing
    BY <1>4, HistoryAssumption
  <2>2. \A b \in BOOLEAN : (b => 0 = 0) =>
          LET x == Row(step, 0, b, s[1], stop, s[2])
          IN /\ x \in RunRows /\ x.from = step
             /\ stop # Missing => x.alive = stop
             /\ x.synced => x.started = x.from /\ Finish(x) = x.alive
    BY <1>4, RowIsTrue
  <2>3. /\ r \in RunRows /\ r.from = step
        /\ stop # Missing => r.alive = stop
        /\ r.synced => r.started = r.from /\ Finish(r) = r.alive
    BY ONLY <2>2, Zenon DEF r
  <2> QED BY <2>1, <2>3
<1>7. q \in RunRows /\ q.from = now /\ q.alive = step /\ q.synced = FALSE
  <2>1. <<now, s[2]>>[1] = now /\ <<now, s[2]>>[2] = s[2] /\ step # Missing /\ now # Missing
    BY <1>4, HistoryAssumption
  <2>2. /\ (IF host.names THEN host.boot ELSE Missing) \in Int \cup {Missing}
        /\ (IF host.names THEN vehicle.hardware ELSE Missing) \in {"old", "new", Missing}
        /\ vehicle.build \in Nat /\ now + host.skew \in Int
    BY <1>4 DEF HistoryInv, Hosts, Vehicles
  <2>3. p = [started |-> now + host.skew,
             ended |-> IF step = Missing THEN Missing ELSE step + host.skew,
             last |-> IF now = Missing THEN Missing ELSE now + host.skew,
             synced |-> FALSE,
             boot |-> IF host.names THEN host.boot ELSE Missing,
             hardware |-> IF host.names THEN vehicle.hardware ELSE Missing,
             build |-> vehicle.build, data |-> s[2], from |-> now,
             alive |-> IF step # Missing THEN step ELSE IF now # Missing THEN now ELSE now]
    BY DEF Row
  <2> HIDE DEF p
  <2>4. FALSE \in BOOLEAN /\ step + host.skew \in Int
    BY <1>4
  <2>5. p \in RunRows /\ p.from = now /\ p.alive = step /\ p.synced = FALSE
    BY <1>4, <2>1, <2>2, <2>3, <2>4 DEF RunRows
  <2> QED BY <1>4, <2>5 DEF RunRows
<1> HIDE DEF q, r
<1>8. runs' = Append(Append(runs, q), r)
  BY <1>5, <1>6, <1>7
<1>9. TrueBy(q, step) /\ now <= q.from
  BY <1>4, <1>7 DEF TrueBy
<1>10. RowsTold(Append(runs, q), step)
  BY <1>4, <1>7, <1>9, RowAppended
<1>11. TrueBy(r, stop) /\ step <= r.from
  BY <1>4, <1>6 DEF TrueBy
<1>12. RowsTold(runs', now')
  BY <1>4, <1>5, <1>6, <1>8, <1>10, <1>11, RowAppended
<1>13. host' \in Hosts /\ host'.skew = 0
  <2>1. host' = [host EXCEPT !.skew = 0, !.synced = TRUE] /\ host \in Hosts
    BY DEF RecordAcrossStep, HistoryInv
  <2>2. 0 \in Int /\ TRUE \in BOOLEAN
    OBVIOUS
  <2>3. [host EXCEPT !.skew = 0, !.synced = TRUE] \in Hosts
    BY ONLY <2>1, <2>2, HostChanged
  <2> QED BY <2>1, <2>3 DEF Hosts
<1>14. UNCHANGED <<vehicle, events>>
  BY DEF RecordAcrossStep
<1> QED BY <1>4, <1>5, <1>12, <1>13, <1>14 DEF HistoryInv

\* Whatever the host, the recorder and the workshop do, the rows stay true.
LEMMA HistoryStepInv == HistoryInv /\ [HistoryNext]_historyVars => HistoryInv'
<1> SUFFICES ASSUME HistoryInv, [HistoryNext]_historyVars PROVE HistoryInv'
  OBVIOUS
<1>0. now \in Nat /\ host \in Hosts /\ RowsTold(runs, now)
  BY DEF HistoryInv
<1>1. CASE Wait
  <2>1. now' \in Nat /\ now <= now' /\ UNCHANGED <<host, vehicle, runs, events>>
    BY <1>0, <1>1 DEF Wait
  <2>2. RowsTold(runs', now')
    BY <1>0, <2>1, RowsLeft
  <2> QED BY <2>1, <2>2 DEF HistoryInv
<1>2. CASE PowerCycle
  <2>1. PICK later \in (now + 1)..MaxNow :
          /\ now' = later
          /\ host' = [host EXCEPT !.skew = @ - (later - now), !.boot = @ + 1, !.synced = FALSE]
    BY <1>2 DEF PowerCycle
  <2>2. later \in Nat /\ now <= now' /\ now' \in Nat /\ UNCHANGED <<vehicle, runs, events>>
    BY <1>0, <1>2, <2>1 DEF PowerCycle
  <2>3. host.skew - (later - now) \in Int /\ host.boot + 1 \in Int /\ FALSE \in BOOLEAN
    BY <1>0, <2>2 DEF Hosts
  <2>4. [host EXCEPT !.skew = host.skew - (later - now), !.boot = host.boot + 1,
                     !.synced = FALSE] \in Hosts
    BY ONLY <1>0, <2>3, HostChanged
  <2>5. host' \in Hosts /\ ~host'.synced
    BY <1>0, <2>1, <2>4 DEF Hosts
  <2>6. RowsTold(runs', now')
    BY <1>0, <2>2, RowsLeft
  <2> QED BY <2>2, <2>5, <2>6 DEF HistoryInv
<1>3. CASE NtpSync
  <2>1. /\ host' = [host EXCEPT !.skew = 0, !.synced = TRUE]
        /\ UNCHANGED <<now, vehicle, runs, events>>
    BY <1>3 DEF NtpSync
  <2>2. 0 \in Int /\ TRUE \in BOOLEAN
    OBVIOUS
  <2>3. [host EXCEPT !.skew = 0, !.synced = TRUE] \in Hosts
    BY ONLY <1>0, <2>2, HostChanged
  <2>4. host' \in Hosts /\ host'.skew = 0
    BY <1>0, <2>1, <2>3 DEF Hosts
  <2> QED BY <2>1, <2>4 DEF HistoryInv
<1>4. CASE Workshop
  <2>1. events' \subseteq Nat /\ UNCHANGED <<now, host, runs>>
    BY <1>0, <1>4 DEF Workshop, HistoryInv
  <2>2. PICK hardware \in {"old", "new"} : vehicle' = [vehicle EXCEPT !.hardware = hardware]
    BY <1>4 DEF Workshop
  <2>3. vehicle' \in Vehicles
    BY <2>2, VehicleChanged DEF HistoryInv
  <2> QED BY <2>1, <2>3 DEF HistoryInv
<1>5. CASE Remap
  <2>1. vehicle.build + 1 \in Nat /\ vehicle \in Vehicles
    BY DEF HistoryInv, Vehicles
  <2>2. vehicle' \in Vehicles /\ UNCHANGED <<now, host, runs, events>>
    BY <1>5, <2>1, VehicleChanged DEF Remap
  <2> QED BY <2>2 DEF HistoryInv
<1>6. CASE UNCHANGED historyVars
  BY <1>6 DEF historyVars, HistoryInv
<1> QED
  BY <1>1, <1>2, <1>3, <1>4, <1>5, <1>6, RecordStep, AcrossStep
     DEF HistoryNext, HostNext, CarNext

\* Nothing is recorded at first.
LEMMA HistoryInitInv == HistoryInit => HistoryInv
<1> SUFFICES ASSUME HistoryInit PROVE HistoryInv
  OBVIOUS
<1>1. runs \in Seq(RunRows) /\ DOMAIN runs = {}
  BY DEF HistoryInit
<1>2. host \in Hosts /\ host.skew = 0 /\ vehicle \in Vehicles
  BY DEF HistoryInit, Hosts, Vehicles
<1> QED BY <1>1, <1>2 DEF HistoryInit, HistoryInv, RowsTold

\* sorted(runs, key=(started, run_id))
StartedBefore(i, j) ==
  runs[i].started < runs[j].started \/ (runs[i].started = runs[j].started /\ i < j)

\* The sorted list is of the runs, in the order they are sorted by.
LEMMA OrderedRows ==
  ASSUME HistoryInv
  PROVE  /\ Ordered \in [DOMAIN runs -> RunRows]
         /\ \A k \in DOMAIN runs : \E i \in DOMAIN runs : Ordered[k] = runs[i]
         /\ \A k, l \in DOMAIN runs : k < l =>
              \E i, j \in DOMAIN runs : /\ StartedBefore(i, j)
                                        /\ Ordered[k] = runs[i] /\ Ordered[l] = runs[j]
<1> DEFINE D == 1 .. Len(runs)
           stamps == [i \in DOMAIN runs |-> runs[i].started]
           place == Order(stamps)
<1>1. runs \in Seq(RunRows) /\ D = DOMAIN runs /\ Len(runs) \in Nat
  BY DEF HistoryInv, RowsTold
<1>2. stamps \in [D -> Int]
  <2> SUFFICES ASSUME NEW i \in D PROVE runs[i].started \in Int
    BY <1>1
  <2>1. runs[i] \in RunRows
    BY <1>1
  <2> QED BY <2>1 DEF RunRows
<1>3. \A i, j \in D : Precedes(stamps, i, j) => StartedBefore(i, j)
  BY <1>1 DEF Precedes, StartedBefore
<1>4. Ordered = [k \in D |-> runs[place[k]]]
  BY <1>1 DEF Ordered
<1> HIDE DEF stamps
<1>5. /\ place \in [D -> D]
      /\ \A k, l \in D : k < l => Precedes(stamps, place[k], place[l])
  BY <1>1, <1>2, InTime
<1> HIDE DEF place
<1>6. \A k \in D : place[k] \in D /\ runs[place[k]] \in RunRows
  BY <1>1, <1>5
<1> QED BY <1>1, <1>3, <1>4, <1>5, <1>6

\* Lists of groups of items, no group empty.
Groups(X) == {gs \in Seq(Seq(X)) : \A k \in DOMAIN gs : gs[k] # <<>>}

\* An item was put into a group of its own, behind the others, or into the last one.
Alone(gs, hs, x) == hs = Append(gs, <<x>>)
Inside(gs, hs, x) == gs # <<>> /\ hs = [gs EXCEPT ![Len(gs)] = Append(@, x)]

\* An item of the groups that was there before, and the one that was not.
Same(gs, hs, k, i) == k \in DOMAIN gs /\ i \in DOMAIN gs[k] /\ hs[k][i] = gs[k][i]
Fresh(hs, x, k, i) == k = Len(hs) /\ i = Len(hs[k]) /\ hs[k][i] = x

\* The items of the groups are of the first n of a list, in its order.
InOrder(gs, list, n) ==
  /\ \A k \in DOMAIN gs : \A i \in DOMAIN gs[k] : \E x \in 1 .. n : gs[k][i] = list[x]
  /\ \A k, l \in DOMAIN gs : \A i \in DOMAIN gs[k], j \in DOMAIN gs[l] :
       k < l \/ (k = l /\ i < j) =>
         \E x, y \in 1 .. n : x < y /\ gs[k][i] = list[x] /\ gs[l][j] = list[y]

\* What the groups are once an item has come to them.
LEMMA GrownAlone ==
  ASSUME NEW X, NEW gs \in Groups(X), NEW x \in X, NEW hs, Alone(gs, hs, x)
  PROVE  /\ hs \in Groups(X) /\ DOMAIN hs = 1 .. Len(gs) + 1 /\ Len(hs) = Len(gs) + 1
         /\ DOMAIN gs = 1 .. Len(gs) /\ Len(gs) \in Nat
         /\ \A k \in DOMAIN gs : hs[k] = gs[k]
         /\ hs[Len(hs)] = <<x>>
         /\ \A k \in DOMAIN hs : \A i \in DOMAIN hs[k] : Same(gs, hs, k, i) \/ Fresh(hs, x, k, i)
<1>1. gs \in Seq(Seq(X)) /\ <<x>> \in Seq(X) /\ <<x>> # <<>> /\ Len(<<x>>) = 1 /\ DOMAIN <<x>> = {1} /\ <<x>>[1] = x
  BY DEF Groups
<1>2. /\ hs \in Seq(Seq(X)) /\ Len(hs) = Len(gs) + 1
      /\ \A k \in 1 .. Len(gs) : hs[k] = gs[k]
      /\ hs[Len(gs) + 1] = <<x>>
  BY <1>1, AppendProperties DEF Alone
<1>3. DOMAIN hs = 1 .. Len(gs) + 1 /\ DOMAIN gs = 1 .. Len(gs) /\ Len(gs) \in Nat
  BY <1>1, <1>2, LenProperties
<1>4. \A k \in DOMAIN hs : k \in DOMAIN gs \/ k = Len(hs)
  BY <1>2, <1>3
<1>5. hs \in Groups(X)
  BY <1>1, <1>2, <1>3, <1>4 DEF Groups
<1>6. \A k \in DOMAIN hs : \A i \in DOMAIN hs[k] : Same(gs, hs, k, i) \/ Fresh(hs, x, k, i)
  BY <1>1, <1>2, <1>3, <1>4 DEF Same, Fresh
<1> QED BY <1>2, <1>3, <1>5, <1>6

\* The same of one that joined the last group.
LEMMA GrownInside ==
  ASSUME NEW X, NEW gs \in Groups(X), NEW x \in X, NEW hs, Inside(gs, hs, x)
  PROVE  /\ hs \in Groups(X) /\ DOMAIN hs = DOMAIN gs /\ Len(hs) = Len(gs)
         /\ DOMAIN gs = 1 .. Len(gs) /\ Len(gs) \in Nat \ {0}
         /\ \A k \in DOMAIN gs : k # Len(gs) => hs[k] = gs[k]
         /\ hs[Len(hs)] = Append(gs[Len(gs)], x) /\ Len(hs[Len(hs)]) = Len(gs[Len(gs)]) + 1
         /\ \A k \in DOMAIN hs : \A i \in DOMAIN hs[k] : Same(gs, hs, k, i) \/ Fresh(hs, x, k, i)
<1> DEFINE n == Len(gs)
           g == Append(gs[n], x)
<1>1. gs \in Seq(Seq(X)) /\ gs # <<>> /\ DOMAIN gs = 1 .. n /\ n \in Nat \ {0}
  BY EmptySeq, LenProperties DEF Groups, Inside
<1>2. n \in 1 .. n /\ gs[n] \in Seq(X)
  BY <1>1
<1>3. /\ g \in Seq(X) /\ g # <<>> /\ Len(g) = Len(gs[n]) + 1
      /\ \A i \in 1 .. Len(gs[n]) : g[i] = gs[n][i]
      /\ g[Len(gs[n]) + 1] = x
  BY <1>2, AppendProperties
<1>4. DOMAIN g = 1 .. Len(gs[n]) + 1 /\ DOMAIN gs[n] = 1 .. Len(gs[n]) /\ Len(gs[n]) \in Nat
  BY <1>2, <1>3, LenProperties
<1>5. hs = [gs EXCEPT ![n] = g]
  BY DEF Inside
<1> HIDE DEF g
<1>6. /\ hs \in Seq(Seq(X)) /\ Len(hs) = n
      /\ \A k \in 1 .. n : hs[k] = IF k = n THEN g ELSE gs[k]
  BY <1>1, <1>2, <1>3, <1>5, ExceptSeq
<1>7. DOMAIN hs = 1 .. n
  BY <1>6, LenProperties
<1>8. hs \in Groups(X)
  BY <1>1, <1>3, <1>6, <1>7 DEF Groups
<1>9. ASSUME NEW k \in DOMAIN hs, NEW i \in DOMAIN hs[k]
      PROVE  Same(gs, hs, k, i) \/ Fresh(hs, x, k, i)
  <2>1. CASE k # n
    <3>1. hs[k] = gs[k] /\ k \in DOMAIN gs
      BY <1>1, <1>6, <1>7, <2>1
    <3> QED BY <3>1 DEF Same
  <2>2. CASE k = n
    <3>1. hs[k] = g /\ k \in DOMAIN gs /\ k = Len(hs)
      BY <1>1, <1>2, <1>6, <2>2
    <3>2. i \in 1 .. Len(gs[n]) \/ i = Len(gs[n]) + 1
      BY <1>4, <3>1
    <3> QED BY <1>3, <1>4, <2>2, <3>1, <3>2 DEF Same, Fresh
  <2> QED BY <2>1, <2>2
<1>10. hs[Len(hs)] = g /\ Len(hs[Len(hs)]) = Len(gs[n]) + 1
  BY <1>1, <1>2, <1>3, <1>6
<1>11. \A k \in DOMAIN gs : k # n => hs[k] = gs[k]
  BY <1>1, <1>6
<1> QED BY <1>1, <1>6, <1>7, <1>8, <1>9, <1>10, <1>11 DEF g

\* Groups stay in order as the next of the list comes to them.
LEMMA StaysInOrder ==
  ASSUME NEW X, NEW gs \in Groups(X), NEW hs, NEW list, NEW n \in Nat, list[n + 1] \in X,
         InOrder(gs, list, n),
         Alone(gs, hs, list[n + 1]) \/ Inside(gs, hs, list[n + 1])
  PROVE  hs \in Groups(X) /\ InOrder(hs, list, n + 1)
<1> DEFINE x == list[n + 1]
<1>1. /\ hs \in Groups(X)
      /\ \A k \in DOMAIN hs : \A i \in DOMAIN hs[k] : Same(gs, hs, k, i) \/ Fresh(hs, x, k, i)
  BY GrownAlone, GrownInside
<1>2. \A y \in 1 .. n : y \in 1 .. n + 1 /\ y < n + 1
  OBVIOUS
<1>3. n + 1 \in 1 .. n + 1
  OBVIOUS
<1>4. ASSUME NEW k \in DOMAIN hs, NEW i \in DOMAIN hs[k]
      PROVE  \E y \in 1 .. n + 1 : hs[k][i] = list[y]
  <2>1. CASE Same(gs, hs, k, i)
    <3>1. PICK y \in 1 .. n : gs[k][i] = list[y]
      BY <2>1 DEF Same, InOrder
    <3> QED BY <1>2, <2>1, <3>1 DEF Same
  <2>2. CASE Fresh(hs, x, k, i)
    BY <1>3, <2>2 DEF Fresh
  <2> QED BY <1>1, <2>1, <2>2
<1>5. ASSUME NEW k \in DOMAIN hs, NEW l \in DOMAIN hs, NEW i \in DOMAIN hs[k], NEW j \in DOMAIN hs[l],
             k < l \/ (k = l /\ i < j)
      PROVE  \E y, z \in 1 .. n + 1 : y < z /\ hs[k][i] = list[y] /\ hs[l][j] = list[z]
  <2>1. Same(gs, hs, k, i)
    <3> SUFFICES ASSUME Fresh(hs, x, k, i) PROVE FALSE
      BY <1>1
    <3>1. hs \in Seq(Seq(X)) /\ DOMAIN hs = 1 .. Len(hs) /\ Len(hs) \in Nat
      BY <1>1, LenProperties DEF Groups
    <3>2. hs[l] \in Seq(X)
      BY <3>1
    <3>3. DOMAIN hs[l] = 1 .. Len(hs[l]) /\ Len(hs[l]) \in Nat
      BY <3>2, LenProperties
    <3> QED BY <1>5, <3>1, <3>3 DEF Fresh
  <2>2. CASE Same(gs, hs, l, j)
    <3>1. PICK y \in 1 .. n, z \in 1 .. n : y < z /\ gs[k][i] = list[y] /\ gs[l][j] = list[z]
      BY <1>5, <2>1, <2>2 DEF Same, InOrder
    <3> QED BY <1>2, <2>1, <2>2, <3>1 DEF Same
  <2>3. CASE Fresh(hs, x, l, j)
    <3>1. PICK y \in 1 .. n : gs[k][i] = list[y]
      BY <2>1 DEF Same, InOrder
    <3> QED BY <1>2, <1>3, <2>1, <2>3, <3>1 DEF Same, Fresh
  <2> QED BY <1>1, <2>2, <2>3
<1> QED BY <1>1, <1>4, <1>5 DEF InOrder

\* The trips of the first n runs: in their order, the last run in the last trip,
\* and two that follow each other share a trip when they are of one.
TripsOf(gs, n) ==
  /\ gs \in Groups(RunRows)
  /\ InOrder(gs, Ordered, n)
  /\ n > 0 => gs # <<>> /\ Last(gs[Len(gs)]) = Ordered[n]
  /\ \A k \in DOMAIN gs : \A i \in 1 .. Len(gs[k]) - 1 : SameTrip(gs[k][i], gs[k][i + 1])
  /\ \A i \in 1 .. n - 1 : SameTrip(Ordered[i], Ordered[i + 1]) =>
       \E k \in DOMAIN gs : {Ordered[i], Ordered[i + 1]} \subseteq {gs[k][j] : j \in DOMAIN gs[k]}

\* A run continues the last trip, or starts one.
LEMMA RunJoins ==
  ASSUME NEW gs \in Groups(RunRows), NEW r \in RunRows
  PROVE  LET hs == Joined(gs, r)
             follows == gs # <<>> /\ SameTrip(Last(gs[Len(gs)]), r)
         IN IF follows THEN Inside(gs, hs, r) ELSE Alone(gs, hs, r)
<1>1. gs \in Seq(Seq(RunRows))
  BY DEF Groups
<1>2. gs # <<>> <=> Len(gs) > 0
  BY <1>1
<1> QED BY <1>2 DEF Joined, Inside, Alone

\* A group that holds an item holds it after another has come to the groups.
LEMMA GroupsKeep ==
  ASSUME NEW X, NEW gs \in Groups(X), NEW x \in X, NEW hs,
         Alone(gs, hs, x) \/ Inside(gs, hs, x), NEW k \in DOMAIN gs
  PROVE  /\ k \in DOMAIN hs
         /\ {gs[k][j] : j \in DOMAIN gs[k]} \subseteq {hs[k][j] : j \in DOMAIN hs[k]}
<1>1. CASE Alone(gs, hs, x)
  <2>1. /\ DOMAIN hs = 1 .. Len(gs) + 1 /\ DOMAIN gs = 1 .. Len(gs) /\ Len(gs) \in Nat
        /\ hs[k] = gs[k]
    BY <1>1, GrownAlone
  <2> QED BY <2>1
<1>2. CASE Inside(gs, hs, x)
  <2>1. /\ DOMAIN hs = DOMAIN gs /\ DOMAIN gs = 1 .. Len(gs) /\ Len(hs) = Len(gs)
        /\ k # Len(gs) => hs[k] = gs[k]
        /\ hs[Len(hs)] = Append(gs[Len(gs)], x)
    BY <1>2, GrownInside
  <2>2. gs[k] \in Seq(X)
    BY DEF Groups
  <2>3. /\ DOMAIN Append(gs[k], x) = 1 .. Len(gs[k]) + 1 /\ DOMAIN gs[k] = 1 .. Len(gs[k])
        /\ Len(gs[k]) \in Nat
        /\ \A j \in 1 .. Len(gs[k]) : Append(gs[k], x)[j] = gs[k][j]
    BY <2>2, AppendProperties, LenProperties
  <2>4. CASE k = Len(gs)
    <3>1. hs[k] = Append(gs[k], x)
      BY <2>1, <2>4
    <3>2. \A j \in DOMAIN gs[k] : j \in DOMAIN hs[k] /\ hs[k][j] = gs[k][j]
      BY <2>3, <3>1
    <3>3. k \in DOMAIN hs
      BY <2>1
    <3> QED BY ONLY <3>2, <3>3
  <2>5. CASE k # Len(gs)
    BY <2>1, <2>5
  <2> QED BY <2>4, <2>5
<1> QED BY <1>1, <1>2

\* The trips of one run more.
LEMMA TripsGoOn ==
  ASSUME HistoryInv, NEW gs, NEW n \in Nat, n + 1 \in DOMAIN runs, TripsOf(gs, n)
  PROVE  TripsOf(Joined(gs, Ordered[n + 1]), n + 1)
<1> DEFINE r == Ordered[n + 1]
           hs == Joined(gs, r)
           follows == gs # <<>> /\ SameTrip(Last(gs[Len(gs)]), r)
<1>1. gs \in Groups(RunRows) /\ r \in RunRows /\ InOrder(gs, Ordered, n)
  BY OrderedRows DEF TripsOf
<1>2. IF follows THEN Inside(gs, hs, r) ELSE Alone(gs, hs, r)
  BY <1>1, RunJoins
<1> HIDE DEF hs, follows
<1>3. hs \in Groups(RunRows) /\ InOrder(hs, Ordered, n + 1)
  BY <1>1, <1>2, StaysInOrder
<1>4. ASSUME NEW k \in DOMAIN hs, NEW i \in 1 .. Len(hs[k]) - 1
      PROVE  SameTrip(hs[k][i], hs[k][i + 1])
  <2>1. CASE ~follows
    <3>1. /\ DOMAIN hs = 1 .. Len(gs) + 1 /\ Len(hs) = Len(gs) + 1 /\ DOMAIN gs = 1 .. Len(gs)
          /\ \A l \in DOMAIN gs : hs[l] = gs[l]
          /\ hs[Len(hs)] = <<r>> /\ Len(gs) \in Nat
      BY <1>1, <1>2, <2>1, GrownAlone
    <3>2. k # Len(hs)
      <4>1. Len(<<r>>) = 1
        OBVIOUS
      <4>2. hs[k] # <<r>>
        <5> SUFFICES ASSUME hs[k] = <<r>> PROVE FALSE
          OBVIOUS
        <5>1. Len(hs[k]) = 1
          BY <4>1
        <5> QED BY <5>1
      <4> QED BY <3>1, <4>2
    <3>3. k \in DOMAIN gs /\ hs[k] = gs[k]
      BY <3>1, <3>2
    <3> QED BY <3>3 DEF TripsOf
  <2>2. CASE follows
    <3>1. /\ DOMAIN hs = DOMAIN gs /\ Len(hs) = Len(gs) /\ DOMAIN gs = 1 .. Len(gs)
          /\ \A l \in DOMAIN gs : l # Len(gs) => hs[l] = gs[l]
          /\ hs[Len(hs)] = Append(gs[Len(gs)], r) /\ Len(gs) \in Nat \ {0}
      BY <1>1, <1>2, <2>2, GrownInside
    <3>2. CASE k # Len(gs)
      <4>1. k \in DOMAIN gs /\ hs[k] = gs[k]
        BY <3>1, <3>2
      <4> QED BY <4>1 DEF TripsOf
    <3>3. CASE k = Len(gs)
      <4> DEFINE g == gs[k]
      <4>1. g \in Seq(RunRows) /\ k \in DOMAIN gs /\ hs[k] = Append(g, r)
        BY <1>1, <3>1, <3>3 DEF Groups
      <4>2. /\ Len(hs[k]) = Len(g) + 1 /\ Len(g) \in Nat
            /\ \A j \in 1 .. Len(g) : hs[k][j] = g[j]
            /\ hs[k][Len(g) + 1] = r
        BY <1>1, <4>1, AppendProperties, LenProperties
      <4>3. CASE i = Len(g)
        <5>1. hs[k][i] = Last(g) /\ hs[k][i + 1] = r
          BY <4>2, <4>3 DEF Last
        <5> QED BY <2>2, <3>3, <5>1 DEF follows
      <4>4. CASE i # Len(g)
        <5>1. i \in 1 .. Len(g) - 1 /\ hs[k][i] = g[i] /\ hs[k][i + 1] = g[i + 1]
          BY <4>2, <4>4
        <5> QED BY <4>1, <5>1 DEF TripsOf
      <4> QED BY <4>3, <4>4
    <3> QED BY <3>2, <3>3
  <2> QED BY <2>1, <2>2
<1>5. hs # <<>> /\ Last(hs[Len(hs)]) = r /\ Len(hs) \in DOMAIN hs
  <2>1. CASE ~follows
    <3>1. hs[Len(hs)] = <<r>> /\ Len(hs) \in DOMAIN hs
      BY <1>1, <1>2, <2>1, GrownAlone
    <3> QED BY <3>1 DEF Last
  <2>2. CASE follows
    <3>1. /\ hs[Len(hs)] = Append(gs[Len(gs)], r) /\ Len(hs) \in DOMAIN hs /\ Len(gs) \in DOMAIN gs
      BY <1>1, <1>2, <2>2, GrownInside
    <3>2. gs[Len(gs)] \in Seq(RunRows)
      BY <1>1, <3>1 DEF Groups
    <3>3. Last(Append(gs[Len(gs)], r)) = r
      BY <1>1, <3>2, AppendProperties DEF Last
    <3> QED BY <3>1, <3>3
  <2> QED BY <2>1, <2>2
<1>6. ASSUME NEW i \in 1 .. n, SameTrip(Ordered[i], Ordered[i + 1])
      PROVE  \E k \in DOMAIN hs :
               {Ordered[i], Ordered[i + 1]} \subseteq {hs[k][j] : j \in DOMAIN hs[k]}
  <2>1. CASE i # n
    <3>1. i \in 1 .. n - 1
      BY <2>1
    <3>2. PICK k \in DOMAIN gs :
            {Ordered[i], Ordered[i + 1]} \subseteq {gs[k][j] : j \in DOMAIN gs[k]}
      BY <1>6, <3>1 DEF TripsOf
    <3>3. /\ k \in DOMAIN hs
          /\ {gs[k][j] : j \in DOMAIN gs[k]} \subseteq {hs[k][j] : j \in DOMAIN hs[k]}
      BY <1>1, <1>2, GroupsKeep
    <3> QED BY <3>2, <3>3
  <2>2. CASE i = n
    <3>1. follows /\ Last(gs[Len(gs)]) = Ordered[n]
      BY <1>6, <2>2 DEF TripsOf, follows
    <3> DEFINE k == Len(gs)
    <3>2. k \in DOMAIN gs /\ k \in DOMAIN hs /\ k = Len(hs)
      BY <1>1, <1>2, <3>1, GrownInside
    <3>3. /\ hs[k] = Append(gs[k], r) /\ gs[k] \in Seq(RunRows) /\ gs[k] # <<>>
      BY <1>1, <1>2, <3>1, <3>2, GrownInside DEF Groups
    <3>4. Len(gs[k]) \in DOMAIN gs[k] /\ Len(gs[k]) \in Nat \ {0}
      BY <3>3, EmptySeq, LenProperties
    <3>5. /\ DOMAIN hs[k] = 1 .. Len(gs[k]) + 1
          /\ hs[k][Len(gs[k])] = gs[k][Len(gs[k])] /\ hs[k][Len(gs[k]) + 1] = r
      BY <1>1, <3>3, <3>4, AppendProperties, LenProperties
    <3>6. Ordered[n] \in {hs[k][j] : j \in DOMAIN hs[k]}
      BY <3>1, <3>4, <3>5 DEF Last
    <3>7. r \in {hs[k][j] : j \in DOMAIN hs[k]}
      BY <3>4, <3>5
    <3> QED BY <2>2, <3>2, <3>6, <3>7
  <2> QED BY <2>1, <2>2
<1>7. n + 1 - 1 = n
  OBVIOUS
<1> QED BY <1>3, <1>4, <1>5, <1>6, <1>7 DEF TripsOf, hs

\* The trips the grouping ends with are those of all the runs.
LEMMA TripsAreGrouped ==
  ASSUME HistoryInv PROVE TripsOf(Trips, Len(runs))
<1> DEFINE N == Len(runs)
           X == Groups(RunRows)
           step == [n \in 1 .. N |-> [s \in X |-> Joined(s, Ordered[n])]]
           Scan(f) == f = [n \in 0 .. N |-> IF n = 0 THEN <<>> ELSE Joined(f[n - 1], Ordered[n])]
           f == CHOOSE g : Scan(g)
<1>1. N \in Nat /\ DOMAIN runs = 1 .. N
  BY DEF HistoryInv, RowsTold
<1>2. <<>> \in X
  BY DEF Groups
<1>3. \A n \in 1 .. N, s \in X : Joined(s, Ordered[n]) \in X
  <2> SUFFICES ASSUME NEW n \in 1 .. N, NEW s \in X PROVE Joined(s, Ordered[n]) \in X
    OBVIOUS
  <2>1. Ordered[n] \in RunRows
    BY <1>1, OrderedRows
  <2>2. \/ Inside(s, Joined(s, Ordered[n]), Ordered[n])
        \/ Alone(s, Joined(s, Ordered[n]), Ordered[n])
    BY <2>1, RunJoins
  <2> QED BY <2>1, <2>2, GrownAlone, GrownInside
<1> HIDE DEF X
<1>4. \E g : Scan(g)
  <2>1. step \in [1 .. N -> [X -> X]]
    BY <1>3
  <2>2. \A s \in X : \A n \in 1 .. N : step[n][s] = Joined(s, Ordered[n])
    OBVIOUS
  <2> HIDE DEF step
  <2>3. PICK g : Scanned(g, X, N, <<>>, step)
    BY <1>1, <1>2, <2>1, Recursion
  <2>4. ASSUME NEW n \in 0 .. N
        PROVE  g[n] = IF n = 0 THEN <<>> ELSE Joined(g[n - 1], Ordered[n])
    <3>1. n # 0 => n \in 1 .. N /\ n - 1 \in 0 .. N /\ g[n - 1] \in X
      <4>1. n # 0 => n \in 1 .. N /\ n - 1 \in 0 .. N
        BY <1>1
      <4> QED BY ONLY <4>1, <2>3 DEF Scanned
    <3>2. g[n] = IF n = 0 THEN <<>> ELSE step[n][g[n - 1]]
      BY <2>3, <3>1 DEF Scanned
    <3> QED BY <2>2, <3>1, <3>2
  <2>5. Scan(g)
    BY <2>3, <2>4 DEF Scanned
  <2> QED BY <2>5
<1>5. Scan(f)
  BY <1>4
<1>6. Trips = f[N]
  BY DEF Trips
<1> HIDE DEF f
<1>7. f[0] = <<>> /\ \A n \in 1 .. N : f[n] = Joined(f[n - 1], Ordered[n])
  BY <1>1, <1>5
<1> DEFINE T == {n \in 0 .. N : TripsOf(f[n], n)}
<1>8. 0 \in T
  <2>1. TripsOf(<<>>, 0)
    BY <1>2 DEF TripsOf, InOrder, X
  <2> QED BY <1>1, <1>7, <2>1
<1>9. ASSUME NEW n \in 1 .. N, n - 1 \in T PROVE n \in T
  <2>1. n - 1 \in Nat /\ (n - 1) + 1 = n /\ n \in DOMAIN runs /\ TripsOf(f[n - 1], n - 1)
    BY <1>1, <1>9
  <2>2. TripsOf(Joined(f[n - 1], Ordered[n]), n)
    BY <2>1, TripsGoOn
  <2> QED BY <1>7, <2>2
<1> HIDE DEF T
<1>10. N \in T
  BY ONLY <1>1, <1>8, <1>9, UpTo
<1> QED BY <1>6, <1>10 DEF T

\* Two runs the grouping keeps together follow each other in truth, and the
\* other way round when their clocks may be compared.
LEMMA SameIsTrue ==
  ASSUME HistoryInv, NEW i \in DOMAIN runs, NEW j \in DOMAIN runs
  PROVE  LET r == runs[i]  s == runs[j] IN
         SameTrip(r, s) <=> /\ r.synced /\ s.synced /\ ~Differ(r.boot, s.boot)
                            /\ ~Differ(r.hardware, s.hardware) /\ FollowsInTruth(r, s)
<1>1. TrueBy(runs[i], now) /\ TrueBy(runs[j], now)
  BY DEF HistoryInv, RowsTold
<1> QED BY <1>1 DEF SameTrip, FollowsInTruth, TrueBy

\* A trip is a drive (trips.py:19-27, 63-82).
THEOREM TripsAreDrives == HistorySpec => []TripIsOneDrive
<1>1. HistoryInv => TripIsOneDrive
  <2> SUFFICES ASSUME HistoryInv PROVE TripIsOneDrive
    OBVIOUS
  <2>1. TripsOf(Trips, Len(runs))
    BY TripsAreGrouped
  <2>2. DOMAIN runs = 1 .. Len(runs) /\ Len(runs) \in Nat /\ Len(Ordered) = Len(runs)
    <3>1. DOMAIN runs = 1 .. Len(runs) /\ Len(runs) \in Nat
      BY DEF HistoryInv, RowsTold
    <3>2. Ordered \in Seq(RunRows) /\ DOMAIN Ordered = 1 .. Len(runs)
      BY <3>1, OrderedRows
    <3>3. DOMAIN Ordered = 1 .. Len(Ordered) /\ Len(Ordered) \in Nat
      BY <3>2, LenProperties
    <3>4. Len(Ordered) = Len(runs)
      BY ONLY <3>1, <3>2, <3>3
    <3> QED BY <3>1, <3>4
  <2>3. ASSUME NEW x \in 1 .. Len(runs) PROVE \E i \in DOMAIN runs : Ordered[x] = runs[i]
    BY <2>2, OrderedRows
  <2>4. ASSUME NEW k \in DOMAIN Trips, NEW i \in 1 .. (Len(Trips[k]) - 1)
        PROVE  FollowsInTruth(Trips[k][i], Trips[k][i + 1])
    <3> HIDE DEF Trips
    <3>1. SameTrip(Trips[k][i], Trips[k][i + 1])
      BY <2>1 DEF TripsOf
    <3>2. Trips[k] \in Seq(RunRows)
      BY <2>1 DEF TripsOf, Groups
    <3>3. i \in DOMAIN Trips[k] /\ i + 1 \in DOMAIN Trips[k]
      BY <3>2, LenProperties
    <3>4. PICK x \in 1 .. Len(runs), y \in 1 .. Len(runs) :
            Trips[k][i] = Ordered[x] /\ Trips[k][i + 1] = Ordered[y]
      BY <2>1, <3>3 DEF TripsOf, InOrder
    <3>5. PICK p \in DOMAIN runs, q \in DOMAIN runs : Ordered[x] = runs[p] /\ Ordered[y] = runs[q]
      BY <2>3
    <3> QED BY <3>1, <3>4, <3>5, SameIsTrue
  <2>5. ASSUME NEW i \in 1 .. (Len(Ordered) - 1),
               Ordered[i].synced, Ordered[i + 1].synced,
               ~Differ(Ordered[i].boot, Ordered[i + 1].boot),
               ~Differ(Ordered[i].hardware, Ordered[i + 1].hardware),
               FollowsInTruth(Ordered[i], Ordered[i + 1])
        PROVE  \E k \in DOMAIN Trips :
                 {Ordered[i], Ordered[i + 1]} \subseteq {Trips[k][j] : j \in DOMAIN Trips[k]}
    <3>1. i \in 1 .. Len(runs) /\ i + 1 \in 1 .. Len(runs) /\ i \in 1 .. Len(runs) - 1
      BY <2>2
    <3>2. PICK p \in DOMAIN runs, q \in DOMAIN runs :
            Ordered[i] = runs[p] /\ Ordered[i + 1] = runs[q]
      BY <2>3, <3>1
    <3>3. SameTrip(Ordered[i], Ordered[i + 1])
      BY <2>5, <3>2, SameIsTrue
    <3> QED BY <2>1, <3>1, <3>3 DEF TripsOf
  <2> QED BY <2>4, <2>5 DEF TripIsOneDrive
<1> QED BY <1>1, HistoryInitInv, HistoryStepInv, PTL DEF HistorySpec

\* The populations of the first n trips: in their order, eligible, under one
\* label, and nothing was done to the vehicle from one trip to the next.
SegmentsOf(gs, n) ==
  /\ gs \in Groups(Seq(RunRows))
  /\ InOrder(gs, Trips, n)
  /\ \A k \in DOMAIN gs : \A i \in DOMAIN gs[k] :
       Eligible(gs[k][i]) /\ Label(gs[k][i]) = Label(gs[k][1])
  /\ \A k \in DOMAIN gs : \A i \in 1 .. Len(gs[k]) - 1 :
       EventsBetween(Ended(gs[k][i]), Started(gs[k][i + 1])) = {}

\* A trip is left out, joins the last population, or starts one.
LEMMA TripJoins ==
  ASSUME NEW gs \in Groups(Seq(RunRows)), NEW t \in Seq(RunRows)
  PROVE  LET hs == Segmented(gs, t) IN
         \/ hs = gs
         \/ Eligible(t) /\ Alone(gs, hs, t)
         \/ /\ Eligible(t) /\ Inside(gs, hs, t)
            /\ EventsBetween(Ended(Last(gs[Len(gs)])), Started(t)) = {}
            /\ Label(gs[Len(gs)][1]) = Label(t)
<1>1. gs \in Seq(Seq(Seq(RunRows)))
  BY DEF Groups
<1>2. gs # <<>> <=> Len(gs) > 0
  BY <1>1
<1> QED BY <1>2 DEF Segmented, Inside, Alone, PoolLabel

\* The populations of one trip more.
LEMMA SegmentsGoOn ==
  ASSUME NEW gs, NEW n \in Nat, Trips[n + 1] \in Seq(RunRows), SegmentsOf(gs, n)
  PROVE  SegmentsOf(Segmented(gs, Trips[n + 1]), n + 1)
<1> DEFINE X == Seq(RunRows)
           t == Trips[n + 1]
           hs == Segmented(gs, t)
<1>1. gs \in Groups(X) /\ t \in X /\ InOrder(gs, Trips, n)
  BY DEF SegmentsOf
<1>2. \/ hs = gs
      \/ Eligible(t) /\ Alone(gs, hs, t)
      \/ /\ Eligible(t) /\ Inside(gs, hs, t)
         /\ EventsBetween(Ended(Last(gs[Len(gs)])), Started(t)) = {}
         /\ Label(gs[Len(gs)][1]) = Label(t)
  BY <1>1, TripJoins
<1> HIDE DEF hs, X
<1>3. CASE hs = gs
  <2>1. \A y \in 1 .. n : y \in 1 .. n + 1
    OBVIOUS
  <2>2. InOrder(gs, Trips, n + 1)
    <3>1. ASSUME NEW k \in DOMAIN gs, NEW i \in DOMAIN gs[k]
          PROVE  \E x \in 1 .. n + 1 : gs[k][i] = Trips[x]
      BY <1>1, <2>1 DEF InOrder
    <3>2. ASSUME NEW k \in DOMAIN gs, NEW l \in DOMAIN gs, NEW i \in DOMAIN gs[k],
                 NEW j \in DOMAIN gs[l], k < l \/ (k = l /\ i < j)
          PROVE  \E x, y \in 1 .. n + 1 : x < y /\ gs[k][i] = Trips[x] /\ gs[l][j] = Trips[y]
      <4>1. PICK x \in 1 .. n, y \in 1 .. n :
              x < y /\ gs[k][i] = Trips[x] /\ gs[l][j] = Trips[y]
        BY <1>1, <3>2 DEF InOrder
      <4> QED BY <2>1, <4>1
    <3> QED BY <3>1, <3>2 DEF InOrder
  <2> QED BY <1>3, <2>2 DEF SegmentsOf, hs, X
<1>4. CASE Eligible(t) /\ Alone(gs, hs, t)
  <2>1. hs \in Groups(X) /\ InOrder(hs, Trips, n + 1)
    BY <1>1, <1>4, StaysInOrder
  <2>2. /\ DOMAIN hs = 1 .. Len(gs) + 1 /\ Len(hs) = Len(gs) + 1 /\ DOMAIN gs = 1 .. Len(gs)
        /\ \A l \in DOMAIN gs : hs[l] = gs[l]
        /\ hs[Len(hs)] = <<t>> /\ Len(gs) \in Nat
    BY <1>1, <1>4, GrownAlone
  <2>3. Len(<<t>>) = 1 /\ DOMAIN <<t>> = {1} /\ <<t>>[1] = t
    OBVIOUS
  <2>4. \A k \in DOMAIN hs : (k \in DOMAIN gs /\ hs[k] = gs[k]) \/ hs[k] = <<t>>
    BY <2>2
  <2>5. ASSUME NEW k \in DOMAIN hs, NEW i \in DOMAIN hs[k]
        PROVE  Eligible(hs[k][i]) /\ Label(hs[k][i]) = Label(hs[k][1])
    <3>1. CASE k \in DOMAIN gs /\ hs[k] = gs[k]
      BY <3>1 DEF SegmentsOf
    <3>2. CASE hs[k] = <<t>>
      BY <1>4, <2>3, <3>2
    <3> QED BY <2>4, <3>1, <3>2
  <2>6. ASSUME NEW k \in DOMAIN hs, NEW i \in 1 .. Len(hs[k]) - 1
        PROVE  EventsBetween(Ended(hs[k][i]), Started(hs[k][i + 1])) = {}
    <3>1. CASE k \in DOMAIN gs /\ hs[k] = gs[k]
      BY <3>1 DEF SegmentsOf
    <3>2. CASE hs[k] = <<t>>
      <4>1. Len(hs[k]) = 1
        BY <2>3, <3>2
      <4> QED BY <4>1
    <3> QED BY <2>4, <3>1, <3>2
  <2> QED BY <2>1, <2>5, <2>6 DEF SegmentsOf, hs, X
<1>5. CASE /\ Eligible(t) /\ Inside(gs, hs, t)
           /\ EventsBetween(Ended(Last(gs[Len(gs)])), Started(t)) = {}
           /\ Label(gs[Len(gs)][1]) = Label(t)
  <2> DEFINE last == Len(gs)
             g == gs[last]
  <2>1. hs \in Groups(X) /\ InOrder(hs, Trips, n + 1)
    BY <1>1, <1>5, StaysInOrder
  <2>2. /\ DOMAIN hs = DOMAIN gs /\ Len(hs) = last /\ DOMAIN gs = 1 .. last
        /\ \A l \in DOMAIN gs : l # last => hs[l] = gs[l]
        /\ hs[last] = Append(g, t) /\ last \in Nat \ {0}
    BY <1>1, <1>5, GrownInside
  <2>3. g \in Seq(X) /\ g # <<>> /\ last \in DOMAIN gs
    BY <1>1, <2>2 DEF Groups
  <2>4. /\ DOMAIN hs[last] = 1 .. Len(g) + 1 /\ Len(hs[last]) = Len(g) + 1
        /\ Len(g) \in Nat \ {0} /\ DOMAIN g = 1 .. Len(g)
        /\ \A i \in 1 .. Len(g) : hs[last][i] = g[i]
        /\ hs[last][Len(g) + 1] = t
    BY <1>1, <2>2, <2>3, EmptySeq, AppendProperties, LenProperties
  <2>5. ASSUME NEW k \in DOMAIN hs, NEW i \in DOMAIN hs[k]
        PROVE  Eligible(hs[k][i]) /\ Label(hs[k][i]) = Label(hs[k][1])
    <3>1. CASE k # last
      <4>1. k \in DOMAIN gs /\ hs[k] = gs[k]
        BY <2>2, <3>1
      <4> QED BY <4>1 DEF SegmentsOf
    <3>2. CASE k = last
      <4>1. hs[last][1] = g[1]
        BY <2>4
      <4>2. CASE i = Len(g) + 1
        BY <1>5, <2>4, <3>2, <4>1, <4>2
      <4>3. CASE i # Len(g) + 1
        <5>1. i \in DOMAIN g /\ hs[last][i] = g[i]
          BY <2>4, <3>2, <4>3
        <5> QED BY <2>3, <3>2, <4>1, <5>1 DEF SegmentsOf
      <4> QED BY <4>2, <4>3
    <3> QED BY <3>1, <3>2
  <2>6. ASSUME NEW k \in DOMAIN hs, NEW i \in 1 .. Len(hs[k]) - 1
        PROVE  EventsBetween(Ended(hs[k][i]), Started(hs[k][i + 1])) = {}
    <3>1. CASE k # last
      <4>1. k \in DOMAIN gs /\ hs[k] = gs[k]
        BY <2>2, <3>1
      <4> QED BY <4>1 DEF SegmentsOf
    <3>2. CASE k = last
      <4>1. CASE i = Len(g)
        <5>1. hs[k][i] = Last(g) /\ hs[k][i + 1] = t
          BY <2>4, <3>2, <4>1 DEF Last
        <5> QED BY <1>5, <5>1
      <4>2. CASE i # Len(g)
        <5>1. i \in 1 .. Len(g) - 1 /\ hs[k][i] = g[i] /\ hs[k][i + 1] = g[i + 1]
          BY <2>4, <3>2, <4>2
        <5> QED BY <2>3, <5>1 DEF SegmentsOf
      <4> QED BY <4>1, <4>2
    <3> QED BY <3>1, <3>2
  <2> QED BY <2>1, <2>5, <2>6 DEF SegmentsOf, hs, X
<1> QED BY <1>2, <1>3, <1>4, <1>5

\* The populations the division ends with are those of all the trips.
LEMMA SegmentsAreDivided ==
  ASSUME HistoryInv PROVE SegmentsOf(Segments, Len(Trips))
<1> DEFINE trips == Trips
           N == Len(trips)
           X == Groups(Seq(RunRows))
           step == [n \in 1 .. N |-> [s \in X |-> Segmented(s, trips[n])]]
           Scan(f) == f = [n \in 0 .. N |-> IF n = 0 THEN <<>> ELSE Segmented(f[n - 1], trips[n])]
           f == CHOOSE g : Scan(g)
<1>1. Segments = f[N]
  BY DEF Segments
<1> HIDE DEF trips
<1>2. trips \in Groups(RunRows)
  BY TripsAreGrouped DEF TripsOf, trips
<1>3. N \in Nat /\ DOMAIN trips = 1 .. N /\ \A n \in 1 .. N : trips[n] \in Seq(RunRows)
  <2>1. trips \in Seq(Seq(RunRows))
    BY <1>2 DEF Groups
  <2> QED BY <2>1, LenProperties, ElementOfSeq
<1>4. <<>> \in X
  BY DEF Groups
<1>5. \A n \in 1 .. N, s \in X : Segmented(s, trips[n]) \in X
  <2> SUFFICES ASSUME NEW n \in 1 .. N, NEW s \in X PROVE Segmented(s, trips[n]) \in X
    OBVIOUS
  <2>1. \/ Segmented(s, trips[n]) = s
        \/ Inside(s, Segmented(s, trips[n]), trips[n])
        \/ Alone(s, Segmented(s, trips[n]), trips[n])
    BY <1>3, TripJoins
  <2> QED BY <1>3, <2>1, GrownAlone, GrownInside
<1> HIDE DEF X
<1>6. \E g : Scan(g)
  <2>1. step \in [1 .. N -> [X -> X]]
    BY <1>5
  <2>2. \A s \in X : \A n \in 1 .. N : step[n][s] = Segmented(s, trips[n])
    OBVIOUS
  <2> HIDE DEF step
  <2>3. PICK g : Scanned(g, X, N, <<>>, step)
    BY <1>3, <1>4, <2>1, Recursion
  <2>4. ASSUME NEW n \in 0 .. N
        PROVE  g[n] = IF n = 0 THEN <<>> ELSE Segmented(g[n - 1], trips[n])
    <3>1. n # 0 => n \in 1 .. N /\ n - 1 \in 0 .. N /\ g[n - 1] \in X
      <4>1. n # 0 => n \in 1 .. N /\ n - 1 \in 0 .. N
        BY <1>3
      <4> QED BY ONLY <4>1, <2>3 DEF Scanned
    <3>2. g[n] = IF n = 0 THEN <<>> ELSE step[n][g[n - 1]]
      BY <2>3, <3>1 DEF Scanned
    <3> QED BY <2>2, <3>1, <3>2
  <2>5. Scan(g)
    BY <2>3, <2>4 DEF Scanned
  <2> QED BY <2>5
<1>7. Scan(f)
  BY <1>6
<1> HIDE DEF f
<1>8. f[0] = <<>> /\ \A n \in 1 .. N : f[n] = Segmented(f[n - 1], trips[n])
  BY <1>3, <1>7
<1> DEFINE T == {n \in 0 .. N : SegmentsOf(f[n], n)}
<1>9. 0 \in T
  <2>1. SegmentsOf(<<>>, 0)
    BY <1>4 DEF SegmentsOf, InOrder, X
  <2> QED BY <1>3, <1>8, <2>1
<1>10. ASSUME NEW n \in 1 .. N, n - 1 \in T PROVE n \in T
  <2>1. n - 1 \in Nat /\ (n - 1) + 1 = n /\ SegmentsOf(f[n - 1], n - 1)
    BY <1>3, <1>10
  <2>2. SegmentsOf(Segmented(f[n - 1], trips[n]), n)
    BY <1>3, <2>1, SegmentsGoOn DEF trips
  <2> QED BY <1>8, <2>2
<1> HIDE DEF T
<1>11. N \in T
  BY ONLY <1>3, <1>9, <1>10, UpTo
<1> QED BY <1>1, <1>11 DEF T, trips

\* What a trip that may be compared says of its start and its end is the truth.
LEMMA TripTold ==
  ASSUME HistoryInv, NEW p \in DOMAIN Trips, Eligible(Trips[p])
  PROVE  /\ Started(Trips[p]) = Head(Trips[p]).from /\ Head(Trips[p]).from \in Nat
         /\ Ended(Trips[p]) = Last(Trips[p]).alive /\ Last(Trips[p]).alive \in Nat
<1> DEFINE t == Trips[p]
<1>1. TripsOf(Trips, Len(runs))
  BY TripsAreGrouped
<1>2. t \in Seq(RunRows) /\ t # <<>>
  BY <1>1 DEF TripsOf, Groups
<1>3. 1 \in DOMAIN t /\ Len(t) \in DOMAIN t
  <2> HIDE DEF t
  <2> QED BY <1>2, EmptySeq, LenProperties
<1>4. ASSUME NEW i \in DOMAIN t
      PROVE  /\ t[i].started = t[i].from /\ Finish(t[i]) = t[i].alive
             /\ t[i].from \in Nat /\ t[i].alive \in Nat
  <2>1. PICK x \in 1 .. Len(runs) : t[i] = Ordered[x]
    BY <1>1 DEF TripsOf, InOrder
  <2>2. runs \in Seq(RunRows) /\ DOMAIN runs = 1 .. Len(runs)
    BY DEF HistoryInv, RowsTold
  <2>3. PICK q \in DOMAIN runs : Ordered[x] = runs[q]
    BY <2>2, OrderedRows
  <2>4. TrueBy(runs[q], now) /\ runs[q].alive \in Nat /\ runs[q].from \in Nat
    BY <2>2, RowsOf DEF HistoryInv, RowsTold
  <2>5. t[i].synced
    BY DEF Eligible
  <2> QED BY <2>1, <2>3, <2>4, <2>5 DEF TrueBy
<1> HIDE DEF t
<1>5. Head(t) = t[1] /\ Last(t) = t[Len(t)]
  BY <1>2 DEF Last
<1> QED BY <1>3, <1>4, <1>5 DEF Started, Ended, t

\* A trip that may be compared ended before a later one began.
LEMMA TripsFollow ==
  ASSUME HistoryInv, NEW p \in DOMAIN Trips, NEW q \in DOMAIN Trips, p < q,
         Eligible(Trips[p]), Eligible(Trips[q])
  PROVE  Last(Trips[p]).alive <= Head(Trips[q]).from
<1> DEFINE t == Trips[p]
           u == Trips[q]
<1>1. TripsOf(Trips, Len(runs))
  BY TripsAreGrouped
<1>2. t \in Seq(RunRows) /\ t # <<>> /\ u \in Seq(RunRows) /\ u # <<>>
  BY <1>1 DEF TripsOf, Groups
<1>3. 1 \in DOMAIN u /\ Len(t) \in DOMAIN t /\ Head(u) = u[1] /\ Last(t) = t[Len(t)]
  <2> HIDE DEF t, u
  <2> QED BY <1>2, EmptySeq, LenProperties DEF Last
<1>4. PICK x \in 1 .. Len(runs), y \in 1 .. Len(runs) :
        x < y /\ t[Len(t)] = Ordered[x] /\ u[1] = Ordered[y]
  BY <1>1, <1>3 DEF TripsOf, InOrder
<1>5. runs \in Seq(RunRows) /\ DOMAIN runs = 1 .. Len(runs)
  BY DEF HistoryInv, RowsTold
<1>6. PICK i \in DOMAIN runs, j \in DOMAIN runs :
        StartedBefore(i, j) /\ Ordered[x] = runs[i] /\ Ordered[y] = runs[j]
  <2>1. x \in DOMAIN runs /\ y \in DOMAIN runs /\ x < y
    BY <1>4, <1>5
  <2>2. \A k, l \in DOMAIN runs : k < l =>
          \E i, j \in DOMAIN runs : StartedBefore(i, j) /\ Ordered[k] = runs[i] /\ Ordered[l] = runs[j]
    BY OrderedRows
  <2> QED BY ONLY <2>1, <2>2
<1>7. t[Len(t)].synced /\ u[1].synced
  BY <1>3 DEF Eligible
<1> HIDE DEF t, u
<1>8. /\ runs[i].started = runs[i].from /\ runs[i].from <= runs[i].alive
      /\ runs[j].started = runs[j].from /\ runs[j].from <= runs[j].alive
  BY <1>4, <1>6, <1>7 DEF HistoryInv, RowsTold, TrueBy
<1>9. /\ runs[i].from \in Nat /\ runs[i].alive \in Nat
      /\ runs[j].from \in Nat /\ runs[j].alive \in Nat
  BY <1>5, RowsOf
<1>10. runs[i].alive <= runs[j].from
  <2>1. CASE i < j
    BY <2>1 DEF HistoryInv, RowsTold
  <2>2. CASE ~(i < j)
    <3>1. runs[i].from < runs[j].from
      BY <1>6, <1>8, <2>2 DEF StartedBefore
    <3>2. i # j
      BY <1>9, <3>1
    <3>3. j < i
      BY <1>5, <2>2, <3>2
    <3>4. runs[j].alive <= runs[i].from
      BY <3>3 DEF HistoryInv, RowsTold
    <3> QED BY <1>8, <1>9, <3>1, <3>4
  <2> QED BY <2>1, <2>2
<1> QED BY <1>3, <1>4, <1>6, <1>10 DEF t, u

\* The two sides are of the last population, in its order.
LEMMA SidesArePooled ==
  ASSUME HistoryInv,
         NEW i \in DOMAIN (Sides.reference \o Sides.current),
         NEW j \in DOMAIN (Sides.reference \o Sides.current), i < j
  PROVE  LET pool == Sides.reference \o Sides.current IN
         \E k \in DOMAIN Segments : \E a, b \in DOMAIN Segments[k] :
           a < b /\ pool[i] = Segments[k][a] /\ pool[j] = Segments[k][b]
<1> DEFINE G == Last(Segments)
           X == Seq(RunRows)
           pool == Sides.reference \o Sides.current
           place(n) == IF n <= References THEN n ELSE Len(G) - Currents + n - References
<1>1. SegmentsOf(Segments, Len(Trips))
  BY SegmentsAreDivided
<1>2. Segments \in Seq(Seq(X))
  BY <1>1 DEF SegmentsOf, Groups
<1>3. References \in Nat /\ Currents \in Nat
  BY HistoryAssumption
<1>4. Segments # <<>> /\ Len(G) >= References + Currents
  <2> SUFFICES ASSUME Segments = <<>> \/ Len(G) < References + Currents PROVE FALSE
    <3>1. Segments # <<>> => G \in Seq(X)
      <4>1. Segments # <<>> => Len(Segments) \in 1 .. Len(Segments)
        BY <1>2, EmptySeq
      <4> QED BY <1>2, <4>1, ElementOfSeq DEF Last
    <3>2. Segments # <<>> => Len(G) \in Nat
      BY <3>1, LenProperties
    <3> QED BY <1>3, <3>2
  <2>1. Sides = [reference |-> <<>>, current |-> <<>>]
    <3>1. CASE Segments = <<>>
      <4>1. (References = 0 /\ Currents = 0) \/ Len(<<>>) < References + Currents
        BY <1>3
      <4>2. SubSeq(<<>>, 1, 0) = <<>> /\ SubSeq(<<>>, 0 - 0 + 1, 0) = <<>>
        BY SubSeqEmpty
      <4> QED BY <3>1, <4>1, <4>2 DEF Sides
    <3>2. CASE Segments # <<>>
      BY <3>2 DEF Sides
    <3> QED BY <3>1, <3>2
  <2>2. pool = <<>>
    BY <2>1
  <2> QED BY <2>2
<1>5. Len(Segments) \in DOMAIN Segments /\ G = Segments[Len(Segments)]
  <2> HIDE DEF X
  <2> QED BY <1>2, <1>4, EmptySeq, LenProperties DEF Last
<1>6. G \in Seq(X)
  BY <1>2, <1>5
<1> DEFINE L == Len(G)
<1>7. L \in Nat /\ DOMAIN G = 1 .. L /\ \A n \in 1 .. L : G[n] \in X
  BY <1>6, LenProperties, ElementOfSeq
<1>8. Sides = [reference |-> SubSeq(G, 1, References), current |-> SubSeq(G, L - Currents + 1, L)]
  <2> HIDE DEF G, X
  <2> QED BY <1>4, <1>3, <1>7 DEF Sides, G
<1> HIDE DEF G, X, L
<1>9. /\ SubSeq(G, 1, References) \in Seq(X)
      /\ Len(SubSeq(G, 1, References)) = References
      /\ \A n \in 1 .. References : SubSeq(G, 1, References)[n] = G[n]
  <2>1. \A n \in 1 .. References : G[n] \in X
    BY <1>3, <1>4, <1>7 DEF L
  <2>2. 1 \in Int /\ References \in Int
    BY <1>3
  <2>3. /\ SubSeq(G, 1, References) \in Seq(X)
        /\ Len(SubSeq(G, 1, References)) = IF 1 <= References THEN References - 1 + 1 ELSE 0
        /\ \A n \in 1 .. References - 1 + 1 : SubSeq(G, 1, References)[n] = G[1 + n - 1]
    BY ONLY <2>1, <2>2, SubSeqProperties
  <2> HIDE DEF pool
  <2>4. ASSUME NEW n \in 1 .. References PROVE SubSeq(G, 1, References)[n] = G[n]
    <3>1. n \in 1 .. References - 1 + 1 /\ 1 + n - 1 = n
      BY <1>3
    <3> QED BY <2>3, <3>1
  <2> QED BY <1>3, <2>3, <2>4
<1>10. /\ SubSeq(G, L - Currents + 1, L) \in Seq(X)
       /\ Len(SubSeq(G, L - Currents + 1, L)) = Currents
       /\ \A n \in 1 .. Currents : SubSeq(G, L - Currents + 1, L)[n] = G[L - Currents + n]
  <2> DEFINE m == L - Currents + 1
  <2>1. m \in Int /\ L \in Int /\ 1 <= m
    BY <1>3, <1>4, <1>7 DEF L
  <2>2. \A n \in m .. L : G[n] \in X
    BY <1>7, <2>1
  <2> HIDE DEF pool
  <2>3. L - m + 1 = Currents
    BY <1>3, <1>7
  <2>4. (m <= L) <=> Currents > 0
    BY <1>3, <1>7
  <2> HIDE DEF m
  <2>5. /\ SubSeq(G, m, L) \in Seq(X)
        /\ Len(SubSeq(G, m, L)) = IF m <= L THEN L - m + 1 ELSE 0
        /\ \A n \in 1 .. L - m + 1 : SubSeq(G, m, L)[n] = G[m + n - 1]
    BY <2>1, <2>2, SubSeqProperties
  <2>6. \A n \in 1 .. Currents : m + n - 1 = L - Currents + n
    BY <1>3, <1>7 DEF m
  <2>7. \A n \in 1 .. Currents : SubSeq(G, m, L)[n] = G[L - Currents + n]
    BY <2>3, <2>5, <2>6
  <2>8. Len(SubSeq(G, m, L)) = Currents
    BY <1>3, <2>3, <2>4, <2>5
  <2> QED BY <2>5, <2>7, <2>8 DEF m
<1>11. /\ pool \in Seq(X) /\ Len(pool) = References + Currents
       /\ \A n \in 1 .. References + Currents : pool[n] = G[place(n)]
  <2> DEFINE r == SubSeq(G, 1, References)
             c == SubSeq(G, L - Currents + 1, L)
  <2>1. pool = r \o c
    BY <1>8
  <2> HIDE DEF r, c, pool
  <2>2. r \in Seq(X) /\ Len(r) = References /\ \A n \in 1 .. References : r[n] = G[n]
    BY <1>9 DEF r
  <2>3. c \in Seq(X) /\ Len(c) = Currents /\ \A n \in 1 .. Currents : c[n] = G[L - Currents + n]
    BY <1>10 DEF c
  <2>4. /\ pool \in Seq(X) /\ Len(pool) = References + Currents
        /\ \A n \in 1 .. References + Currents :
             pool[n] = IF n <= References THEN r[n] ELSE c[n - References]
    <3>1. /\ r \o c \in Seq(X) /\ Len(r \o c) = Len(r) + Len(c)
          /\ \A n \in 1 .. Len(r) + Len(c) :
               (r \o c)[n] = IF n <= Len(r) THEN r[n] ELSE c[n - Len(r)]
      BY ONLY <2>2, <2>3, ConcatProperties
    <3> QED BY ONLY <2>1, <2>2, <2>3, <3>1
  <2>5. ASSUME NEW n \in 1 .. References + Currents PROVE pool[n] = G[place(n)]
    <3>1. CASE n <= References
      BY <1>3, <2>2, <2>4, <3>1
    <3>2. CASE ~(n <= References)
      <4>1. n - References \in 1 .. Currents
        BY <1>3, <3>2
      <4>2. L - Currents + (n - References) = L - Currents + n - References
        BY <1>3, <1>7
      <4> QED BY <2>3, <2>4, <3>2, <4>1, <4>2 DEF L
    <3> QED BY <3>1, <3>2
  <2> QED BY <2>4, <2>5
<1>12. i \in 1 .. References + Currents /\ j \in 1 .. References + Currents
  BY <1>11, LenProperties
<1> HIDE DEF pool
<1>13. place(i) \in 1 .. L /\ place(j) \in 1 .. L /\ place(i) < place(j)
  BY <1>3, <1>4, <1>7, <1>12 DEF L
<1> QED BY <1>5, <1>7, <1>11, <1>12, <1>13 DEF pool

\* The sides of a comparison measure the same thing (baseline.py:3-20, 82-150).
THEOREM PoolsAreAlike == HistorySpec => []PooledAlike
<1>1. HistoryInv => PooledAlike
  <2> DEFINE pool == Sides.reference \o Sides.current
             From(t) == Head(t).from
             To(t) == Last(t).alive
             During(e) == \E k \in DOMAIN Trips : /\ Eligible(Trips[k])
                                                 /\ From(Trips[k]) < e
                                                 /\ e <= To(Trips[k])
  <2> SUFFICES ASSUME HistoryInv, NEW i \in DOMAIN pool, NEW j \in DOMAIN pool, i < j
               PROVE  /\ Label(pool[i]) = Label(pool[j])
                      /\ To(pool[i]) <= From(pool[j])
                      /\ \A e \in events : To(pool[i]) < e /\ e <= From(pool[j]) => During(e)
    BY DEF PooledAlike
  <2>1. PICK k \in DOMAIN Segments : \E a, b \in DOMAIN Segments[k] :
          a < b /\ pool[i] = Segments[k][a] /\ pool[j] = Segments[k][b]
    BY SidesArePooled
  <2> DEFINE G == Segments[k]
             X == Seq(RunRows)
  <2>2. PICK a \in DOMAIN G, b \in DOMAIN G : a < b /\ pool[i] = G[a] /\ pool[j] = G[b]
    BY <2>1
  <2> HIDE DEF pool
  <2>3. SegmentsOf(Segments, Len(Trips))
    BY SegmentsAreDivided
  <2>4. G \in Seq(X)
    BY <2>3 DEF SegmentsOf, Groups
  <2>5. DOMAIN G = 1 .. Len(G) /\ Len(G) \in Nat
    BY <2>4, LenProperties
  <2>6. DOMAIN Trips = 1 .. Len(Trips)
    <3>1. Trips \in Seq(X)
      BY TripsAreGrouped DEF TripsOf, Groups
    <3> HIDE DEF X
    <3> QED BY <3>1, LenProperties
  <2>7. Label(G[a]) = Label(G[b])
    BY <2>3 DEF SegmentsOf
  <2>8. ASSUME NEW c \in DOMAIN G
        PROVE  /\ Eligible(G[c]) /\ \E p \in DOMAIN Trips : G[c] = Trips[p]
               /\ Started(G[c]) = From(G[c]) /\ From(G[c]) \in Nat
               /\ Ended(G[c]) = To(G[c]) /\ To(G[c]) \in Nat
    <3>1. Eligible(G[c]) /\ \E p \in 1 .. Len(Trips) : G[c] = Trips[p]
      BY <2>3 DEF SegmentsOf, InOrder
    <3> QED BY <2>6, <3>1, TripTold
  <2>9. ASSUME NEW c \in DOMAIN G, NEW d \in DOMAIN G, c < d
        PROVE  To(G[c]) <= From(G[d])
    <3>1. PICK p \in 1 .. Len(Trips), q \in 1 .. Len(Trips) :
            p < q /\ G[c] = Trips[p] /\ G[d] = Trips[q]
      BY <2>3, <2>9 DEF SegmentsOf, InOrder
    <3>2. Eligible(Trips[p]) /\ Eligible(Trips[q])
      BY <2>8, <3>1
    <3> QED BY <2>6, <3>1, <3>2, TripsFollow
  <2>10. ASSUME NEW e \in events, To(G[a]) < e, e <= From(G[b])
         PROVE  During(e)
    <3>1. e \in Nat
      BY DEF HistoryInv
    <3> DEFINE Later == {c \in DOMAIN G : a < c /\ e <= From(G[c])}
    <3>2. Later \in SUBSET Nat /\ b \in Later
      BY <2>2, <2>5, <2>10
    <3>3. PICK m \in Later : \A c \in Later : m <= c
      BY <3>2, FirstOfPlaces
    <3> DEFINE l == m - 1
    <3>4. l \in DOMAIN G /\ l \in 1 .. Len(G) - 1 /\ l + 1 = m /\ a <= l /\ l < m /\ m \in DOMAIN G
      BY <2>5, <3>3
    <3>5. e <= From(G[m])
      BY <3>3
    <3>6. l = a \/ From(G[l]) < e
      <4> SUFFICES ASSUME l # a, ~(From(G[l]) < e) PROVE FALSE
        OBVIOUS
      <4>1. From(G[l]) \in Nat
        BY <2>8, <3>4
      <4>2. e <= From(G[l])
        BY <3>1, <4>1
      <4>3. a < l
        BY <2>5, <3>4
      <4>4. l \in Later
        BY <3>4, <4>2, <4>3
      <4>5. m <= l
        BY <3>3, <4>4
      <4> QED BY <2>5, <3>4, <4>5
    <3> HIDE DEF l, Later
    <3>7. EventsBetween(Ended(G[l]), Started(G[m])) = {}
      BY <2>3, <3>4 DEF SegmentsOf
    <3>8. /\ Ended(G[l]) = To(G[l]) /\ To(G[l]) \in Nat
          /\ Started(G[m]) = From(G[m]) /\ From(G[m]) \in Nat /\ To(G[l]) <= From(G[m])
      BY <2>8, <2>9, <3>4
    <3> HIDE DEF From, To
    <3>9. ~(To(G[l]) < e)
      BY <3>5, <3>7, <3>8 DEF EventsBetween
    <3>10. l # a
      BY <2>10, <3>9
    <3>11. From(G[l]) < e /\ e <= To(G[l])
      BY <3>1, <3>6, <3>8, <3>9, <3>10
    <3>12. PICK p \in DOMAIN Trips : G[l] = Trips[p]
      BY <2>8, <3>4
    <3>13. Eligible(Trips[p])
      BY <2>8, <3>4, <3>12
    <3> QED BY <3>11, <3>12, <3>13
  <2> QED BY <2>2, <2>7, <2>9, <2>10
<1> QED BY <1>1, HistoryInitInv, HistoryStepInv, PTL DEF HistorySpec

-----------------------------------------------------------------------------
(* Catalogue *)

\* A list has no more elements than places.
LEMMA ElementsOf ==
  ASSUME NEW s, IsSequence(s)
  PROVE  /\ Len(s) \in Nat /\ DOMAIN s = 1 .. Len(s)
         /\ IsFiniteSet(Elements(s))
         /\ Cardinality(Elements(s)) \in Nat /\ Cardinality(Elements(s)) <= Len(s)
<1>1. s \in Seq(Elements(s))
  BY DEF IsSequence
<1>2. Len(s) \in Nat /\ DOMAIN s = 1 .. Len(s) /\ s \in [1 .. Len(s) -> Elements(s)]
  BY <1>1, LenProperties
<1>3. s \in Surjection(1 .. Len(s), Elements(s))
  BY <1>2 DEF Surjection, Elements
<1>4. IsFiniteSet(1 .. Len(s)) /\ Cardinality(1 .. Len(s)) = Len(s)
  BY <1>2, FS_Interval
<1>5. IsFiniteSet(Elements(s)) /\ Cardinality(Elements(s)) <= Len(s)
  BY <1>3, <1>4, FS_Surjection
<1> QED BY <1>2, <1>5, FS_CardinalityType

\* Sets that grow round by round, and stay when a round adds nothing.
Growing(s, T, N) ==
  /\ \A n \in 0 .. N + 1 : s[n] \in SUBSET T
  /\ \A n \in 1 .. N + 1 : s[n - 1] \subseteq s[n]
  /\ \A n \in 1 .. N : s[n - 1] = s[n] => s[n] = s[n + 1]

\* They have stopped growing after as many rounds as there is room for elements.
LEMMA Settles ==
  ASSUME NEW T, IsFiniteSet(T), NEW N \in Nat, Cardinality(T) <= N,
         NEW s, Growing(s, T, N)
  PROVE  s[N] = s[N + 1]
<1> DEFINE Full == {n \in 0 .. N : s[n] = s[n + 1] \/ n <= Cardinality(s[n])}
<1>0. /\ \A n \in 0 .. N + 1 : s[n] \in SUBSET T
      /\ \A n \in 1 .. N + 1 : s[n - 1] \subseteq s[n]
      /\ \A n \in 1 .. N : s[n - 1] = s[n] => s[n] = s[n + 1]
  BY DEF Growing
<1>1. ASSUME NEW n \in 0 .. N + 1
      PROVE  IsFiniteSet(s[n]) /\ Cardinality(s[n]) \in Nat
  BY <1>0, FS_Subset, FS_CardinalityType
<1>2. 0 \in Full
  BY <1>1
<1>3. ASSUME NEW n \in 1 .. N, n - 1 \in Full PROVE n \in Full
  <2>1. /\ n \in 0 .. N + 1 /\ n - 1 \in 0 .. N + 1 /\ n \in 1 .. N + 1
        /\ n \in 0 .. N /\ (n - 1) + 1 = n
    OBVIOUS
  <2>2. s[n - 1] \subseteq s[n] /\ (s[n - 1] = s[n] => s[n] = s[n + 1])
    BY <1>0, <2>1
  <2>3. /\ Cardinality(s[n - 1]) <= Cardinality(s[n])
        /\ Cardinality(s[n - 1]) = Cardinality(s[n]) => s[n - 1] = s[n]
    BY <1>1, <2>1, <2>2, FS_Subset
  <2>4. s[n - 1] = s[n] \/ n - 1 <= Cardinality(s[n - 1])
    BY <1>3, <2>1
  <2>5. s[n] = s[n + 1] \/ n <= Cardinality(s[n])
    BY <1>1, <2>1, <2>2, <2>3, <2>4
  <2> QED BY <2>1, <2>5
<1>4. N \in Full
  <2> HIDE DEF Full
  <2> QED BY ONLY <1>2, <1>3, N \in Nat, UpTo
<1>5. CASE N <= Cardinality(s[N])
  <2>1. N \in 0 .. N + 1 /\ N + 1 \in 0 .. N + 1 /\ N + 1 \in 1 .. N + 1 /\ (N + 1) - 1 = N
    OBVIOUS
  <2>2. s[N] \in SUBSET T /\ s[N + 1] \in SUBSET T /\ s[N] \subseteq s[N + 1]
    BY <1>0, <2>1
  <2>3. Cardinality(s[N]) \in Nat /\ Cardinality(T) \in Nat
    BY <1>1, <2>1, FS_CardinalityType
  <2>4. s[N] = T
    BY <1>5, <2>2, <2>3, FS_Subset
  <2> QED BY <2>2, <2>4
<1> QED BY <1>4, <1>5

\* A channel whose required inputs are read or taken.
Ready(d, taken, read) == d.needs \subseteq read \cup {t.key : t \in taken}
ClosedIn(all, S, read) == \A d \in all : Ready(d, S, read) => d \in S

\* What was ready stays so when more is taken.
LEMMA ReadyStays ==
  ASSUME NEW d, NEW S, NEW T, S \subseteq T, NEW read
  PROVE  Ready(d, S, read) => Ready(d, T, read)
BY DEF Ready

\* A channel is taken when it is ready, and so into every closed set.
LEMMA TakeReadyAdds ==
  ASSUME NEW all, NEW taken \in SUBSET all, NEW d \in all, NEW read
  PROVE  LET more == TakeReady(taken, d, read) IN
         /\ more \in SUBSET all /\ taken \subseteq more
         /\ more = taken => (Ready(d, taken, read) => d \in taken)
         /\ \A S : ClosedIn(all, S, read) /\ taken \subseteq S => more \subseteq S
<1>1. TakeReady(taken, d, read) = IF Ready(d, taken, read) THEN taken \cup {d} ELSE taken
  BY DEF TakeReady, Needed, Ready
<1>2. \A S : ClosedIn(all, S, read) /\ taken \subseteq S /\ Ready(d, taken, read) => d \in S
  BY ReadyStays DEF ClosedIn
<1> QED BY <1>1, <1>2

\* So a pass; one that takes nothing leaves nothing that is ready.
LEMMA PassAdds ==
  ASSUME NEW f, IsSequence(f.derived), NEW taken \in SUBSET Elements(f.derived), NEW read
  PROVE  LET all == Elements(f.derived)  more == Pass(f, taken, read) IN
         /\ more \in SUBSET all /\ taken \subseteq more
         /\ more = taken => ClosedIn(all, taken, read)
         /\ \A S : ClosedIn(all, S, read) /\ taken \subseteq S => more \subseteq S
<1> DEFINE all == Elements(f.derived)
           N == Len(f.derived)
           step == [n \in 1 .. N |-> [t \in SUBSET all |-> TakeReady(t, f.derived[n], read)]]
           Scan(g) == g = [n \in 0 .. N |->
                             IF n = 0 THEN taken ELSE TakeReady(g[n - 1], f.derived[n], read)]
           after == CHOOSE g : Scan(g)
<1>1. N \in Nat /\ DOMAIN f.derived = 1 .. N /\ \A n \in 1 .. N : f.derived[n] \in all
  BY ElementsOf DEF Elements
<1>2. \A t \in SUBSET all : \A n \in 1 .. N : TakeReady(t, f.derived[n], read) \in SUBSET all
  <2> SUFFICES ASSUME NEW t \in SUBSET all, NEW n \in 1 .. N
               PROVE  TakeReady(t, f.derived[n], read) \in SUBSET all
    OBVIOUS
  <2>1. f.derived[n] \in all
    BY <1>1
  <2> HIDE DEF all
  <2>2. \A d \in all : TakeReady(t, d, read) \in SUBSET all
    BY TakeReadyAdds
  <2> QED BY ONLY <2>1, <2>2
<1>3. Pass(f, taken, read) = after[N]
  BY DEF Pass
<1> HIDE DEF all, N
<1>4. \E g : Scan(g)
  <2>1. step \in [1 .. N -> [SUBSET all -> SUBSET all]]
    BY <1>2
  <2>2. \A t \in SUBSET all : \A n \in 1 .. N : step[n][t] = TakeReady(t, f.derived[n], read)
    OBVIOUS
  <2>3. taken \in SUBSET all
    BY DEF all
  <2> HIDE DEF step
  <2>4. PICK g : Scanned(g, SUBSET all, N, taken, step)
    BY <1>1, <2>1, <2>3, Recursion
  <2>5. ASSUME NEW n \in 0 .. N
        PROVE  g[n] = IF n = 0 THEN taken ELSE TakeReady(g[n - 1], f.derived[n], read)
    <3>1. n # 0 => n \in 1 .. N /\ n - 1 \in 0 .. N
      BY <1>1
    <3>2. n # 0 => n \in 1 .. N /\ g[n - 1] \in SUBSET all
      BY ONLY <3>1, <2>4 DEF Scanned
    <3>3. g[n] = IF n = 0 THEN taken ELSE step[n][g[n - 1]]
      BY <2>4, <3>1 DEF Scanned
    <3> QED BY <2>2, <3>2, <3>3
  <2>6. Scan(g)
    BY <2>4, <2>5 DEF Scanned
  <2> QED BY <2>6
<1>5. Scan(after)
  BY <1>4
<1> HIDE DEF after
<1>6. /\ after[0] = taken
      /\ \A n \in 1 .. N : after[n] = TakeReady(after[n - 1], f.derived[n], read)
  BY <1>1, <1>5
<1> HIDE DEF Scan
<1> DEFINE In == {n \in 0 .. N : after[n] \in SUBSET all
                                 /\ \A i \in 0 .. n : after[i] \subseteq after[n]}
<1>7. 0 \in In
  BY <1>1, <1>6 DEF all
<1>8. ASSUME NEW n \in 1 .. N, n - 1 \in In PROVE n \in In
  <2>1. after[n] \in SUBSET all /\ after[n - 1] \subseteq after[n]
    <3>1. after[n - 1] \in SUBSET all /\ f.derived[n] \in all
      BY <1>1, <1>8
    <3>2. after[n] = TakeReady(after[n - 1], f.derived[n], read)
      BY <1>6
    <3>3. \A t \in SUBSET all : \A d \in all :
            TakeReady(t, d, read) \in SUBSET all /\ t \subseteq TakeReady(t, d, read)
      BY TakeReadyAdds
    <3> QED BY ONLY <3>1, <3>2, <3>3
  <2>2. \A i \in 0 .. n : i = n \/ i \in 0 .. n - 1
    BY <1>1
  <2> QED BY <1>1, <1>8, <2>1, <2>2
<1>9. N \in In /\ \A n \in 0 .. N : n \in In
  <2> HIDE DEF In
  <2> QED BY ONLY <1>1, <1>7, <1>8, UpTo
<1>10. after[N] \in SUBSET all /\ \A n \in 0 .. N : after[n] \subseteq after[N] /\ taken \subseteq after[n]
  BY <1>1, <1>6, <1>9
<1>11. ASSUME after[N] = taken PROVE ClosedIn(all, taken, read)
  <2> SUFFICES ASSUME NEW d \in all, Ready(d, taken, read) PROVE d \in taken
    BY DEF ClosedIn
  <2>1. PICK n \in 1 .. N : f.derived[n] = d
    BY <1>1 DEF all, Elements
  <2>2. n \in 0 .. N /\ n - 1 \in 0 .. N
    BY <1>1
  <2>3. after[n] = taken /\ after[n - 1] = taken /\ taken \in SUBSET all
    BY <1>10, <1>11, <2>2
  <2>4. TakeReady(taken, d, read) = taken
    BY <1>6, <2>1, <2>3
  <2> QED BY <2>3, <2>4, TakeReadyAdds
<1>12. ASSUME NEW S, ClosedIn(all, S, read), taken \subseteq S PROVE after[N] \subseteq S
  <2> DEFINE Under == {n \in 0 .. N : after[n] \subseteq S}
  <2>1. 0 \in Under
    BY <1>1, <1>6, <1>12
  <2>2. ASSUME NEW n \in 1 .. N, n - 1 \in Under PROVE n \in Under
    <3>1. after[n - 1] \in SUBSET all /\ n \in 0 .. N
      BY <1>1, <1>9
    <3> QED BY <1>1, <1>6, <1>12, <2>2, <3>1, TakeReadyAdds
  <2> HIDE DEF Under
  <2>3. N \in Under
    BY ONLY <1>1, <2>1, <2>2, UpTo
  <2> QED BY <2>3 DEF Under
<1>13. 0 \in 0 .. N
  BY <1>1
<1> QED BY <1>3, <1>10, <1>11, <1>12, <1>13 DEF all

\* The passes of a file end with the smallest set that lacks nothing it could have.
LEMMA KeptIsLeast ==
  ASSUME NEW f, IsSequence(f.derived), NEW read
  PROVE  LET all == Elements(f.derived)  kept == Kept(f, read) IN
         /\ kept \in SUBSET all
         /\ ClosedIn(all, kept, read)
         /\ \A S : ClosedIn(all, S, read) => kept \subseteq S
<1> DEFINE all == Elements(f.derived)
           N == Len(f.derived)
           base == {}
           step == [n \in 1 .. N |-> [t \in SUBSET all |-> Pass(f, t, read)]]
           Scan(g) == g = [n \in 0 .. N |-> IF n = 0 THEN base ELSE Pass(f, g[n - 1], read)]
           passed == CHOOSE g : Scan(g)
<1>1. N \in Nat /\ IsFiniteSet(all) /\ Cardinality(all) <= N
  BY ElementsOf
<1>2. \A t \in SUBSET all : Pass(f, t, read) \in SUBSET all
  BY PassAdds
<1>3. Kept(f, read) = passed[N]
  BY DEF Kept, Passes
<1>4. base \in SUBSET all
  OBVIOUS
<1> HIDE DEF all, N, base
<1>5. \E g : Scan(g)
  <2>1. step \in [1 .. N -> [SUBSET all -> SUBSET all]]
    BY <1>2
  <2>2. \A t \in SUBSET all : \A n \in 1 .. N : step[n][t] = Pass(f, t, read)
    OBVIOUS
  <2> HIDE DEF step
  <2>4. PICK g : Scanned(g, SUBSET all, N, base, step)
    BY <1>1, <1>4, <2>1, Recursion
  <2>5. ASSUME NEW n \in 0 .. N
        PROVE  g[n] = IF n = 0 THEN base ELSE Pass(f, g[n - 1], read)
    <3>1. n # 0 => n \in 1 .. N /\ n - 1 \in 0 .. N
      BY <1>1
    <3>2. n # 0 => n \in 1 .. N /\ g[n - 1] \in SUBSET all
      BY ONLY <3>1, <2>4 DEF Scanned
    <3>3. g[n] = IF n = 0 THEN base ELSE step[n][g[n - 1]]
      BY <2>4, <3>1 DEF Scanned
    <3> QED BY <2>2, <3>2, <3>3
  <2>6. Scan(g)
    BY <2>4, <2>5 DEF Scanned
  <2> QED BY <2>6
<1>6. Scan(passed)
  BY <1>5
<1> HIDE DEF passed
<1>7. passed[0] = base /\ \A n \in 1 .. N : passed[n] = Pass(f, passed[n - 1], read)
  BY <1>1, <1>6
<1> HIDE DEF Scan
<1> DEFINE In == {n \in 0 .. N : passed[n] \in SUBSET all}
<1>8. 0 \in In
  BY <1>1, <1>4, <1>7
<1>9. ASSUME NEW n \in 1 .. N, n - 1 \in In PROVE n \in In
  BY <1>1, <1>2, <1>7, <1>9
<1>10. N \in In /\ \A n \in 0 .. N : n \in In
  <2> HIDE DEF In
  <2> QED BY ONLY <1>1, <1>8, <1>9, UpTo
<1>11. Pass(f, passed[N], read) = passed[N]
  <2> DEFINE s == [n \in 0 .. N + 1 |-> IF n = N + 1 THEN Pass(f, passed[N], read) ELSE passed[n]]
  <2>1. /\ \A n \in 0 .. N : s[n] = passed[n]
        /\ s[N + 1] = Pass(f, passed[N], read)
    BY <1>1
  <2>2. \A n \in 1 .. N + 1 : /\ n - 1 \in 0 .. N
                              /\ s[n] = Pass(f, s[n - 1], read)
    <3> SUFFICES ASSUME NEW n \in 1 .. N + 1
                 PROVE  n - 1 \in 0 .. N /\ s[n] = Pass(f, s[n - 1], read)
      OBVIOUS
    <3>1. n - 1 \in 0 .. N /\ (n = N + 1 \/ (n \in 1 .. N /\ n \in 0 .. N)) /\ (N + 1) - 1 = N
      BY <1>1
    <3> HIDE DEF s
    <3> QED BY <1>7, <2>1, <3>1
  <2> HIDE DEF s
  <2>3. \A n \in 0 .. N : s[n] \in SUBSET all
    BY <1>10, <2>1
  <2>4. \A n \in 0 .. N + 1 : s[n] \in SUBSET all
    <3>1. \A n \in 0 .. N + 1 : n \in 0 .. N \/ n \in 1 .. N + 1
      BY <1>1
    <3> QED BY <1>2, <2>2, <2>3, <3>1
  <2>5. \A n \in 1 .. N + 1 : s[n - 1] \subseteq s[n]
    BY <2>2, <2>3, PassAdds DEF all
  <2>6. ASSUME NEW n \in 1 .. N, s[n - 1] = s[n] PROVE s[n] = s[n + 1]
    <3>1. n \in 1 .. N + 1 /\ n + 1 \in 1 .. N + 1 /\ (n + 1) - 1 = n
      BY <1>1
    <3> QED BY <2>2, <2>6, <3>1
  <2>7. s[N] = s[N + 1]
    <3>1. Growing(s, all, N)
      BY ONLY <2>4, <2>5, <2>6 DEF Growing
    <3> QED BY ONLY <1>1, <3>1, Settles
  <2>8. N \in 0 .. N
    BY <1>1
  <2> QED BY <2>1, <2>7, <2>8
<1>12. ASSUME NEW S, ClosedIn(all, S, read) PROVE passed[N] \subseteq S
  <2> DEFINE Under == {n \in 0 .. N : passed[n] \subseteq S}
  <2>1. 0 \in Under
    BY <1>1, <1>7 DEF base
  <2>2. ASSUME NEW n \in 1 .. N, n - 1 \in Under PROVE n \in Under
    <3>1. passed[n - 1] \in SUBSET all /\ passed[n - 1] \subseteq S /\ n \in 0 .. N
      BY <1>1, <1>10, <2>2
    <3>2. Pass(f, passed[n - 1], read) \subseteq S
      BY <1>12, <3>1, PassAdds DEF all
    <3> QED BY <1>7, <3>1, <3>2
  <2> HIDE DEF Under
  <2>3. N \in Under
    BY ONLY <1>1, <2>1, <2>2, UpTo
  <2> QED BY <2>3 DEF Under
<1>13. passed[N] \in SUBSET all
  BY <1>10
<1>14. ClosedIn(all, passed[N], read)
  BY <1>11, <1>13, PassAdds DEF all
<1> QED BY <1>3, <1>12, <1>13, <1>14 DEF all

\* Two files that may be known together.
Apart(f, g) == RequestIds(f) \cap RequestIds(g) = {} /\ Keys(f) \cap Keys(g) = {}

WellMade(f) == IsSequence(f.requests) /\ IsSequence(f.derived)
OnDisk == UNION {Elements(t) : t \in Trees}

\* What is known was loaded and has nothing in common; what a connection polls is
\* what its files resolve to.
CatalogueInv ==
  /\ tree \in Seq(OnDisk)
  /\ known \in Seq(OnDisk)
  /\ \A f \in Elements(known) : WellMade(f) /\ Unique(f)
  /\ \A f, g \in Elements(known) : f # g => Apart(f, g)
  /\ stance = "polling" => profile = Resolution
  /\ ShownIsGrounded

\* What may be on disk, file by file.
LEMMA WellMadeOnDisk ==
  /\ \A f \in OnDisk : WellMade(f)
  /\ \A t \in Trees : t \in Seq(OnDisk)
<1>1. \A f \in OnDisk : WellMade(f)
  BY CatalogueAssumption DEF OnDisk, WellMade
<1>2. ASSUME NEW t \in Trees PROVE t \in Seq(OnDisk)
  <2>1. t \in Seq(Elements(t)) /\ Elements(t) \subseteq OnDisk
    BY CatalogueAssumption DEF IsSequence, OnDisk
  <2> QED BY <2>1, LenProperties, ElementOfSeq, SeqDef
<1> QED BY <1>1, <1>2

\* The channels and requests of a profile, and the files they are from.
LEMMA FromAFile ==
  ASSUME CatalogueInv, stance = "polling"
  PROVE  /\ \A f \in Elements(known) : Kept(f, Read(f)) \subseteq Elements(f.derived)
         /\ \A d \in profile.derived : \E f \in Elements(known) :
              /\ f.family = Family /\ f.match \subseteq able
              /\ d \in Kept(f, Read(f)) /\ d \in Elements(f.derived)
              /\ d.key \in Keys(f)
         /\ \A r \in profile.requests : \E f \in Elements(known) :
              /\ f.family = Family /\ f.match \subseteq able
              /\ r \in Usable(f) /\ r \in Elements(f.requests)
              /\ r.signals \subseteq Signals(f) /\ r.signals \subseteq Keys(f)
              /\ r.id \in RequestIds(f)
<1>1. \A f \in Elements(known) : Kept(f, Read(f)) \subseteq Elements(f.derived)
  BY KeptIsLeast DEF CatalogueInv, WellMade
<1>2. /\ profile.derived = UNION {Resolved(f).derived : f \in Elements(known)}
      /\ profile.requests = UNION {Resolved(f).requests : f \in Elements(known)}
  BY DEF CatalogueInv, Resolution
<1>3. ASSUME NEW f \in Elements(known)
      PROVE  /\ \A d \in Resolved(f).derived :
                  f.family = Family /\ f.match \subseteq able /\ d \in Kept(f, Read(f))
             /\ \A r \in Resolved(f).requests :
                  f.family = Family /\ f.match \subseteq able /\ r \in Usable(f)
  BY DEF Resolved
<1>4. ASSUME NEW d \in profile.derived
      PROVE  \E f \in Elements(known) :
               /\ f.family = Family /\ f.match \subseteq able
               /\ d \in Kept(f, Read(f)) /\ d \in Elements(f.derived)
               /\ d.key \in Keys(f)
  <2>1. PICK f \in Elements(known) : d \in Resolved(f).derived
    BY <1>2
  <2>2. f.family = Family /\ f.match \subseteq able /\ d \in Kept(f, Read(f))
    BY <1>3, <2>1
  <2>3. d \in Elements(f.derived)
    BY <1>1, <2>2
  <2>4. d.key \in Keys(f)
    BY <2>3 DEF Keys
  <2> QED BY <2>2, <2>3, <2>4
<1>5. ASSUME NEW r \in profile.requests
      PROVE  \E f \in Elements(known) :
              /\ f.family = Family /\ f.match \subseteq able
              /\ r \in Usable(f) /\ r \in Elements(f.requests)
              /\ r.signals \subseteq Signals(f) /\ r.signals \subseteq Keys(f)
              /\ r.id \in RequestIds(f)
  <2>1. PICK f \in Elements(known) : r \in Resolved(f).requests
    BY <1>2
  <2>2. f.family = Family /\ f.match \subseteq able /\ r \in Usable(f)
    BY <1>3, <2>1
  <2>3. r \in Elements(f.requests)
    BY <2>2 DEF Usable
  <2>4. r.signals \subseteq Signals(f) /\ r.id \in RequestIds(f)
    BY <2>3 DEF Signals, RequestIds
  <2> QED BY <2>2, <2>3, <2>4 DEF Keys
<1> QED BY <1>1, <1>4, <1>5

\* No two channels of a profile have one key, and none has a signal's.
LEMMA KeysAreOnes ==
  ASSUME CatalogueInv, stance = "polling"
  PROVE  /\ \A d, x \in profile.derived : d.key = x.key => d = x
         /\ \A d \in profile.derived, r \in profile.requests : d.key \notin r.signals
<1>1. ASSUME NEW d \in profile.derived, NEW x \in profile.derived, d.key = x.key
      PROVE  d = x
  <2>1. PICK f \in Elements(known) : d \in Elements(f.derived) /\ d.key \in Keys(f)
    BY FromAFile
  <2>2. PICK g \in Elements(known) : x \in Elements(g.derived) /\ x.key \in Keys(g)
    BY FromAFile
  <2>3. f = g
    BY <1>1, <2>1, <2>2 DEF CatalogueInv, Apart
  <2>4. PICK i \in DOMAIN f.derived : f.derived[i] = d
    BY <2>1 DEF Elements
  <2>5. PICK j \in DOMAIN f.derived : f.derived[j] = x
    BY <2>2, <2>3 DEF Elements
  <2> QED BY <1>1, <2>4, <2>5 DEF CatalogueInv, Unique
<1>2. ASSUME NEW d \in profile.derived, NEW r \in profile.requests PROVE d.key \notin r.signals
  <2>1. PICK f \in Elements(known) : d \in Elements(f.derived) /\ d.key \in Keys(f)
    BY FromAFile
  <2>2. PICK g \in Elements(known) : r.signals \subseteq Signals(g) /\ r.signals \subseteq Keys(g)
    BY FromAFile
  <2>3. f # g => d.key \notin r.signals
    BY <2>1, <2>2 DEF CatalogueInv, Apart
  <2>4. d.key \notin Signals(f)
    BY <2>1 DEF CatalogueInv, Unique, Elements
  <2> QED BY <2>2, <2>3, <2>4
<1> QED BY <1>1, <1>2

\* A file is added only when it is apart from all that are known.
LEMMA FilesKnown == ASSUME CatalogueInv, LoadFile PROVE CatalogueInv'
<1> DEFINE f == Head(tree)
<1>1. /\ tree \in Seq(OnDisk) /\ tree # <<>> /\ f \in OnDisk /\ Tail(tree) \in Seq(OnDisk)
  BY HeadTailProperties DEF CatalogueInv, LoadFile
<1>2. /\ tree' = Tail(tree) /\ stance' # "polling"
      /\ \/ known' = known
         \/ known' = Append(known, f) /\ Loads(f) /\ ~Collides(f)
  BY <1>1 DEF LoadFile
<1>3. CASE known' = known
  BY <1>1, <1>2, <1>3 DEF CatalogueInv, ShownIsGrounded
<1>4. CASE known' = Append(known, f) /\ Loads(f) /\ ~Collides(f)
  <2> HIDE DEF f
  <2>1. known \in Seq(OnDisk) /\ known' \in Seq(OnDisk)
    BY <1>1, <1>4, AppendProperties DEF CatalogueInv
  <2>2. Elements(known') = Elements(known) \cup {f}
    <3>1. DOMAIN known = 1 .. Len(known) /\ Len(known) \in Nat
      BY <2>1, LenProperties
    <3>2. /\ DOMAIN known' = 1 .. Len(known) + 1
          /\ \A i \in 1 .. Len(known) : known'[i] = known[i]
          /\ known'[Len(known) + 1] = f
      BY <1>1, <1>4, <2>1, <3>1, AppendProperties, LenProperties
    <3>3. \A i \in 1 .. Len(known) + 1 : i \in 1 .. Len(known) \/ i = Len(known) + 1
      BY <3>1
    <3>4. 1 .. Len(known) \subseteq 1 .. Len(known) + 1 /\ Len(known) + 1 \in 1 .. Len(known) + 1
      BY <3>1
    <3> HIDE DEF f
    <3> QED BY ONLY <3>1, <3>2, <3>3, <3>4 DEF Elements
  <2>3. WellMade(f) /\ Unique(f)
    BY <1>1, <1>4, WellMadeOnDisk DEF Loads
  <2>4. \A g \in Elements(known) : Apart(f, g) /\ Apart(g, f)
    BY <1>4 DEF Collides, Apart
  <2>5. \A g \in Elements(known') : WellMade(g) /\ Unique(g)
    BY <2>2, <2>3 DEF CatalogueInv
  <2>6. \A g, h \in Elements(known') : g # h => Apart(g, h)
    BY <2>2, <2>4 DEF CatalogueInv
  <2> QED BY <1>1, <1>2, <2>1, <2>5, <2>6 DEF CatalogueInv, ShownIsGrounded, f
<1> QED BY <1>2, <1>3, <1>4

\* Nothing has a value right after a connection.
LEMMA ResolveStep == ASSUME CatalogueInv, Resolve PROVE CatalogueInv'
<1>1. /\ UNCHANGED <<tree, known, able>> /\ profile' = Resolution /\ shown' = {}
  BY DEF Resolve
<1>2. Resolution' = Resolution
  BY <1>1 DEF Resolution, Resolved, Usable, Read, Kept, Pass, TakeReady, Needed, Passes
<1>3. ShownIsGrounded'
  BY <1>1 DEF ShownIsGrounded
<1> QED BY <1>1, <1>2, <1>3 DEF CatalogueInv

LEMMA ReconnectStep == ASSUME CatalogueInv, Reconnect PROVE CatalogueInv'
BY DEF CatalogueInv, Reconnect, ShownIsGrounded

\* A profile has as many channels as its files list, at most.
LEMMA FinitelyMany == ASSUME CatalogueInv, stance = "polling" PROVE IsFiniteSet(profile.derived)
<1> DEFINE Lists == {Elements(f.derived) : f \in Elements(known)}
<1>1. Len(known) \in Nat /\ known \in [1 .. Len(known) -> Elements(known)]
  <2>1. known \in Seq(OnDisk)
    BY DEF CatalogueInv
  <2> QED BY <2>1, LenProperties DEF Elements
<1>2. IsFiniteSet(1 .. Len(known))
  BY <1>1, FS_Interval
<1> DEFINE list == [i \in 1 .. Len(known) |-> Elements(known[i].derived)]
<1>3. list \in Surjection(1 .. Len(known), Lists)
  <2>1. list \in [1 .. Len(known) -> Lists]
    BY <1>1
  <2>2. ASSUME NEW T \in Lists PROVE \E i \in 1 .. Len(known) : list[i] = T
    <3>1. PICK f \in Elements(known) : T = Elements(f.derived)
      OBVIOUS
    <3>2. PICK i \in 1 .. Len(known) : known[i] = f
      BY <1>1 DEF Elements
    <3>3. list[i] = T
      BY <3>1, <3>2
    <3> QED BY <3>3
  <2> HIDE DEF list, Lists
  <2> QED BY <2>1, <2>2 DEF Surjection
<1> HIDE DEF Lists, list
<1>4. IsFiniteSet(Lists)
  BY <1>2, <1>3, FS_Surjection
<1>5. \A T \in Lists : IsFiniteSet(T)
  BY ElementsOf DEF Lists, CatalogueInv, WellMade
<1>6. IsFiniteSet(UNION Lists)
  BY ONLY <1>4, <1>5, FS_UNION
<1>7. profile.derived \in SUBSET (UNION Lists)
  BY FromAFile DEF Lists
<1> QED BY ONLY <1>6, <1>7, FS_Subset

\* Nothing goes on standing on what the rounds took.
LEMMA CascadeIsClosed ==
  ASSUME IsFiniteSet(profile.derived), NEW gone
  PROVE  LET lost == Cascade(gone) IN
         \A d \in profile.derived : d.needs \cap lost # {} => d.key \in lost
<1> DEFINE T == profile.derived
           N == Cardinality(T)
           X == SUBSET (gone \cup {d.key : d \in T})
           step == [n \in 1 .. N |-> [g \in X |-> OneRound(g)]]
           Scan(g) == g = [n \in 0 .. N |-> IF n = 0 THEN gone ELSE OneRound(g[n - 1])]
           lost == CHOOSE g : Scan(g)
<1>1. N \in Nat
  BY FS_CardinalityType
<1>2. gone \in X /\ \A g \in X : OneRound(g) \in X
  BY DEF OneRound
<1>3. Cascade(gone) = lost[N]
  BY DEF Cascade
<1>4. \A g : OneRound(g) = g \cup {d.key : d \in {x \in T : x.needs \cap g # {}}}
  BY DEF OneRound
<1> HIDE DEF T, N, X
<1>5. \E g : Scan(g)
  <2>1. step \in [1 .. N -> [X -> X]]
    BY <1>2
  <2>2. \A g \in X : \A n \in 1 .. N : step[n][g] = OneRound(g)
    OBVIOUS
  <2> HIDE DEF step
  <2>4. PICK g : Scanned(g, X, N, gone, step)
    BY <1>1, <1>2, <2>1, Recursion
  <2>5. ASSUME NEW n \in 0 .. N
        PROVE  g[n] = IF n = 0 THEN gone ELSE OneRound(g[n - 1])
    <3>1. n # 0 => n \in 1 .. N /\ n - 1 \in 0 .. N
      BY <1>1
    <3>2. n # 0 => n \in 1 .. N /\ g[n - 1] \in X
      BY ONLY <3>1, <2>4 DEF Scanned
    <3>3. g[n] = IF n = 0 THEN gone ELSE step[n][g[n - 1]]
      BY <2>4, <3>1 DEF Scanned
    <3> QED BY <2>2, <3>2, <3>3
  <2>6. Scan(g)
    BY <2>4, <2>5 DEF Scanned
  <2> QED BY <2>6
<1>6. Scan(lost)
  BY <1>5
<1> HIDE DEF lost
<1>7. \A n \in 1 .. N : lost[n] = OneRound(lost[n - 1])
  BY <1>1, <1>6
<1> HIDE DEF Scan
<1> DEFINE more == [n \in 0 .. N + 1 |-> IF n = N + 1 THEN OneRound(lost[N]) ELSE lost[n]]
           Taken(g) == {d \in T : d.key \in g}
           s == [n \in 0 .. N + 1 |-> Taken(more[n])]
<1>8. /\ \A n \in 0 .. N : more[n] = lost[n]
      /\ more[N + 1] = OneRound(lost[N])
  BY <1>1
<1>9. \A n \in 1 .. N + 1 : more[n] = OneRound(more[n - 1])
  <2> SUFFICES ASSUME NEW n \in 1 .. N + 1 PROVE more[n] = OneRound(more[n - 1])
    OBVIOUS
  <2>1. n - 1 \in 0 .. N /\ (n = N + 1 \/ (n \in 1 .. N /\ n \in 0 .. N)) /\ (N + 1) - 1 = N
    BY <1>1
  <2> HIDE DEF more
  <2> QED BY <1>7, <1>8, <2>1
<1> HIDE DEF more
\* What one round adds are the keys of channels.
<1>10. \A g : \A k \in OneRound(g) \ g : \E d \in Taken(OneRound(g)) : d.key = k
  BY <1>4
<1>11. \A g : g \subseteq OneRound(g) /\ Taken(g) \subseteq Taken(OneRound(g))
  BY <1>4
<1>12. \A g : Taken(g) = Taken(OneRound(g)) => OneRound(g) = g
  BY <1>10, <1>11
<1>13. \A n \in 0 .. N + 1 : s[n] = Taken(more[n]) /\ s[n] \in SUBSET T
  OBVIOUS
<1> HIDE DEF s
<1>14. ASSUME NEW n \in 1 .. N + 1
       PROVE  s[n - 1] = Taken(more[n - 1]) /\ s[n] = Taken(OneRound(more[n - 1]))
  <2>1. n \in 0 .. N + 1 /\ n - 1 \in 0 .. N + 1
    BY <1>1
  <2> QED BY <1>9, <1>13, <2>1
<1> HIDE DEF Taken
<1>15. \A n \in 1 .. N + 1 : s[n - 1] \subseteq s[n]
  BY <1>11, <1>14
<1>16. ASSUME NEW n \in 1 .. N, s[n - 1] = s[n] PROVE s[n] = s[n + 1]
  <2>1. n \in 1 .. N + 1 /\ n + 1 \in 1 .. N + 1 /\ (n + 1) - 1 = n
    BY <1>1
  <2>2. more[n] = more[n - 1]
    BY <1>9, <1>12, <1>14, <1>16, <2>1
  <2>3. more[n + 1] = OneRound(more[n]) /\ more[n] = OneRound(more[n - 1])
    BY <1>9, <2>1
  <2> QED BY <1>14, <2>1, <2>2, <2>3
<1>17. s[N] = s[N + 1]
  <2>1. IsFiniteSet(T) /\ Cardinality(T) <= N
    BY <1>1 DEF T, N
  <2>2. \A n \in 0 .. N + 1 : s[n] \in SUBSET T
    BY <1>13
  <2>3. Growing(s, T, N)
    BY ONLY <2>2, <1>15, <1>16 DEF Growing
  <2> QED BY ONLY <1>1, <2>1, <2>3, Settles
<1>18. OneRound(lost[N]) = lost[N]
  <2>1. N + 1 \in 1 .. N + 1 /\ (N + 1) - 1 = N /\ N \in 0 .. N
    BY <1>1
  <2> QED BY <1>8, <1>12, <1>14, <1>17, <2>1
<1>19. ASSUME NEW d \in T, d.needs \cap lost[N] # {} PROVE d.key \in lost[N]
  BY <1>4, <1>18, <1>19
<1> QED BY <1>3, <1>19 DEF T

\* A value is carried over when its channel lost no input, or computed from what
\* there is; no other channel or signal has its key.
LEMMA CycleStep == ASSUME CatalogueInv, Cycle PROVE CatalogueInv'
<1> DEFINE polled == UNION {r.signals : r \in profile.requests}
<1>1. stance = "polling" /\ UNCHANGED <<tree, known, profile, stance, able>>
  BY DEF Cycle
<1>2. PICK fresh \in SUBSET polled : \E flagged \in SUBSET polled :
        LET view == (shown \cup fresh) \ Cascade(flagged) IN
          shown' = view \cup Computed(view, fresh)
  BY DEF Cycle
<1>3. PICK flagged \in SUBSET polled :
        LET view == (shown \cup fresh) \ Cascade(flagged) IN
          shown' = view \cup Computed(view, fresh)
  BY <1>2
<1> DEFINE lost == Cascade(flagged)
           view == (shown \cup fresh) \ lost
<1>4. \A d \in profile.derived : d.needs \cap lost # {} => d.key \in lost
  BY <1>1, FinitelyMany, CascadeIsClosed
<1> HIDE DEF lost
<1>5. ASSUME NEW d \in profile.derived, d.key \in shown' PROVE d.needs \subseteq shown'
  <2>1. CASE d.key \in view
    <3>1. d.key \notin fresh
      BY <1>1, KeysAreOnes
    <3>2. d.key \in shown /\ d.key \notin lost
      BY <2>1, <3>1
    <3>3. d.needs \subseteq shown
      BY <1>1, <3>2 DEF CatalogueInv, ShownIsGrounded
    <3>4. d.needs \cap lost = {}
      BY <1>4, <3>2
    <3> QED BY <1>3, <3>3, <3>4 DEF lost
  <2>2. CASE d.key \in Computed(view, fresh)
    <3>1. PICK x \in profile.derived : x.key = d.key /\ x.needs \subseteq view
      BY <2>2 DEF Computed
    <3>2. x = d
      BY <1>1, <3>1, KeysAreOnes
    <3> QED BY <1>3, <3>1, <3>2 DEF lost
  <2> QED BY <1>3, <1>5, <2>1, <2>2 DEF lost
<1>6. ShownIsGrounded'
  BY <1>1, <1>5 DEF ShownIsGrounded
<1>7. Resolution' = Resolution
  BY <1>1 DEF Resolution, Resolved, Usable, Read, Kept, Pass, TakeReady, Needed, Passes
<1> QED BY <1>1, <1>6, <1>7 DEF CatalogueInv

LEMMA CatalogueStep == CatalogueInv /\ [CatalogueNext]_catalogueVars => CatalogueInv'
<1> SUFFICES ASSUME CatalogueInv, [CatalogueNext]_catalogueVars PROVE CatalogueInv'
  OBVIOUS
<1>1. CASE UNCHANGED catalogueVars
  <2>1. Resolution' = Resolution
    BY <1>1 DEF catalogueVars, Resolution, Resolved, Usable, Read, Kept, Pass, TakeReady,
                Needed, Passes
  <2> QED BY <1>1, <2>1 DEF catalogueVars, CatalogueInv, ShownIsGrounded
<1> QED BY <1>1, FilesKnown, ResolveStep, ReconnectStep, CycleStep DEF CatalogueNext

LEMMA CatalogueInitInv == CatalogueInit => CatalogueInv
<1> SUFFICES ASSUME CatalogueInit PROVE CatalogueInv
  OBVIOUS
<1>1. /\ tree \in Trees /\ known = <<>> /\ stance = "loading" /\ shown = {}
  BY DEF CatalogueInit
<1>2. tree \in Seq(OnDisk) /\ known \in Seq(OnDisk) /\ Elements(known) = {}
  BY <1>1, WellMadeOnDisk, EmptySeq DEF Elements
<1> QED BY <1>1, <1>2 DEF CatalogueInv, ShownIsGrounded

\* No value stands on an input that has none: after every cycle the channels
\* computed from a flagged signal, however far down the chain, are gone
\* (live.py:3380-3418).
THEOREM ShownStandsOnInputs == CatalogueSpec => []ShownIsGrounded
<1>1. CatalogueInv => ShownIsGrounded
  BY DEF CatalogueInv
<1> QED BY <1>1, CatalogueInitInv, CatalogueStep, PTL DEF CatalogueSpec

\* What a profile has of a file is what the file resolves to.
LEMMA OwnAreKept ==
  ASSUME CatalogueInv, stance = "polling", NEW f \in Elements(known),
         f.family = Family /\ f.match \subseteq able
  PROVE  /\ profile.derived \cap Elements(f.derived) = Kept(f, Read(f))
         /\ profile.requests \cap Elements(f.requests) = Usable(f)
<1>1. Resolved(f).derived = Kept(f, Read(f)) /\ Resolved(f).requests = Usable(f)
  BY DEF Resolved
<1>2. Kept(f, Read(f)) \subseteq profile.derived /\ Usable(f) \subseteq profile.requests
  BY <1>1 DEF CatalogueInv, Resolution
<1>3. Kept(f, Read(f)) \subseteq Elements(f.derived) /\ Usable(f) \subseteq Elements(f.requests)
  BY FromAFile DEF Usable
<1>4. ASSUME NEW d \in profile.derived \cap Elements(f.derived) PROVE d \in Kept(f, Read(f))
  <2>1. PICK g \in Elements(known) : d \in Kept(g, Read(g)) /\ d.key \in Keys(g)
    BY FromAFile
  <2>2. d.key \in Keys(f)
    BY DEF Keys
  <2>3. f = g
    BY <2>1, <2>2 DEF CatalogueInv, Apart
  <2> QED BY <2>1, <2>3
<1>5. ASSUME NEW r \in profile.requests \cap Elements(f.requests) PROVE r \in Usable(f)
  <2>1. PICK g \in Elements(known) : r \in Usable(g) /\ r.id \in RequestIds(g)
    BY FromAFile
  <2>2. r.id \in RequestIds(f)
    BY DEF RequestIds
  <2>3. f = g
    BY <2>1, <2>2 DEF CatalogueInv, Apart
  <2> QED BY <2>1, <2>3
<1> QED BY <1>2, <1>3, <1>4, <1>5

\* What a file drops it drops of its own, and by name.
LEMMA DroppedByName ==
  ASSUME CatalogueInv, stance = "polling", NEW f \in Elements(known),
         f.family = Family /\ f.match \subseteq able
  PROVE  /\ \A r \in Elements(f.requests) :
              <<"request", r.id>> \in profile.dropped <=> r \notin Usable(f)
         /\ \A d \in Elements(f.derived) :
              <<"derived", d.key>> \in profile.dropped <=> d \notin Kept(f, Read(f))
<1>1. profile.dropped = UNION {Resolved(g).dropped : g \in Elements(known)}
  BY DEF CatalogueInv, Resolution
<1>2. ASSUME NEW g \in Elements(known)
      PROVE  /\ \A k : <<"request", k>> \in Resolved(g).dropped =>
                         \E r \in Elements(g.requests) \ Usable(g) : r.id = k
             /\ \A k : <<"derived", k>> \in Resolved(g).dropped =>
                         \E d \in Elements(g.derived) \ Kept(g, Read(g)) : d.key = k
  BY DEF Resolved
<1>3. /\ \A r \in Elements(f.requests) \ Usable(f) : <<"request", r.id>> \in Resolved(f).dropped
      /\ \A d \in Elements(f.derived) \ Kept(f, Read(f)) :
           <<"derived", d.key>> \in Resolved(f).dropped
  BY DEF Resolved
<1>4. ASSUME NEW r \in Elements(f.requests), <<"request", r.id>> \in profile.dropped
      PROVE  r \notin Usable(f)
  <2>1. PICK g \in Elements(known) : <<"request", r.id>> \in Resolved(g).dropped
    BY <1>1, <1>4
  <2>2. PICK q \in Elements(g.requests) \ Usable(g) : q.id = r.id
    BY <1>2, <2>1
  <2>3. r.id \in RequestIds(f) /\ r.id \in RequestIds(g)
    BY <2>2 DEF RequestIds
  <2>4. f = g
    BY <2>3 DEF CatalogueInv, Apart
  <2>5. q = r
    <3>1. PICK i \in DOMAIN f.requests : f.requests[i] = r
      BY DEF Elements
    <3>2. PICK j \in DOMAIN f.requests : f.requests[j] = q
      BY <2>2, <2>4 DEF Elements
    <3> QED BY <2>2, <3>1, <3>2 DEF CatalogueInv, Unique
  <2> QED BY <2>2, <2>4, <2>5
<1>5. ASSUME NEW d \in Elements(f.derived), <<"derived", d.key>> \in profile.dropped
      PROVE  d \notin Kept(f, Read(f))
  <2>1. PICK g \in Elements(known) : <<"derived", d.key>> \in Resolved(g).dropped
    BY <1>1, <1>5
  <2>2. PICK x \in Elements(g.derived) \ Kept(g, Read(g)) : x.key = d.key
    BY <1>2, <2>1
  <2>3. d.key \in Keys(f) /\ d.key \in Keys(g)
    BY <2>2 DEF Keys
  <2>4. f = g
    BY <2>3 DEF CatalogueInv, Apart
  <2>5. x = d
    <3>1. PICK i \in DOMAIN f.derived : f.derived[i] = d
      BY DEF Elements
    <3>2. PICK j \in DOMAIN f.derived : f.derived[j] = x
      BY <2>2, <2>4 DEF Elements
    <3> QED BY <2>2, <3>1, <3>2 DEF CatalogueInv, Unique
  <2> QED BY <2>2, <2>4, <2>5
<1>6. \A e \in Resolved(f).dropped : e \in profile.dropped
  BY <1>1
<1> QED BY <1>3, <1>4, <1>5, <1>6

\* A file that is not for this engine is dropped, of every other all is accounted.
LEMMA AllAccounted ==
  ASSUME CatalogueInv, stance = "polling", NEW f \in Elements(known)
  PROVE  \/ <<"mapping", f.id>> \in profile.dropped
         \/ /\ \A r \in Elements(f.requests) :
                 r \in profile.requests <=> <<"request", r.id>> \notin profile.dropped
            /\ \A d \in Elements(f.derived) :
                 d \in profile.derived <=> <<"derived", d.key>> \notin profile.dropped
<1>1. CASE f.family # Family \/ ~(f.match \subseteq able)
  <2>1. <<"mapping", f.id>> \in Resolved(f).dropped
    BY <1>1 DEF Resolved
  <2> QED BY <2>1 DEF CatalogueInv, Resolution
<1>2. CASE f.family = Family /\ f.match \subseteq able
  BY <1>2, OwnAreKept, DroppedByName
<1> QED BY <1>1, <1>2

LEMMA ResolutionIsLeast == CatalogueInv => ResolvedIsLeast
<1> SUFFICES ASSUME CatalogueInv, stance = "polling" PROVE ResolvedIsLeast
  BY DEF ResolvedIsLeast
<1>1. ASSUME NEW f \in Elements(known), f.family = Family /\ f.match \subseteq able
      PROVE  LET all == Elements(f.derived)
                 Closed(S) == \A d \in all :
                   d.needs \subseteq Read(f) \cup {s.key : s \in S} => d \in S
                 kept == profile.derived \cap all
             IN  /\ Closed(kept)
                 /\ \A S \in SUBSET all : Closed(S) => kept \subseteq S
  <2>1. profile.derived \cap Elements(f.derived) = Kept(f, Read(f))
    BY <1>1, OwnAreKept
  <2>2. IsSequence(f.derived)
    BY DEF CatalogueInv, WellMade
  <2>3. /\ ClosedIn(Elements(f.derived), Kept(f, Read(f)), Read(f))
        /\ \A S : ClosedIn(Elements(f.derived), S, Read(f)) => Kept(f, Read(f)) \subseteq S
    BY <2>2, KeptIsLeast
  <2> QED BY <2>1, <2>3 DEF ClosedIn, Ready
<1>2. ASSUME NEW f \in Elements(known)
      PROVE  \/ <<"mapping", f.id>> \in profile.dropped
             \/ /\ \A r \in Elements(f.requests) :
                     r \in profile.requests <=> <<"request", r.id>> \notin profile.dropped
                /\ \A d \in Elements(f.derived) :
                     d \in profile.derived <=> <<"derived", d.key>> \notin profile.dropped
  BY AllAccounted
<1> QED BY <1>1, <1>2 DEF ResolvedIsLeast

\* Of each file exactly the channels that can have a value are in the profile,
\* and whatever is not in it is reported as dropped (registry.py:531-657).
THEOREM ResolutionIsExact == CatalogueSpec => []ResolvedIsLeast
BY ResolutionIsLeast, CatalogueInitInv, CatalogueStep, PTL DEF CatalogueSpec

-----------------------------------------------------------------------------
(* Versions: while no file is moved and no version is taken back, a version  *)
(* names one content, for any number of files, contents and merges.          *)

FileTrees == [Paths -> FileTexts \cup {Gone}]

\* Everything the branch has had is at most the written it has now, and of its
\* content if it is of its version.
Below(written) ==
  \A t \in ledger : /\ t.version <= written.version
                    /\ t.version = written.version => t.content = written.content

VersionTypes ==
  /\ master.files \in FileTrees
  /\ pull # Gone => pull.files \in FileTrees
  /\ ledger \subseteq FileTexts
  /\ moved \in BOOLEAN /\ lowered \in BOOLEAN

\* The one file of the branch is above its history.
Grounded ==
  \/ moved
  \/ lowered
  \/ /\ \E p \in Paths : Present(master.files) = {p} /\ Below(master.files[p])
     /\ OneContentPerVersion

VersionsInv == VersionTypes /\ Grounded

-----------------------------------------------------------------------------
\* The first commit is one file at version 1, and its own history.
LEMMA VersionsInitInv == VersionsInit => VersionsInv
<1> SUFFICES ASSUME VersionsInit PROVE VersionsInv
  OBVIOUS
<1> USE VersionsAssumption
<1>1. PICK p \in Paths, written \in FileTexts :
        /\ master = [files |-> [q \in Paths |-> IF q = p THEN written ELSE Gone],
                     lock |-> BuildLock([q \in Paths |-> IF q = p THEN written ELSE Gone])]
        /\ ledger = {written}
  BY DEF VersionsInit
<1>2. master.files = [q \in Paths |-> IF q = p THEN written ELSE Gone]
  BY <1>1
<1>3. VersionTypes
  BY <1>1, <1>2 DEF VersionTypes, FileTrees, VersionsInit
<1>4. Present(master.files) = {p} /\ master.files[p] = written
  BY <1>2 DEF Present
<1>5. written.version \in Int
  BY DEF FileTexts
<1>6. Below(master.files[p]) /\ OneContentPerVersion
  BY <1>1, <1>4, <1>5 DEF Below, OneContentPerVersion
<1> QED
  BY <1>3, <1>4, <1>6 DEF VersionsInv, Grounded

\* A merge the guard lets through leaves the branch's one file above its
\* history: the same content at a version that is no lower, or another content
\* at a higher one.
LEMMA MergeGrounded ==
  ASSUME VersionTypes, Grounded, Merge
  PROVE  Grounded'
<1> USE VersionsAssumption
<1> SUFFICES ASSUME ~moved', ~lowered' PROVE Grounded'
  BY DEF Grounded
<1>1. ~moved /\ ~lowered /\ Present(pull.files) = Present(master.files)
  BY DEF Merge
<1>2. PICK p \in Paths : Present(master.files) = {p} /\ Below(master.files[p])
  BY <1>1 DEF Grounded
<1> DEFINE old == master.files[p]
           new == pull.files[p]
<1>3. old \in FileTexts /\ new \in FileTexts
  BY <1>1, <1>2 DEF Merge, VersionTypes, FileTrees, Present
<1>4. old.version \in Int /\ new.version \in Int
  BY <1>3 DEF FileTexts
<1>5. new.version >= old.version
  <2>1. ~(new.version < old.version)
    BY <1>1, <1>2 DEF Merge
  <2> QED
    BY <2>1, <1>4
<1>6. new.content = old.content \/ new.version > old.version
  <2>1. p \notin Problems(master.files, pull.files)
    BY DEF Merge
  <2>2. Content(new) = Content(old) \/ ~TooLow(old, new)
    BY <2>1, <1>1, <1>2 DEF Problems
  <2> QED
    BY <2>2, <1>4 DEF Content, TooLow
<1>7. ledger' = ledger \cup {new} /\ master'.files = pull.files
  BY <1>1, <1>2 DEF Merge
<1>8. \A t \in ledger : t.version \in Int
  BY DEF VersionTypes, FileTexts
<1>9. \A t \in ledger : /\ t.version <= new.version
                        /\ t.version = new.version => t.content = new.content
  BY <1>2, <1>4, <1>5, <1>6, <1>8 DEF Below
<1>10. Present(master'.files) = {p}
  BY <1>1, <1>2, <1>7
<1>11. \A t \in ledger' : /\ t.version <= new.version
                          /\ t.version = new.version => t.content = new.content
  BY <1>4, <1>7, <1>9
<1>12. OneContentPerVersion
  BY <1>1 DEF Grounded
<1>13. OneContentPerVersion'
  BY <1>7, <1>9, <1>12 DEF OneContentPerVersion
<1> QED
  BY <1>7, <1>10, <1>11, <1>13 DEF Grounded, Below, Present

\* Of the three steps only a merge touches the branch.
LEMMA StepGrounded == VersionsInv /\ [VersionsNext]_versionVars => VersionsInv'
<1> SUFFICES ASSUME VersionsInv, [VersionsNext]_versionVars PROVE VersionsInv'
  OBVIOUS
<1> USE DEF VersionsInv
<1>1. CASE Propose
  <2>1. PICK files \in FileTrees : \E lock \in {master.lock, BuildLock(files)} :
          pull' = [files |-> files, lock |-> lock]
    BY <1>1 DEF Propose, FileTrees
  <2>2. pull'.files \in FileTrees
    BY <2>1
  <2> QED
    BY <1>1, <2>2 DEF Propose, VersionTypes, Grounded, Below, OneContentPerVersion, Present
<1>2. CASE Merge
  <2>1. master'.files = pull.files /\ pull.files \in FileTrees /\ pull' = Gone
    BY <1>2 DEF Merge, VersionTypes
  <2>2. \A p \in Present(pull.files) : pull.files[p] \in FileTexts
    BY <2>1 DEF FileTrees, Present
  <2>3. ledger' \subseteq FileTexts
    BY <1>2, <2>2 DEF Merge, VersionTypes
  <2>4. moved' \in BOOLEAN /\ lowered' \in BOOLEAN
    BY <1>2 DEF Merge, VersionTypes
  <2> QED
    BY <1>2, <2>1, <2>3, <2>4, MergeGrounded DEF VersionTypes
<1>3. CASE Reject
  BY <1>3 DEF Reject, VersionTypes, Grounded, Below, OneContentPerVersion, Present
<1>4. CASE UNCHANGED versionVars
  BY <1>4 DEF versionVars, VersionTypes, Grounded, Below, OneContentPerVersion, Present
<1> QED
  BY <1>1, <1>2, <1>3, <1>4 DEF VersionsNext

\* While files stay where they are and nobody takes a version back, no version
\* ever names two contents (check_mapping_versions.py:142-193).
THEOREM VersionNamesContent == VersionsSpec => []GuardSuffices
<1>1. VersionsInv => GuardSuffices
  BY DEF VersionsInv, Grounded, GuardSuffices
<1> QED
  BY VersionsInitInv, StepGrounded, <1>1, PTL DEF VersionsSpec
=============================================================================
