------------------------------ MODULE Decoding ------------------------------
(***************************************************************************)
(* One request of a mapping file from the text to a reading: what          *)
(* mapping/loader.py accepts, the bytes protocol/request.py puts on the    *)
(* wire, the gate of protocol/safety.py, the answer protocol/correlate.py  *)
(* lets through, and what mapping/decoder.py makes of it.                  *)
(*                                                                         *)
(* The request has one signal.  The text is already parsed (yamlsubset)    *)
(* and its values have their type; names, display, provenance and the      *)
(* lookup table are left out.  A byte is a number below 256.               *)
(***************************************************************************)
EXTENDS Integers, Sequences, FiniteSets, SequencesExt

CONSTANTS
  Texts,    \* requests that may be written
  Tails,    \* what may follow the head of an answer
  Absent    \* a field that is not written; Python's None

VARIABLES
  text,     \* the request, as written
  stage,    \* "written", "refused", "loaded", "blocked", "sent", "decoded"
  outcome   \* of the decoding

decodeVars == <<text, stage, outcome>>

Written(x) == x # Absent

Optional(S) == {Absent} \cup S

\* A signal and a request as they are written, of the types the loader reads.
DecoderTexts ==
  [type : STRING, offset : Int, length : Optional(Int), bit : Optional(Int),
   mask : Optional(Int), shift : Optional(Int), enum : BOOLEAN, invalid : SUBSET Int,
   saturated : SUBSET Int, validMax : Optional(Int), scale : Int, add : Int]
RequestTexts ==
  [protocol : {"obd", "uds", "raw"}, service : Optional(Int), pid : Optional(Int),
   did : Optional(Int), payload : Optional(Seq(Int)), prefix : Optional(Seq(Int)),
   payloadOffset : Optional(Int), dataLength : Optional(Int), minLength : Int,
   decode : DecoderTexts]

ASSUME DecodingAssumption ==
  Absent \notin Int /\ Texts \subseteq RequestTexts /\ Tails \subseteq Seq(Int)

-----------------------------------------------------------------------------
(* decoder.py *)

Variable == {"bytes", "ascii"}
Bits == {"bit", "bitfield"}
Fixed == [uint8 |-> 1, int8 |-> 1, uint16_be |-> 2, int16_be |-> 2,
          uint32_be |-> 4, float32_be |-> 4]
Primitives == DOMAIN Fixed \cup Variable \cup Bits

\* primitive_width; Absent where it raises.
Width(d) ==
  IF d.type \in DOMAIN Fixed THEN Fixed[d.type]
  ELSE IF Written(d.length) THEN d.length
  ELSE IF d.type \in Bits THEN 1 ELSE Absent

Unsigned(bytes) == FoldLeft(LAMBDA acc, b : acc * 256 + b, 0, bytes)

Signed(bytes) ==
  LET n == Unsigned(bytes) IN
  IF bytes[1] >= 128 THEN n - 256 ^ Len(bytes) ELSE n

BitOf(n, i) == (n \div 2 ^ i) % 2

\* whole & mask
Masked(d, whole) ==
  MapThenSumSet(LAMBDA i : 2 ^ i,
    {i \in 0 .. Width(d) * 8 - 1 : BitOf(whole, i) = 1 /\ BitOf(d.mask, i) = 1})

\* As many as there are powers of two that divide the mask.
TrailingZeros(d) == Cardinality({n \in 1 .. Width(d) * 8 : d.mask % 2 ^ n = 0})

Integral(d) == d.type \notin Variable \cup {"float32_be"}

Shift(d) == IF Written(d.shift) THEN d.shift ELSE TrailingZeros(d)

\* _read_primitive, of the primitives that are integers.
ReadPrimitive(d, window) ==
  CASE d.type = "bit" ->
         BitOf(Unsigned(window), IF Written(d.bit) THEN d.bit ELSE 0)
    [] d.type = "bitfield" /\ Written(d.mask) ->
         Masked(d, Unsigned(window)) \div 2 ^ Shift(d)
    [] d.type \in {"int8", "int16_be"} -> Signed(window)
    [] OTHER -> Unsigned(window)

\* What Python raises on: a negative shift count, an enum of no integer.
Raises(d) ==
  \/ d.type = "bitfield" /\ Written(d.mask) /\ Shift(d) < 0
  \/ d.enum /\ ~Integral(d)

\* The raw patterns first, in the raw domain; the range of the value only if
\* nothing more specific is known.
Quality(d, raw) ==
  IF raw \in d.invalid THEN "sentinel"
  ELSE IF raw \in d.saturated THEN "saturated"
  ELSE IF ~d.enum /\ Written(d.validMax) /\ raw * d.scale + d.add > d.validMax
    THEN "clipped"
  ELSE "ok"

Outcome(result, value, quality) ==
  [result |-> result, value |-> value, quality |-> quality]
Mismatch == Outcome("mismatch", Absent, Absent)
Error == Outcome("error", Absent, Absent)

\* read_value; of a float, text or bytes the value is left out.
ReadValue(d, payload) ==
  LET end == d.offset + Width(d)
      raw == ReadPrimitive(d, SubSeq(payload, d.offset + 1, end))
  IN  IF end > Len(payload) THEN Mismatch
      ELSE IF Raises(d) THEN Error
      ELSE IF ~Integral(d) THEN Outcome("reading", Absent, "ok")
      ELSE Outcome("reading", IF d.enum THEN raw ELSE raw * d.scale + d.add,
                   Quality(d, raw))

-----------------------------------------------------------------------------
(* loader.py *)

\* _decode
DecodeOk(d) ==
  /\ d.type \in Primitives
  /\ d.offset >= 0
  /\ Written(d.length) => d.length > 0
  /\ Written(d.mask) => d.mask > 0
  /\ Written(Width(d))
  /\ d.type = "bit" /\ Written(d.bit) => d.bit \in 0 .. Width(d) * 8 - 1
  /\ d.type = "bitfield" /\ Written(d.mask) => d.mask < 2 ^ (Width(d) * 8)

\* _request: what a field that is not written means.
Service(r) ==
  IF Written(r.service) THEN r.service
  ELSE IF r.protocol = "obd" THEN 1 ELSE Absent

\* _response_spec
Prefix(r) ==
  IF Written(r.prefix) THEN r.prefix
  ELSE IF ~Written(Service(r)) THEN <<>>
  ELSE LET sid == (Service(r) + 64) % 256 IN
       IF r.protocol = "obd" /\ Written(r.pid) THEN <<sid, r.pid>>
       ELSE IF r.protocol = "uds" /\ Written(r.did)
         THEN <<sid, r.did \div 256, r.did % 256>>
       ELSE <<sid>>

PayloadOffset(r) ==
  IF Written(r.payloadOffset) THEN r.payloadOffset ELSE Len(Prefix(r))

ResponseOk(r) ==
  /\ PayloadOffset(r) >= 0
  /\ Written(r.dataLength) => r.dataLength > 0
  /\ r.minLength >= 0

\* A request names what it asks for in the way of its protocol, and nothing
\* that would not be sent.
IdentifierOk(r) ==
  /\ Written(r.payload) \/ Written(Service(r))
  /\ r.protocol = "obd" => (Written(r.pid) \/ Written(r.payload)) /\ ~Written(r.did)
  /\ r.protocol = "uds" => (Written(r.did) \/ Written(r.payload)) /\ ~Written(r.pid)
  /\ r.protocol = "raw" => ~Written(r.did)
  /\ Written(r.payload) => r.payload # <<>>

\* Mutation: the width of the signal is forgotten.
WindowByOffset(r) ==
  Written(r.dataLength) => r.decode.offset <= r.dataLength

\* The signal lies in the window the answer is declared to have.
WindowOk(r) ==
  Written(r.dataLength) => r.decode.offset + Width(r.decode) <= r.dataLength

RequestOk(r) ==
  IdentifierOk(r) /\ ResponseOk(r) /\ DecodeOk(r.decode) /\ WindowOk(r)

-----------------------------------------------------------------------------
(* request.py, safety.py, correlate.py *)

\* build_payload
Payload(r) ==
  IF Written(r.payload) THEN r.payload
  ELSE CASE r.protocol = "obd" -> <<Service(r) % 256, r.pid % 256>>
         [] r.protocol = "uds" ->
              <<Service(r) % 256, (r.did \div 256) % 256, r.did % 256>>
         [] r.protocol = "raw" ->
              <<Service(r) % 256>> \o (IF Written(r.pid) THEN <<r.pid % 256>> ELSE <<>>)

\* build_request: the length the declared window implies.
MinLength(r) ==
  LET total == IF Written(r.dataLength) THEN PayloadOffset(r) + r.dataLength ELSE 0
  IN  IF r.minLength > total THEN r.minLength ELSE total

ObservationalServices == {1, 9, 34, 25, 62}
DefineSubfunctions == {1, 2, 3, 16}

\* assert_observational
Observational(p) ==
  \/ p[1] = 44 /\ Len(p) >= 2 /\ p[2] \in DefineSubfunctions
  \/ p[1] \in ObservationalServices

\* How many bytes of a request its answer echoes, and the services that take
\* a list of identifiers of that width.
EchoLength(service) ==
  CASE service \in {1, 9, 25, 62, 16, 33, 26} -> 1
    [] service = 34 -> 2
    [] service = 44 -> 3
    [] OTHER -> 0
ListServices == {1, 9, 34}

\* expected_response: the heads an answer to payload p may have.
Structural(p) ==
  LET sid  == (p[1] + 64) % 256
      n    == EchoLength(p[1])
      body == Tail(p)
      echo == IF p[1] \in ListServices
                THEN {SubSeq(body, i * n + 1, i * n + n) : i \in 0 .. Len(body) \div n - 1}
              ELSE {SubSeq(body, 1, IF n < Len(body) THEN n ELSE Len(body))}
  IN  IF echo = {} THEN {<<sid>>} ELSE {<<sid>> \o e : e \in echo}

\* declared_response: a declared prefix and nothing more; without one the
\* structure of the request.
Expected(r) ==
  IF Prefix(r) # <<>> THEN {Prefix(r)} ELSE Structural(Payload(r))

\* matches_positive: the transport's rule for an answer.
IsAnswer(r, response) ==
  /\ \E head \in Expected(r) : IsPrefix(head, response)
  /\ Len(response) >= MinLength(r)

\* match_prefix, read_response
Decoded(r, response) ==
  LET from == PayloadOffset(r)
      to   == IF Written(r.dataLength) THEN from + r.dataLength ELSE Len(response)
  IN  IF ~IsPrefix(Prefix(r), response) \/ Len(response) < MinLength(r)
        THEN Mismatch
        ELSE ReadValue(r.decode,
               SubSeq(response, from + 1, IF to < Len(response) THEN to ELSE Len(response)))

-----------------------------------------------------------------------------
DecodeInit == text \in Texts /\ stage = "written" /\ outcome = Outcome(Absent, Absent, Absent)

LoadRequest ==
  /\ stage = "written"
  /\ stage' = IF RequestOk(text) THEN "loaded" ELSE "refused"
  /\ UNCHANGED <<text, outcome>>

\* Every payload passes the gate before it is sent; bytes() refuses what is
\* no byte.
SendRequest ==
  /\ stage = "loaded"
  /\ IF \E i \in 1 .. Len(Payload(text)) : Payload(text)[i] \notin 0 .. 255
       THEN stage' = "decoded" /\ outcome' = Error
       ELSE /\ stage' = IF Observational(Payload(text)) THEN "sent" ELSE "blocked"
            /\ UNCHANGED outcome
  /\ UNCHANGED text

TakeAnswer ==
  /\ stage = "sent"
  /\ \E head \in Expected(text), tail \in Tails :
       /\ IsAnswer(text, head \o tail)
       /\ outcome' = Decoded(text, head \o tail)
  /\ stage' = "decoded"
  /\ UNCHANGED text

DecodeNext == LoadRequest \/ SendRequest \/ TakeAnswer

DecodeSpec == DecodeInit /\ [][DecodeNext]_decodeVars

-----------------------------------------------------------------------------
(* Properties *)

\* What the loader lets through although it cannot be decoded or sent: a
\* negative shift, an enum over something that is no integer, a payload whose
\* hexadecimal spelling exceeds a byte (loader.py:668-672, 308-316).
KnownGaps(r) ==
  \/ Written(r.decode.shift) /\ r.decode.shift < 0
  \/ r.decode.enum /\ r.decode.type \in Variable \cup {"float32_be"}
  \/ Written(r.payload) /\ \E i \in 1 .. Len(r.payload) : r.payload[i] \notin 0 .. 255

\* A request that loaded, and declares how long its answer is, decodes every
\* answer the transport takes for its own: the transport's length, the window
\* and the offsets agree (loader.py:1-8, 1120-1135, decoder.py:349-356).
LoadedDecodes ==
  stage = "decoded" /\ Written(text.dataLength) /\ ~KnownGaps(text)
    => outcome.result = "reading"

\* loader.py:4-8, 735: "Everything a mapping file can get wrong is caught
\* here"; an unusable decoder is rejected at load time, not mid-drive.
LoadedIsUsable == stage = "decoded" => outcome.result # "error"
=============================================================================
