------------------------------ MODULE TsnConfig ------------------------------
(***************************************************************************)
(* The configuration of TSN streams (dds::tsn): its JSON text is read, its *)
(* fields are checked, a topic's stream is looked up for a writer, and a   *)
(* TAPRIO gate schedule is derived from it.                                *)
(*                                                                         *)
(* A JSON text is a sequence of tokens: punctuation, the literals, names   *)
(* that stand for strings, and decimal numbers.  A value is a record with  *)
(* its kind.  Durations are in units of which Thousand make an interval_us.*)
(***************************************************************************)
EXTENDS Integers, Sequences, SequencesExt

CONSTANTS
  Names,       \* strings, among them the field names and EmptyString
  EmptyString,
  Numbers,     \* the numbers a text may have
  ByteSize,    \* values of uint8_t
  WordSize,    \* values of uint16_t
  MaxPcp, MaxDscp,   \* 7, 63
  Overhead,    \* kRtpsHeaderOverhead
  MaxInterval, \* kMaxEntryIntervalNs
  Thousand

Literals == {"true", "false", "null"}

-----------------------------------------------------------------------------
(* JsonParser. What is read is [next, value]; next is 0 when it is not     *)
(* there.                                                                  *)

At(s, i) == IF i \in 1 .. Len(s) THEN s[i] ELSE "end"
Read(next, value) == [next |-> next, value |-> value]
Nothing == Read(0, [kind |-> "null"])
NumberIn(token) == {n \in Numbers : token = ToString(n)}

RECURSIVE ParseValue(_, _), ParseMembers(_, _, _), ParseElements(_, _, _)
ParseValue(s, i) ==
  LET c == At(s, i) IN
  CASE c = "{" -> IF At(s, i + 1) = "}" THEN Read(i + 2, [kind |-> "object", members |-> <<>>])
                  ELSE ParseMembers(s, i + 1, <<>>)
    [] c = "[" -> IF At(s, i + 1) = "]" THEN Read(i + 2, [kind |-> "array", elements |-> <<>>])
                  ELSE ParseElements(s, i + 1, <<>>)
    [] c \in Names -> Read(i + 1, [kind |-> "string", string |-> c])
    [] c \in Literals -> Read(i + 1, [kind |-> "literal", literal |-> c])
    [] NumberIn(c) # {} -> Read(i + 1, [kind |-> "number", number |-> CHOOSE n \in NumberIn(c) : TRUE])
    [] OTHER -> Nothing

ParseMembers(s, i, members) ==
  LET r == IF At(s, i) \in Names /\ At(s, i + 1) = ":" THEN ParseValue(s, i + 2) ELSE Nothing
      now == Append(members, [key |-> s[i], value |-> r.value]) IN
  CASE r.next = 0 -> Nothing
    [] At(s, r.next) = "," -> ParseMembers(s, r.next + 1, now)
    [] At(s, r.next) = "}" -> Read(r.next + 1, [kind |-> "object", members |-> now])
    [] OTHER -> Nothing

ParseElements(s, i, elements) ==
  LET r == ParseValue(s, i) IN
  CASE r.next = 0 -> Nothing
    [] At(s, r.next) = "," -> ParseElements(s, r.next + 1, Append(elements, r.value))
    [] At(s, r.next) = "]" -> Read(r.next + 1, [kind |-> "array", elements |-> Append(elements, r.value)])
    [] OTHER -> Nothing

(* parse(): nothing may follow the value. *)
Parse(s) == LET r == ParseValue(s, 1) IN IF r.next = Len(s) + 1 THEN {r.value} ELSE {}

(* object_field, field_string, field_int: the first member of the name, or *)
(* a default when it is missing or of another kind.                        *)
Field(object, key) ==
  LET at == SelectInSeq(object.members, LAMBDA m : m.key = key) IN
  IF at = 0 THEN [kind |-> "null"] ELSE object.members[at].value
FieldString(object, key) ==
  IF Field(object, key).kind = "string" THEN Field(object, key).string ELSE EmptyString
FieldInt(object, key) ==
  IF Field(object, key).kind = "number" THEN Field(object, key).number ELSE 0

-----------------------------------------------------------------------------
(* parse_config and to_json *)

(* The order in which to_json() writes the fields of a stream. *)
StringFields == {"topic", "talker_id"}
FieldOrder == <<"topic", "vid", "pcp", "dscp", "max_frame_size", "max_interval_frames",
                "interval_us", "tx_offset_us", "talker_id">>

(* Each number is cast to the width of its field as it is read. *)
Cast(key, n) ==
  CASE key \in {"pcp", "dscp"} -> n % ByteSize
    [] key = "vid" -> n % WordSize
    [] OTHER -> n

StreamOf(object) ==
  [key \in {FieldOrder[i] : i \in DOMAIN FieldOrder} |->
     IF key \in StringFields THEN FieldString(object, key) ELSE Cast(key, FieldInt(object, key))]

Validate(streams) ==
  \A i \in DOMAIN streams :
    LET s == streams[i] IN
    /\ s.topic # EmptyString
    /\ s.pcp <= MaxPcp /\ s.dscp <= MaxDscp
    /\ \A key \in {"max_frame_size", "max_interval_frames", "interval_us", "tx_offset_us"} : s[key] >= 0

ParseConfig(text) ==
  LET field(root) == Field(root, "streams")
      streams(root) == IF field(root).kind = "null" THEN <<>>
                       ELSE [i \in DOMAIN field(root).elements |-> StreamOf(field(root).elements[i])] IN
  UNION {IF /\ root.kind = "object"
            /\ Contains([i \in DOMAIN root.members |-> root.members[i].key], "streams") =>
                 /\ field(root).kind = "array"
                 /\ \A i \in DOMAIN field(root).elements : field(root).elements[i].kind = "object"
            /\ Validate(streams(root))
         THEN {streams(root)} ELSE {} : root \in Parse(text)}

StreamText(s) ==
  <<"{">> \o FlattenSeq([i \in DOMAIN FieldOrder |->
     (IF i = 1 THEN <<>> ELSE <<",">>) \o <<FieldOrder[i], ":">>
       \o <<IF FieldOrder[i] \in StringFields THEN s[FieldOrder[i]] ELSE ToString(s[FieldOrder[i]])>>])
    \o <<"}">>

ToJson(streams) ==
  <<"{", "streams", ":", "[">> \o FlattenSeq([i \in DOMAIN streams |->
     (IF i = 1 THEN <<>> ELSE <<",">>) \o StreamText(streams[i])]) \o <<"]", "}">>

-----------------------------------------------------------------------------
(* What a writer of a topic gets: the first stream of the topic. *)
MaxFragPayload(s) == IF s.max_frame_size <= Overhead THEN 0 ELSE s.max_frame_size - Overhead

StreamForTopic(streams, topic) ==
  LET at == SelectInSeq(streams, LAMBDA s : s.topic = topic) IN
  IF at = 0 THEN {}
  ELSE {[priority |-> streams[at].pcp, dscp |-> streams[at].dscp, interval |-> streams[at].interval_us,
         tx_offset |-> streams[at].tx_offset_us, max_frag_payload |-> MaxFragPayload(streams[at])]}

-----------------------------------------------------------------------------
(* TAPRIO. A gate mask is the set of its open traffic classes. *)
SumOf(f(_), seq) == FoldLeft(LAMBDA n, x : n + f(x), 0, seq)

TaprioFromStreams_Micros(streams) ==
  LET slots == SelectSeq(streams, LAMBDA s : s.interval_us > 0) IN
  IF slots = <<>> THEN {}
  ELSE {[cycle_time |-> SumOf(LAMBDA s : s.interval_us * Thousand, slots),
         entries |-> [i \in DOMAIN slots |-> [gates |-> {slots[i].pcp}, interval |-> slots[i].interval_us]],
         interface |-> EmptyString]}

(* taprio_from_streams: a slot for each stream that has an interval. *)
TaprioFromStreams(streams) ==
  LET slots == SelectSeq(streams, LAMBDA s : s.interval_us > 0) IN
  IF slots = <<>> THEN {}
  ELSE {[cycle_time |-> SumOf(LAMBDA s : s.interval_us * Thousand, slots),
         entries |-> [i \in DOMAIN slots |-> [gates |-> {slots[i].pcp}, interval |-> slots[i].interval_us * Thousand]],
         interface |-> EmptyString]}

CycleDuration(tc) == IF tc.cycle_time > 0 THEN tc.cycle_time ELSE SumOf(LAMBDA e : e.interval, tc.entries)

(* TAPRIOConfig::validate *)
ValidSchedule(tc) ==
  /\ tc.interface # EmptyString /\ tc.entries # <<>>
  /\ \A i \in DOMAIN tc.entries : tc.entries[i].interval \in 1 .. MaxInterval
=============================================================================
