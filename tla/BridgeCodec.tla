----------------------------- MODULE BridgeCodec -----------------------------
(***************************************************************************)
(* What the WAN and gRPC bridges put on a TCP stream: flat JSON objects    *)
(* with strings, base64 byte strings and integers, in frames with a        *)
(* length.  Each bridge has its own copy of the same reader and writer.    *)
(*                                                                         *)
(* A text is a sequence of characters.  The character after a backslash    *)
(* stands for the whole of an escape, "u003c" and the like included, and a *)
(* decimal number and the length of a frame are one character each: where  *)
(* a stream is cut inside one, recv_exact fails as it does before it.      *)
(* Base64 packs three bytes in four letters: of 16 values and 8 letters    *)
(* here, of 256 and 64 in the code.                                        *)
(***************************************************************************)
EXTENDS Integers, Sequences, SequencesExt, FiniteSets

CONSTANTS
  Int64Max,        \* the largest long long
  MaxFrame,        \* kMaxFrameBytes, kMaxFrameSize
  MaxToken         \* kMaxTokenBytes

Quote == "\""
Backslash == "\\"
Space == " "

Number(n) == <<ToString(n)>>
Numbers == -1 .. 2 * Int64Max + MaxFrame + 1
NumberIn(raw) == {n \in Numbers : raw = Number(n)}

-----------------------------------------------------------------------------
(* Writing *)

(* append_json_string: the characters that are escaped, and how. *)
Escape == [c \in {Quote, Backslash, "\n", "\t", "<"} |->
             CASE c = "\n" -> "n" [] c = "\t" -> "t" [] c = "<" -> "u003c" [] OTHER -> c]
JsonString(s) ==
  <<Quote>> \o FlattenSeq([i \in 1 .. Len(s) |->
                 IF s[i] \in DOMAIN Escape THEN <<Backslash, Escape[s[i]]>> ELSE <<s[i]>>])
            \o <<Quote>>

Letters == <<"A", "B", "C", "D", "E", "F", "G", "H">>
Base == Len(Letters)      \* a byte is below 2 * Base
Letter(n, k) == Letters[1 + ((n \div Base ^ (4 - k)) % Base)]

(* base64_encode: whole triples, and what remains of the last one. *)
Base64Encode(bytes) ==
  LET byte(i) == IF i <= Len(bytes) THEN bytes[i] ELSE 0
      group(g) == byte(3*g + 1) * 4 * Base^2 + byte(3*g + 2) * 2 * Base + byte(3*g + 3)
      rest(g) == Len(bytes) - 3*g
      letters(g) == [k \in 1 .. 4 |-> IF k > rest(g) + 1 THEN "=" ELSE Letter(group(g), k)] IN
  FlattenSeq([g \in 1 .. (Len(bytes) + 2) \div 3 |-> letters(g - 1)])

(* to_json: the members of a message, in the order of its layout. *)
WireFrameLayout == <<[key |-> "t", kind |-> "string"], [key |-> "p", kind |-> "bytes"]>>
SubscribeRequestLayout == <<[key |-> "topic", kind |-> "string"]>>
PublishRequestLayout == SubscribeRequestLayout \o <<[key |-> "payload", kind |-> "bytes"]>>
SampleLayout == PublishRequestLayout \o
  <<[key |-> "seq_num", kind |-> "uint"], [key |-> "timestamp_ns", kind |-> "int"],
    [key |-> "writer_guid", kind |-> "bytes"]>>
PublishAckLayout == <<[key |-> "count", kind |-> "uint"]>>

ValueText(kind, v) ==
  CASE kind = "string" -> JsonString(v)
    [] kind = "bytes" -> <<Quote>> \o Base64Encode(v) \o <<Quote>>
    [] OTHER -> Number(v)

ToJson(layout, msg) ==
  <<"{">> \o FlattenSeq([i \in 1 .. Len(layout) |->
     (IF i = 1 THEN <<>> ELSE <<",">>) \o JsonString(<<layout[i].key>>) \o <<":">>
       \o ValueText(layout[i].kind, msg[layout[i].key])]) \o <<"}">>

-----------------------------------------------------------------------------
(* Reading. The position after what was read is 0 when it is not there. *)

At(s, i) == IF i \in 1 .. Len(s) THEN s[i] ELSE "end"
SkipSpace(s, i) == CHOOSE j \in i .. Len(s) + 1 : At(s, j) # Space /\ \A k \in i .. j - 1 : s[k] = Space

Base64Value(c) == {v \in 0 .. Base - 1 : Letters[v + 1] = c}

Base64Decode_ShortPad(s) ==
  LET value(c) == IF c = "=" THEN 0 ELSE CHOOSE v \in Base64Value(c) : TRUE
      group(g) == FoldLeft(LAMBDA n, k : n * Base + value(s[4*g + k]), 0, <<1, 2, 3, 4>>)
      bytes(g) == <<group(g) \div (4 * Base^2), (group(g) \div (2 * Base)) % (2 * Base), group(g) % (2 * Base)>>
      all == FlattenSeq([g \in 1 .. Len(s) \div 4 |-> bytes(g - 1)]) IN
  [ok |-> Len(s) % 4 = 0 /\ \A i \in 1 .. Len(s) : s[i] = "=" \/ Base64Value(s[i]) # {},
   bytes |-> SubSeq(all, 1, Len(all) - Cardinality({i \in {Len(s)} \cap DOMAIN s : s[i] = "="}))]

(* base64_decode: '=' counts as 0 anywhere, and as padding in the last two *)
(* places.                                                                 *)
Base64Decode(text) ==
  LET s == SelectSeq(text, LAMBDA c : c \notin {Space, "\n", "\t"})
      value(c) == IF c = "=" THEN 0 ELSE CHOOSE v \in Base64Value(c) : TRUE
      group(g) == FoldLeft(LAMBDA n, k : n * Base + value(s[4*g + k]), 0, <<1, 2, 3, 4>>)
      bytes(g) == <<group(g) \div (4 * Base^2), (group(g) \div (2 * Base)) % (2 * Base), group(g) % (2 * Base)>>
      pad == Cardinality({i \in {Len(s), Len(s) - 1} \cap DOMAIN s : s[i] = "="})
      all == FlattenSeq([g \in 1 .. Len(s) \div 4 |-> bytes(g - 1)]) IN
  IF Len(s) % 4 = 0 /\ \A i \in 1 .. Len(s) : s[i] = "=" \/ Base64Value(s[i]) # {}
  THEN [ok |-> TRUE, bytes |-> SubSeq(all, 1, Len(all) - pad)]
  ELSE [ok |-> FALSE, bytes |-> <<>>]

Unescaped(e) == {c \in DOMAIN Escape : Escape[c] = e} \cup ({"/"} \cap {e})

RECURSIVE StringFrom(_, _, _)
StringFrom(s, i, out) ==
  CASE At(s, i) = "end" -> [next |-> 0, out |-> out]
    [] At(s, i) = Quote -> [next |-> i + 1, out |-> out]
    [] At(s, i) = Backslash ->
         IF Unescaped(At(s, i + 1)) = {} THEN [next |-> 0, out |-> out]
         ELSE StringFrom(s, i + 2, Append(out, CHOOSE c \in Unescaped(s[i + 1]) : TRUE))
    [] OTHER -> StringFrom(s, i + 1, Append(out, s[i]))

(* JsonReader::parse_string *)
ParseString(s, i) ==
  IF At(s, i) = Quote THEN StringFrom(s, i + 1, <<>>) ELSE [next |-> 0, out |-> <<>>]

Closing == [c \in {"{", "["} |-> IF c = "{" THEN "}" ELSE "]"]

RECURSIVE Nested(_, _, _, _, _)
(* The end of an object or array: brackets of its own kind balance, and    *)
(* those inside a string do not count.                                     *)
Nested(s, i, open, depth, inString) ==
  CASE At(s, i) = "end" -> 0
    [] inString /\ s[i] = Backslash -> Nested(s, i + 2, open, depth, TRUE)
    [] s[i] = Quote -> Nested(s, i + 1, open, depth, ~inString)
    [] ~inString /\ s[i] = open -> Nested(s, i + 1, open, depth + 1, FALSE)
    [] ~inString /\ s[i] = Closing[open] ->
         IF depth = 1 THEN i + 1 ELSE Nested(s, i + 1, open, depth - 1, FALSE)
    [] OTHER -> Nested(s, i + 1, open, depth, inString)

(* JsonReader::parse_raw_value: where the value at i ends. *)
RawValueEnd(s, i) ==
  CASE At(s, i) = "end" -> 0
    [] At(s, i) = Quote -> ParseString(s, i).next
    [] At(s, i) \in DOMAIN Closing -> Nested(s, i, At(s, i), 0, FALSE)
    [] OTHER -> LET j == CHOOSE j \in i .. Len(s) + 1 :
                           /\ At(s, j) \in {",", "}", "]", Space, "end"}
                           /\ \A k \in i .. j - 1 : s[k] \notin {",", "}", "]", Space}
                IN IF j = i THEN 0 ELSE j

NoFields == [k \in {} |-> <<>>]

(* Where the value of a key begins that ended before i. *)
ValueAfter(s, i) ==
  LET colon == IF i = 0 THEN 0 ELSE SkipSpace(s, i) IN
  IF At(s, colon) = ":" THEN SkipSpace(s, colon + 1) ELSE 0

RECURSIVE Members(_, _, _), Member(_, _, _), AfterMember(_, _)
Members(s, i, fields) == Member(s, ParseString(s, SkipSpace(s, i)), fields)
Member(s, key, fields) ==
  LET value == ValueAfter(s, key.next)
      Set(end) == [end |-> end, fields |-> [k \in DOMAIN fields \cup {key.out} |->
                     IF k = key.out THEN SubSeq(s, value, end - 1) ELSE fields[k]]] IN
  AfterMember(s, Set(RawValueEnd(s, value)))
AfterMember(s, now) ==
  LET comma == IF now.end = 0 THEN 0 ELSE SkipSpace(s, now.end) IN
  CASE At(s, comma) = "," -> Members(s, comma + 1, now.fields)
    [] At(s, comma) = "}" -> [ok |-> TRUE, fields |-> now.fields]
    [] OTHER -> [ok |-> FALSE, fields |-> NoFields]

(* JsonReader::parse_object; what follows the closing brace is not read. *)
ParseObject(s) ==
  LET i == SkipSpace(s, 1) IN
  CASE At(s, i) # "{" -> [ok |-> FALSE, fields |-> NoFields]
    [] At(s, SkipSpace(s, i + 1)) = "}" -> [ok |-> TRUE, fields |-> NoFields]
    [] OTHER -> Members(s, i + 1, NoFields)

(* decode_..._field: the values a field may have, none when it is bad. *)
DecodeString(raw) == LET r == ParseString(raw, 1) IN IF r.next = 0 THEN {} ELSE {r.out}
DecodeBytes(raw) ==
  LET r == ParseString(raw, 1) IN
  IF r.next # 0 /\ Base64Decode(r.out).ok THEN {Base64Decode(r.out).bytes} ELSE {}
DecodeUint(raw) == NumberIn(raw) \cap 0 .. Int64Max
DecodeInt(raw) == NumberIn(raw) \cap (-Int64Max - 1) .. Int64Max

Decode(kind, fields, key) ==
  IF <<key>> \notin DOMAIN fields \/ fields[<<key>>] = <<"null">>
  THEN IF kind \in {"string", "bytes"} THEN {<<>>} ELSE {0}
  ELSE CASE kind = "string" -> DecodeString(fields[<<key>>])
         [] kind = "bytes" -> DecodeBytes(fields[<<key>>])
         [] kind = "uint" -> DecodeUint(fields[<<key>>])
         [] OTHER -> DecodeInt(fields[<<key>>])

(* from_json: the message a text stands for, if any. *)
MessageOf(layout, object) ==
  LET value(i) == Decode(layout[i].kind, object.fields, layout[i].key)
      keys == {layout[i].key : i \in DOMAIN layout}
      at(key) == CHOOSE i \in DOMAIN layout : layout[i].key = key IN
  IF ~object.ok \/ \E i \in DOMAIN layout : value(i) = {} THEN {}
  ELSE {[key \in keys |-> CHOOSE v \in value(at(key)) : TRUE]}
FromJson(layout, text) == MessageOf(layout, ParseObject(text))

-----------------------------------------------------------------------------
(* Frames on a stream *)

WriteFrame(layout, msg) == LET text == ToJson(layout, msg) IN Number(Len(text)) \o text

(* read_exact: a stream that ends early gives nothing. *)
Block(s, i, max) ==
  LET len == IF i > Len(s) THEN {} ELSE NumberIn(<<s[i]>>) IN
  CASE len = {} -> [kind |-> "closed", text |-> <<>>, next |-> i]
    [] \E n \in len : n > max -> [kind |-> "large", text |-> <<>>, next |-> i + 1]
    [] OTHER -> LET n == CHOOSE n \in len : TRUE IN
                IF i + n > Len(s) THEN [kind |-> "closed", text |-> <<>>, next |-> i + 1]
                ELSE [kind |-> "ok", text |-> SubSeq(s, i + 1, i + n), next |-> i + n + 1]

(* read_frame *)
Framed(b, msgs) ==
  [kind |-> IF b.kind = "ok" /\ msgs = {} THEN "invalid" ELSE b.kind, msgs |-> msgs, next |-> b.next]
ReadFrame(layout, s, i) ==
  LET b == Block(s, i, MaxFrame) IN Framed(b, FromJson(layout, b.text))

RECURSIVE ReadFrames(_, _, _), AfterFrame(_, _, _)
(* The frames a server reads off a stream before one fails. *)
ReadFrames(layout, s, i) == AfterFrame(layout, s, ReadFrame(layout, s, i))
AfterFrame(layout, s, f) ==
  IF f.kind # "ok" THEN <<>> ELSE <<CHOOSE m \in f.msgs : TRUE>> \o ReadFrames(layout, s, f.next)

WriteAuth(token) == Number(Len(token)) \o token
ReadAuth(s) == Block(s, 1, MaxToken)
=============================================================================
