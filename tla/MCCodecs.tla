------------------------------- MODULE MCCodecs -------------------------------
(***************************************************************************)
(* The codecs, parsers and other pure algorithms on bounded inputs.  A     *)
(* state is an input of one of them; a text that may end early loses its   *)
(* last element with every step.                                           *)
(***************************************************************************)
EXTENDS Integers, Sequences, SequencesExt, FiniteSets, TLC

VARIABLES kind,   \* the algorithm
          input,
          cut     \* how many elements its text has lost

vars == <<kind, input, cut>>

Quote == "\""
Backslash == "\\"
UpTo(S, n) == UNION {[1 .. k -> S] : k \in 0 .. n}
CutOff(text) == SubSeq(text, 1, Len(text) - cut)
NoFields == [n \in {} |-> 0]

-----------------------------------------------------------------------------
(* XTypes: pairs of types of up to two fields, and JSON texts. *)
X == INSTANCE XTypes WITH Names <- {"a", "b"}, Rank <- [a |-> 1, b |-> 2], MaxJsonDepth <- 1

XField(n, k, o, fs, e) == [name |-> n, kind |-> k, optional |-> o, fields |-> fs, element |-> e]
XScalar(n) == {XField(n, k, o, <<>>, <<>>) : k \in {"int64", "string"}, o \in BOOLEAN}
XLeaf(n) == XField(n, "string", FALSE, <<>>, <<>>)
XNested(n) ==
  {XField(n, "struct", FALSE, fs, <<>>) :
     fs \in {<<XLeaf("a")>>, <<XLeaf("a"), XLeaf("b")>>, <<XLeaf("b"), XLeaf("a")>>}}
  \cup {XField(n, "seq", FALSE, <<>>, <<XLeaf(m)>>) : m \in {"a", "b"}}
XAny(n) == XScalar(n) \cup XNested(n)
Types == {[name |-> "T", version |-> 1, fields |-> fs] :
            fs \in {<<>>} \cup {<<f>> : f \in XAny("a")}
                     \cup UNION {{<<f, g>>, <<g, f>>} : f \in XAny("a"), g \in XAny("b")}}

(* Some types again under another name or in another version. *)
TypePairs ==
  (Types \X Types) \cup UNION {{<<t, [t EXCEPT !.name = "U"]>>, <<t, [t EXCEPT !.version = 2]>>} : t \in Types}

(* All short texts; and objects of one or two members whose values nest up *)
(* to and past the depth limit, as they are and with one token lost,       *)
(* replaced or inserted.                                                   *)
JsonTokens == X!Punctuation \cup {"a", "0"}
JsonNest(values) ==
  UNION {{<<"[">> \o v \o <<"]">>, <<"[", "0", ",">> \o v \o <<"]">>,
          <<"{", "a", ":">> \o v \o <<"}">>, <<"{", "b", ":", "0", ",", "a", ":">> \o v \o <<"}">>} : v \in values}
JsonValues ==
  LET atoms == {<<"0">>, <<"b">>, <<"[", "]">>} IN
  atoms \cup JsonNest(atoms) \cup JsonNest(JsonNest(atoms))
JsonObjects ==
  UNION {{<<"{", "a", ":">> \o v \o <<"}">>, <<"{", "a", ":", "0", ",", "a", ":">> \o v \o <<"}">>,
          <<"{", "b", ":">> \o v \o <<",", "a", ":", "b", "}">>} : v \in JsonValues}
OneTokenOff(t) ==
  UNION {{RemoveAt(t, i)} \cup {ReplaceAt(t, i, x) : x \in JsonTokens} \cup {InsertAt(t, i, x) : x \in JsonTokens} :
           i \in DOMAIN t}
JsonTexts == UpTo(JsonTokens, 4) \cup JsonObjects \cup UNION {OneTokenOff(t) : t \in JsonObjects}

(* The hash of a type (identify, canonical_json) is that of its structure, *)
(* name and version and nothing else: the order in which fields are        *)
(* declared does not count, everything else does; so a registry that keeps *)
(* the first type of a name accepts a second one of that name exactly when *)
(* it is the same.                                                         *)
IdentityIsStructure ==
  kind = "types" =>
    LET t == input[1]
        u == input[2]
        first == X!RegisterType(NoFields, t) IN
    /\ X!Identify(t) = X!Identify(u) <=> X!SameType(t, u)
    /\ X!RegisterType(first.types, u).ok <=> (t.name # u.name \/ X!SameType(t, u))

(* DynamicData::from_json, with the values it skips (skip_json_value),     *)
(* accepts the objects of the JSON grammar up to its depth, and no other   *)
(* text.  A declared field ends up with the last scalar the text gives it, *)
(* and no other field is touched; of a text that is refused the members up *)
(* to the place that is wrong have been applied.                           *)
JsonIsTheGrammar ==
  kind = "json" =>
    LET td == [name |-> "T", version |-> 1, fields |-> <<XLeaf("a")>>]
        got == X!FromJson(td, NoFields, input) IN
    /\ got.ok <=> input # <<>> /\ input[1] = "{" /\ X!IsValue(input, 2)
    /\ got.fields = [n \in {m \in {"a"} : X!Assigned(input, m) # {}} |->
                       X!ValueAt(input, Max(X!Assigned(input, n)))]

(* What check_compatibility accepts works: a reader of a compatible type   *)
(* finds each scalar field it requires in the JSON of any writer that set  *)
(* its own.                                                                *)
ScalarFields(td) == {td.fields[i] : i \in DOMAIN td.fields} \cap (XScalar("a") \cup XScalar("b"))
ScalarValue(td, n) ==
  IF \E f \in ScalarFields(td) : f.name = n /\ f.kind = "int64"
  THEN [kind |-> "Int64", v |-> 0] ELSE [kind |-> "String", v |-> "b"]
(* set() is called for every name, declared or not. *)
Written(td) ==
  FoldLeft(LAMBDA fields, n : X!SetField(td, fields, n, ScalarValue(td, n)), NoFields, <<"a", "b">>)
CompatibleReads ==
  kind = "types" /\ X!CheckCompatibility(input[1], input[2]) =>
    LET got == X!FromJson(input[2], NoFields, X!ToJson(Written(input[1]))) IN
    got.ok /\ \A f \in ScalarFields(input[2]) : ~f.optional => f.name \in DOMAIN got.fields

-----------------------------------------------------------------------------
(* Topic rules: patterns with stars, classes, ranges and escapes. *)
G == INSTANCE GlobSyntax WITH
       Ord <- "*" :> 42 @@ "-" :> 45 @@ "/" :> 47 @@ "?" :> 63 @@ "[" :> 91 @@ "\\" :> 92
                @@ "]" :> 93 @@ "^" :> 94 @@ "a" :> 97 @@ "b" :> 98
A == INSTANCE AccessPolicy

Patterns == UpTo({"a", "b", "/", "*", "?"}, 4)
            \cup {<<"[">> \o p : p \in UpTo({"a", "b", "-", "]", "^", "*", Backslash}, 4)}
            \cup {<<Backslash>> \o p : p \in UpTo({"a", "*", "?", Backslash}, 3)}
            \cup {<<"*", "[">> \o p \o <<"*">> : p \in UpTo({"a", "/", "]", "^", "*"}, 4)}
TopicNames == UpTo({"a", "b", "/"}, 3)

(* All chunks but the first have a star before them; glob_match            *)
(* reports a malformed pattern whether or not the name got that            *)
(* far; what it accepts fits the pattern as the header reads it, and it    *)
(* accepts all that fits although it never moves a chunk again, if no      *)
(* class between two stars takes a slash among other characters.           *)
WellFormed(elements) == \A i \in DOMAIN elements : elements[i].kind # "bad"
Decides(pattern, name) ==
  LET chunks == G!Chunks(pattern)
      r == A!GlobMatch(chunks, name)
      elements == G!Elements(pattern) IN
  /\ \A k \in 2 .. Len(chunks) : chunks[k].star
  /\ r.malformed <=> ~WellFormed(elements)
  /\ r.matched => G!Fits(elements, name)
  /\ WellFormed(elements) /\ A!SlashesPlain(chunks) /\ G!Fits(elements, name) => r.matched

PatternsFit == kind = "pattern" => \A name \in TopicNames : Decides(input, name)

Rules ==
  [pattern : {<<"a">>, <<"a", "*">>, <<"*", "b">>, <<"[", "a">>}, allow : SUBSET A!Permissions]

(* A topic is allowed what the first rule grants whose pattern it fits;    *)
(* a malformed rule neither grants nor stops the search.                   *)
RulesDecide ==
  kind = "rules" =>
    LET rules == [i \in DOMAIN input |-> [input[i] EXCEPT !.pattern = G!Chunks(@)]]
        fits(i, name) == LET elements == G!Elements(input[i].pattern) IN
                         WellFormed(elements) /\ G!Fits(elements, name) IN
    \A name \in TopicNames, perm \in A!Permissions :
      A!Allows(rules, name, perm) <=>
        \E i \in DOMAIN input :
          /\ perm \in input[i].allow /\ fits(i, name)
          /\ \A j \in 1 .. i - 1 : ~fits(j, name)

-----------------------------------------------------------------------------
(* CDR values. *)
W == INSTANCE RtpsWire WITH Radix <- 16

ValueList ==
  <<[type |-> "bool", v |-> 1], [type |-> "uint8", v |-> 3], [type |-> "uint16", v |-> 255],
    [type |-> "int32", v |-> 256], [type |-> "uint64", v |-> 4097],
    [type |-> "string", v |-> <<>>], [type |-> "string", v |-> <<4, 5>>],
    [type |-> "bytes", v |-> <<7, 0>>], [type |-> "bytes", v |-> <<>>]>>
Values(numbers) == [i \in DOMAIN numbers |-> ValueList[numbers[i]]]

(* What Encoder writes Decoder reads, whatever the mix of widths and the   *)
(* padding between them; a buffer cut short gives the values that are      *)
(* whole and never another.                                                *)
CdrRoundTrip ==
  kind = "cdr" =>
    LET values == Values(input)
        text == W!Encode(values)
        d == W!DecodeAll(CutOff(text), [i \in DOMAIN values |-> values[i].type]) IN
    /\ IsPrefix(d.values, values)
    /\ d.ok <=> cut = 0
    /\ W!UnwrapPayload(CutOff(W!WrapPayload(text))) = {CutOff(text)}
    /\ d.ok => d.values = values /\ d.pos = Len(text)

-----------------------------------------------------------------------------
(* RTPS datagrams of up to two submessages, between two participants. *)
P1 == [i \in 1 .. 12 |-> i]
P2 == [i \in 1 .. 12 |-> i + 1]
Vendor == <<6, 3>>
Ids == [reader |-> 5, writer |-> 6]
Message(k, f, payload) == [kind |-> k, f |-> Ids @@ f, payload |-> payload]
Submessages ==
  {Message("Data", [high |-> 0, low |-> 17], [i \in 1 .. n |-> 9]) : n \in {0, 1, 235}}
  \cup {Message("Heartbeat", [firstHigh |-> 0, first |-> 1, lastHigh |-> 0, last |-> 18, count |-> 2], <<>>),
        Message("AckNack", [baseHigh |-> 0, base |-> 3, bitmap |-> 5, count |-> 1], <<>>),
        W!NewGap(5, 6, 1, 2)}
  \cup {Message("DataFrag", [high |-> 0, low |-> 17, start |-> 2, count |-> 1, size |-> 2, dataSize |-> 3], p) :
          p \in {<<>>, <<8, 8>>}}
Packet(messages) == W!WrapInMessage(P1, Vendor, FlattenSeq([i \in DOMAIN messages |-> W!EncodeSubmessage(messages[i])]))
(* A GAP is not listened to, nor a DATA without payload. *)
Effective(messages) ==
  SelectSeq(messages, LAMBDA m : m.kind # "Gap" /\ (m.kind = "Data" => m.payload # <<>>))

(* Whoever receives a datagram acts on its submessages in order, each as   *)
(* it was sent; on one cut short, on those that are whole; a participant   *)
(* ignores its own.                                                        *)
PacketsArrive ==
  kind = "packet" =>
    LET text == CutOff(Packet(input))
        got == W!HandlePacket(P2, text) IN
    /\ W!HandlePacket(P1, text) = <<>>
    /\ IsPrefix(got, Effective(input))
    /\ cut = 0 => got = Effective(input)

Announced ==
  [kind : {"participant"}, metaPort : {0, 7410}, dataPort : {7411}, lease : {0, 20}, from : {0, 127}]
  \cup [kind : {"endpoint"}, topic : {<<1>>, <<1, 2, 3>>, <<1, 2, 3, 4>>, <<>>}, port : {7411},
        isWriter : BOOLEAN, entity : {7}, from : {0, 127}]
UdpLocator(port, from) == [kind |-> 1, port |-> port, address |-> from]

(* What a participant announces of itself and of its endpoints is what     *)
(* another one learns, with the address the datagram came from; a topic    *)
(* without a name is not learned, and a datagram cut short teaches nothing *)
(* that was not announced.                                                 *)
AnnouncementsAgree ==
  kind = "announcement" =>
    IF input.kind = "participant"
    THEN LET text == W!Announcement(P1, Vendor, 2, 1,
                       W!BuildParticipantData([prefix |-> P1, vendor |-> Vendor, metaPort |-> input.metaPort,
                                               dataPort |-> input.dataPort, lease |-> input.lease])) IN
         W!HandleSpdp(P2, CutOff(text), input.from) =
           IF cut > 0 THEN <<>>
           ELSE <<[guid |-> [prefix |-> P1, entity |-> 1], endpoints |-> 63, lease |-> input.lease,
                   metatraffic |-> UdpLocator(input.metaPort, input.from),
                   unicast |-> UdpLocator(input.dataPort, input.from)]>>
    ELSE LET guid == [prefix |-> P1, entity |-> input.entity]
             text == W!Announcement(P1, Vendor, IF input.isWriter THEN 3 ELSE 4, 1,
                       W!BuildEndpointData([guid |-> guid, topic |-> input.topic], input.port)) IN
         W!HandleSedp(P2, CutOff(text), input.from) =
           IF cut > 0 \/ input.topic = <<>> THEN <<>>
           ELSE <<[isWriter |-> input.isWriter,
                   endpoint |-> [guid |-> guid, topic |-> input.topic,
                                 locator |-> UdpLocator(input.port, input.from)]]>>

-----------------------------------------------------------------------------
(* Frames of the WAN and gRPC bridges. *)
B == INSTANCE BridgeCodec WITH Int64Max <- 5, MaxFrame <- 100, MaxToken <- 4

FrameTopics == {<<>>, <<"a">>, <<"<", Quote>>, <<Backslash, "}", "\n">>, <<" ", ",">>}
Payloads == UpTo({0, 9, 15}, 3) \cup {<<1, 2, 3, 4>>, <<15, 14, 13, 12, 11>>}
Frames ==
  [layout : {B!WireFrameLayout}, messages : {<<[t |-> t, p |-> p]>> : t \in FrameTopics, p \in Payloads}]
  \cup [layout : {B!PublishRequestLayout},
        messages : {<<[topic |-> t, payload |-> <<9>>], [topic |-> u, payload |-> <<>>]>> : t \in FrameTopics, u \in FrameTopics}]
  \cup [layout : {B!SampleLayout},
        messages : {<<[topic |-> t, payload |-> <<9, 9>>, seq_num |-> n, timestamp_ns |-> 4, writer_guid |-> <<15, 0>>]>> :
                      t \in FrameTopics, n \in {0, 5}}]
  \cup [layout : {B!PublishAckLayout}, messages : {<<[count |-> n]>> : n \in 0 .. 5}]
FrameStream(i) == FlattenSeq([k \in DOMAIN i.messages |-> B!WriteFrame(i.layout, i.messages[k])])

AuthTokens == UpTo({"x", "y"}, 5)

(* Any topic and payload get through the escapes, the base64 text and the  *)
(* frames unchanged; a stream that ends inside a frame gives the frames    *)
(* before it and no other.  So does a token of an admissible length.       *)
FramesArrive ==
  /\ kind = "frames" =>
       LET Arrived(got) == IsPrefix(got, input.messages) /\ (cut = 0 <=> got = input.messages) IN
       Arrived(B!ReadFrames(input.layout, CutOff(FrameStream(input)), 1))
  /\ kind = "token" =>
       LET Read(got) == /\ got.kind = "ok" <=> cut = 0 /\ Len(input) <= 4
                        /\ got.kind = "ok" => got.text = input IN
       Read(B!ReadAuth(CutOff(B!WriteAuth(input))))

-----------------------------------------------------------------------------
(* HTTP requests and event streams of the REST bridge. *)
H == INSTANCE RestHttp WITH MaxHeaders <- 4, MaxHeaderLine <- 10, MaxBody <- 12

Requests ==
  [method : {"GET", "POST"}, target : {<<"/">>, <<"/", "topics", "/", "a">>, <<"/", "topics", "?", "q">>},
   headers : UpTo({<<"x", ":", "1">>, <<"host", ":", " ", " ", "y">>, <<"content-length", ":", "9">>}, 2),
   body : UpTo({"b", "\n"}, 2)]
TopicOf(target) == IF target = <<"/", "topics", "/", "a">> THEN <<"a">> ELSE <<>>
Responses ==
  [status : {"200", "400"}, body : UpTo({"b", "\n"}, 2)] \cup [status : {"204"}, body : {<<>>}]
Events == UpTo({H!SseMessageEvent(1, "p"), H!SseMessageEvent(2, ""), H!SseKeepaliveComment}, 3)
RestText ==
  CASE kind = "request" -> H!WriteRequest(input.method, input.target, input.headers, input.body)
    [] kind = "response" -> H!WriteHead(input.status, input.body)
    [] OTHER -> H!WriteHead("event-stream", <<>>) \o FlattenSeq([i \in DOMAIN input |-> H!WriteChunk(input[i])])
                  \o H!WriteChunkTerminator
(* A client reads the lines of a response as the server those of a request.*)
ReadResponse == H!Headers(H!After(CutOff(RestText), H!EndOfLine), 0, NoFields)

(* A request with fewer headers than kMaxHeaders is read as it was         *)
(* written, without its query, and goes where its path says; one that ends *)
(* early is never taken for a whole one.  A response has the length it     *)
(* announces.  A client of the event stream gets the events that are       *)
(* whole, and an end only when the server ended it.                        *)
RestTextsArrive ==
  /\ kind = "request" =>
       LET got == H!ReadRequest(CutOff(RestText))
           topic == TopicOf(input.target) IN
       /\ got.kind = "ok" <=> cut = 0
       /\ cut = 0 =>
            /\ got.request = [method |-> <<input.method>>, path |-> H!Before(input.target, "?"), body |-> input.body]
            /\ H!ClassifyRequest(input.method, got.request.path) =
                 H!Route(CASE topic = <<>> -> IF input.method = "GET" THEN "list" ELSE "method not allowed"
                           [] input.method = "GET" -> "subscribe" [] OTHER -> "publish", topic)
  /\ kind = "response" =>
       LET got == ReadResponse
           length == IF input.status = "204" THEN <<>> ELSE H!ContentLength :> <<ToString(Len(input.body))>> IN
       IF cut = 0 THEN got = [kind |-> "ok", headers |-> length, rest |-> input.body]
       ELSE got.kind # "ok" \/ Len(got.rest) < Len(input.body)
  /\ kind = "events" =>
       LET head == ReadResponse
           got == H!ReadChunks(head.rest) IN
       head.kind = "ok" =>
         /\ head.headers = <<"transfer-encoding">> :> <<"chunked">>
         /\ IsPrefix(got.chunks, input)
         /\ got.ended <=> cut = 0
         /\ got.ended => got.chunks = input

-----------------------------------------------------------------------------
(* TSN configurations of up to two streams. *)
StreamFields == {"topic", "vid", "pcp", "dscp", "max_frame_size", "max_interval_frames", "interval_us",
                 "tx_offset_us", "talker_id"}
T == INSTANCE TsnConfig WITH
       Names <- {"", "a", "b", "streams"} \cup StreamFields, EmptyString <- "", Numbers <- -20 .. 20,
       ByteSize <- 16, WordSize <- 32, MaxPcp <- 7, MaxDscp <- 7, Overhead <- 4, MaxInterval <- 9, Thousand <- 2

Stream(topic, pcp, interval) ==
  [topic |-> topic, vid |-> 3, pcp |-> pcp, dscp |-> 7, max_frame_size |-> 5, max_interval_frames |-> 1,
   interval_us |-> interval, tx_offset_us |-> 0, talker_id |-> ""]
Configs ==
  {<<>>} \cup [1 .. 2 -> {Stream(topic, pcp, interval) : topic \in {"a", "b"}, pcp \in {0, 7}, interval \in {0, 2}}]
  \cup {<<[topic |-> "a", vid |-> vid, pcp |-> 1, dscp |-> dscp, max_frame_size |-> frame, max_interval_frames |-> 0,
           interval_us |-> 3, tx_offset_us |-> offset, talker_id |-> talker]>> :
          vid \in {0, 19}, dscp \in {0, 7}, frame \in {0, 4, 20}, offset \in {0, 1}, talker \in {"", "b"}}

(* What to_json writes parse_config reads back, and it takes no text that  *)
(* ends early; a topic's writer gets a priority whose gate the TAPRIO      *)
(* schedule of the same streams opens for the writer's interval; and the    *)
(* schedule is valid and the slots of its cycle fill it.                   *)
ConfigArrives ==
  kind = "tsn" =>
    /\ T!ParseConfig(CutOff(T!ToJson(input))) = IF cut = 0 THEN {input} ELSE {}
    /\ \A tc \in T!TaprioFromStreams(input) :
         /\ T!ValidSchedule([tc EXCEPT !.interface = "a"])
         /\ T!CycleDuration(tc) = T!CycleDuration([tc EXCEPT !.cycle_time = 0])
         /\ \A topic \in {"a", "b"} : \A ts \in T!StreamForTopic(input, topic) :
              ts.interval > 0 =>
                \E i \in DOMAIN tc.entries : tc.entries[i] = [gates |-> {ts.priority}, interval |-> 2 * ts.interval]

-----------------------------------------------------------------------------
(* IDL modules: an alias, an enum, up to two structs, a nested module. *)
I == INSTANCE Idl WITH Names <- {"A", "B", "E", "M", "T", "x", "y"}, Sizes <- {2}

Elem(k, t) == I!Type(k, <<t>>, IF k = "array" THEN 2 ELSE 0, <<>>)
FieldTypes ==
  {I!Basic("ulong_long"), Elem("sequence", I!Basic("octet")), Elem("sequence", I!Basic("string")),
   Elem("array", I!Basic("long")), I!Ref(<<"M", "A">>), Elem("sequence", I!Ref(<<"A">>)), Elem("array", I!Ref(<<"T">>))}
  \cup {I!Ref(<<n>>) : n \in {"A", "B", "E", "T"}}
Field(n, t) == [name |-> n, key |-> n = "x", type |-> t]
Struct(n, fs) == [name |-> n, fields |-> fs]
Aliases == {I!Basic("long"), Elem("sequence", I!Basic("octet")), I!Ref(<<"A">>), I!Ref(<<"E">>)}
IdlModules ==
  [name : {""}, enums : {<<>>, <<[name |-> "E", values |-> <<"x", "y">>]>>},
   typedefs : {<<>>} \cup {<<[name |-> "T", type |-> t]>> : t \in Aliases},
   structs : {<<Struct("A", <<Field("x", t)>>)>> : t \in FieldTypes}
     \cup {<<Struct("A", <<Field("x", t), Field("y", I!Basic("string"))>>), Struct("B", <<Field("y", u)>>)>> :
              t \in FieldTypes, u \in FieldTypes},
   modules : {<<>>, <<[I!EmptyModule EXCEPT !.name = "M", !.structs = <<Struct("A", <<Field("x", I!Basic("double"))>>)>>]>>}]

(* The parser reads the IDL text of a module as that module. *)
IdlTextIsRead == kind = "idl" => I!ParseString(I!ModuleText(input)) = {input}

(* In a generated header unmarshal reads into each place what marshal      *)
(* wrote from it, in the same order, whatever aliases, nested structs and  *)
(* sequences a field's type is made of.                                    *)
CodecsMirror ==
  kind = "idl" =>
    \A header \in I!Generate(input) : \A i \in DOMAIN header :
      header[i].codec.marshal = header[i].codec.unmarshal

-----------------------------------------------------------------------------
TextLength ==
  CASE kind = "cdr" -> Len(W!Encode(Values(input)))
    [] kind = "packet" -> Len(Packet(input))
    [] kind = "announcement" -> 30
    [] kind = "frames" -> Len(FrameStream(input))
    [] kind = "token" -> Len(B!WriteAuth(input))
    [] kind \in {"request", "response", "events"} -> Len(RestText)
    [] kind = "tsn" -> Len(T!ToJson(input))
    [] OTHER -> 0

Init ==
  /\ cut = 0
  /\ \/ kind = "types" /\ input \in TypePairs
     \/ kind = "json" /\ input \in JsonTexts
     \/ kind = "pattern" /\ input \in Patterns
     \/ kind = "rules" /\ input \in UpTo(Rules, 2)
     \/ kind = "cdr" /\ input \in UpTo(DOMAIN ValueList, 3)
     \/ kind = "packet" /\ input \in UpTo(Submessages, 2)
     \/ kind = "announcement" /\ input \in Announced
     \/ kind = "frames" /\ input \in Frames
     \/ kind = "token" /\ input \in AuthTokens
     \/ kind = "request" /\ input \in Requests
     \/ kind = "response" /\ input \in Responses
     \/ kind = "events" /\ input \in Events
     \/ kind = "tsn" /\ input \in Configs
     \/ kind = "idl" /\ input \in IdlModules

(* The text loses its last element. *)
Truncate == cut < TextLength /\ cut' = cut + 1 /\ UNCHANGED <<kind, input>>

Next == Truncate
Spec == Init /\ [][Next]_vars

-----------------------------------------------------------------------------
(* What the parts above say of one layer of the system. *)

(* Types: the same identity is the same structure, and what is declared    *)
(* compatible can be read.                                                 *)
TypesAreStructural == IdentityIsStructure /\ CompatibleReads

(* RTPS: values, packets and announcements reach another participant as    *)
(* they were sent, and whatever is cut short is not taken for a whole one. *)
WireIsRead == CdrRoundTrip /\ PacketsArrive /\ AnnouncementsAgree

(* Topic rules: what a pattern means, and what a list of rules allows.     *)
GlobMeansPattern == PatternsFit /\ RulesDecide

(* Bridges: frames, requests and events reach the other end as they were   *)
(* sent, and whatever is cut short is not taken for a whole one.           *)
BridgesUnderstand == FramesArrive /\ RestTextsArrive

(* IDL: a module's text is read as the module, and the generated codecs of *)
(* every struct mirror each other.                                         *)
IdlCompiles == IdlTextIsRead /\ CodecsMirror
=============================================================================
