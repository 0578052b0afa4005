------------------------------- MODULE RtpsWire -------------------------------
(***************************************************************************)
(* The RTPS message format of dds::rtps: submessages, datagrams and the    *)
(* discovery announcements they carry.                                     *)
(*                                                                         *)
(* A submessage is [kind, f, payload], f giving its fixed fields.  Entity  *)
(* identifiers are words and guid prefixes sequences of bytes; parameter   *)
(* identifiers are renumbered so that they fit two bytes of any Radix.     *)
(***************************************************************************)
EXTENDS Cdr

Magic == <<82, 84, 80, 83>>
ProtocolVersion == <<2, 3>>
PrefixSize == 12
HeaderSize == 20
SubmessageHeaderSize == 4
FlagEndianness == 1
FlagData == 4
EntityIdParticipant == 1
EntityIdSPDPWriter == 2
EntityIdSEDPPubWriter == 3
EntityIdSEDPSubWriter == 4
AllBuiltinEndpoints == 63

SubmessageId == [Data |-> 21, Gap |-> 8, Heartbeat |-> 7, AckNack |-> 6, DataFrag |-> 22]

-----------------------------------------------------------------------------
(* The fixed fields of each body, in order, with their widths. *)
Ids == <<<<"reader", 4>>, <<"writer", 4>>>>
Qos == <<<<"extraFlags", 2>>, <<"octetsToInlineQos", 2>>>>
Layout ==
  [Data |-> Qos \o Ids \o <<<<"high", 4>>, <<"low", 4>>>>,
   Heartbeat |-> Ids \o <<<<"firstHigh", 4>>, <<"first", 4>>, <<"lastHigh", 4>>, <<"last", 4>>, <<"count", 4>>>>,
   AckNack |-> Ids \o <<<<"baseHigh", 4>>, <<"base", 4>>, <<"numBits", 4>>, <<"bitmap", 4>>, <<"count", 4>>>>,
   Gap |-> Ids \o <<<<"startHigh", 4>>, <<"start", 4>>, <<"baseHigh", 4>>, <<"base", 4>>, <<"numBits", 4>>>>,
   DataFrag |-> Qos \o Ids \o <<<<"high", 4>>, <<"low", 4>>, <<"start", 4>>, <<"count", 2>>,
                                <<"size", 2>>, <<"dataSize", 4>>>>]
(* What encode writes whatever the message holds. *)
Fixed ==
  [Data |-> [extraFlags |-> 0, octetsToInlineQos |-> 16], Heartbeat |-> <<>>,
   AckNack |-> [numBits |-> 32], Gap |-> [numBits |-> 0],
   DataFrag |-> [extraFlags |-> 0, octetsToInlineQos |-> 0]]

Offset(kind, k) == FoldLeft(LAMBDA sum, i : sum + Layout[kind][i][2], 0, [i \in 1 .. k - 1 |-> i])
FixedSize(kind) == Offset(kind, Len(Layout[kind]) + 1)
FieldNames(kind) == {Layout[kind][k][1] : k \in DOMAIN Layout[kind]}

(* Gap::encode: the list starts after the last sequence number of the gap. *)
NewGap(reader, writer, start, end) ==
  [kind |-> "Gap", payload |-> <<>>,
   f |-> [reader |-> reader, writer |-> writer, startHigh |-> 0, start |-> start,
          baseHigh |-> 0, base |-> end + 1]]

EncodeBody(m) ==
  LET value(name) == IF name \in DOMAIN Fixed[m.kind] THEN Fixed[m.kind][name] ELSE m.f[name] IN
  FlattenSeq([k \in DOMAIN Layout[m.kind] |->
                LittleEndian(value(Layout[m.kind][k][1]), Layout[m.kind][k][2])]) \o m.payload
EncodeSubmessage(m) ==
  LET body == EncodeBody(m)
      flags == IF m.kind = "Data" THEN FlagEndianness + FlagData ELSE FlagEndianness IN
  <<SubmessageId[m.kind], flags>> \o LittleEndian(Len(body), 2) \o body

(* The decoders, of the bytes of one entry: a set of at most one message. *)
DecodeSubmessage(kind, s) ==
  LET bodyLen == Word(s, 2, 2)
      at(k) == SubmessageHeaderSize + Offset(kind, k)
      place(name) == CHOOSE k \in DOMAIN Layout[kind] : Layout[kind][k][1] = name
      rest == SubSeq(s, SubmessageHeaderSize + FixedSize(kind) + 1, SubmessageHeaderSize + bodyLen) IN
  IF \/ Len(s) < SubmessageHeaderSize \/ s[1] # SubmessageId[kind]
     \/ SubmessageHeaderSize + bodyLen > Len(s) \/ bodyLen < FixedSize(kind)
  THEN {}
  ELSE {[kind |-> kind,
         f |-> [name \in FieldNames(kind) \ DOMAIN Fixed[kind] |->
                  Word(s, at(place(name)), Layout[kind][place(name)][2])],
         payload |-> IF kind = "DataFrag" \/ (kind = "Data" /\ (s[2] \div FlagData) % 2 = 1)
                     THEN rest ELSE <<>>]}

-----------------------------------------------------------------------------
(* Datagrams. *)

WrapInMessage(prefix, vendor, submessages) ==
  Magic \o ProtocolVersion \o vendor \o prefix \o submessages
HeaderOk(s) == Len(s) >= HeaderSize /\ SubSeq(s, 1, 4) = Magic
PrefixOf(s) == SubSeq(s, 9, 8 + PrefixSize)

(* What handle_data_packet acts on of one entry: not a GAP, which has no   *)
(* decoder, and not a DATA without payload.                                *)
Heard(entry) ==
  UNION {{m \in DecodeSubmessage(kind, entry) : kind = "Data" => m.payload # <<>>} :
           kind \in {"Data", "Heartbeat", "AckNack", "DataFrag"}}

RECURSIVE Walk(_, _)
Walk(s, pos) ==
  LET entryLen == SubmessageHeaderSize + Word(s, pos + 2, 2)
      heard == Heard(SubSeq(s, pos + 1, pos + entryLen)) IN
  IF pos + SubmessageHeaderSize > Len(s) \/ pos + entryLen > Len(s) THEN <<>>
  ELSE SetToSeq(heard) \o Walk(s, pos + entryLen)

HandlePacket(own, s) ==
  IF ~HeaderOk(s) \/ PrefixOf(s) = own THEN <<>> ELSE Walk(s, HeaderSize)

-----------------------------------------------------------------------------
(* Discovery. A locator is [kind, port, address], 0.0.0.0 being 0; a       *)
(* sender's address is 0 when it is not an IPv4 one.                       *)

Pid == [TopicName |-> 2, TypeName |-> 3, VendorId |-> 4, MetatrafficUnicast |-> 5,
        DefaultUnicast |-> 6, LeaseDuration |-> 7, ParticipantGuid |-> 8, EndpointGuid |-> 9,
        BuiltinEndpointSet |-> 10, ProtocolVersion |-> 11]
KindInvalid == 9
KindUDPv4 == 1
NoLocator == [kind |-> KindInvalid, port |-> 0, address |-> 0]
TypeNameChars == <<3, 3, 3, 3, 3, 3, 3, 3>>

LocatorBytes(port) == LittleEndian(KindUDPv4, 4) \o LittleEndian(port, 4) \o Zeros(16)
GuidBytes(guid) == guid.prefix \o LittleEndian(guid.entity, 4)

(* Locator::decode, then the sender's address in place of an unset one. *)
DecodeLocator(value, from) ==
  IF Len(value) < 24 THEN {}
  ELSE {[kind |-> Word(value, 0, 4), port |-> Word(value, 4, 4),
         address |-> IF \A i \in 9 .. 24 : value[i] = 0 THEN from ELSE Word(value, 20, 4)]}
DecodeGuid(value) ==
  IF Len(value) < 16 THEN {}
  ELSE {[prefix |-> SubSeq(value, 1, PrefixSize), entity |-> Word(value, PrefixSize, 4)]}

Param(pid, value) == [pid |-> pid, value |-> value]
BuildParticipantData(info) ==
  ParameterList(
    <<Param(Pid.ProtocolVersion, ProtocolVersion \o Zeros(2)),
      Param(Pid.VendorId, info.vendor \o Zeros(2)),
      Param(Pid.ParticipantGuid, GuidBytes([prefix |-> info.prefix, entity |-> EntityIdParticipant])),
      Param(Pid.BuiltinEndpointSet, LittleEndian(AllBuiltinEndpoints, 4)),
      Param(Pid.MetatrafficUnicast, LocatorBytes(info.metaPort)),
      Param(Pid.DefaultUnicast, LocatorBytes(info.dataPort)),
      Param(Pid.LeaseDuration, LittleEndian(info.lease, 4) \o Zeros(4))>>)

BuildEndpointData(info, port) ==
  ParameterList(
    <<Param(Pid.EndpointGuid, GuidBytes(info.guid)),
      Param(Pid.TopicName, StringValue(info.topic)),
      Param(Pid.TypeName, StringValue(TypeNameChars)),
      Param(Pid.DefaultUnicast, LocatorBytes(port))>>)

(* One parameter replaces what it decodes to; one that does not decode     *)
(* changes nothing.                                                        *)
Assigned(record, field, values) ==
  IF values = {} THEN record ELSE [record EXCEPT ![field] = CHOOSE v \in values : TRUE]

ParticipantParam(proxy, p, from) ==
  LET word == IF Len(p.value) >= 4 THEN {Word(p.value, 0, 4)} ELSE {} IN
  CASE p.pid = Pid.MetatrafficUnicast -> Assigned(proxy, "metatraffic", DecodeLocator(p.value, from))
    [] p.pid = Pid.DefaultUnicast -> Assigned(proxy, "unicast", DecodeLocator(p.value, from))
    [] p.pid = Pid.BuiltinEndpointSet -> Assigned(proxy, "endpoints", word)
    [] p.pid = Pid.LeaseDuration -> Assigned(proxy, "lease", word \ {0})
    [] p.pid = Pid.ParticipantGuid -> Assigned(proxy, "guid", DecodeGuid(p.value))
    [] OTHER -> proxy
ParseParticipantData(prefix, payload, from) ==
  IF ~HasParameterList(payload) THEN {}
  ELSE {FoldLeft(LAMBDA proxy, p : ParticipantParam(proxy, p, from),
                 [guid |-> [prefix |-> prefix, entity |-> EntityIdParticipant], endpoints |-> 0,
                  metatraffic |-> NoLocator, unicast |-> NoLocator, lease |-> 0],
                 ReadParameterList(payload))}

EndpointParam(info, p, from) ==
  CASE p.pid = Pid.EndpointGuid -> Assigned(info, "guid", DecodeGuid(p.value))
    [] p.pid = Pid.TopicName -> Assigned(info, "topic", DecodeString(p.value))
    [] p.pid = Pid.DefaultUnicast -> Assigned(info, "locator", DecodeLocator(p.value, from))
    [] OTHER -> info
ParseEndpointData(prefix, payload, from) ==
  LET parsed == FoldLeft(LAMBDA info, p : EndpointParam(info, p, from),
                         [guid |-> [prefix |-> prefix, entity |-> 0], topic |-> <<>>, locator |-> NoLocator],
                         ReadParameterList(payload)) IN
  IF ~HasParameterList(payload) \/ parsed.topic = <<>> THEN {} ELSE {parsed}

Announcement(prefix, vendor, writer, seq, payload) ==
  WrapInMessage(prefix, vendor,
    EncodeSubmessage([kind |-> "Data", payload |-> payload,
                      f |-> [reader |-> 0, writer |-> writer, high |-> 0, low |-> seq]]))

(* SpdpService and SedpService::handle_packet: the participants and the    *)
(* endpoints a datagram announces, in order.                               *)
DataFrom(own, s, writers) ==
  SelectSeq(HandlePacket(own, s), LAMBDA m : m.kind = "Data" /\ m.f.writer \in writers)
HandleSpdp(own, s, from) ==
  FlattenSeq([i \in DOMAIN DataFrom(own, s, {EntityIdSPDPWriter}) |->
    SetToSeq(ParseParticipantData(PrefixOf(s), DataFrom(own, s, {EntityIdSPDPWriter})[i].payload, from))])
HandleSedp(own, s, from) ==
  LET data == DataFrom(own, s, {EntityIdSEDPPubWriter, EntityIdSEDPSubWriter}) IN
  FlattenSeq([i \in DOMAIN data |->
    SetToSeq({[endpoint |-> e, isWriter |-> data[i].f.writer = EntityIdSEDPPubWriter] :
                e \in ParseEndpointData(PrefixOf(s), data[i].payload, from)})])
=============================================================================
