---------------------------------- MODULE Cdr ----------------------------------
(***************************************************************************)
(* The CDR codecs: dds::cdr for user types and dds::rtps for parameter     *)
(* lists.  A buffer is a sequence of bytes and a position counts the bytes *)
(* before it, as pos_ does.  Radix, the number of values of a byte, stands *)
(* for 256 and may be smaller, so that a 16-bit length overflows on short  *)
(* values.                                                                 *)
(***************************************************************************)
EXTENDS Integers, Sequences, SequencesExt

CONSTANT Radix

Zeros(n) == [i \in 1 .. n |-> 0]
(* put_u16_le, put_u32_le and append_le, which keep the low n bytes of v:  *)
(* the last byte of v as it is after 0 to n - 1 shifts.                    *)
Shifts(v, n) ==
  LET rest[i \in 0 .. n] == IF i = 0 THEN v ELSE rest[i - 1] \div Radix IN rest
LittleEndian(v, n) == [i \in 1 .. n |-> Shifts(v, n)[i - 1] % Radix]
(* get_u16_le, get_u32_le and read_le of the n bytes after pos, the last   *)
(* of them first.                                                          *)
Sums(s, pos, n) ==
  LET w[i \in 0 .. n] == IF i = 0 THEN 0 ELSE w[i - 1] * Radix + s[pos + n - i + 1] IN w
Word(s, pos, n) == Sums(s, pos, n)[n]

-----------------------------------------------------------------------------
(* dds::cdr. A value is [type, v]: v is the bit pattern of a primitive, or *)
(* the bytes of a string or a byte sequence.                               *)

Width == [bool |-> 1, uint8 |-> 1, int8 |-> 1, int16 |-> 2, uint16 |-> 2, int32 |-> 4,
          uint32 |-> 4, float32 |-> 4, int64 |-> 8, uint64 |-> 8, float64 |-> 8]
Primitives == DOMAIN Width

EncapHeader == <<1, 0, 0, 0>>

AlignBuffer(buf, n) == buf \o Zeros((n - (Len(buf) % n)) % n)
Append32(buf, v) == AlignBuffer(buf, 4) \o LittleEndian(v, 4)

Write(buf, x) ==
  CASE x.type = "string" -> Append32(buf, Len(x.v) + 1) \o x.v \o <<0>>
    [] x.type = "bytes" -> Append32(buf, Len(x.v)) \o x.v
    [] OTHER -> AlignBuffer(buf, Width[x.type]) \o LittleEndian(x.v, Width[x.type])

(* The buffer when k values are written. *)
Buffers(values) ==
  LET buf[k \in 0 .. Len(values)] == IF k = 0 THEN EncapHeader ELSE Write(buf[k - 1], values[k]) IN buf
Encode(values) == Buffers(values)[Len(values)]

(* Decoder::create: little- and big-endian headers pass, both read as LE. *)
CreateOk(s) == Len(s) >= 4 /\ Word(s, 0, 2) \in {0, 1}

AlignPos_Packed(pos, n) == pos
AlignPos(pos, n) == pos + ((n - (pos % n)) % n)
Need(s, pos, n) == pos + n <= Len(s)
WithoutNul(raw) == IF raw # <<>> /\ Last(raw) = 0 THEN Front(raw) ELSE raw
Failed(pos) == [ok |-> FALSE, pos |-> pos, v |-> 0]

ReadPrimitive(s, pos, type) ==
  LET p == AlignPos(pos, Width[type]) IN
  IF ~Need(s, p, Width[type]) THEN Failed(p)
  ELSE [ok |-> TRUE, pos |-> p + Width[type],
        v |-> LET w == Word(s, p, Width[type]) IN
              IF type = "bool" THEN (IF w # 0 THEN 1 ELSE 0) ELSE w]

ReadCounted(s, pos, type) ==
  LET n == ReadPrimitive(s, pos, "uint32")
      raw == SubSeq(s, n.pos + 1, n.pos + n.v) IN
  IF ~n.ok \/ ~Need(s, n.pos, n.v) THEN Failed(n.pos)
  ELSE [ok |-> TRUE, pos |-> n.pos + n.v, v |-> IF type = "string" THEN WithoutNul(raw) ELSE raw]

Read(s, pos, type) ==
  IF type \in Primitives THEN ReadPrimitive(s, pos, type) ELSE ReadCounted(s, pos, type)

(* The reads a caller makes of the types it expects, up to the first that fails. *)
Created(s) == [ok |-> CreateOk(s), pos |-> 4, values |-> <<>>]
AfterRead(s, d, type) ==
  LET r == Read(s, d.pos, type) IN
  CASE ~d.ok -> d
    [] d.ok /\ ~r.ok -> [d EXCEPT !.ok = FALSE]
    [] d.ok /\ r.ok -> [ok |-> TRUE, pos |-> r.pos, values |-> Append(d.values, [type |-> type, v |-> r.v])]
Decoded(s, types) ==
  LET d[k \in 0 .. Len(types)] == IF k = 0 THEN Created(s) ELSE AfterRead(s, d[k - 1], types[k]) IN d
DecodeAll(s, types) == Decoded(s, types)[Len(types)]

-----------------------------------------------------------------------------
(* dds::rtps. A parameter is [pid, value].                                 *)

SchemeCdrLe == 1
SchemePlCdrLe == 3
PidPad == 0
PidSentinel == 1

AddParam(buf, pid, value) ==
  LET padded == ((Len(value) + 3) \div 4) * 4 IN
  buf \o LittleEndian(pid, 2) \o LittleEndian(padded, 2) \o value \o Zeros(padded - Len(value))
StringValue(chars) == LittleEndian(Len(chars) + 1, 4) \o chars \o <<0>>
Lists(params) ==
  LET buf[k \in 0 .. Len(params)] ==
        IF k = 0 THEN LittleEndian(SchemePlCdrLe, 2) \o Zeros(2)
        ELSE AddParam(buf[k - 1], params[k].pid, params[k].value) IN buf
ParameterList(params) == Lists(params)[Len(params)] \o LittleEndian(PidSentinel, 2) \o Zeros(2)

(* PLCDRDecoder::next until it has no more, from pos, when params are what *)
(* it gives from each later position: pad entries carry no value.          *)
ParamsFrom(s, params, pos) ==
  LET pid == Word(s, pos, 2)
      next == pos + 4 + Word(s, pos + 2, 2) IN
  CASE pos + 4 > Len(s) -> <<>>
    [] pos + 4 <= Len(s) /\ pid = PidSentinel -> <<>>
    [] pos + 4 <= Len(s) /\ pid = PidPad -> params[pos + 4]
    [] pos + 4 <= Len(s) /\ pid \notin {PidSentinel, PidPad} ->
         IF next > Len(s) THEN <<>>
         ELSE <<[pid |-> pid, value |-> SubSeq(s, pos + 5, next)]>> \o params[next]
NextParams(s) ==
  LET params[pos \in 0 .. Len(s)] == ParamsFrom(s, params, pos) IN params

ReadParameterList(s) ==
  IF Len(s) < 4 \/ Word(s, 0, 2) # SchemePlCdrLe THEN <<>> ELSE NextParams(s)[4]
HasParameterList(s) == Len(s) >= 4 /\ Word(s, 0, 2) = SchemePlCdrLe

(* decode_string: a set of at most one string. *)
DecodeString(value) ==
  IF Len(value) < 4 \/ Len(value) < 4 + Word(value, 0, 4) THEN {}
  ELSE {WithoutNul(SubSeq(value, 5, 4 + Word(value, 0, 4)))}

WrapPayload(payload) == LittleEndian(SchemeCdrLe, 2) \o Zeros(2) \o payload
UnwrapPayload(s) ==
  IF Len(s) < 4 \/ Word(s, 0, 2) \notin {SchemeCdrLe, SchemePlCdrLe} THEN {}
  ELSE {SubSeq(s, 5, Len(s))}
=============================================================================
