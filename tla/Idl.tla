---------------------------------- MODULE Idl ----------------------------------
(***************************************************************************)
(* The IDL compiler of ddstool: the parser of dds::idl, and the generator  *)
(* of a C++ header with a CDR codec for every struct.                      *)
(*                                                                         *)
(* A source is a sequence of tokens: punctuation, the keywords, Names for  *)
(* the other identifiers and decimal numbers.  White space, comments and   *)
(* characters without a token are left out, as are the texts of errors.    *)
(* A header is the sequence of its declarations, each with the names it    *)
(* uses, and the statements of a codec are a tree.                         *)
(***************************************************************************)
EXTENDS Naturals, Sequences, SequencesExt, FiniteSets

CONSTANTS Names,     \* identifiers that are no keyword of a type
          Sizes      \* decimal numbers

(* The types that are one word, or words of which one is a prefix. *)
Simple == {"boolean", "octet", "float", "double", "string", "short"}
Keywords == Simple \cup {"long", "unsigned", "sequence", "module", "struct", "enum", "typedef", "key"}
Identifiers == Names \cup Keywords
SizeTexts == {ToString(n) : n \in Sizes}
SizeOf(token) == CHOOSE n \in Sizes : token = ToString(n)

(* TypeSpec: elem is a sequence of at most one type, ref of the parts of a *)
(* qualified name.                                                         *)
Type(kind, elem, size, ref) == [kind |-> kind, elem |-> elem, size |-> size, ref |-> ref]
Basic(kind) == Type(kind, <<>>, 0, <<>>)
Ref(parts) == Type("struct", <<>>, 0, parts)

EmptyModule == [name |-> "", typedefs |-> <<>>, enums |-> <<>>, structs |-> <<>>, modules |-> <<>>]

-----------------------------------------------------------------------------
(* Parser. What is read is [next, value], next is 0 on a ParseFailure.     *)

At(s, i) == IF i \in 1 .. Len(s) THEN s[i] ELSE "eof"
Read(next, value) == [next |-> next, value |-> value]
Failure == Read(0, <<>>)
IsIdent(token) == token \in Identifiers

RECURSIVE Qualified(_, _, _)
Qualified(s, i, parts) ==
  IF At(s, i) # "::" THEN Read(i, Ref(parts))
  ELSE IF IsIdent(At(s, i + 1)) THEN Qualified(s, i + 2, Append(parts, s[i + 1])) ELSE Failure

LongOr_One(s, i, one, two) == Read(i, Basic(one))
LongOr(s, i, one, two) == IF At(s, i) = "long" THEN Read(i + 1, Basic(two)) ELSE Read(i, Basic(one))

RECURSIVE ParseTypeSpec(_, _)
(* Bounds of strings and sequences are read and forgotten. *)
ParseTypeSpec(s, i) ==
  LET t == At(s, i) IN
  CASE t = "string" /\ At(s, i + 1) = "<" ->
         IF At(s, i + 3) = ">" THEN Read(i + 4, Basic("string")) ELSE Failure
    [] t \in Simple -> Read(i + 1, Basic(t))
    [] t = "long" -> LongOr(s, i + 1, "long", "long_long")
    [] t = "unsigned" ->
         (CASE At(s, i + 1) = "short" -> Read(i + 2, Basic("ushort"))
            [] At(s, i + 1) = "long" -> LongOr(s, i + 2, "ulong", "ulong_long")
            [] OTHER -> Failure)
    [] t = "sequence" ->
         LET e == IF At(s, i + 1) = "<" THEN ParseTypeSpec(s, i + 2) ELSE Failure
             close == IF At(s, e.next) = "," THEN e.next + 2 ELSE e.next IN
         IF e.next # 0 /\ At(s, close) = ">"
         THEN Read(close + 1, Type("sequence", <<e.value>>, 0, <<>>)) ELSE Failure
    [] IsIdent(t) -> Qualified(s, i + 1, <<t>>)
    [] OTHER -> Failure

RECURSIVE Annotations(_, _, _)
Annotations(s, i, key) ==
  IF At(s, i) = "@" THEN Annotations(s, i + 2, key \/ At(s, i + 1) = "key") ELSE Read(i, key)

(* A field: annotations, a type, a name, maybe the size of an array. *)
ParseField(s, i) ==
  LET a == Annotations(s, i, FALSE)
      t == ParseTypeSpec(s, a.next)
      isArray == At(s, t.next + 1) = "["
      arrayOk == At(s, t.next + 2) \in SizeTexts /\ At(s, t.next + 3) = "]"
      end == t.next + (IF isArray THEN 4 ELSE 1) IN
  IF t.next = 0 \/ ~IsIdent(At(s, t.next)) \/ (isArray /\ ~arrayOk) \/ At(s, end) # ";" THEN Failure
  ELSE Read(end + 1, [name |-> s[t.next], key |-> a.value,
                      type |-> IF isArray THEN Type("array", <<t.value>>, SizeOf(s[t.next + 2]), <<>>)
                               ELSE t.value])

RECURSIVE Fields(_, _, _)
Fields(s, i, fields) ==
  LET f == ParseField(s, i) IN
  CASE At(s, i) \in {"}", "eof"} -> Read(i, fields)
    [] f.next = 0 -> Failure
    [] OTHER -> Fields(s, f.next, Append(fields, f.value))

RECURSIVE Values(_, _, _)
(* Enumerators: any token but a name is passed over. *)
Values(s, i, values) ==
  IF At(s, i) \in {"}", "eof"} THEN Read(i, values)
  ELSE Values(s, IF At(s, i + 1) = "," THEN i + 2 ELSE i + 1,
              IF IsIdent(s[i]) THEN Append(values, s[i]) ELSE values)

(* name { body } ; as structs, enums and modules begin and the first two end *)
Opens(s, i) == IsIdent(At(s, i)) /\ At(s, i + 1) = "{"

Closed(s, b) ==
  IF b.next # 0 /\ At(s, b.next) = "}" /\ At(s, b.next + 1) = ";" THEN Read(b.next + 2, b.value) ELSE Failure

ParseStruct(s, i) == IF Opens(s, i) THEN Closed(s, Fields(s, i + 2, <<>>)) ELSE Failure

ParseEnum(s, i) == IF Opens(s, i) THEN Closed(s, Values(s, i + 2, <<>>)) ELSE Failure

ParseTypedef(s, i) ==
  LET t == ParseTypeSpec(s, i) IN
  IF t.next # 0 /\ IsIdent(At(s, t.next)) /\ At(s, t.next + 1) = ";"
  THEN Read(t.next + 2, [name |-> s[t.next], type |-> t.value]) ELSE Failure

RECURSIVE SkipDeclaration(_, _)
SkipDeclaration(s, i) ==
  CASE At(s, i) = ";" -> i + 1
    [] At(s, i) \in {"}", "eof"} -> i
    [] OTHER -> SkipDeclaration(s, i + 1)

RECURSIVE ParseModule(_, _, _), ParseNamedModule(_, _)
(* The declarations up to the end, or to a closing brace, whoever's it is. *)
ParseModule(s, i, m) ==
  LET t == At(s, i)
      sub == ParseNamedModule(s, i + 1)
      struct == ParseStruct(s, i + 1)
      enum == ParseEnum(s, i + 1)
      typedef == ParseTypedef(s, i + 1)
      then(r, more) == IF r.next = 0 THEN Read(0, m) ELSE ParseModule(s, r.next, more) IN
  CASE t \in {"eof", "}"} -> Read(i, m)
    [] ~IsIdent(t) -> ParseModule(s, i + 1, m)
    [] t = "module" -> then(sub, [m EXCEPT !.modules = Append(@, sub.value)])
    [] t = "struct" -> then(struct, [m EXCEPT !.structs = Append(@, [name |-> s[i + 1], fields |-> struct.value])])
    [] t = "enum" -> then(enum, [m EXCEPT !.enums = Append(@, [name |-> s[i + 1], values |-> enum.value])])
    [] t = "typedef" -> then(typedef, [m EXCEPT !.typedefs = Append(@, typedef.value)])
    [] OTHER -> ParseModule(s, SkipDeclaration(s, i + 1), m)

ParseNamedModule(s, i) ==
  LET b == IF Opens(s, i)
           THEN ParseModule(s, i + 2, [EmptyModule EXCEPT !.name = s[i]]) ELSE Failure IN
  CASE b.next = 0 \/ At(s, b.next) # "}" -> Failure
    [] OTHER -> Read(IF At(s, b.next + 1) = ";" THEN b.next + 2 ELSE b.next + 1, b.value)

(* parse_string: the module, or nothing. *)
ParseString(s) ==
  LET r == ParseModule(s, 1, EmptyModule) IN IF r.next = 0 THEN {} ELSE {r.value}

-----------------------------------------------------------------------------
(* Generator *)

RECURSIVE Search(_, _, _)
(* search_struct, search_enum, search_typedef: a bare name in the whole    *)
(* tree, the outer module first; a qualified one from the root down.       *)
Search(m, what, parts) ==
  LET list == m[what]
      own == SelectInSeq(list, LAMBDA d : d.name = parts[1])
      subs == IF Len(parts) > 1 THEN SelectSeq(m.modules, LAMBDA sub : sub.name = parts[1]) ELSE m.modules
      rest == IF Len(parts) > 1 THEN Tail(parts) ELSE parts
      found == SelectSeq([i \in DOMAIN subs |-> Search(subs[i], what, rest)], LAMBDA f : f # {}) IN
  CASE Len(parts) = 1 /\ own # 0 -> {list[own]}
    [] Len(parts) > 1 -> IF subs = <<>> THEN {} ELSE Search(subs[1], what, rest)
    [] OTHER -> IF found = <<>> THEN {} ELSE found[1]

Bare(parts) == <<Last(parts)>>
The(S) == CHOOSE x \in S : TRUE

(* resolve_typedef: one level, by the bare name. *)
Resolve(m, type) ==
  LET td == IF type.kind = "struct" THEN Search(m, "typedefs", Bare(type.ref)) ELSE {} IN
  IF td = {} THEN type ELSE The(td).type

RECURSIVE CppNames(_, _)
(* The declared names in cpp_type's text of a type. *)
CppNames(m, t) ==
  LET type == Resolve(m, t) IN
  CASE type.elem # <<>> -> CppNames(m, type.elem[1])
    [] type.kind = "struct" -> {Last(type.ref)}
    [] OTHER -> {}

(* A statement moves the value at a place, or runs a body for each element *)
(* of it.                                                                  *)
Statement(do, kind, place, body) == [do |-> do, kind |-> kind, place |-> place, body |-> body]
Value(kind, place) == <<Statement("value", kind, place, <<>>)>>
EachOf(place, body) == <<Statement("each", "", place, body)>>
Element(place) == Append(place, "[]")
GenerateFailure == <<Statement("fail", "", <<>>, <<>>)>>

RECURSIVE AppendEncode(_, _, _, _), AppendDecode(_, _, _, _)
(* The statements that write a value; visited holds the structs it is in.  *)
AppendEncode(m, t, place, visited) ==
  LET type == Resolve(m, t)
      struct == Search(m, "structs", type.ref)
      fields == The(struct).fields
      elements == EachOf(place, AppendEncode(m, type.elem[1], Element(place), visited)) IN
  CASE type.kind = "sequence" ->
         IF type.elem[1].kind = "octet" THEN Value("bytes", place) ELSE Value("ulong", place) \o elements
    [] type.kind = "array" -> elements
    [] type.kind # "struct" -> Value(type.kind, place)
    [] Search(m, "enums", type.ref) # {} -> Value("long", place)
    [] struct = {} \/ Last(type.ref) \in visited -> GenerateFailure
    [] OTHER -> FlattenSeq([i \in DOMAIN fields |->
                  AppendEncode(m, fields[i].type, Append(place, fields[i].name), visited \cup {Last(type.ref)})])

(* The size of a sequence is read before its elements. *)
DecodeSize(place) == Value("ulong", place)

(* The statements that read one, each of which may give up. *)
AppendDecode(m, t, place, visited) ==
  LET type == Resolve(m, t)
      struct == Search(m, "structs", type.ref)
      fields == The(struct).fields
      elements == EachOf(place, AppendDecode(m, type.elem[1], Element(place), visited)) IN
  CASE type.kind = "sequence" ->
         IF type.elem[1].kind = "octet" THEN Value("bytes", place) ELSE DecodeSize(place) \o elements
    [] type.kind = "array" -> elements
    [] type.kind # "struct" -> Value(type.kind, place)
    [] Search(m, "enums", type.ref) # {} -> Value("long", place)
    [] struct = {} \/ Last(type.ref) \in visited -> GenerateFailure
    [] OTHER -> FlattenSeq([i \in DOMAIN fields |->
                  AppendDecode(m, fields[i].type, Append(place, fields[i].name), visited \cup {Last(type.ref)})])

Codec(m, s) ==
  LET each(Append1(_, _, _, _)) ==
        FlattenSeq([i \in DOMAIN s.fields |-> Append1(m, s.fields[i].type, <<s.fields[i].name>>, {})]) IN
  [marshal |-> each(AppendEncode), unmarshal |-> each(AppendDecode),
   keys |-> SelectSeq([i \in DOMAIN s.fields |-> IF s.fields[i].key THEN s.fields[i].name ELSE ""],
                      LAMBDA n : n # "")]

Declaration(name, uses, codec) == [name |-> name, uses |-> uses, codec |-> codec]
NoCodec == [marshal |-> <<>>, unmarshal |-> <<>>, keys |-> <<>>]

RECURSIVE EmitModule(_, _)
(* Aliases, then enums, then structs with their codecs, then submodules.   *)
EmitModule(root, m) ==
  [i \in DOMAIN m.typedefs |-> Declaration(m.typedefs[i].name, CppNames(root, m.typedefs[i].type), NoCodec)]
  \o [i \in DOMAIN m.enums |-> Declaration(m.enums[i].name, {}, NoCodec)]
  \o [i \in DOMAIN m.structs |->
        Declaration(m.structs[i].name,
                    UNION {CppNames(root, m.structs[i].fields[k].type) : k \in DOMAIN m.structs[i].fields},
                    Codec(root, m.structs[i]))]
  \o FlattenSeq([i \in DOMAIN m.modules |-> EmitModule(root, m.modules[i])])

RECURSIVE MayFail(_)
MayFail(statements) == \E i \in DOMAIN statements : statements[i].do = "fail" \/ MayFail(statements[i].body)

(* generate: the header, or nothing. *)
Generate(m) ==
  LET header == EmitModule(m, m) IN
  IF \E i \in DOMAIN header : MayFail(header[i].codec.marshal) \/ MayFail(header[i].codec.unmarshal)
  THEN {} ELSE {header}

-----------------------------------------------------------------------------
(* References the checks compare with: the IDL text of a module, and the   *)
(* rule of IDL and C++ that a name is declared before it is used.          *)

RECURSIVE TypeText(_), ModuleText(_)
TypeText(t) ==
  CASE t.kind = "sequence" -> <<"sequence", "<">> \o TypeText(t.elem[1]) \o <<">">>
    [] t.kind = "struct" -> FlattenSeq([i \in DOMAIN t.ref |-> IF i = 1 THEN <<t.ref[1]>> ELSE <<"::", t.ref[i]>>])
    [] t.kind = "ulong_long" -> <<"unsigned", "long", "long">>
    [] t.kind = "ulong" -> <<"unsigned", "long">>
    [] t.kind = "ushort" -> <<"unsigned", "short">>
    [] t.kind = "long_long" -> <<"long", "long">>
    [] OTHER -> <<t.kind>>
FieldText(f) ==
  (IF f.key THEN <<"@", "key">> ELSE <<>>)
  \o (IF f.type.kind = "array"
      THEN TypeText(f.type.elem[1]) \o <<f.name, "[", ToString(f.type.size), "]">>
      ELSE TypeText(f.type) \o <<f.name>>) \o <<";">>
Each(Text(_), list) == FlattenSeq([i \in DOMAIN list |-> Text(list[i])])
EnumText(e) == <<"enum", e.name, "{">> \o Each(LAMBDA v : <<v, ",">>, e.values) \o <<"}", ";">>
StructText(s) == <<"struct", s.name, "{">> \o Each(FieldText, s.fields) \o <<"}", ";">>
TypedefText(td) == <<"typedef">> \o TypeText(td.type) \o <<td.name, ";">>
ModuleText(m) ==
  Each(LAMBDA sub : <<"module", sub.name, "{">> \o ModuleText(sub) \o <<"}", ";">>, m.modules)
    \o Each(EnumText, m.enums) \o Each(StructText, m.structs) \o Each(TypedefText, m.typedefs)
=============================================================================
