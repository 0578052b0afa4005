-------------------------------- MODULE XTypes --------------------------------
(***************************************************************************)
(* Type identity, dynamic data and compatibility of dds::xtypes.           *)
(*                                                                         *)
(* A JSON document is a sequence of tokens: the six punctuators, and names *)
(* that stand for strings; numbers and literals are tokens of their own.   *)
(* Escaping, white space and digits are left out, so Skip moves one token  *)
(* where skip_json_value moves over the characters of one.                 *)
(***************************************************************************)
EXTENDS Integers, Sequences, SequencesExt, FiniteSets

CONSTANTS Names,        \* field names, which are also the string values
          Rank,         \* Names -> Nat, the order of operator< on them
          MaxJsonDepth  \* kMaxJsonDepth

Punctuation == {"{", "}", "[", "]", ",", ":"}
Number == "0"
Literals == {"true", "false", "null"}
Scalars == Names \cup Literals \cup {Number}

-----------------------------------------------------------------------------
(* Identity. A field is [name, kind, optional, fields, element]: fields is *)
(* the sequence of a struct's fields, element a sequence of at most one.   *)

SortedFields_AsDeclared(fields) == fields
SortedFields(fields) == SortSeq(fields, LAMBDA f, g : Rank[f.name] < Rank[g.name])

RECURSIVE CanonicalField(_), CanonicalFields(_)
(* append_canonical_field: keys in lexicographic order, "element" and      *)
(* "fields" only when there are any.                                       *)
CanonicalField(f) ==
  <<"{">> \o (IF f.element # <<>> THEN <<"element">> \o CanonicalField(f.element[1]) ELSE <<>>)
          \o (IF f.fields # <<>> THEN <<"fields">> \o CanonicalFields(f.fields) ELSE <<>>)
          \o <<"kind", f.kind, "name", f.name, "optional", ToString(f.optional), "}">>
CanonicalFields(fields) ==
  <<"[">> \o FoldLeft(LAMBDA text, f : text \o CanonicalField(f), <<>>, SortedFields(fields))
          \o <<"]">>

CanonicalJson(td) ==
  <<"{", "fields">> \o CanonicalFields(td.fields) \o <<"name", td.name, "version", ToString(td.version), "}">>

(* identify(); the first eight bytes of SHA-256 are taken to be injective. *)
Identify(td) == [name |-> td.name, hash |-> CanonicalJson(td)]

(* TypeRegistry::register_type: the first type of a name stays. *)
RegisterType(types, td) ==
  IF td.name \in DOMAIN types
  THEN [types |-> types, ok |-> types[td.name] = Identify(td)]
  ELSE [types |-> [n \in DOMAIN types \cup {td.name} |->
                     IF n = td.name THEN Identify(td) ELSE types[n]],
        ok |-> TRUE]

-----------------------------------------------------------------------------
(* JSON. Reading functions return the index after what they read, or 0.    *)

At(s, i) == IF i \in 1 .. Len(s) THEN s[i] ELSE "end"

RECURSIVE Skip(_, _, _), SkipMembers(_, _, _), SkipElements(_, _, _)
(* skip_json_value: objects and arrays nest, any other value is a token. *)
Skip(s, i, depth) ==
  IF depth > MaxJsonDepth THEN 0
  ELSE CASE At(s, i) = "{" -> IF At(s, i + 1) = "}" THEN i + 2 ELSE SkipMembers(s, i + 1, depth)
         [] At(s, i) = "[" -> IF At(s, i + 1) = "]" THEN i + 2 ELSE SkipElements(s, i + 1, depth)
         [] At(s, i) \in Scalars -> i + 1
         [] OTHER -> 0

SkipMembers(s, i, depth) ==
  LET j == IF At(s, i) \in Names /\ At(s, i + 1) = ":" THEN Skip(s, i + 2, depth + 1) ELSE 0 IN
  CASE j = 0 -> 0
    [] At(s, j) = "," -> SkipMembers(s, j + 1, depth)
    [] OTHER -> IF At(s, j) = "}" THEN j + 1 ELSE 0

SkipElements_SameDepth(s, i, depth) ==
  LET j == Skip(s, i, depth) IN
  CASE j = 0 -> 0
    [] At(s, j) = "," -> SkipElements(s, j + 1, depth)
    [] OTHER -> IF At(s, j) = "]" THEN j + 1 ELSE 0

SkipElements(s, i, depth) ==
  LET j == Skip(s, i, depth + 1) IN
  CASE j = 0 -> 0
    [] At(s, j) = "," -> SkipElements(s, j + 1, depth)
    [] OTHER -> IF At(s, j) = "]" THEN j + 1 ELSE 0

(* parse_field_value: a number becomes a double, a string a string; a      *)
(* nested value is skipped and not stored.                                 *)
ValueAt(s, i) ==
  CASE s[i] \in Names -> [kind |-> "String", v |-> s[i]]
    [] s[i] = Number -> [kind |-> "Double", v |-> s[i]]
    [] s[i] = "null" -> [kind |-> "Null", v |-> s[i]]
    [] OTHER -> [kind |-> "Bool", v |-> s[i]]
FieldValue(s, i) ==
  [next |-> Skip(s, i, 0),
   stored |-> IF At(s, i) \in Scalars THEN {ValueAt(s, i)} ELSE {}]

HasField(td, name) == \E i \in 1 .. Len(td.fields) : td.fields[i].name = name

Stored(fields, name, value) ==
  [n \in DOMAIN fields \cup {name} |-> IF n = name THEN value ELSE fields[n]]

(* DynamicData::from_json after the opening brace: each member is applied  *)
(* as it is read.                                                          *)
RECURSIVE ReadMembers(_, _, _, _)
ReadMembers(td, fields, s, i) ==
  LET key == At(s, i)
      value == FieldValue(s, i + 2)
      now == IF HasField(td, key) /\ value.stored # {}
             THEN Stored(fields, key, CHOOSE v \in value.stored : TRUE) ELSE fields IN
  CASE key \notin Names \/ At(s, i + 1) # ":" \/ value.next = 0 -> [ok |-> FALSE, fields |-> fields]
    [] At(s, value.next) = "," -> ReadMembers(td, now, s, value.next + 1)
    [] OTHER -> [ok |-> At(s, value.next) = "}" /\ value.next = Len(s), fields |-> now]

FromJson_EmptyAndMore(td, fields, s) ==
  CASE At(s, 1) # "{" -> [ok |-> FALSE, fields |-> fields]
    [] At(s, 2) = "}" -> [ok |-> TRUE, fields |-> fields]
    [] OTHER -> ReadMembers(td, fields, s, 2)

FromJson(td, fields, s) ==
  CASE At(s, 1) # "{" -> [ok |-> FALSE, fields |-> fields]
    [] At(s, 2) = "}" -> [ok |-> Len(s) = 2, fields |-> fields]
    [] OTHER -> ReadMembers(td, fields, s, 2)

(* DynamicData::set stores under declared names only. *)
SetField(td, fields, name, value) ==
  IF HasField(td, name) THEN Stored(fields, name, value) ELSE fields

(* value_to_json: integers and doubles print alike, bytes print as the     *)
(* string of their base64 text.                                            *)
ValueToJson(v) ==
  CASE v.kind = "Null" -> "null"
    [] v.kind \in {"Int64", "Double"} -> Number
    [] OTHER -> v.v

(* DynamicData::to_json: members in the order of their names. *)
ToJson(fields) ==
  LET names == SetToSortSeq(DOMAIN fields, LAMBDA a, b : Rank[a] < Rank[b])
      member(n) == <<n, ":", ValueToJson(fields[n])>> IN
  <<"{">> \o FoldLeft(LAMBDA text, n : text \o (IF text = <<>> THEN <<>> ELSE <<",">>) \o member(n),
                      <<>>, names) \o <<"}">>

-----------------------------------------------------------------------------
(* check_compatibility: what the reader expects must be there and of the   *)
(* same kind, unless it is optional and absent.                            *)
CheckCompatibility(writer, reader) ==
  \A i \in 1 .. Len(reader.fields) :
    LET rf == reader.fields[i]
        wf == {writer.fields[j] : j \in {k \in 1 .. Len(writer.fields) : writer.fields[k].name = rf.name}} IN
    IF wf = {} THEN rf.optional ELSE \A f \in wf : f.kind = rf.kind

-----------------------------------------------------------------------------
(* References the checks compare with. *)

RECURSIVE SameField(_, _), SameFields(_, _)
(* Equal but for the order of the fields at every level. *)
SameField(f, g) ==
  /\ f.name = g.name /\ f.kind = g.kind /\ f.optional = g.optional
  /\ Len(f.element) = Len(g.element)
  /\ f.element # <<>> => SameField(f.element[1], g.element[1])
  /\ SameFields(f.fields, g.fields)
SameFields(fs, gs) ==
  /\ Len(fs) = Len(gs)
  /\ \A i \in 1 .. Len(fs) : \E j \in 1 .. Len(gs) : SameField(fs[i], gs[j])
SameType(t, u) == t.name = u.name /\ t.version = u.version /\ SameFields(t.fields, u.fields)

RECURSIVE IsValue(_, _), IsList(_, _, _)
(* The JSON grammar by cutting the text in two, with depth levels to go. *)
IsValue(t, depth) ==
  \/ Len(t) = 1 /\ t[1] \in Scalars
  \/ /\ Len(t) >= 2
     /\ \/ t[1] = "{" /\ Last(t) = "}" /\ (Len(t) = 2 \/ (depth > 0 /\ IsList(SubSeq(t, 2, Len(t) - 1), depth - 1, TRUE)))
        \/ t[1] = "[" /\ Last(t) = "]" /\ (Len(t) = 2 \/ (depth > 0 /\ IsList(SubSeq(t, 2, Len(t) - 1), depth - 1, FALSE)))
IsList(t, depth, keyed) ==
  \E k \in 1 .. Len(t) :
    /\ k = Len(t) \/ t[k + 1] = ","
    /\ IF keyed THEN k > 2 /\ t[1] \in Names /\ t[2] = ":" /\ IsValue(SubSeq(t, 3, k), depth)
                ELSE IsValue(SubSeq(t, 1, k), depth)
    /\ k = Len(t) \/ IsList(SubSeq(t, k + 2, Len(t)), depth, keyed)

(* Where the text of an object, up to the first place that is wrong, gives *)
(* name a scalar: after the brace or a list of members and a comma.        *)
Assigned(t, name) ==
  {i + 2 : i \in {k \in 2 .. Len(t) - 2 :
     /\ t[1] = "{" /\ t[k] = name /\ t[k + 1] = ":" /\ t[k + 2] \in Scalars
     /\ k = 2 \/ (t[k - 1] = "," /\ IsList(SubSeq(t, 2, k - 2), MaxJsonDepth, TRUE))}}
=============================================================================
