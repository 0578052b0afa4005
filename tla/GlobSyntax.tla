------------------------------ MODULE GlobSyntax ------------------------------
(***************************************************************************)
(* How glob_match reads a pattern: scan_chunk cuts it into chunks, each    *)
(* preceded by stars or not, and match_chunk reads a chunk as items.  A    *)
(* pattern is a sequence of characters, an item the set of characters it   *)
(* takes; Ord orders the characters for the ranges of a class.             *)
(***************************************************************************)
EXTENDS Integers, Sequences

CONSTANT Ord    \* characters -> Nat

Chars == DOMAIN Ord
Drop(s, n) == SubSeq(s, n + 1, Len(s))
Starts(s, c) == s # <<>> /\ s[1] = c

-----------------------------------------------------------------------------
RECURSIVE Stars(_), ChunkEnd(_, _, _)
Stars(p) == IF Starts(p, "*") THEN 1 + Stars(Tail(p)) ELSE 0

(* Where the chunk ends: before the next star outside brackets. *)
ChunkEnd(p, i, inrange) ==
  CASE i > Len(p) -> Len(p)
    [] p[i] = "\\" -> ChunkEnd(p, i + 2, inrange)
    [] p[i] = "[" -> ChunkEnd(p, i + 1, TRUE)
    [] p[i] = "]" -> ChunkEnd(p, i + 1, FALSE)
    [] p[i] = "*" /\ ~inrange -> i - 1
    [] OTHER -> ChunkEnd(p, i + 1, inrange)

ScanChunk(pattern) ==
  LET p == Drop(pattern, Stars(pattern))
      n == ChunkEnd(p, 1, FALSE) IN
  [star |-> Stars(pattern) > 0, chunk |-> SubSeq(p, 1, n), rest |-> Drop(p, n)]

(* get_esc: the possibly escaped character that starts the chunk; something*)
(* must follow it.                                                         *)
GetEsc(c) ==
  LET d == IF Starts(c, "\\") THEN Tail(c) ELSE c IN
  IF c = <<>> \/ Starts(c, "-") \/ Starts(c, "]") \/ Len(d) < 2
  THEN [ok |-> FALSE] ELSE [ok |-> TRUE, char |-> d[1], rest |-> Tail(d)]

(* One range: two characters around a dash, or a single character. *)
RangeFrom(lo) ==
  IF ~lo.ok \/ ~Starts(lo.rest, "-") THEN [lo |-> lo, hi |-> lo] ELSE [lo |-> lo, hi |-> GetEsc(Tail(lo.rest))]
Between(lo, hi) == {ch \in Chars : Ord[lo] <= Ord[ch] /\ Ord[ch] <= Ord[hi]}

RECURSIVE Class(_, _, _), AfterRange(_, _, _)
(* The characters in the ranges of a class up to its "]". *)
Class(c, chars, nrange) ==
  IF Starts(c, "]") /\ nrange > 0
  THEN [ok |-> TRUE, chars |-> chars, rest |-> Tail(c)]
  ELSE AfterRange(RangeFrom(GetEsc(c)), chars, nrange)
AfterRange(range, chars, nrange) ==
  IF ~range.lo.ok \/ ~range.hi.ok THEN [ok |-> FALSE]
  ELSE Class(range.hi.rest, chars \cup Between(range.lo.char, range.hi.char), nrange + 1)

(* The item that a chunk starts with, negated or not. *)
Negated(item) == IF item.ok THEN [item EXCEPT !.chars = Chars \ @] ELSE item
Item(chunk) ==
  LET c == Tail(chunk) IN
  CASE chunk[1] = "[" -> IF Starts(c, "^") THEN Negated(Class(Tail(c), {}, 0)) ELSE Class(c, {}, 0)
    [] chunk[1] = "?" -> [ok |-> TRUE, chars |-> Chars \ {"/"}, rest |-> c]
    [] chunk[1] = "\\" -> IF c = <<>> THEN [ok |-> FALSE] ELSE [ok |-> TRUE, chars |-> {c[1]}, rest |-> Tail(c)]
    [] OTHER -> [ok |-> TRUE, chars |-> {chunk[1]}, rest |-> c]

RECURSIVE ItemsFrom(_, _, _), AfterItem(_, _, _), Chunks(_)
(* A chunk as its items; one with a syntax error is bad. *)
ItemsFrom(star, chunk, items) ==
  IF chunk = <<>> THEN [star |-> star, bad |-> FALSE, items |-> items]
  ELSE AfterItem(star, Item(chunk), items)
AfterItem(star, item, items) ==
  IF ~item.ok THEN [star |-> star, bad |-> TRUE, items |-> <<>>]
  ELSE ItemsFrom(star, item.rest, Append(items, item.chars))

(* The chunks of a pattern, of which all but the first have a star. *)
Chunks(pattern) ==
  LET sc == ScanChunk(pattern) IN
  IF pattern = <<>> THEN <<>> ELSE <<ItemsFrom(sc.star, sc.chunk, <<>>)>> \o Chunks(sc.rest)

-----------------------------------------------------------------------------
(* Reference: what the header says a pattern matches, over the pattern     *)
(* read from left to right without chunks, by trying every length for      *)
(* every star.                                                             *)
RECURSIVE Elements(_), Fits(_, _)
(* Stars and the characters one place may have, up to the first syntax     *)
(* error.                                                                  *)
Elements(p) ==
  CASE p = <<>> -> <<>>
    [] Starts(p, "*") -> <<[kind |-> "star"]>> \o Elements(Tail(p))
    [] OTHER -> IF Item(p).ok THEN <<[kind |-> "one", chars |-> Item(p).chars]>> \o Elements(Item(p).rest)
                ELSE <<[kind |-> "bad"]>>

Fits(elements, name) ==
  CASE elements = <<>> -> name = <<>>
    [] elements # <<>> /\ elements[1].kind = "star" ->
         \E n \in 0 .. Len(name) :
           /\ \A i \in 1 .. n : name[i] # "/"
           /\ Fits(Tail(elements), Drop(name, n))
    [] OTHER -> name # <<>> /\ name[1] \in elements[1].chars /\ Fits(Tail(elements), Tail(name))
=============================================================================
