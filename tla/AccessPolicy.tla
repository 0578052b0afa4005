----------------------------- MODULE AccessPolicy -----------------------------
(***************************************************************************)
(* The topic rules of dds::security::AccessPolicy and the glob matcher     *)
(* under them.  A pattern is the sequence of its chunks (GlobSyntax): a    *)
(* chunk has a star before it or not, and is bad or a sequence of items,   *)
(* each the set of characters it takes.  glob_match places one chunk after *)
(* the other and never moves an earlier one again.                         *)
(***************************************************************************)
EXTENDS Integers, Sequences

Permissions == {"Read", "Write"}

-----------------------------------------------------------------------------
(* match_chunk: the items take what the name has from character i + 1 on. *)
TakesAt(chunk, name, i) ==
  /\ i + Len(chunk.items) <= Len(name)
  /\ \A j \in 1 .. Len(chunk.items) : name[i + j] \in chunk.items[j]

(* Where the chunk may begin: behind a star one character further each     *)
(* time, never past a slash.                                               *)
Begins(chunk, name, from) ==
  {i \in from .. Len(name) : (chunk.star \/ i = from) /\ \A j \in from + 1 .. i : name[j] # "/"}

(* The last chunk has to use up the name; a star at the end of the pattern *)
(* is a last chunk without items.                                          *)
Suits(pattern, k, name, i) ==
  /\ TakesAt(pattern[k], name, i)
  /\ k = Len(pattern) => i + Len(pattern[k].items) = Len(name)

Least(S) == CHOOSE i \in S : \A j \in S : i <= j
Stuck == -1

(* Chunk k is put in the first place that suits it. *)
After(pattern, k, name, from) ==
  LET places == {i \in Begins(pattern[k], name, from) : Suits(pattern, k, name, i)} IN
  IF from = Stuck \/ places = {} THEN Stuck ELSE Least(places) + Len(pattern[k].items)

(* How much of the name is used when k chunks are placed. *)
Used(pattern, name) ==
  LET at[k \in 0 .. Len(pattern)] == IF k = 0 THEN 0 ELSE After(pattern, k, name, at[k - 1]) IN at

(* A syntax error is reported where match_chunk meets it, and when the name*)
(* did not get that far, by the check of what is left of the pattern.      *)
Met(pattern, at, k) == pattern[k].bad /\ at[k - 1] # Stuck
Left_Unchecked(pattern, at, k) == FALSE
Left(pattern, at, k) == pattern[k].bad /\ at[k - 1] = Stuck

GlobMatch(pattern, name) ==
  LET at == Used(pattern, name)
      malformed == \E k \in 1 .. Len(pattern) : Met(pattern, at, k) \/ Left(pattern, at, k) IN
  [malformed |-> malformed, matched |-> ~malformed /\ at[Len(pattern)] = Len(name)]

-----------------------------------------------------------------------------
(* AccessPolicy::allows: the first rule that matches decides, a malformed  *)
(* one is passed over, no rule denies.                                     *)
Allows(rules, topic, perm) ==
  \E i \in DOMAIN rules :
    /\ GlobMatch(rules[i].pattern, topic).matched
    /\ perm \in rules[i].allow
    /\ \A j \in 1 .. i - 1 : ~GlobMatch(rules[j].pattern, topic).matched

-----------------------------------------------------------------------------
(* What a pattern means: its chunks can be placed in the name so that they *)
(* use it up, wherever each of them begins.                                *)
Placed(pattern, name, at) ==
  /\ at[0] = 0 /\ at[Len(pattern)] = Len(name)
  /\ \A k \in 1 .. Len(pattern) :
       \E i \in Begins(pattern[k], name, at[k - 1]) :
         TakesAt(pattern[k], name, i) /\ at[k] = i + Len(pattern[k].items)
Means(pattern, name) == \E at \in [0 .. Len(pattern) -> 0 .. Len(name)] : Placed(pattern, name, at)

(* No class between two stars takes a slash among other characters.  With  *)
(* one that does ("*[^a]*", "b/") the first place may be the wrong one.    *)
SlashesPlain(pattern) ==
  \A k \in 1 .. Len(pattern) - 1 : \A j \in DOMAIN pattern[k].items :
    pattern[k].star /\ "/" \in pattern[k].items[j] => pattern[k].items[j] = {"/"}
=============================================================================
