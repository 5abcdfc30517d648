---------------------------- MODULE LabelSearch ----------------------------
(***************************************************************************)
(* The search index of the domain names: a prefix tree for every suffix    *)
(* (icann-rdap-srv/src/storage/mem/label_search.rs).                       *)
(*                                                                         *)
(* A text is a sequence of characters.  The index maps a pair of a suffix  *)
(* and a prefix, the two sides of a dot, to a value; the tree itself       *)
(* (ab_radix_trie) is what finds the prefixes that begin with a text.      *)
(***************************************************************************)
EXTENDS Integers, Sequences, FiniteSets, TLC

CONSTANT MultiByte   \* the characters whose UTF-8 form is two bytes long

SE == INSTANCE SequencesExt

NoIndex == <<>>
Root == <<>>

Places(c, text) == {i \in DOMAIN text : text[i] = c}
Before(i, text) == SubSeq(text, 1, i - 1)
After(i, text) == SubSeq(text, i + 1, Len(text))

(* Every dot but a first one parts a name; the root holds all of it.       *)
Keys(text) ==
  {<<After(i, text), Before(i, text)>> : i \in Places(".", text) \ {1}} \union {<<Root, text>>}

(* str::find counts bytes, chars().count() and chars().nth(..) characters. *)
ByteIndex(i, text) == (i - 1) + Cardinality({j \in 1..(i - 1) : text[j] \in MultiByte})

Trim(text) ==
  LET kept == {i \in DOMAIN text : text[i] # "."}
  IN IF kept = {} THEN <<>>
     ELSE SubSeq(text, CHOOSE i \in kept : \A j \in kept : i <= j, Len(text))

Outcome(outcome, hits) == [outcome |-> outcome, hits |-> hits]

(* The values whose suffix is what comes after the star, without its dots, *)
(* and whose prefix begins with what comes before.                         *)
Hits(index, star, text) ==
  {index[k] : k \in {k \in DOMAIN index : /\ k[1] = Trim(After(star, text))
                                          /\ SE!IsPrefix(Before(star, text), k[2])}}

SearchLabels(index, text) ==
  IF Cardinality(Places("*", text)) # 1 THEN Outcome("error", {})
  ELSE LET star == CHOOSE i \in Places("*", text) : TRUE
           byte == ByteIndex(star, text)
           next == byte + 2          \* nth(star + 1), counted from one
       IN CASE byte # Len(text) - 1 /\ next > Len(text) -> Outcome("panic", {})
            [] byte # Len(text) - 1 /\ next <= Len(text) /\ text[next] # "." -> Outcome("error", {})
            [] OTHER -> IF star = 1 THEN Outcome("error", {})
                        ELSE Outcome("found", Hits(index, star, text))
=============================================================================
