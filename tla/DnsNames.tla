------------------------------ MODULE DnsNames ------------------------------
(***************************************************************************)
(* Texts and domain names: icann-rdap-common/src/check/string.rs and       *)
(* dns_types.rs.                                                           *)
(*                                                                         *)
(* A text is a sequence of tokens.  A token is one character, or a run of  *)
(* letters and digits that nothing here looks into.                        *)
(***************************************************************************)
EXTENDS Integers, Sequences, FiniteSets, TLC

SE == INSTANCE SequencesExt

CONSTANTS Spaces,       \* the tokens that are white space
          Marks,        \* ASCII punctuation other than the dot and the hyphen
          ALabels,      \* the tokens that are not ASCII, and what IDNA makes of each
          CaseFold,     \* the tokens in upper case, and their lower case
          IpAddresses   \* the texts that parse as an IP address, and what they parse as

CONSTANT IllTyped       \* a value of another type than the reader expects

ASSUME TokenAssumption ==
  /\ "." \notin Spaces \union Marks \union DOMAIN ALabels
  /\ Spaces \intersect Marks = {}
  /\ "-" \notin DOMAIN CaseFold

(* A token of ALabels that IDNA cannot convert has this for its A-label.   *)
NoALabel == "none"

Text(token) == <<token>>

Folded(text) == [i \in DOMAIN text |-> IF text[i] \in DOMAIN CaseFold THEN CaseFold[text[i]]
                                       ELSE text[i]]

(* str::eq_ignore_ascii_case                                               *)
SameIgnoringCase(a, b) == Folded(a) = Folded(b)

(* IpAddr::from_str: an address is its version, its parts, and the text    *)
(* it is written as.                                                       *)
IsIp(text) == text \in DOMAIN IpAddresses
Ip(text) == IpAddresses[text]

StartsWith(text, prefix) == SE!IsPrefix(prefix, text)
EndsWith(text, suffix) == SE!IsSuffix(suffix, text)
Holds(text, token) == \E i \in DOMAIN text : text[i] = token

(* str::trim_start_matches and str::trim_end_matches                       *)
TrimStart(text, tokens) ==
  LET kept == {i \in DOMAIN text : text[i] \notin tokens}
  IN IF kept = {} THEN <<>> ELSE SubSeq(text, CHOOSE i \in kept : \A j \in kept : i <= j, Len(text))

TrimEnd(text, tokens) ==
  LET kept == {i \in DOMAIN text : text[i] \notin tokens}
  IN IF kept = {} THEN <<>> ELSE SubSeq(text, 1, CHOOSE i \in kept : \A j \in kept : j <= i)

(* str::rsplit_once: what comes after the last such token.                 *)
AfterLast(text, token) ==
  SubSeq(text, 1 + CHOOSE i \in DOMAIN text :
                     text[i] = token /\ \A j \in DOMAIN text : text[j] = token => j <= i, Len(text))

(* str::split_terminator('.'): an empty piece at the end is none.          *)
Labels(text) ==
  LET cuts == {0, Len(text) + 1} \union {i \in DOMAIN text : text[i] = "."}
      pieces == {p \in cuts \X cuts : /\ p[1] < p[2]
                                      /\ ~\E c \in cuts : p[1] < c /\ c < p[2]
                                      /\ p # <<Len(text), Len(text) + 1>>}
  IN {SubSeq(text, p[1] + 1, p[2] - 1) : p \in pieces}

---------------------------------------------------------------------------
(* What the checks and the parsers ask of a text                           *)

IsBlank(text) == \A i \in DOMAIN text : text[i] \in Spaces

AnyBlank(texts) == texts = <<>> \/ \E i \in DOMAIN texts : IsBlank(texts[i])

IsLdh(token) == token # "." /\ token \notin Spaces \union Marks \union DOMAIN ALabels

IsLdhString(text) == text # <<>> /\ \A i \in DOMAIN text : IsLdh(text[i])

IsLdhDomainName(text) ==
  text = <<".">> \/ (text # <<>> /\ \A label \in Labels(text) : IsLdhString(label))

IsUnicodeDomainName(text) ==
  text = <<".">> \/ (text # <<>> /\ \A i \in DOMAIN text : text[i] \notin Spaces \union Marks)

---------------------------------------------------------------------------
(* DomainName                                                              *)

(* idna::domain_to_ascii: lower case, every label as an A-label.           *)
IsIdna(text) == \A i \in DOMAIN text : text[i] \in DOMAIN ALabels => ALabels[text[i]] # NoALabel

DomainToAscii(text) ==
  [i \in DOMAIN text |-> IF text[i] \in DOMAIN ALabels THEN ALabels[text[i]] ELSE Folded(text)[i]]

(* DomainName::from_str                                                    *)
IsDomainName(text) == IsUnicodeDomainName(text) /\ IsIdna(text)

TrimLeadingDot(name) == IF name = <<".">> THEN name ELSE TrimStart(name, {"."})

=============================================================================
