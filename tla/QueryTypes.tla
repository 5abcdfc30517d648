----------------------------- MODULE QueryTypes -----------------------------
(***************************************************************************)
(* What a client asks for: icann-rdap-client/src/rdap/qtype.rs.            *)
(*                                                                         *)
(* A query is its type and a value: a text, an address, a network or a     *)
(* number.  The parsers of addresses, networks and numbers are given.      *)
(***************************************************************************)
EXTENDS DnsNames

CONSTANTS Networks,     \* the texts that parse as a CIDR, and what they parse as
          Numerals,     \* the texts that parse as a u32, and what they parse as
          Encoded       \* the tokens that a URL has to encode, and their encodings

Encodings == {Encoded[token] : token \in DOMAIN Encoded}

(* A text as it is typed or shown: nothing in it is encoded.               *)
IsPlain(text) == text \in Seq(STRING) /\ \A i \in DOMAIN text : text[i] \notin Encodings

(* What ends a segment of a path is encoded, and what is encoded is still  *)
(* told apart.  Neither IDNA nor lower case makes a token look encoded.    *)
ASSUME EncodedAssumption ==
  /\ {"/", "?", "#"} \subseteq DOMAIN Encoded
  /\ Encodings \subseteq STRING \ DOMAIN Encoded
  /\ \A s, t \in DOMAIN Encoded : Encoded[s] = Encoded[t] => s = t
  /\ \A token \in DOMAIN ALabels : ALabels[token] \in STRING \ Encodings
  /\ \A token \in DOMAIN CaseFold : CaseFold[token] \in STRING \ Encodings

(* What is parsed is written as a text that is parsed as the same.         *)
ASSUME AddressesAssumption ==
  \A text \in DOMAIN IpAddresses :
    LET ip == IpAddresses[text]
    IN /\ DOMAIN ip = {"version", "parts", "shown"} /\ ip.version \in {"v4", "v6"}
       /\ IsPlain(ip.shown) /\ ip.shown \in DOMAIN IpAddresses

ASSUME NetworksAssumption ==
  \A text \in DOMAIN Networks :
    LET network == Networks[text]
        canonical == network.first \o <<"/">> \o network.length
    IN /\ DOMAIN network = {"version", "block", "first", "length"}
       /\ network.version \in {"v4", "v6"} /\ network.block \in Seq(SUBSET Nat)
       /\ IsPlain(network.first) /\ IsPlain(network.length)
       /\ canonical \in DOMAIN Networks /\ Networks[canonical].block = network.block

(* A number is a token of its own.                                         *)
ASSUME NumeralsAssumption ==
  \A text \in DOMAIN Numerals :
    LET numeral == Numerals[text]
    IN /\ IsPlain(text) /\ text = <<text[1]>> /\ text[1] # "-"
       /\ numeral.shown \in DOMAIN Numerals /\ Numerals[numeral.shown].number = numeral.number

QueryError(error) == [type |-> "error", value |-> error]
Query(type, value) == [type |-> type, value |-> value]

Schemes == {"http://", "https://"}
AutnumPrefix == {"a", "A", "s", "S"}

IsUrl(text) == text # <<>> /\ text[1] \in Schemes

(* parse_cidr: of the two parsers, the strict one reads a prefix without   *)
(* dots and colons, the other one ignores host bits.                       *)
IsCidr(text) == Holds(text, "/") /\ text \in DOMAIN Networks

IsDomainLike(text) == Holds(text, ".") /\ IsUnicodeDomainName(text)

(* is_nameserver: three labels, the first of which begins with "ns".       *)
IsNameserver(text) ==
  LET name == IF EndsWith(text, <<".">>) THEN SubSeq(text, 1, Len(text) - 1) ELSE text
  IN /\ Cardinality({i \in DOMAIN name : name[i] = "."}) = 2
     /\ ~EndsWith(name, <<".">>)
     /\ IsLdhDomainName(name)
     /\ Folded(name)[1] = "ns"

IsOneWord(text) == \A i \in DOMAIN text : text[i] \notin Spaces \union {".", ",", "\""}

OfVersion(version, v4, v6) == IF version = "v4" THEN v4 ELSE v6

NamedQuery(text) ==
  CASE ~IsDomainName(text) -> QueryError("DomainNameError")
    [] IsNameserver(text) -> Query("Nameserver", text)
    [] OTHER -> Query("Domain", text)

(* QueryType::from_str, which tries these in turn.                         *)
ParseQuery(text) ==
  LET number == TrimStart(text, AutnumPrefix)
  IN CASE IsUrl(text) -> Query("Url", text)
       [] number \in DOMAIN Numerals -> Query("AsNumber", Numerals[number])
       [] IsIp(text) -> Query(OfVersion(Ip(text).version, "IpV4Addr", "IpV6Addr"), Ip(text))
       [] IsCidr(text) -> Query(OfVersion(Networks[text].version, "IpV4Cidr", "IpV6Cidr"), Networks[text])
       [] ~IsUrl(text) /\ ~IsIp(text) /\ IsDomainLike(text) -> NamedQuery(text)
       [] OTHER -> IF IsOneWord(text) THEN Query("Entity", text) ELSE QueryError("AmbiquousQueryType")

---------------------------------------------------------------------------
(* QueryType::query_url                                                    *)

(* A slip the runs must catch: a value goes into the path as it is.        *)
PctEncodeNothing(text) == text

(* PctString::encode                                                       *)
PctEncode(text) ==
  [i \in DOMAIN text |-> IF text[i] \in DOMAIN Encoded THEN Encoded[text[i]] ELSE text[i]]

(* The paths of the searches.                                              *)
SearchPath == [
  EntityNameSearch |-> <<"entities", "?", "fn", "=">>,
  EntityHandleSearch |-> <<"entities", "?", "handle", "=">>,
  DomainNameSearch |-> <<"domains", "?", "name", "=">>,
  DomainNsNameSearch |-> <<"domains", "?", "nsLdhName", "=">>,
  DomainNsIpSearch |-> <<"domains", "?", "nsIp", "=">>,
  NameserverNameSearch |-> <<"nameserver", "?", "name", "=", "=">>,
  NameserverIpSearch |-> <<"nameservers", "?", "ip", "=">>]

(* A nameserver is asked for by its A-labels, a domain by the name as it   *)
(* was given.                                                              *)
QueryPath(query) ==
  LET value == query.value
      under(class, text) == <<class, "/">> \o PctEncode(text)
  IN CASE query.type \in {"IpV4Addr", "IpV6Addr"} -> under("ip", value.shown)
       [] query.type \in {"IpV4Cidr", "IpV6Cidr"} ->
            under("ip", value.first) \o <<"/">> \o PctEncode(value.length)
       [] query.type = "AsNumber" -> under("autnum", value.shown)
       [] query.type = "Domain" -> under("domain", TrimLeadingDot(value))
       [] query.type = "ALabel" -> under("domain", DomainToAscii(value))
       [] query.type = "Nameserver" -> under("nameserver", DomainToAscii(value))
       [] query.type = "Entity" -> under("entity", value)
       [] query.type = "Help" -> <<"help">>
       [] query.type \in DOMAIN SearchPath -> SearchPath[query.type] \o PctEncode(value)

QueryUrl(query, base) ==
  IF query.type = "Url" THEN query.value
  ELSE TrimEnd(base, {"/"}) \o <<"/">> \o QueryPath(query)

=============================================================================
