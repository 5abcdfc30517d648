----------------------------- MODULE Registries -----------------------------
(***************************************************************************)
(* The bootstrap registries of IANA: icann-rdap-common/src/iana.rs, and    *)
(* how the client looks in them, icann-rdap-client/src/iana/bootstrap.rs.  *)
(*                                                                         *)
(* A registry is a sequence of services, a service a sequence of lists of  *)
(* texts.  What a look-up returns is a list of URLs or an error.           *)
(***************************************************************************)
EXTENDS QueryTypes

(* Which token is the end of which: <<"cc", "xn--54b7fta0cc">>.            *)
CONSTANT TokenEnds

ASSUME EndsAssumption ==
  /\ \A e \in TokenEnds : e[1] # e[2]
  /\ \A d, e \in TokenEnds : d[2] = e[1] => <<d[1], e[2]>> \in TokenEnds

RegistryError(error) == [error |-> error]
Urls(list) == [urls |-> list]
IsError(result) == "error" \in DOMAIN result

(* A service without lists makes every look-up that comes to it fail.      *)
NoList(services) == {s \in DOMAIN services : services[s] = <<>>}

(* An entry is found at its place, in the first list of its service.       *)
Places(services) ==
  UNION {{s} \X DOMAIN services[s][1] : s \in DOMAIN services \ NoList(services)}
EntryAt(services, place) == services[place[1]][1][place[2]]

UrlsOf(services, s) == Urls(services[s][Len(services[s])])

First(indices) == CHOOSE i \in indices : \A j \in indices : i <= j

(* The order of places, as they are read, and of numbers of two words.     *)
NotAbove(a, b) == a[1] < b[1] \/ (a[1] = b[1] /\ a[2] <= b[2])
FirstPlace(places) == CHOOSE p \in places : \A q \in places : NotAbove(p, q)
LastPlace(places) == CHOOSE p \in places : \A q \in places : NotAbove(q, p)

(* str::ends_with: the end may begin within a token.                       *)
EndsIn(ldh, tld) ==
  \/ EndsWith(ldh, tld)
  \/ /\ tld # <<>> /\ Len(tld) <= Len(ldh)
     /\ <<tld[1], ldh[Len(ldh) - Len(tld) + 1]>> \in TokenEnds
     /\ EndsWith(ldh, Tail(tld))

(* longest.0 < tld.len(), of two ends of one name.                         *)
IsLonger(a, b) ==
  \/ Len(a) > Len(b)
  \/ Len(a) = Len(b) /\ a # <<>> /\ <<b[1], a[1]>> \in TokenEnds

(* A slip the runs must catch: a service that is read later takes over.    *)
DnsUrlsLast(services, ldh) ==
  LET matching == {p \in Places(services) : EndsIn(ldh, EntryAt(services, p))}
  IN CASE NoList(services) # {} -> RegistryError("EmptyService")
       [] NoList(services) = {} /\ matching = {} -> RegistryError("NoBootstrapUrls")
       [] OTHER -> UrlsOf(services, LastPlace(matching)[1])

(* get_dns_bootstrap_urls: the longest entry that the name ends with, the  *)
(* first of those; the empty entry is the root.                            *)
DnsUrls(services, ldh) ==
  LET matching == {p \in Places(services) : EndsIn(ldh, EntryAt(services, p))}
      longest == {p \in matching :
                    \A q \in matching : ~IsLonger(EntryAt(services, q), EntryAt(services, p))}
  IN CASE NoList(services) # {} -> RegistryError("EmptyService")
       [] NoList(services) = {} /\ matching = {} -> RegistryError("NoBootstrapUrls")
       [] OTHER -> UrlsOf(services, FirstPlace(longest)[1])

(* A range is one or more numbers with hyphens between them.               *)
NumbersOf(range) ==
  LET first == IF Holds(range, "-") THEN SubSeq(range, 1, First({i \in DOMAIN range : range[i] = "-"}) - 1)
               ELSE range
      last == IF Holds(range, "-") THEN AfterLast(range, "-") ELSE range
  IN <<first, last>>

(* get_asn_bootstrap_urls: the first range that has the number, unless     *)
(* something before it cannot be read.                                     *)
AsnUrls(services, number) ==
  LET read == {p \in Places(services) : \A s \in NoList(services) : p[1] < s}
      ends(p) == NumbersOf(EntryAt(services, p))
      isRange(p) == ends(p)[1] \in DOMAIN Numerals /\ ends(p)[2] \in DOMAIN Numerals
      stops == {p \in read : ~isRange(p) \/ (/\ NotAbove(Numerals[ends(p)[1]].number, number)
                                             /\ NotAbove(number, Numerals[ends(p)[2]].number))}
  IN IF stops = {}
     THEN RegistryError(IF NoList(services) = {} THEN "NoBootstrapUrls" ELSE "EmptyService")
     ELSE IF isRange(FirstPlace(stops)) THEN UrlsOf(services, FirstPlace(stops)[1])
          ELSE RegistryError(IF ends(FirstPlace(stops))[1] \in DOMAIN Numerals
                             THEN "InvalidBootstrapService" ELSE "InvalidBootstrapInput")

(* A network is the sets that its leading parts are in.                    *)
Covers(wide, narrow) ==
  /\ wide.version = narrow.version
  /\ Len(wide.block) <= Len(narrow.block)
  /\ \A i \in DOMAIN wide.block : narrow.block[i] \subseteq wide.block[i]

(* get_ipv4_bootstrap_urls and get_ipv6_bootstrap_urls: every entry is put *)
(* into a map first, the last one of a network over the others; then the   *)
(* longest prefix counts, the one that no other is inside.                 *)
IpUrls(services, version, network) ==
  LET isNet(p) == /\ EntryAt(services, p) \in DOMAIN Networks
                  /\ Networks[EntryAt(services, p)].version = version
      net(p) == Networks[EntryAt(services, p)]
      faulty == NoList(services) \union {p[1] : p \in {q \in Places(services) : ~isNet(q)}}
      matching == {p \in Places(services) : Covers(net(p), network)}
      longest == {p \in matching : \A q \in matching : Covers(net(p), net(q)) => Covers(net(q), net(p))}
  IN CASE faulty # {} ->
            RegistryError(IF First(faulty) \in NoList(services) THEN "EmptyService" ELSE "InvalidBootstrapService")
       [] faulty = {} /\ matching = {} -> RegistryError("NoBootstrapUrls")
       [] OTHER -> UrlsOf(services, LastPlace(longest)[1])

(* get_tag_bootstrap_urls: the second list has the tag, in any case.       *)
TagUrls(services, tag) ==
  LET unreadable(s) == Len(services[s]) < 2 \/ services[s][2] = <<>>
      stops == {s \in DOMAIN services : unreadable(s) \/ SameIgnoringCase(services[s][2][1], tag)}
  IN CASE stops = {} -> RegistryError("NoBootstrapUrls")
       [] stops # {} /\ unreadable(First(stops)) -> RegistryError("InvalidBootstrapService")
       [] OTHER -> UrlsOf(services, First(stops))

(* get_preferred_url: the first URL with https, or the first.              *)
PreferredUrl(urls) ==
  LET secure == {i \in DOMAIN urls : StartsWith(urls[i], <<"https://">>)}
  IN urls[IF secure = {} THEN 1 ELSE First(secure)]

---------------------------------------------------------------------------
(* The registry of a query, and the look-up in it                          *)

RegistryOf == [
  IpV4Addr |-> "ipv4", IpV4Cidr |-> "ipv4", IpV6Addr |-> "ipv6", IpV6Cidr |-> "ipv6",
  AsNumber |-> "asn", Domain |-> "dns", Nameserver |-> "dns", Entity |-> "tags"]

Host(ip) == [version |-> ip.version, block |-> [i \in DOMAIN ip.parts |-> {ip.parts[i]}]]

(* get_domain_query_urls, get_ipv4_query_urls and the others.              *)
QueryUrls(query, services) ==
  CASE query.type \in {"Domain", "Nameserver"} -> DnsUrls(services, DomainToAscii(query.value))
    [] query.type = "AsNumber" -> AsnUrls(services, query.value.number)
    [] query.type \in {"IpV4Addr", "IpV6Addr"} ->
         IpUrls(services, query.value.version, Host(query.value))
    [] query.type \in {"IpV4Cidr", "IpV6Cidr"} -> IpUrls(services, query.value.version, query.value)
    [] query.type = "Entity" ->
         IF Holds(query.value, "-") THEN TagUrls(services, AfterLast(query.value, "-"))
         ELSE RegistryError("InvalidBootstrapInput")

BaseUrl(query, services) ==
  LET found == QueryUrls(query, services)
  IN CASE IsError(found) -> found
       [] ~IsError(found) /\ found.urls = <<>> -> RegistryError("EmptyUrlSet")
       [] OTHER -> [url |-> PreferredUrl(found.urls)]

=============================================================================
