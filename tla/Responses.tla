----------------------------- MODULE Responses -----------------------------
(***************************************************************************)
(* RDAP responses: icann-rdap-common/src/response.                         *)
(*                                                                         *)
(* A JSON object is a record that has the members which are there.  The    *)
(* value IllTyped stands for whatever serde cannot read in its place,      *)
(* also for an object or an array that has such a value somewhere in it.   *)
(***************************************************************************)
EXTENDS DnsNames

CONSTANT MaxNesting     \* how deep objects are in each other: serde_json reads 128 levels

ASSUME NestingAssumption == MaxNesting \in Nat

Has(json, member) == member \in DOMAIN json

(* The elements of an array that may be missing.                           *)
Elements(json, member) == IF Has(json, member) THEN SE!ToSet(json[member]) ELSE {}

ObjectClasses == {"domain", "entity", "nameserver", "autnum", "ip network"}
SearchClasses == {"domainSearchResults", "entitySearchResults", "nameserverSearchResults"}

(* The members that tell what a response is, in the order they are tried.  *)
Telling == <<"objectClassName", "domainSearchResults", "entitySearchResults",
             "nameserverSearchResults", "errorCode", "notices">>

(* The class of a response is the name of an object class or the member    *)
(* that tells: an error is "errorCode" and a help is "notices".            *)
Class(json) ==
  LET first == CHOOSE i \in DOMAIN Telling :
                 Has(json, Telling[i]) /\ \A j \in 1..(i - 1) : ~Has(json, Telling[j])
  IN IF Telling[first] = "objectClassName" THEN json.objectClassName ELSE Telling[first]

(* What serde looks at.  It passes over every other member.                *)
CommonMembers == {"rdapConformance", "notices"}
ObjectMembers == CommonMembers \union {"objectClassName", "handle", "remarks", "links", "events",
                                       "status", "port43", "entities", "redacted"}
DomainMembers == {"ldhName", "unicodeName", "variants", "secureDNS", "nameservers", "publicIds",
                  "network"}
EntityMembers == {"vcardArray", "roles", "publicIds", "asEventActor", "autnums", "networks"}
NameserverMembers == {"ldhName", "unicodeName", "ipAddresses"}
AutnumMembers == {"startAutnum", "endAutnum", "name", "type", "country"}
NetworkMembers == {"startAddress", "endAddress", "ipVersion", "name", "type", "parentHandle",
                   "country", "cidr0_cidrs"}

Members(class) ==
  CASE class = "domain" -> ObjectMembers \union DomainMembers
    [] class = "entity" -> ObjectMembers \union EntityMembers
    [] class = "nameserver" -> ObjectMembers \union NameserverMembers
    [] class = "autnum" -> ObjectMembers \union AutnumMembers
    [] class = "ip network" -> ObjectMembers \union NetworkMembers
    [] class = "errorCode" -> CommonMembers \union {"errorCode", "title", "description"}
    [] class = "notices" -> CommonMembers
    [] OTHER -> CommonMembers \union {class}

(* RdapResponse::try_from.  Its errors are all answered the same.          *)
IsRdap(json) ==
  /\ \E i \in DOMAIN Telling : Has(json, Telling[i])
  /\ Has(json, "objectClassName") => json.objectClassName \in ObjectClasses
  /\ \A member \in Members(Class(json)) \intersect DOMAIN json : json[member] # IllTyped

---------------------------------------------------------------------------
(* What a response is asked for                                            *)

HasLinks(rdap) == Class(rdap) \in ObjectClasses /\ Has(rdap, "links")

HasExtension(rdap, id) == id \in Elements(rdap, "rdapConformance")

RdapMediaType == "application/rdap+json"

IsText(value, text) == value = text \/ (value \in DOMAIN CaseFold /\ CaseFold[value] = text)

(* get_related_links: whose media type is RDAP's.                          *)
RelatedLinks(rdap) ==
  IF ~HasLinks(rdap) THEN <<>>
  ELSE LET related(l) == /\ {"href", "rel", "type"} \subseteq DOMAIN l
                         /\ IsText(l.rel, "related")
                         /\ IsText(l.type, RdapMediaType)
           found == SelectSeq(rdap.links, related)
       IN [i \in DOMAIN found |-> found[i].href]

---------------------------------------------------------------------------
(* The registered identifiers                                              *)

Tig0 == "icann_rdap_technical_implementation_guide_0"
Tig1 == "icann_rdap_technical_implementation_guide_1"
Profile0 == "icann_rdap_response_profile_0"
Profile1 == "icann_rdap_response_profile_1"

ExtensionId ==
  {"rdap_level_0", "arin_originas0", "artRecord", "cidr0", "farv1", "fred", Profile0, Profile1,
   Tig0, Tig1, "nro_rdap_profile_0", "nro_rdap_profile_asn_flat_0",
   "nro_rdap_profile_asn_hierarchical_0", "paging", "platformNS", "rdap_objectTag", "redacted",
   "redirect_with_content", "regType", "reverse_search", "sorting", "subsetting"}

EntityRole ==
  {"registrant", "technical", "administrative", "abuse", "billing", "registrar", "reseller",
   "sponsor", "proxy", "notifications", "noc"}

=============================================================================
