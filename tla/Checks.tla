------------------------------- MODULE Checks -------------------------------
(***************************************************************************)
(* Conformance checks: icann-rdap-common/src/check.                        *)
(*                                                                         *)
(* The checks of a response are the set of those that are in its tree:     *)
(* how often and under which structure is left out.  The type of a Rust    *)
(* structure is the class of the JSON object it is read from.              *)
(***************************************************************************)
EXTENDS Contacts

CONSTANT Dates          \* the texts that parse as RFC 3339

(* The class of every check.                                               *)
StdWarnings ==
  {"UnknownExtention", "LinkRelatedHasNoType", "LinkRelatedIsNotRdap", "LinkSelfHasNoType",
   "LinkSelfIsNotRdap", "VariantEmptyDomain", "HandleIsEmpty", "UnknownRole",
   "LdhNameDoesNotMatchUnicode", "NetworkOrAutnumNameIsEmpty", "NetworkOrAutnumTypeIsEmpty",
   "IpAddressMissing", "IpAddressEndBeforeStart", "IpAddressVersionMismatch", "AutnumMissing",
   "AutnumEndBeforeStart", "CorsAllowOriginRecommended", "CorsAllowOriginStarRecommended",
   "CorsAllowCredentialsNotRecommended"}
SpecNotes == {"LinkObjectClassHasNoSelf", "VcardFnIsEmpty", "NoARecords", "NoAAAARecords"}
Infos ==
  {"LdhNameDocumentation", "IpAddressThisNetwork", "IpAddressPrivateUse", "IpAddressSharedNat",
   "IpAddressLoopback", "IpAddressLinkLocal", "IpAddressUniqueLocal", "IpAddressDocumentationNet",
   "IpAddressReservedNet", "AutnumPrivateUse", "AutnumDocumentation", "AutnumReserved"}
Cidr0Errors ==
  {"Cidr0V4PrefixIsAbsent", "Cidr0V4LengthIsAbsent", "Cidr0V6PrefixIsAbsent",
   "Cidr0V6LengthIsAbsent"}
IcannErrors == {"MustUseHttps", "AllowOriginNotStar", "Ipv6SupportRequiredByIcann"}

ClassOf(check) ==
  CASE check \in StdWarnings -> "StdWarning"
    [] check \in SpecNotes -> "SpecNote"
    [] check \in Infos -> "Info"
    [] check \in Cidr0Errors -> "Cidr0Error"
    [] check \in IcannErrors -> "IcannError"
    [] OTHER -> "StdError"

(* traverse_checks                                                         *)
AnyOfClasses(checks, classes) == \E check \in checks : ClassOf(check) \in classes

When(condition, check) == IF condition THEN {check} ELSE {}
Missing(json, member, check) == When(~Has(json, member), check)
Blank(json, member, check) == When(Has(json, member) /\ IsBlank(json[member]), check)

(* CheckParams: the class of the root, that of the parent, and whether     *)
(* extensions may be unregistered.                                         *)
ForRdap(rdap, allow) == [root |-> Class(rdap), parent |-> Class(rdap), allow |-> allow]
FromParent(params, class) == [params EXCEPT !.parent = class]

---------------------------------------------------------------------------
(* The parts that several classes have                                     *)

ConformanceChecks(conformance, params) ==
  When(params.parent # params.root, "RdapConformanceInvalidParent")
  \union When(~params.allow /\ ~(SE!ToSet(conformance) \subseteq ExtensionId), "UnknownExtention")

WithSelfLinks == {"domain", "entity", "autnum", "ip network"}

RelChecks(link, params) ==
  CASE link.rel = "related" ->
         Missing(link, "type", "LinkRelatedHasNoType")
         \union When(/\ Has(link, "type") /\ link.type # RdapMediaType
                     /\ params.parent \in WithSelfLinks, "LinkRelatedIsNotRdap")
    [] link.rel = "self" ->
         Missing(link, "type", "LinkSelfHasNoType")
         \union When(Has(link, "type") /\ link.type # RdapMediaType, "LinkSelfIsNotRdap")
    [] OTHER -> When(params.parent \in WithSelfLinks /\ params.root # "nameserver",
                     "LinkObjectClassHasNoSelf")

LinkChecks(link, params) ==
  Missing(link, "value", "LinkMissingValueProperty")
  \union Missing(link, "href", "LinkMissingHrefProperty")
  \union Missing(link, "rel", "LinkMissingRelProperty")
  \union (IF Has(link, "rel") THEN RelChecks(link, params) ELSE {})

LinksChecks(json, params) == UNION {LinkChecks(link, params) : link \in Elements(json, "links")}

(* A notice or a remark: its description should be an array.               *)
NoteChecks(note, params) ==
  Missing(note, "description", "NoticeOrRemarkDescriptionIsAbsent")
  \union When(Has(note, "description") /\ note.description = "a string",
              "NoticeOrRemarkDescriptionIsString")
  \union LinksChecks(note, FromParent(params, "NoticeOrRemark"))

NotesChecks(json, member, params) == UNION {NoteChecks(note, params) : note \in Elements(json, member)}

PublicIdChecks(json) ==
  UNION {Missing(id, "type", "PublicIdTypeIsAbsent")
         \union Missing(id, "identifier", "PublicIdIdentifierIsAbsent")
         : id \in Elements(json, "publicIds")}

(* The types are compared: an object inside an object of its own class is  *)
(* taken for the root.                                                     *)
CommonChecks(json, params) ==
  (IF Has(json, "rdapConformance") THEN ConformanceChecks(json.rdapConformance, params) ELSE {})
  \union NotesChecks(json, "notices", params)
  \union When(params.parent = params.root /\ ~Has(json, "rdapConformance"),
              "RdapConformanceMissing")

EventChecks(event) ==
  Missing(event, "eventDate", "EventDateIsAbsent")
  \union When(Has(event, "eventDate") /\ event.eventDate \notin Dates, "EventDateIsNotRfc3339")
  \union Missing(event, "eventAction", "EventActionIsAbsent")

EventsChecks(json) == UNION {EventChecks(event) : event \in Elements(json, "events")}

(* What ObjectCommon has besides entities.                                 *)
ObjectChecks(json, params) ==
  LinksChecks(json, params)
  \union When(~Has(json, "links") /\ "nameserver" \notin {params.root, params.parent},
              "LinkObjectClassHasNoSelf")
  \union NotesChecks(json, "remarks", params)
  \union EventsChecks(json)
  \union Blank(json, "handle", "HandleIsEmpty")
  \union When(Has(json, "status") /\ AnyBlank(json.status), "StatusIsEmpty")
  \union Blank(json, "port43", "Port43IsEmpty")

---------------------------------------------------------------------------
(* Entities, which may have entities                                       *)

RoleChecks(roles) ==
  IF AnyBlank(roles) THEN {"RoleIsEmpty"}
  ELSE When(\E i \in DOMAIN roles : roles[i] \notin {Text(role) : role \in EntityRole},
            "UnknownRole")

VcardChecks(vcard) ==
  LET contact == FromVcard(vcard)
  IN When(contact = NoContact, "VcardArrayIsEmpty")
     \union When(contact # NoContact /\ ~Has(contact, "full_name"), "VcardHasNoFn")
     \union Blank(contact, "full_name", "VcardFnIsEmpty")

(* What an entity has besides the parts that every object class has.       *)
EntityPartChecks(json) ==
  PublicIdChecks(json)
  \union (IF Has(json, "roles") THEN RoleChecks(json.roles) ELSE {})
  \union (IF Has(json, "vcardArray") THEN VcardChecks(json.vcardArray) ELSE {})

(* The entities in an object, those in these, and so on.                   *)
NestedEntities(json) ==
  LET level[n \in 1..MaxNesting] ==
        IF n = 1 THEN Elements(json, "entities")
        ELSE UNION {Elements(entity, "entities") : entity \in level[n - 1]}
  IN UNION {level[n] : n \in 1..MaxNesting}

(* An entity's parent is an entity for its entities, and so on, so that all*)
(* of them are checked alike.                                              *)
NestedChecks(json, params) ==
  LET nested == FromParent(params, "entity")
  IN UNION {CommonChecks(entity, nested) \union ObjectChecks(entity, nested) \union EntityPartChecks(entity)
            : entity \in NestedEntities(json)}

(* A slip the runs must catch: the entities of an object are passed over.  *)
SubChecksShallow(json, params) == CommonChecks(json, params) \union ObjectChecks(json, params)

(* The sub-checks of every object class: Common and ObjectCommon.          *)
SubChecks(json, params) ==
  CommonChecks(json, params) \union ObjectChecks(json, params) \union NestedChecks(json, params)

EntityChecks(json, params) == SubChecks(json, FromParent(params, "entity")) \union EntityPartChecks(json)

---------------------------------------------------------------------------
(* Domains and nameservers                                                 *)

DocumentationNames ==
  {<<"example">>} \union {<<"example", ".", tld>> : tld \in {"com", "net", "org"}}

LdhNameChecks(json) ==
  LET name == TrimEnd(json.ldhName, {"."})
  IN When(~IsLdhDomainName(json.ldhName), "LdhNameInvalid")
     \union When(\E d \in DocumentationNames : name = d \/ EndsWith(name, <<".">> \o d),
                 "LdhNameDocumentation")
     \union When(/\ Has(json, "unicodeName") /\ IsIdna(json.unicodeName)
                 /\ ~SameIgnoringCase(DomainToAscii(json.unicodeName), json.ldhName),
                 "LdhNameDoesNotMatchUnicode")

UnicodeNameChecks(name) ==
  When(~IsUnicodeDomainName(name), "UnicodeNameInvalidDomain")
  \union When(~IsIdna(name), "UnicodeNameInvalidUnicode")

DomainChecks(json, params) ==
  SubChecks(json, FromParent(params, "domain"))
  \union PublicIdChecks(json)
  \union When(\E variant \in Elements(json, "variants") :
                DOMAIN variant \intersect {"relation", "idnTable", "variantNames"} = {},
              "VariantEmptyDomain")
  \union (IF Has(json, "ldhName") THEN LdhNameChecks(json) ELSE {})
  \union (IF Has(json, "unicodeName") THEN UnicodeNameChecks(json.unicodeName) ELSE {})

IpListChecks(json, version) ==
  IF ~Has(json, version) THEN {}
  ELSE When(AnyBlank(json[version]), "IpAddressListIsEmpty")
       \union When(\E i \in DOMAIN json[version] : ~IsIp(json[version][i]), "IpAddressMalformed")

NameserverChecks(json, params) ==
  SubChecks(json, FromParent(params, "nameserver"))
  \union When(Has(json, "ldhName") /\ ~IsLdhDomainName(json.ldhName), "LdhNameInvalid")
  \union (IF Has(json, "ipAddresses")
          THEN IpListChecks(json.ipAddresses, "v4") \union IpListChecks(json.ipAddresses, "v6")
          ELSE {})

---------------------------------------------------------------------------
(* Autonomous systems: a number of 32 bits is its two halves.              *)

Below(a, b) == a[1] < b[1] \/ (a[1] = b[1] /\ a[2] < b[2])
Within(n, first, last) == ~Below(n, first) /\ ~Below(last, n)

IsAutnumReserved(n) ==
  n \in {<<0, 0>>, <<0, 65535>>, <<65535, 65535>>} \/ Within(n, <<1, 16>>, <<1, 65535>>)
IsAutnumDocumentation(n) ==
  Within(n, <<0, 64496>>, <<0, 64511>>) \/ Within(n, <<1, 0>>, <<1, 15>>)
IsAutnumPrivateUse(n) ==
  Within(n, <<0, 64512>>, <<0, 65534>>) \/ Within(n, <<64086, 59904>>, <<65535, 65534>>)

NumberChecks(first, last) ==
  LET either(Is(_)) == Is(first) \/ Is(last)
  IN When(Below(last, first), "AutnumEndBeforeStart")
     \union When(either(IsAutnumReserved), "AutnumReserved")
     \union When(either(IsAutnumDocumentation), "AutnumDocumentation")
     \union When(either(IsAutnumPrivateUse), "AutnumPrivateUse")

NameAndTypeChecks(json) ==
  Blank(json, "name", "NetworkOrAutnumNameIsEmpty")
  \union Blank(json, "type", "NetworkOrAutnumTypeIsEmpty")

AutnumChecks(json, params) ==
  LET both == {"startAutnum", "endAutnum"} \subseteq DOMAIN json
  IN SubChecks(json, FromParent(params, "autnum"))
     \union When(~both, "AutnumMissing")
     \union (IF both THEN NumberChecks(json.startAutnum, json.endAutnum) ELSE {})
     \union NameAndTypeChecks(json)

---------------------------------------------------------------------------
(* Networks: a block is the sets its leading parts are in.                 *)

InBlock(ip, version, block) ==
  ip.version = version /\ \A i \in DOMAIN block : ip.parts[i] \in block[i]

Blocks == [
  IpAddressThisNetwork |-> {<<"v4", <<{0}>>>>},
  IpAddressPrivateUse |->
    {<<"v4", <<{10}>>>>, <<"v4", <<{172}, 16..31>>>>, <<"v4", <<{192}, {168}>>>>},
  IpAddressSharedNat |-> {<<"v4", <<{100}, 64..127>>>>},
  IpAddressLoopback |-> {<<"v4", <<{127}>>>>},
  IpAddressLinkLocal |->
    {<<"v4", <<{169}, {254}>>>>, <<"v6", <<65152..65215>>>>, <<"v4", <<240..255>>>>},
  IpAddressUniqueLocal |-> {<<"v6", <<65152..65215>>>>},
  IpAddressDocumentationNet |->
    {<<"v4", <<{192}, {0}, {2}>>>>, <<"v4", <<{198}, {51}, {100}>>>>,
     <<"v4", <<{203}, {0}, {113}>>>>, <<"v6", <<{8193}, {3512}>>>>}]

(* Every v4 address is before every v6 address.                            *)
IpBelow(a, b) ==
  IF a.version # b.version THEN a.version = "v4"
  ELSE \E i \in DOMAIN a.parts : /\ a.parts[i] < b.parts[i]
                                 /\ \A j \in 1..(i - 1) : a.parts[j] = b.parts[j]

RangeChecks(json, first, last) ==
  When(IpBelow(last, first), "IpAddressEndBeforeStart")
  \union When(/\ Has(json, "ipVersion") /\ json.ipVersion \in {"v4", "v6"}
              /\ {first.version, last.version} # {json.ipVersion}, "IpAddressVersionMismatch")
  \union When(Has(json, "ipVersion") /\ json.ipVersion \notin {"v4", "v6"},
              "IpAddressMalformedVersion")
  \union {check \in DOMAIN Blocks : \E block \in Blocks[check] :
            InBlock(first, block[1], block[2]) /\ InBlock(last, block[1], block[2])}

(* The enum is untagged and every member of its first variant is optional: *)
(* what serde can read as a v4 CIDR is one, whatever it says of v6.        *)
IsV4Cidr(cidr) == Has(cidr, "v4prefix") => cidr.v4prefix # IllTyped

Cidr0Checks(cidr) ==
  IF IsV4Cidr(cidr)
  THEN Missing(cidr, "v4prefix", "Cidr0V4PrefixIsAbsent")
       \union Missing(cidr, "length", "Cidr0V4LengthIsAbsent")
  ELSE Missing(cidr, "v6prefix", "Cidr0V6PrefixIsAbsent")
       \union Missing(cidr, "length", "Cidr0V6LengthIsAbsent")

CidrsChecks(json) == UNION {Cidr0Checks(cidr) : cidr \in Elements(json, "cidr0_cidrs")}

EndsChecks(json) ==
  LET ends == {"startAddress", "endAddress"} \intersect DOMAIN json
  IN When(Cardinality(ends) < 2, "IpAddressMissing")
     \union When(\E end \in ends : ~IsIp(json[end]), "IpAddressMalformed")
     \union (IF Cardinality(ends) = 2 /\ \A end \in ends : IsIp(json[end])
             THEN RangeChecks(json, Ip(json.startAddress), Ip(json.endAddress)) ELSE {})

NetworkChecks(json, params) ==
  SubChecks(json, FromParent(params, "ip network"))
  \union CidrsChecks(json) \union NameAndTypeChecks(json) \union EndsChecks(json)

---------------------------------------------------------------------------
(* Responses                                                               *)

(* The results of a search have the class of the search for their parent.  *)
ObjectClassChecks(class, json, params) ==
  CASE class = "domain" -> DomainChecks(json, params)
    [] class = "entity" -> EntityChecks(json, params)
    [] class = "nameserver" -> NameserverChecks(json, params)
    [] class = "autnum" -> AutnumChecks(json, params)
    [] class = "ip network" -> NetworkChecks(json, params)

ResultClass == [domainSearchResults |-> "domain", entitySearchResults |-> "entity",
                nameserverSearchResults |-> "nameserver"]

GetChecks(rdap, params) ==
  LET class == Class(rdap)
  IN CASE class \in ObjectClasses -> ObjectClassChecks(class, rdap, params)
       [] class \in SearchClasses ->
            CommonChecks(rdap, params)
            \union UNION {ObjectClassChecks(ResultClass[class], result, params)
                          : result \in Elements(rdap, class)}
       [] OTHER -> CommonChecks(rdap, params)

(* HttpData: what the answer's header fields are checked for.  The RDAP    *)
(* media type stands for every content type that starts with it.           *)
HttpChecks(http, rdap) ==
  LET fromAnywhere == Has(http, "allowOrigin") /\ http.allowOrigin = "*"
      gtld == HasExtension(rdap, Tig0) \/ HasExtension(rdap, Tig1)
  IN Missing(http, "allowOrigin", "CorsAllowOriginRecommended")
     \union When(Has(http, "allowOrigin") /\ ~fromAnywhere, "CorsAllowOriginStarRecommended")
     \union When(Has(http, "allowCredentials"), "CorsAllowCredentialsNotRecommended")
     \union Missing(http, "contentType", "ContentTypeIsAbsent")
     \union When(Has(http, "contentType") /\ http.contentType # RdapMediaType,
                 "ContentTypeIsNotRdap")
     \union When(gtld /\ ~(Has(http, "scheme") /\ IsText(http.scheme, "https")), "MustUseHttps")
     \union When(gtld /\ ~fromAnywhere, "AllowOriginNotStar")

=============================================================================
