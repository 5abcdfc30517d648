-------------------------- MODULE ResponseBuilders --------------------------
(***************************************************************************)
(* The builders of responses: icann-rdap-common/src/response.              *)
(*                                                                         *)
(* The options of a builder are a record of those that are given.  A list  *)
(* that is given empty is left out.                                        *)
(***************************************************************************)
EXTENDS Contacts

CONSTANT Cidrs          \* the texts that parse as a CIDR, and what they parse as

NoObject == [is |-> "no object"]

Lists == {"remarks", "links", "events", "status", "entities", "notices", "roles"}

Given(options, members) ==
  Kept(options, {member \in members \intersect DOMAIN options :
                   member \in Lists => options[member] # <<>>})

(* Common: the conformance ends with level 0.                              *)
Level0(extensions, options) ==
  ("rdapConformance" :> extensions \o <<"rdap_level_0">>) @@ Given(options, {"notices"})

Objects(class, options) ==
  ("objectClassName" :> class)
  @@ Given(options, {"handle", "remarks", "links", "events", "status", "port43", "entities", "redacted"})

BasicDomain(ldhName, options) ==
  Level0(<<>>, options) @@ Objects("domain", options)
  @@ ("ldhName" :> ldhName) @@ Given(options, {"unicodeName", "nameservers"})

(* An IDN says nothing of its conformance, and of redactions.              *)
IdnDomain(unicodeName, options) ==
  Given(options, {"notices"}) @@ Objects("domain", Kept(options, DOMAIN options \ {"redacted"}))
  @@ ("unicodeName" :> unicodeName) @@ Given(options, {"ldhName", "nameservers"})

BasicEntity(handle, options) ==
  Level0(<<>>, options) @@ Objects("entity", options @@ ("handle" :> handle))
  @@ (IF Has(options, "contact") THEN "vcardArray" :> ToVcard(options.contact) ELSE <<>>)
  @@ Given(options, {"roles", "publicIds"})

(* IpAddresses::basic: the addresses by their version.                     *)
AddressesOf(addresses, version) ==
  LET found == SelectSeq(addresses, LAMBDA address : Ip(address).version = version)
  IN Field(version, found # <<>>, found)

BasicNameserver(ldhName, addresses, options) ==
  IF \E i \in DOMAIN addresses : ~IsIp(addresses[i]) THEN NoObject
  ELSE Level0(<<>>, options) @@ Objects("nameserver", options) @@ ("ldhName" :> ldhName)
       @@ Field("ipAddresses", addresses # <<>>,
                AddressesOf(addresses, "v4") @@ AddressesOf(addresses, "v6"))

(* The range is written start..end, and its end is taken as it is.         *)
BasicAutnum(start, end, options) ==
  Level0(<<>>, options) @@ Objects("autnum", options)
  @@ ("startAutnum" :> start) @@ ("endAutnum" :> end)

BasicNetwork(cidr, options) ==
  IF cidr \notin DOMAIN Cidrs THEN NoObject
  ELSE LET parsed == Cidrs[cidr]
           prefix == IF parsed.version = "v4" THEN "v4prefix" ELSE "v6prefix"
       IN Level0(<<"cidr0">>, options) @@ Objects("ip network", options)
          @@ ("startAddress" :> parsed.first) @@ ("endAddress" :> parsed.last)
          @@ ("ipVersion" :> parsed.version)
          @@ ("cidr0_cidrs" :> <<(prefix :> parsed.first) @@ ("length" :> parsed.length)>>)
          @@ Given(options, {"country", "name", "type", "parentHandle"})

EmptySearch(class) == class :> <<>>

BasicHelp(options) == Level0(<<>>, options)

BasicError(code, options) == ("errorCode" :> code) @@ Given(options, {"notices"})

Redirect(url) ==
  BasicError(307, "notices" :> <<("links" :>
    <<("href" :> url) @@ ("value" :> url) @@ ("type" :> RdapMediaType) @@ ("rel" :> "related")>>)>>)

---------------------------------------------------------------------------
(* What is done to an object that is built                                 *)

(* A slip the runs must catch: a child keeps its conformance.              *)
ToChildNoNotices(object) == Kept(object, DOMAIN object \ {"notices"})

(* ToChild: an object in another one has nothing of Common.                *)
ToChild(object) == Kept(object, DOMAIN object \ CommonMembers)

IsRelation(link, relation) == Has(link, "rel") /\ link.rel = relation

(* SelfLink: the one self link there is from then on, and the last link.   *)
SetSelfLink(object, link) ==
  LET others == SelectSeq(IF Has(object, "links") THEN object.links ELSE <<>>,
                          LAMBDA l : ~IsRelation(l, "self"))
  IN ("links" :> Append(others, ("rel" :> "self") @@ link)) @@ object

(* GetSelfLink: none is <<>>.                                              *)
GetSelfLink(object) ==
  LET found == SelectSeq(IF HasLinks(object) THEN object.links ELSE <<>>,
                         LAMBDA l : IsRelation(l, "self"))
  IN IF found = <<>> THEN <<>> ELSE found[1]

=============================================================================
