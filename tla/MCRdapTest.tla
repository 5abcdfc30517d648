----------------------------- MODULE MCRdapTest -----------------------------
(***************************************************************************)
(* Worlds of four families: every kind of query; answers with every kind   *)
(* of flaw, at every depth, from one address; a server with two addresses  *)
(* of either family and every combination of the options about them;       *)
(* extensions that are expected; and what may go wrong on the way.         *)
(***************************************************************************)
EXTENDS RdapTest

MCALabels == ("uni" :> "xn--uni") @@ ("bad" :> NoALabel)
MCCaseFold == ("A" :> "a") @@ ("S" :> "s") @@ ("ARIN" :> "arin") @@ ("HTTPS" :> "https") @@ ("QC" :> "qc")
MCMarks == {":", "/", "*", "'", ",", "%", "?", "=", "[", "]", "\""}
MCEncoded == [token \in (MCMarks \ {"\""}) \union {" ", "#"} \union DOMAIN MCALabels |-> "%" \o token]

(* Addresses                                                               *)
Quad(a, b) == <<a, ".", b, ".", "0", ".", "1">>
V4(text, parts) == text :> [version |-> "v4", parts |-> parts, shown |-> text]
V6(text, shown, parts) == text :> [version |-> "v6", parts |-> parts, shown |-> shown]
Six == <<"2001", ":", "db8", ":", ":">>
SixLong == <<"2001", ":", "0db8", ":", ":">>
Other6 == <<"fe80", ":", ":">>
MCIpAddresses ==
  V4(Quad("10", "1"), <<10, 1, 0, 1>>) @@ V4(Quad("10", "2"), <<10, 2, 0, 1>>)
  @@ V4(Quad("240", "0"), <<240, 0, 0, 1>>) @@ V4(Quad("198", "18"), <<198, 18, 0, 1>>)
  @@ V6(Six, Six, <<8193, 3512, 0, 0, 0, 0, 0, 0>>) @@ V6(SixLong, Six, <<8193, 3512, 0, 0, 0, 0, 0, 0>>)
  @@ V6(Other6, Other6, <<65152, 0, 0, 0, 0, 0, 0, 0>>)

Net(text, version, first, length, block) ==
  text :> [version |-> version, first |-> first, length |-> length, block |-> block]
Ten == <<"10", ".", "0", ".", "0", ".", "0">>
TenOne == <<"10", ".", "1", ".", "0", ".", "0">>
MCNetworks ==
  Net(Ten \o <<"/", "8">>, "v4", Ten, <<"8">>, <<{10}>>)
  @@ Net(<<"10", "/", "8">>, "v4", Ten, <<"8">>, <<{10}>>)
  @@ Net(TenOne \o <<"/", "16">>, "v4", TenOne, <<"16">>, <<{10}, {1}>>)
  @@ Net(Quad("10", "1") \o <<"/", "16">>, "v4", TenOne, <<"16">>, <<{10}, {1}>>)
  @@ Net(Six \o <<"/", "32">>, "v6", Six, <<"32">>, <<{8193}, {3512}>>)
  @@ Net(<<"2001", ":", ":", "/", "16">>, "v6", <<"2001", ":", ":">>, <<"16">>, <<{8193}>>)

Numeral(token, number) == <<token>> :> [number |-> number, shown |-> <<token>>]
MCNumerals ==
  Numeral("1", <<0, 1>>) @@ Numeral("9", <<0, 9>>) @@ Numeral("64496", <<0, 64496>>)
  @@ Numeral("65535", <<0, 65535>>) @@ Numeral("65536", <<1, 0>>)

(* The registries                                                          *)
Url(host) == <<"https://", host, "/">>
PlainUrl(host) == <<"http://", host, "/">>
MCTokenEnds == {<<"cc", "xn--54b7fta0cc">>, <<"ni", "xn--uni">>, <<"foo", "barfoo">>}
MCServices == [
  dns |-> << << << <<"foo", ".", "net">>, <<"org">> >>, <<PlainUrl("foo"), Url("foo")>> >>,
             << << <<"net">>, <<"xn--uni">> >>, <<Url("net")>> >>,
             << << <<"net">>, <<"ni">>, <<"cc">> >>, <<Url("late")>> >> >>,
  asn |-> << << << <<"64496">> >>, <<PlainUrl("low")>> >>,
             << << <<"9", "-", "65535">> >>, <<Url("rir")>> >>,
             << << <<"far">> >>, <<Url("never")>> >> >>,
  ipv4 |-> << << << TenOne \o <<"/", "16">> >>, <<Url("narrow")>> >>,
              << << Ten \o <<"/", "8">> >>, <<Url("wide")>> >> >>,
  ipv6 |-> << << << <<"2001", ":", ":", "/", "16">> >>, <<Url("rir")>> >>, << <<>>, <<>> >> >>,
  tags |-> << << << <<"contact">> >>, << <<"arin">> >>, <<Url("arin")>> >>,
              << << <<"contact">> >>, << <<"NONE">> >>, <<>> >> >>]

(* Answers                                                                 *)
Http == [allowOrigin |-> "*", contentType |-> RdapMediaType, scheme |-> "https"]
Answer(json) == [json |-> json, http |-> Http]
Link(rel) == [value |-> "v", href |-> Url("rar"), rel |-> rel, type |-> RdapMediaType]
Level0 == [rdapConformance |-> <<"rdap_level_0">>]
Inner(class) == [objectClassName |-> class, links |-> <<Link("self")>>]
Object(class) == Level0 @@ Inner(class)
DomainDoc == [ldhName |-> <<"foo", ".", "net">>] @@ Object("domain")
Nested(class, entity) == [entities |-> <<Inner("entity"), entity>>] @@ Object(class)
Flawed(flaw, class) == flaw @@ Inner(class)

ObjectFlaws == {
  [status |-> <<>>], [status |-> <<<<"active">>, <<" ">>>>], [handle |-> <<" ">>], [port43 |-> <<>>],
  [links |-> <<[rel |-> "self", type |-> RdapMediaType]>>], [links |-> <<[Link("related") EXCEPT !.type = "text/html"]>>],
  [links |-> <<[value |-> "v", href |-> Url("rar"), rel |-> "related"]>>],
  [links |-> <<[Link("self") EXCEPT !.type = "text/html"], Link("up")>>],
  [links |-> <<[value |-> "v", href |-> Url("rar"), rel |-> "self"]>>], [links |-> <<[value |-> "v", href |-> Url("rar")]>>],
  [events |-> <<[eventAction |-> "e"], [eventDate |-> "now"]>>], [events |-> <<[eventAction |-> "e", eventDate |-> "now"]>>],
  [remarks |-> <<[title |-> "t"]>>], [remarks |-> <<[description |-> "a string", links |-> <<[rel |-> "x"]>>]>>],
  [notices |-> <<[description |-> "a string"]>>], [rdapConformance |-> <<"made_up">>]}
Card(props) == [literal |-> "vcard", properties |-> props]
EntityFlaws == {
  [roles |-> <<>>], [roles |-> <<<<"registrant">>, <<"king">>>>], [vcardArray |-> [literal |-> "vcard"]],
  [vcardArray |-> Card(<<Prop("kind", <<>>, Str(<<"org">>))>>)], [vcardArray |-> Card(<<Prop("fn", <<>>, Str(<<" ">>))>>)],
  [publicIds |-> <<[type |-> "t"]>>], [publicIds |-> <<[identifier |-> "i"]>>]}
DomainFlaws == {
  [ldhName |-> <<"uni", ".", "net">>], [ldhName |-> <<"a", ".", "example", ".">>], [variants |-> <<<<>>>>],
  [ldhName |-> <<"x", ".", "net">>, unicodeName |-> <<"uni", ".", "net">>],
  [unicodeName |-> <<"a", " ">>], [unicodeName |-> <<"bad">>]}
NameserverFlaws == {
  [ldhName |-> <<"a", ":">>], [ipAddresses |-> [v4 |-> <<>>]], [ipAddresses |-> [v6 |-> <<<<"x">>>>]]}
AutnumFlaws == {
  [startAutnum |-> <<0, 1>>], [startAutnum |-> <<1, 2>>, endAutnum |-> <<0, 64512>>], [name |-> <<>>], [type |-> <<" ">>],
  [startAutnum |-> <<0, 65535>>, endAutnum |-> <<0, 65535>>]}
Range(first, last) == [startAddress |-> first, endAddress |-> last]
NetworkFlaws == {
  Range(<<"x">>, Six), Range(Six, Quad("10", "1")), Range(Quad("10", "1"), Quad("10", "2")),
  Range(Quad("240", "0"), Quad("240", "0")) @@ [ipVersion |-> "v6"], Range(Other6, Other6) @@ [ipVersion |-> "six"],
  Range(Six, Six) @@ [cidr0_cidrs |-> <<[v6prefix |-> Six, length |-> 32]>>],
  Range(Quad("10", "1"), Quad("10", "1")) @@ [cidr0_cidrs |-> <<[v4prefix |-> Ten, length |-> 8], [v4prefix |-> IllTyped]>>]}

FlawsOf(class) ==
  CASE class = "domain" -> DomainFlaws
    [] class = "entity" -> EntityFlaws
    [] class = "nameserver" -> NameserverFlaws
    [] class = "autnum" -> AutnumFlaws
    [] class = "ip network" -> NetworkFlaws

(* Documents with one flaw: at the top, in an entity, in an entity's       *)
(* entity, or in a result of a search.                                     *)
Flat == UNION {{flaw @@ Object(class) : flaw \in ObjectFlaws \union FlawsOf(class)} : class \in ObjectClasses}
Deep ==
  UNION {{Nested(class, Flawed(flaw, "entity")) : flaw \in EntityFlaws \union ObjectFlaws}
         : class \in {"domain", "entity", "nameserver"}}
InEntity(entity) == [entities |-> <<Inner("entity"), entity>>] @@ Inner("entity")
Deeper ==
  {Nested("autnum", InEntity(Flawed(flaw, "entity"))) : flaw \in EntityFlaws \union ObjectFlaws}
  \union {Nested(class, InEntity(Inner("entity"))) : class \in {"domain", "entity"}}
Result(class) == CHOOSE search \in SearchClasses : ResultClass[search] = class
Results ==
  UNION {{(Result(class) :> <<Inner(class), Flawed(flaw, class)>>) @@ Level0 : flaw \in FlawsOf(class)}
         : class \in {ResultClass[search] : search \in SearchClasses}}
Rest == {
  [errorCode |-> 404], [errorCode |-> 404] @@ Level0, [notices |-> <<[description |-> "an array"]>>],
  [notices |-> <<[title |-> "t"]>>] @@ Level0, Inner("entity"), Nested("entity", Inner("entity")),
  [title |-> "t"], [objectClassName |-> "other"], [status |-> IllTyped] @@ DomainDoc}
Docs == Flat \union Deep \union Deeper \union Results \union Rest

(* Worlds                                                                  *)
Good == Answer(DomainDoc)
Dns(addresses) == [cname |-> FALSE, addresses |-> addresses]
Default == [
  value |-> Url("rdap") \o <<"help">>, skip |-> {}, groups |-> {}, checkTypes |-> {}, expect |-> {},
  unregistered |-> FALSE, referral |-> FALSE, allowHttp |-> FALSE, oneAddr |-> FALSE,
  badOrigin |-> FALSE, rendered |-> FALSE, cache |-> "fresh",
  dns |-> [A |-> Dns(<<Quad("10", "1")>>), AAAA |-> Dns(<<>>)],
  answers |-> [referral |-> {Good}, v4 |-> {Good}, v6 |-> {Good}]]

Flaws == {[Default EXCEPT !.answers.v4 = {Answer(doc)}, !.checkTypes = types] :
            doc \in Docs, types \in {{}, {"StdWarning"}, {"All"}}}

Values == {
  <<"foo", ".", "net">>, <<"a", ".", "foo", ".", "net">>, <<"a", ".", "net">>, <<"uni", ".", "net">>, <<"a", ".", "uni">>,
  <<"a", ".", "cc">>, <<"a", ".", "xn--54b7fta0cc">>, <<"a", ".", "ni">>, <<"barfoo", ".", "net">>,
  <<".", "net">>, <<"a", ".", "org">>, <<"a", ".", "com">>, <<"bad", ".", "net">>, <<"ns", "1", ".", "foo", ".", "net">>,
  <<"ns", "1", ".", "foo", ".", "net", ".">>, <<"a", " ", "b">>, <<"A", "S", "65535">>, <<"1">>, <<"s", "64496">>, <<"65536">>,
  Quad("10", "1"), Quad("10", "2"), Quad("198", "18"), SixLong, Other6, <<"10", "/", "8">>, Ten \o <<"/", "8">>,
  TenOne \o <<"/", "16">>, Quad("10", "1") \o <<"/", "16">>, <<"2001", ":", ":", "/", "16">>, Six \o <<"/", "32">>,
  <<"H", "/", "?", "-", "ARIN">>, <<"H">>, <<"H", "-", "arin">>, <<"H", "-", "NONE">>, <<"H", "-", "x">>}
Asked == {[Default EXCEPT !.value = value, !.cache = file, !.allowHttp = allow] :
            value \in Values, file \in {"fresh", "stale", "broken"}, allow \in BOOLEAN}

Errors == {[error |-> "HttpConnectError"], [error |-> "HttpTooManyRequestsError"]}
Related(link) == Answer([links |-> <<link>>] @@ DomainDoc)
Referrals == {
  Related([Link("related") EXCEPT !.type = "text/html"]), Related([Link("related") EXCEPT !.href = <<"net">>]),
  Related([Link("related") EXCEPT !.href = <<"https://">>]), Related([Link("related") EXCEPT !.href = PlainUrl("rar")]),
  Related(Link("related")), Answer([errorCode |-> 404]), [text |-> "no JSON"]} \union Errors
Alias(addresses) == [cname |-> TRUE, addresses |-> addresses]
Paths == {[Default EXCEPT !.referral = TRUE, !.answers.referral = Referrals]}
  \union {[Default EXCEPT !.value = <<"https://">> \o host, !.dns = IllTyped] :
             host \in {Quad("10", "1"), <<"[">> \o Six \o <<"]">>, <<"rdap", "/">>, <<"/">>}}
  \union {[Default EXCEPT !.dns.A = a, !.dns.AAAA = aaaa, !.groups = groups] :
             a \in {Dns(<<>>), Alias(<<>>), Alias(<<Quad("10", "1")>>)},
             aaaa \in {Dns(<<>>), Alias(<<>>), Alias(<<Six>>)}, groups \in {{}, {"Gtld"}}}
  \union {[Default EXCEPT !.rendered = TRUE, !.answers.v4 = Errors \union {Good, [text |-> "no JSON"]}]}
  \union {[Default EXCEPT !.badOrigin = TRUE, !.skip = skip] : skip \in SUBSET {"origin", "v4"}}

Addresses == [A |-> Dns(<<Quad("10", "1"), Quad("10", "2")>>), AAAA |-> Dns(<<Six, Other6>>)]
Dual == {[Default EXCEPT !.dns = Addresses, !.skip = skip, !.oneAddr = one, !.value[1] = scheme,
                         !.answers.v4 = {Good, Answer([status |-> <<>>] @@ DomainDoc)}] :
           skip \in SUBSET Skips, one \in BOOLEAN, scheme \in Schemes}

Conforms(ids) == Answer([rdapConformance |-> ids] @@ DomainDoc)
Declared == {<<"rdap_level_0">>, <<Profile0, Tig1>>, <<Profile1>>, <<"nro_rdap_profile_0", "cidr0">>,
             <<"nro_rdap_profile_0", "nro_rdap_profile_asn_flat_0">>, <<"made_up">>}
Extensions == {[Default EXCEPT !.groups = groups, !.expect = expect, !.unregistered = allow, !.checkTypes = types,
                               !.dns.AAAA = Dns(<<Six>>), !.oneAddr = TRUE,
                               !.answers.v4 = {Conforms(ids)}, !.answers.v6 = {Conforms(ids)}] :
                 groups \in SUBSET Groups, allow \in BOOLEAN, ids \in Declared,
                 types \in {{}, {"StdWarning"}, {"IcannError"}},
                 expect \in {{}, {{"cidr0"}}, {{"made_up"}}, {{Profile0, Profile1}}}}
Headers == {[Default EXCEPT !.answers.v4 = {[json |-> [rdapConformance |-> <<Tig0>>] @@ DomainDoc, http |-> http]}] :
              http \in {<<>>, Http, [Http EXCEPT !.allowOrigin = "x"], [Http EXCEPT !.scheme = "HTTPS"],
                        [Http EXCEPT !.contentType = "text/html"], [allowCredentials |-> "true"] @@ Http}}

MCWorlds == Flaws \union Asked \union Paths \union Dual \union Extensions \union Headers

=============================================================================
