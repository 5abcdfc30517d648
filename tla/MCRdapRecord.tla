---------------------------- MODULE MCRdapRecord ----------------------------
(***************************************************************************)
(* Four authors: one who says all there is to say of a contact; one who    *)
(* puts every kind of object into every other; one who publishes records   *)
(* with redactions; and one whose server changes its record and its mind   *)
(* about how long it may be kept.                                          *)
(***************************************************************************)
EXTENDS RdapRecord

MCCaseFold == ("US" :> "us") @@ ("DC" :> "dc") @@ ("WORK" :> "work") @@ ("JSONPath" :> "jsonpath")
              @@ ("SELF" :> "self")
MCMarks == {":", "/", "*", "'"}
MCALabels == "uni" :> "xn--uni"

Ten == <<"10", ".", "0", ".", "0", ".", "0">>
TenEnd == <<"10", ".", "255", ".", "255", ".", "255">>
Six == <<"2001", ":", "db8", ":", ":">>
SixEnd == Six \o <<"ffff">>
MCIpAddresses ==
  (Ten :> [version |-> "v4", parts |-> <<10, 0, 0, 0>>, shown |-> Ten])
  @@ (TenEnd :> [version |-> "v4", parts |-> <<10, 255, 255, 255>>, shown |-> TenEnd])
  @@ (Six :> [version |-> "v6", parts |-> <<8193, 3512, 0, 0, 0, 0, 0, 0>>, shown |-> Six])
  @@ (SixEnd :> [version |-> "v6", parts |-> <<8193, 3512, 0, 0, 0, 0, 0, 65535>>, shown |-> SixEnd])
MCCidrs ==
  (Ten \o <<"/", "8">> :> [version |-> "v4", first |-> Ten, last |-> TenEnd, length |-> 8])
  @@ (Six \o <<"/", "112">> :> [version |-> "v6", first |-> Six, last |-> SixEnd, length |-> 112])

(* Contacts                                                                *)
Bob == [full_name |-> <<"Bob">>]
Wordy == [full_name |-> <<"Bob">>, kind |-> <<"individual">>, titles |-> <<<<"Mr">>, <<>>>>,
          roles |-> <<<<"boss">>>>, nick_names |-> <<<<"B">>>>, organization_names |-> <<<<"Org">>, <<"Unit">>>>,
          name_parts |-> [surnames |-> <<<<"Smurd">>>>, given_names |-> <<<<"Bob">>, <<>>, <<"Ray">>>>,
                          suffixes |-> <<<<"Jr">>>>],
          langs |-> <<[tag |-> <<"en">>, preference |-> 1], [tag |-> <<"fr">>]>>,
          contact_uris |-> <<<<"uri">>>>, urls |-> <<<<"url">>>>,
          emails |-> <<[email |-> <<"old">>, contexts |-> <<<<"WORK">>, <<"fun">>>>, preference |-> 2]>>,
          phones |-> <<[phone |-> <<"0">>, contexts |-> <<<<"home">>>>, features |-> <<<<"text">>, <<"fax">>>>,
                        preference |-> 1],
                       [phone |-> <<"1">>]>>,
          postal_addresses |-> <<[full_address |-> <<"'", "all of it", "'">>, contexts |-> <<<<"home">>, <<"work">>>>],
                                 [country_code |-> <<"US">>, preference |-> 1]>>]
Nameless == [organization_names |-> <<<<"Org">>>>]

Calls == {
  [set |-> "emails", to |-> <<<<"e1">>, <<"e2">>>>], [set |-> "emails", to |-> <<>>],
  [set |-> "voice", to |-> <<<<"1">>, <<"2">>>>], [set |-> "fax", to |-> <<<<"3">>>>], [set |-> "fax", to |-> <<>>],
  [set |-> "address", to |-> [street_parts |-> <<<<"s1">>, <<>>, <<"s3">>, <<"s4">>>>, locality |-> <<"town">>,
                              region_code |-> <<"D", "C">>, country_name |-> <<"us">>, postal_code |-> <<"20001">>]],
  [set |-> "address", to |-> [street_parts |-> <<<<"s1">>>>, region_name |-> <<"D", "C">>, region_code |-> <<"XX">>,
                              country_code |-> <<"U", "S">>, contexts |-> <<<<"WORK">>>>]],
  [set |-> "address", to |-> [full_address |-> <<"not", "quoted">>]],
  [set |-> "address", to |-> [full_address |-> <<"123">>, locality |-> <<"town">>]]}

(* Objects                                                                 *)
SelfLink(href) == [value |-> "v", href |-> href, type |-> RdapMediaType]
Related == [rel |-> "related"] @@ SelfLink("far")
OldSelf == [rel |-> "SELF"] @@ SelfLink("old")
Sound == [handle |-> <<"H">>, status |-> <<<<"active">>>>, links |-> <<OldSelf, Related>>, events |-> <<>>,
          remarks |-> <<[description |-> "an array"]>>, notices |-> <<[description |-> "an array"]>>,
          port43 |-> <<"whois">>]
Bare == [status |-> <<>>, notices |-> <<>>]
Kind(kind, given, options) == [kind |-> kind, given |-> given, options |-> options]
Name == <<"foo", ".", "test">>
MCObjects ==
  {Kind("domain", Name, options) : options \in {Sound, Bare}}
  \union {Kind("idn", <<"uni", ".", "test">>, Sound),
          Kind("entity", <<"E">>, Sound), Kind("entity", <<"E">>, [roles |-> <<<<"registrant">>>>] @@ Bare),
          Kind("nameserver", [name |-> Name, addresses |-> <<Six, Ten>>], Sound),
          Kind("nameserver", [name |-> Name, addresses |-> <<>>], Bare),
          Kind("nameserver", [name |-> Name, addresses |-> <<<<"x">>>>], Bare),
          Kind("autnum", [start |-> <<0, 700>>, end |-> <<0, 710>>], Sound),
          Kind("network", Ten \o <<"/", "8">>, Sound), Kind("network", Six \o <<"/", "112">>, Bare),
          Kind("search", "entitySearchResults", Bare), Kind("search", "nameserverSearchResults", Bare),
          Kind("search", "domainSearchResults", Bare),
          Kind("help", "none", Sound), Kind("error", 404, Sound), Kind("redirect", "far", Bare)}

(* Redactions                                                              *)
Redaction(type, method, paths) ==
  [nameType |-> Text(type), method |-> method, postPath |-> paths, pathLang |-> "jsonpath"]
Handle == <<"handle">>
Inner == <<"entities", 1>>
Email == <<"vcardArray", "properties", 4, "value", "str">>
NameOf == <<"vcardArray", "properties", 2, "value", "str">>
MCRedactions == {
  <<Redaction("Registrant Name", "emptyValue", {Inner \o NameOf, NameOf}),
    Redaction("Registrant Phone", "removal", {Handle})>>,
  <<Redaction("Registrant Email", "partialValue", {Handle, Inner \o Email}),
    Redaction("Registry Domain ID", "emptyValue", {Handle})>>,
  <<[postPath |-> {Handle}], [method |-> "emptyValue", postPath |-> {Inner \o Handle, <<"links">>}],
    [method |-> "emptyValue", postPath |-> {Handle}, pathLang |-> "xpath"], [method |-> "partialValue"]>>,
  <<[method |-> "emptyValue", postPath |-> {Inner \o <<"objectClassName">>}, pathLang |-> "JSONPath"],
    Redaction("Registrant City", "removal", {Handle}), Redaction("Tech Email", "removal", {Handle}),
    Redaction("Registry Registrant ID", "removal", {Handle})>>,
  <<[method |-> "emptyValue", postPath |-> {<<"objectClassName">>, Handle}]>>,
  <<Redaction("Registry Registrant ID", "emptyValue", {<<"redacted", 1, "nameType">>, <<"status">>}),
    Redaction("Registrant Name", "partialValue", {<<"roles">>, Inner \o Handle}),
    Redaction("Registrant Phone", "removal", {Handle})>>,
  <<[method |-> "emptyValue", postPath |-> {<<"redacted", 1, "method">>, Handle}]>>}
Reach == [emails |-> <<[email |-> <<"e">>]>>, phones |-> <<[phone |-> <<"1">>]>>,
          name_parts |-> [surnames |-> <<<<"Smurd">>>>],
          postal_addresses |-> <<[locality |-> <<"town">>, full_address |-> <<"'", "all of it", "'">>]>>] @@ Bob
MCRedacted ==
  {Kind("entity", <<"E">>, [roles |-> <<<<role>>>>, redacted |-> r, status |-> <<<<"active">>>>])
     : role \in {"registrant", "technical"}, r \in MCRedactions}
  \union {Kind("domain", Name, [handle |-> handle, redacted |-> r]) : handle \in {<<>>, <<"H">>}, r \in MCRedactions}
  \union {Kind("search", "entitySearchResults", Bare)}

(* Answers                                                                 *)
MCPolicies == {<<>>, [keep |-> "no"], [maxAge |-> 1], [maxAge |-> 3, expires |-> 1], [expires |-> 2],
               [maxAge |-> IllTyped, expires |-> IllTyped], [maxAge |-> 1000]}

Author(contacts, calls, objects, links, policies, bounds) ==
  [contacts |-> contacts, calls |-> calls, builds |-> objects, links |-> links, policies |-> policies,
   bounds |-> [calls |-> bounds[1], builds |-> bounds[2], serves |-> bounds[3], asked |-> bounds[4],
               now |-> bounds[5]]]

MCAuthors == {
  Author({Bob, Wordy, Nameless}, Calls, {Kind("entity", <<"E">>, Bare)}, {}, {}, <<3, 1, FALSE, 0, 0>>),
  Author({Bob, Nameless}, {}, MCObjects, {SelfLink("u2")}, {}, <<0, 3, FALSE, 0, 0>>),
  Author({Reach}, {}, MCRedacted, {}, {<<>>}, <<0, 2, TRUE, 2, 0>>),
  Author({Bob}, {}, {Kind("domain", Name, Bare)}, {SelfLink("u2")}, MCPolicies,
         <<0, 1, TRUE, 3, 3>>)}

=============================================================================
