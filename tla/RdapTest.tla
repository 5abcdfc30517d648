------------------------------ MODULE RdapTest ------------------------------
(***************************************************************************)
(* The command `rdap-test` (icann-rdap-cli/src/bin/rdap-test and rt): it   *)
(* finds the server of a query, tests the server at every address it has,  *)
(* once without and once with an origin header, and exits with a code that *)
(* says what the answers were found to be.                                 *)
(***************************************************************************)
EXTENDS Registries, Checks

CONSTANTS Services,     \* what IANA publishes: the services of every registry
          Worlds        \* what may be asked for, with which options, and what is out there

(* A world has the value and the options of the command line, the file     *)
(* that caches the registry, the answers of the DNS by host, and the       *)
(* answers that may come from a URL: "referral" for the one of the         *)
(* referral, an address for the ones of the runs.                          *)
Skips == {"v4", "v6", "origin"}
Families == {"v4", "v6"}
Groups == {"Gtld", "Nro", "NroAsn"}
CheckTypes == {"All", "Info", "SpecNote", "StdWarning", "StdError", "Cidr0Error", "IcannError"}

(* What went wrong with a request: RunOutcome has a variant for each.      *)
Failures ==
  {"NetworkError", "HttpProtocolError", "HttpConnectError", "HttpRedirectError", "HttpTimeoutError",
   "HttpNon200Error", "HttpTooManyRequestsError", "HttpNotFoundError", "HttpBadRequestError",
   "HttpUnauthorizedError", "HttpForbiddenError", "JsonError", "RdapDataError", "InternalError"}

(* What the DNS says of a host for either type of record: whether there is *)
(* an alias, and the addresses in their order.                             *)
IsDnsAnswer(answer) ==
  answer.cname \in BOOLEAN /\ answer.addresses \in Seq(DOMAIN IpAddresses)

ASSUME WorldsAssumption ==
  \A world \in Worlds :
    /\ IsPlain(world.value)
    /\ world.skip \subseteq Skips /\ world.groups \subseteq Groups
    /\ world.checkTypes \subseteq CheckTypes
    /\ world.cache \in {"none", "fresh", "stale", "broken"}
    /\ world.dns # IllTyped => IsDnsAnswer(world.dns.A) /\ IsDnsAnswer(world.dns.AAAA)
    /\ \A from \in {"referral"} \union Families : \A answer \in world.answers[from] :
         Has(answer, "error") => answer.error \in Failures

(* A registry is lists of lists of texts; a URL is not an empty one.       *)
ASSUME ServicesAssumption ==
  \A registry \in {"dns", "asn", "ipv4", "ipv6", "tags"} :
    /\ Services[registry] \in Seq(Seq(Seq(Seq(STRING))))
    /\ \A s \in DOMAIN Services[registry] : LET service == Services[registry][s]
                                          IN service # <<>> => \A i \in DOMAIN service[Len(service)] :
                                                                 service[Len(service)][i] # <<>>

VARIABLES pc,       \* what is done next
          world,
          query,    \* the query of the value
          cache,    \* the registry's file
          url,      \* the URL to test
          dns,      \* the addresses of its host
          runs,     \* all its runs: they count as skipped until they end
          at,       \* the next of them
          more,     \* whether addresses of this family are still tested
          exit      \* the exit code

vars == <<pc, world, query, cache, url, dns, runs, at, more, exit>>
runVars == <<runs, at, more>>

None == "none"
Running == -1

NoDns == [cname |-> {}, v4 |-> <<>>, v6 |-> <<>>]

Init ==
  /\ world \in Worlds
  /\ pc = "arguments"
  /\ cache = world.cache
  /\ query = None /\ url = <<>> /\ dns = NoDns
  /\ runs = <<>> /\ at = 1 /\ more = TRUE
  /\ exit = Running

Exit(code) ==
  /\ pc' = "done"
  /\ exit' = code

(* RdapTestError::report: an error of the execution is one code, whatever  *)
(* it is; a value that is no query has a code of its own.                  *)
ExecutionError == 40
QueryErrorCode == [AmbiquousQueryType |-> 203, DomainNameError |-> 204]
Panic == 101

---------------------------------------------------------------------------
(* The extensions that are expected: one of a set of alternatives.         *)

IsRegistered(alternatives) == \E id \in ExtensionId : alternatives = {id}

GroupExtensions == [
  Gtld |-> {{Profile0, Profile1}, {Tig0, Tig1}},
  Nro |-> {{"nro_rdap_profile_0"}, {"cidr0"}},
  NroAsn |-> {{"nro_rdap_profile_0"},
              {"nro_rdap_profile_asn_flat_0", "nro_rdap_profile_asn_hierarchical_0"}}]

(* normalize_extension_ids                                                 *)
AreNormal == world.unregistered \/ \A alternatives \in world.expect : IsRegistered(alternatives)

(* A slip the runs must catch: the groups are left out.                    *)
ExpectedWithoutGroups == world.expect

Expected == world.expect \union UNION {GroupExtensions[group] : group \in world.groups}

---------------------------------------------------------------------------
(* The URL to test                                                         *)

AfterUrl == IF world.referral THEN "referral" ELSE "resolve"

(* wrapped_main and the first lines of execute_tests                       *)
ReadArguments ==
  /\ pc = "arguments"
  /\ query' = ParseQuery(world.value)
  /\ IF query'.type = "error" THEN Exit(QueryErrorCode[query'.value]) /\ UNCHANGED url
     ELSE IF ~AreNormal THEN Exit(ExecutionError) /\ UNCHANGED url
     ELSE /\ pc' = IF query'.type = "Url" THEN AfterUrl ELSE "registry"
          /\ url' = IF query'.type = "Url" THEN query'.value ELSE url
          /\ UNCHANGED exit
  /\ UNCHANGED <<world, cache, dns, runVars>>

(* fetch_bootstrap: a file that cannot be read is an error.                *)
FetchRegistry ==
  /\ pc = "registry"
  /\ cache \in {"none", "stale"}
  /\ cache' = "fresh"
  /\ UNCHANGED <<pc, world, query, url, dns, runVars, exit>>

RegistryFails ==
  /\ pc = "registry"
  /\ cache \in {"none", "stale", "broken"}
  /\ Exit(ExecutionError)
  /\ UNCHANGED <<world, query, cache, url, dns, runVars>>

LookUp ==
  /\ pc = "registry"
  /\ cache = "fresh"
  /\ LET base == BaseUrl(query, Services[RegistryOf[query.type]])
     IN IF IsError(base) THEN Exit(ExecutionError) /\ UNCHANGED url
        ELSE /\ url' = QueryUrl(query, base.url)
             /\ pc' = AfterUrl
             /\ UNCHANGED exit
  /\ UNCHANGED <<world, query, cache, dns, runVars>>

(* A client that takes https only refuses a URL of another scheme.         *)
IsRefused == url[1] # "https://" /\ ~world.allowHttp

(* An answer is an error of the HTTP client, a text that is no JSON, or a  *)
(* JSON text.  This is what rdap_url_request makes of it.                  *)
Request(answer) ==
  CASE IsRefused -> [error |-> "HttpProtocolError"]
    [] ~IsRefused /\ Has(answer, "error") -> answer
    [] OTHER -> IF ~Has(answer, "json") THEN [error |-> "JsonError"]
                ELSE IF ~IsRdap(answer.json) THEN [error |-> "RdapDataError"]
                ELSE answer

Chase ==
  /\ pc = "referral"
  /\ \E answer \in world.answers["referral"] :
       LET response == Request(answer)
           links == IF Has(response, "json") THEN RelatedLinks(response.json) ELSE <<>>
       IN IF links = <<>> THEN Exit(ExecutionError) /\ UNCHANGED url
          ELSE /\ url' = links[1]
               /\ pc' = "resolve"
               /\ UNCHANGED exit
  /\ UNCHANGED <<world, query, cache, dns, runVars>>

---------------------------------------------------------------------------
(* The addresses of the server                                             *)

(* Url::parse and host_str: a URL has a scheme and a host.                 *)
HostOf(text) ==
  LET path == {i \in DOMAIN text : i > 1 /\ text[i] = "/"}
  IN SubSeq(text, 2, IF path = {} THEN Len(text) ELSE First(path) - 1)

IsParsed(text) == IsUrl(text) /\ HostOf(text) # <<>>

Unbracketed(host) == TrimEnd(TrimStart(host, {"["}), {"]"})

IsVersion(text, version) == IsIp(text) /\ Ip(text).version = version
IsLiteral(host) == IsVersion(host, "v4") \/ IsVersion(Unbracketed(host), "v6")

(* get_dns_records                                                         *)
DnsData(host) ==
  CASE IsVersion(host, "v4") -> [NoDns EXCEPT !.v4 = <<host>>]
    [] ~IsVersion(host, "v4") /\ IsLiteral(host) -> [NoDns EXCEPT !.v6 = <<Unbracketed(host)>>]
    [] OTHER ->
         [cname |-> {type \in {"A", "AAAA"} : world.dns[type].cname},
          v4 |-> world.dns.A.addresses, v6 |-> world.dns.AAAA.addresses]

(* TestRun::new_v4 and new_v6.  Both loops make two runs of an address.    *)
NoJson == <<>>
NewRun(family, addresses, k) ==
  [family |-> family, address |-> addresses[(k + 1) \div 2], origin |-> k % 2 = 0,
   outcome |-> "Skipped", checks |-> {}, json |-> NoJson]

RunsOf(addresses) ==
  LET v4 == 2 * Len(addresses.v4)
  IN [k \in 1..(v4 + 2 * Len(addresses.v6)) |->
        IF k <= v4 THEN NewRun("v4", addresses.v4, k) ELSE NewRun("v6", addresses.v6, k - v4)]

(* A DNS query that fails is unwrapped.                                    *)
Resolve ==
  /\ pc = "resolve"
  /\ LET host == HostOf(url)
     IN IF ~IsParsed(url) THEN Exit(ExecutionError) /\ UNCHANGED <<dns, runs>>
        ELSE IF ~IsLiteral(host) /\ world.dns = IllTyped THEN Exit(Panic) /\ UNCHANGED <<dns, runs>>
        ELSE /\ dns' = DnsData(host)
             /\ runs' = RunsOf(dns')
             /\ pc' = "runs"
             /\ UNCHANGED exit
  /\ UNCHANGED <<world, query, cache, url, at, more>>

---------------------------------------------------------------------------
(* The runs                                                                *)

IsSkipped(run) ==
  \/ run.family \in world.skip
  \/ run.origin /\ "origin" \in world.skip
  \/ ~more

(* do_checks                                                               *)
DoChecks(answer) ==
  GetChecks(answer.json, ForRdap(answer.json, world.unregistered))
  \union HttpChecks(answer.http, answer.json)
  \union When(\E alternatives \in Expected : \A id \in alternatives : ~HasExtension(answer.json, id),
              "ExpectedExtensionNotFound")

(* TestRun::end                                                            *)
Ended(run, response) ==
  IF Has(response, "error") THEN [run EXCEPT !.outcome = response.error]
  ELSE [run EXCEPT !.outcome = "Tested", !.checks = DoChecks(response), !.json = response.json]

(* A slip the runs must catch: one address is enough for both families.    *)
MoreAfterOne == more /\ ~(runs[at].origin /\ world.oneAddr)

(* The flag is put down after an address and up again before the v6 loop.  *)
MoreAfter ==
  \/ more /\ ~(runs[at].origin /\ world.oneAddr)
  \/ at = 2 * Len(dns.v4)

(* An origin that no header can have ends the test, whatever was found.    *)
Run ==
  /\ pc = "runs"
  /\ at \in DOMAIN runs
  /\ LET run == runs[at]
     IN IF IsSkipped(run) THEN UNCHANGED <<pc, runs, exit>>
        ELSE IF run.origin /\ world.badOrigin THEN Exit(ExecutionError) /\ UNCHANGED runs
        ELSE /\ \E answer \in world.answers[run.family] :
                  runs' = [runs EXCEPT ![at] = Ended(run, Request(answer))]
             /\ UNCHANGED <<pc, exit>>
  /\ at' = at + 1
  /\ more' = MoreAfter
  /\ UNCHANGED <<world, query, cache, url, dns>>

---------------------------------------------------------------------------
(* The results                                                             *)

(* TestResults::end                                                        *)
ServiceChecks ==
  When("A" \in dns.cname /\ dns.v4 = <<>>, "CnameWithoutARecords")
  \union When("AAAA" \in dns.cname /\ dns.v6 = <<>>, "CnameWithoutAAAARecords")
  \union When(dns.v4 = <<>>, "NoARecords")
  \union When(dns.v6 = <<>>, "NoAAAARecords")
  \union When(dns.v6 = <<>> /\ \E alternatives \in Expected : alternatives \in {{Tig0}, {Tig1}, {Tig0, Tig1}},
              "Ipv6SupportRequiredByIcann")

ErrorClasses == {"StdError", "Cidr0Error", "IcannError"}

(* The classes of checks that count: without an argument, the errors and   *)
(* the warnings.                                                           *)
CheckClasses ==
  CASE world.checkTypes = {} -> ErrorClasses \union {"StdWarning"}
    [] "All" \in world.checkTypes -> CheckTypes \ {"All"}
    [] OTHER -> world.checkTypes

(* are_there_checks                                                        *)
AreThereChecks(classes) ==
  \/ \E i \in DOMAIN runs : AnyOfClasses(runs[i].checks, classes)
  \/ AnyOfClasses(ServiceChecks, classes)

(* The runs that could not be made come first, then errors, then warnings. *)
ExitCode ==
  CASE \E i \in DOMAIN runs : runs[i].outcome \notin {"Tested", "Skipped"} -> 1
    [] \A i \in DOMAIN runs : runs[i].outcome \in {"Tested", "Skipped"} ->
         IF AreThereChecks(CheckClasses \intersect ErrorClasses) THEN 3
         ELSE IF AreThereChecks(CheckClasses \intersect {"StdWarning"}) THEN 2
         ELSE 0

(* A slip the runs must catch: the report does not wait for all the runs.  *)
ReportEarly ==
  /\ pc = "runs"
  /\ Exit(ExitCode)
  /\ UNCHANGED <<world, query, cache, url, dns, runVars>>

Report ==
  /\ pc = "runs"
  /\ at \notin DOMAIN runs
  /\ Exit(ExitCode)
  /\ UNCHANGED <<world, query, cache, url, dns, runVars>>

(* Rendering for a terminal may fail to write.                             *)
OutputFails ==
  /\ pc = "runs"
  /\ at \notin DOMAIN runs
  /\ world.rendered
  /\ Exit(10)
  /\ UNCHANGED <<world, query, cache, url, dns, runVars>>

Done ==
  /\ pc = "done"
  /\ UNCHANGED vars

Next ==
  \/ ReadArguments \/ FetchRegistry \/ RegistryFails \/ LookUp \/ Chase
  \/ Resolve \/ Run \/ Report \/ OutputFails \/ Done

Spec == Init /\ [][Next]_vars

---------------------------------------------------------------------------
(* What a server of this repository makes of a path (srv/src/rdap)         *)

Meant(token) ==
  IF token \in Encodings THEN CHOOSE t \in DOMAIN Encoded : Encoded[t] = token ELSE token

Decoded(text) == [i \in DOMAIN text |-> Meant(text[i])]

(* The routes: a lookup has one segment, an address may have two.  A "/"   *)
(* or a "?" that is not encoded ends the segment.                          *)
IsSegment(text) == text # <<>> /\ \A i \in DOMAIN text : text[i] \notin {"/", "?", "#"}

Routed(path) ==
  LET class == path[1]
      rest == SubSeq(path, 3, Len(path))
  IN IF Len(path) > 1 /\ path[2] = "/" /\ (IsSegment(rest) \/ class = "ip")
     THEN [class |-> class, key |-> Decoded(rest)]
     ELSE [class |-> "other", key |-> path]

---------------------------------------------------------------------------
(* Properties                                                              *)

Completed == exit \in 0..3

TypeOK ==
  /\ pc \in {"arguments", "registry", "referral", "resolve", "runs", "done"}
  /\ cache \in {"none", "fresh", "stale", "broken"}
  /\ DOMAIN dns = {"cname", "v4", "v6"}
  /\ more \in BOOLEAN
  /\ exit \in {Running, 0, 1, 2, 3, 10, ExecutionError, Panic, 203, 204}
  /\ (exit = Running) <=> (pc # "done")
  /\ Completed => at \notin DOMAIN runs

(* How a query and an entry of a registry go together, and which of two    *)
(* entries that do is closer.                                              *)
IsUnder(name, entry) ==
  entry = <<>> \/ name = entry \/ EndsWith(name, <<".">> \o entry)

Serves(service) ==
  LET entries == SE!ToSet(service[IF query.type = "Entity" THEN 2 ELSE 1])
  IN CASE query.type \in {"Domain", "Nameserver"} ->
            {e \in entries : IsUnder(DomainToAscii(query.value), e)}
       [] query.type = "Entity" -> {e \in entries : EndsWith(Folded(query.value), <<"-">> \o Folded(e))}
       [] query.type = "AsNumber" ->
            {e \in entries : /\ \A end \in {e[1], e[Len(e)]} : <<end>> \in DOMAIN Numerals
                             /\ NotAbove(Numerals[<<e[1]>>].number, query.value.number)
                             /\ NotAbove(query.value.number, Numerals[<<e[Len(e)]>>].number)}
       [] OTHER -> {e \in entries :
                      Covers(Networks[e], IF Has(query.value, "block") THEN query.value ELSE Host(query.value))}

IsCloser(a, b) ==
  CASE RegistryOf[query.type] = "dns" -> Len(a) > Len(b)
    [] RegistryOf[query.type] \in {"ipv4", "ipv6"} ->
         Covers(Networks[b], Networks[a]) /\ ~Covers(Networks[a], Networks[b])
    [] OTHER -> FALSE

(* The URL of the query, before a referral is followed.                    *)
IsAsked == pc = AfterUrl /\ query.type # "Url"

(* ends_with also takes an entry that ends the name within a label: this   *)
(* is where no such entry is longer than all that end it at a label.       *)
LabelsDecide ==
  RegistryOf[query.type] = "dns" =>
    LET name == DomainToAscii(query.value)
        entries == {EntryAt(Services["dns"], p) : p \in Places(Services["dns"])}
    IN \A f \in entries : EndsIn(name, f) =>
         \E e \in entries : IsUnder(name, e) /\ (e = f \/ IsLonger(e, f))

(* The server that is tested is one that IANA lists for the query: no      *)
(* other service has an entry that is closer to it, and the URL is one     *)
(* with https if the service has one.  Of a name nothing is claimed where  *)
(* the longest end of it that is listed begins within a label: for         *)
(* x.xn--54b7fta0cc, if only cc is listed, the code takes that of cc       *)
(* instead of none.                                                        *)
RightServer ==
  IsAsked /\ LabelsDecide =>
    LET services == SE!ToSet(Services[RegistryOf[query.type]])
        from(s, u) == /\ u \in SE!ToSet(s[Len(s)])
                      /\ StartsWith(url, TrimEnd(u, {"/"}) \o <<"/">>)
    IN \E s \in services :
         /\ \E u \in SE!ToSet(s[Len(s)]) :
              from(s, u) /\ (u[1] = "https://" \/ \A v \in SE!ToSet(s[Len(s)]) : v[1] # "https://")
         /\ \E e \in Serves(s) : \A other \in services : ~\E f \in Serves(other) : IsCloser(f, e)

(* The path of a query comes to the handler of what is asked for, and the  *)
(* key the handler decodes is the one that was typed in.  Of a domain of   *)
(* dots alone nothing is left.                                             *)
QueryReaches ==
  IsAsked =>
    LET routed == Routed(QueryPath(query))
        keyIs(class, key) == routed = [class |-> class, key |-> key]
        value == query.value
    IN CASE query.type \in {"IpV4Addr", "IpV6Addr"} -> IsIp(routed.key) /\ keyIs("ip", value.shown)
         [] query.type \in {"IpV4Cidr", "IpV6Cidr"} ->
              IsCidr(routed.key) /\ routed.class = "ip" /\ Networks[routed.key].block = value.block
         [] query.type = "AsNumber" ->
              routed.class = "autnum" /\ Numerals[routed.key].number = value.number
         [] query.type = "Entity" -> keyIs("entity", world.value)
         [] query.type = "Nameserver" -> keyIs("nameserver", DomainToAscii(world.value))
         [] OTHER -> TrimLeadingDot(world.value) # <<>> =>
                     /\ routed.class = "domain"
                     /\ DomainToAscii(routed.key) = DomainToAscii(TrimLeadingDot(world.value))

(* The objects of a response that the checks should come to: the object or *)
(* the results, and the entities in them at any depth.  A result is taken  *)
(* with the class it has there.                                            *)
Tops(json) ==
  IF Class(json) \in SearchClasses THEN {<<ResultClass[Class(json)], o>> : o \in Elements(json, Class(json))}
  ELSE IF Class(json) \in ObjectClasses THEN {<<Class(json), json>>} ELSE {}

ObjectsIn(json) ==
  LET deep[n \in 0..MaxNesting] ==
        IF n = 0 THEN Tops(json)
        ELSE {<<"entity", e>> : e \in UNION {Elements(o[2], "entities") : o \in deep[n - 1]}}
  IN UNION {deep[n] : n \in 0..MaxNesting}

(* What an object is found to be when it is the whole of a response, with  *)
(* a conformance if it has none.  Its entities are objects of their own.   *)
Whole(class, object) ==
  [member \in (DOMAIN object \ {"entities"}) \union {"rdapConformance", "objectClassName"} |->
     CASE member = "objectClassName" -> class
       [] member = "rdapConformance" /\ ~Has(object, "rdapConformance") -> <<"rdap_level_0">>
       [] OTHER -> object[member]]

Alone(class, object) ==
  GetChecks(Whole(class, object), ForRdap(Whole(class, object), world.unregistered))

(* The exit code tells of the flaw of an object what it would tell of the  *)
(* object alone, however deep it is in an answer, in whatever run the      *)
(* answer came, and whatever else was found: with code 0 no such flaw of   *)
(* a class that counts was there, with code 2 none of an error class.      *)
ExitTells ==
  exit \in {0, 2} =>
    LET classes == IF exit = 0 THEN CheckClasses \intersect (ErrorClasses \union {"StdWarning"})
                   ELSE CheckClasses \intersect ErrorClasses
    IN \A i \in DOMAIN runs :
         runs[i].outcome = "Tested" =>
           \A o \in ObjectsIn(runs[i].json) : ~AnyOfClasses(Alone(o[1], o[2]), classes)

(* Every address is tested without and with an origin, in this order,      *)
(* unless an option says otherwise: of two families, each is tested on its *)
(* own, also when one address of a family is enough.                       *)
EveryAddressTested ==
  Completed =>
    \A family \in Families, origin \in BOOLEAN : \A i \in 1..Len(dns[family]) :
      LET before == 2 * (i - 1) + IF family = "v6" THEN 2 * Len(dns.v4) ELSE 0
          run == runs[before + IF origin THEN 2 ELSE 1]
          wanted == family \notin world.skip /\ (origin => "origin" \notin world.skip)
      IN /\ run.family = family /\ run.address = dns[family][i] /\ run.origin = origin
         /\ (run.outcome # "Skipped") <=> (wanted /\ (world.oneAddr => i = 1))

(* Success means that every answer declares every extension that was asked *)
(* for, one by one or by the group: for a group of alternatives, one.      *)
ExpectedDeclared ==
  exit = 0 /\ "StdError" \in CheckClasses =>
    \A i \in DOMAIN runs : runs[i].outcome = "Tested" =>
      LET declared == Elements(runs[i].json, "rdapConformance")
      IN /\ \A alternatives \in world.expect : alternatives \intersect declared # {}
         /\ "Gtld" \in world.groups =>
              {Profile0, Profile1} \intersect declared # {} /\ {Tig0, Tig1} \intersect declared # {}
         /\ world.groups \intersect {"Nro", "NroAsn"} # {} => "nro_rdap_profile_0" \in declared

=============================================================================
