--------------------------- MODULE RdapTestProofs ---------------------------
(***************************************************************************)
(* What holds of every test that `rdap-test` makes, of whatever value, with*)
(* whatever options, registries, DNS answers and server answers.           *)
(*                                                                         *)
(* The invariant of the runs has four parts:                               *)
(*   Plan     the runs are those of the addresses, two of each, whatever   *)
(*            has come of them;                                            *)
(*   Turns    whether the next run is of an address that is still wanted,  *)
(*            when one address of a family is enough;                      *)
(*   Results  the runs made are those before the next one, and of these    *)
(*            the ones that no option skips;                               *)
(*   Findings the checks of an answer have what its objects are found to   *)
(*            be, and whether an extension is missing that is expected; an *)
(*            exit code of 0 or 2 says what checks there are not.          *)
(* Of the URL that is tested there is a second invariant, Asked, after     *)
(* what the operators of the registries and of the queries give.           *)
(***************************************************************************)
EXTENDS RdapTest, FiniteSetTheorems, SequenceTheorems, WellFoundedInduction, TLAPS

Texts == DOMAIN IpAddresses
HasLists(addresses) ==
  DOMAIN addresses = {"cname", "v4", "v6"} /\ addresses.v4 \in Seq(Texts) /\ addresses.v6 \in Seq(Texts)

(* How many runs there are of the addresses before the v6 ones, and of all.*)
RunsOfV4 == 2 * Len(dns.v4)
AllRuns == 2 * Len(dns.v4) + 2 * Len(dns.v6)

Fields == {"family", "address", "origin", "outcome", "checks", "json"}

Plan ==
  /\ world \in Worlds
  /\ HasLists(dns)
  /\ DOMAIN runs = 1..AllRuns
  /\ \A k \in 1..AllRuns : /\ DOMAIN runs[k] = Fields
                           /\ runs[k].family = RunsOf(dns)[k].family
                           /\ runs[k].address = RunsOf(dns)[k].address
                           /\ runs[k].origin = RunsOf(dns)[k].origin
  /\ pc \notin {"runs", "done"} => dns = NoDns /\ runs = <<>>

(* The two runs of the first address of either family.                     *)
FirstRuns == {1, 2, RunsOfV4 + 1, RunsOfV4 + 2}

Turns ==
  /\ at \in Nat \ {0}
  /\ pc \notin {"runs", "done"} => at = 1 /\ more = TRUE
  /\ pc = "runs" => at <= AllRuns + 1
  /\ pc = "runs" /\ at <= AllRuns => (more <=> (world.oneAddr => at \in FirstRuns))

Wanted(k) ==
  /\ runs[k].family \notin world.skip
  /\ runs[k].origin => "origin" \notin world.skip
  /\ world.oneAddr => k \in FirstRuns

Results ==
  pc # "done" \/ Completed =>
    \A k \in 1..AllRuns : (runs[k].outcome # "Skipped") <=> (k < at /\ Wanted(k))

NotDeclared(json) == \E alternatives \in Expected : \A id \in alternatives : ~HasExtension(json, id)

(* The checks of a run that was made have those of its answer.             *)
ChecksKept(run) ==
  run.outcome = "Tested" =>
    /\ NotDeclared(run.json) => "ExpectedExtensionNotFound" \in run.checks
    /\ GetChecks(run.json, ForRdap(run.json, world.unregistered)) \subseteq run.checks

Findings ==
  /\ \A k \in 1..AllRuns : ChecksKept(runs[k])
  /\ exit \in {0, 2} => ~AreThereChecks(CheckClasses \intersect ErrorClasses)
  /\ exit = 0 => ~AreThereChecks(CheckClasses \intersect {"StdWarning"})

---------------------------------------------------------------------------
(* The operators                                                           *)

(* The only errors of a text that is no query are the two with codes.      *)
LEMMA QueryErrors ==
  ASSUME NEW text, ParseQuery(text).type = "error"
  PROVE  ParseQuery(text).value \in DOMAIN QueryErrorCode
<1> DEFINE q == ParseQuery(text)
           number == TrimStart(text, AutnumPrefix)
<1>1. \/ q = Query("Url", text)
      \/ q = Query("AsNumber", Numerals[number])
      \/ q = Query(OfVersion(Ip(text).version, "IpV4Addr", "IpV6Addr"), Ip(text))
      \/ q = Query(OfVersion(Networks[text].version, "IpV4Cidr", "IpV6Cidr"), Networks[text])
      \/ q = NamedQuery(text)
      \/ q = Query("Entity", text)
      \/ q = QueryError("AmbiquousQueryType")
  BY DEF ParseQuery
<1>2. \/ NamedQuery(text) = QueryError("DomainNameError")
      \/ NamedQuery(text) = Query("Nameserver", text)
      \/ NamedQuery(text) = Query("Domain", text)
  BY DEF NamedQuery
<1>3. q.type = "error" => q \in {QueryError("AmbiquousQueryType"), QueryError("DomainNameError")}
  BY <1>1, <1>2 DEF Query, QueryError, OfVersion
<1>4. q \in {QueryError("AmbiquousQueryType"), QueryError("DomainNameError")}
  BY <1>3
<1> QED BY <1>4 DEF QueryError, QueryErrorCode

(* The addresses of a host are lists, whether it is one or the DNS is asked*)
LEMMA DnsLists ==
  ASSUME world \in Worlds, NEW host, IsLiteral(host) \/ world.dns # IllTyped
  PROVE  HasLists(DnsData(host))
<1>1. CASE IsVersion(host, "v4")
  <2>1. host \in Texts
    BY <1>1 DEF IsVersion, IsIp, Texts
  <2>2. DnsData(host) = [cname |-> {}, v4 |-> <<host>>, v6 |-> <<>>]
    BY <1>1 DEF DnsData, NoDns
  <2> QED BY <2>1, <2>2 DEF HasLists
<1>2. CASE ~IsVersion(host, "v4") /\ IsLiteral(host)
  <2>1. Unbracketed(host) \in Texts
    BY <1>2 DEF IsLiteral, IsVersion, IsIp, Texts
  <2>2. DnsData(host) = [cname |-> {}, v4 |-> <<>>, v6 |-> <<Unbracketed(host)>>]
    BY <1>2 DEF DnsData, NoDns
  <2> QED BY <2>1, <2>2 DEF HasLists
<1>3. CASE ~IsLiteral(host)
  <2>1. IsDnsAnswer(world.dns.A) /\ IsDnsAnswer(world.dns.AAAA)
    BY <1>3, WorldsAssumption
  <2>2. /\ DnsData(host).v4 = world.dns.A.addresses
        /\ DnsData(host).v6 = world.dns.AAAA.addresses
        /\ DOMAIN DnsData(host) = {"cname", "v4", "v6"}
    BY <1>3 DEF DnsData, IsLiteral
  <2> QED BY <2>1, <2>2 DEF HasLists, IsDnsAnswer, Texts
<1> QED BY <1>1, <1>2, <1>3

(* The runs that are planned for lists of addresses.                       *)
LEMMA PlannedRuns ==
  ASSUME NEW addresses, HasLists(addresses)
  PROVE  /\ Len(addresses.v4) \in Nat /\ Len(addresses.v6) \in Nat
         /\ DOMAIN RunsOf(addresses) = 1..(2 * Len(addresses.v4) + 2 * Len(addresses.v6))
         /\ \A k \in DOMAIN RunsOf(addresses) :
              /\ RunsOf(addresses)[k].outcome = "Skipped"
              /\ DOMAIN RunsOf(addresses)[k] = Fields
              /\ RunsOf(addresses)[k].family \in Families
              /\ RunsOf(addresses)[k].origin = (k % 2 = 0)
              /\ k <= 2 * Len(addresses.v4) =>
                   /\ RunsOf(addresses)[k].family = "v4"
                   /\ RunsOf(addresses)[k].address = addresses.v4[(k + 1) \div 2]
              /\ k > 2 * Len(addresses.v4) =>
                   /\ RunsOf(addresses)[k].family = "v6"
                   /\ RunsOf(addresses)[k].address = addresses.v6[(k - 2 * Len(addresses.v4) + 1) \div 2]
<1>1. Len(addresses.v4) \in Nat /\ Len(addresses.v6) \in Nat
  BY DEF HasLists
<1>2. DOMAIN RunsOf(addresses) = 1..(2 * Len(addresses.v4) + 2 * Len(addresses.v6))
  BY DEF RunsOf
<1>3. ASSUME NEW k \in DOMAIN RunsOf(addresses)
      PROVE  /\ RunsOf(addresses)[k].outcome = "Skipped"
             /\ DOMAIN RunsOf(addresses)[k] = Fields
             /\ RunsOf(addresses)[k].origin = (k % 2 = 0)
             /\ k <= 2 * Len(addresses.v4) =>
                  /\ RunsOf(addresses)[k].family = "v4"
                  /\ RunsOf(addresses)[k].address = addresses.v4[(k + 1) \div 2]
             /\ k > 2 * Len(addresses.v4) =>
                  /\ RunsOf(addresses)[k].family = "v6"
                  /\ RunsOf(addresses)[k].address = addresses.v6[(k - 2 * Len(addresses.v4) + 1) \div 2]
  <2>1. k \in Nat /\ (k - 2 * Len(addresses.v4)) % 2 = k % 2
    BY <1>1, <1>2
  <2>2. RunsOf(addresses)[k] = IF k <= 2 * Len(addresses.v4) THEN NewRun("v4", addresses.v4, k)
                               ELSE NewRun("v6", addresses.v6, k - 2 * Len(addresses.v4))
    BY <1>2 DEF RunsOf
  <2>3. \A family, texts, j :
          /\ NewRun(family, texts, j).outcome = "Skipped"
          /\ DOMAIN NewRun(family, texts, j) = Fields
          /\ NewRun(family, texts, j).family = family
          /\ NewRun(family, texts, j).address = texts[(j + 1) \div 2]
          /\ NewRun(family, texts, j).origin = (j % 2 = 0)
    BY DEF NewRun, Fields
  <2>4. CASE k <= 2 * Len(addresses.v4)
    <3>1. RunsOf(addresses)[k] = NewRun("v4", addresses.v4, k)
      BY <2>2, <2>4
    <3>2. ~(k > 2 * Len(addresses.v4))
      BY <1>1, <2>1, <2>4
    <3> QED BY <2>3, <2>4, <3>1, <3>2
  <2>5. CASE k > 2 * Len(addresses.v4)
    <3> DEFINE j == k - 2 * Len(addresses.v4)
    <3>1. RunsOf(addresses)[k] = NewRun("v6", addresses.v6, j)
      BY <1>1, <2>1, <2>2, <2>5
    <3>2. ~(k <= 2 * Len(addresses.v4))
      BY <1>1, <2>1, <2>5
    <3> HIDE DEF j
    <3>3. /\ RunsOf(addresses)[k].outcome = "Skipped"
          /\ DOMAIN RunsOf(addresses)[k] = Fields
          /\ RunsOf(addresses)[k].family = "v6"
          /\ RunsOf(addresses)[k].address = addresses.v6[(j + 1) \div 2]
          /\ RunsOf(addresses)[k].origin = (j % 2 = 0)
      BY <2>3, <3>1
    <3> QED BY <2>1, <2>5, <3>2, <3>3 DEF j
  <2>6. k <= 2 * Len(addresses.v4) \/ k > 2 * Len(addresses.v4)
    BY <1>1, <2>1
  <2> QED BY <2>4, <2>5, <2>6
<1>4. ASSUME NEW k \in DOMAIN RunsOf(addresses)
      PROVE  RunsOf(addresses)[k].family \in Families
  <2>1. k \in Nat
    BY <1>1, <1>2
  <2> QED BY <1>1, <1>3, <2>1 DEF Families
<1> QED BY <1>1, <1>2, <1>3, <1>4

(* What comes of a request is a failure or an answer with a JSON text.     *)
LEMMA RequestTells ==
  ASSUME world \in Worlds, NEW from \in {"referral"} \union Families, NEW answer \in world.answers[from]
  PROVE  Has(Request(answer), "error") => Request(answer).error \in Failures
<1>1. Has(answer, "error") => answer.error \in Failures
  BY WorldsAssumption
<1>2. CASE IsRefused
  BY <1>2 DEF Request, Failures, Has
<1>3. CASE ~IsRefused /\ Has(answer, "error")
  BY <1>1, <1>3 DEF Request
<1>4. CASE ~IsRefused /\ ~Has(answer, "error")
  BY <1>4 DEF Request, Failures, Has
<1> QED BY <1>2, <1>3, <1>4

(* Where the runs of the i-th address are, after those of m others.        *)
Place(m, i, origin) == 2 * (i - 1) + 2 * m + IF origin THEN 2 ELSE 1

---------------------------------------------------------------------------
(* The invariant                                                           *)

TestInv == TypeOK /\ Plan /\ Turns /\ Results /\ Findings

LEMMA InitTests == Init => TestInv
<1> SUFFICES ASSUME Init PROVE TestInv
  OBVIOUS
<1>1. HasLists(NoDns) /\ Len(NoDns.v4) = 0 /\ Len(NoDns.v6) = 0
  BY DEF HasLists, NoDns
<1>2. dns = NoDns /\ runs = <<>> /\ AllRuns = 0 /\ 1..AllRuns = {}
  BY <1>1 DEF Init, AllRuns
<1>3. TypeOK
  BY <1>1, <1>2, WorldsAssumption DEF Init, TypeOK, HasLists, Completed, Running
<1>4. Plan
  BY <1>1, <1>2 DEF Init, Plan
<1>5. Turns
  BY DEF Init, Turns
<1>6. Results
  BY <1>2 DEF Results
<1>7. Findings
  BY <1>2 DEF Init, Findings, Running
<1> QED BY <1>3, <1>4, <1>5, <1>6, <1>7 DEF TestInv

(* Up to the resolution of the host no step touches the runs, and a step   *)
(* that ends the test then ends it with a code of an error.                *)
Errors == {ExecutionError, Panic, 203, 204}

LEMMA EarlyStep ==
  ASSUME TestInv, pc \notin {"runs", "done"}, UNCHANGED <<world, dns, runVars>>,
         cache' \in {cache, "fresh"},
         \/ pc' \in {"registry", "referral", "resolve"} /\ exit' = exit
         \/ pc' = pc /\ exit' = exit
         \/ pc' = "done" /\ exit' \in Errors
  PROVE  TestInv'
<1>1. ~Completed /\ ~Completed' /\ exit' \notin {0, 2}
  BY DEF TestInv, TypeOK, Completed, Errors, Running, ExecutionError, Panic
<1>2. TypeOK'
  BY <1>1 DEF TestInv, TypeOK, runVars, Errors, Running, ExecutionError, Panic
<1>3. AllRuns' = AllRuns /\ RunsOf(dns)' = RunsOf(dns)
  BY DEF AllRuns
<1>4. Plan'
  BY <1>3 DEF TestInv, Plan, runVars, AllRuns
<1>5. Turns'
  BY DEF TestInv, Turns, runVars
<1>6. Results'
  BY <1>1, <1>3 DEF TestInv, Results, runVars, Wanted, FirstRuns, RunsOfV4
<1>7. Findings'
  BY <1>1, <1>3 DEF TestInv, Findings, ChecksKept, runVars, NotDeclared, Expected
<1> QED BY <1>2, <1>4, <1>5, <1>6, <1>7 DEF TestInv

LEMMA ReadArgumentsStep ==
  ASSUME TestInv, ReadArguments
  PROVE  TestInv'
<1>1. pc = "arguments" /\ UNCHANGED <<world, cache, dns, runVars>>
  BY DEF ReadArguments
<1>2. query'.type = "error" => QueryErrorCode[query'.value] \in {203, 204}
  <2>1. query' = ParseQuery(world.value)
    BY DEF ReadArguments
  <2> SUFFICES ASSUME query'.type = "error" PROVE QueryErrorCode[query'.value] \in {203, 204}
    OBVIOUS
  <2>2. query'.value \in DOMAIN QueryErrorCode
    BY <2>1, QueryErrors
  <2> QED BY <2>2 DEF QueryErrorCode
<1>3. \/ pc' \in {"registry", "referral", "resolve"} /\ exit' = exit
      \/ pc' = "done" /\ exit' \in Errors
  BY <1>2 DEF ReadArguments, Exit, AfterUrl, Errors
<1> QED BY <1>1, <1>3, EarlyStep

LEMMA RegistryStep ==
  ASSUME TestInv, FetchRegistry \/ RegistryFails \/ LookUp
  PROVE  TestInv'
<1>1. pc = "registry" /\ UNCHANGED <<world, dns, runVars>> /\ cache' \in {cache, "fresh"}
  BY DEF FetchRegistry, RegistryFails, LookUp
<1>2. \/ pc' \in {"registry", "referral", "resolve"} /\ exit' = exit
      \/ pc' = "done" /\ exit' \in Errors
  BY <1>1 DEF FetchRegistry, RegistryFails, LookUp, Exit, AfterUrl, Errors
<1> QED BY <1>1, <1>2, EarlyStep

LEMMA ChaseStep ==
  ASSUME TestInv, Chase
  PROVE  TestInv'
<1>1. pc = "referral" /\ UNCHANGED <<world, cache, dns, runVars>>
  BY DEF Chase
<1>2. \/ pc' \in {"registry", "referral", "resolve"} /\ exit' = exit
      \/ pc' = "done" /\ exit' \in Errors
  BY DEF Chase, Exit, Errors
<1> QED BY <1>1, <1>2, EarlyStep

LEMMA Twice ==
  ASSUME NEW m \in Nat, NEW n \in Nat
  PROVE  2 * m \in Nat /\ (2 * m) % 2 = 0 /\ 2 * m + 2 * n \in Nat
OBVIOUS

(* The runs of the addresses are planned, and the first is the next.       *)
LEMMA ResolveStep ==
  ASSUME TestInv, Resolve
  PROVE  TestInv'
<1>1. pc = "resolve" /\ UNCHANGED <<world, cache, at, more>>
  BY DEF Resolve
<1>2. CASE pc' = "done"
  <2>1. exit' \in Errors /\ UNCHANGED <<dns, runs>>
    BY <1>2 DEF Resolve, Exit, Errors
  <2> QED BY <1>1, <1>2, <2>1, EarlyStep DEF runVars
<1>3. CASE pc' # "done"
  <2> DEFINE host == HostOf(url)
  <2>1. /\ IsLiteral(host) \/ world.dns # IllTyped
        /\ dns' = DnsData(host) /\ runs' = RunsOf(dns') /\ pc' = "runs" /\ exit' = exit
    BY <1>3 DEF Resolve, Exit
  <2> HIDE DEF host
  <2>2. HasLists(dns')
    BY <2>1, DnsLists DEF TestInv, Plan
  <2>3. /\ AllRuns' \in Nat /\ DOMAIN runs' = 1..AllRuns'
        /\ \A k \in 1..AllRuns' : runs'[k].outcome = "Skipped" /\ DOMAIN runs'[k] = Fields
    <3> DEFINE addresses == dns'
    <3>1. /\ HasLists(addresses) /\ runs' = RunsOf(addresses)
          /\ AllRuns' = 2 * Len(addresses.v4) + 2 * Len(addresses.v6)
      BY <2>1, <2>2 DEF AllRuns
    <3> HIDE DEF addresses
    <3>2. /\ Len(addresses.v4) \in Nat /\ Len(addresses.v6) \in Nat
          /\ DOMAIN RunsOf(addresses) = 1..(2 * Len(addresses.v4) + 2 * Len(addresses.v6))
          /\ \A k \in DOMAIN RunsOf(addresses) : /\ RunsOf(addresses)[k].outcome = "Skipped"
                                              /\ DOMAIN RunsOf(addresses)[k] = Fields
      BY <3>1, PlannedRuns
    <3>3. AllRuns' \in Nat
      BY <3>1, <3>2, Twice
    <3> QED BY <3>1, <3>2, <3>3
  <2>4. exit' = Running /\ ~Completed' /\ exit' # 0 /\ at' = 1 /\ more' = TRUE
    BY <1>1, <2>1 DEF TestInv, TypeOK, Turns, Completed, Running
  <2>5. TypeOK'
    BY <1>1, <2>1, <2>2, <2>4 DEF TestInv, TypeOK, HasLists
  <2>6. Plan'
    BY <1>1, <2>1, <2>2, <2>3 DEF TestInv, Plan
  <2>7. Turns'
    <3>1. at' \in FirstRuns'
      BY <2>4 DEF FirstRuns
    <3>2. PICK n \in Nat : AllRuns' = n
      BY <2>3
    <3>3. at' \in Nat \ {0} /\ at' <= AllRuns' + 1
      BY <2>4, <3>2
    <3> QED BY <2>1, <2>4, <3>1, <3>3 DEF Turns
  <2>8. Results'
    BY <2>3, <2>4 DEF Results
  <2>9. Findings'
    <3>1. \A k \in 1..AllRuns' : runs'[k].outcome # "Tested"
      BY <2>3
    <3>2. exit' \notin {0, 2}
      BY <2>4 DEF Running
    <3> QED BY <3>1, <3>2 DEF Findings, ChecksKept
  <2> QED BY <2>5, <2>6, <2>7, <2>8, <2>9 DEF TestInv
<1> QED BY <1>2, <1>3

LEMMA PlanTells ==
  ASSUME Plan
  PROVE  /\ Len(dns.v4) \in Nat /\ Len(dns.v6) \in Nat
         /\ RunsOfV4 \in Nat /\ RunsOfV4 % 2 = 0 /\ AllRuns \in Nat
         /\ DOMAIN runs = 1..AllRuns
         /\ \A k \in 1..AllRuns : runs[k].family \in Families /\ runs[k].origin = (k % 2 = 0)
<1>1. HasLists(dns)
  BY DEF Plan
<1>2. Len(dns.v4) \in Nat /\ Len(dns.v6) \in Nat
  BY <1>1 DEF HasLists
<1>3. RunsOfV4 \in Nat /\ RunsOfV4 % 2 = 0 /\ AllRuns \in Nat
  <2>1. /\ 2 * Len(dns.v4) \in Nat /\ (2 * Len(dns.v4)) % 2 = 0
        /\ 2 * Len(dns.v4) + 2 * Len(dns.v6) \in Nat
    BY <1>2, Twice
  <2> QED BY <2>1 DEF RunsOfV4, AllRuns
<1>4. DOMAIN RunsOf(dns) = 1..AllRuns
      /\ \A k \in DOMAIN RunsOf(dns) :
           RunsOf(dns)[k].family \in Families /\ RunsOf(dns)[k].origin = (k % 2 = 0)
  BY <1>1, PlannedRuns DEF AllRuns
<1> QED BY <1>2, <1>3, <1>4 DEF Plan

(* Skipping is by the options and by whether an address of the family is   *)
(* still wanted.                                                           *)
LEMMA SkippedUnwanted ==
  ASSUME TestInv, pc = "runs", at \in DOMAIN runs
  PROVE  IsSkipped(runs[at]) <=> ~Wanted(at)
<1>1. more <=> (world.oneAddr => at \in FirstRuns)
  BY DEF TestInv, Plan, Turns
<1>2. more \in BOOLEAN
  BY DEF TestInv, TypeOK
<1> QED BY <1>1, <1>2 DEF IsSkipped, Wanted

(* After a run the flag says again whether the address of the next one is  *)
(* still wanted.                                                           *)
LEMMA MoreStep ==
  ASSUME TestInv, pc = "runs", at \in DOMAIN runs
  PROVE  MoreAfter <=> (world.oneAddr => at + 1 \in FirstRuns)
<1>1. RunsOfV4 \in Nat /\ at \in Nat \ {0} /\ at \in 1..AllRuns
  BY PlanTells DEF TestInv, Turns
<1>2. more <=> (world.oneAddr => at \in FirstRuns)
  BY DEF TestInv, Plan, Turns
<1>3. runs[at].origin = (at % 2 = 0)
  BY <1>1, PlanTells DEF TestInv
<1>4. RunsOfV4 % 2 = 0
  BY PlanTells DEF TestInv
<1>5. CASE ~world.oneAddr
  BY <1>2, <1>5 DEF MoreAfter
<1>6. CASE world.oneAddr
  <2>1. MoreAfter <=> (at \in FirstRuns /\ at % 2 # 0) \/ at = RunsOfV4
    BY <1>1, <1>2, <1>3, <1>6 DEF MoreAfter, RunsOfV4
  <2>2. (at \in FirstRuns /\ at % 2 # 0) <=> at \in {1, RunsOfV4 + 1}
    BY <1>1, <1>4 DEF FirstRuns
  <2>3. at + 1 \in FirstRuns <=> at \in {1, RunsOfV4 + 1} \/ at = RunsOfV4
    BY <1>1 DEF FirstRuns
  <2> QED BY <1>6, <2>1, <2>2, <2>3
<1> QED BY <1>5, <1>6

(* What a run that is made ends with.                                      *)
LEMMA EndedRun ==
  ASSUME TestInv, NEW run, run.family \in Families, NEW answer \in world.answers[run.family],
         DOMAIN run = Fields
  PROVE  LET ended == Ended(run, Request(answer))
         IN /\ ended.outcome # "Skipped"
            /\ ended.family = run.family /\ ended.address = run.address /\ ended.origin = run.origin
            /\ DOMAIN ended = DOMAIN run
            /\ ChecksKept(ended)
<1> DEFINE response == Request(answer)
           ended == Ended(run, response)
<1>1. Has(response, "error") => response.error \in Failures
  BY RequestTells DEF TestInv, Plan
<1> HIDE DEF response
<1>2. CASE Has(response, "error")
  <2>1. ended = [run EXCEPT !.outcome = response.error]
    BY <1>2 DEF Ended
  <2>2. response.error \notin {"Skipped", "Tested"}
    BY <1>1, <1>2 DEF Failures
  <2> HIDE DEF ended
  <2>3. /\ ended.outcome = response.error /\ DOMAIN ended = DOMAIN run
        /\ ended.family = run.family /\ ended.address = run.address /\ ended.origin = run.origin
    BY <2>1 DEF Fields
  <2> QED BY <2>2, <2>3 DEF response, ended, ChecksKept
<1>3. CASE ~Has(response, "error")
  <2>1. ended = [run EXCEPT !.outcome = "Tested", !.checks = DoChecks(response), !.json = response.json]
    BY <1>3 DEF Ended
  <2>2. NotDeclared(response.json) => "ExpectedExtensionNotFound" \in DoChecks(response)
    BY DEF NotDeclared, DoChecks, When
  <2>4. GetChecks(response.json, ForRdap(response.json, world.unregistered)) \subseteq DoChecks(response)
    BY DEF DoChecks
  <2> HIDE DEF ended
  <2>3. /\ ended.outcome = "Tested" /\ ended.checks = DoChecks(response) /\ ended.json = response.json
        /\ ended.family = run.family /\ ended.address = run.address /\ ended.origin = run.origin
        /\ DOMAIN ended = DOMAIN run
    BY <2>1 DEF Fields
  <2> QED BY <2>2, <2>3, <2>4 DEF response, ended, ChecksKept
<1> QED BY <1>2, <1>3

LEMMA RunStep ==
  ASSUME TestInv, Run
  PROVE  TestInv'
<1>1. /\ pc = "runs" /\ at \in DOMAIN runs /\ UNCHANGED <<world, query, cache, url, dns>>
      /\ at' = at + 1 /\ more' = MoreAfter
  BY DEF Run
<1>2. /\ RunsOfV4 \in Nat /\ AllRuns \in Nat /\ DOMAIN runs = 1..AllRuns
      /\ \A k \in 1..AllRuns : runs[k].family \in Families
  BY PlanTells DEF TestInv
<1>3. at \in 1..AllRuns /\ exit = Running
  BY <1>1, <1>2 DEF TestInv, TypeOK
<1>4. /\ AllRuns' = AllRuns /\ RunsOfV4' = RunsOfV4 /\ FirstRuns' = FirstRuns
      /\ RunsOf(dns)' = RunsOf(dns) /\ Expected' = Expected
  BY <1>1 DEF AllRuns, RunsOfV4, FirstRuns, Expected
<1>5. more' \in BOOLEAN
  BY <1>1 DEF MoreAfter, TestInv, TypeOK
<1>6. \/ IsSkipped(runs[at]) /\ UNCHANGED <<runs, pc, exit>>
      \/ runs' = runs /\ pc' = "done" /\ exit' = ExecutionError
      \/ /\ ~IsSkipped(runs[at]) /\ UNCHANGED <<pc, exit>>
         /\ \E answer \in world.answers[runs[at].family] :
              runs' = [runs EXCEPT ![at] = Ended(runs[at], Request(answer))]
  BY DEF Run, Exit
<1>7. /\ DOMAIN runs' = 1..AllRuns
      /\ \A k \in 1..AllRuns : k # at => runs'[k] = runs[k]
      /\ DOMAIN runs'[at] = Fields
      /\ runs'[at].family = runs[at].family
      /\ runs'[at].address = runs[at].address
      /\ runs'[at].origin = runs[at].origin
      /\ ChecksKept(runs'[at])
  <2>1. CASE UNCHANGED runs
    BY <1>2, <1>3, <2>1 DEF TestInv, Plan, Findings
  <2>2. CASE runs' # runs
    <3> DEFINE run == runs[at]
    <3>1. PICK answer \in world.answers[run.family] : runs' = [runs EXCEPT ![at] = Ended(run, Request(answer))]
      BY <1>6, <2>2
    <3>2. run.family \in Families /\ DOMAIN run = Fields
      BY <1>2, <1>3 DEF TestInv, Plan
    <3> DEFINE ended == Ended(run, Request(answer))
    <3>3. /\ ended.outcome # "Skipped" /\ DOMAIN ended = DOMAIN run
          /\ ended.family = run.family /\ ended.address = run.address /\ ended.origin = run.origin
          /\ ChecksKept(ended)
      <4> HIDE DEF run
      <4> QED BY <3>2, EndedRun
    <3>4. runs'[at] = ended /\ DOMAIN runs' = DOMAIN runs /\ \A k \in 1..AllRuns : k # at => runs'[k] = runs[k]
      BY <1>1, <1>2, <3>1
    <3> HIDE DEF ended
    <3> QED BY <1>2, <3>2, <3>3, <3>4
  <2> QED BY <2>1, <2>2
<1>8. \/ pc' = "runs" /\ exit' = Running
      \/ pc' = "done" /\ exit' = ExecutionError
  BY <1>1, <1>3, <1>6
<1>9. ~Completed' /\ exit' \notin {0, 2}
  BY <1>8 DEF Completed, Running, ExecutionError
<1>10. TypeOK'
  BY <1>1, <1>5, <1>8, <1>9 DEF TestInv, TypeOK, Running, ExecutionError
<1>11. Plan'
  <2>1. \A k \in 1..AllRuns : /\ DOMAIN runs'[k] = Fields
                             /\ runs'[k].family = runs[k].family
                             /\ runs'[k].address = runs[k].address
                             /\ runs'[k].origin = runs[k].origin
    BY <1>7 DEF TestInv, Plan
  <2> QED BY <1>1, <1>4, <1>7, <1>8, <2>1 DEF TestInv, Plan
<1>12. Turns'
  <2>1. more' <=> (world.oneAddr => at' \in FirstRuns)
    BY <1>1, MoreStep
  <2>2. at' \in Nat \ {0} /\ at' <= AllRuns + 1
    BY <1>1, <1>2, <1>3
  <2>3. at' <= AllRuns' + 1
    BY <1>4, <2>2
  <2> QED BY <1>1, <1>4, <1>8, <2>1, <2>2, <2>3 DEF Turns
<1>13. Results'
  <2> SUFFICES ASSUME pc' # "done", NEW k \in 1..AllRuns
               PROVE  (runs'[k].outcome # "Skipped") <=> (k < at + 1 /\ Wanted(k)')
    BY <1>1, <1>4, <1>9 DEF Results
  <2>1. Wanted(k)' <=> Wanted(k)
    BY <1>1, <1>4, <1>7 DEF Wanted
  <2>2. (runs[k].outcome # "Skipped") <=> (k < at /\ Wanted(k))
    BY <1>1 DEF TestInv, Results
  <2>3. CASE k # at
    <3>1. k < at + 1 <=> k < at
      BY <1>2, <1>3, <2>3
    <3> QED BY <1>7, <2>1, <2>2, <2>3, <3>1
  <2>4. CASE k = at
    <3>1. k < at + 1 /\ ~(k < at)
      BY <1>3, <2>4
    <3>2. runs'[at].outcome # "Skipped" <=> ~IsSkipped(runs[at])
      <4>1. CASE IsSkipped(runs[at])
        <5>1. runs' = runs
          BY <1>6, <4>1
        <5> QED BY <2>2, <2>4, <3>1, <4>1, <5>1
      <4>2. CASE ~IsSkipped(runs[at])
        <5>1. \E answer \in world.answers[runs[at].family] :
                runs' = [runs EXCEPT ![at] = Ended(runs[at], Request(answer))]
          BY <1>6, <4>2
        <5>2. PICK answer \in world.answers[runs[at].family] : runs'[at] = Ended(runs[at], Request(answer))
          BY <1>1, <5>1
        <5>3. runs[at].family \in Families /\ DOMAIN runs[at] = Fields
          BY <1>2, <1>3 DEF TestInv, Plan
        <5>4. Ended(runs[at], Request(answer)).outcome # "Skipped"
          <6> DEFINE run == runs[at]
          <6>1. run.family \in Families /\ DOMAIN run = Fields /\ answer \in world.answers[run.family]
            BY <5>3
          <6> HIDE DEF run
          <6>2. Ended(run, Request(answer)).outcome # "Skipped"
            BY <6>1, EndedRun
          <6> QED BY <6>2 DEF run
        <5> QED BY <4>2, <5>2, <5>4
      <4> QED BY <4>1, <4>2
    <3>3. IsSkipped(runs[at]) <=> ~Wanted(at)
      BY <1>1, SkippedUnwanted
    <3> QED BY <2>1, <2>4, <3>1, <3>2, <3>3
  <2> QED BY <2>3, <2>4
<1>14. Findings'
  <2>1. \A k \in 1..AllRuns : ChecksKept(runs'[k])
    BY <1>7 DEF TestInv, Findings
  <2>2. \A json : NotDeclared(json)' <=> NotDeclared(json)
    BY <1>4 DEF NotDeclared
  <2>3. \A k \in 1..AllRuns : ChecksKept(runs[k])'
    BY <1>1, <2>1, <2>2 DEF ChecksKept
  <2> QED BY <1>4, <1>9, <2>3 DEF Findings
<1> QED BY <1>10, <1>11, <1>12, <1>13, <1>14 DEF TestInv

(* A report ends the test after the last run: with 0 or 2 only if no check *)
(* of a class that is an error was found, with 0 also no warning.          *)
LEMMA ReportStep ==
  ASSUME TestInv, Report \/ OutputFails
  PROVE  TestInv'
<1>1. /\ pc = "runs" /\ at \notin DOMAIN runs /\ pc' = "done"
      /\ UNCHANGED <<world, query, cache, url, dns, runs, at, more>>
      /\ exit' \in {ExitCode, 10}
  BY DEF Report, OutputFails, Exit, runVars
<1>2. /\ AllRuns' = AllRuns /\ RunsOfV4' = RunsOfV4 /\ FirstRuns' = FirstRuns
      /\ RunsOf(dns)' = RunsOf(dns) /\ Expected' = Expected /\ CheckClasses' = CheckClasses
  BY <1>1 DEF AllRuns, RunsOfV4, FirstRuns, Expected, CheckClasses
<1>3. /\ ExitCode \in 0..3
      /\ ExitCode \in {0, 2} => ~AreThereChecks(CheckClasses \intersect ErrorClasses)
      /\ ExitCode = 0 => ~AreThereChecks(CheckClasses \intersect {"StdWarning"})
  <2>1. CASE \E i \in DOMAIN runs : runs[i].outcome \notin {"Tested", "Skipped"}
    BY <2>1 DEF ExitCode
  <2>2. CASE \A i \in DOMAIN runs : runs[i].outcome \in {"Tested", "Skipped"}
    <3>1. ExitCode = IF AreThereChecks(CheckClasses \intersect ErrorClasses) THEN 3
                     ELSE IF AreThereChecks(CheckClasses \intersect {"StdWarning"}) THEN 2
                     ELSE 0
      BY <2>2 DEF ExitCode
    <3> QED BY <3>1
  <2> QED BY <2>1, <2>2
<1>4. TypeOK'
  BY <1>1, <1>3 DEF TestInv, TypeOK, Completed, Running
<1>5. Plan'
  BY <1>1, <1>2 DEF TestInv, Plan
<1>6. Turns'
  BY <1>1 DEF TestInv, Turns
<1>7. Results'
  BY <1>1, <1>2 DEF TestInv, Results, Wanted
<1>8. Findings'
  <2>1. \A json : NotDeclared(json)' <=> NotDeclared(json)
    BY <1>2 DEF NotDeclared
  <2>2. \A classes : AreThereChecks(classes)' <=> AreThereChecks(classes)
    BY <1>1, <1>2 DEF AreThereChecks, ServiceChecks
  <2>3. \A k \in 1..AllRuns : ChecksKept(runs[k])'
    BY <1>1, <2>1 DEF TestInv, Findings, ChecksKept
  <2> QED BY <1>1, <1>2, <1>3, <2>2, <2>3 DEF TestInv, Findings
<1> QED BY <1>4, <1>5, <1>6, <1>7, <1>8 DEF TestInv

LEMMA StandingStep ==
  ASSUME TestInv, UNCHANGED vars
  PROVE  TestInv'
<1>1. /\ AllRuns' = AllRuns /\ RunsOfV4' = RunsOfV4 /\ FirstRuns' = FirstRuns
      /\ RunsOf(dns)' = RunsOf(dns) /\ Expected' = Expected /\ CheckClasses' = CheckClasses
  BY DEF vars, AllRuns, RunsOfV4, FirstRuns, Expected, CheckClasses
<1>2. TypeOK' /\ Plan' /\ Turns'
  BY <1>1 DEF vars, TestInv, TypeOK, Completed, Plan, Turns
<1>3. Results'
  BY <1>1 DEF vars, TestInv, Results, Completed, Wanted
<1>4. Findings'
  BY DEF vars, TestInv, Findings, ChecksKept, NotDeclared, Expected, AreThereChecks, ServiceChecks, CheckClasses, AllRuns
<1> QED BY <1>2, <1>3, <1>4 DEF TestInv

LEMMA NextTests == TestInv /\ [Next]_vars => TestInv'
<1> SUFFICES ASSUME TestInv, [Next]_vars PROVE TestInv'
  OBVIOUS
<1>1. CASE ReadArguments
  BY <1>1, ReadArgumentsStep
<1>2. CASE FetchRegistry \/ RegistryFails \/ LookUp
  BY <1>2, RegistryStep
<1>3. CASE Chase
  BY <1>3, ChaseStep
<1>4. CASE Resolve
  BY <1>4, ResolveStep
<1>5. CASE Run
  BY <1>5, RunStep
<1>6. CASE Report \/ OutputFails
  BY <1>6, ReportStep
<1>7. CASE Done \/ UNCHANGED vars
  BY <1>7, StandingStep DEF Done
<1> QED BY <1>1, <1>2, <1>3, <1>4, <1>5, <1>6, <1>7 DEF Next

LEMMA Tests == Spec => []TestInv
<1> QED BY InitTests, NextTests, PTL DEF Spec

---------------------------------------------------------------------------
(* The theorems                                                            *)

(* A test ends with one of the codes there are, and with one that speaks   *)
(* of answers only when no run is left.                                    *)
THEOREM TestTypes == Spec => []TypeOK
<1>1. TestInv => TypeOK
  BY DEF TestInv
<1> QED BY <1>1, Tests, PTL

(* However many addresses the server has: when a test comes to its report, *)
(* every address of either family was asked without and with an origin, but*)
(* for what the options skip, and one that they limit to one address asked *)
(* the first of each family.                                               *)
THEOREM AddressesTested == Spec => []EveryAddressTested
<1>1. TestInv => EveryAddressTested
  <2> SUFFICES ASSUME TestInv, Completed, NEW family \in Families, NEW origin \in BOOLEAN,
                      NEW i \in 1..Len(dns[family])
               PROVE  LET before == 2 * (i - 1) + IF family = "v6" THEN 2 * Len(dns.v4) ELSE 0
                          run == runs[before + IF origin THEN 2 ELSE 1]
                          wanted == family \notin world.skip /\ (origin => "origin" \notin world.skip)
                      IN /\ run.family = family /\ run.address = dns[family][i] /\ run.origin = origin
                         /\ (run.outcome # "Skipped") <=> (wanted /\ (world.oneAddr => i = 1))
    BY DEF EveryAddressTested
  <2> DEFINE half == IF family = "v6" THEN 2 * Len(dns.v4) ELSE 0
             k == 2 * (i - 1) + half + IF origin THEN 2 ELSE 1
  <2>1. /\ Len(dns.v4) \in Nat /\ Len(dns.v6) \in Nat /\ RunsOfV4 \in Nat /\ AllRuns \in Nat
        /\ DOMAIN runs = 1..AllRuns
    BY PlanTells DEF TestInv
  <2>2. /\ k \in 1..AllRuns
        /\ (k % 2 = 0) <=> origin
        /\ i = 1 <=> k \in FirstRuns
        /\ RunsOf(dns)[k].family = family /\ RunsOf(dns)[k].address = dns[family][i]
    <3>0. HasLists(dns)
      BY DEF TestInv, Plan
    <3> DEFINE m == Len(dns.v4)
               n == Len(dns.v6)
    <3>a. /\ m \in Nat /\ n \in Nat /\ RunsOfV4 = 2 * m /\ AllRuns = 2 * m + 2 * n
          /\ half = IF family = "v6" THEN 2 * m ELSE 0
          /\ \A j \in 1..(2 * m + 2 * n) :
               /\ j <= 2 * m => /\ RunsOf(dns)[j].family = "v4"
                                /\ RunsOf(dns)[j].address = dns.v4[(j + 1) \div 2]
               /\ j > 2 * m => /\ RunsOf(dns)[j].family = "v6"
                               /\ RunsOf(dns)[j].address = dns.v6[(j - 2 * m + 1) \div 2]
      BY <2>1, <3>0, PlannedRuns DEF RunsOfV4, AllRuns
    <3>1. CASE family = "v4"
      <4>1. i \in 1..m /\ i \in 1..Len(dns.v4)
        BY <3>1
      <4> HIDE DEF m, n, half
      <4>2. k = Place(0, i, origin)
        BY <3>1, <3>a, <4>1 DEF Place
      <4> HIDE DEF k
      <4>3. /\ k \in Nat /\ 2 * 0 < k /\ k <= 2 * 0 + 2 * m
            /\ (k % 2 = 0) <=> origin
            /\ (k - 2 * 0 + 1) \div 2 = i
            /\ i = 1 <=> k \in {2 * 0 + 1, 2 * 0 + 2}
        <5>1. CASE origin
          BY <3>a, <4>1, <4>2, <5>1 DEF Place
        <5>2. CASE ~origin
          BY <3>a, <4>1, <4>2, <5>2 DEF Place
        <5> QED BY <5>1, <5>2
      <4>4. /\ k \in 1..(2 * m + 2 * n) /\ k <= 2 * m
            /\ (k + 1) \div 2 = i
            /\ i = 1 <=> k \in {1, 2, 2 * m + 1, 2 * m + 2}
        BY <3>a, <4>3
      <4>5. RunsOf(dns)[k].family = "v4" /\ RunsOf(dns)[k].address = dns.v4[i]
        BY <3>a, <4>4
      <4> QED BY <3>1, <3>a, <4>3, <4>4, <4>5 DEF FirstRuns
    <3>2. CASE family = "v6"
      <4>1. i \in 1..n /\ i \in 1..Len(dns.v6)
        BY <3>2
      <4> HIDE DEF m, n, half
      <4>2. k = Place(m, i, origin)
        BY <3>2, <3>a, <4>1 DEF Place
      <4> HIDE DEF k
      <4>3. /\ k \in Nat /\ 2 * m < k /\ k <= 2 * m + 2 * n
            /\ (k % 2 = 0) <=> origin
            /\ (k - 2 * m + 1) \div 2 = i
            /\ i = 1 <=> k \in {2 * m + 1, 2 * m + 2}
        <5>1. CASE origin
          BY <3>a, <4>1, <4>2, <5>1 DEF Place
        <5>2. CASE ~origin
          BY <3>a, <4>1, <4>2, <5>2 DEF Place
        <5> QED BY <5>1, <5>2
      <4>4. k \in 1..(2 * m + 2 * n) /\ k > 2 * m
        BY <3>a, <4>3
      <4>5. i = 1 <=> k \in {1, 2, 2 * m + 1, 2 * m + 2}
        BY <3>a, <4>3
      <4>6. RunsOf(dns)[k].family = "v6" /\ RunsOf(dns)[k].address = dns.v6[i]
        BY <3>a, <4>3, <4>4
      <4> QED BY <3>2, <3>a, <4>3, <4>4, <4>5, <4>6 DEF FirstRuns
    <3> QED BY <3>1, <3>2 DEF Families
  <2> HIDE DEF k
  <2>3. /\ runs[k].family = family /\ runs[k].address = dns[family][i] /\ runs[k].origin = (k % 2 = 0)
    BY <2>2, PlanTells DEF TestInv, Plan
  <2>4. runs[k].origin = origin
    BY <2>2, <2>3
  <2>5. k < at
    <3>1. at \in Nat \ {0} /\ at \notin 1..AllRuns /\ k \in Nat
      BY <2>1, <2>2 DEF TestInv, TypeOK, Turns
    <3> QED BY <2>1, <2>2, <3>1
  <2>6. (runs[k].outcome # "Skipped") <=> Wanted(k)
    BY <2>2, <2>5 DEF TestInv, Results
  <2>7. Wanted(k) <=> /\ family \notin world.skip /\ (origin => "origin" \notin world.skip)
                      /\ world.oneAddr => i = 1
    BY <2>2, <2>3, <2>4 DEF Wanted
  <2> QED BY <2>3, <2>4, <2>6, <2>7 DEF k
<1> QED BY <1>1, Tests, PTL

(* Success means that every answer declares every extension that was asked *)
(* for, whatever else was in it.                                           *)
THEOREM ExtensionsDeclared == Spec => []ExpectedDeclared
<1>1. TestInv => ExpectedDeclared
  <2> SUFFICES ASSUME TestInv, exit = 0, "StdError" \in CheckClasses,
                      NEW i \in DOMAIN runs, runs[i].outcome = "Tested"
               PROVE  LET declared == Elements(runs[i].json, "rdapConformance")
                      IN /\ \A alternatives \in world.expect : alternatives \intersect declared # {}
                         /\ "Gtld" \in world.groups =>
                              /\ {Profile0, Profile1} \intersect declared # {}
                              /\ {Tig0, Tig1} \intersect declared # {}
                         /\ world.groups \intersect {"Nro", "NroAsn"} # {} =>
                              "nro_rdap_profile_0" \in declared
    BY DEF ExpectedDeclared
  <2> DEFINE declared == Elements(runs[i].json, "rdapConformance")
  <2>1. ~AnyOfClasses(runs[i].checks, CheckClasses \intersect ErrorClasses)
    BY DEF TestInv, Findings, AreThereChecks
  <2>2. ClassOf("ExpectedExtensionNotFound") = "StdError"
    BY DEF ClassOf, StdWarnings, SpecNotes, Infos, Cidr0Errors, IcannErrors
  <2>3. "ExpectedExtensionNotFound" \notin runs[i].checks
    BY <2>1, <2>2 DEF AnyOfClasses, ErrorClasses
  <2>4. ~NotDeclared(runs[i].json)
    BY <2>3 DEF TestInv, Findings, ChecksKept, Plan
  <2>5. \A alternatives \in Expected : alternatives \intersect declared # {}
    BY <2>4 DEF NotDeclared, HasExtension
  <2> HIDE DEF declared
  <2>6. \A alternatives \in world.expect : alternatives \intersect declared # {}
    BY <2>5 DEF Expected
  <2>7. ASSUME NEW group \in world.groups, NEW alternatives \in GroupExtensions[group]
        PROVE  alternatives \intersect declared # {}
    BY <2>5, <2>7 DEF Expected
  <2>8. "Gtld" \in world.groups =>
          {Profile0, Profile1} \intersect declared # {} /\ {Tig0, Tig1} \intersect declared # {}
    BY <2>7 DEF GroupExtensions
  <2>9. world.groups \intersect {"Nro", "NroAsn"} # {} => {"nro_rdap_profile_0"} \intersect declared # {}
    <3>1. {"nro_rdap_profile_0"} \in GroupExtensions["Nro"]
      BY DEF GroupExtensions
    <3>2. {"nro_rdap_profile_0"} \in GroupExtensions["NroAsn"]
      BY DEF GroupExtensions
    <3> QED BY <2>7, <3>1, <3>2
  <2> QED BY <2>6, <2>8, <2>9 DEF declared
<1> QED BY <1>1, Tests, PTL

---------------------------------------------------------------------------
(* The server of a query: places of a registry                             *)

(* An order on a finite set has a foremost element: one that nothing is    *)
(* beyond, as fewest are.                                                  *)
LEMMA Foremost ==
  ASSUME NEW S, IsFiniteSet(S), S # {}, NEW R,
         \A x \in S : <<x, x>> \in R,
         \A x, y, z \in S : <<x, y>> \in R /\ <<y, z>> \in R => <<x, z>> \in R
  PROVE  \E x \in S : \A y \in S : <<x, y>> \in R => <<y, x>> \in R
<1> DEFINE Beyond(x) == {y \in S : <<x, y>> \in R}
           Sizes == {Cardinality(Beyond(x)) : x \in S}
<1>1. ASSUME NEW x \in S
      PROVE  IsFiniteSet(Beyond(x)) /\ Cardinality(Beyond(x)) \in Nat
  <2>1. Beyond(x) \in SUBSET S
    OBVIOUS
  <2> QED BY <2>1, FS_Subset, FS_CardinalityType
<1>2. Sizes \in SUBSET Nat /\ Sizes # {}
  <2> HIDE DEF Beyond
  <2> QED BY <1>1
<1>3. PICK n \in Sizes : \A m \in Sizes : ~(<<m, n>> \in OpToRel(<, Nat))
  <2> HIDE DEF Sizes
  <2> QED BY <1>2, WFMin, NatLessThanWellFounded
<1>4. PICK x \in S : n = Cardinality(Beyond(x))
  BY <1>3
<1>5. ASSUME NEW y \in S, <<x, y>> \in R PROVE <<y, x>> \in R
  <2>1. Beyond(y) \in SUBSET Beyond(x)
    BY <1>5
  <2>2. Cardinality(Beyond(y)) <= Cardinality(Beyond(x))
    BY <1>1, <2>1, FS_Subset
  <2>3. ~(Cardinality(Beyond(y)) < Cardinality(Beyond(x)))
    <3>1. Cardinality(Beyond(y)) \in Sizes
      OBVIOUS
    <3>2. ~(<<Cardinality(Beyond(y)), n>> \in OpToRel(<, Nat))
      BY <1>3, <3>1
    <3> QED BY <1>1, <1>4, <3>2 DEF OpToRel
  <2>4. Cardinality(Beyond(y)) = Cardinality(Beyond(x))
    BY <1>1, <2>2, <2>3
  <2>5. Beyond(x) = Beyond(y)
    BY <1>1, <2>1, <2>4, FS_Subset
  <2>6. x \in Beyond(x)
    OBVIOUS
  <2> QED BY <2>5, <2>6
<1> QED BY <1>5

(* The first of some indices is one of them, and none is before it.        *)
LEMMA FirstIs ==
  ASSUME NEW S, IsFiniteSet(S), S \subseteq Nat, S # {}
  PROVE  First(S) \in S /\ \A i \in S : First(S) <= i
<1> DEFINE R == {p \in S \X S : p[2] <= p[1]}
<1>1. PICK i \in S : \A j \in S : <<i, j>> \in R => <<j, i>> \in R
  <2>1. \A x \in S : <<x, x>> \in R
    OBVIOUS
  <2>2. \A x, y, z \in S : <<x, y>> \in R /\ <<y, z>> \in R => <<x, z>> \in R
    OBVIOUS
  <2> HIDE DEF R
  <2> QED BY <2>1, <2>2, Foremost
<1>2. \A j \in S : i <= j
  <2> SUFFICES ASSUME NEW j \in S PROVE i <= j
    OBVIOUS
  <2>1. i \in Nat /\ j \in Nat
    OBVIOUS
  <2>2. j <= i => i <= j
    BY <1>1
  <2> QED BY <2>1, <2>2
<1> QED BY <1>2 DEF First

(* Some places, finitely many.                                             *)
IsPlaces(S) == IsFiniteSet(S) /\ S \subseteq Nat \X Nat /\ S # {}

(* What FirstPlace chooses is a place that none is before.                 *)
LEMMA FirstPlaceIs ==
  ASSUME NEW S, IsPlaces(S)
  PROVE  FirstPlace(S) \in S /\ \A p \in S : NotAbove(FirstPlace(S), p)
<1> DEFINE R == {r \in S \X S : NotAbove(r[2], r[1])}
<1>1. PICK p \in S : \A q \in S : <<p, q>> \in R => <<q, p>> \in R
  <2>1. \A x \in S : <<x, x>> \in R
    BY DEF NotAbove, IsPlaces
  <2>2. \A x, y, z \in S : <<x, y>> \in R /\ <<y, z>> \in R => <<x, z>> \in R
    BY DEF NotAbove, IsPlaces
  <2> HIDE DEF R
  <2> QED BY <2>1, <2>2, Foremost DEF IsPlaces
<1>2. \A q \in S : NotAbove(p, q)
  <2> SUFFICES ASSUME NEW q \in S PROVE NotAbove(p, q)
    OBVIOUS
  <2>1. p \in Nat \X Nat /\ q \in Nat \X Nat
    BY DEF IsPlaces
  <2>2. NotAbove(q, p) => NotAbove(p, q)
    BY <1>1
  <2> QED BY <2>1, <2>2 DEF NotAbove
<1> QED BY <1>2 DEF FirstPlace

(* What LastPlace chooses is a place.                                      *)
LEMMA LastPlaceIs ==
  ASSUME NEW S, IsPlaces(S)
  PROVE  LastPlace(S) \in S
<1> DEFINE R == {r \in S \X S : NotAbove(r[1], r[2])}
<1>1. PICK p \in S : \A q \in S : <<p, q>> \in R => <<q, p>> \in R
  <2>1. \A x \in S : <<x, x>> \in R
    BY DEF NotAbove, IsPlaces
  <2>2. \A x, y, z \in S : <<x, y>> \in R /\ <<y, z>> \in R => <<x, z>> \in R
    BY DEF NotAbove, IsPlaces
  <2> HIDE DEF R
  <2> QED BY <2>1, <2>2, Foremost DEF IsPlaces
<1>2. \A q \in S : NotAbove(q, p)
  <2> SUFFICES ASSUME NEW q \in S PROVE NotAbove(q, p)
    OBVIOUS
  <2>1. p \in Nat \X Nat /\ q \in Nat \X Nat
    BY DEF IsPlaces
  <2>2. NotAbove(p, q) => NotAbove(q, p)
    BY <1>1
  <2> QED BY <2>1, <2>2 DEF NotAbove
<1> QED BY <1>2 DEF LastPlace

(* A registry is lists of lists of texts.                                  *)
Lists == Seq(Seq(Seq(Seq(STRING))))

(* The places of a registry are finitely many, one for every entry.        *)
LEMMA PlacesAre ==
  ASSUME NEW services \in Lists
  PROVE  /\ IsFiniteSet(Places(services)) /\ Places(services) \subseteq Nat \X Nat
         /\ \A p \in Places(services) :
              /\ p[1] \in DOMAIN services /\ services[p[1]] # <<>>
              /\ p[2] \in DOMAIN services[p[1]][1]
              /\ EntryAt(services, p) \in Seq(STRING)
         /\ \A s \in DOMAIN services : services[s] # <<>> =>
              \A i \in DOMAIN services[s][1] :
                <<s, i>> \in Places(services) /\ EntryAt(services, <<s, i>>) = services[s][1][i]
<1> DEFINE Of(s) == {s} \X DOMAIN services[s][1]
           full == DOMAIN services \ NoList(services)
<1>1. ASSUME NEW s \in full
      PROVE  /\ s \in Nat /\ services[s] \in Seq(Seq(Seq(STRING))) /\ services[s] # <<>>
             /\ services[s][1] \in Seq(Seq(STRING))
  <2>1. s \in DOMAIN services /\ services[s] # <<>>
    BY DEF NoList
  <2>2. s \in 1..Len(services) /\ services[s] \in Seq(Seq(Seq(STRING)))
    BY <2>1 DEF Lists
  <2> QED BY <2>1, <2>2
<1>2. IsFiniteSet(full)
  <2>1. IsFiniteSet(1..Len(services))
    BY FS_Interval DEF Lists
  <2>2. full \in SUBSET (1..Len(services))
    BY DEF Lists
  <2> QED BY <2>1, <2>2, FS_Subset
<1>3. \A s \in full : IsFiniteSet(Of(s)) /\ Of(s) \subseteq Nat \X Nat
  <2> SUFFICES ASSUME NEW s \in full PROVE IsFiniteSet(Of(s)) /\ Of(s) \subseteq Nat \X Nat
    OBVIOUS
  <2>1. DOMAIN services[s][1] = 1..Len(services[s][1]) /\ Len(services[s][1]) \in Nat
    BY <1>1
  <2>4. Of(s) \subseteq Nat \X Nat
    BY <1>1, <2>1
  <2>2. IsFiniteSet(DOMAIN services[s][1])
    BY <2>1, FS_Interval
  <2>3. IsFiniteSet({s})
    BY FS_Singleton
  <2> QED BY <2>2, <2>3, <2>4, FS_Product
<1>4. Places(services) = UNION {Of(s) : s \in full}
  BY DEF Places
<1>5. IsFiniteSet(Places(services))
  <2> HIDE DEF Of, full
  <2>1. IsFiniteSet({Of(s) : s \in full})
    <3> DEFINE f == [s \in full |-> Of(s)]
    <3>1. f \in Surjection(full, {Of(s) : s \in full})
      BY DEF Surjection
    <3> QED BY <1>2, <3>1, FS_Surjection DEF ExistsSurjection
  <2> QED BY <1>3, <1>4, <2>1, FS_UNION
<1>6. Places(services) \subseteq Nat \X Nat
  BY <1>3, <1>4
<1>7. ASSUME NEW p \in Places(services)
      PROVE  /\ p[1] \in DOMAIN services /\ services[p[1]] # <<>>
             /\ p[2] \in DOMAIN services[p[1]][1]
             /\ EntryAt(services, p) \in Seq(STRING)
  <2>1. PICK s \in full : p \in Of(s)
    BY <1>4
  <2>2. p[1] = s /\ p[2] \in DOMAIN services[s][1]
    BY <2>1
  <2> QED BY <1>1, <2>2 DEF EntryAt
<1>8. ASSUME NEW s \in DOMAIN services, services[s] # <<>>, NEW i \in DOMAIN services[s][1]
      PROVE  <<s, i>> \in Places(services) /\ EntryAt(services, <<s, i>>) = services[s][1][i]
  <2>1. s \in full /\ <<s, i>> \in Of(s)
    BY <1>8 DEF NoList
  <2> QED BY <1>4, <2>1 DEF EntryAt
<1> QED BY <1>5, <1>6, <1>7, <1>8

---------------------------------------------------------------------------
(* Texts                                                                   *)

(* The tokens of URLs.                                                      *)
Tokens == STRING \union {"/", "ip", "autnum", "domain", "nameserver", "entity", "https://", "http://", "-", "."}

(* A text begins with what another was put after.                          *)
LEMMA PrefixOfConcat ==
  ASSUME NEW T, NEW a \in Seq(T), NEW b \in Seq(T)
  PROVE  StartsWith(a \o b, a)
<1> DEFINE m == Len(a)
           n == Len(b)
<1>1. m \in Nat /\ n \in Nat /\ Len(a \o b) = m + n /\ a \o b \in Seq(T)
  OBVIOUS
<1>2. \A i \in 1..m : (a \o b)[i] = a[i]
  OBVIOUS
<1>3. SubSeq(a, 1, m) = a
  OBVIOUS
<1>4. SubSeq(a \o b, 1, m) = a
  BY <1>1, <1>2
<1> QED BY <1>1, <1>3, <1>4 DEF StartsWith, SE!IsPrefix

(* What it is to end with a text, token by token.                          *)
LEMMA SuffixMeans ==
  ASSUME NEW T, NEW text \in Seq(T), NEW end \in Seq(T)
  PROVE  EndsWith(text, end) <=>
           /\ Len(end) <= Len(text)
           /\ \A i \in 1..Len(end) : end[i] = text[Len(text) - Len(end) + i]
<1> DEFINE m == Len(end)
           n == Len(text)
           a == SE!Reverse(end)
           b == SE!Reverse(text)
<1>1. m \in Nat /\ n \in Nat /\ end = [i \in 1..m |-> end[i]]
  OBVIOUS
<1>2. /\ a = [i \in 1..m |-> end[m - i + 1]] /\ b = [i \in 1..n |-> text[n - i + 1]]
      /\ a \in Seq(T) /\ b \in Seq(T) /\ Len(a) = m /\ Len(b) = n
  <2>1. \A i \in 1..m : m - i + 1 \in 1..m
    BY <1>1
  <2>2. \A i \in 1..n : n - i + 1 \in 1..n
    BY <1>1
  <2> QED BY <1>1, <2>1, <2>2 DEF SE!Reverse
<1>3. ASSUME m <= n
      PROVE  SubSeq(a, 1, m) = SubSeq(b, 1, m) <=> \A i \in 1..m : a[i] = b[i]
  <2> HIDE DEF a, b
  <2>1. /\ SubSeq(a, 1, m) = [i \in 1..m |-> a[i]]
        /\ SubSeq(b, 1, m) = [i \in 1..m |-> b[i]]
    BY <1>1, <1>2, <1>3
  <2> QED BY <2>1
<1>4. ASSUME m <= n
      PROVE  (\A i \in 1..m : a[i] = b[i]) <=> \A i \in 1..m : end[i] = text[n - m + i]
  <2>1. ASSUME \A i \in 1..m : a[i] = b[i], NEW i \in 1..m PROVE end[i] = text[n - m + i]
    <3>1. m - i + 1 \in 1..m /\ m - (m - i + 1) + 1 = i /\ n - (m - i + 1) + 1 = n - m + i
      BY <1>1
    <3>2. a[m - i + 1] = b[m - i + 1]
      BY <2>1, <3>1
    <3>3. m - i + 1 \in 1..n
      BY <1>1, <1>4
    <3> HIDE DEF m, n, a, b
    <3> QED BY <1>2, <3>1, <3>2, <3>3
  <2>2. ASSUME \A i \in 1..m : end[i] = text[n - m + i], NEW i \in 1..m PROVE a[i] = b[i]
    <3>1. m - i + 1 \in 1..m /\ n - m + (m - i + 1) = n - i + 1 /\ i \in 1..n
      BY <1>1, <1>4
    <3>2. end[m - i + 1] = text[n - m + (m - i + 1)]
      BY <2>2, <3>1
    <3> HIDE DEF m, n, a, b
    <3> QED BY <1>2, <3>1, <3>2
  <2> QED BY <2>1, <2>2
<1> HIDE DEF m, n, a, b
<1>5. EndsWith(text, end) <=> m <= n /\ SubSeq(a, 1, m) = SubSeq(b, 1, m)
  BY <1>2 DEF EndsWith, SE!IsSuffix, SE!IsPrefix, a, b
<1> QED BY <1>3, <1>4, <1>5 DEF m, n

(* A listed entry that a name is under is an end of it.                    *)
LEMMA UnderEnds ==
  ASSUME NEW name \in Seq(Tokens), NEW entry \in Seq(Tokens), IsUnder(name, entry)
  PROVE  EndsWith(name, entry)
<1>1. CASE entry = <<>>
  <2>1. Len(entry) = 0 /\ Len(name) \in Nat
    BY <1>1
  <2>2. EndsWith(name, entry) <=>
          /\ Len(entry) <= Len(name)
          /\ \A i \in 1..Len(entry) : entry[i] = name[Len(name) - Len(entry) + i]
    BY SuffixMeans
  <2> QED BY <2>1, <2>2
<1>2. CASE name = entry
  BY <1>2, SuffixMeans
<1>3. CASE EndsWith(name, <<".">> \o entry)
  <2> DEFINE m == Len(entry)
             n == Len(name)
             long == <<".">> \o entry
  <2>1. m \in Nat /\ n \in Nat /\ long \in Seq(Tokens) /\ Len(long) = m + 1
    BY DEF Tokens
  <2>2. \A i \in 1..m : i + 1 \in 1..(m + 1) /\ long[i + 1] = entry[i]
    BY DEF Tokens
  <2> HIDE DEF long
  <2>3. m + 1 <= n /\ \A i \in 1..(m + 1) : long[i] = name[n - (m + 1) + i]
    <3>1. EndsWith(name, long)
      BY <1>3 DEF long
    <3>2. /\ Len(long) <= Len(name)
          /\ \A i \in 1..Len(long) : long[i] = name[Len(name) - Len(long) + i]
      BY <2>1, <3>1, SuffixMeans
    <3> QED BY <2>1, <3>2
  <2>4. ASSUME NEW i \in 1..m PROVE entry[i] = name[n - m + i]
    <3>1. i + 1 \in 1..(m + 1) /\ long[i + 1] = entry[i]
      BY <2>2
    <3>2. n - (m + 1) + (i + 1) = n - m + i
      BY <2>1
    <3> QED BY <2>3, <3>1, <3>2
  <2>5. m <= n
    BY <2>1, <2>3
  <2> QED BY <2>4, <2>5, SuffixMeans
<1> QED BY <1>1, <1>2, <1>3 DEF IsUnder

(* What is after the last hyphen ends a text, with the hyphen.             *)
LEMMA LastIs ==
  ASSUME NEW S, IsFiniteSet(S), S \subseteq Nat, S # {}
  PROVE  \E i \in S : \A j \in S : j <= i
<1> DEFINE R == {p \in S \X S : p[1] <= p[2]}
<1>1. PICK i \in S : \A j \in S : <<i, j>> \in R => <<j, i>> \in R
  <2>1. \A x \in S : <<x, x>> \in R
    OBVIOUS
  <2>2. \A x, y, z \in S : <<x, y>> \in R /\ <<y, z>> \in R => <<x, z>> \in R
    OBVIOUS
  <2> HIDE DEF R
  <2> QED BY <2>1, <2>2, Foremost
<1>2. \A j \in S : j <= i
  <2> SUFFICES ASSUME NEW j \in S PROVE j <= i
    OBVIOUS
  <2>1. i \in Nat /\ j \in Nat
    OBVIOUS
  <2>2. i <= j => j <= i
    BY <1>1
  <2> QED BY <2>1, <2>2
<1> QED BY <1>2

(* What is after the last of some token begins after one of them.          *)
LEMMA AfterLastIs ==
  ASSUME NEW T, NEW text \in Seq(T), NEW token, Holds(text, token)
  PROVE  \E h \in 1..Len(text) : text[h] = token /\ AfterLast(text, token) = SubSeq(text, h + 1, Len(text))
<1> DEFINE S == {i \in DOMAIN text : text[i] = token}
           h == CHOOSE i \in DOMAIN text : text[i] = token /\ \A j \in DOMAIN text : text[j] = token => j <= i
<1>1. DOMAIN text = 1..Len(text) /\ Len(text) \in Nat
  OBVIOUS
<1>2. IsFiniteSet(S) /\ S \subseteq Nat /\ S # {}
  <2>1. IsFiniteSet(1..Len(text)) /\ S \in SUBSET (1..Len(text))
    BY <1>1, FS_Interval
  <2> QED BY <1>1, <2>1, FS_Subset DEF Holds
<1>3. PICK i \in S : \A j \in S : j <= i
  <2> HIDE DEF S
  <2> QED BY <1>2, LastIs
<1>4. h \in DOMAIN text /\ text[h] = token
  BY <1>3
<1>5. 1 + h = h + 1
  BY <1>1, <1>4
<1> QED BY <1>1, <1>4, <1>5 DEF AfterLast

(* Case folding keeps the length.                                          *)
LEMMA FoldedIs ==
  ASSUME NEW text \in Seq(STRING)
  PROVE  Folded(text) \in Seq(STRING) /\ Len(Folded(text)) = Len(text)
<1> DEFINE s == Folded(text)
           n == Len(text)
<1>1. n \in Nat /\ s = [i \in 1..n |-> s[i]]
  BY DEF Folded
<1>2. \A i \in 1..n : s[i] \in STRING
  BY EncodedAssumption DEF Folded
<1> HIDE DEF s, n
<1>3. s \in Seq(STRING) /\ Len(s) = n
  BY <1>1, <1>2
<1> QED BY <1>3 DEF s, n

(* A handle ends with a hyphen and the tag that its last part is.          *)
LEMMA AfterLastEnds ==
  ASSUME NEW text \in Seq(STRING), Holds(text, "-"), NEW tag \in Seq(STRING),
         SameIgnoringCase(tag, AfterLast(text, "-"))
  PROVE  EndsWith(Folded(text), <<"-">> \o Folded(tag))
<1> DEFINE n == Len(text)
           m == Len(tag)
           end == <<"-">> \o Folded(tag)
           rest == AfterLast(text, "-")
<1>1. PICK h \in 1..n : text[h] = "-" /\ rest = SubSeq(text, h + 1, n)
  BY AfterLastIs
<1>2. n \in Nat /\ m \in Nat /\ h \in Nat /\ h <= n
  OBVIOUS
<1>3. rest \in Seq(STRING) /\ Len(rest) = n - h /\ \A i \in 1..(n - h) : rest[i] = text[h + i]
  <2> HIDE DEF n, rest
  <2>1. \A i \in (h + 1)..n : text[i] \in STRING
    BY <1>2 DEF n
  <2>2. rest = [i \in 1..(n - h) |-> text[h + i]]
    <3>1. n - (h + 1) + 1 = n - h /\ \A i \in 1..(n - h) : i + (h + 1) - 1 = h + i
      BY <1>2
    <3> QED BY <1>1, <1>2, <3>1
  <2>3. \A i \in 1..(n - h) : h + i \in (h + 1)..n
    BY <1>2
  <2>4. n - h \in Nat
    BY <1>2
  <2> QED BY <2>1, <2>2, <2>3, <2>4
<1> HIDE DEF rest
<1>4. Folded(tag) = Folded(rest)
  BY DEF SameIgnoringCase, rest
<1>5. m = n - h
  <2>1. Len(Folded(tag)) = m
    BY FoldedIs
  <2>2. Len(Folded(rest)) = Len(rest)
    BY <1>3, FoldedIs
  <2> QED BY <1>3, <1>4, <2>1, <2>2
<1>6. \A i \in 1..m : Folded(tag)[i] = Folded(text)[h + i]
  <2> SUFFICES ASSUME NEW i \in 1..m PROVE Folded(tag)[i] = Folded(text)[h + i]
    OBVIOUS
  <2>1. i \in DOMAIN rest /\ h + i \in DOMAIN text /\ rest[i] = text[h + i]
    BY <1>2, <1>3, <1>5
  <2>2. Folded(rest)[i] = Folded(text)[h + i]
    BY <2>1 DEF Folded
  <2> QED BY <1>4, <2>2
<1>7. Folded(text)[h] = "-"
  BY <1>1, TokenAssumption DEF Folded
<1>8. Folded(text) \in Seq(Tokens) /\ Len(Folded(text)) = n /\ Folded(tag) \in Seq(Tokens)
  <2>1. Folded(text) \in Seq(STRING) /\ Len(Folded(text)) = n /\ Folded(tag) \in Seq(STRING)
    BY FoldedIs
  <2> QED BY <2>1 DEF Tokens
<1>9. end \in Seq(Tokens) /\ Len(end) = m + 1 /\ end[1] = "-" /\ \A i \in 1..m : end[i + 1] = Folded(tag)[i]
  <2> DEFINE f == Folded(tag)
  <2>1. f \in Seq(Tokens) /\ Len(f) = m
    BY <1>8, FoldedIs
  <2>2. <<"-">> \in Seq(Tokens) /\ Len(<<"-">>) = 1
    BY DEF Tokens
  <2> HIDE DEF f, m
  <2> QED BY <2>1, <2>2 DEF f
<1> HIDE DEF end, n, m
<1>10. \A i \in 1..(m + 1) : end[i] = Folded(text)[n - (m + 1) + i]
  <2> SUFFICES ASSUME NEW i \in 1..(m + 1) PROVE end[i] = Folded(text)[n - (m + 1) + i]
    OBVIOUS
  <2>1. CASE i = 1
    <3>1. n - (m + 1) + 1 = h
      BY <1>2, <1>5
    <3> QED BY <1>7, <1>9, <2>1, <3>1
  <2>2. CASE i # 1
    <3>1. i - 1 \in 1..m /\ (i - 1) + 1 = i /\ h + (i - 1) = n - (m + 1) + i
      BY <1>2, <1>5, <2>2
    <3>2. end[(i - 1) + 1] = Folded(tag)[i - 1]
      BY <1>9, <3>1
    <3>3. Folded(tag)[i - 1] = Folded(text)[h + (i - 1)]
      BY <1>6, <3>1
    <3> QED BY <3>1, <3>2, <3>3
  <2> QED BY <2>1, <2>2
<1>11. m + 1 <= n
  BY <1>2, <1>5
<1>12. EndsWith(Folded(text), end)
  BY <1>8, <1>9, <1>10, <1>11, SuffixMeans
<1> QED BY <1>12 DEF end

(* Decoding undoes encoding, and what was encoded is one segment.          *)
LEMMA DecodedEncoded ==
  ASSUME NEW text, IsPlain(text)
  PROVE  /\ PctEncode(text) \in Seq(STRING) /\ Len(PctEncode(text)) = Len(text)
         /\ Decoded(PctEncode(text)) = text
         /\ text # <<>> => IsSegment(PctEncode(text))
<1>1. text \in Seq(STRING) /\ DOMAIN text = 1..Len(text) /\ Len(text) \in Nat
  BY DEF IsPlain
<1>2. ASSUME NEW i \in DOMAIN text
      PROVE  /\ PctEncode(text)[i] \in STRING \ {"/", "?", "#"}
             /\ Decoded(PctEncode(text))[i] = text[i]
  <2> DEFINE e == PctEncode(text)[i]
  <2>1. Decoded(PctEncode(text))[i] = Meant(e)
    BY DEF Decoded, PctEncode
  <2>2. CASE text[i] \in DOMAIN Encoded
    <3>1. e = Encoded[text[i]]
      BY <2>2 DEF PctEncode
    <3>3. e \in Encodings
      BY <2>2, <3>1 DEF Encodings
    <3>2. Meant(e) = text[i]
      <4>1. \A t \in DOMAIN Encoded : Encoded[t] = e => t = text[i]
        BY <2>2, <3>1, EncodedAssumption
      <4> HIDE DEF e
      <4> QED BY <2>2, <3>1, <3>3, <4>1 DEF Meant
    <3>4. e \in STRING \ {"/", "?", "#"}
      BY <3>3, EncodedAssumption
    <3> HIDE DEF e
    <3> QED BY <2>1, <3>2, <3>4 DEF e
  <2>3. CASE text[i] \notin DOMAIN Encoded
    <3>1. e = text[i]
      BY <2>3 DEF PctEncode
    <3>2. text[i] \notin Encodings
      BY DEF IsPlain
    <3>3. Meant(e) = e
      BY <3>1, <3>2 DEF Meant
    <3>4. e \in STRING \ {"/", "?", "#"}
      BY <1>1, <2>3, <3>1, EncodedAssumption
    <3> HIDE DEF e
    <3> QED BY <2>1, <3>1, <3>3, <3>4 DEF e
  <2> QED BY <2>2, <2>3
<1>3. /\ DOMAIN PctEncode(text) = 1..Len(text)
      /\ PctEncode(text) = [i \in 1..Len(text) |-> PctEncode(text)[i]]
      /\ Decoded(PctEncode(text)) = [i \in 1..Len(text) |-> Decoded(PctEncode(text))[i]]
  BY <1>1 DEF PctEncode, Decoded
<1>4. PctEncode(text) \in Seq(STRING)
  <2> DEFINE s == PctEncode(text)
             n == Len(text)
  <2>1. \A i \in 1..n : s[i] \in STRING
    BY <1>1, <1>2
  <2> HIDE DEF s, n
  <2> QED BY <1>1, <1>3, <2>1 DEF s, n
<1>5. Len(PctEncode(text)) = Len(text)
  BY <1>1, <1>3, <1>4
<1>6. Decoded(PctEncode(text)) = text
  BY <1>1, <1>2, <1>3
<1>7. ASSUME text # <<>> PROVE IsSegment(PctEncode(text))
  <2> DEFINE s == PctEncode(text)
  <2>1. DOMAIN s = DOMAIN text /\ \A i \in DOMAIN s : s[i] \notin {"/", "?", "#"}
    BY <1>1, <1>2, <1>3
  <2>2. Len(text) # 0
    BY <1>1, <1>7
  <2>3. s # <<>>
    BY <1>5, <2>2
  <2> HIDE DEF s
  <2> QED BY <2>1, <2>3 DEF IsSegment, s
<1> QED BY <1>4, <1>5, <1>6, <1>7

(* IDNA makes plain text of plain text, token by token.                    *)
LEMMA AsciiIsPlain ==
  ASSUME NEW text, IsPlain(text)
  PROVE  IsPlain(DomainToAscii(text)) /\ Len(DomainToAscii(text)) = Len(text)
<1>1. text \in Seq(STRING) /\ DOMAIN text = 1..Len(text) /\ Len(text) \in Nat
  BY DEF IsPlain
<1>2. DomainToAscii(text) = [i \in 1..Len(text) |-> DomainToAscii(text)[i]]
  BY <1>1 DEF DomainToAscii
<1>3. ASSUME NEW i \in 1..Len(text)
      PROVE  DomainToAscii(text)[i] \in STRING \ Encodings
  <2>1. text[i] \in STRING \ Encodings
    BY <1>1 DEF IsPlain
  <2>2. DomainToAscii(text)[i] = IF text[i] \in DOMAIN ALabels THEN ALabels[text[i]]
                                 ELSE IF text[i] \in DOMAIN CaseFold THEN CaseFold[text[i]] ELSE text[i]
    BY <1>1 DEF DomainToAscii, Folded
  <2> QED BY <2>1, <2>2, EncodedAssumption
<1> DEFINE s == DomainToAscii(text)
           n == Len(text)
<1>4. s \in Seq(STRING) /\ Len(s) = n /\ \A i \in DOMAIN s : s[i] \notin Encodings
  <2>1. n \in Nat /\ s = [i \in 1..n |-> s[i]] /\ \A i \in 1..n : s[i] \in STRING \ Encodings
    BY <1>1, <1>2, <1>3
  <2> HIDE DEF s, n
  <2> QED BY <2>1
<1> QED BY <1>4 DEF IsPlain

---------------------------------------------------------------------------
(* Looking in the registries                                               *)

(* Some of the places are places.                                          *)
LEMMA SomePlaces ==
  ASSUME NEW services \in Lists, NEW S \in SUBSET Places(services), S # {}
  PROVE  IsPlaces(S)
  BY PlacesAre, FS_Subset DEF IsPlaces

(* To be longer is an order, and no text is longer than itself.            *)
LEMMA LongerOrders ==
  /\ \A a \in Seq(STRING) : ~IsLonger(a, a)
  /\ \A a, b, c \in Seq(STRING) : IsLonger(a, b) /\ IsLonger(b, c) => IsLonger(a, c)
<1>1. ASSUME NEW a \in Seq(STRING) PROVE ~IsLonger(a, a)
  BY EndsAssumption DEF IsLonger
<1>2. ASSUME NEW a \in Seq(STRING), NEW b \in Seq(STRING), NEW c \in Seq(STRING),
             IsLonger(a, b), IsLonger(b, c)
      PROVE  IsLonger(a, c)
  <2>1. Len(a) \in Nat /\ Len(b) \in Nat /\ Len(c) \in Nat
    OBVIOUS
  <2>2. /\ Len(a) > Len(b) \/ (Len(a) = Len(b) /\ a # <<>> /\ <<b[1], a[1]>> \in TokenEnds)
        /\ Len(b) > Len(c) \/ (Len(b) = Len(c) /\ b # <<>> /\ <<c[1], b[1]>> \in TokenEnds)
    BY <1>2 DEF IsLonger
  <2>3. CASE Len(a) > Len(c)
    BY <2>3 DEF IsLonger
  <2>4. CASE ~(Len(a) > Len(c))
    <3>1. /\ Len(a) = Len(b) /\ a # <<>> /\ <<b[1], a[1]>> \in TokenEnds
          /\ Len(b) = Len(c) /\ <<c[1], b[1]>> \in TokenEnds
      BY <2>1, <2>2, <2>4
    <3>2. <<c[1], a[1]>> \in TokenEnds
      BY <3>1, EndsAssumption
    <3> QED BY <3>1, <3>2 DEF IsLonger
  <2> QED BY <2>3, <2>4
<1> QED BY <1>1, <1>2

(* The look-up of a name: the entry is an end of it, and none is longer.   *)
LEMMA DnsFinds ==
  ASSUME NEW services \in Lists, NEW name, ~IsError(DnsUrls(services, name))
  PROVE  /\ NoList(services) = {}
         /\ \E p \in Places(services) :
              /\ DnsUrls(services, name) = UrlsOf(services, p[1])
              /\ EndsIn(name, EntryAt(services, p))
              /\ \A q \in Places(services) : EndsIn(name, EntryAt(services, q)) =>
                   ~IsLonger(EntryAt(services, q), EntryAt(services, p))
<1> DEFINE entry(p) == EntryAt(services, p)
           matching == {p \in Places(services) : EndsIn(name, EntryAt(services, p))}
           longest == {p \in matching :
                         \A q \in matching : ~IsLonger(EntryAt(services, q), EntryAt(services, p))}
           R == {r \in matching \X matching : entry(r[1]) = entry(r[2]) \/ IsLonger(entry(r[2]), entry(r[1]))}
<1>1. NoList(services) = {} /\ matching # {} /\ DnsUrls(services, name) = UrlsOf(services, FirstPlace(longest)[1])
  BY DEF DnsUrls, IsError, RegistryError
<1>2. \A p \in matching : entry(p) \in Seq(STRING)
  BY PlacesAre
<1>3. matching \in SUBSET Places(services)
  OBVIOUS
<1>4. PICK p \in matching : \A q \in matching : <<p, q>> \in R => <<q, p>> \in R
  <2> HIDE DEF matching, entry
  <2>1. IsFiniteSet(matching)
    BY <1>1, <1>3, SomePlaces DEF IsPlaces
  <2>2. \A x \in matching : <<x, x>> \in R
    OBVIOUS
  <2>3. ASSUME NEW x \in matching, NEW y \in matching, NEW z \in matching, <<x, y>> \in R, <<y, z>> \in R
        PROVE  <<x, z>> \in R
    <3>1. /\ entry(x) = entry(y) \/ IsLonger(entry(y), entry(x))
          /\ entry(y) = entry(z) \/ IsLonger(entry(z), entry(y))
      BY <2>3
    <3>2. IsLonger(entry(z), entry(y)) /\ IsLonger(entry(y), entry(x)) => IsLonger(entry(z), entry(x))
      BY <1>2, LongerOrders
    <3> QED BY <3>1, <3>2
  <2> HIDE DEF R
  <2> QED BY <1>1, <2>1, <2>2, <2>3, Foremost
<1>5. p \in longest
  <2> HIDE DEF matching
  <2> SUFFICES ASSUME NEW q \in matching, IsLonger(entry(q), entry(p)) PROVE FALSE
    OBVIOUS
  <2>1. <<p, q>> \in R
    OBVIOUS
  <2>2. entry(q) = entry(p) \/ IsLonger(entry(p), entry(q))
    BY <1>4, <2>1
  <2> HIDE DEF entry
  <2> QED BY <1>2, <2>2, LongerOrders
<1>6. FirstPlace(longest) \in longest
  <2>1. longest \in SUBSET Places(services) /\ longest # {}
    BY <1>5
  <2> HIDE DEF longest
  <2> QED BY <2>1, SomePlaces, FirstPlaceIs
<1> QED BY <1>1, <1>6

(* Of networks, covering is an order.                                      *)
LEMMA CoversOrders ==
  /\ \A a \in DOMAIN Networks : Covers(Networks[a], Networks[a])
  /\ \A a, b, c \in DOMAIN Networks :
       Covers(Networks[a], Networks[b]) /\ Covers(Networks[b], Networks[c]) =>
         Covers(Networks[a], Networks[c])
<1>1. \A a \in DOMAIN Networks : /\ Len(Networks[a].block) \in Nat
                                 /\ DOMAIN Networks[a].block = 1..Len(Networks[a].block)
  BY NetworksAssumption
<1>2. ASSUME NEW a \in DOMAIN Networks PROVE Covers(Networks[a], Networks[a])
  BY <1>1 DEF Covers
<1>3. ASSUME NEW a \in DOMAIN Networks, NEW b \in DOMAIN Networks, NEW c \in DOMAIN Networks,
             Covers(Networks[a], Networks[b]), Covers(Networks[b], Networks[c])
      PROVE  Covers(Networks[a], Networks[c])
  <2>1. \A i \in DOMAIN Networks[a].block : i \in DOMAIN Networks[b].block
    BY <1>1, <1>3 DEF Covers
  <2>2. \A i \in DOMAIN Networks[a].block : Networks[c].block[i] \subseteq Networks[a].block[i]
    BY <1>3, <2>1 DEF Covers
  <2>3. Len(Networks[a].block) <= Len(Networks[c].block)
    BY <1>1, <1>3 DEF Covers
  <2> QED BY <1>3, <2>2, <2>3 DEF Covers
<1> QED BY <1>2, <1>3

(* The look-up of a network: the entry covers it, and none inside does.    *)
LEMMA IpFinds ==
  ASSUME NEW services \in Lists, NEW version, NEW network, ~IsError(IpUrls(services, version, network))
  PROVE  /\ NoList(services) = {}
         /\ \E p \in Places(services) :
              /\ IpUrls(services, version, network) = UrlsOf(services, p[1])
              /\ Covers(Networks[EntryAt(services, p)], network)
              /\ \A q \in Places(services) :
                   Covers(Networks[EntryAt(services, q)], network)
                     /\ Covers(Networks[EntryAt(services, p)], Networks[EntryAt(services, q)]) =>
                     Covers(Networks[EntryAt(services, q)], Networks[EntryAt(services, p)])
<1> DEFINE net(p) == Networks[EntryAt(services, p)]
           matching == {p \in Places(services) : Covers(net(p), network)}
           longest == {p \in matching : \A q \in matching : Covers(net(p), net(q)) => Covers(net(q), net(p))}
           R == {r \in matching \X matching : Covers(net(r[1]), net(r[2]))}
<1>1. /\ NoList(services) = {} /\ matching # {}
      /\ \A p \in Places(services) : EntryAt(services, p) \in DOMAIN Networks
      /\ IpUrls(services, version, network) = UrlsOf(services, LastPlace(longest)[1])
  BY DEF IpUrls, IsError, RegistryError
<1>3. matching \in SUBSET Places(services)
  OBVIOUS
<1>4. PICK p \in matching : \A q \in matching : <<p, q>> \in R => <<q, p>> \in R
  <2>0. \A p \in matching : EntryAt(services, p) \in DOMAIN Networks
    BY <1>1
  <2> HIDE DEF matching
  <2>1. IsFiniteSet(matching)
    BY <1>1, <1>3, SomePlaces DEF IsPlaces
  <2>2. \A x \in matching : <<x, x>> \in R
    BY <2>0, CoversOrders
  <2>3. \A x, y, z \in matching : <<x, y>> \in R /\ <<y, z>> \in R => <<x, z>> \in R
    BY <2>0, CoversOrders
  <2> HIDE DEF R
  <2> QED BY <1>1, <2>1, <2>2, <2>3, Foremost
<1>5. p \in longest
  <2> HIDE DEF matching
  <2> QED BY <1>4
<1>6. LastPlace(longest) \in longest
  <2>1. longest \in SUBSET Places(services) /\ longest # {}
    BY <1>5
  <2> HIDE DEF longest
  <2> QED BY <2>1, SomePlaces, LastPlaceIs
<1>7. PICK last \in Places(services) : last = LastPlace(longest) /\ last \in longest
  BY <1>6
<1>8. /\ Covers(Networks[EntryAt(services, last)], network)
      /\ \A q \in Places(services) :
           Covers(Networks[EntryAt(services, q)], network)
             /\ Covers(Networks[EntryAt(services, last)], Networks[EntryAt(services, q)]) =>
             Covers(Networks[EntryAt(services, q)], Networks[EntryAt(services, last)])
  <2>1. Covers(net(last), network)
    BY <1>7
  <2>2. ASSUME NEW q \in Places(services), Covers(net(q), network), Covers(net(last), net(q))
        PROVE  Covers(net(q), net(last))
    <3>1. q \in matching
      BY <2>2
    <3> HIDE DEF matching, net
    <3> QED BY <1>7, <2>2, <3>1
  <2> QED BY <2>1, <2>2
<1> HIDE DEF longest
<1> QED BY <1>1, <1>7, <1>8

(* Ends of a range that are numbers are its first and its last token.      *)
LEMMA RangeEnds ==
  ASSUME NEW range \in Seq(STRING), NumbersOf(range)[1] \in DOMAIN Numerals, NumbersOf(range)[2] \in DOMAIN Numerals
  PROVE  NumbersOf(range) = <<<<range[1]>>, <<range[Len(range)]>>>>
<1> DEFINE n == Len(range)
           hyphens == {i \in DOMAIN range : range[i] = "-"}
<1>1. n \in Nat /\ DOMAIN range = 1..n
  OBVIOUS
<1>2. CASE ~Holds(range, "-")
  <2>1. NumbersOf(range) = <<range, range>>
    BY <1>2 DEF NumbersOf
  <2>2. range = <<range[1]>>
    BY <2>1, NumeralsAssumption
  <2>3. Len(range) = 1
    BY <2>2
  <2> QED BY <2>1, <2>2, <2>3
<1>3. CASE Holds(range, "-")
  <2>1. NumbersOf(range) = <<SubSeq(range, 1, First(hyphens) - 1), AfterLast(range, "-")>>
    BY <1>3 DEF NumbersOf
  <2>2. First(hyphens) \in hyphens
    <3>1. IsFiniteSet(1..n) /\ hyphens \in SUBSET (1..n)
      BY <1>1, FS_Interval
    <3>2. IsFiniteSet(hyphens) /\ hyphens \subseteq Nat /\ hyphens # {}
      BY <1>1, <1>3, <3>1, FS_Subset DEF Holds
    <3> HIDE DEF hyphens
    <3> QED BY <3>2, FirstIs
  <2>3. PICK f \in 1..n : f = First(hyphens)
    BY <1>1, <2>2
  <2>4. PICK h \in 1..n : range[h] = "-" /\ AfterLast(range, "-") = SubSeq(range, h + 1, n)
    BY <1>3, AfterLastIs
  <2> DEFINE first == SubSeq(range, 1, f - 1)
             last == SubSeq(range, h + 1, n)
  <2>5. first \in DOMAIN Numerals /\ last \in DOMAIN Numerals
    <3> HIDE DEF hyphens
    <3>1. NumbersOf(range) = <<first, last>>
      BY <2>1, <2>3, <2>4
    <3> QED BY <3>1
  <2>6. first = <<first[1]>> /\ last = <<last[1]>>
    BY <2>5, NumeralsAssumption
  <2>7. Len(first) = 1 /\ Len(last) = 1
    BY <2>6
  <2>8. first[1] = range[1]
    <3>1. Len(first) = f - 1
      BY <1>1
    <3>2. f - 1 = 1
      BY <2>7, <3>1
    <3> QED BY <1>1, <3>2
  <2>9. last[1] = range[n]
    <3>1. Len(last) = n - h
      <4>1. \A i \in (h + 1)..n : range[i] \in STRING
        BY <1>1
      <4>2. Len(last) = IF h + 1 <= n THEN n - (h + 1) + 1 ELSE 0
        BY <1>1, <4>1, SubSeqProperties
      <4>3. h \in Nat /\ n \in Nat /\ h <= n
        BY <1>1
      <4> HIDE DEF last, n
      <4> QED BY <4>2, <4>3
    <3>2. n - h = 1
      BY <2>7, <3>1
    <3>3. h \in Nat /\ n \in Nat
      BY <1>1
    <3>4. h + 1 = n
      <4> HIDE DEF last, n
      <4> QED BY <3>2, <3>3
    <3>5. last[1] = range[h + 1]
      BY <1>1, <3>4
    <3> HIDE DEF last, n
    <3> QED BY <3>4, <3>5
  <2> QED BY <2>1, <2>3, <2>4, <2>6, <2>8, <2>9
<1> QED BY <1>2, <1>3

(* The look-up of a number: it is between the ends of the range.           *)
LEMMA AsnFinds ==
  ASSUME NEW services \in Lists, NEW number, ~IsError(AsnUrls(services, number))
  PROVE  \E p \in Places(services) :
           LET range == EntryAt(services, p)
           IN /\ AsnUrls(services, number) = UrlsOf(services, p[1])
              /\ <<range[1]>> \in DOMAIN Numerals /\ <<range[Len(range)]>> \in DOMAIN Numerals
              /\ NotAbove(Numerals[<<range[1]>>].number, number)
              /\ NotAbove(number, Numerals[<<range[Len(range)]>>].number)
<1> DEFINE read == {p \in Places(services) : \A s \in NoList(services) : p[1] < s}
           ends(p) == NumbersOf(EntryAt(services, p))
           isRange(p) == ends(p)[1] \in DOMAIN Numerals /\ ends(p)[2] \in DOMAIN Numerals
           stops == {p \in read : ~isRange(p) \/ (/\ NotAbove(Numerals[ends(p)[1]].number, number)
                                                  /\ NotAbove(number, Numerals[ends(p)[2]].number))}
           first == FirstPlace(stops)
<1>1. stops # {} /\ isRange(first) /\ AsnUrls(services, number) = UrlsOf(services, first[1])
  BY DEF AsnUrls, IsError, RegistryError
<1>2. first \in stops
  <2>1. stops \in SUBSET Places(services)
    OBVIOUS
  <2> HIDE DEF stops
  <2> QED BY <1>1, <2>1, SomePlaces, FirstPlaceIs
<1>3. first \in Places(services)
  BY <1>2
<1> HIDE DEF first
<1>4. ends(first) = <<<<EntryAt(services, first)[1]>>, <<EntryAt(services, first)[Len(EntryAt(services, first))]>>>>
  BY <1>1, <1>3, PlacesAre, RangeEnds
<1>5. /\ NotAbove(Numerals[ends(first)[1]].number, number)
      /\ NotAbove(number, Numerals[ends(first)[2]].number)
  BY <1>1, <1>2
<1> QED BY <1>1, <1>3, <1>4, <1>5

(* The look-up of a tag: it is the first text of the second list.          *)
LEMMA TagFinds ==
  ASSUME NEW services \in Lists, NEW tag, ~IsError(TagUrls(services, tag))
  PROVE  \E s \in DOMAIN services :
           /\ TagUrls(services, tag) = UrlsOf(services, s)
           /\ Len(services[s]) >= 2 /\ services[s][2] # <<>>
           /\ SameIgnoringCase(services[s][2][1], tag)
<1> DEFINE unreadable(s) == Len(services[s]) < 2 \/ services[s][2] = <<>>
           stops == {s \in DOMAIN services : unreadable(s) \/ SameIgnoringCase(services[s][2][1], tag)}
<1>1. stops # {} /\ ~unreadable(First(stops)) /\ TagUrls(services, tag) = UrlsOf(services, First(stops))
  BY DEF TagUrls, IsError, RegistryError
<1>2. First(stops) \in stops
  <2>1. DOMAIN services = 1..Len(services) /\ Len(services) \in Nat
    BY DEF Lists
  <2>2. stops \in SUBSET (1..Len(services)) /\ IsFiniteSet(1..Len(services))
    BY <2>1, FS_Interval
  <2>3. IsFiniteSet(stops) /\ stops \subseteq Nat
    BY <2>1, <2>2, FS_Subset
  <2> HIDE DEF stops
  <2> QED BY <1>1, <2>3, FirstIs
<1>3. PICK s \in DOMAIN services : s = First(stops)
  BY <1>2
<1>4. Len(services[s]) \in Nat
  BY DEF Lists
<1>5. Len(services[s]) >= 2 /\ services[s][2] # <<>> /\ SameIgnoringCase(services[s][2][1], tag)
  <2>1. ~unreadable(s) /\ s \in stops
    BY <1>1, <1>2, <1>3
  <2> QED BY <1>4, <2>1
<1> HIDE DEF stops
<1> QED BY <1>1, <1>3, <1>5

(* A text up to its first token.                                           *)
LEMMA OneToken ==
  ASSUME NEW T, NEW text, text[1] \in T
  PROVE  SubSeq(text, 1, 1) = <<text[1]>>
<1> DEFINE w == SubSeq(text, 1, 1)
<1>1. w \in Seq(T) /\ Len(w) = 1 /\ w[1] = text[1]
  <2>1. \A i \in 1..1 : text[i] \in T
    OBVIOUS
  <2>2. /\ w \in Seq(T) /\ Len(w) = IF 1 <= 1 THEN 1 - 1 + 1 ELSE 0
        /\ \A i \in 1 .. 1 - 1 + 1 : w[i] = text[1 + i - 1]
    BY <2>1, SubSeqProperties
  <2> QED BY <2>2
<1> HIDE DEF w
<1>2. w = <<w[1]>>
  BY <1>1
<1> QED BY <1>1, <1>2 DEF w

(* The URL that is taken is one of the list, with https if one has it.     *)
LEMMA Preferred ==
  ASSUME NEW urls \in Seq(Seq(STRING)), urls # <<>>, \A i \in DOMAIN urls : urls[i] # <<>>
  PROVE  \E i \in DOMAIN urls :
           /\ PreferredUrl(urls) = urls[i]
           /\ urls[i][1] = "https://" \/ \A j \in DOMAIN urls : urls[j][1] # "https://"
<1> DEFINE secure == {i \in DOMAIN urls : StartsWith(urls[i], <<"https://">>)}
<1>1. ASSUME NEW i \in DOMAIN urls
      PROVE  StartsWith(urls[i], <<"https://">>) <=> urls[i][1] = "https://"
  <2> DEFINE u == urls[i]
             p == <<"https://">>
  <2>1. u \in Seq(STRING) /\ u # <<>>
    OBVIOUS
  <2>2. Len(u) \in Nat /\ 1 <= Len(u) /\ SubSeq(u, 1, 1) = <<u[1]>>
    <3> HIDE DEF u
    <3>1. Len(u) \in Nat /\ 1 <= Len(u)
      BY <2>1
    <3>2. u[1] \in STRING
      BY <2>1, <3>1
    <3> QED BY <3>1, <3>2, OneToken
  <2>3. Len(p) = 1 /\ SubSeq(p, 1, 1) = <<"https://">>
    <3>1. p \in Seq({"https://"}) /\ Len(p) = 1 /\ p[1] = "https://"
      OBVIOUS
    <3> HIDE DEF p
    <3>2. SubSeq(p, 1, 1) = <<p[1]>>
      <4> DEFINE schemes == {"https://"}
      <4>1. p[1] \in schemes
        BY <3>1
      <4> HIDE DEF schemes
      <4> QED BY <4>1, OneToken
    <3> QED BY <3>1, <3>2
  <2> HIDE DEF u, p
  <2>4. StartsWith(u, p) <=> <<"https://">> = <<u[1]>>
    BY <2>2, <2>3 DEF StartsWith, SE!IsPrefix
  <2>5. StartsWith(u, p) <=> u[1] = "https://"
    BY <2>4
  <2> QED BY <2>5 DEF u, p
<1>2. DOMAIN urls = 1..Len(urls) /\ Len(urls) \in Nat /\ 1 \in DOMAIN urls
  OBVIOUS
<1>3. CASE secure = {}
  <2>1. PreferredUrl(urls) = urls[1]
    BY <1>3 DEF PreferredUrl
  <2> QED BY <1>1, <1>2, <1>3, <2>1
<1>4. CASE secure # {}
  <2>1. PreferredUrl(urls) = urls[First(secure)]
    BY <1>4 DEF PreferredUrl
  <2>2. First(secure) \in secure
    <3>1. IsFiniteSet(1..Len(urls)) /\ secure \in SUBSET (1..Len(urls))
      BY <1>2, FS_Interval
    <3>2. IsFiniteSet(secure) /\ secure \subseteq Nat
      BY <1>2, <3>1, FS_Subset
    <3> HIDE DEF secure
    <3> QED BY <1>4, <3>2, FirstIs
  <2> QED BY <1>1, <2>1, <2>2
<1> QED BY <1>3, <1>4

---------------------------------------------------------------------------
(* What is asked for                                                       *)

(* What is parsed of a text.                                               *)
IsQueryOf(q, text) ==
  \/ q.type = "Url"
  \/ q.type = "AsNumber" /\ \E numeral \in DOMAIN Numerals : q.value = Numerals[numeral]
  \/ q.type \in {"IpV4Addr", "IpV6Addr"} /\ text \in DOMAIN IpAddresses /\ q.value = IpAddresses[text]
  \/ q.type \in {"IpV4Cidr", "IpV6Cidr"} /\ text \in DOMAIN Networks /\ q.value = Networks[text]
  \/ q.type \in {"Domain", "Nameserver"} /\ q.value = text /\ Holds(text, ".")
  \/ q.type = "Entity" /\ q.value = text
  \/ q.type = "error"

(* Parsing gives no other queries than these.                              *)
LEMMA QueryIs ==
  ASSUME NEW text
  PROVE  IsQueryOf(ParseQuery(text), text)
<1> DEFINE q == ParseQuery(text)
           number == TrimStart(text, AutnumPrefix)
<1>1. \/ q = Query("Url", text)
      \/ number \in DOMAIN Numerals /\ q = Query("AsNumber", Numerals[number])
      \/ IsIp(text) /\ q = Query(OfVersion(Ip(text).version, "IpV4Addr", "IpV6Addr"), Ip(text))
      \/ IsCidr(text) /\ q = Query(OfVersion(Networks[text].version, "IpV4Cidr", "IpV6Cidr"), Networks[text])
      \/ IsDomainLike(text) /\ q = NamedQuery(text)
      \/ q = Query("Entity", text)
      \/ q = QueryError("AmbiquousQueryType")
  BY DEF ParseQuery
<1>2. \/ NamedQuery(text) = QueryError("DomainNameError")
      \/ NamedQuery(text) = Query("Nameserver", text)
      \/ NamedQuery(text) = Query("Domain", text)
  BY DEF NamedQuery
<1>3. IsDomainLike(text) => Holds(text, ".")
  BY DEF IsDomainLike
<1>4. IsCidr(text) => text \in DOMAIN Networks
  BY DEF IsCidr
<1> HIDE DEF q, number
<1>5. CASE q = Query("Url", text)
  BY <1>5 DEF Query, IsQueryOf, q
<1>6. CASE number \in DOMAIN Numerals /\ q = Query("AsNumber", Numerals[number])
  BY <1>6 DEF Query, IsQueryOf, q
<1>7. CASE IsIp(text) /\ q = Query(OfVersion(Ip(text).version, "IpV4Addr", "IpV6Addr"), Ip(text))
  BY <1>7 DEF Query, IsQueryOf, q, OfVersion, IsIp, Ip
<1>8. CASE IsCidr(text) /\ q = Query(OfVersion(Networks[text].version, "IpV4Cidr", "IpV6Cidr"), Networks[text])
  BY <1>8, <1>4 DEF Query, IsQueryOf, q, OfVersion
<1>9. CASE IsDomainLike(text) /\ q = NamedQuery(text)
  BY <1>9, <1>2, <1>3 DEF Query, QueryError, IsQueryOf, q
<1>10. CASE q \in {Query("Entity", text), QueryError("AmbiquousQueryType")}
  BY <1>10 DEF Query, QueryError, IsQueryOf, q
<1> QED BY <1>1, <1>5, <1>6, <1>7, <1>8, <1>9, <1>10

(* The types of what a registry is looked in for.                          *)
AskedTypes == {"IpV4Addr", "IpV4Cidr", "IpV6Addr", "IpV6Cidr", "AsNumber", "Domain", "Nameserver", "Entity"}

(* What the registry's look-up gives.                                      *)
Base == BaseUrl(query, Services[RegistryOf[query.type]])

(* The invariant: what was parsed of the value stays the query, and a URL  *)
(* that no referral gave is the one that the registry's look-up gives.     *)
Asked ==
  /\ world \in Worlds
  /\ pc # "arguments" => query = ParseQuery(world.value)
  /\ pc = "registry" => query.type \in AskedTypes
  /\ pc = "referral" => AfterUrl = "referral"
  /\ IsAsked => query.type \in AskedTypes /\ ~IsError(Base) /\ url = QueryUrl(query, Base.url)

(* Nothing is asked at first.                                              *)
LEMMA InitAsked == Init => Asked
  BY DEF Init, Asked, IsAsked, AfterUrl

(* Every step keeps to it.                                                 *)
LEMMA AskedStep ==
  ASSUME Asked, [Next]_vars
  PROVE  Asked'
<1>1. CASE ReadArguments
  <2>1. query' = ParseQuery(world.value) /\ world' = world
    BY <1>1 DEF ReadArguments
  <2>2. query'.type = "error" => pc' = "done"
    BY <1>1 DEF ReadArguments, Exit
  <2>3. query'.type = "Url" => pc' \in {AfterUrl, "done"}
    BY <1>1 DEF ReadArguments, Exit
  <2>4. query'.type \notin {"error", "Url"} => pc' \in {"registry", "done"}
    BY <1>1 DEF ReadArguments, Exit
  <2>5. IsQueryOf(query', world.value)
    BY <2>1, QueryIs
  <2>6. query'.type \in AskedTypes \union {"error", "Url"}
    BY <2>5 DEF IsQueryOf, AskedTypes
  <2> QED BY <2>1, <2>2, <2>3, <2>4, <2>6 DEF Asked, IsAsked, AfterUrl
<1>2. CASE FetchRegistry \/ RegistryFails
  BY <1>2 DEF FetchRegistry, RegistryFails, Exit, Asked, IsAsked, AfterUrl
<1>3. CASE LookUp
  <2>1. pc = "registry" /\ UNCHANGED <<world, query>>
    BY <1>3 DEF LookUp
  <2>2. \/ pc' = "done"
        \/ ~IsError(Base) /\ url' = QueryUrl(query, Base.url) /\ pc' = AfterUrl
    BY <1>3 DEF LookUp, Exit, Base
  <2>3. Base' = Base /\ AfterUrl' = AfterUrl
    BY <2>1 DEF Base, AfterUrl
  <2> QED BY <2>1, <2>2, <2>3 DEF Asked, IsAsked, AfterUrl
<1>4. CASE Chase
  BY <1>4 DEF Chase, Exit, Asked, IsAsked, AfterUrl
<1>5. CASE Resolve \/ Run \/ Report \/ OutputFails
  BY <1>5 DEF Resolve, Run, Report, OutputFails, Exit, Asked, IsAsked, AfterUrl
<1>6. CASE UNCHANGED vars
  <2>1. UNCHANGED <<pc, world, query, url>>
    BY <1>6 DEF vars
  <2> QED BY <2>1 DEF Asked, IsAsked, AfterUrl, Base
<1> QED BY <1>1, <1>2, <1>3, <1>4, <1>5, <1>6 DEF Next, Done

(* Every test keeps to what was asked.                                     *)
LEMMA Asks == Spec => []Asked
<1> QED BY InitAsked, AskedStep, PTL DEF Spec


(* What is left at the start of a text is a text.                          *)
LEMMA TrimEndIs ==
  ASSUME NEW text \in Seq(STRING), NEW tokens
  PROVE  TrimEnd(text, tokens) \in Seq(STRING)
<1> DEFINE kept == {i \in DOMAIN text : text[i] \notin tokens}
           last == CHOOSE i \in kept : \A j \in kept : j <= i
<1>1. DOMAIN text = 1..Len(text) /\ Len(text) \in Nat
  OBVIOUS
<1>2. CASE kept = {}
  BY <1>2 DEF TrimEnd
<1>3. CASE kept # {}
  <2>1. IsFiniteSet(1..Len(text)) /\ kept \in SUBSET (1..Len(text))
    BY <1>1, FS_Interval
  <2>2. last \in kept
    <3>1. IsFiniteSet(kept) /\ kept \subseteq Nat
      BY <1>1, <2>1, FS_Subset
    <3> HIDE DEF kept
    <3> QED BY <1>3, <3>1, LastIs
  <2>3. PICK n \in 1..Len(text) : n = last
    BY <1>1, <2>2
  <2>4. \A i \in 1..n : text[i] \in STRING
    BY <1>1
  <2>5. SubSeq(text, 1, n) \in Seq(STRING)
    BY <2>4, SubSeqProperties
  <2> QED BY <1>3, <2>3, <2>5 DEF TrimEnd
<1> QED BY <1>2, <1>3

(* A plain text is plain without its leading dots.                         *)
LEMMA TrimmedIsPlain ==
  ASSUME NEW text, IsPlain(text)
  PROVE  IsPlain(TrimLeadingDot(text))
<1> DEFINE kept == {i \in DOMAIN text : text[i] \notin {"."}}
           first == CHOOSE i \in kept : \A j \in kept : i <= j
<1>1. DOMAIN text = 1..Len(text) /\ Len(text) \in Nat /\ text \in Seq(STRING)
  BY DEF IsPlain
<1>2. CASE kept = {}
  <2>1. TrimStart(text, {"."}) = <<>>
    BY <1>2 DEF TrimStart
  <2>2. IsPlain(<<>>)
    BY DEF IsPlain
  <2> QED BY <2>1, <2>2 DEF TrimLeadingDot
<1>3. CASE kept # {}
  <2>1. IsFiniteSet(1..Len(text)) /\ kept \in SUBSET (1..Len(text))
    BY <1>1, FS_Interval
  <2>2. first \in kept
    <3>1. IsFiniteSet(kept) /\ kept \subseteq Nat
      BY <1>1, <2>1, FS_Subset
    <3>2. first = First(kept)
      BY DEF First
    <3> HIDE DEF kept, first
    <3> QED BY <1>3, <3>1, <3>2, FirstIs
  <2>3. PICK m \in 1..Len(text) : m = first
    BY <1>1, <2>2
  <2> DEFINE n == Len(text)
             plain == STRING \ Encodings
             s == SubSeq(text, m, n)
  <2>4. \A i \in m..n : text[i] \in plain
    BY <1>1 DEF IsPlain
  <2>5. s \in Seq(plain)
    <3> HIDE DEF plain, n
    <3> QED BY <1>1, <2>4, SubSeqProperties DEF n
  <2>6. s \in Seq(STRING) /\ \A i \in DOMAIN s : s[i] \notin Encodings
    <3> HIDE DEF s
    <3> QED BY <2>5
  <2>7. TrimStart(text, {"."}) = s
    BY <1>3, <2>3 DEF TrimStart
  <2> HIDE DEF s
  <2> QED BY <2>6, <2>7 DEF TrimLeadingDot, IsPlain
<1> QED BY <1>2, <1>3

---------------------------------------------------------------------------
(* Paths                                                                   *)

(* The tokens that decoding may give.                                      *)
Decodable == Tokens \union DOMAIN Encoded

(* Decoding keeps the length.                                              *)
LEMMA DecodedIs ==
  ASSUME NEW text \in Seq(Tokens)
  PROVE  Decoded(text) \in Seq(Decodable) /\ Len(Decoded(text)) = Len(text)
<1> DEFINE s == Decoded(text)
           n == Len(text)
<1>1. n \in Nat /\ DOMAIN text = 1..n /\ s = [i \in 1..n |-> s[i]]
  BY DEF Decoded
<1>2. ASSUME NEW i \in 1..n PROVE s[i] \in Decodable
  <2>1. s[i] = Meant(text[i]) /\ text[i] \in Tokens
    BY <1>1 DEF Decoded
  <2>2. \A token \in Tokens : Meant(token) \in Tokens \union DOMAIN Encoded
    BY DEF Meant, Encodings
  <2> HIDE DEF s
  <2> QED BY <2>1, <2>2 DEF Decodable
<1> HIDE DEF s, n
<1>3. s \in Seq(Decodable) /\ Len(s) = n
  BY <1>1, <1>2
<1> QED BY <1>3 DEF s, n

(* A text may be decoded in parts.                                         *)
LEMMA DecodedParts ==
  ASSUME NEW a \in Seq(Tokens), NEW b \in Seq(Tokens)
  PROVE  Decoded(a \o b) = Decoded(a) \o Decoded(b)
<1> DEFINE m == Len(a)
           n == Len(b)
           c == a \o b
           d == Decoded(a) \o Decoded(b)
<1>1. m \in Nat /\ n \in Nat /\ c \in Seq(Tokens) /\ Len(c) = m + n
  OBVIOUS
<1>2. /\ Decoded(a) \in Seq(Decodable) /\ Len(Decoded(a)) = m
      /\ Decoded(b) \in Seq(Decodable) /\ Len(Decoded(b)) = n
      /\ Decoded(c) \in Seq(Decodable) /\ Len(Decoded(c)) = m + n
  <2> HIDE DEF c
  <2> QED BY <1>1, DecodedIs
<1>3. d \in Seq(Decodable) /\ Len(d) = m + n
  <2> DEFINE x == Decoded(a)
             y == Decoded(b)
  <2>1. x \in Seq(Decodable) /\ Len(x) = m /\ y \in Seq(Decodable) /\ Len(y) = n
    BY <1>2
  <2> HIDE DEF x, y, m, n
  <2>2. x \o y \in Seq(Decodable) /\ Len(x \o y) = m + n
    BY <2>1, ConcatProperties
  <2> QED BY <2>2 DEF x, y
<1>a. DOMAIN a = 1..m /\ DOMAIN b = 1..n /\ DOMAIN c = 1..(m + n)
  BY <1>1
<1>b. /\ \A i \in 1..m : c[i] = a[i] /\ d[i] = Decoded(a)[i]
      /\ \A i \in 1..n : c[m + i] = b[i] /\ d[m + i] = Decoded(b)[i]
  <2> DEFINE x == Decoded(a)
             y == Decoded(b)
  <2>1. x \in Seq(Decodable) /\ Len(x) = m /\ y \in Seq(Decodable) /\ Len(y) = n
    BY <1>2
  <2> HIDE DEF x, y
  <2>2. /\ \A i \in 1..m : (x \o y)[i] = x[i]
        /\ \A i \in 1..n : (x \o y)[m + i] = y[i]
    BY <1>1, <2>1
  <2>3. /\ \A i \in 1..m : c[i] = a[i]
        /\ \A i \in 1..n : c[m + i] = b[i]
    BY <1>1
  <2> QED BY <2>2, <2>3 DEF x, y
<1> HIDE DEF c, d, m, n
<1>5. ASSUME NEW i \in 1..(m + n) PROVE Decoded(c)[i] = d[i]
  <2>1. CASE i <= m
    <3>1. i \in 1..m /\ i \in DOMAIN a /\ i \in DOMAIN c
      BY <1>1, <1>a, <2>1
    <3>2. c[i] = a[i] /\ d[i] = Decoded(a)[i]
      BY <1>b, <3>1
    <3>3. Decoded(c)[i] = Decoded(a)[i]
      BY <3>1, <3>2 DEF Decoded
    <3> QED BY <3>2, <3>3
  <2>2. CASE i > m
    <3>1. PICK j \in 1..n : i = m + j
      <4>1. i - m \in 1..n /\ m + (i - m) = i
        BY <1>1, <2>2
      <4> QED BY <4>1
    <3>2. j \in DOMAIN b /\ i \in DOMAIN c
      BY <1>1, <1>a, <3>1
    <3>3. c[i] = b[j] /\ d[i] = Decoded(b)[j]
      BY <1>b, <3>1
    <3>4. Decoded(c)[i] = Decoded(b)[j]
      BY <3>2, <3>3 DEF Decoded
    <3> QED BY <3>3, <3>4
  <2> QED BY <1>1, <2>1, <2>2
<1>6. Decoded(c) = d
  BY <1>1, <1>2, <1>3, <1>5
<1> QED BY <1>6 DEF c, d

(* The class and the rest of a path.                                       *)
LEMMA RestIs ==
  ASSUME NEW class \in Tokens, NEW rest \in Seq(Tokens)
  PROVE  LET path == <<class, "/">> \o rest
         IN /\ path \in Seq(Tokens) /\ Len(path) > 1 /\ path[1] = class /\ path[2] = "/"
            /\ SubSeq(path, 3, Len(path)) = rest
<1> DEFINE start == <<class, "/">>
           path == start \o rest
           n == Len(rest)
<1>1. start \in Seq(Tokens) /\ Len(start) = 2 /\ start[1] = class /\ start[2] = "/"
  BY DEF Tokens
<1> HIDE DEF start
<1>2. n \in Nat /\ path \in Seq(Tokens) /\ Len(path) = 2 + n /\ path[1] = class /\ path[2] = "/"
  <2>1. path \in Seq(Tokens) /\ Len(path) = Len(start) + Len(rest)
    BY <1>1, ConcatProperties
  <2>2. \A i \in 1..(Len(start) + Len(rest)) :
          path[i] = IF i <= Len(start) THEN start[i] ELSE rest[i - Len(start)]
    BY <1>1, ConcatProperties
  <2> HIDE DEF path
  <2>3. n \in Nat /\ 1 \in 1..(2 + n) /\ 2 \in 1..(2 + n)
    OBVIOUS
  <2>4. path[1] = start[1] /\ path[2] = start[2]
    BY <1>1, <2>2, <2>3
  <2> QED BY <1>1, <2>1, <2>3, <2>4
<1>3. \A i \in 1..n : path[2 + i] = rest[i]
  <2> SUFFICES ASSUME NEW i \in 1..n PROVE path[2 + i] = rest[i]
    OBVIOUS
  <2>3. \A k \in 1..(Len(start) + Len(rest)) :
          path[k] = IF k <= Len(start) THEN start[k] ELSE rest[k - Len(start)]
    BY <1>1, ConcatProperties
  <2>1. path[2 + i] = IF 2 + i <= Len(start) THEN start[2 + i] ELSE rest[2 + i - Len(start)]
    <3>1. 2 + i \in 1..(Len(start) + Len(rest))
      BY <1>1, <1>2
    <3> HIDE DEF path
    <3> QED BY <2>3, <3>1
  <2>2. 2 + i - Len(start) = i /\ ~(2 + i <= Len(start))
    BY <1>1, <1>2
  <2> HIDE DEF path
  <2> QED BY <2>1, <2>2
<1> HIDE DEF path
<1>4. SubSeq(path, 3, Len(path)) = rest
  <2> DEFINE s == SubSeq(path, 3, 2 + n)
  <2>1. \A i \in 3..(2 + n) : path[i] \in Tokens
    BY <1>2
  <2>2. /\ s \in Seq(Tokens)
        /\ Len(s) = IF 3 <= 2 + n THEN 2 + n - 3 + 1 ELSE 0
        /\ \A i \in 1..(2 + n - 3 + 1) : s[i] = path[3 + i - 1]
    BY <1>2, <2>1, SubSeqProperties
  <2> HIDE DEF s
  <2>3. Len(s) = n
    BY <1>2, <2>2
  <2>4. \A i \in 1..n : s[i] = rest[i]
    <3> SUFFICES ASSUME NEW i \in 1..n PROVE s[i] = rest[i]
      OBVIOUS
    <3>1. i \in 1..(2 + n - 3 + 1) /\ 3 + i - 1 = 2 + i
      BY <1>2
    <3>2. s[i] = path[2 + i]
      BY <2>2, <3>1
    <3> QED BY <1>3, <3>2
  <2>5. s = rest
    BY <2>2, <2>3, <2>4
  <2> QED BY <1>2, <2>5 DEF s
<1> QED BY <1>2, <1>4 DEF path, start

(* A path with an encoded text comes to its handler with the text.         *)
LEMMA Routes ==
  ASSUME NEW class \in Tokens, NEW text, IsPlain(text), text # <<>> \/ class = "ip"
  PROVE  /\ <<class, "/">> \o PctEncode(text) \in Seq(Tokens)
         /\ Routed(<<class, "/">> \o PctEncode(text)) = [class |-> class, key |-> text]
<1> DEFINE rest == PctEncode(text)
           path == <<class, "/">> \o rest
<1>1. /\ rest \in Seq(STRING) /\ Decoded(rest) = text
      /\ IsSegment(rest) \/ class = "ip"
  BY DecodedEncoded
<1> HIDE DEF rest
<1>2. rest \in Seq(Tokens)
  BY <1>1 DEF Tokens
<1>3. /\ path \in Seq(Tokens) /\ Len(path) > 1 /\ path[1] = class /\ path[2] = "/"
      /\ SubSeq(path, 3, Len(path)) = rest
  BY <1>2, RestIs
<1> HIDE DEF path
<1>4. Routed(path) = [class |-> class, key |-> text]
  BY <1>1, <1>3 DEF Routed
<1> QED BY <1>3, <1>4 DEF path, rest

(* A network comes to the handler of addresses with its slash.             *)
LEMMA NetworkRoutes ==
  ASSUME NEW first, IsPlain(first), NEW length, IsPlain(length)
  PROVE  LET path == (<<"ip", "/">> \o PctEncode(first)) \o <<"/">> \o PctEncode(length)
         IN /\ path \in Seq(Tokens)
            /\ Routed(path) = [class |-> "ip", key |-> first \o <<"/">> \o length]
<1> DEFINE a == PctEncode(first)
           b == PctEncode(length)
           slash == <<"/">>
           rest == a \o slash \o b
           path == (<<"ip", "/">> \o a) \o slash \o b
<1>1. /\ a \in Seq(STRING) /\ Decoded(a) = first
      /\ b \in Seq(STRING) /\ Decoded(b) = length
  BY DecodedEncoded
<1> HIDE DEF a, b
<1>2. a \in Seq(Tokens) /\ b \in Seq(Tokens) /\ slash \in Seq(Tokens)
  BY <1>1 DEF Tokens
<1>3. Decoded(slash) = slash
  <2>1. "/" \notin Encodings
    BY EncodedAssumption
  <2>2. Meant("/") = "/"
    BY <2>1 DEF Meant
  <2>3. Len(slash) = 1 /\ slash[1] = "/" /\ DOMAIN slash = 1..1
    OBVIOUS
  <2>4. Decoded(slash) = [i \in 1..1 |-> "/"]
    BY <2>2, <2>3 DEF Decoded
  <2>5. slash = [i \in 1..1 |-> "/"]
    BY <2>3
  <2> QED BY <2>4, <2>5
<1>4. path = <<"ip", "/">> \o rest /\ rest \in Seq(Tokens)
  <2> DEFINE start == <<"ip", "/">>
  <2>1. start \in Seq(Tokens)
    BY DEF Tokens
  <2> HIDE DEF start, slash
  <2>2. \A r, s, t \in Seq(Tokens) : (r \o s) \o t = r \o (s \o t)
    BY ConcatAssociative
  <2>3. a \o slash \in Seq(Tokens) /\ (start \o a) \o slash = start \o (a \o slash)
    BY <1>2, <2>1, <2>2
  <2>4. (start \o (a \o slash)) \o b = start \o ((a \o slash) \o b)
    BY <1>2, <2>1, <2>2, <2>3
  <2>5. (a \o slash) \o b \in Seq(Tokens)
    BY <1>2, <2>3
  <2> QED BY <2>3, <2>4, <2>5 DEF start
<1>5. Decoded(rest) = first \o slash \o length
  <2> HIDE DEF slash
  <2>1. slash \o b \in Seq(Tokens) /\ a \o slash \in Seq(Tokens)
    BY <1>2
  <2>2. Decoded((a \o slash) \o b) = Decoded(a \o slash) \o Decoded(b)
    BY <1>2, <2>1, DecodedParts
  <2>3. Decoded(a \o slash) = Decoded(a) \o Decoded(slash)
    BY <1>2, DecodedParts
  <2> QED BY <1>1, <1>3, <2>2, <2>3
<1> HIDE DEF rest
<1>6. "ip" \in Tokens
  BY DEF Tokens
<1> DEFINE long == <<"ip", "/">> \o rest
<1>7. /\ long \in Seq(Tokens) /\ Len(long) > 1 /\ long[1] = "ip" /\ long[2] = "/"
      /\ SubSeq(long, 3, Len(long)) = rest
  BY <1>4, <1>6, RestIs
<1> HIDE DEF long
<1>8. Routed(long) = [class |-> "ip", key |-> first \o slash \o length]
  BY <1>5, <1>7 DEF Routed
<1>9. path = long
  BY <1>4 DEF long
<1> HIDE DEF path
<1> QED BY <1>7, <1>8, <1>9 DEF path, a, b

(* A path is a text.                                                       *)
LEMMA UnderIs ==
  ASSUME NEW class \in Tokens, NEW text, IsPlain(text)
  PROVE  <<class, "/">> \o PctEncode(text) \in Seq(Tokens)
<1> DEFINE rest == PctEncode(text)
<1>1. rest \in Seq(STRING)
  BY DecodedEncoded
<1> HIDE DEF rest
<1>2. rest \in Seq(Tokens)
  BY <1>1 DEF Tokens
<1>3. <<class, "/">> \o rest \in Seq(Tokens)
  BY <1>2, RestIs
<1> QED BY <1>3 DEF rest

(* The paths of what is asked for.                                         *)
LEMMA PathIs ==
  ASSUME NEW q, q.type \in AskedTypes
  PROVE  QueryPath(q) =
           CASE q.type \in {"IpV4Addr", "IpV6Addr"} -> <<"ip", "/">> \o PctEncode(q.value.shown)
             [] q.type \in {"IpV4Cidr", "IpV6Cidr"} ->
                  (<<"ip", "/">> \o PctEncode(q.value.first)) \o <<"/">> \o PctEncode(q.value.length)
             [] q.type = "AsNumber" -> <<"autnum", "/">> \o PctEncode(q.value.shown)
             [] q.type = "Domain" -> <<"domain", "/">> \o PctEncode(TrimLeadingDot(q.value))
             [] q.type = "Nameserver" -> <<"nameserver", "/">> \o PctEncode(DomainToAscii(q.value))
             [] q.type = "Entity" -> <<"entity", "/">> \o PctEncode(q.value)
<1>1. q.type \notin DOMAIN SearchPath /\ q.type \notin {"ALabel", "Help"}
  BY DEF AskedTypes, SearchPath
<1>2. CASE q.type \in {"IpV4Addr", "IpV6Addr"}
  BY <1>1, <1>2 DEF QueryPath
<1>3. CASE q.type \in {"IpV4Cidr", "IpV6Cidr"}
  BY <1>1, <1>3 DEF QueryPath
<1>4. CASE q.type = "AsNumber"
  BY <1>1, <1>4 DEF QueryPath
<1>5. CASE q.type = "Domain"
  BY <1>1, <1>5 DEF QueryPath
<1>6. CASE q.type = "Nameserver"
  BY <1>1, <1>6 DEF QueryPath
<1>7. CASE q.type = "Entity"
  BY <1>1, <1>7 DEF QueryPath
<1> QED BY <1>2, <1>3, <1>4, <1>5, <1>6, <1>7 DEF AskedTypes

(* A text holds what is between two parts of it.                           *)
LEMMA HoldsBetween ==
  ASSUME NEW a \in Seq(Tokens), NEW b \in Seq(Tokens), NEW x \in Tokens
  PROVE  Holds(a \o <<x>> \o b, x)
<1> DEFINE only == <<x>>
           start == a \o only
           whole == start \o b
           m == Len(a) + 1
<1>1. only \in Seq(Tokens) /\ Len(only) = 1 /\ only[1] = x /\ Len(a) \in Nat /\ Len(b) \in Nat
  OBVIOUS
<1> HIDE DEF only
<1>2. start \in Seq(Tokens) /\ Len(start) = m /\ start[m] = x
  <2>1. /\ start \in Seq(Tokens) /\ Len(start) = Len(a) + Len(only)
        /\ \A i \in 1..(Len(a) + Len(only)) :
             start[i] = IF i <= Len(a) THEN a[i] ELSE only[i - Len(a)]
    BY <1>1, ConcatProperties
  <2> HIDE DEF start
  <2>2. m \in 1..(Len(a) + Len(only)) /\ ~(m <= Len(a)) /\ m - Len(a) = 1
    BY <1>1
  <2> HIDE DEF m
  <2> QED BY <1>1, <2>1, <2>2 DEF m
<1> HIDE DEF start
<1>3. whole \in Seq(Tokens) /\ m \in 1..Len(whole) /\ whole[m] = x
  <2>1. /\ whole \in Seq(Tokens) /\ Len(whole) = Len(start) + Len(b)
        /\ \A i \in 1..(Len(start) + Len(b)) :
             whole[i] = IF i <= Len(start) THEN start[i] ELSE b[i - Len(start)]
    BY <1>2, ConcatProperties
  <2> HIDE DEF whole
  <2>2. m \in 1..(Len(start) + Len(b)) /\ m <= Len(start)
    BY <1>1, <1>2
  <2> QED BY <1>2, <2>1, <2>2
<1> HIDE DEF whole, m
<1>4. Holds(whole, x)
  BY <1>3 DEF Holds
<1> QED BY <1>4 DEF whole, start, only

(* The path of what is asked for is a text.                                *)
AtPath == IsAsked => QueryPath(query) \in Seq(Tokens)

(* What was asked for is what a server makes of the path.                  *)
LEMMA Reaches ==
  ASSUME Asked
  PROVE  AtPath /\ QueryReaches
<1> SUFFICES ASSUME IsAsked
             PROVE  QueryPath(query) \in Seq(Tokens) /\ QueryReaches
  BY DEF AtPath, QueryReaches
<1> DEFINE text == world.value
           path == QueryPath(query)
           value == query.value
<1>1. /\ query.type \in AskedTypes /\ ~IsError(Base)
      /\ IsPlain(text) /\ IsQueryOf(query, text)
  <2>1. world \in Worlds /\ query = ParseQuery(text) /\ query.type \in AskedTypes /\ ~IsError(Base)
    BY DEF Asked, IsAsked, AfterUrl
  <2>2. IsPlain(text)
    BY <2>1, WorldsAssumption
  <2> HIDE DEF text
  <2> QED BY <2>1, <2>2, QueryIs
<1>2. {"ip", "autnum", "domain", "nameserver", "entity"} \subseteq Tokens
  BY DEF Tokens
<1> HIDE DEF text
<1>3. CASE query.type \in {"IpV4Addr", "IpV6Addr"}
  <2>1. text \in DOMAIN IpAddresses /\ value = IpAddresses[text]
    BY <1>1, <1>3 DEF IsQueryOf
  <2>2. IsPlain(value.shown) /\ value.shown \in DOMAIN IpAddresses
    BY <2>1, AddressesAssumption
  <2>3. path = <<"ip", "/">> \o PctEncode(value.shown)
    BY <1>1, <1>3, PathIs
  <2>4. path \in Seq(Tokens) /\ Routed(path) = [class |-> "ip", key |-> value.shown]
    BY <1>2, <2>2, <2>3, Routes
  <2> HIDE DEF path
  <2>5. IsIp(Routed(path).key)
    BY <2>2, <2>4 DEF IsIp
  <2> QED BY <1>3, <2>4, <2>5 DEF QueryReaches, path
<1>4. CASE query.type \in {"IpV4Cidr", "IpV6Cidr"}
  <2> DEFINE first == value.first
             length == value.length
             canonical == first \o <<"/">> \o length
  <2>1. text \in DOMAIN Networks /\ value = Networks[text]
    BY <1>1, <1>4 DEF IsQueryOf
  <2>2. /\ IsPlain(first) /\ IsPlain(length)
        /\ canonical \in DOMAIN Networks /\ Networks[canonical].block = value.block
    BY <2>1, NetworksAssumption
  <2>3. path = (<<"ip", "/">> \o PctEncode(first)) \o <<"/">> \o PctEncode(length)
    BY <1>1, <1>4, PathIs
  <2>4. Holds(canonical, "/")
    <3> HIDE DEF first, length
    <3>1. first \in Seq(Tokens) /\ length \in Seq(Tokens) /\ "/" \in Tokens
      BY <2>2 DEF IsPlain, Tokens
    <3> QED BY <3>1, HoldsBetween
  <2> HIDE DEF first, length, canonical
  <2>5. path \in Seq(Tokens) /\ Routed(path) = [class |-> "ip", key |-> canonical]
    BY <2>2, <2>3, NetworkRoutes DEF canonical
  <2> HIDE DEF path
  <2>6. IsCidr(canonical)
    BY <2>2, <2>4 DEF IsCidr
  <2> QED BY <1>4, <2>2, <2>5, <2>6 DEF QueryReaches, path
<1>5. CASE query.type = "AsNumber"
  <2>1. PICK numeral \in DOMAIN Numerals : value = Numerals[numeral]
    BY <1>1, <1>5 DEF IsQueryOf
  <2>2. value.shown \in DOMAIN Numerals /\ Numerals[value.shown].number = value.number
    BY <2>1, NumeralsAssumption
  <2>3. IsPlain(value.shown) /\ value.shown # <<>>
    <3>1. IsPlain(value.shown) /\ value.shown = <<value.shown[1]>>
      BY <2>2, NumeralsAssumption
    <3>2. \A x : <<x>> # <<>>
      OBVIOUS
    <3> QED BY <3>1, <3>2
  <2>4. path = <<"autnum", "/">> \o PctEncode(value.shown)
    BY <1>1, <1>5, PathIs
  <2>5. path \in Seq(Tokens) /\ Routed(path) = [class |-> "autnum", key |-> value.shown]
    BY <1>2, <2>3, <2>4, Routes
  <2> HIDE DEF path
  <2> QED BY <1>5, <2>2, <2>5 DEF QueryReaches, path
<1>6. CASE query.type = "Entity"
  <2>1. value = text
    BY <1>1, <1>6 DEF IsQueryOf
  <2>2. Holds(text, "-")
    <3>1. ~Holds(value, "-") => Base = RegistryError("InvalidBootstrapInput")
      BY <1>6 DEF Base, BaseUrl, QueryUrls, IsError, RegistryError
    <3> QED BY <1>1, <2>1, <3>1 DEF IsError, RegistryError
  <2>3. text # <<>>
    BY <2>2 DEF Holds
  <2>4. path = <<"entity", "/">> \o PctEncode(text)
    BY <1>1, <1>6, <2>1, PathIs
  <2>5. path \in Seq(Tokens) /\ Routed(path) = [class |-> "entity", key |-> text]
    BY <1>1, <1>2, <2>3, <2>4, Routes
  <2> HIDE DEF path
  <2> QED BY <1>6, <2>5 DEF QueryReaches, path, text
<1>7. CASE query.type = "Nameserver"
  <2> DEFINE name == DomainToAscii(text)
  <2>1. value = text /\ Holds(text, ".")
    BY <1>1, <1>7 DEF IsQueryOf
  <2>2. IsPlain(name) /\ name # <<>>
    <3>1. IsPlain(name) /\ Len(name) = Len(text)
      BY <1>1, AsciiIsPlain
    <3>2. text \in Seq(STRING) /\ Len(text) # 0
      BY <1>1, <2>1 DEF IsPlain, Holds
    <3> HIDE DEF name
    <3> QED BY <3>1, <3>2
  <2>3. path = <<"nameserver", "/">> \o PctEncode(name)
    BY <1>1, <1>7, <2>1, PathIs
  <2> HIDE DEF name
  <2>4. path \in Seq(Tokens) /\ Routed(path) = [class |-> "nameserver", key |-> name]
    BY <1>2, <2>2, <2>3, Routes
  <2> HIDE DEF path
  <2> QED BY <1>7, <2>4 DEF QueryReaches, path, text, name
<1>8. CASE query.type = "Domain"
  <2> DEFINE trimmed == TrimLeadingDot(text)
  <2>1. value = text /\ IsPlain(trimmed)
    BY <1>1, <1>8, TrimmedIsPlain DEF IsQueryOf
  <2>2. path = <<"domain", "/">> \o PctEncode(trimmed)
    BY <1>1, <1>8, <2>1, PathIs
  <2> HIDE DEF trimmed
  <2>3. path \in Seq(Tokens)
    BY <1>2, <2>1, <2>2, UnderIs
  <2>4. trimmed # <<>> => Routed(path) = [class |-> "domain", key |-> trimmed]
    BY <1>2, <2>1, <2>2, Routes
  <2> HIDE DEF path
  <2> QED BY <1>8, <2>3, <2>4 DEF QueryReaches, path, text, trimmed
<1> QED BY <1>1, <1>3, <1>4, <1>5, <1>6, <1>7, <1>8 DEF AskedTypes

(* The path of a query comes to the handler of what is asked for: the      *)
(* routes' decoding undoes the encoding of QueryType::query_url, whatever  *)
(* was typed in, for every type of query.                                  *)
THEOREM Reached == Spec => []QueryReaches
<1>1. Asked => QueryReaches
  BY Reaches
<1> QED BY <1>1, Asks, PTL

---------------------------------------------------------------------------
(* The server of a query                                                   *)

(* The services of the registry of the query.                              *)
List == Services[RegistryOf[query.type]]

(* A service that has an entry for the query, and none has a closer one.    *)
ClosestAt(s) ==
  /\ List[s] # <<>>
  /\ QueryUrls(query, List) = UrlsOf(List, s)
  /\ \E e \in Serves(List[s]) : \A o \in DOMAIN List : ~\E f \in Serves(List[o]) : IsCloser(f, e)

(* What is known of a query when its URL is there.                         *)
LEMMA AskedIs ==
  ASSUME Asked, IsAsked
  PROVE  /\ world \in Worlds /\ IsPlain(world.value)
         /\ query.type \in AskedTypes /\ IsQueryOf(query, world.value)
         /\ ~IsError(BaseUrl(query, List)) /\ ~IsError(QueryUrls(query, List))
         /\ url = QueryUrl(query, BaseUrl(query, List).url)
         /\ List \in Lists
         /\ \A s \in DOMAIN List : List[s] # <<>> =>
              \A i \in DOMAIN List[s][Len(List[s])] : List[s][Len(List[s])][i] # <<>>
<1>1. /\ world \in Worlds /\ query = ParseQuery(world.value) /\ query.type \in AskedTypes
      /\ ~IsError(Base) /\ url = QueryUrl(query, Base.url)
  BY DEF Asked, IsAsked, AfterUrl
<1>2. IsPlain(world.value) /\ IsQueryOf(query, world.value)
  BY <1>1, WorldsAssumption, QueryIs
<1>3. RegistryOf[query.type] \in {"dns", "asn", "ipv4", "ipv6", "tags"}
  BY <1>1 DEF AskedTypes, RegistryOf
<1>4. ~IsError(BaseUrl(query, List)) => ~IsError(QueryUrls(query, List))
  BY DEF BaseUrl
<1> QED BY <1>1, <1>2, <1>3, <1>4, ServicesAssumption DEF List, Lists, Base

(* Every entry of a service has a place.                                   *)
LEMMA EntriesAt ==
  ASSUME NEW services \in Lists, NoList(services) = {}, NEW s \in DOMAIN services
  PROVE  /\ services[s] # <<>>
         /\ \A f \in SE!ToSet(services[s][1]) :
              \E p \in Places(services) : p[1] = s /\ EntryAt(services, p) = f
<1>1. services[s] # <<>>
  BY DEF NoList
<1>2. ASSUME NEW i \in DOMAIN services[s][1]
      PROVE  \E p \in Places(services) : p[1] = s /\ EntryAt(services, p) = services[s][1][i]
  <2>1. <<s, i>> \in Places(services) /\ EntryAt(services, <<s, i>>) = services[s][1][i]
    BY <1>1, PlacesAre
  <2> QED BY <2>1
<1> QED BY <1>1, <1>2 DEF SE!ToSet

(* At a place there is an entry of the service.                            *)
LEMMA PlaceIn ==
  ASSUME NEW services \in Lists, NEW p \in Places(services)
  PROVE  /\ p[1] \in DOMAIN services /\ services[p[1]] # <<>>
         /\ EntryAt(services, p) \in Seq(STRING)
         /\ EntryAt(services, p) \in SE!ToSet(services[p[1]][1])
<1>1. /\ p[1] \in DOMAIN services /\ services[p[1]] # <<>>
      /\ p[2] \in DOMAIN services[p[1]][1] /\ EntryAt(services, p) \in Seq(STRING)
  BY PlacesAre
<1> QED BY <1>1 DEF EntryAt, SE!ToSet

(* Names.  The service that is taken has an entry for the query that none  *)
(* is closer than; so in the three lemmas that follow.                     *)
LEMMA NamesServed ==
  ASSUME Asked, IsAsked, LabelsDecide, query.type \in {"Domain", "Nameserver"}
  PROVE  \E s \in DOMAIN List : ClosestAt(s)
<1> DEFINE name == DomainToAscii(query.value)
<1>1. /\ world \in Worlds /\ query.value = world.value /\ IsPlain(world.value)
      /\ ~IsError(QueryUrls(query, List)) /\ List \in Lists
  BY AskedIs DEF IsQueryOf
<1>2. List = Services["dns"] /\ RegistryOf[query.type] = "dns"
  BY DEF List, RegistryOf
<1>3. QueryUrls(query, List) = DnsUrls(List, name)
  BY DEF QueryUrls
<1>4. name \in Seq(Tokens)
  <2>1. name \in Seq(STRING)
    BY <1>1, AsciiIsPlain DEF IsPlain
  <2> HIDE DEF name
  <2> QED BY <2>1 DEF Tokens
<1>5. \A p \in Places(List) : EndsIn(name, EntryAt(List, p)) =>
        \E q \in Places(List) : /\ IsUnder(name, EntryAt(List, q))
                                /\ \/ EntryAt(List, q) = EntryAt(List, p)
                                   \/ IsLonger(EntryAt(List, q), EntryAt(List, p))
  BY <1>2 DEF LabelsDecide
<1>6. \A services : \A e : e \in Serves(services) <=> e \in SE!ToSet(services[1]) /\ IsUnder(name, e)
  BY DEF Serves
<1> HIDE DEF name
<1>7. NoList(List) = {}
  BY <1>1, <1>3, DnsFinds
<1>8. PICK p \in Places(List) :
        /\ DnsUrls(List, name) = UrlsOf(List, p[1])
        /\ EndsIn(name, EntryAt(List, p))
        /\ \A q \in Places(List) : EndsIn(name, EntryAt(List, q)) =>
             ~IsLonger(EntryAt(List, q), EntryAt(List, p))
  BY <1>1, <1>3, DnsFinds
<1> DEFINE s == p[1]
           e == EntryAt(List, p)
<1>9. s \in DOMAIN List /\ List[s] # <<>> /\ e \in SE!ToSet(List[s][1]) /\ e \in Seq(STRING)
  BY <1>1, PlaceIn
<1>10. ASSUME NEW q \in Places(List), IsUnder(name, EntryAt(List, q))
       PROVE  ~IsLonger(EntryAt(List, q), e)
  <2>1. EntryAt(List, q) \in Seq(Tokens)
    BY <1>1, PlaceIn DEF Tokens
  <2>2. EndsIn(name, EntryAt(List, q))
    BY <1>4, <1>10, <2>1, UnderEnds DEF EndsIn
  <2> QED BY <1>8, <2>2
<1>11. e \in Serves(List[s])
  <2>1. PICK q \in Places(List) : /\ IsUnder(name, EntryAt(List, q))
                                  /\ EntryAt(List, q) = e \/ IsLonger(EntryAt(List, q), e)
    BY <1>5, <1>8
  <2>2. IsUnder(name, e)
    BY <1>10, <2>1
  <2> QED BY <1>6, <1>9, <2>2
<1>12. ASSUME NEW o \in DOMAIN List, NEW f \in Serves(List[o]) PROVE ~IsCloser(f, e)
  <2>1. f \in SE!ToSet(List[o][1]) /\ IsUnder(name, f)
    BY <1>6
  <2>2. PICK q \in Places(List) : EntryAt(List, q) = f
    <3>1. \A g \in SE!ToSet(List[o][1]) : \E q \in Places(List) : q[1] = o /\ EntryAt(List, q) = g
      BY <1>1, <1>7, EntriesAt
    <3> QED BY <2>1, <3>1
  <2>3. ~(Len(f) > Len(e))
    BY <1>10, <2>1, <2>2 DEF IsLonger
  <2>4. IsCloser(f, e) <=> Len(f) > Len(e)
    BY <1>2 DEF IsCloser
  <2> QED BY <2>3, <2>4
<1> HIDE DEF s, e
<1>13. ClosestAt(s)
  BY <1>3, <1>8, <1>9, <1>11, <1>12 DEF ClosestAt, s
<1> QED BY <1>9, <1>13

(* Addresses and networks.                                                 *)
LEMMA NetworksServed ==
  ASSUME Asked, IsAsked, query.type \in {"IpV4Addr", "IpV4Cidr", "IpV6Addr", "IpV6Cidr"}
  PROVE  \E s \in DOMAIN List : ClosestAt(s)
<1> DEFINE network == IF Has(query.value, "block") THEN query.value ELSE Host(query.value)
<1>1. ~IsError(QueryUrls(query, List)) /\ List \in Lists /\ IsQueryOf(query, world.value)
  BY AskedIs
<1>2. RegistryOf[query.type] \in {"ipv4", "ipv6"}
  BY DEF RegistryOf
<1>3. QueryUrls(query, List) = IpUrls(List, query.value.version, network)
  <2>1. CASE query.type \in {"IpV4Addr", "IpV6Addr"}
    <3>1. world.value \in DOMAIN IpAddresses /\ query.value = IpAddresses[world.value]
      BY <1>1, <2>1 DEF IsQueryOf
    <3>2. ~Has(query.value, "block")
      BY <3>1, AddressesAssumption DEF Has
    <3> QED BY <2>1, <3>2 DEF QueryUrls
  <2>2. CASE query.type \in {"IpV4Cidr", "IpV6Cidr"}
    <3>1. world.value \in DOMAIN Networks /\ query.value = Networks[world.value]
      BY <1>1, <2>2 DEF IsQueryOf
    <3>2. Has(query.value, "block")
      BY <3>1, NetworksAssumption DEF Has
    <3> QED BY <2>2, <3>2 DEF QueryUrls
  <2> QED BY <2>1, <2>2
<1>4. \A service : \A e : e \in Serves(service) <=> e \in SE!ToSet(service[1]) /\ Covers(Networks[e], network)
  BY DEF Serves
<1> HIDE DEF network
<1>5. NoList(List) = {}
  BY <1>1, <1>3, IpFinds
<1>6. PICK p \in Places(List) :
        /\ IpUrls(List, query.value.version, network) = UrlsOf(List, p[1])
        /\ Covers(Networks[EntryAt(List, p)], network)
        /\ \A q \in Places(List) :
             Covers(Networks[EntryAt(List, q)], network)
               /\ Covers(Networks[EntryAt(List, p)], Networks[EntryAt(List, q)]) =>
               Covers(Networks[EntryAt(List, q)], Networks[EntryAt(List, p)])
  BY <1>1, <1>3, IpFinds
<1> DEFINE s == p[1]
           e == EntryAt(List, p)
<1>7. s \in DOMAIN List /\ List[s] # <<>> /\ e \in SE!ToSet(List[s][1])
  BY <1>1, PlaceIn
<1>8. e \in Serves(List[s])
  BY <1>4, <1>6, <1>7
<1>9. ASSUME NEW o \in DOMAIN List, NEW f \in Serves(List[o]) PROVE ~IsCloser(f, e)
  <2>1. f \in SE!ToSet(List[o][1]) /\ Covers(Networks[f], network)
    BY <1>4
  <2>2. PICK q \in Places(List) : EntryAt(List, q) = f
    BY <1>1, <1>5, <2>1, EntriesAt
  <2>3. Covers(Networks[e], Networks[f]) => Covers(Networks[f], Networks[e])
    BY <1>6, <2>1, <2>2
  <2>4. IsCloser(f, e) => Covers(Networks[e], Networks[f]) /\ ~Covers(Networks[f], Networks[e])
    BY <1>2 DEF IsCloser
  <2> QED BY <2>3, <2>4
<1> HIDE DEF s, e
<1>10. ClosestAt(s)
  BY <1>3, <1>6, <1>7, <1>8, <1>9 DEF ClosestAt, s
<1> QED BY <1>7, <1>10

(* Numbers of autonomous systems.                                          *)
LEMMA NumbersServed ==
  ASSUME Asked, IsAsked, query.type = "AsNumber"
  PROVE  \E s \in DOMAIN List : ClosestAt(s)
<1> DEFINE number == query.value.number
<1>1. ~IsError(QueryUrls(query, List)) /\ List \in Lists
  BY AskedIs
<1>2. QueryUrls(query, List) = AsnUrls(List, number) /\ RegistryOf[query.type] = "asn"
  BY DEF QueryUrls, RegistryOf
<1>3. PICK p \in Places(List) :
        LET range == EntryAt(List, p)
        IN /\ AsnUrls(List, number) = UrlsOf(List, p[1])
           /\ <<range[1]>> \in DOMAIN Numerals /\ <<range[Len(range)]>> \in DOMAIN Numerals
           /\ NotAbove(Numerals[<<range[1]>>].number, number)
           /\ NotAbove(number, Numerals[<<range[Len(range)]>>].number)
  BY <1>1, <1>2, AsnFinds
<1> DEFINE s == p[1]
           e == EntryAt(List, p)
<1>4. s \in DOMAIN List /\ List[s] # <<>> /\ e \in SE!ToSet(List[s][1])
  BY <1>1, PlaceIn
<1>5. e \in Serves(List[s])
  BY <1>3, <1>4 DEF Serves
<1>6. \A f : ~IsCloser(f, e)
  BY <1>2 DEF IsCloser
<1> HIDE DEF s, e
<1>7. ClosestAt(s)
  BY <1>2, <1>3, <1>4, <1>5, <1>6 DEF ClosestAt, s
<1> QED BY <1>4, <1>7

(* Handles of entities.                                                    *)
LEMMA HandlesServed ==
  ASSUME Asked, IsAsked, query.type = "Entity"
  PROVE  \E s \in DOMAIN List : ClosestAt(s)
<1> DEFINE handle == query.value
           tag == AfterLast(handle, "-")
<1>1. ~IsError(QueryUrls(query, List)) /\ List \in Lists /\ IsPlain(handle)
  BY AskedIs DEF IsQueryOf
<1>2. Holds(handle, "-") /\ QueryUrls(query, List) = TagUrls(List, tag)
  BY <1>1 DEF QueryUrls, IsError, RegistryError
<1>3. PICK s \in DOMAIN List :
        /\ TagUrls(List, tag) = UrlsOf(List, s)
        /\ Len(List[s]) >= 2 /\ List[s][2] # <<>>
        /\ SameIgnoringCase(List[s][2][1], tag)
  BY <1>1, <1>2, TagFinds
<1> DEFINE service == List[s]
           tags == service[2]
           e == tags[1]
<1>4. service \in Seq(Seq(Seq(STRING))) /\ service # <<>> /\ tags \in Seq(Seq(STRING)) /\ 1 \in DOMAIN tags /\ e \in Seq(STRING)
  <2>1. service \in Seq(Seq(Seq(STRING))) /\ Len(service) >= 2
    BY <1>1, <1>3 DEF Lists
  <2> HIDE DEF service
  <2>2. service # <<>> /\ tags \in Seq(Seq(STRING))
    BY <2>1
  <2>3. tags # <<>>
    BY <1>3 DEF service
  <2> HIDE DEF tags
  <2> QED BY <2>1, <2>2, <2>3
<1>5. EndsWith(Folded(handle), <<"-">> \o Folded(e))
  <2> HIDE DEF e
  <2>1. SameIgnoringCase(e, tag)
    BY <1>3 DEF e
  <2>2. handle \in Seq(STRING)
    BY <1>1 DEF IsPlain
  <2> QED BY <1>2, <1>4, <2>1, <2>2, AfterLastEnds
<1>6. e \in SE!ToSet(tags)
  BY <1>4 DEF SE!ToSet
<1> HIDE DEF e
<1>7. e \in Serves(service)
  BY <1>5, <1>6 DEF Serves
<1>8. \A f : ~IsCloser(f, e)
  BY DEF IsCloser, RegistryOf
<1>9. ClosestAt(s)
  BY <1>2, <1>3, <1>4, <1>7, <1>8 DEF ClosestAt
<1> QED BY <1>9

(* The URL begins with one of the service's, with https if one has it.     *)
LEMMA FromList ==
  ASSUME Asked, IsAsked, NEW s \in DOMAIN List, ClosestAt(s)
  PROVE  LET list == List[s][Len(List[s])]
         IN \E u \in SE!ToSet(list) :
              /\ StartsWith(url, TrimEnd(u, {"/"}) \o <<"/">>)
              /\ u[1] = "https://" \/ \A v \in SE!ToSet(list) : v[1] # "https://"
<1> DEFINE list == List[s][Len(List[s])]
           base == BaseUrl(query, List)
           path == QueryPath(query)
<1>1. /\ ~IsError(base) /\ url = QueryUrl(query, base.url) /\ query.type \in AskedTypes
      /\ List \in Lists /\ List[s] # <<>> /\ QueryUrls(query, List) = Urls(list)
      /\ \A i \in DOMAIN list : list[i] # <<>>
  BY AskedIs DEF ClosestAt, UrlsOf
<1>2. list \in Seq(Seq(STRING))
  <2> DEFINE service == List[s]
  <2>1. service \in Seq(Seq(Seq(STRING))) /\ service # <<>>
    BY <1>1 DEF Lists
  <2> HIDE DEF service
  <2>2. service[Len(service)] \in Seq(Seq(STRING))
    BY <2>1
  <2> QED BY <2>2 DEF service
<1> HIDE DEF list
<1>3. list # <<>> /\ base.url = PreferredUrl(list)
  BY <1>1 DEF BaseUrl, Urls, IsError, RegistryError
<1>4. PICK i \in DOMAIN list :
        /\ PreferredUrl(list) = list[i]
        /\ list[i][1] = "https://" \/ \A j \in DOMAIN list : list[j][1] # "https://"
  BY <1>1, <1>2, <1>3, Preferred
<1> DEFINE u == list[i]
           start == TrimEnd(u, {"/"}) \o <<"/">>
<1>5. u \in SE!ToSet(list) /\ (u[1] = "https://" \/ \A v \in SE!ToSet(list) : v[1] # "https://")
  BY <1>4 DEF SE!ToSet
<1>6. url = start \o path
  BY <1>1, <1>3, <1>4 DEF QueryUrl, AskedTypes
<1>7. path \in Seq(Tokens)
  BY Reaches DEF AtPath
<1>8. start \in Seq(Tokens)
  <2> DEFINE trimmed == TrimEnd(u, {"/"})
             slash == <<"/">>
  <2>1. trimmed \in Seq(STRING)
    BY <1>2, TrimEndIs
  <2> HIDE DEF trimmed
  <2>2. trimmed \in Seq(Tokens) /\ slash \in Seq(Tokens)
    BY <2>1 DEF Tokens
  <2> HIDE DEF slash
  <2>3. trimmed \o slash \in Seq(Tokens)
    BY <2>2
  <2> QED BY <2>3 DEF trimmed, slash
<1> HIDE DEF start, path
<1>9. StartsWith(url, start)
  BY <1>6, <1>7, <1>8, PrefixOfConcat
<1> QED BY <1>5, <1>9 DEF list, start

(* The server is the right one.                                            *)
LEMMA RightlyServed ==
  ASSUME Asked
  PROVE  RightServer
<1> SUFFICES ASSUME IsAsked, LabelsDecide PROVE RightServer
  BY DEF RightServer
<1> DEFINE services == SE!ToSet(List)
<1>1. PICK s \in DOMAIN List : ClosestAt(s)
  <2>1. query.type \in AskedTypes
    BY AskedIs
  <2> QED BY <2>1, NamesServed, NetworksServed, NumbersServed, HandlesServed DEF AskedTypes
<1>2. List[s] \in services
  BY DEF SE!ToSet
<1>3. LET list == List[s][Len(List[s])]
      IN \E u \in SE!ToSet(list) :
           /\ StartsWith(url, TrimEnd(u, {"/"}) \o <<"/">>)
           /\ u[1] = "https://" \/ \A v \in SE!ToSet(list) : v[1] # "https://"
  BY <1>1, FromList
<1>4. \E e \in Serves(List[s]) : \A other \in services : ~\E f \in Serves(other) : IsCloser(f, e)
  BY <1>1 DEF ClosestAt, SE!ToSet
<1> QED BY <1>2, <1>3, <1>4 DEF RightServer, List

(* The server that is tested is one that IANA lists for the query, the one *)
(* of the closest entry of the registry: get_dns_bootstrap_urls and its    *)
(* siblings, get_preferred_url and query_url together, for all registries, *)
(* but for a name whose longest listed end begins within a label.          *)
THEOREM ServerIsRight == Spec => []RightServer
<1>1. Asked => RightServer
  BY RightlyServed
<1> QED BY <1>1, Asks, PTL

---------------------------------------------------------------------------
(* The objects of an answer: the walks of the checks and of the property   *)

(* A claim about the numbers up to n is true of all when it is of 0 and     *)
(* passes from each to the next: there is no least one it is false of.     *)
LEMMA NoLeast ==
  ASSUME NEW Fails, Fails \subseteq Nat, 0 \notin Fails,
         \A n \in Nat : n + 1 \in Fails => n \in Fails
  PROVE  Fails = {}
<1> SUFFICES ASSUME Fails # {} PROVE FALSE
  OBVIOUS
<1>1. PICK n \in Fails : \A m \in Fails : ~(<<m, n>> \in OpToRel(<, Nat))
  BY WFMin, NatLessThanWellFounded
<1>2. n \in Nat /\ n # 0
  OBVIOUS
<1>3. n - 1 \in Nat /\ (n - 1) + 1 = n /\ n - 1 < n
  BY <1>2
<1>4. n - 1 \in Fails
  BY <1>2, <1>3
<1>5. <<n - 1, n>> \in OpToRel(<, Nat)
  BY <1>2, <1>3 DEF OpToRel
<1> QED BY <1>1, <1>4, <1>5

(* The entities of some objects, those in these, and so on: level by level,*)
(* as many as there may be.                                                *)
InThem(entities) == UNION {Elements(entity, "entities") : entity \in entities}
IsLevels(level, first, m) == level = [n \in 1..m |-> IF n = 1 THEN first ELSE InThem(level[n - 1])]

LEMMA LevelsAre ==
  ASSUME NEW first, NEW m \in Nat
  PROVE  \E level : IsLevels(level, first, m)
<1> DEFINE Fails == {n \in Nat : ~\E level : IsLevels(level, first, n)}
<1>1. 0 \notin Fails
  <2>1. IsLevels([n \in 1..0 |-> first], first, 0)
    BY DEF IsLevels
  <2> QED BY <2>1
<1>2. ASSUME NEW n \in Nat, n \notin Fails PROVE n + 1 \notin Fails
  <2>1. PICK level : IsLevels(level, first, n)
    BY <1>2
  <2> DEFINE next == [k \in 1..(n + 1) |-> IF k = 1 THEN first ELSE InThem(level[k - 1])]
  <2>2. ASSUME NEW k \in 1..(n + 1), k # 1 PROVE next[k - 1] = level[k - 1]
    <3>1. k - 1 \in 1..n /\ k - 1 \in 1..(n + 1)
      BY <2>2
    <3>2. level[k - 1] = IF k - 1 = 1 THEN first ELSE InThem(level[(k - 1) - 1])
      BY <2>1, <3>1 DEF IsLevels
    <3>3. next[k - 1] = IF k - 1 = 1 THEN first ELSE InThem(level[(k - 1) - 1])
      BY <3>1
    <3> QED BY <3>2, <3>3
  <2>3. IsLevels(next, first, n + 1)
    BY <2>2 DEF IsLevels
  <2> QED BY <2>3
<1>3. Fails = {}
  <2> HIDE DEF Fails
  <2>1. Fails \subseteq Nat
    BY DEF Fails
  <2> QED BY <1>1, <1>2, <2>1, NoLeast
<1> QED BY <1>3

(* The entities in an object that a walk comes to.                         *)
LEMMA NestedAre ==
  ASSUME NEW json
  PROVE  \E level : /\ IsLevels(level, Elements(json, "entities"), MaxNesting)
                    /\ NestedEntities(json) = UNION {level[n] : n \in 1..MaxNesting}
<1> DEFINE first == Elements(json, "entities")
           level == CHOOSE level : level = [n \in 1..MaxNesting |-> IF n = 1 THEN first
                       ELSE UNION {Elements(entity, "entities") : entity \in level[n - 1]}]
<1>1. IsLevels(level, first, MaxNesting)
  <2> HIDE DEF first
  <2>1. \E levels : IsLevels(levels, first, MaxNesting)
    BY LevelsAre, NestingAssumption
  <2> QED BY <2>1 DEF IsLevels, InThem
<1>2. NestedEntities(json) = UNION {level[n] : n \in 1..MaxNesting}
  BY DEF NestedEntities
<1> QED BY <1>1, <1>2
(* What a walk of the property comes to is a top or is nested in one.      *)
LEMMA ObjectsAre ==
  ASSUME NEW json, NEW o \in ObjectsIn(json)
  PROVE  \/ o \in Tops(json)
         \/ \E top \in Tops(json) : \E e \in NestedEntities(top[2]) : o = <<"entity", e>>
<1> DEFINE tops == Tops(json)
           first == UNION {Elements(top[2], "entities") : top \in tops}
           IsDeep(deep) == deep = [n \in 0..MaxNesting |->
             IF n = 0 THEN tops
             ELSE {<<"entity", e>> : e \in UNION {Elements(x[2], "entities") : x \in deep[n - 1]}}]
           deep == CHOOSE deep : IsDeep(deep)
<1>1. ObjectsIn(json) = UNION {deep[n] : n \in 0..MaxNesting}
  BY DEF ObjectsIn
<1>2. MaxNesting \in Nat
  BY NestingAssumption
<1> HIDE DEF tops
<1>3. \E d : IsDeep(d)
  <2> HIDE DEF first
  <2>1. PICK level : IsLevels(level, first, MaxNesting)
    BY <1>2, LevelsAre
  <2> DEFINE d == [n \in 0..MaxNesting |-> IF n = 0 THEN tops ELSE {<<"entity", e>> : e \in level[n]}]
  <2>2. ASSUME NEW n \in 0..MaxNesting, n # 0
        PROVE  level[n] = UNION {Elements(x[2], "entities") : x \in d[n - 1]}
    <3>1. n \in 1..MaxNesting /\ n - 1 \in 0..MaxNesting
      BY <1>2, <2>2
    <3>2. level[n] = IF n = 1 THEN first ELSE InThem(level[n - 1])
      BY <2>1, <3>1 DEF IsLevels
    <3>3. CASE n = 1
      <4>1. d[n - 1] = tops
        BY <3>1, <3>3
      <4> HIDE DEF d
      <4> QED BY <3>2, <3>3, <4>1 DEF first
    <3>4. CASE n # 1
      <4>1. n - 1 # 0
        BY <3>1, <3>4
      <4>2. d[n - 1] = {<<"entity", e>> : e \in level[n - 1]}
        BY <3>1, <4>1
      <4> DEFINE entities == level[n - 1]
                 pairs == {<<"entity", e>> : e \in entities}
                 of(x) == Elements(x, "entities")
      <4>3. UNION {of(x[2]) : x \in pairs} = UNION {of(e) : e \in entities}
        <5> HIDE DEF of, entities
        <5>1. \A e \in entities : <<"entity", e>> \in pairs /\ <<"entity", e>>[2] = e
          OBVIOUS
        <5>2. \A x \in pairs : x[2] \in entities
          OBVIOUS
        <5> HIDE DEF pairs
        <5> QED BY <5>1, <5>2
      <4> HIDE DEF d
      <4> QED BY <3>2, <3>4, <4>2, <4>3 DEF InThem
    <3> QED BY <3>3, <3>4
  <2>3. IsDeep(d)
    <3> DEFINE under(n) == UNION {Elements(x[2], "entities") : x \in d[n - 1]}
    <3>1. \A n \in 0..MaxNesting : n # 0 => level[n] = under(n)
      BY <2>2
    <3> HIDE DEF under
    <3>2. d = [n \in 0..MaxNesting |-> IF n = 0 THEN tops ELSE {<<"entity", e>> : e \in under(n)}]
      BY <3>1
    <3> QED BY <3>2 DEF under
  <2> QED BY <2>3
<1>4. IsDeep(deep)
  <2> HIDE DEF IsDeep
  <2> QED BY <1>3
<1> HIDE DEF deep
<1> DEFINE IsAt(x, n, level) == \E e \in level[n] : x = <<"entity", e>>
           Chosen(top) == CHOOSE level :
             /\ IsLevels(level, Elements(top[2], "entities"), MaxNesting)
             /\ NestedEntities(top[2]) = UNION {level[k] : k \in 1..MaxNesting}
<1>5. \A top : /\ IsLevels(Chosen(top), Elements(top[2], "entities"), MaxNesting)
               /\ NestedEntities(top[2]) = UNION {Chosen(top)[k] : k \in 1..MaxNesting}
  BY NestedAre
<1> HIDE DEF Chosen
<1>6. \A n \in 1..MaxNesting : \A x \in deep[n] : \E top \in tops : IsAt(x, n, Chosen(top))
  <2> DEFINE Fails == {m \in Nat : /\ m + 1 \in 1..MaxNesting
                                   /\ \E x \in deep[m + 1] : \A top \in tops : ~IsAt(x, m + 1, Chosen(top))}
  <2> HIDE DEF IsAt
  <2>1. ASSUME NEW n \in 1..MaxNesting, NEW x \in deep[n]
        PROVE  \E y \in deep[n - 1] : \E e \in Elements(y[2], "entities") : x = <<"entity", e>>
    <3>1. n \in 0..MaxNesting /\ n # 0
      BY <1>2
    <3>2. deep[n] = {<<"entity", e>> : e \in UNION {Elements(y[2], "entities") : y \in deep[n - 1]}}
      BY <1>4, <3>1
    <3>3. PICK e \in UNION {Elements(y[2], "entities") : y \in deep[n - 1]} : x = <<"entity", e>>
      BY <3>2
    <3>4. PICK y \in deep[n - 1] : e \in Elements(y[2], "entities")
      BY <3>3
    <3> QED BY <3>3, <3>4
  <2>2. 0 \notin Fails
    <3> SUFFICES ASSUME 1 \in 1..MaxNesting, NEW x \in deep[1]
                 PROVE  \E top \in tops : IsAt(x, 1, Chosen(top))
      OBVIOUS
    <3>1. deep[0] = tops
      BY <1>2, <1>4
    <3>2. PICK y \in deep[1 - 1] : \E e \in Elements(y[2], "entities") : x = <<"entity", e>>
      BY <2>1
    <3>3. y \in tops
      BY <3>1, <3>2
    <3>4. Chosen(y)[1] = Elements(y[2], "entities")
      BY <1>5 DEF IsLevels
    <3> QED BY <3>2, <3>3, <3>4 DEF IsAt
  <2>3. ASSUME NEW m \in Nat, m \notin Fails PROVE m + 1 \notin Fails
    <3> DEFINE n == m + 1
               q == n + 1
    <3> SUFFICES ASSUME q \in 1..MaxNesting, NEW x \in deep[q]
                 PROVE  \E top \in tops : IsAt(x, q, Chosen(top))
      OBVIOUS
    <3>1. n \in 1..MaxNesting /\ q - 1 = n /\ q # 1
      BY <1>2
    <3>2. PICK y \in deep[n] : \E e \in Elements(y[2], "entities") : x = <<"entity", e>>
      BY <2>1, <3>1
    <3>3. PICK top \in tops : IsAt(y, n, Chosen(top))
      BY <2>3, <3>1, <3>2
    <3>4. PICK e \in Chosen(top)[n] : y = <<"entity", e>>
      BY <3>3 DEF IsAt
    <3>5. PICK f \in Elements(e, "entities") : x = <<"entity", f>>
      BY <3>2, <3>4
    <3>6. Chosen(top)[q] = InThem(Chosen(top)[n])
      <4> HIDE DEF n, q
      <4>1. IsLevels(Chosen(top), Elements(top[2], "entities"), MaxNesting)
        BY <1>5
      <4> QED BY <3>1, <4>1 DEF IsLevels
    <3>7. f \in Chosen(top)[q]
      <4> HIDE DEF n, q
      <4> QED BY <3>4, <3>5, <3>6 DEF InThem
    <3> QED BY <3>5, <3>7 DEF IsAt
  <2>4. Fails = {}
    <3>1. Fails \subseteq Nat
      OBVIOUS
    <3> HIDE DEF Fails
    <3> QED BY <2>2, <2>3, <3>1, NoLeast
  <2> SUFFICES ASSUME NEW n \in 1..MaxNesting, NEW x \in deep[n]
               PROVE  \E top \in tops : IsAt(x, n, Chosen(top))
    OBVIOUS
  <2>5. n - 1 \in Nat /\ (n - 1) + 1 = n
    BY <1>2
  <2>6. n - 1 \notin Fails
    BY <2>4
  <2> QED BY <2>5, <2>6
<1>7. PICK n \in 0..MaxNesting : o \in deep[n]
  BY <1>1
<1>8. CASE n = 0
  BY <1>2, <1>4, <1>7, <1>8 DEF tops
<1>9. CASE n # 0
  <2>1. n \in 1..MaxNesting
    BY <1>2, <1>9
  <2>2. PICK top \in tops : IsAt(o, n, Chosen(top))
    BY <1>6, <1>7, <2>1
  <2>3. PICK e \in Chosen(top)[n] : o = <<"entity", e>>
    BY <2>2
  <2>4. e \in NestedEntities(top[2])
    BY <1>5, <2>1
  <2> QED BY <2>2, <2>3, <2>4 DEF tops
<1> QED BY <1>8, <1>9
---------------------------------------------------------------------------
(* What the checks find of an object                                       *)

(* An object that is the whole of a response has its own members but those *)
(* that tell what it is and where it stands.                               *)
Telltale == {"entities", "rdapConformance", "objectClassName"}
Agree(a, b) == \A m : m \notin Telltale => /\ m \in DOMAIN a <=> m \in DOMAIN b
                                           /\ m \in DOMAIN b => a[m] = b[m]

LEMMA ReadAlike ==
  ASSUME NEW a, NEW b, Agree(a, b), NEW m, m \notin Telltale
  PROVE  /\ Has(a, m) <=> Has(b, m)
         /\ Has(b, m) => a[m] = b[m]
         /\ Elements(a, m) = Elements(b, m)
         /\ \A check : Missing(a, m, check) = Missing(b, m, check)
         /\ \A check : Blank(a, m, check) = Blank(b, m, check)
<1>1. /\ Has(a, m) <=> Has(b, m)
      /\ Has(b, m) => a[m] = b[m]
  BY DEF Agree, Has
<1>2. CASE Has(b, m)
  BY <1>1, <1>2 DEF Elements, Missing, Blank, When
<1>3. CASE ~Has(b, m)
  BY <1>1, <1>3 DEF Elements, Missing, Blank, When
<1> QED BY <1>1, <1>2, <1>3

LEMMA WholeIs ==
  ASSUME NEW class, NEW object
  PROVE  LET whole == Whole(class, object)
         IN /\ Agree(whole, object)
            /\ Class(whole) = class
            /\ ~Has(whole, "entities")
            /\ Has(whole, "rdapConformance")
            /\ Has(object, "rdapConformance") => whole.rdapConformance = object.rdapConformance
            /\ ~Has(object, "rdapConformance") => whole.rdapConformance = <<"rdap_level_0">>
<1> DEFINE whole == Whole(class, object)
           members == (DOMAIN object \ {"entities"}) \union {"rdapConformance", "objectClassName"}
<1>1. DOMAIN whole = members
  BY DEF Whole
<1>2. whole.objectClassName = class
  BY DEF Whole
<1>3. /\ Has(object, "rdapConformance") => whole.rdapConformance = object.rdapConformance
      /\ ~Has(object, "rdapConformance") => whole.rdapConformance = <<"rdap_level_0">>
  BY DEF Whole, Has
<1>4. \A m \in members : m \notin Telltale => whole[m] = object[m]
  BY DEF Whole, Telltale
<1> HIDE DEF whole
<1>5. Agree(whole, object)
  BY <1>1, <1>4 DEF Agree, Telltale
<1>6. Class(whole) = class
  <2> DEFINE IsFirst(i) == /\ i \in DOMAIN Telling /\ Has(whole, Telling[i])
                           /\ \A j \in 1..(i - 1) : ~Has(whole, Telling[j])
             first == CHOOSE i \in DOMAIN Telling :
                        Has(whole, Telling[i]) /\ \A j \in 1..(i - 1) : ~Has(whole, Telling[j])
  <2>1. Telling[1] = "objectClassName" /\ DOMAIN Telling = 1..6
    BY DEF Telling
  <2>2. Has(whole, Telling[1])
    BY <1>1, <2>1 DEF Has
  <2>3. IsFirst(1)
    BY <2>1, <2>2
  <2>4. IsFirst(first)
    BY <2>3
  <2> HIDE DEF first
  <2>5. first = 1
    BY <2>1, <2>2, <2>4
  <2> QED BY <1>2, <2>1, <2>5 DEF Class, first
<1> QED BY <1>1, <1>3, <1>5, <1>6 DEF Has, whole

(* The links and the notes of an object.  A link that leads somewhere else *)
(* may be found to have no "self" beside it: that is for the parent to say.*)
Where(root, parent, allow) == [root |-> root, parent |-> parent, allow |-> allow]

LEMMA LinksFound ==
  ASSUME NEW a, NEW b, Agree(a, b), NEW root, NEW other, NEW parent, NEW allow
  PROVE  LinksChecks(a, Where(root, parent, allow))
           \subseteq LinksChecks(b, Where(other, parent, allow)) \union {"LinkObjectClassHasNoSelf"}
<1>1. \A link : LinkChecks(link, Where(root, parent, allow))
                  \subseteq LinkChecks(link, Where(other, parent, allow)) \union {"LinkObjectClassHasNoSelf"}
  <2> TAKE link
  <2>1. RelChecks(link, Where(root, parent, allow))
          \subseteq RelChecks(link, Where(other, parent, allow)) \union {"LinkObjectClassHasNoSelf"}
    BY DEF RelChecks, Where, When
  <2> QED BY <2>1 DEF LinkChecks
<1>2. Elements(a, "links") = Elements(b, "links")
  BY ReadAlike DEF Telltale
<1> QED BY <1>1, <1>2 DEF LinksChecks

LEMMA NotesFound ==
  ASSUME NEW note, NEW root, NEW parent, NEW other, NEW elsewhere, NEW allow
  PROVE  NoteChecks(note, Where(root, parent, allow)) = NoteChecks(note, Where(other, elsewhere, allow))
<1> DEFINE p == Where(root, "NoticeOrRemark", allow)
           q == Where(other, "NoticeOrRemark", allow)
<1>1. /\ FromParent(Where(root, parent, allow), "NoticeOrRemark") = p
      /\ FromParent(Where(other, elsewhere, allow), "NoticeOrRemark") = q
  BY DEF FromParent, Where
<1>2. \A link : RelChecks(link, p) = RelChecks(link, q)
  BY DEF RelChecks, Where, When, WithSelfLinks
<1> HIDE DEF p, q
<1>3. \A link : LinkChecks(link, p) = LinkChecks(link, q)
  BY <1>2 DEF LinkChecks
<1>4. LinksChecks(note, p) = LinksChecks(note, q)
  BY <1>3 DEF LinksChecks
<1> QED BY <1>1, <1>4 DEF NoteChecks

LEMMA PartsFound ==
  ASSUME NEW class, NEW object, NEW root, NEW parent, NEW allow
  PROVE  LET whole == Whole(class, object)
         IN /\ CommonChecks(whole, Where(class, class, allow)) \subseteq CommonChecks(object, Where(root, parent, allow))
            /\ ObjectChecks(whole, Where(class, parent, allow))
                 \subseteq ObjectChecks(object, Where(root, parent, allow)) \union {"LinkObjectClassHasNoSelf"}
<1> DEFINE whole == Whole(class, object)
<1>1. /\ Agree(whole, object) /\ Has(whole, "rdapConformance")
      /\ Has(object, "rdapConformance") => whole.rdapConformance = object.rdapConformance
      /\ ~Has(object, "rdapConformance") => whole.rdapConformance = <<"rdap_level_0">>
  BY WholeIs
<1> HIDE DEF whole
<1>2. \A m : m \notin Telltale => /\ Has(whole, m) <=> Has(object, m)
                                  /\ Has(object, m) => whole[m] = object[m]
                                  /\ Elements(whole, m) = Elements(object, m)
                                  /\ \A check : Blank(whole, m, check) = Blank(object, m, check)
  BY <1>1, ReadAlike
<1>3. CommonChecks(whole, Where(class, class, allow)) \subseteq CommonChecks(object, Where(root, parent, allow))
  <2> DEFINE p == Where(class, class, allow)
             q == Where(root, parent, allow)
  <2>1. /\ p.parent = p.root /\ p.allow = allow /\ q.allow = allow
    BY DEF Where
  <2>2. \A note : NoteChecks(note, p) = NoteChecks(note, q)
    BY NotesFound
  <2> HIDE DEF p, q
  <2>3. Elements(whole, "notices") = Elements(object, "notices")
    BY <1>2 DEF Telltale
  <2>4. NotesChecks(whole, "notices", p) = NotesChecks(object, "notices", q)
    BY <2>2, <2>3 DEF NotesChecks
  <2>5. CommonChecks(whole, p) = ConformanceChecks(whole.rdapConformance, p)
          \union NotesChecks(whole, "notices", p)
    BY <1>1, <2>1 DEF CommonChecks, When
  <2>6. ConformanceChecks(whole.rdapConformance, p)
          \subseteq (IF Has(object, "rdapConformance")
                     THEN ConformanceChecks(object.rdapConformance, q) ELSE {})
    <3>1. SE!ToSet(<<"rdap_level_0">>) \subseteq ExtensionId
      BY DEF SE!ToSet, ExtensionId
    <3>2. CASE Has(object, "rdapConformance")
      BY <1>1, <2>1, <3>2 DEF ConformanceChecks, When
    <3>3. CASE ~Has(object, "rdapConformance")
      BY <1>1, <2>1, <3>1, <3>3 DEF ConformanceChecks, When
    <3> QED BY <3>2, <3>3
  <2>7. CommonChecks(whole, p) \subseteq CommonChecks(object, q)
    BY <2>4, <2>5, <2>6 DEF CommonChecks
  <2> QED BY <2>7 DEF p, q
<1>4. ObjectChecks(whole, Where(class, parent, allow))
        \subseteq ObjectChecks(object, Where(root, parent, allow)) \union {"LinkObjectClassHasNoSelf"}
  <2> DEFINE p == Where(class, parent, allow)
             q == Where(root, parent, allow)
  <2>1. LinksChecks(whole, p) \subseteq LinksChecks(object, q) \union {"LinkObjectClassHasNoSelf"}
    BY <1>1, LinksFound
  <2>2. \A note : NoteChecks(note, p) = NoteChecks(note, q)
    BY NotesFound
  <2> HIDE DEF p, q
  <2>3. NotesChecks(whole, "remarks", p) = NotesChecks(object, "remarks", q)
    <3>1. Elements(whole, "remarks") = Elements(object, "remarks")
      BY <1>2 DEF Telltale
    <3> QED BY <2>2, <3>1 DEF NotesChecks
  <2>4. EventsChecks(whole) = EventsChecks(object)
    <3>1. Elements(whole, "events") = Elements(object, "events")
      BY <1>2 DEF Telltale
    <3> QED BY <3>1 DEF EventsChecks
  <2>5. /\ Blank(whole, "handle", "HandleIsEmpty") = Blank(object, "handle", "HandleIsEmpty")
        /\ Blank(whole, "port43", "Port43IsEmpty") = Blank(object, "port43", "Port43IsEmpty")
        /\ When(Has(whole, "status") /\ AnyBlank(whole.status), "StatusIsEmpty")
             = When(Has(object, "status") /\ AnyBlank(object.status), "StatusIsEmpty")
    BY <1>2 DEF Telltale
  <2>6. \A condition : When(condition, "LinkObjectClassHasNoSelf") \subseteq {"LinkObjectClassHasNoSelf"}
    BY DEF When
  <2>7. ObjectChecks(whole, p) \subseteq ObjectChecks(object, q) \union {"LinkObjectClassHasNoSelf"}
    BY <2>1, <2>3, <2>4, <2>5, <2>6 DEF ObjectChecks
  <2> QED BY <2>7 DEF p, q
<1> QED BY <1>3, <1>4 DEF whole

(* Without entities there are none in it.                                  *)
LEMMA NoneNested ==
  ASSUME NEW json, ~Has(json, "entities")
  PROVE  NestedEntities(json) = {}
<1>1. PICK level : /\ IsLevels(level, Elements(json, "entities"), MaxNesting)
                   /\ NestedEntities(json) = UNION {level[n] : n \in 1..MaxNesting}
  BY NestedAre
<1>2. Elements(json, "entities") = {}
  BY DEF Elements
<1> DEFINE Fails == {n \in Nat : n + 1 \in 1..MaxNesting /\ level[n + 1] # {}}
<1>3. 0 \notin Fails
  BY <1>1, <1>2 DEF IsLevels
<1>4. ASSUME NEW n \in Nat, n \notin Fails PROVE n + 1 \notin Fails
  <2> SUFFICES ASSUME n + 2 \in 1..MaxNesting PROVE level[n + 2] = {}
    <3>1. (n + 1) + 1 = n + 2
      OBVIOUS
    <3> QED BY <3>1
  <2>1. n + 1 \in 1..MaxNesting /\ n + 2 # 1 /\ (n + 2) - 1 = n + 1
    BY NestingAssumption
  <2>2. level[n + 1] = {}
    BY <1>4, <2>1
  <2> DEFINE k == n + 1
             m == n + 2
  <2>3. level[m] = InThem(level[k])
    <3>1. m \in 1..MaxNesting /\ m # 1 /\ m - 1 = k
      BY <2>1
    <3> HIDE DEF k, m
    <3> QED BY <1>1, <3>1 DEF IsLevels
  <2> HIDE DEF k, m
  <2>4. level[k] = {}
    BY <2>2 DEF k
  <2>5. level[m] = {}
    BY <2>3, <2>4 DEF InThem
  <2> QED BY <2>5 DEF m
<1>5. Fails = {}
  <2>1. Fails \subseteq Nat
    OBVIOUS
  <2> HIDE DEF Fails
  <2> QED BY <1>3, <1>4, <2>1, NoLeast
<1>6. ASSUME NEW n \in 1..MaxNesting PROVE level[n] = {}
  <2>1. n - 1 \in Nat /\ (n - 1) + 1 = n
    BY NestingAssumption
  <2>2. n - 1 \notin Fails
    BY <1>5
  <2> QED BY <2>1, <2>2
<1> QED BY <1>1, <1>6

(* What an object has that its class alone is checked for is read alike.   *)
LEMMA EntityAlike ==
  ASSUME NEW a, NEW b, Agree(a, b)
  PROVE  PublicIdChecks(a) = PublicIdChecks(b) /\ EntityPartChecks(a) = EntityPartChecks(b)
<1>1. \A m : m \notin Telltale => /\ Has(a, m) <=> Has(b, m)
                                  /\ Has(b, m) => a[m] = b[m]
                                  /\ Elements(a, m) = Elements(b, m)
  BY ReadAlike
<1>2. PublicIdChecks(a) = PublicIdChecks(b)
  BY <1>1 DEF PublicIdChecks, Telltale
<1>3. /\ Has(a, "roles") <=> Has(b, "roles")
      /\ Has(b, "roles") => a.roles = b.roles
      /\ Has(a, "vcardArray") <=> Has(b, "vcardArray")
      /\ Has(b, "vcardArray") => a.vcardArray = b.vcardArray
  BY <1>1 DEF Telltale
<1>4. /\ (IF Has(a, "roles") THEN RoleChecks(a.roles) ELSE {})
           = (IF Has(b, "roles") THEN RoleChecks(b.roles) ELSE {})
      /\ (IF Has(a, "vcardArray") THEN VcardChecks(a.vcardArray) ELSE {})
           = (IF Has(b, "vcardArray") THEN VcardChecks(b.vcardArray) ELSE {})
  BY <1>3
<1> QED BY <1>2, <1>4 DEF EntityPartChecks

LEMMA DomainAlike ==
  ASSUME NEW a, NEW b, Agree(a, b), NEW p, NEW q
  PROVE  DomainChecks(a, p) \subseteq SubChecks(a, FromParent(p, "domain")) \union DomainChecks(b, q)
<1>1. \A m : m \notin Telltale => /\ Has(a, m) <=> Has(b, m)
                                  /\ Has(b, m) => a[m] = b[m]
                                  /\ Elements(a, m) = Elements(b, m)
  BY ReadAlike
<1>2. /\ Has(a, "ldhName") <=> Has(b, "ldhName")
      /\ Has(b, "ldhName") => a.ldhName = b.ldhName
      /\ Has(a, "unicodeName") <=> Has(b, "unicodeName")
      /\ Has(b, "unicodeName") => a.unicodeName = b.unicodeName
      /\ Elements(a, "variants") = Elements(b, "variants")
  BY <1>1 DEF Telltale
<1>3. PublicIdChecks(a) = PublicIdChecks(b)
  BY EntityAlike
<1>4. (IF Has(a, "unicodeName") THEN UnicodeNameChecks(a.unicodeName) ELSE {})
        = (IF Has(b, "unicodeName") THEN UnicodeNameChecks(b.unicodeName) ELSE {})
  BY <1>2
<1>5. (IF Has(a, "ldhName") THEN LdhNameChecks(a) ELSE {})
        = (IF Has(b, "ldhName") THEN LdhNameChecks(b) ELSE {})
  <2>1. ASSUME Has(b, "ldhName") PROVE LdhNameChecks(a) = LdhNameChecks(b)
    <3>1. CASE Has(b, "unicodeName")
      <4>1. a.ldhName = b.ldhName /\ a.unicodeName = b.unicodeName /\ Has(a, "unicodeName")
        BY <1>2, <2>1, <3>1
      <4> QED BY <3>1, <4>1 DEF LdhNameChecks
    <3>2. CASE ~Has(b, "unicodeName")
      <4>1. a.ldhName = b.ldhName /\ ~Has(a, "unicodeName")
        BY <1>2, <2>1, <3>2
      <4> QED BY <3>2, <4>1 DEF LdhNameChecks
    <3> QED BY <3>1, <3>2
  <2> QED BY <1>2, <2>1
<1> DEFINE blank(json) == \E variant \in Elements(json, "variants") :
                            DOMAIN variant \intersect {"relation", "idnTable", "variantNames"} = {}
<1>6. When(blank(a), "VariantEmptyDomain") = When(blank(b), "VariantEmptyDomain")
  <2>1. blank(a) <=> blank(b)
    BY <1>2
  <2> HIDE DEF blank
  <2> QED BY <2>1 DEF When
<1>7. ASSUME NEW check \in DomainChecks(a, p)
      PROVE  check \in SubChecks(a, FromParent(p, "domain")) \union DomainChecks(b, q)
  BY <1>3, <1>4, <1>5, <1>6 DEF DomainChecks
<1> QED BY <1>7

LEMMA NameserverAlike ==
  ASSUME NEW a, NEW b, Agree(a, b), NEW p, NEW q
  PROVE  NameserverChecks(a, p)
           \subseteq SubChecks(a, FromParent(p, "nameserver")) \union NameserverChecks(b, q)
<1>1. \A m : m \notin Telltale => (Has(a, m) <=> Has(b, m)) /\ (Has(b, m) => a[m] = b[m])
  BY ReadAlike
<1>2. /\ Has(a, "ldhName") <=> Has(b, "ldhName")
      /\ Has(b, "ldhName") => a.ldhName = b.ldhName
      /\ Has(a, "ipAddresses") <=> Has(b, "ipAddresses")
      /\ Has(b, "ipAddresses") => a.ipAddresses = b.ipAddresses
  BY <1>1 DEF Telltale
<1>3. /\ Has(a, "ldhName") /\ ~IsLdhDomainName(a.ldhName) <=> Has(b, "ldhName") /\ ~IsLdhDomainName(b.ldhName)
      /\ (IF Has(a, "ipAddresses")
          THEN IpListChecks(a.ipAddresses, "v4") \union IpListChecks(a.ipAddresses, "v6") ELSE {})
           = (IF Has(b, "ipAddresses")
              THEN IpListChecks(b.ipAddresses, "v4") \union IpListChecks(b.ipAddresses, "v6") ELSE {})
  BY <1>2
<1> QED BY <1>3 DEF NameserverChecks

LEMMA AutnumAlike ==
  ASSUME NEW a, NEW b, Agree(a, b), NEW p, NEW q
  PROVE  AutnumChecks(a, p) \subseteq SubChecks(a, FromParent(p, "autnum")) \union AutnumChecks(b, q)
<1> DEFINE both == {"startAutnum", "endAutnum"}
<1>1. \A m : m \notin Telltale => /\ Has(a, m) <=> Has(b, m)
                                  /\ Has(b, m) => a[m] = b[m]
                                  /\ \A check : Blank(a, m, check) = Blank(b, m, check)
  BY ReadAlike
<1>2. NameAndTypeChecks(a) = NameAndTypeChecks(b)
  BY <1>1 DEF NameAndTypeChecks, Telltale
<1>3. (both \subseteq DOMAIN a) = (both \subseteq DOMAIN b)
  BY <1>1 DEF Telltale, Has
<1>4. both \subseteq DOMAIN b => a.startAutnum = b.startAutnum /\ a.endAutnum = b.endAutnum
  BY <1>1 DEF Telltale, Has
<1>5. CASE both \subseteq DOMAIN b
  BY <1>2, <1>3, <1>4, <1>5 DEF AutnumChecks
<1>6. CASE ~(both \subseteq DOMAIN b)
  BY <1>2, <1>3, <1>6 DEF AutnumChecks
<1> QED BY <1>5, <1>6

LEMMA NetworkAlike ==
  ASSUME NEW a, NEW b, Agree(a, b), NEW p, NEW q
  PROVE  NetworkChecks(a, p) \subseteq SubChecks(a, FromParent(p, "ip network")) \union NetworkChecks(b, q)
<1> DEFINE ends == {"startAddress", "endAddress"} \intersect DOMAIN b
<1>1. \A m : m \notin Telltale => /\ Has(a, m) <=> Has(b, m)
                                  /\ Has(b, m) => a[m] = b[m]
                                  /\ Elements(a, m) = Elements(b, m)
                                  /\ \A check : Blank(a, m, check) = Blank(b, m, check)
  BY ReadAlike
<1>2. NameAndTypeChecks(a) = NameAndTypeChecks(b)
  BY <1>1 DEF NameAndTypeChecks, Telltale
<1>3. /\ {"startAddress", "endAddress"} \intersect DOMAIN a = ends
      /\ \A end \in ends : a[end] = b[end]
  BY <1>1 DEF Telltale, Has
<1>4. Elements(a, "cidr0_cidrs") = Elements(b, "cidr0_cidrs")
  BY <1>1 DEF Telltale
<1>5. \A first, last : RangeChecks(a, first, last) = RangeChecks(b, first, last)
  <2>1. /\ Has(a, "ipVersion") <=> Has(b, "ipVersion")
        /\ Has(b, "ipVersion") => a.ipVersion = b.ipVersion
    BY <1>1 DEF Telltale
  <2> QED BY <2>1 DEF RangeChecks
<1>6. CidrsChecks(a) = CidrsChecks(b)
  BY <1>4 DEF CidrsChecks
<1>7. EndsChecks(a) = EndsChecks(b)
  <2>1. /\ (\E end \in ends : ~IsIp(a[end])) = (\E end \in ends : ~IsIp(b[end]))
        /\ (\A end \in ends : IsIp(a[end])) = (\A end \in ends : IsIp(b[end]))
    BY <1>3
  <2>2. CASE Cardinality(ends) = 2
    <3>1. "startAddress" \in ends /\ "endAddress" \in ends
      <4>1. \/ ends = {} \/ ends = {"startAddress"} \/ ends = {"endAddress"}
            \/ ends = {"startAddress", "endAddress"}
        OBVIOUS
      <4>2. /\ Cardinality({}) = 0
            /\ Cardinality({"startAddress"}) = 1 /\ Cardinality({"endAddress"}) = 1
        BY FS_EmptySet, FS_Singleton
      <4> HIDE DEF ends
      <4> QED BY <2>2, <4>1, <4>2
    <3>2. RangeChecks(a, Ip(a.startAddress), Ip(a.endAddress)) = RangeChecks(b, Ip(b.startAddress), Ip(b.endAddress))
      BY <1>3, <1>5, <3>1
    <3> QED BY <1>3, <2>1, <3>2 DEF EndsChecks
  <2>3. CASE Cardinality(ends) # 2
    BY <1>3, <2>1, <2>3 DEF EndsChecks
  <2> QED BY <2>2, <2>3
<1> QED BY <1>2, <1>6, <1>7 DEF NetworkChecks

(* An object that is a response is found to be what it is found to be where*)
(* it stands, as a top or as an entity that is nested.                     *)
LEMMA WholeFound ==
  ASSUME NEW class \in ObjectClasses, NEW object, NEW root, NEW allow
  PROVE  LET whole == Whole(class, object)
             p == Where(class, class, allow)
             q == Where(root, class, allow)
         IN /\ GetChecks(whole, ForRdap(whole, allow)) = ObjectClassChecks(class, whole, p)
            /\ CommonChecks(whole, p) \subseteq CommonChecks(object, q)
            /\ ObjectChecks(whole, p) \subseteq ObjectChecks(object, q) \union {"LinkObjectClassHasNoSelf"}
            /\ SubChecks(whole, p) = CommonChecks(whole, p) \union ObjectChecks(whole, p)
<1> DEFINE whole == Whole(class, object)
           p == Where(class, class, allow)
           q == Where(root, class, allow)
<1>1. Class(whole) = class /\ ~Has(whole, "entities")
  BY WholeIs
<1>2. /\ CommonChecks(whole, p) \subseteq CommonChecks(object, q)
      /\ ObjectChecks(whole, p) \subseteq ObjectChecks(object, q) \union {"LinkObjectClassHasNoSelf"}
  BY PartsFound
<1> HIDE DEF whole
<1>3. ForRdap(whole, allow) = p
  BY <1>1 DEF ForRdap, Where
<1> HIDE DEF p, q
<1>4. GetChecks(whole, p) = ObjectClassChecks(class, whole, p)
  BY <1>1 DEF GetChecks, ObjectClasses, SearchClasses
<1>5. NestedChecks(whole, p) = {}
  <2>1. NestedEntities(whole) = {}
    BY <1>1, NoneNested
  <2> QED BY <2>1 DEF NestedChecks
<1> QED BY <1>2, <1>3, <1>4, <1>5 DEF SubChecks, whole, p, q

LEMMA TopFound ==
  ASSUME NEW class \in ObjectClasses, NEW object, NEW root, NEW parent, NEW allow
  PROVE  LET whole == Whole(class, object)
         IN GetChecks(whole, ForRdap(whole, allow))
              \subseteq ObjectClassChecks(class, object, Where(root, parent, allow))
                          \union {"LinkObjectClassHasNoSelf"}
<1> DEFINE whole == Whole(class, object)
           p == Where(class, class, allow)
           q == Where(root, parent, allow)
           r == Where(root, class, allow)
<1>1. /\ GetChecks(whole, ForRdap(whole, allow)) = ObjectClassChecks(class, whole, p)
      /\ CommonChecks(whole, p) \subseteq CommonChecks(object, r)
      /\ ObjectChecks(whole, p) \subseteq ObjectChecks(object, r) \union {"LinkObjectClassHasNoSelf"}
      /\ SubChecks(whole, p) = CommonChecks(whole, p) \union ObjectChecks(whole, p)
  BY WholeFound
<1>2. FromParent(p, class) = p /\ FromParent(q, class) = r
  BY DEF FromParent, Where
<1>3. Agree(whole, object)
  BY WholeIs
<1> HIDE DEF whole, p, q, r
<1>4. SubChecks(whole, FromParent(p, class))
        \subseteq SubChecks(object, FromParent(q, class)) \union {"LinkObjectClassHasNoSelf"}
  BY <1>1, <1>2 DEF SubChecks
<1>5. ObjectClassChecks(class, whole, p)
        \subseteq SubChecks(whole, FromParent(p, class)) \union ObjectClassChecks(class, object, q)
  <2>1. CASE class = "domain"
    BY <1>3, <2>1, DomainAlike DEF ObjectClassChecks
  <2>2. CASE class = "entity"
    <3>1. EntityPartChecks(whole) = EntityPartChecks(object)
      BY <1>3, EntityAlike
    <3> QED BY <2>2, <3>1 DEF ObjectClassChecks, EntityChecks
  <2>3. CASE class = "nameserver"
    BY <1>3, <2>3, NameserverAlike DEF ObjectClassChecks
  <2>4. CASE class = "autnum"
    BY <1>3, <2>4, AutnumAlike DEF ObjectClassChecks
  <2>5. CASE class = "ip network"
    BY <1>3, <2>5, NetworkAlike DEF ObjectClassChecks
  <2> QED BY <2>1, <2>2, <2>3, <2>4, <2>5 DEF ObjectClasses
<1>6. SubChecks(object, FromParent(q, class)) \subseteq ObjectClassChecks(class, object, q)
  BY DEF ObjectClasses, ObjectClassChecks, DomainChecks, EntityChecks, NameserverChecks, AutnumChecks,
         NetworkChecks
<1> QED BY <1>1, <1>4, <1>5, <1>6 DEF whole, q

LEMMA NestedFound ==
  ASSUME NEW class \in ObjectClasses, NEW object, NEW entity \in NestedEntities(object),
         NEW root, NEW parent, NEW allow
  PROVE  LET whole == Whole("entity", entity)
         IN GetChecks(whole, ForRdap(whole, allow))
              \subseteq ObjectClassChecks(class, object, Where(root, parent, allow))
                          \union {"LinkObjectClassHasNoSelf"}
<1> DEFINE whole == Whole("entity", entity)
           p == Where("entity", "entity", allow)
           q == Where(root, parent, allow)
           r == Where(root, "entity", allow)
<1>1. /\ GetChecks(whole, ForRdap(whole, allow)) = ObjectClassChecks("entity", whole, p)
      /\ CommonChecks(whole, p) \subseteq CommonChecks(entity, r)
      /\ ObjectChecks(whole, p) \subseteq ObjectChecks(entity, r) \union {"LinkObjectClassHasNoSelf"}
      /\ SubChecks(whole, p) = CommonChecks(whole, p) \union ObjectChecks(whole, p)
  BY WholeFound DEF ObjectClasses
<1>2. FromParent(p, "entity") = p /\ FromParent(FromParent(q, class), "entity") = r
  <2>1. FromParent(q, class) = Where(root, class, allow)
    BY DEF FromParent, Where
  <2>2. FromParent(p, "entity") = p /\ FromParent(Where(root, class, allow), "entity") = r
    BY DEF FromParent, Where
  <2> QED BY <2>1, <2>2
<1>3. EntityPartChecks(whole) = EntityPartChecks(entity)
  BY WholeIs, EntityAlike
<1> HIDE DEF whole, p, q, r
<1>4. GetChecks(whole, ForRdap(whole, allow))
        \subseteq CommonChecks(entity, r) \union ObjectChecks(entity, r) \union EntityPartChecks(entity)
                    \union {"LinkObjectClassHasNoSelf"}
  BY <1>1, <1>2, <1>3 DEF ObjectClassChecks, EntityChecks
<1>5. CommonChecks(entity, r) \union ObjectChecks(entity, r) \union EntityPartChecks(entity)
        \subseteq NestedChecks(object, FromParent(q, class))
  BY <1>2 DEF NestedChecks
<1>6. NestedChecks(object, FromParent(q, class)) \subseteq SubChecks(object, FromParent(q, class))
  BY DEF SubChecks
<1>7. SubChecks(object, FromParent(q, class)) \subseteq ObjectClassChecks(class, object, q)
  BY DEF ObjectClasses, ObjectClassChecks, DomainChecks, EntityChecks, NameserverChecks, AutnumChecks,
         NetworkChecks
<1> QED BY <1>4, <1>5, <1>6, <1>7 DEF whole, q

(* The checks of an answer have those of each of its objects.              *)
LEMMA AloneFound ==
  ASSUME NEW json, NEW o \in ObjectsIn(json)
  PROVE  Alone(o[1], o[2])
           \subseteq GetChecks(json, ForRdap(json, world.unregistered)) \union {"LinkObjectClassHasNoSelf"}
<1> DEFINE allow == world.unregistered
           params == Where(Class(json), Class(json), allow)
<1>1. ForRdap(json, allow) = params
  BY DEF ForRdap, Where
<1>2. ASSUME NEW top \in Tops(json)
      PROVE  /\ top[1] \in ObjectClasses
             /\ ObjectClassChecks(top[1], top[2], params) \subseteq GetChecks(json, params)
  <2> HIDE DEF params
  <2>1. CASE Class(json) \in SearchClasses
    <3>1. PICK result \in Elements(json, Class(json)) : top = <<ResultClass[Class(json)], result>>
      BY <2>1 DEF Tops
    <3>2. ResultClass[Class(json)] \in ObjectClasses /\ Class(json) \notin ObjectClasses
      <4> DEFINE class == Class(json)
      <4>1. class \in SearchClasses
        BY <2>1
      <4> HIDE DEF class
      <4>2. ResultClass[class] \in ObjectClasses /\ class \notin ObjectClasses
        <5>1. CASE class = "domainSearchResults"
          BY <5>1 DEF ResultClass, ObjectClasses
        <5>2. CASE class = "entitySearchResults"
          BY <5>2 DEF ResultClass, ObjectClasses
        <5>3. CASE class = "nameserverSearchResults"
          BY <5>3 DEF ResultClass, ObjectClasses
        <5> QED BY <4>1, <5>1, <5>2, <5>3 DEF SearchClasses
      <4> QED BY <4>2 DEF class
    <3>3. GetChecks(json, params) =
            CommonChecks(json, params)
            \union UNION {ObjectClassChecks(ResultClass[Class(json)], x, params) : x \in Elements(json, Class(json))}
      BY <2>1, <3>2 DEF GetChecks
    <3> QED BY <3>1, <3>2, <3>3
  <2>2. CASE Class(json) \notin SearchClasses
    <3>1. Class(json) \in ObjectClasses /\ top = <<Class(json), json>>
      BY <2>2 DEF Tops
    <3>2. GetChecks(json, params) = ObjectClassChecks(Class(json), json, params)
      BY <3>1 DEF GetChecks, ObjectClasses, SearchClasses
    <3> QED BY <3>1, <3>2
  <2> QED BY <2>1, <2>2
<1>3. CASE o \in Tops(json)
  <2>1. Alone(o[1], o[2])
          \subseteq ObjectClassChecks(o[1], o[2], params) \union {"LinkObjectClassHasNoSelf"}
    BY <1>2, <1>3, TopFound DEF Alone
  <2> QED BY <1>1, <1>2, <1>3, <2>1
<1>4. CASE \E top \in Tops(json) : \E e \in NestedEntities(top[2]) : o = <<"entity", e>>
  <2>1. PICK top \in Tops(json) : \E e \in NestedEntities(top[2]) : o = <<"entity", e>>
    BY <1>4
  <2>2. PICK e \in NestedEntities(top[2]) : o = <<"entity", e>>
    BY <2>1
  <2>3. Alone("entity", e)
          \subseteq ObjectClassChecks(top[1], top[2], params) \union {"LinkObjectClassHasNoSelf"}
    BY <1>2, <2>1, NestedFound DEF Alone
  <2> QED BY <1>1, <1>2, <2>1, <2>2, <2>3
<1> QED BY <1>3, <1>4, ObjectsAre

(* What is found of an object is found of the answer, and an exit code     *)
(* says that no run has it.                                                *)
LEMMA CodeTells ==
  ASSUME TestInv
  PROVE  ExitTells
<1> DEFINE errors == CheckClasses \intersect ErrorClasses
           warnings == CheckClasses \intersect {"StdWarning"}
           classes == IF exit = 0 THEN CheckClasses \intersect (ErrorClasses \union {"StdWarning"}) ELSE errors
<1> SUFFICES ASSUME exit \in {0, 2}, NEW i \in DOMAIN runs, runs[i].outcome = "Tested",
                    NEW o \in ObjectsIn(runs[i].json), NEW check \in Alone(o[1], o[2]),
                    ClassOf(check) \in classes
             PROVE  FALSE
  BY DEF ExitTells, AnyOfClasses
<1>1. check # "LinkObjectClassHasNoSelf"
  <2>1. ClassOf("LinkObjectClassHasNoSelf") = "SpecNote"
    <3> DEFINE noSelf == "LinkObjectClassHasNoSelf"
    <3>1. noSelf \in SpecNotes /\ noSelf \notin StdWarnings \union Infos \union Cidr0Errors \union IcannErrors
      BY DEF SpecNotes, StdWarnings, Infos, Cidr0Errors, IcannErrors
    <3> HIDE DEF noSelf
    <3>2. ClassOf(noSelf) = "SpecNote"
      BY <3>1 DEF ClassOf
    <3> QED BY <3>2 DEF noSelf
  <2>2. classes \subseteq ErrorClasses \union {"StdWarning"}
    OBVIOUS
  <2>3. ClassOf(check) # "SpecNote"
    BY <2>2 DEF ErrorClasses
  <2> QED BY <2>1, <2>3
<1>2. check \in runs[i].checks
  <2>1. i \in 1..AllRuns
    BY DEF TestInv, Plan
  <2>2. ChecksKept(runs[i])
    BY <2>1 DEF TestInv, Findings
  <2>3. GetChecks(runs[i].json, ForRdap(runs[i].json, world.unregistered)) \subseteq runs[i].checks
    BY <2>2 DEF ChecksKept
  <2> QED BY <1>1, <2>3, AloneFound
<1>3. \A some : ClassOf(check) \in some => AreThereChecks(some)
  BY <1>2 DEF AreThereChecks, AnyOfClasses
<1>4. ~AreThereChecks(errors) /\ (exit = 0 => ~AreThereChecks(warnings))
  BY DEF TestInv, Findings
<1> QED BY <1>3, <1>4

(* The exit code tells of every object of every answer what it would tell  *)
(* of the object alone: get_checks and its walks, do_checks, are_there_-   *)
(* checks and the exit code together.                                      *)
THEOREM CodeTellsOfObjects == Spec => []ExitTells
<1>1. TestInv => ExitTells
  BY CodeTells
<1> QED BY <1>1, Tests, PTL

=============================================================================
