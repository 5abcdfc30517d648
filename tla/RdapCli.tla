------------------------------ MODULE RdapCli ------------------------------
(***************************************************************************)
(* Invocations of the command `rdap` (icann-rdap-cli/src/bin/rdap) that    *)
(* share the caches of a user: the registries that IANA publishes          *)
(* (bootstrap.rs, dirs/fcbs.rs, and fetch_bootstrap of the client) and the *)
(* responses of RDAP servers (request.rs).  query.rs says what is asked    *)
(* after what and what is shown; --reset removes the caches.               *)
(*                                                                         *)
(* All invocations ask for one object, which each server has under a URL   *)
(* of its own.  A URL is named by where it comes from: a registry that     *)
(* lists the server, the command line, the backup, IANA's server for top   *)
(* level domains, or the link from a registry to a registrar.              *)
(***************************************************************************)
EXTENDS Naturals, Sequences, FiniteSets

CONSTANTS Procs,          \* the invocations
          Registries,     \* IANA's registries
          RegistryOf,     \* the registry of a kind of query, or "none"
          HintOrder,      \* the order in which a hint is looked for
          Invocations,    \* what may be asked for, and how
          Links,          \* the URLs of registrars that answers may link to
          Answers(_),     \* the answers the server at a URL may give
          MaxCrashes,     \* bound on the invocations that are killed
          MaxExpiries     \* bound on the files that get too old

NoUrl == "no url"
Urls == Registries \union {"given", "backup", "tld"} \union Links
RegistryFile(r) == <<"registry", r>>
ResponseFile(u) == <<"response", u>>
Dirs == {"registry", "response"}
Files == {RegistryFile(r) : r \in Registries} \union {ResponseFile(u) : u \in Urls}

Answer(u) == [from : {u}, self : Urls \union {NoUrl}, related : Urls \union {NoUrl},
              cacheable : BOOLEAN]
Invocation ==
  [kind : DOMAIN RegistryOf, base : {"rfc9224", "url", "hint"},
   process : {"standard", "registry", "registrar"},
   json : BOOLEAN, noCache : BOOLEAN, backup : BOOLEAN, reset : BOOLEAN]

ASSUME RegistriesAssumption ==
  /\ \A k \in DOMAIN RegistryOf : RegistryOf[k] \in Registries \union {"none"}
  /\ HintOrder \in Seq(Registries) /\ Len(HintOrder) > 0
ASSUME InvocationsAssumption == Invocations \subseteq Invocation
ASSUME AnswersAssumption == \A u \in Urls : Answers(u) \subseteq Answer(u)
ASSUME BoundsAssumption == MaxCrashes \in Nat /\ MaxExpiries \in Nat

VARIABLES dirs,      \* the cache directories that are there
          file,      \* the cache files
          pc,        \* where an invocation is
          inv,       \* what it was asked
          hint,      \* how many registries it has looked in
          download,  \* the registry it is about to keep
          url,       \* the URL it asks
          answer,    \* the answer of that URL
          received,  \* the answers it has, with the URLs they were asked of
          shown,     \* those it has written out
          exit,      \* how it ended
          crashes,
          expiries,
          disturbed  \* history: invocations overlapped, or one was killed

fileVars == <<dirs, file>>
procVars == <<pc, inv, hint, download, url, answer, received, shown, exit>>
historyVars == <<crashes, expiries, disturbed>>
vars == <<fileVars, procVars, historyVars>>

Absent == [is |-> "absent"]
Torn == [is |-> "torn"]
Whole(body) == [is |-> "whole", body |-> body, fresh |-> TRUE]
NoAnswer == [from |-> NoUrl, self |-> NoUrl, related |-> NoUrl, cacheable |-> FALSE]

Ended(p) == pc[p] \in {"idle", "done"}
Alone(p) == \A q \in Procs \ {p} : Ended(q)
Domains == {"domain", "tld", "search"}

TypeOK ==
  /\ dirs \subseteq Dirs
  /\ \A f \in Files :
       \/ file[f] \in {Absent, Torn}
       \/ /\ file[f].is = "whole" /\ file[f].fresh \in BOOLEAN
          /\ \/ f[1] = "registry" /\ file[f].body \in BOOLEAN
             \/ f[1] = "response" /\ file[f].body.from \in Urls
  /\ \A p \in Procs :
       /\ pc[p] \in {"idle", "has", "fetch", "put", "putting", "get", "read", "send",
                     "save", "saving", "save_self", "saving_self", "got",
                     "removing", "init", "done"}
       /\ hint[p] \in 0..Len(HintOrder)
       /\ url[p] \in Urls \union {NoUrl}
       /\ Len(received[p]) <= 2 /\ Len(shown[p]) <= Len(received[p])
  /\ crashes \in 0..MaxCrashes /\ expiries \in 0..MaxExpiries

Init ==
  /\ dirs = {}
  /\ file = [f \in Files |-> Absent]
  /\ pc = [p \in Procs |-> "idle"]
  /\ inv \in [Procs -> Invocations]
  /\ hint = [p \in Procs |-> 0]
  /\ download = [p \in Procs |-> FALSE]
  /\ url = [p \in Procs |-> NoUrl]
  /\ answer = [p \in Procs |-> NoAnswer]
  /\ received = [p \in Procs |-> <<>>]
  /\ shown = [p \in Procs |-> <<>>]
  /\ exit = [p \in Procs |-> "none"]
  /\ crashes = 0
  /\ expiries = 0
  /\ disturbed = FALSE

Goto(p, label) == pc' = [pc EXCEPT ![p] = label]
End(p, result) == Goto(p, "done") /\ exit' = [exit EXCEPT ![p] = result]

---------------------------------------------------------------------------
(* Where the object is asked for.                                          *)

(* The registry an invocation looks in.                                    *)
Registry(p) ==
  IF inv[p].base = "hint" THEN HintOrder[hint[p] + 1] ELSE RegistryOf[inv[p].kind]

AskUrl(p, u) == Goto(p, "read") /\ url' = [url EXCEPT ![p] = u] /\ UNCHANGED exit

(* No base URL: of a number or an address the backup may know.             *)
NoBaseUrl(p, result) ==
  IF inv[p].kind = "inr" /\ inv[p].backup
  THEN AskUrl(p, "backup")
  ELSE End(p, result) /\ UNCHANGED url

(* init, reset or get_base_url up to the first registry.                   *)
Start(p) ==
  /\ pc[p] = "idle"
  /\ dirs' = Dirs
  /\ disturbed' = (disturbed \/ ~Alone(p))
  /\ IF inv[p].reset
     THEN Goto(p, "removing") /\ UNCHANGED <<url, exit>>
     ELSE CASE inv[p].kind = "tld" -> AskUrl(p, "tld")
            [] inv[p].kind = "url" \/ (inv[p].kind # "tld" /\ inv[p].base = "url") ->
                 AskUrl(p, "given")
            [] OTHER ->
                 IF inv[p].base = "rfc9224" /\ RegistryOf[inv[p].kind] = "none"
                 THEN NoBaseUrl(p, "no_bootstrap")
                 ELSE Goto(p, "has") /\ UNCHANGED <<url, exit>>
  /\ UNCHANGED <<file, inv, hint, download, answer, received, shown, crashes, expiries>>

(* fs::write truncates the file and then writes to it, if it is still      *)
(* there; two that write at once may leave the longer text's end behind    *)
(* the shorter one.                                                        *)
Truncate(f) == file' = [file EXCEPT ![f] = Torn]
Fill(f, body) ==
  CASE file[f].is = "absent" -> UNCHANGED file
    [] file[f].is = "torn" -> file' = [file EXCEPT ![f] = Whole(body)]
    [] file[f].is = "whole" -> file' \in {[file EXCEPT ![f] = c] : c \in {Whole(body), Torn}}

(* A slip the runs must catch: the registry's file is opened, and with it  *)
(* truncated, before the registry is there.                                *)
HasRegistryTruncates(p) ==
  /\ pc[p] = "has"
  /\ LET f == file[RegistryFile(Registry(p))]
     IN \/ /\ f.is = "torn"
           /\ NoBaseUrl(p, "bad_cache")
           /\ UNCHANGED file
        \/ /\ f.is = "absent" \/ (f.is = "whole" /\ ~f.fresh)
           /\ Goto(p, "fetch")
           /\ Truncate(RegistryFile(Registry(p)))
           /\ UNCHANGED <<url, exit>>
        \/ /\ f.is = "whole" /\ f.fresh
           /\ Goto(p, "get")
           /\ UNCHANGED <<file, url, exit>>
  /\ UNCHANGED <<dirs, inv, hint, download, answer, received, shown, historyVars>>

(* has_bootstrap_registry                                                  *)
HasRegistry(p) ==
  /\ pc[p] = "has"
  /\ LET f == file[RegistryFile(Registry(p))]
     IN \/ /\ f.is = "torn"
           /\ NoBaseUrl(p, "bad_cache")
        \/ /\ f.is = "absent" \/ (f.is = "whole" /\ ~f.fresh)
           /\ Goto(p, "fetch")
           /\ UNCHANGED <<url, exit>>
        \/ /\ f.is = "whole" /\ f.fresh
           /\ Goto(p, "get")
           /\ UNCHANGED <<url, exit>>
  /\ UNCHANGED <<fileVars, inv, hint, download, answer, received, shown, historyVars>>

(* iana_request, in fetch_bootstrap                                        *)
FetchRegistry(p) ==
  /\ pc[p] = "fetch"
  /\ \/ /\ NoBaseUrl(p, "network")
        /\ UNCHANGED download
     \/ /\ \E lists \in BOOLEAN : download' = [download EXCEPT ![p] = lists]
        /\ Goto(p, "put")
        /\ UNCHANGED <<url, exit>>
  /\ UNCHANGED <<fileVars, inv, hint, answer, received, shown, historyVars>>

(* put_bootstrap_registry                                                  *)
PutRegistry(p) ==
  /\ pc[p] = "put"
  /\ IF "registry" \in dirs
     THEN Truncate(RegistryFile(Registry(p))) /\ Goto(p, "putting") /\ UNCHANGED <<url, exit>>
     ELSE NoBaseUrl(p, "io") /\ UNCHANGED file
  /\ UNCHANGED <<dirs, inv, hint, download, answer, received, shown, historyVars>>

RegistryPut(p) ==
  /\ pc[p] = "putting"
  /\ Fill(RegistryFile(Registry(p)), download[p])
  /\ Goto(p, "get")
  /\ download' = [download EXCEPT ![p] = FALSE]
  /\ UNCHANGED <<dirs, inv, hint, url, answer, received, shown, exit, historyVars>>

(* A slip the runs must catch: the registry that is looked in stays.       *)
GetUrlsStays(p) ==
  /\ pc[p] = "get"
  /\ LET f == file[RegistryFile(Registry(p))]
     IN \/ /\ f.is = "whole" /\ f.body
           /\ AskUrl(p, Registry(p))
        \/ /\ f.is = "whole" => ~f.body
           /\ Goto(p, "has")
           /\ UNCHANGED <<url, exit>>
  /\ UNCHANGED <<fileVars, inv, hint, download, answer, received, shown, historyVars>>

(* get_*_urls and preferred_url read the file once more.  A hint that one  *)
(* registry does not know, or whose file is broken, is looked for in the   *)
(* next.                                                                   *)
GetUrls(p) ==
  /\ pc[p] = "get"
  /\ LET f == file[RegistryFile(Registry(p))]
         Last == inv[p].base # "hint" \/ hint[p] + 1 = Len(HintOrder)
     IN \/ /\ f.is = "whole" /\ f.body
           /\ AskUrl(p, Registry(p))
           /\ UNCHANGED hint
        \/ /\ f.is = "whole" => ~f.body
           /\ Last
           /\ NoBaseUrl(p, CASE f.is = "whole" -> "no_bootstrap"
                             [] f.is = "torn" -> "bad_cache"
                             [] f.is = "absent" -> "io")
           /\ UNCHANGED hint
        \/ /\ f.is = "whole" => ~f.body
           /\ ~Last
           /\ hint' = [hint EXCEPT ![p] = @ + 1]
           /\ Goto(p, "has")
           /\ UNCHANGED <<url, exit>>
  /\ UNCHANGED <<fileVars, inv, download, answer, received, shown, historyVars>>

---------------------------------------------------------------------------
(* do_request                                                              *)

(* A request that failed: with --process-type registry whatever it was.    *)
RequestFails(p, result) ==
  End(p, IF inv[p].kind \in Domains /\ inv[p].process = "registry" /\ received[p] = <<>>
         THEN "no_registry" ELSE result)

Got(p, a) == answer' = [answer EXCEPT ![p] = a]

ReadCache(p) ==
  /\ pc[p] = "read"
  /\ LET f == file[ResponseFile(url[p])]
     IN \/ /\ inv[p].noCache \/ f.is = "absent" \/ (f.is = "whole" /\ ~f.fresh)
           /\ Goto(p, "send")
           /\ UNCHANGED <<answer, exit>>
        \/ /\ ~inv[p].noCache /\ f.is = "torn"
           /\ RequestFails(p, "bad_cache")
           /\ UNCHANGED answer
        \/ /\ ~inv[p].noCache /\ f.is = "whole" /\ f.fresh
           /\ Got(p, f.body)
           /\ Goto(p, "got")
           /\ UNCHANGED exit
  /\ UNCHANGED <<fileVars, inv, hint, download, url, received, shown, historyVars>>

(* A slip the runs must catch: --no-cache reads the cache no more, but     *)
(* still writes it.                                                        *)
SendAlwaysSaves(p) ==
  /\ pc[p] = "send"
  /\ \/ /\ RequestFails(p, "network")
        /\ UNCHANGED answer
     \/ \E a \in Answers(url[p]) :
          /\ Got(p, a)
          /\ Goto(p, IF a.cacheable THEN "save" ELSE "got")
          /\ UNCHANGED exit
  /\ UNCHANGED <<fileVars, inv, hint, download, url, received, shown, historyVars>>

(* rdap_url_request                                                        *)
Send(p) ==
  /\ pc[p] = "send"
  /\ \/ /\ RequestFails(p, "network")
        /\ UNCHANGED answer
     \/ \E a \in Answers(url[p]) :
          /\ Got(p, a)
          /\ Goto(p, IF a.cacheable /\ ~inv[p].noCache THEN "save" ELSE "got")
          /\ UNCHANGED exit
  /\ UNCHANGED <<fileVars, inv, hint, download, url, received, shown, historyVars>>

(* A slip the runs must catch: the answer counts as the object of the     *)
(* link it goes on with.                                                   *)
SelfUrlRelated(a) == IF a.related = NoUrl THEN a.self ELSE a.related

(* get_self_link                                                           *)
SelfUrl(a) == a.self

(* The answer is saved under the URL it was asked of, and then under the   *)
(* one it says is its own.                                                 *)
SaveStarts(p) ==
  /\ pc[p] \in {"save", "save_self"}
  /\ LET u == IF pc[p] = "save" THEN url[p] ELSE SelfUrl(answer[p])
     IN IF "response" \in dirs
        THEN /\ Truncate(ResponseFile(u))
             /\ Goto(p, IF pc[p] = "save" THEN "saving" ELSE "saving_self")
             /\ UNCHANGED exit
        ELSE RequestFails(p, "io") /\ UNCHANGED file
  /\ UNCHANGED <<dirs, inv, hint, download, url, answer, received, shown, historyVars>>

Saved(p) ==
  /\ pc[p] \in {"saving", "saving_self"}
  /\ Fill(ResponseFile(IF pc[p] = "saving" THEN url[p] ELSE SelfUrl(answer[p])), answer[p])
  /\ Goto(p, IF pc[p] = "saving" /\ SelfUrl(answer[p]) \notin {NoUrl, url[p]}
             THEN "save_self" ELSE "got")
  /\ UNCHANGED <<dirs, inv, hint, download, url, answer, received, shown, exit, historyVars>>

---------------------------------------------------------------------------
(* do_domain_query, do_inr_query, do_basic_query                           *)

Entry(p) == [asked |-> url[p], answer |-> answer[p]]

(* Text is written as answers come, JSON at the end, and then all of it.   *)
Hides(p) == inv[p].kind \in Domains /\ inv[p].process = "registrar" /\ received[p] = <<>>
Shown(p, last) ==
  IF inv[p].json THEN (IF last THEN received'[p] ELSE <<>>)
  ELSE IF Hides(p) THEN shown[p] ELSE Append(shown[p], Entry(p))

(* A slip the runs must catch: the registrar's answer is followed, too.    *)
RefersOn(p) == inv[p].kind \in Domains /\ inv[p].process # "registry"

(* Whether another answer, the registrar's, is asked for.                  *)
Refers(p) ==
  /\ inv[p].kind \in Domains
  /\ inv[p].process # "registry"
  /\ received[p] = <<>>

Receive(p) ==
  /\ pc[p] = "got"
  /\ received' = [received EXCEPT ![p] = Append(@, Entry(p))]
  /\ Got(p, NoAnswer)
  /\ UNCHANGED <<fileVars, inv, hint, download, historyVars>>

(* The registry links to a registrar, which is asked next.                 *)
Refer(p) ==
  /\ Receive(p)
  /\ Refers(p) /\ answer[p].related # NoUrl
  /\ shown' = [shown EXCEPT ![p] = Shown(p, FALSE)]
  /\ AskUrl(p, answer[p].related)

NoRegistrar(p) ==
  /\ Receive(p)
  /\ Refers(p) /\ answer[p].related = NoUrl /\ inv[p].process = "registrar"
  /\ End(p, "no_registrar")
  /\ UNCHANGED <<url, shown>>

(* A slip the runs must catch: an invocation that has asked the registry   *)
(* succeeds whether or not it found what it was told to.                   *)
FinishAnyway(p) ==
  /\ Receive(p)
  /\ Refers(p) => answer[p].related = NoUrl
  /\ shown' = [shown EXCEPT ![p] = Shown(p, TRUE)]
  /\ End(p, "ok")
  /\ UNCHANGED url

(* do_final_output, with --error-on-checks or without.                     *)
Finish(p) ==
  /\ Receive(p)
  /\ Refers(p) => answer[p].related = NoUrl /\ inv[p].process = "standard"
  /\ shown' = [shown EXCEPT ![p] = Shown(p, TRUE)]
  /\ \E result \in {"ok", "checks"} : End(p, result)
  /\ UNCHANGED url

---------------------------------------------------------------------------
(* --reset.  Another invocation's new file makes the removal of a          *)
(* directory fail.                                                         *)
Remove(p) ==
  /\ pc[p] = "removing"
  /\ \/ /\ file' = [f \in Files |-> Absent]
        /\ dirs' = {}
        /\ Goto(p, "init")
        /\ disturbed' = (disturbed /\ ~Alone(p))
        /\ UNCHANGED exit
     \/ /\ ~Alone(p)
        /\ \E left \in {f \in Files : file[f] # Absent} :
             /\ file' = [f \in Files |-> IF f = left THEN file[f] ELSE Absent]
             /\ dirs' \in {d \in SUBSET dirs : left[1] \in d}
        /\ End(p, "io")
        /\ UNCHANGED disturbed
  /\ UNCHANGED <<inv, hint, download, url, answer, received, shown, crashes, expiries>>

(* dirs::init                                                              *)
ResetDone(p) ==
  /\ pc[p] = "init"
  /\ dirs' = Dirs
  /\ End(p, "ok")
  /\ UNCHANGED <<file, inv, hint, download, url, answer, received, shown, historyVars>>

(* An invocation is killed: what it had begun to write stays as it is.     *)
Crash(p) ==
  /\ ~Ended(p)
  /\ crashes < MaxCrashes
  /\ crashes' = crashes + 1
  /\ disturbed' = (disturbed \/ pc[p] \in {"putting", "saving", "saving_self"})
  /\ End(p, "killed")
  /\ UNCHANGED <<fileVars, inv, hint, download, url, answer, received, shown, expiries>>

(* Time passes: is_expired.                                                *)
Expire(f) ==
  /\ file[f].is = "whole"
  /\ file[f].fresh
  /\ expiries < MaxExpiries
  /\ expiries' = expiries + 1
  /\ file' = [file EXCEPT ![f].fresh = FALSE]
  /\ UNCHANGED <<dirs, procVars, crashes, disturbed>>

Step(p) ==
  \/ HasRegistry(p) \/ FetchRegistry(p) \/ PutRegistry(p) \/ RegistryPut(p) \/ GetUrls(p)
  \/ ReadCache(p) \/ Send(p) \/ SaveStarts(p) \/ Saved(p)
  \/ Refer(p) \/ NoRegistrar(p) \/ Finish(p)
  \/ Remove(p) \/ ResetDone(p)

Next ==
  \/ \E p \in Procs : Start(p) \/ Step(p) \/ Crash(p)
  \/ \E f \in Files : Expire(f)

Spec == Init /\ [][Next]_vars

(* The tasks of an invocation are polled, and every request ends.          *)
FairSpec == Spec /\ \A p \in Procs : WF_vars(Step(p))

---------------------------------------------------------------------------
(* What an invocation shows for a URL came from there, or from a server    *)
(* that called this URL its object's own: no cache file is another's.      *)
ShownAnswersAsked ==
  \A p \in Procs : \A i \in 1..Len(shown[p]) :
    LET e == shown[p][i] IN e.asked \in {e.answer.from, e.answer.self}

(* An invocation that succeeds has shown what it was asked for: the        *)
(* registry's answer, that of the registrar it links to, or both.          *)
SuccessShows ==
  \A p \in Procs :
    exit[p] \in {"ok", "checks"} /\ ~inv[p].reset =>
      LET first == received[p][1]
          last == shown[p][Len(shown[p])]
          wanted == inv[p].kind \in Domains /\ inv[p].process # "registry"
      IN /\ shown[p] # <<>>
         /\ inv[p].process = "standard" => shown[p][1] = first
         /\ wanted /\ first.answer.related # NoUrl => last.asked = first.answer.related
         /\ wanted /\ first.answer.related = NoUrl => inv[p].process = "standard"

(* --no-cache: no answer comes from the cache of responses, and none gets  *)
(* into it.                                                                *)
NoCacheBypasses ==
  [][\A p \in Procs :
       pc'[p] # pc[p] /\ inv[p].noCache /\ ~inv[p].reset =>
         /\ \A u \in Urls : file'[ResponseFile(u)] = file[ResponseFile(u)]
         /\ received'[p] # received[p] => answer[p].from = url[p]]_vars

(* No invocation fails on the caches as long as they were used by one at a *)
(* time, none of which was killed in a write; a reset makes up for it.     *)
UndisturbedWorks ==
  [][~disturbed =>
       \A p \in Procs : exit'[p] # exit[p] => exit'[p] \notin {"bad_cache", "io"}]_vars

(* Every invocation ends.                                                  *)
Ends == \A p \in Procs : pc[p] # "idle" ~> pc[p] = "done"

(* --process-type registrar: "Only display the data from the domain        *)
(* registrar", whatever the form of the output.                            *)
RegistrarOnly ==
  \A p \in Procs :
    inv[p].kind \in Domains /\ inv[p].process = "registrar" =>
      \A i \in 1..Len(shown[p]) : shown[p][i] # received[p][1]
=============================================================================
