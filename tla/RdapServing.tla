---------------------------- MODULE RdapServing ----------------------------
(***************************************************************************)
(* The server answering RDAP requests (icann-rdap-srv/src/rdap) while the  *)
(* data directory is loaded again and rdap-srv-data writes into it.        *)
(*                                                                         *)
(* A handler looks things up in the store one table at a time and gives    *)
(* the table's lock back in between, so that a commit can fall between two *)
(* of its lookups.  A commit is one step: AtomicStore is what MemStore is  *)
(* proved to implement.                                                    *)
(***************************************************************************)
EXTENDS SrvData

CONSTANTS Queries,     \* what is asked for
          Bootstrap,   \* the server redirects what it does not have
          MaxNum,      \* bound: the largest autnum
          LowerCase,   \* the upper case letters, and their lower case
          FirstDir,    \* the data directory the server starts with
          MadeArgs,    \* what rdap-srv-data is run with
          MaxLoads,    \* bound: the loads after the first one
          MaxWrites    \* bound: the files written or removed

ASSUME BootstrapAssumption == Bootstrap \in BOOLEAN
ASSUME BoundAssumption == MaxLoads \in Nat /\ MaxWrites \in Nat /\ MaxNum \in Nat
Kinds == {"domain", "nameserver", "entity", "ip", "autnum", "help", "domains", "nameservers",
          "entities"}

ASSUME QueriesAssumption == \A q \in Queries : q.kind \in Kinds /\ q.text \in Seq(STRING)
ASSUME LowerCaseAssumption == LowerCase \in [DOMAIN LowerCase -> STRING]
ASSUME FirstDirAssumption ==
  \A d \in FirstDir : IsFiniteSet(DOMAIN d) /\ \A n \in DOMAIN d : IsFile(d[n])
(* Different numbers and different networks have different texts.          *)
ASSUME TextsAssumption ==
  /\ \A m, n \in 0..MaxNum : NumText(m) = NumText(n) => m = n
  /\ \A m, n \in Nets : \A version \in {4, 6} : NetText(version, m) = NetText(version, n) => m = n
ASSUME ArgsAssumption == \A args \in MadeArgs : IsArgs(args)

VARIABLES dir,      \* the data directory: file names and what the files hold
          db,       \* what the store holds
          req,      \* the request being served
          loads,    \* how many loads there were
          writes,   \* how many files were written or removed
          fresh,    \* what the store holds came from one load of today's directory
          due,      \* where and what the request should be answered, when it came in
          stands    \* every commit since then left that as it was

vars == <<dir, db, req, loads, writes, fresh, due, stands>>
serverVars == <<dir, db, loads, writes, fresh>>

NoRequest == [pc |-> "idle", query |-> [kind |-> "none"], name |-> None, slice |-> None,
              found |-> NotFound]
Pcs == {"idle", "ldh", "unicode", "up", "nameserver", "entity", "tag", "ip", "autnum", "help",
        "default", "domains", "answered"}

---------------------------------------------------------------------------
(* What the handlers do to the texts they are given                        *)

TrimEnd(text) ==
  LET kept == {i \in DOMAIN text : text[i] # "."}
  IN IF kept = {} THEN None ELSE SubSeq(text, 1, CHOOSE i \in kept : \A j \in kept : j <= i)

Lower(text) == [i \in DOMAIN text |-> IF text[i] \in DOMAIN LowerCase THEN LowerCase[text[i]]
                                      ELSE text[i]]
Upper(text) == [i \in DOMAIN text |->
                  IF \E u \in DOMAIN LowerCase : LowerCase[u] = text[i]
                  THEN CHOOSE u \in DOMAIN LowerCase : LowerCase[u] = text[i] ELSE text[i]]

Canonical(text) == Lower(TrimEnd(text))

FirstPlace(c, text) == CHOOSE i \in Places(c, text) : \A j \in Places(c, text) : i <= j
LastPlace(c, text) == CHOOSE i \in Places(c, text) : \A j \in Places(c, text) : j <= i

LessSpecific(name) == After(FirstPlace(".", name), name)
Tag(handle) == <<"-">> \o Upper(After(LastPlace("-", handle), handle))

(* A slip the runs must catch: the href of the redirect is dropped.        *)
BootstrapRedirectPath(r, path, id) ==
  IF IsError(r) /\ r.href # None THEN ErrorResponse(307, <<path, "/">> \o id) ELSE r

(* ToBootStrap: the href of the redirect, with the path that was asked for.*)
BootstrapRedirect(r, path, id) ==
  IF IsError(r) /\ r.href # None THEN ErrorResponse(307, r.href \o <<path, "/">> \o id) ELSE r

(* ResponseUtil::response: the status, and the location of a redirect.     *)
LocationCodes == {300, 302, 303, 304, 305, 307, 308}
Status(r) == IF IsError(r) THEN r.code ELSE 200
Location(r) == IF Status(r) \in LocationCodes THEN r.href ELSE None

---------------------------------------------------------------------------
(* What a query is due, said at once and of one version of the data        *)

Fits(r, class) == r.class = class \/ IsRedirect(r)

(* The names above a name, as far as they have a redirect.                 *)
RedirectsAbove(store, name) ==
  {n \in {After(i, name) : i \in Places(".", name)} : IsRedirect(Get(store, "domains", n))}

Nearest(names) == CHOOSE n \in names : \A m \in names : Len(m) <= Len(n)

(* The slot it is answered from, and the answer.                           *)
Due(store, q) ==
  LET name == IF q.kind = "domain" THEN Canonical(q.text) ELSE q.text
      from(table, key) == << <<table, key>>, Get(store, table, key) >>
      redirected(table, key, path) ==
        << <<table, key>>, BootstrapRedirect(Get(store, table, key), path, name) >>
      above == RedirectsAbove(store, name)
      search(r) == << <<q.kind, name>>, r >>
  IN CASE q.kind = "domain" ->
            IF Fits(Get(store, "domains", name), "domain") THEN from("domains", name)
            ELSE IF Fits(Get(store, "idns", name), "domain") THEN from("idns", name)
            ELSE IF Bootstrap /\ above # {} THEN redirected("domains", Nearest(above), "domain")
            ELSE << <<"idns", name>>, NotFound >>
       [] q.kind = "nameserver" ->
            IF Cardinality(Places(".", name)) < 2 THEN search(BadRequest)
            ELSE IF Fits(Get(store, "nameservers", name), "nameserver") \/ ~Bootstrap \/ above = {}
            THEN from("nameservers", name)
            ELSE redirected("domains", Nearest(above), "nameserver")
       [] q.kind = "entity" ->
            LET own == Get(store, "entities", name)
                tagged == IF Places("-", name) = {} THEN NotFound
                          ELSE Get(store, "entities", Tag(name))
            IN IF Fits(own, "entity") \/ ~Bootstrap \/ ~IsRedirect(tagged)
               THEN from("entities", name) ELSE redirected("entities", Tag(name), "entity")
       [] q.kind \in {"ip", "autnum"} ->
            LET r == IF q.kind = "ip" THEN GetLpm(store, q.version, q.net)
                     ELSE Get(store, "autnums", q.num)
            IN search(IF Bootstrap THEN BootstrapRedirect(r, q.kind, q.text) ELSE r)
       [] q.kind = "help" ->
            IF Get(store, "srvhelps", name).class = "help" THEN from("srvhelps", name)
            ELSE from("srvhelps", DefaultHost)
       [] q.kind = "domains" -> search(SearchDomains(store, name))
       [] OTHER -> search(NotImplemented)

---------------------------------------------------------------------------
(* The directory and its loads                                             *)

Init ==
  /\ dir \in FirstDir
  /\ db \in IF LoadSucceeds(dir) THEN {Loaded(Empty, files) : files \in Listings(dir)} ELSE {Empty}
  /\ req = NoRequest
  /\ loads = 0
  /\ writes = 0
  /\ fresh = LoadSucceeds(dir)
  /\ due = <<None, NotFound>>
  /\ stands = TRUE

(* A commit, or the load is dropped on an error and the data stays.  An    *)
(* update starts from a copy of the data, a reload from nothing.           *)
Load(kind) ==
  /\ loads < MaxLoads
  /\ loads' = loads + 1
  /\ db' \in IF LoadSucceeds(dir)
            THEN {Loaded(IF kind = "update" THEN NewTx(db) ELSE Empty, files) : files \in Listings(dir)}
            ELSE {db}
  /\ fresh' = IF LoadSucceeds(dir) THEN kind = "reload" \/ fresh ELSE fresh
  /\ stands' = (stands /\ (req.pc \in {"idle", "answered"} \/ Due(db', req.query) = due))
  /\ UNCHANGED <<dir, req, writes, due>>

(* A run of rdap-srv-data: it loads the directory into a store of its own, *)
(* for what the object refers to, and writes a file.                       *)
MakeData(args) ==
  /\ writes < MaxWrites
  /\ LoadSucceeds(dir)
  /\ \E files \in Listings(dir) : ~Refused(Loaded(Empty, files), args)
  /\ LET made == MadeFile(args)
     IN /\ dir' = [n \in DOMAIN dir \union {made.name} |->
                     IF n = made.name THEN made.file ELSE dir[n]]
        /\ fresh' = (fresh /\ made.name \in DOMAIN dir /\ dir[made.name] = made.file)
  /\ writes' = writes + 1
  /\ UNCHANGED <<db, req, loads, due, stands>>

(* Somebody removes a file: an update keeps what the file had put in.      *)
RemoveFile(name) ==
  /\ writes < MaxWrites
  /\ dir' = [n \in DOMAIN dir \ {name} |-> dir[n]]
  /\ fresh' = FALSE
  /\ writes' = writes + 1
  /\ UNCHANGED <<db, req, loads, due, stands>>

---------------------------------------------------------------------------
(* The handlers                                                            *)

Answer(r) == req' = [req EXCEPT !.pc = "answered", !.found = r]
Goto(pc) == req' = [req EXCEPT !.pc = pc]
Missing(r, class) == Bootstrap /\ ~Fits(r, class)

(* The router, and what a handler does before its first lookup.            *)
Receive(q) ==
  /\ req.pc = "idle"
  /\ LET name == IF q.kind = "domain" THEN Canonical(q.text) ELSE q.text
         start == [pc |-> q.kind, query |-> q, name |-> name, slice |-> name, found |-> NotFound]
     IN req' = CASE q.kind = "domain" -> [start EXCEPT !.pc = "ldh"]
                 [] q.kind = "nameserver" /\ Cardinality(Places(".", name)) < 2 ->
                      [start EXCEPT !.pc = "answered", !.found = BadRequest]
                 [] q.kind \in {"nameservers", "entities"} ->
                      [start EXCEPT !.pc = "answered", !.found = NotImplemented]
                 [] OTHER -> start
  /\ due' = Due(db, q)
  /\ stands' = TRUE
  /\ UNCHANGED serverVars

(* A slip the runs must catch: an error that is no redirect is answered.   *)
LookupLdhAnyError ==
  /\ req.pc = "ldh"
  /\ LET r == Get(db, "domains", req.name)
     IN IF r # NotFound THEN Answer(r) ELSE Goto("unicode")
  /\ UNCHANGED <<serverVars, due, stands>>

(* domain_by_name: the name itself ...                                     *)
LookupLdh ==
  /\ req.pc = "ldh"
  /\ LET r == Get(db, "domains", req.name)
     IN IF Fits(r, "domain") THEN Answer(r) ELSE Goto("unicode")
  /\ UNCHANGED <<serverVars, due, stands>>

(* The names above it are next, if there are any.                          *)
Climb(r, slice) ==
  req' = [req EXCEPT !.found = r, !.slice = slice,
                     !.pc = IF Places(".", slice) = {} THEN "answered" ELSE "up"]

(* ... then the same name as a U-label, whatever error was found ...       *)
LookupUnicode ==
  /\ req.pc = "unicode"
  /\ LET r == Get(db, "idns", req.name)
     IN IF Missing(r, "domain") THEN Climb(r, req.name) ELSE Answer(r)
  /\ UNCHANGED <<serverVars, due, stands>>

(* A slip the runs must catch: the name above is looked up for ever.       *)
LookupAboveStays ==
  /\ req.pc = "up"
  /\ LET less == LessSpecific(req.slice)
         r == Get(db, "domains", less)
     IN IF IsRedirect(r) THEN Answer(BootstrapRedirect(r, req.query.kind, req.name))
        ELSE Climb(req.found, req.slice)
  /\ UNCHANGED <<serverVars, due, stands>>

(* ... and the names above it, which count only if they are redirects.     *)
(* nameserver_by_name does the same.                                       *)
LookupAbove ==
  /\ req.pc = "up"
  /\ LET less == LessSpecific(req.slice)
         r == Get(db, "domains", less)
     IN IF IsRedirect(r) THEN Answer(BootstrapRedirect(r, req.query.kind, req.name))
        ELSE Climb(req.found, less)
  /\ UNCHANGED <<serverVars, due, stands>>

(* nameserver_by_name: the nameserver, then the domains above it.          *)
LookupNameserver ==
  /\ req.pc = "nameserver"
  /\ LET r == Get(db, "nameservers", req.name)
     IN IF Missing(r, "nameserver") THEN Climb(r, req.name) ELSE Answer(r)
  /\ UNCHANGED <<serverVars, due, stands>>

(* entity_by_handle: the handle, then its tag.                             *)
LookupEntity ==
  /\ req.pc = "entity"
  /\ LET r == Get(db, "entities", req.name)
     IN IF Missing(r, "entity") /\ Places("-", req.name) # {}
        THEN req' = [req EXCEPT !.pc = "tag", !.found = r] ELSE Answer(r)
  /\ UNCHANGED <<serverVars, due, stands>>

LookupTag ==
  /\ req.pc = "tag"
  /\ LET r == Get(db, "entities", Tag(req.name))
     IN Answer(IF IsRedirect(r) THEN BootstrapRedirect(r, "entity", req.name) ELSE req.found)
  /\ UNCHANGED <<serverVars, due, stands>>

(* network_by_netid, autnum_by_num: one lookup; every error that has a     *)
(* link becomes a redirect.                                                *)
LookupNumbers ==
  /\ req.pc \in {"ip", "autnum"}
  /\ LET q == req.query
         r == IF q.kind = "ip" THEN GetLpm(db, q.version, q.net) ELSE Get(db, "autnums", q.num)
     IN Answer(IF Bootstrap THEN BootstrapRedirect(r, q.kind, q.text) ELSE r)
  /\ UNCHANGED <<serverVars, due, stands>>

(* A slip the runs must catch: the default is looked up by no handler.     *)
LookupHelpLost ==
  /\ req.pc = "help"
  /\ Goto(IF Get(db, "srvhelps", req.name).class = "help" THEN "answered" ELSE "lost")
  /\ UNCHANGED <<serverVars, due, stands>>

(* srvhelp: the help of the host, then the default.                        *)
LookupHelp ==
  /\ req.pc = "help"
  /\ LET r == Get(db, "srvhelps", req.name)
     IN IF r.class = "help" THEN Answer(r) ELSE Goto("default")
  /\ UNCHANGED <<serverVars, due, stands>>

LookupDefaultHelp ==
  /\ req.pc = "default"
  /\ Answer(Get(db, "srvhelps", DefaultHost))
  /\ UNCHANGED <<serverVars, due, stands>>

(* domains: the search.                                                    *)
LookupSearch ==
  /\ req.pc = "domains"
  /\ Answer(SearchDomains(db, req.name))
  /\ UNCHANGED <<serverVars, due, stands>>

Lookup ==
  LookupLdh \/ LookupUnicode \/ LookupAbove \/ LookupNameserver \/ LookupEntity \/ LookupTag
  \/ LookupNumbers \/ LookupHelp \/ LookupDefaultHelp \/ LookupSearch

(* The answer is sent; or ten seconds are over, and the handler is dropped.*)
Leave ==
  /\ req.pc # "idle"
  /\ req' = NoRequest
  /\ due' = <<None, NotFound>>
  /\ stands' = TRUE
  /\ UNCHANGED serverVars

Next ==
  \/ Load("update") \/ Load("reload")
  \/ \E args \in MadeArgs : MakeData(args)
  \/ \E name \in DOMAIN dir : RemoveFile(name)
  \/ \E q \in Queries : Receive(q)
  \/ Lookup
  \/ Leave

Spec == Init /\ [][Next]_vars

(* The runtime polls the handler again when its lookup is ready.           *)
FairSpec == Spec /\ WF_vars(Lookup)

---------------------------------------------------------------------------
(* No two of the objects in the directory want the same slot.              *)
Clean ==
  \A m, n \in DOMAIN dir : \A i \in DOMAIN Additions(dir[m]), j \in DOMAIN Additions(dir[n]) :
    <<m, i>> # <<n, j>> =>
      Slots(Additions(dir[m])[i].id) \intersect Slots(Additions(dir[n])[j].id) = {}

CleanDir == fresh /\ LoadSucceeds(dir) /\ Clean

Stored(table) == {db.slots[s] : s \in {s \in DOMAIN db.slots : s[1] = table}}

(* The query a link of this server leads to.                               *)
LinkQuery(v) ==
  LET kind == v.self[Len(BaseUrl) + 1]
      rest == SubSeq(v.self, Len(BaseUrl) + 3, Len(v.self))
  IN CASE kind = "autnum" ->
            [kind |-> kind, text |-> rest, num |-> CHOOSE n \in 0..MaxNum : NumText(n) = rest]
       [] kind = "ip" ->
            [kind |-> kind, text |-> rest, version |-> v.version,
             net |-> CHOOSE n \in Nets : NetText(v.version, n) = rest]
       [] OTHER -> [kind |-> kind, text |-> rest]

IdQuery(id) ==
  CASE id.class = "autnum" -> [kind |-> "autnum", text |-> IdText(id), num |-> id.start]
    [] id.class = "ip" -> [kind |-> "ip", text |-> IdText(id), version |-> id.version,
                           net |-> FirstNet(NetRange(id))]
    [] OTHER -> [kind |-> id.class, text |-> IdText(id)]

(* Type correctness of the store, the directory and the request served.    *)
TypeOK ==
  /\ req.pc \in Pcs
  /\ \A s \in DOMAIN db.slots : db.slots[s].class \in Classes \union {"error"}
  /\ \A k \in DOMAIN db.index : db.index[k].class \in {"domain", "error"}
  /\ \A n \in DOMAIN dir : dir[n].kind \in {"json", "template", "help", "other", "unreadable"}
  /\ loads \in 0..MaxLoads /\ writes \in 0..MaxWrites
  /\ fresh \in BOOLEAN /\ stands \in BOOLEAN

(* A request during which no commit changes what it is due is answered so: *)
(* its lookups, each under a lock of its own, add up to the most specific  *)
(* object or redirect there is (domain.rs, nameserver.rs, entity.rs).      *)
AnswerStands == req.pc = "answered" /\ stands => req.found = due[2]

(* After any updates and reloads every domain that can be looked up is     *)
(* found by a search that fits its name: add_domain and MemTx::new keep    *)
(* the index up with the domains.                                          *)
SearchFindsAll ==
  \A q \in {q \in Queries : q.kind = "domains"} :
    LET star == FirstPlace("*", q.text)
        before == Before(star, q.text)
        after == Trim(After(star, q.text))
        fits(name) == /\ SE!IsPrefix(before, name)
                      /\ after # None => /\ SE!IsSuffix(<<".">> \o after, name)
                                         /\ Len(name) > Len(before) + Len(after)
    IN SearchLabels(db.index, q.text).outcome = "found" =>
         \A v \in Stored("domains") :
           v.class = "domain" /\ fits(v.ldh) => v \in SearchDomains(db, q.text).results

(* When the directory names nothing twice and was loaded from nothing, the *)
(* three tables of domains agree: what is found as a U-label or by search  *)
(* is what is found by name.  (add_domain_err touches one table only.)     *)
TablesAgree ==
  CleanDir => \A v \in Stored("idns") \union {db.index[k] : k \in DOMAIN db.index} :
                v.class = "domain" => Get(db, "domains", v.ldh) = v

(* The self link of an object that the server or rdap-srv-data made leads  *)
(* back to the object, also for one that was made by a template of another.*)
SelfLinksLead ==
  CleanDir => \A s \in DOMAIN db.slots :
    LET v == db.slots[s]
    IN v.class \in Segments /\ v.self # None => Due(db, LinkQuery(v))[2] = v

(* A redirect that a file has for a name, a handle, a number or a network  *)
(* is what a query for just that gets, and it leads to the file's url.     *)
RedirectsServed ==
  CleanDir => \A n \in DOMAIN dir :
    dir[n].kind = "template" /\ IsRedirect(dir[n].obj) =>
      \A i \in DOMAIN dir[n].ids :
        LET r == Due(db, IdQuery(dir[n].ids[i]))[2]
        IN SE!IsPrefix(dir[n].obj.href, Location(r))

(* Nothing rdap-srv-data writes keeps the server from loading a directory  *)
(* that it could load before.                                              *)
WritesLoad == [][LoadSucceeds(dir) => LoadSucceeds(dir')]_vars

(* Every request is answered: the names above a name come to an end.       *)
Answered == req.pc # "idle" ~> req.pc \in {"answered", "idle"}

=============================================================================
