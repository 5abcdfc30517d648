--------------------------- MODULE StoreContent ----------------------------
(***************************************************************************)
(* What is in the in-memory store, how a load puts it there and what the   *)
(* lookups find (icann-rdap-srv/src/storage: mem/tx.rs, mem/ops.rs,        *)
(* data.rs).  MemStore says when a table is read and written, this module  *)
(* what it holds: pure operators for the actions of RdapServing.           *)
(*                                                                         *)
(* The tables are one function of slots, a slot being a table and a key in *)
(* it.  A text is a sequence of characters, None the one that is absent;   *)
(* an address is a version and a number of Width bits.                     *)
(***************************************************************************)
EXTENDS LabelSearch

CONSTANTS Width,          \* the bits of an address
          SearchEnabled   \* domain_search_by_name_enable

ASSUME WidthAssumption == Width \in Nat
ASSUME SearchAssumption == SearchEnabled \in BOOLEAN

None == <<>>
NoNumber == 0 - 1
Segments == {"domain", "nameserver", "entity", "autnum", "ip"}

---------------------------------------------------------------------------
(* Addresses and networks (ipnet)                                          *)

Pow2[n \in 0..Width] == IF n = 0 THEN 1 ELSE 2 * Pow2[n - 1]

Blocks(len) == {i * Pow2[Width - len] : i \in 0..(Pow2[len] - 1)}
Nets == UNION {{<<b, len>> : b \in Blocks(len)} : len \in 0..Width}
LastOf(net) == net[1] + Pow2[Width - net[2]] - 1
Covers(net, lo, hi) == net[1] <= lo /\ hi <= LastOf(net)

(* Ipv4Subnets::new(lo, hi, 0): the largest blocks inside the range.       *)
Subnets(lo, hi) ==
  LET inside == {n \in Nets : lo <= n[1] /\ LastOf(n) <= hi}
  IN {n \in inside : \A m \in inside : Covers(m, n[1], LastOf(n)) => m = n}

IpTable(version) == IF version = 4 THEN "ip4" ELSE "ip6"

(* Texts of numbers, as they show in links.                                *)
NumText(n) == <<ToString(n)>>
NetText(version, net) == <<IpTable(version), "/", ToString(net[1]), "/", ToString(net[2])>>
AddrText(addr) == <<IpTable(addr[1]), "/", ToString(addr[2])>>

---------------------------------------------------------------------------
(* Responses                                                               *)

ErrorResponse(code, href) == [class |-> "error", code |-> code, href |-> href]
NotFound == ErrorResponse(404, None)
NotImplemented == ErrorResponse(501, None)
BadRequest == ErrorResponse(400, None)

IsError(r) == r.class = "error"
IsRedirect(r) == IsError(r) /\ r.code > 299 /\ r.code < 400

---------------------------------------------------------------------------
(* MemTx: the additions                                                    *)

Empty == [slots |-> <<>>, index |-> NoIndex]

NumRange(obj) == IF obj.start = NoNumber \/ obj.end = NoNumber THEN {} ELSE obj.start..obj.end
NetRange(obj) == Subnets(obj.start[2], obj.end[2])

(* What makes an object impossible to add: a key that is missing, or an    *)
(* address that does not parse for the version of the network.             *)
Unusable(obj) ==
  \/ obj.class \in {"domain", "nameserver"} /\ obj.ldh = None
  \/ obj.class = "entity" /\ obj.handle = None
  \/ obj.class = "autnum" /\ NoNumber \in {obj.start, obj.end}
  \/ obj.class = "ip" /\ \/ None \in {obj.start, obj.end} \/ obj.version = NoNumber
                         \/ obj.start[1] # obj.version \/ obj.end[1] # obj.version

(* A slip the runs must catch: a domain with a U-label is put only there.  *)
SlotsOneName(obj) ==
  CASE obj.class = "domain" /\ obj.unicode # None -> {<<"idns", obj.unicode>>}
    [] obj.class \in {"domain", "nameserver"} -> {<<obj.class \o "s", obj.ldh>>}
    [] obj.class = "entity" -> {<<"entities", obj.handle>>}
    [] obj.class = "autnum" -> {<<"autnums", n>> : n \in NumRange(obj)}
    [] obj.class = "ip" -> {<<IpTable(obj.version), n>> : n \in NetRange(obj)}
    [] obj.class = "help" -> {<<"srvhelps", obj.host>>}

(* The slots an object is put into.                                        *)
Slots(obj) ==
  CASE obj.class = "domain" ->
         {<<"domains", obj.ldh>>} \union
         (IF obj.unicode = None THEN {} ELSE {<<"idns", obj.unicode>>})
    [] obj.class = "nameserver" -> {<<"nameservers", obj.ldh>>}
    [] obj.class = "entity" -> {<<"entities", obj.handle>>}
    [] obj.class = "autnum" -> {<<"autnums", n>> : n \in NumRange(obj)}
    [] obj.class = "ip" -> {<<IpTable(obj.version), n>> : n \in NetRange(obj)}
    [] obj.class = "help" -> {<<"srvhelps", obj.host>>}

(* An error is put where the object would be, but for the unicode names.   *)
ErrSlots(id) == {s \in Slots(id) : s[1] # "idns"}

(* A slip the runs must catch: the index of the last commit is lost.       *)
NewTxNoIndex(db) == [db EXCEPT !.index = NoIndex]

(* MemTx::new: a copy, with the index made anew from all the domains.      *)
NewTx(db) ==
  LET names == {s[2] : s \in {s \in DOMAIN db.slots : s[1] = "domains"}}
      keys == UNION {Keys(n) : n \in names}
  IN [db EXCEPT !.index =
        IF SearchEnabled
        THEN [k \in keys |-> db.slots[<<"domains", CHOOSE n \in names : k \in Keys(n)>>]]
        ELSE NoIndex]

---------------------------------------------------------------------------
(* load_data: files are turned into additions                              *)

(* A slip the runs must catch: the link stays the one of the template.     *)
ChangeSelfLinkKept(self, segment, id) == self

(* rsplit_once: what follows the last occurrence of the segment goes.      *)
ChangeSelfLink(self, segment, id) ==
  LET at == Places(segment, self)
  IN IF at = {} THEN self
     ELSE Before(CHOOSE i \in at : \A j \in at : j <= i, self) \o <<segment, "/">> \o id

(* load_srvhelp: the file's name, with dots for its underscores.           *)
HelpHost(name) == [i \in DOMAIN name |-> IF name[i] = "_" THEN "." ELSE name[i]]

OrElse(text, other) == IF text = None THEN other ELSE text
FirstNet(nets) == CHOOSE n \in nets : \A m \in nets : n[1] <= m[1]

(* make_.._from_template: the id of the template replaces the object's own.*)
FromTemplate(obj, id) ==
  LET link(text) == ChangeSelfLink(obj.self, obj.class, text)
  IN CASE obj.class = "domain" ->
            [obj EXCEPT !.ldh = id.ldh, !.unicode = OrElse(id.unicode, @), !.self = link(id.ldh)]
       [] obj.class = "nameserver" -> [obj EXCEPT !.ldh = id.ldh, !.self = link(id.ldh)]
       [] obj.class = "entity" -> [obj EXCEPT !.handle = id.handle, !.self = link(id.handle)]
       [] obj.class = "autnum" -> [obj EXCEPT !.start = id.start, !.end = id.end,
                                              !.self = link(NumText(id.start))]
       [] obj.class = "ip" ->
            [obj EXCEPT !.version = id.version, !.start = id.start, !.end = id.end,
                        !.self = link(NetText(id.version, FirstNet(NetRange(id))))]

(* A range that ends before it starts has no networks: .first() expects    *)
(* one and panics.  Ranges of two versions do not parse.                   *)
TemplateFails(obj, id) ==
  \/ Unusable(id)
  \/ id.class = "ip" /\ ~IsError(obj) /\ NetRange(id) = {}

(* What a file holds: a response of a known class has what its class is    *)
(* filed under, an id of a template is of the class of its object.         *)
KeyFields ==
  [domain |-> {"ldh", "unicode"}, nameserver |-> {"ldh"}, entity |-> {"handle"},
   autnum |-> {"start", "end"}, ip |-> {"version", "start", "end"}, help |-> {"host"},
   error |-> {"code", "href"}]
HasKey(obj) ==
  /\ "class" \in DOMAIN obj
  /\ obj.class \in DOMAIN KeyFields => KeyFields[obj.class] \subseteq DOMAIN obj

IsTemplate(file) ==
  /\ HasKey(file.obj) /\ file.obj.class \in Segments \union {"error"}
  /\ Len(file.ids) \in Nat /\ DOMAIN file.ids = 1..Len(file.ids)
  /\ \A i \in DOMAIN file.ids :
       /\ file.ids[i].class \in Segments
       /\ file.obj.class # "error" => file.ids[i].class = file.obj.class

IsFile(file) ==
  /\ file.kind \in {"json", "template", "help", "other", "unreadable"}
  /\ file.kind \in {"json", "help"} => HasKey(file.obj)
  /\ file.kind = "template" => IsTemplate(file)

Addition(obj, id, ok) == [obj |-> obj, id |-> id, ok |-> ok]
Failure == Addition(NotFound, NotFound, FALSE)

(* What a file adds, in its order.                                         *)
Additions(file) ==
  CASE file.kind = "json" ->
         IF file.obj.class \in Segments /\ ~Unusable(file.obj)
         THEN <<Addition(file.obj, file.obj, TRUE)>> ELSE <<Failure>>
    [] file.kind = "help" ->
         IF file.obj.class = "help"
         THEN LET help == [file.obj EXCEPT !.host = HelpHost(file.host)]
              IN <<Addition(help, help, TRUE)>>
         ELSE <<Failure>>
    [] file.kind = "template" ->
         [i \in DOMAIN file.ids |->
            IF TemplateFails(file.obj, file.ids[i]) THEN Failure
            ELSE IF IsError(file.obj) THEN Addition(file.obj, file.ids[i], TRUE)
            ELSE Addition(FromTemplate(file.obj, file.ids[i]), file.ids[i], TRUE)]
    [] file.kind = "unreadable" -> <<Failure>>
    [] OTHER -> <<>>

(* The slots an addition is put into, and the keys of the index it is put  *)
(* under.                                                                  *)
Puts(a) == IF IsError(a.obj) THEN ErrSlots(a.id) ELSE Slots(a.obj)
Labels(a) == IF a.obj.class = "domain" /\ SearchEnabled THEN Keys(a.obj.ldh) ELSE {}

(* Any file that fails makes the load fail, in whatever order they come.   *)
LoadSucceeds(dir) == \A n \in DOMAIN dir : \A i \in DOMAIN Additions(dir[n]) : Additions(dir[n])[i].ok

(* What the files of a listing add: by file, and in the file's order.      *)
AdditionsOf(files) == [f \in DOMAIN files |-> Additions(files[f])]
Added(adds) == UNION {{f} \X DOMAIN adds[f] : f \in DOMAIN adds}
IsLater(p, q) == p[1] > q[1] \/ (p[1] = q[1] /\ p[2] > q[2])
Last(ps) == CHOOSE p \in ps : \A q \in ps : ~IsLater(q, p)

(* What is put in last stands, and what was there stands elsewhere.        *)
Loaded(tx, files) ==
  LET adds == AdditionsOf(files)
      at(p) == adds[p[1]][p[2]]
      into(s) == {p \in Added(adds) : s \in Puts(at(p))}
      under(k) == {p \in Added(adds) : k \in Labels(at(p))}
      slots == UNION {Puts(at(p)) : p \in Added(adds)}
      keys == UNION {Labels(at(p)) : p \in Added(adds)}
  IN [slots |-> [s \in slots \union DOMAIN tx.slots |->
                   IF s \in slots THEN at(Last(into(s))).obj ELSE tx.slots[s]],
      index |-> [k \in keys \union DOMAIN tx.index |->
                   IF k \in keys THEN at(Last(under(k))).obj ELSE tx.index[k]]]

---------------------------------------------------------------------------
(* Mem: the lookups                                                        *)

Get(db, table, key) ==
  IF <<table, key>> \in DOMAIN db.slots THEN db.slots[<<table, key>>] ELSE NotFound

(* get_lpm: the longest stored prefix of the network that is asked for.    *)
GetLpm(db, version, net) ==
  LET around == {s \in DOMAIN db.slots :
                   s[1] = IpTable(version) /\ Covers(s[2], net[1], LastOf(net))}
  IN IF around = {} THEN NotFound
     ELSE db.slots[CHOOSE s \in around : \A t \in around : t[2][2] <= s[2][2]]

(* search_domains_by_name: an invalid search finds nothing, and redirects  *)
(* are no results.  A panic leaves the request without an answer.          *)
SearchDomains(db, text) ==
  LET found == SearchLabels(db.index, text)
  IN IF ~SearchEnabled THEN NotImplemented
     ELSE IF found.outcome = "panic" THEN [class |-> "no_answer"]
     ELSE [class |-> "domainSearchResults",
           results |-> {r \in found.hits : r.class = "domain"}]
=============================================================================
