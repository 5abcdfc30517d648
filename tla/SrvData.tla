------------------------------ MODULE SrvData ------------------------------
(***************************************************************************)
(* rdap-srv-data: the program that makes an RDAP object and writes it into *)
(* the data directory, as an object, as a template or as a redirect        *)
(* (icann-rdap-srv/src/bin/rdap-srv-data.rs).                              *)
(*                                                                         *)
(* A run is given a command, the keys of the object, the handles of its    *)
(* entities and the names of its nameservers; the rest of what the object  *)
(* holds is data.  Whether the object passes the checks is part of what    *)
(* the run is given.                                                       *)
(***************************************************************************)
EXTENDS StoreContent

CONSTANTS BaseUrl,   \* --base-url
          ALabels    \* the U-labels, and their A-labels

ASSUME BaseUrlAssumption == BaseUrl \in Seq(STRING)
ASSUME ALabelsAssumption ==
  None \notin DOMAIN ALabels /\ \A u \in DOMAIN ALabels : ALabels[u] # None

DefaultHost == <<".", ".", "default">>
Classes == Segments \union {"help"}

---------------------------------------------------------------------------
(* The parts of an object                                                  *)

(* idna::domain_to_ascii and domain_to_unicode.                            *)
ToUnicode(ldh) == IF \E u \in DOMAIN ALabels : ALabels[u] = ldh
                  THEN CHOOSE u \in DOMAIN ALabels : ALabels[u] = ldh ELSE ldh

(* The text of an object's key, in its self link.                          *)
IdText(id) ==
  CASE id.class \in {"domain", "nameserver"} -> id.ldh
    [] id.class = "entity" -> id.handle
    [] id.class = "autnum" -> NumText(id.start)
    [] id.class = "ip" -> NetText(id.version, FirstNet(NetRange(id)))

SelfHref(id) == BaseUrl \o <<id.class, "/">> \o IdText(id)

(* A slip the runs must catch: the A-label is not made of the U-label.     *)
DomainIdAsGiven(id) == id

(* make_domain: each of the two names is made of the other.                *)
DomainId(id) ==
  LET ldh == IF id.ldh = None THEN ALabels[id.unicode] ELSE id.ldh
  IN [id EXCEPT !.ldh = ldh, !.unicode = OrElse(id.unicode, ToUnicode(ldh))]

(* parse_cidr: the network around the address that is given.               *)
NetworkId(id) ==
  LET net == CHOOSE n \in Nets : n[2] = id.len /\ Covers(n, id.addr, id.addr)
  IN [class |-> "ip", version |-> id.version,
      start |-> <<id.version, net[1]>>, end |-> <<id.version, LastOf(net)>>]

(* The key of the object: an end or a host that is not given has a default.*)
MadeId(id) ==
  CASE id.class = "domain" -> DomainId(id)
    [] id.class = "ip" -> NetworkId(id)
    [] id.class = "autnum" -> [id EXCEPT !.end = IF @ = NoNumber THEN id.start ELSE @]
    [] id.class = "help" -> [id EXCEPT !.host = OrElse(@, <<"_", "_", "default">>)]
    [] OTHER -> id

(* get_entity and get_ns: what the object refers to has to be there.       *)
Refers(db, args) ==
  /\ \A h \in args.entities : Get(db, "entities", h).class = "entity"
  /\ \A n \in args.nameservers : Get(db, "nameservers", n).class = "nameserver"

(* What the command line takes: a key is needed by all but domains, which  *)
(* have two, and help; --template and --redirect exclude each other.       *)
IsArgs(args) ==
  /\ HasKey(args.id) \/ ("class" \in DOMAIN args.id /\ args.id.class = "ip")
  /\ args.id.class \in Classes
  /\ args.as \in {"json", "template", "redirect"}
  /\ args.id.class = "entity" => args.id.handle # None
  /\ args.id.class = "nameserver" => args.id.ldh # None
  /\ args.id.class = "autnum" => args.id.start # NoNumber
  /\ args.id.class = "ip" => /\ args.id.version \in {4, 6}
                             /\ args.id.len \in 0..Width /\ args.id.addr \in 0..(Pow2[Width] - 1)

---------------------------------------------------------------------------
(* The file                                                                *)

(* create_file_name: punctuation becomes "_", the scheme goes.             *)
FileName(href, extension) ==
  <<[i \in DOMAIN href |-> IF href[i] \in {".", "/", ":"} THEN "_" ELSE href[i]], extension>>

RedirectFile(id, url) ==
  [kind |-> "template", obj |-> ErrorResponse(307, url), ids |-> <<id>>]

MadeObject(id) ==
  [f \in DOMAIN id \union {"self"} |-> IF f = "self" THEN SelfHref(id) ELSE id[f]]

(* What do_the_work writes, under which name.                              *)
MadeFile(args) ==
  LET id == MadeId(args.id)
  IN CASE args.id.class = "help" ->
            [name |-> FileName(id.host, "help"),
             file |-> [kind |-> "help", host |-> FileName(id.host, "help")[1], obj |-> id]]
       [] args.as = "template" ->
            [name |-> FileName(SelfHref(id), "template"),
             file |-> [kind |-> "template", obj |-> MadeObject(id), ids |-> <<id>>]]
       [] args.as = "redirect" ->
            [name |-> FileName(SelfHref(id), "template"), file |-> RedirectFile(id, args.url)]
       [] OTHER ->
            [name |-> FileName(SelfHref(id), "json"),
             file |-> [kind |-> "json", obj |-> MadeObject(id)]]

(* What stops it before it writes: a domain without a name or with a       *)
(* U-label that IDNA refuses, help that is to be a template or a redirect, *)
(* references to what is not there, or the checks.                         *)
Refused(db, args) ==
  \/ args.id.class = "domain" /\ args.id.ldh = None /\ args.id.unicode \notin DOMAIN ALabels
  \/ args.id.class = "help" /\ args.as # "json"
  \/ ~Refers(db, args)
  \/ ~args.passes

---------------------------------------------------------------------------
(* The directory: the files in any order read_dir lists them.              *)
Listings(dir) == {[i \in DOMAIN names |-> dir[names[i]]] : names \in SE!SetToSeqs(DOMAIN dir)}

=============================================================================
