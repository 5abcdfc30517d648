--------------------------- MODULE MCRdapServing ---------------------------
(***************************************************************************)
(* A server with redirects for two top-level names, a tag, a network and   *)
(* some numbers, and files and runs of rdap-srv-data beside and above them.*)
(***************************************************************************)
EXTENDS RdapServing

MCBaseUrl == <<"host", "/">>
MCLowerCase == ("A" :> "a") @@ ("T" :> "t")
MCALabels == (<<"u">> :> <<"q">>) @@ (<<"u", ".", "x">> :> <<"q", ".", "x">>)

Domain(ldh, unicode) == [class |-> "domain", ldh |-> ldh, unicode |-> unicode]
Nameserver(ldh) == [class |-> "nameserver", ldh |-> ldh]
Entity(handle) == [class |-> "entity", handle |-> handle]
Autnum(start, end) == [class |-> "autnum", start |-> start, end |-> end]
Network(version, lo, hi) ==
  [class |-> "ip", version |-> version, start |-> <<version, lo>>, end |-> <<version, hi>>]
Cidr(version, addr, len) == [class |-> "ip", version |-> version, addr |-> addr, len |-> len]
Help(host) == [class |-> "help", host |-> host]

Linked(obj) == MadeObject(obj)
Plain(obj) == [self |-> None] @@ obj
Json(obj) == [kind |-> "json", obj |-> obj]
Template(obj, ids) == [kind |-> "template", obj |-> obj, ids |-> ids]
Redirect(url) == ErrorResponse(307, <<url>>)

File(name) == <<<<name>>, "file">>

AX == <<"a", ".", "x">>
NAX == <<"n", ".", "a", ".", "x">>
UX == <<"u", ".", "x">>
QX == <<"q", ".", "x">>

(* What a bootstrap load leaves behind.                                    *)
Registries ==
  (File("tlds") :> Template(Redirect("registry"), <<Domain(<<"x">>, None), Domain(AX, None)>>))
  @@ (File("tags") :> Template(Redirect("tagged"), <<Entity(<<"-", "T">>)>>))

Numbers ==
  (File("nums") :> Template(Redirect("rir"), <<Autnum(1, 2)>>))
  @@ (File("nets") :> Template(Redirect("rir"), <<Network(4, 0, 3)>>))
  @@ (File("other") :> [kind |-> "other"])

(* A registry's own objects, by template and one by one.                   *)
Objects ==
  (File("doms") :> Template(Linked(Domain(<<"t">>, None)), <<Domain(AX, None), Domain(QX, UX)>>))
  @@ (File("nets") :> Template(Linked(Network(4, 0, 0)), <<Network(4, 1, 3)>>))
  @@ (File("nums") :> Template(Linked(Autnum(9, 9)), <<Autnum(1, 2)>>))

Hosts ==
  (File("ns") :> Template(Linked(Nameserver(<<"n", ".", "n", ".", "n">>)), <<Nameserver(NAX)>>))
  @@ (File("ent") :> Template(Linked(Entity(<<"e">>)), <<Entity(<<"h">>)>>))
  @@ (File("gone") :> Template(ErrorResponse(410, None), <<Domain(AX, None)>>))

(* An object and a redirect for the same name, and a file nobody can load. *)
Twice ==
  (File("json") :> Json(Plain(Domain(AX, UX)))) @@ (File("template") :> Template(Redirect("registry"), <<Domain(AX, None)>>))

Broken == (File("nokey") :> Json(Plain(Domain(None, UX)))) @@ (File("json") :> Json(Plain(Domain(AX, None))))

MCFirstDir == {Registries, Numbers, Objects, Hosts, Twice, Broken}

Args(id, as, url, entities, nameservers) ==
  [id |-> id, as |-> as, url |-> <<url>>, entities |-> entities, nameservers |-> nameservers,
   passes |-> TRUE]

MCMadeArgs ==
  {Args(Domain(<<"b", ".", "a", ".", "x">>, None), "json", "", {}, {}),
   Args(Domain(None, UX), "template", "", {}, {NAX}),
   Args(Domain(AX, None), "redirect", "other", {<<"h">>}, {}),
   Args(Entity(<<"h", "-", "t">>), "json", "", {}, {}),
   Args(Autnum(3, NoNumber), "json", "", {}, {}),
   Args(Cidr(4, 3, 1), "redirect", "other", {}, {}),
   Args(Cidr(6, 0, 1), "template", "", {<<"h">>}, {}),
   Args(Help(None), "json", "", {}, {}),
   Args(Domain(None, None), "json", "", {}, {}),
   Args(Domain(None, <<"w", "w">>), "json", "", {}, {}),
   Args(Help(<<"a", ".", "x">>), "json", "", {}, {}),
   Args(Help(<<"a", ".", "x">>), "template", "", {}, {}),
   [Args(Entity(<<"e">>), "json", "", {}, {}) EXCEPT !.passes = FALSE]}

Query(kind, text) == [kind |-> kind, text |-> text]

MCQueries ==
  {Query("domain", <<"A", ".", "x", ".">>), Query("domain", UX), Query("domain", <<"b", ".", "a", ".", "x">>),
   Query("nameserver", NAX), Query("nameserver", AX),
   Query("entity", <<"h">>), Query("entity", <<"h", "-", "t">>),
   Query("ip", AddrText(<<4, 2>>)) @@ [version |-> 4, net |-> <<2, Width>>],
   Query("ip", NetText(6, <<0, 1>>)) @@ [version |-> 6, net |-> <<0, 1>>],
   Query("autnum", NumText(2)) @@ [num |-> 2],
   Query("help", AX), Query("help", DefaultHost),
   Query("domains", <<"a", "*">>), Query("domains", <<"b", "*", ".", "x">>), Query("domains", <<"a", "*", ".">>),
   Query("domains", <<"*">>), Query("domains", <<"w", "*">>), Query("domains", <<"w", "*", "x", "x">>),
   Query("nameservers", None)}

=============================================================================
