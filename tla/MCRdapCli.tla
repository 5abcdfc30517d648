----------------------------- MODULE MCRdapCli -----------------------------
EXTENDS RdapCli

MCRegistryOf ==
  [k \in {"domain", "tld", "search", "inr", "entity", "url"} |->
     CASE k \in {"domain", "tld"} -> "dns" [] k \in {"inr", "entity"} -> "asn" [] OTHER -> "none"]
MCHintOrder == <<"dns", "asn">>

Plain == [kind |-> "domain", base |-> "rfc9224", process |-> "standard",
          json |-> FALSE, noCache |-> FALSE, backup |-> FALSE, reset |-> FALSE]

(* Every option beside the others' defaults.                               *)
MCInvocations ==
  {Plain,
   [Plain EXCEPT !.process = "registry", !.json = TRUE],
   [Plain EXCEPT !.process = "registrar"],
   [Plain EXCEPT !.noCache = TRUE],
   [Plain EXCEPT !.kind = "tld", !.process = "registrar", !.json = TRUE],
   [Plain EXCEPT !.kind = "search"],
   [Plain EXCEPT !.kind = "inr", !.backup = TRUE],
   [Plain EXCEPT !.kind = "entity", !.base = "hint"],
   [Plain EXCEPT !.kind = "url"],
   [Plain EXCEPT !.reset = TRUE]}

(* A registry's answer may link to the registrar's or not, and say that    *)
(* its URL is another; the registrar's links back and takes the            *)
(* registry's URL for its own.                                             *)
MCAnswers(u) ==
  LET Plainly == [from |-> u, self |-> u, related |-> NoUrl, cacheable |-> TRUE]
  IN CASE u = "dns" ->
            {[Plainly EXCEPT !.related = "registrar", !.self = "given"],
             [Plainly EXCEPT !.cacheable = FALSE]}
       [] u = "registrar" -> {[Plainly EXCEPT !.related = "dns", !.self = "dns"]}
       [] u = "tld" -> {[Plainly EXCEPT !.related = "registrar", !.self = NoUrl]}
       [] OTHER -> {Plainly}
=============================================================================
