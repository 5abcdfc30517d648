----------------------------- MODULE Redactions -----------------------------
(***************************************************************************)
(* What the client does to redacted values: md/redacted.rs, and            *)
(* rdap/registered_redactions.rs as md/domain.rs and md/entity.rs use it.  *)
(*                                                                         *)
(* A place is the members and indices that lead to a value.  The path of a *)
(* redaction is the set of the places that it matches.                     *)
(***************************************************************************)
EXTENDS ResponseBuilders

(* Members that hold a text, lists of texts, and members whose text stands *)
(* for one of a few values.  A name that is not an object's own is one of  *)
(* a jCard property; nameType is the type in the name of a redaction.  The *)
(* texts of links, events and remarks, and of a redaction's other members, *)
(* are left out: nothing looks at them once they are marked.               *)
TextMembers == {"handle", "ldhName", "unicodeName", "port43", "type", "str", "nameType"}
TextLists == {"roles", "status"}
EnumMembers == {"objectClassName", "method"}

At(json, place) == SE!FoldLeft(LAMBDA value, member : value[member], json, place)

(* What the first i members of the place lead to.                          *)
AtPart(json, place, i) == At(json, SubSeq(place, 1, i))

(* There is something at the place.                                        *)
IsAt(json, place) == \A i \in DOMAIN place : place[i] \in DOMAIN AtPart(json, place, i - 1)

PutAt(json, place, value) ==
  SE!FoldRightDomain(LAMBDA i, inner : [AtPart(json, place, i - 1) EXCEPT ![place[i]] = inner],
                     place, value)

(* A path to a list of texts (roles[*]) is to each of them.                *)
IsTextAt(json, place) ==
  /\ IsAt(json, place)
  /\ place[Len(place)] \in TextMembers \union TextLists \/ place = <<"name">>

IsString(json, place) ==
  \/ IsTextAt(json, place)
  \/ IsAt(json, place) /\ place[Len(place)] \in EnumMembers \union {"name"}

Starred(text) == IF text = <<>> THEN <<"*REDACTED*">> ELSE <<"*">> \o text \o <<"*">>

StarredAt(json, place) ==
  LET value == At(json, place)
  IN IF place[Len(place)] \in TextLists THEN [i \in DOMAIN value |-> Starred(value[i])] ELSE Starred(value)

(* The class of an object and the method of a redaction are no more what   *)
(* serde reads; it reads the class of a nested object as any text.  A      *)
(* property of a jCard is found no more once its name is marked, nor is a  *)
(* role, nor the registered name of a redaction.                           *)
Star(json, place) ==
  CASE IsTextAt(json, place) -> PutAt(json, place, StarredAt(json, place))
    [] place[Len(place)] = "method" -> PutAt(json, <<place[1]>>, IllTyped)
    [] OTHER -> PutAt(json, place, IllTyped)

(* A slip the runs must catch: the language of a path is not looked at.    *)
IsMarkedInAnyLanguage(redaction) ==
  /\ Has(redaction, "postPath")
  /\ Has(redaction, "method") /\ redaction.method \in {"emptyValue", "partialValue"}

(* A redaction that says its path is of another language is passed over,   *)
(* and one whose method leaves nothing to mark.                            *)
IsMarked(redaction) ==
  /\ Has(redaction, "pathLang") => IsText(redaction.pathLang, "jsonpath")
  /\ Has(redaction, "postPath")
  /\ Has(redaction, "method") /\ redaction.method \in {"emptyValue", "partialValue"}

(* convert_redactions: one redaction after the other.                      *)
MarkOne(redaction, json) ==
  LET places == {place \in redaction.postPath : IsString(json, place)}
  IN IF IsMarked(redaction)
     THEN SE!FoldSet(LAMBDA place, marked : Star(marked, place), json, places)
     ELSE json

(* replace_redacted_items, but for what is read of it.                     *)
Marked(rdap) ==
  IF Has(rdap, "redacted")
  THEN SE!FoldLeft(LAMBDA json, redaction : MarkOne(redaction, json), rdap, rdap.redacted)
  ELSE rdap

---------------------------------------------------------------------------
(* The redactions that are registered with IANA.  They are looked for in   *)
(* the object that was asked for: the results of a search have none.       *)

IsRegistered(root, types) ==
  \E redaction \in Elements(root, "redacted") :
    Has(redaction, "nameType") /\ \E type \in types : SameIgnoringCase(redaction.nameType, Text(type))

HasRole(entity, roles) ==
  \E role \in Elements(entity, "roles") : \E r \in roles : SameIgnoringCase(role, Text(r))

Rule(types, roles) == [types |-> types, roles |-> roles]
OfBoth == {"registrant", "technical"}

(* Entity::to_md: what hides a value of an entity.                         *)
Hiding == [
  handle |-> {Rule({"Registry Registrant ID"}, {"registrant"}), Rule({"Registry Tech ID"}, {"technical"})},
  full_name |-> {Rule({"Registrant Name"}, {"registrant"}), Rule({"Tech Name"}, {"technical"})},
  postal_addresses |->
    {Rule({"Registrant Street", "Registrant City", "Registrant Postal Code"}, {"registrant"})},
  organization_names |-> {Rule({"Registrant Organization"}, {"registrant"})},
  phones |->
    {Rule({"Registrant Phone", "Registrant Phone Ext", "Registrant Fax", "Registrant Fax Ext",
           "Tech Phone", "Tech Phone Ext"}, OfBoth)},
  emails |-> {Rule({"Tech Email", "Registrant Email"}, OfBoth)}]

Hidden == "REDACTED"

Hides(root, entity, field) ==
  \E rule \in Hiding[field] : HasRole(entity, rule.roles) /\ IsRegistered(root, rule.types)

(* The address that is hidden is still there, without the parts that tell. *)
TellingParts == {"street_parts", "locality", "postal_code"}
HideAddress(address) ==
  [part \in DOMAIN address \union TellingParts |-> IF part \in TellingParts THEN Hidden ELSE address[part]]

(* The rows of an entity that redactions are registered for.  The          *)
(* organization, the phones and the emails are said to be hidden also      *)
(* when there are none, and so is the handle; without a contact nothing of *)
(* it is said.  The address keeps its label.                               *)
EntityRows(root, entity, contact) ==
  LET source(field) == IF field = "handle" THEN entity ELSE contact
      there == {field \in DOMAIN Hiding : Has(source(field), field)}
      hidden == {field \in DOMAIN Hiding :
                   /\ Hides(root, entity, field)
                   /\ field # "handle" => contact # NoContact
                   /\ field = "postal_addresses" => Has(contact, field)}
  IN [field \in there \union hidden |->
        IF field \notin hidden THEN source(field)[field]
        ELSE IF field = "postal_addresses"
             THEN [i \in DOMAIN contact[field] |-> HideAddress(contact[field][i])]
             ELSE Hidden]

(* get_header_text: of an entity its handle and its first role, of a       *)
(* domain or a nameserver the first name it has, or its handle.            *)
EntityHeader(entity) ==
  Kept(entity, {"handle"}) @@ Field("role", TextsOf(entity, "roles") # <<>>, TextsOf(entity, "roles")[1])

NameHeader(object) ==
  LET there == SelectSeq(<<"unicodeName", "ldhName", "handle">>, LAMBDA member : Has(object, member))
  IN IF there = <<>> THEN <<>> ELSE Kept(object, {there[1]})

Under(objects, lists) == UNION {Elements(object, list) : object \in objects, list \in lists}

(* The summary of an object repeats the headers of those below it, two     *)
(* levels down.                                                            *)
HeadersBelow(objects) ==
  {EntityHeader(entity) : entity \in Under(objects, {"entities"})}
  \union {NameHeader(server) : server \in Under(objects, {"nameservers"})}
Summary(object) ==
  HeadersBelow({object}) \union HeadersBelow(Under({object}, {"entities", "nameservers"}))

(* Entity::to_md: the header and the summary have the handle as it is, and *)
(* the parts of a name are written as they are.                            *)
EntityText(root, entity) ==
  LET contact == IF Has(entity, "vcardArray") THEN FromVcard(entity.vcardArray) ELSE NoContact
  IN [header |-> EntityHeader(entity), summary |-> Summary(entity),
      rows |-> EntityRows(root, entity, contact), parts |-> Kept(contact, {"name_parts"})]

(* The entities that are written out, at whatever depth.                   *)
EntityLists == {"entities", "entitySearchResults"}
ObjectLists == EntityLists \union {"domainSearchResults", "nameserverSearchResults", "nameservers"}

EntitiesUnder(json) ==
  LET level[n \in 0..MaxNesting] == IF n = 0 THEN {json} ELSE Under(level[n - 1], ObjectLists)
  IN Under(UNION {level[n] : n \in 0..MaxNesting}, EntityLists)

EntitiesIn(rdap) == (IF Class(rdap) = "entity" THEN {rdap} ELSE {}) \union EntitiesUnder(rdap)

(* Domain::to_md                                                           *)
DomainHandleText(domain) ==
  IF IsRegistered(domain, {"Registry Domain ID"}) THEN [handle |-> Hidden]
  ELSE Kept(domain, {"handle"})

DomainText(domain) ==
  [header |-> NameHeader(domain), summary |-> Summary(domain), rows |-> DomainHandleText(domain)]

=============================================================================
