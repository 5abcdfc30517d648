----------------------------- MODULE RdapRecord -----------------------------
(***************************************************************************)
(* The way of a record from the author who writes it with the library's    *)
(* builders to the reader of the client: contact and response builders of  *)
(* icann-rdap-common, the HTTP answer and its cached copies (httpdata.rs,  *)
(* and request.rs of the command), and what the client makes of redacted   *)
(* values before it shows the record (md of icann-rdap-client).            *)
(*                                                                         *)
(* The author goes on to publish other versions while copies of old ones   *)
(* are around.                                                             *)
(***************************************************************************)
EXTENDS Redactions, Checks

CONSTANTS Authors,      \* who may write, with what they have to say and how much
          Urls,         \* what the reader asks for
          Limits,       \* the reader's --max-cache-age
          MaxSeconds    \* the longest time that chrono can add to another

(* An author's bounds: on the setters called, the objects built, whether   *)
(* there is a server, the answers asked for and the time.                  *)
Bounds == [calls : Nat, builds : Nat, serves : BOOLEAN, asked : Nat, now : Nat]
ASSUME AuthorsAssumption == \A a \in Authors : a.bounds \in Bounds
ASSUME LimitsAssumption == Limits \subseteq Nat

VARIABLES author,
          contact,      \* the contact that is written
          said,         \* history: what the setters were called with
          object,       \* the object that is built
          place,        \* history: where the contact's entity is in it
          excuses,      \* history: why the object may not conform
          builds,
          published,    \* what the server answers
          now,
          copies,       \* the client's copies
          served,       \* history: what the server answered
          shown,        \* what the client showed last
          asked

authorVars == <<author, contact, said, object, place, excuses, builds, published>>
readerVars == <<now, copies, served, shown, asked>>
vars == <<authorVars, readerVars>>

Panic == [is |-> "panic"]
NoCopy == [is |-> "no copy"]
NothingShown == [is |-> "nothing"]
IsBuilt == object \notin {NoObject, Panic}

Init ==
  /\ author \in Authors
  /\ contact \in author.contacts
  /\ said = <<[set |-> "contact", to |-> contact]>>
  /\ object = NoObject
  /\ place = <<>>
  /\ excuses = {}
  /\ builds = 0
  /\ published = NoObject
  /\ now = 0
  /\ copies = [url \in Urls |-> NoCopy]
  /\ served = {}
  /\ shown = NothingShown
  /\ asked = 0

---------------------------------------------------------------------------
(* The author                                                              *)

(* The setters of Contact.                                                 *)
Write(call) ==
  /\ object = NoObject /\ Len(said) <= author.bounds.calls
  /\ contact' = CASE call.set = "emails" -> SetEmails(contact, call.to)
                  [] call.set \in {"voice", "fax"} -> AddPhones(contact, <<call.set>>, call.to)
                  [] call.set = "address" -> SetPostalAddress(contact, call.to)
  /\ said' = Append(said, call)
  /\ UNCHANGED <<author, object, place, excuses, builds, published, readerVars>>

BuildOne(kind, given, options) ==
  CASE kind = "domain" -> BasicDomain(given, options)
    [] kind = "idn" -> IdnDomain(given, options)
    [] kind = "entity" -> BasicEntity(given, options)
    [] kind = "nameserver" -> BasicNameserver(given.name, given.addresses, options)
    [] kind = "autnum" -> BasicAutnum(given.start, given.end, options)
    [] kind = "network" -> BasicNetwork(given, options)
    [] kind = "search" -> EmptySearch(given)
    [] kind = "help" -> BasicHelp(options)
    [] kind = "error" -> BasicError(given, options)
    [] kind = "redirect" -> Redirect(given)

RootOnly == {"no conformance", "entity of an entity", "untagged CIDR"}

(* What a builder leaves to the author.                                    *)
ExcusesOf(build) ==
  When(build.kind \in {"idn", "search", "error", "redirect"}, "no conformance")
  \union When(build.kind = "redirect", "redirect")
  \union When(build.kind = "entity" /\ ~Has(contact, "full_name"), "no name")
  \union When(build.kind = "network" /\ Cidrs[build.given].version = "v6", "untagged CIDR")

Build(build) ==
  /\ object # Panic /\ builds < author.bounds.builds
  /\ builds' = builds + 1
  /\ IF build.kind = "entity" /\ ToVcardPanics(contact)
     THEN object' = Panic /\ UNCHANGED <<place, excuses>>
     ELSE /\ object' = BuildOne(build.kind, build.given,
                                build.options @@ Field("contact", build.kind = "entity", contact))
          /\ place' = IF build.kind = "entity" THEN <<>> ELSE <<"none">>
          /\ excuses' = IF object' = NoObject THEN {} ELSE ExcusesOf(build)
  /\ UNCHANGED <<author, contact, said, published, readerVars>>

(* The member of an object of the kind that takes another object.          *)
TakesIn(build) ==
  CASE build.kind = "search" /\ ResultClass[build.given] = Class(object) -> build.given
    [] build.kind \in {"domain", "idn"} /\ Class(object) = "nameserver" -> "nameservers"
    [] build.kind \in {"domain", "idn", "nameserver", "autnum", "network", "entity"}
         /\ Class(object) = "entity" -> "entities"
    [] OTHER -> "none"

(* An object is built around the one there is, which is made a child or,   *)
(* as nothing asks for it, is not.  The entity around has no contact.  The *)
(* results of a search come with the conformance (search_domains_by_name   *)
(* of the server).                                                         *)
Nest(build, asChild) ==
  /\ IsBuilt /\ builds < author.bounds.builds
  /\ builds' = builds + 1
  /\ TakesIn(build) # "none"
  /\ LET member == TakesIn(build)
         inside == member :> <<IF asChild THEN ToChild(object) ELSE object>>
     IN /\ object' = IF build.kind = "search" THEN inside @@ Level0(<<>>, <<>>)
                     ELSE BuildOne(build.kind, build.given, inside @@ build.options)
        /\ place' = IF place = <<"none">> THEN place ELSE <<member, 1>> \o place
        /\ excuses' =
             IF object' = NoObject THEN {}
             ELSE (excuses \ RootOnly)
                  \union When(~asChild /\ Has(object, "rdapConformance"), "not made a child")
                  \union When(build.kind = "entity", "entity of an entity")
                  \union (ExcusesOf(build)
                          \ {"no name", IF build.kind = "search" THEN "no conformance" ELSE "none"})
  /\ UNCHANGED <<author, contact, said, published, readerVars>>

Link(link) ==
  /\ IsBuilt /\ Class(object) \in ObjectClasses
  /\ object' = SetSelfLink(object, link)
  /\ UNCHANGED <<author, contact, said, place, excuses, builds, published, readerVars>>

Publish ==
  /\ IsBuilt /\ author.bounds.serves
  /\ published' = object
  /\ UNCHANGED <<author, contact, said, object, place, excuses, builds, readerVars>>

---------------------------------------------------------------------------
(* The reader                                                              *)

(* What serde reads: the first kind of CIDR, whose members are the only    *)
(* ones it has then.                                                       *)
AsRead(rdap) ==
  IF ~Has(rdap, "cidr0_cidrs") THEN rdap
  ELSE [rdap EXCEPT !.cidr0_cidrs =
          [i \in DOMAIN @ |-> IF IsV4Cidr(@[i]) THEN Kept(@[i], {"v4prefix", "length"})
                              ELSE Kept(@[i], {"v6prefix", "length"})]]

(* HttpData::is_expired, in the order of its answers: the first max-age    *)
(* that is a number is the last word of the server.                        *)
MaxAgeOf(policy) == Has(policy, "maxAge") /\ policy.maxAge # IllTyped
ExpiresOf(policy) == Has(policy, "expires") /\ policy.expires # IllTyped

ASSUME PoliciesAssumption ==
  \A a \in Authors : \A policy \in a.policies :
    /\ MaxAgeOf(policy) => policy.maxAge \in Int
    /\ ExpiresOf(policy) => policy.expires \in Int

IsExpired(copy, limit) ==
  \/ now >= copy.received + limit
  \/ /\ MaxAgeOf(copy.policy)
     /\ now >= copy.received + copy.policy.maxAge
  \/ /\ ~MaxAgeOf(copy.policy) /\ ExpiresOf(copy.policy)
     /\ now >= copy.policy.expires

(* chrono panics rather than to add more than it can count.                *)
ExpiryPanics(copy, limit) ==
  now < copy.received + limit /\ MaxAgeOf(copy.policy) /\ copy.policy.maxAge > MaxSeconds

ShouldCache(policy) == ~Has(policy, "keep")

(* What is written of a domain and of the entities.                        *)
NoText == [rows |-> <<>>]
DomainTextOf(rdap) == IF Class(rdap) = "domain" THEN DomainText(rdap) ELSE NoText
EntityTexts(rdap) ==
  {[roles |-> Elements(entity, "roles"), of |-> EntityText(rdap, entity)] : entity \in EntitiesIn(rdap)}

(* replace_redacted_items and to_md, of what do_request returns.           *)
Show(rdap, limit) ==
  LET marked == Marked(rdap)
  IN shown' = IF ~IsRdap(marked) THEN Panic
              ELSE [is |-> "record", rdap |-> marked, asked |-> now, limit |-> limit,
                    domain |-> DomainTextOf(marked), texts |-> EntityTexts(marked)]

Copy(rdap, policy) == [is |-> "copy", rdap |-> rdap, policy |-> policy, received |-> now]

(* do_request finds a copy.                                                *)
ReadCopy(url, limit) ==
  /\ asked < author.bounds.asked /\ copies[url] # NoCopy
  /\ IF ExpiryPanics(copies[url], limit) THEN shown' = Panic
     ELSE ~IsExpired(copies[url], limit) /\ Show(copies[url].rdap, limit)
  /\ asked' = asked + 1
  /\ UNCHANGED <<authorVars, now, copies, served>>

(* A slip the runs must catch: what is kept is what is shown.              *)
FetchMarksFirst(url, limit, policy) ==
  /\ asked < author.bounds.asked /\ published # NoObject
  /\ copies[url] # NoCopy => ~ExpiryPanics(copies[url], limit) /\ IsExpired(copies[url], limit)
  /\ LET rdap == AsRead(published)
         self == GetSelfLink(rdap)
         kept == IF ~ShouldCache(policy) \/ ~IsRdap(Marked(rdap)) THEN {}
                 ELSE {url} \union ({self[m] : m \in {"href"} \intersect DOMAIN self} \intersect Urls)
     IN /\ copies' = [u \in Urls |-> IF u \in kept THEN Copy(Marked(rdap), policy) ELSE copies[u]]
        /\ served' = served \union {[rdap |-> rdap, policy |-> policy, at |-> now]}
        /\ Show(rdap, limit)
  /\ asked' = asked + 1
  /\ UNCHANGED <<authorVars, now>>

(* do_request asks, and keeps the answer under the URL and under the one   *)
(* that the answer says is its own.                                        *)
Fetch(url, limit, policy) ==
  /\ asked < author.bounds.asked /\ published # NoObject
  /\ copies[url] # NoCopy => ~ExpiryPanics(copies[url], limit) /\ IsExpired(copies[url], limit)
  /\ LET rdap == AsRead(published)
         self == GetSelfLink(rdap)
         kept == IF ~ShouldCache(policy) THEN {}
                 ELSE {url} \union ({self[m] : m \in {"href"} \intersect DOMAIN self} \intersect Urls)
     IN /\ copies' = [u \in Urls |-> IF u \in kept THEN Copy(rdap, policy) ELSE copies[u]]
        /\ served' = served \union {[rdap |-> rdap, policy |-> policy, at |-> now]}
        /\ Show(rdap, limit)
  /\ asked' = asked + 1
  /\ UNCHANGED <<authorVars, now>>

Tick ==
  /\ now < author.bounds.now
  /\ now' = now + 1
  /\ UNCHANGED <<authorVars, copies, served, shown, asked>>

Next ==
  \/ \E call \in author.calls : Write(call)
  \/ \E build \in author.builds : Build(build) \/ \E asChild \in BOOLEAN : Nest(build, asChild)
  \/ \E link \in author.links : Link(link)
  \/ Publish
  \/ \E url \in Urls, limit \in Limits :
       ReadCopy(url, limit) \/ \E policy \in author.policies : Fetch(url, limit, policy)
  \/ Tick

Spec == Init /\ [][Next]_vars

---------------------------------------------------------------------------
(* A built object is in order when it gets to the reader: the checks that  *)
(* rdap-test and the command make find no error in what the builders       *)
(* (response/*.rs) make of an author's sound data, however the objects are *)
(* put into each other, unless one of the excuses holds: the builders of   *)
(* IDNs, errors, redirects and empty searches have no conformance, an      *)
(* entity in an entity is taken for a root, an IPv6 network is read as one *)
(* of IPv4, an object that is put into another without to_child, and a     *)
(* contact without a name.                                                 *)
BuiltConforms ==
  IsBuilt /\ excuses = {} =>
    ~AnyOfClasses(GetChecks(AsRead(object), ForRdap(object, FALSE)), {"StdError", "Cidr0Error"})

(* The library says of add_voice_phones and add_fax_phones that they add   *)
(* to the set of phones (contact/mod.rs): a number that was added, by      *)
(* whatever calls in whatever order, is among the contact's phones.        *)
PhonesAdded ==
  \A call \in SE!ToSet(said) : call.set \in {"voice", "fax"} =>
    \A number \in SE!ToSet(call.to) :
      \E i \in DOMAIN TextsOf(contact, "phones") : contact.phones[i].phone = number

(* What was said of a contact, as the reader should find it.               *)
SaidLast(kinds) ==
  LET calls == SelectSeq(said, LAMBDA call : call.set \in kinds)
  IN IF calls = <<>> THEN <<>> ELSE <<calls[Len(calls)].to>>
SaidFirst == said[1].to

EmailsSaid ==
  IF SaidLast({"emails"}) = <<>> THEN TextsOf(SaidFirst, "emails")
  ELSE [i \in DOMAIN SaidLast({"emails"})[1] |-> [email |-> SaidLast({"emails"})[1][i]]]

AddressesSaid ==
  IF SaidLast({"address"}) = <<>> THEN TextsOf(SaidFirst, "postal_addresses")
  ELSE SaidLast({"address"})

KnownContexts(item) == {word \in SE!ToSet(TextsOf(item, "contexts")) : Folded(word) \in Contexts}

(* The words that go with an item are there, in the one list or the other. *)
SameWords(item, read, words) ==
  LET readWords == SE!ToSet(TextsOf(read, "contexts")) \union SE!ToSet(TextsOf(read, "features"))
  IN /\ {Folded(word) : word \in words} \subseteq readWords
     /\ readWords \subseteq {Folded(word) : word \in words} \union {<<>>}
     /\ TextOf(item, "preference") = TextOf(read, "preference")

SamePhone(item, read) ==
  /\ item.phone = read.phone
  /\ SameWords(item, read, SE!ToSet(TextsOf(item, "contexts") \o TextsOf(item, "features")))

SameEmail(item, read) == item.email = read.email /\ SameWords(item, read, KnownContexts(item))

(* The name of a region or a country goes before its code, and it is what  *)
(* is read in the one place or the other.                                  *)
SameArea(item, read, name, code) ==
  LET text == IF Has(item, name) THEN item[name] ELSE TextOf(item, code)
  IN {TextOf(read, name), TextOf(read, code)} = {text, <<>>}

SameAddress(item, read) ==
  /\ \A field \in {"locality", "postal_code"} : TextOf(item, field) = TextOf(read, field)
  /\ SameArea(item, read, "region_name", "region_code")
  /\ SameArea(item, read, "country_name", "country_code")
  /\ TextsOf(read, "street_parts")
       = LET street == TextsOf(item, "street_parts")
         IN SelectSeq(SubSeq(street, 1, IF Len(street) < 3 THEN Len(street) ELSE 3),
                      LAMBDA part : part # <<>>)
  /\ Has(read, "full_address") => Has(item, "full_address")
  /\ Has(item, "full_address") /\ IsQuoted(item.full_address) =>
       TextOf(read, "full_address") \in {item.full_address, Unquoted(item.full_address)}
  /\ SameWords(item, read, KnownContexts(item))

SameItems(items, reads, Same(_, _)) ==
  /\ DOMAIN items = DOMAIN reads
  /\ \A i \in DOMAIN items : Same(items[i], reads[i])

(* What an author says of a contact is what the reader finds: to_vcard.rs  *)
(* and from_vcard.rs are each other's inverse, in whatever object the      *)
(* entity is, but for what is named here: a fourth line of a street is     *)
(* lost, a context that is not known is a feature of a phone and lost      *)
(* elsewhere, empty texts are none, and nothing is claimed of a            *)
(* full_address that is no quoted text: one that is other JSON is lost,    *)
(* and any other, an ordinary address, makes to_vcard panic                *)
(* (to_vcard.rs:129).  The phones are those of the contact; whether the    *)
(* setters kept them is PhonesAdded's question.                            *)
ContactSurvives ==
  IsBuilt /\ place # <<"none">> =>
    LET read == FromVcard(At(AsRead(object), place).vcardArray)
        same == {"kind", "full_name", "titles", "roles", "nick_names", "organization_names", "langs",
                 "contact_uris", "urls"}
    IN /\ \A field \in same : Has(SaidFirst, field) = Has(read, field)
                              /\ Has(read, field) => SaidFirst[field] = read[field]
       /\ \A part \in DOMAIN TextsOf(read, "name_parts") :
            read.name_parts[part] = SelectSeq(SaidFirst.name_parts[part], LAMBDA text : text # <<>>)
       /\ SameItems(EmailsSaid, TextsOf(read, "emails"), SameEmail)
       /\ SameItems(TextsOf(contact, "phones"), TextsOf(read, "phones"), SamePhone)
       /\ SameItems(AddressesSaid, TextsOf(read, "postal_addresses"), SameAddress)

(* The server answered this, and neither it nor the reader said that it is *)
(* too old by now.                                                         *)
StillGood(answer, at, limit) ==
  answer.at = at
  \/ /\ ~Has(answer.policy, "keep")
     /\ at - answer.at < limit
     /\ IF MaxAgeOf(answer.policy) THEN at - answer.at < answer.policy.maxAge
        ELSE ExpiresOf(answer.policy) => at < answer.policy.expires

(* How often a place is marked: once for every redaction that names it     *)
(* and says that its value is empty or there in part.                      *)
MarksOf(rdap, where) ==
  Cardinality({i \in DOMAIN rdap.redacted :
                 LET redaction == rdap.redacted[i]
                 IN /\ {"method", "postPath"} \subseteq DOMAIN redaction
                    /\ redaction.method \in {"emptyValue", "partialValue"}
                    /\ Has(redaction, "pathLang") => IsText(redaction.pathLang, "jsonpath")
                    /\ where \in redaction.postPath})

WithMarks(text, marks) ==
  LET marked[n \in 0..marks] == IF n = 0 THEN text ELSE Starred(marked[n - 1]) IN marked[marks]

PlacesNamed(rdap) ==
  {where \in UNION {redaction.postPath : redaction \in
                     {r \in Elements(rdap, "redacted") : Has(r, "postPath")}} : IsString(rdap, where)}

Without(rdap, places) == SE!FoldSet(LAMBDA where, json : PutAt(json, where, IllTyped), rdap, places)

OnlyMarked(rdap, displayed) ==
  LET places == PlacesNamed(rdap)
  IN /\ \A where \in places : IsAt(displayed, where)
     /\ \A where \in places : IsTextAt(rdap, where) =>
          LET marks == MarksOf(rdap, where)
          IN IF where[Len(where)] \in TextLists
             THEN At(displayed, where)
                    = [i \in DOMAIN At(rdap, where) |-> WithMarks(At(rdap, where)[i], marks)]
             ELSE At(displayed, where) = WithMarks(At(rdap, where), marks)
     /\ Without(displayed, places) = Without(rdap, places)

(* Whose value a registered redaction is about, and which one it is.       *)
About == [
  registrantId |-> <<"Registry Registrant ID", "registrant", "handle">>,
  registrantName |-> <<"Registrant Name", "registrant", "full_name">>,
  registrantCity |-> <<"Registrant City", "registrant", "postal_addresses">>,
  registrantPhone |-> <<"Registrant Phone", "registrant", "phones">>,
  registrantEmail |-> <<"Registrant Email", "registrant", "emails">>,
  techName |-> <<"Tech Name", "technical", "full_name">>,
  techEmail |-> <<"Tech Email", "technical", "emails">>]

RowHides(rows, field) ==
  IF ~Has(rows, field) THEN TRUE
  ELSE IF field = "postal_addresses"
       THEN \A i \in DOMAIN rows[field] : rows[field][i].locality = Hidden
       ELSE rows[field] = Hidden

NamesOf(rdap) ==
  {r.nameType : r \in {r \in Elements(rdap, "redacted") : Has(r, "nameType")}}

HidesWhatIsNamed(names, domain, texts) ==
  /\ Text("Registry Domain ID") \in names => RowHides(domain.rows, "handle")
  /\ \A a \in DOMAIN About : Text(About[a][1]) \in names =>
       \A text \in texts : Text(About[a][2]) \in text.roles => RowHides(text.of.rows, About[a][3])

(* What the command shows is made of what a server answered, no longer ago *)
(* than the reader's limit and the server's header allow (httpdata.rs,     *)
(* request.rs): the copies are of the answer as it came, and are marked    *)
(* each time they are shown, once.  The row of a value that a registered   *)
(* redaction of the shown record is about does not tell it                 *)
(* (registered_redactions.rs, md/entity.rs, md/domain.rs).  No more than   *)
(* the row: the handle of an entity is in its header and in the summaries  *)
(* of what it is in, the handle of a domain without a name is in its       *)
(* header, and the parts of a name and the label of an address stay.       *)
ShownStands ==
  shown.is = "record" =>
    \E answer \in served :
      /\ StillGood(answer, shown.asked, shown.limit)
      /\ shown.rdap = Marked(answer.rdap)
      /\ HidesWhatIsNamed(NamesOf(shown.rdap), shown.domain, shown.texts)

(* What is shown differs from an answer of the server by the marks that    *)
(* its redactions ask for, one for each that names the place and says that *)
(* the value is empty or there in part, and by nothing else                *)
(* (md/redacted.rs), whatever places the redactions name: their own names  *)
(* and the roles of entities too, which undoes what is registered.         *)
MarksAsNamed ==
  shown.is = "record" => \E answer \in served : OnlyMarked(answer.rdap, shown.rdap)

=============================================================================
