------------------------------ MODULE Contacts ------------------------------
(***************************************************************************)
(* Contacts and jCards: icann-rdap-common/src/contact.                     *)
(*                                                                         *)
(* A contact is a record of the fields that are Some.  A jCard is a record *)
(* of its literal and, when it has that array, its properties.             *)
(***************************************************************************)
EXTENDS Responses

(* A JSON value in a property: a string or an array.  A number or another  *)
(* word, which is read like an array without strings, is an empty one.     *)
Str(text) == [str |-> text]
Arr(values) == [arr |-> values]
IsStr(value) == Has(value, "str")

(* A field that is there only when it has a value.                         *)
Field(name, present, value) == IF present THEN name :> value ELSE <<>>
Kept(record, fields) == [f \in DOMAIN record \intersect fields |-> record[f]]

---------------------------------------------------------------------------
(* The setters of Contact                                                  *)

Replace(contact, field, values) ==
  Field(field, values # <<>>, values) @@ Kept(contact, DOMAIN contact \ {field})

SetEmails(contact, emails) ==
  Replace(contact, "emails", [i \in DOMAIN emails |-> [email |-> emails[i]]])

(* add_voice_phones, add_fax_phones: when there are phones already they    *)
(* are appended to the new ones, and the result is dropped.                *)
AddPhones(contact, context, numbers) ==
  IF Has(contact, "phones") THEN contact
  ELSE Replace(contact, "phones",
               [i \in DOMAIN numbers |-> [phone |-> numbers[i], contexts |-> <<context>>]])

SetPostalAddress(contact, address) == Replace(contact, "postal_addresses", <<address>>)

---------------------------------------------------------------------------
(* Contact::to_vcard                                                       *)

Prop(name, params, value) == [name |-> name, params |-> params, value |-> value]

Each(contact, field, ToProp(_)) ==
  IF Has(contact, field) THEN [i \in DOMAIN contact[field] |-> ToProp(contact[field][i])] ELSE <<>>

(* vec_string_to_value and vec_string_to_param                             *)
OneOrMany(texts) ==
  CASE Len(texts) = 0 -> Str(<<>>)
    [] Len(texts) = 1 -> Str(texts[1])
    [] OTHER -> Arr([i \in DOMAIN texts |-> Str(texts[i])])

TextsOf(record, field) == IF Has(record, field) THEN record[field] ELSE <<>>
TextOf(record, field) == IF Has(record, field) THEN record[field] ELSE <<>>

PrefParam(item) == Field("pref", Has(item, "preference"), TextOf(item, "preference"))
TypeParam(item) == Field("type", Has(item, "contexts"), OneOrMany(TextsOf(item, "contexts")))

NameOrder == <<"surnames", "given_names", "middle_names", "prefixes", "suffixes">>

(* The text of an address is parsed as JSON (its escapes are left out):    *)
(* what is no JSON panics, and only a string comes out as a text.          *)
JsonWords == {"123", "true", "false", "null"}
Unquoted(text) == SubSeq(text, 2, Len(text) - 1)
IsQuoted(text) ==
  /\ Len(text) >= 2 /\ text[1] = "'" /\ text[Len(text)] = "'"
  /\ \A i \in 2..(Len(text) - 1) : text[i] # "'"
IsJson(text) == IsQuoted(text) \/ \E word \in JsonWords : text = Text(word)

Label(text) == IF IsQuoted(text) THEN Str(Unquoted(text)) ELSE Arr(<<>>)

ToVcardPanics(contact) ==
  \E i \in DOMAIN TextsOf(contact, "postal_addresses") :
    LET address == contact.postal_addresses[i]
    IN Has(address, "full_address") /\ ~IsJson(address.full_address)

(* A slip the runs must catch: a code goes before the name.                *)
AddressLinesCodeFirst(address) ==
  LET street == TextsOf(address, "street_parts")
      line(i) == IF i \in DOMAIN street THEN street[i] ELSE <<>>
      nameOrCode(name, code) == IF Has(address, code) THEN address[code] ELSE TextOf(address, name)
  IN <<line(1), line(2), line(3), TextOf(address, "locality"),
       nameOrCode("region_name", "region_code"), TextOf(address, "postal_code"),
       nameOrCode("country_name", "country_code")>>

(* The lines of an address: three of the street, and the name of a region  *)
(* or a country before its code.                                           *)
AddressLines(address) ==
  LET street == TextsOf(address, "street_parts")
      line(i) == IF i \in DOMAIN street THEN street[i] ELSE <<>>
      nameOrCode(name, code) == IF Has(address, name) THEN address[name] ELSE TextOf(address, code)
  IN <<line(1), line(2), line(3), TextOf(address, "locality"),
       nameOrCode("region_name", "region_code"), TextOf(address, "postal_code"),
       nameOrCode("country_name", "country_code")>>

PhoneProp(phone) ==
  Prop("tel", PrefParam(phone)
              @@ ("type" :> OneOrMany(TextsOf(phone, "contexts") \o TextsOf(phone, "features"))),
       Str(phone.phone))

AddressProp(address) ==
  Prop("adr", PrefParam(address) @@ TypeParam(address)
              @@ Field("label", Has(address, "full_address"), Label(TextOf(address, "full_address"))),
       Arr([i \in 1..7 |-> Str(AddressLines(address)[i])]))

NameProp(parts) ==
  Prop("n", <<>>, Arr([i \in 1..5 |-> OneOrMany(TextsOf(parts, NameOrder[i]))]))

ToVcard(contact) ==
  LET single(name, field) ==
        IF Has(contact, field) THEN <<Prop(name, <<>>, Str(contact[field]))>> ELSE <<>>
      texts(name, field) == Each(contact, field, LAMBDA text : Prop(name, <<>>, Str(text)))
      names == IF Has(contact, "name_parts") THEN <<NameProp(contact.name_parts)>> ELSE <<>>
      lang(l) == Prop("lang", PrefParam(l), Str(l.tag))
      email(e) == Prop("email", PrefParam(e) @@ TypeParam(e), Str(e.email))
  IN [literal |-> "vcard",
      properties |->
        <<Prop("version", <<>>, Str(<<"4.0">>))>> \o single("fn", "full_name") \o names
        \o single("kind", "kind") \o Each(contact, "langs", lang)
        \o texts("org", "organization_names") \o texts("title", "titles") \o texts("role", "roles")
        \o texts("nickname", "nick_names") \o Each(contact, "emails", email)
        \o Each(contact, "phones", PhoneProp) \o Each(contact, "postal_addresses", AddressProp)
        \o texts("contact-uri", "contact_uris") \o texts("url", "urls")]

---------------------------------------------------------------------------
(* Contact::from_vcard                                                     *)

Contexts == {<<"home">>, <<"work">>, <<"office">>, <<"private">>, <<"mobile">>, <<"cell">>}

(* A code is two characters, neither of them in lower case.                *)
LowerCase == {CaseFold[token] : token \in DOMAIN CaseFold}
IsCode(text) == Len(text) = 2 /\ \A i \in DOMAIN text : text[i] \notin LowerCase

(* find_properties: by name, whatever its case.                            *)
Found(vcard, name) == SelectSeq(vcard.properties, LAMBDA prop : IsText(prop.name, name))
FoundTexts(vcard, name) == SelectSeq(Found(vcard, name), LAMBDA prop : IsStr(prop.value))

(* The strings of a value that are not empty: get_string_or_vec.           *)
Strings(values) == SelectSeq(values, LAMBDA value : IsStr(value) /\ value.str # <<>>)
StringsOf(value) ==
  LET strings == Strings(IF IsStr(value) THEN <<value>> ELSE value.arr)
  IN [i \in DOMAIN strings |-> strings[i].str]

Preference(prop) ==
  Field("preference", Has(prop.params, "pref") /\ prop.params.pref # IllTyped, TextOf(prop.params, "pref"))

(* The strings of the type parameter, in lower case.  An empty string      *)
(* that stands alone is one of them.                                       *)
Types(prop) ==
  LET type == prop.params["type"]
      strings == IF IsStr(type) THEN <<type>> ELSE SelectSeq(type.arr, IsStr)
  IN IF Has(prop.params, "type") THEN [i \in DOMAIN strings |-> Folded(strings[i].str)] ELSE <<>>

(* get_contexts and get_features: what is no context is a feature.         *)
ContextsField(prop) ==
  LET contexts == SelectSeq(Types(prop), LAMBDA type : type \in Contexts)
  IN Field("contexts", contexts # <<>>, contexts)

FeaturesField(prop) ==
  LET features == SelectSeq(Types(prop), LAMBDA type : type \notin Contexts)
  IN Field("features", features # <<>>, features)

ToPhone(prop) == ("phone" :> prop.value.str) @@ FeaturesField(prop) @@ ContextsField(prop) @@ Preference(prop)
ToEmail(prop) == ("email" :> prop.value.str) @@ ContextsField(prop) @@ Preference(prop)
ToLang(prop) == ("tag" :> prop.value.str) @@ Preference(prop)

(* get_postal_addresses: the street may be an array of its own.            *)
ToPostalAddress(prop) ==
  LET lines == IF IsStr(prop.value) THEN <<>> ELSE prop.value.arr
      line(i) == IF i \in DOMAIN lines /\ IsStr(lines[i]) THEN lines[i].str ELSE <<>>
      street == StringsOf(Arr(SubSeq(lines, 1, 2)))
                \o (IF 3 \in DOMAIN lines THEN StringsOf(lines[3]) ELSE <<>>)
      label == IF Has(prop.params, "label") THEN prop.params.label ELSE Arr(<<>>)
      codeOrName(i, code, name) == Field(IF IsCode(line(i)) THEN code ELSE name, line(i) # <<>>, line(i))
  IN Field("full_address", IsStr(label), IF IsStr(label) THEN label.str ELSE <<>>)
     @@ Field("street_parts", street # <<>>, street)
     @@ Field("locality", line(4) # <<>>, line(4))
     @@ codeOrName(5, "region_code", "region_name")
     @@ Field("postal_code", line(6) # <<>>, line(6))
     @@ codeOrName(7, "country_code", "country_name")
     @@ ContextsField(prop) @@ Preference(prop)

ToNameParts(prop) ==
  LET values == IF IsStr(prop.value) THEN <<>> ELSE prop.value.arr
      part(i) == IF i \in DOMAIN values THEN StringsOf(values[i]) ELSE <<>>
  IN [f \in {NameOrder[i] : i \in {i \in 1..5 : part(i) # <<>>}} |->
        part(CHOOSE i \in 1..5 : NameOrder[i] = f)]

(* A jCard without anything in it is no contact.                           *)
NoContact == <<>>

FromVcard(vcard) ==
  LET texts(name, field) ==
        LET found == FoundTexts(vcard, name)
        IN Field(field, found # <<>>, [i \in DOMAIN found |-> found[i].value.str])
      single(name, field) ==
        LET found == Found(vcard, name)
        IN IF found = <<>> THEN <<>> ELSE Field(field, IsStr(found[1].value), found[1].value.str)
      all(found, field, Read(_)) == Field(field, found # <<>>, [i \in DOMAIN found |-> Read(found[i])])
      parts == IF Found(vcard, "n") = <<>> THEN <<>> ELSE ToNameParts(Found(vcard, "n")[1])
  IN IF ~IsText(vcard.literal, "vcard") \/ ~Has(vcard, "properties") THEN NoContact
     ELSE single("fn", "full_name") @@ single("kind", "kind") @@ texts("title", "titles")
          @@ texts("role", "roles") @@ texts("nickname", "nick_names")
          @@ texts("org", "organization_names") @@ all(FoundTexts(vcard, "lang"), "langs", ToLang)
          @@ all(FoundTexts(vcard, "email"), "emails", ToEmail)
          @@ all(FoundTexts(vcard, "tel"), "phones", ToPhone)
          @@ all(Found(vcard, "adr"), "postal_addresses", ToPostalAddress)
          @@ Field("name_parts", DOMAIN parts # {}, parts)
          @@ texts("contact-uri", "contact_uris") @@ texts("url", "urls")

=============================================================================
