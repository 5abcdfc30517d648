-------------------------- MODULE RdapRecordProofs --------------------------
(***************************************************************************)
(* What a reader is shown is an answer of the server that is still good,   *)
(* whatever the authors write and publish in the meantime, and the rows    *)
(* that a registered redaction is about do not tell it.                    *)
(*                                                                         *)
(* RecordInv says where a copy comes from and what was good when a record  *)
(* was shown; it speaks of documents as they are.  Of what the fold Marked *)
(* does to the places of one document nothing is proved: that is the part  *)
(* of MarksAsNamed.                                                        *)
(***************************************************************************)
EXTENDS RdapRecord, TLAPS

---------------------------------------------------------------------------
(* The invariant                                                           *)

IsAnswer(answer) ==
  /\ answer.at \in Nat
  /\ MaxAgeOf(answer.policy) => answer.policy.maxAge \in Int
  /\ ExpiresOf(answer.policy) => answer.policy.expires \in Int

(* No answer is from the future.                                           *)
AnswersBefore == now \in Nat /\ \A answer \in served : IsAnswer(answer) /\ answer.at <= now

(* A copy is of an answer that may be kept, and as old as it.              *)
IsCopyOf(copy, answer) ==
  /\ copy.rdap = answer.rdap /\ copy.policy = answer.policy /\ copy.received = answer.at
  /\ ~Has(answer.policy, "keep")

CopiesServed ==
  \A url \in Urls : copies[url] # NoCopy => \E answer \in served : IsCopyOf(copies[url], answer)

(* What is shown is made of an answer that was good then.                  *)
IsShowing(record, answer) ==
  /\ StillGood(answer, record.asked, record.limit)
  /\ record.rdap = Marked(answer.rdap)
  /\ IsRdap(record.rdap)
  /\ record.domain = DomainTextOf(record.rdap)
  /\ record.texts = EntityTexts(record.rdap)

ShownServed == shown.is = "record" => \E answer \in served : IsShowing(shown, answer)

IsAuthor == author \in Authors

RecordInv == AnswersBefore /\ CopiesServed /\ ShownServed

---------------------------------------------------------------------------
(* The steps                                                               *)

LEMMA InitRecord == Init => RecordInv
<1> SUFFICES ASSUME Init PROVE RecordInv
  OBVIOUS
<1>1. AnswersBefore
  BY DEF Init, AnswersBefore
<1>2. CopiesServed
  BY DEF Init, CopiesServed
<1>3. ShownServed
  BY DEF Init, ShownServed, NothingShown
<1> QED
  BY <1>1, <1>2, <1>3 DEF RecordInv

(* The author does not touch what the reader has.                          *)
LEMMA AuthorStep ==
  ASSUME RecordInv, UNCHANGED readerVars
  PROVE  RecordInv'
  BY DEF RecordInv, AnswersBefore, CopiesServed, ShownServed, readerVars

LEMMA TickStep ==
  ASSUME RecordInv, Tick
  PROVE  RecordInv'
<1>1. AnswersBefore'
  BY DEF RecordInv, AnswersBefore, IsAnswer, Tick
<1>2. CopiesServed' /\ ShownServed'
  BY DEF RecordInv, CopiesServed, ShownServed, Tick
<1> QED
  BY <1>1, <1>2 DEF RecordInv

(* What is shown of an answer that is still good.                          *)
LEMMA ShowStep ==
  ASSUME NEW answer, NEW limit, Show(answer.rdap, limit), StillGood(answer, now, limit),
         answer \in served'
  PROVE  ShownServed'
<1> DEFINE marked == Marked(answer.rdap)
<1>1. CASE ~IsRdap(marked)
  BY <1>1 DEF Show, ShownServed, Panic
<1>2. CASE IsRdap(marked)
  <2>1. shown' = [is |-> "record", rdap |-> marked, asked |-> now, limit |-> limit,
                  domain |-> DomainTextOf(marked), texts |-> EntityTexts(marked)]
    BY <1>2 DEF Show
  <2>2. IsShowing(shown', answer)
    <3> HIDE DEF marked
    <3>1. /\ shown'.rdap = marked /\ shown'.asked = now /\ shown'.limit = limit
          /\ shown'.domain = DomainTextOf(marked) /\ shown'.texts = EntityTexts(marked)
      BY <2>1
    <3> QED
      BY <3>1, <1>2 DEF IsShowing, marked
  <2> QED
    BY <2>2 DEF ShownServed
<1> QED
  BY <1>1, <1>2

(* A copy that is not expired is of an answer that is still good.          *)
LEMMA CopyStillGood ==
  ASSUME NEW answer, NEW copy, NEW limit \in Nat, AnswersBefore, answer \in served,
         IsCopyOf(copy, answer), ~IsExpired(copy, limit)
  PROVE  StillGood(answer, now, limit)
<1>1. now \in Nat /\ answer.at \in Nat /\ IsAnswer(answer)
  BY DEF AnswersBefore, IsAnswer
<1>2. now - answer.at < limit
  BY <1>1 DEF IsExpired, IsCopyOf
<1>3. MaxAgeOf(answer.policy) => now - answer.at < answer.policy.maxAge
  BY <1>1 DEF IsExpired, IsCopyOf, IsAnswer
<1>4. ~MaxAgeOf(answer.policy) => (ExpiresOf(answer.policy) => now < answer.policy.expires)
  BY <1>1 DEF IsExpired, IsCopyOf, IsAnswer
<1> QED
  BY <1>2, <1>3, <1>4 DEF StillGood, IsCopyOf

LEMMA ReadCopyStep ==
  ASSUME RecordInv, NEW url \in Urls, NEW limit \in Limits, ReadCopy(url, limit)
  PROVE  RecordInv'
<1>1. AnswersBefore' /\ CopiesServed'
  BY DEF RecordInv, AnswersBefore, CopiesServed, ReadCopy
<1>2. ShownServed'
  <2>1. CASE ExpiryPanics(copies[url], limit)
    BY <2>1 DEF ReadCopy, ShownServed, Panic
  <2>2. CASE ~ExpiryPanics(copies[url], limit)
    <3>1. PICK answer \in served : IsCopyOf(copies[url], answer)
      BY DEF ReadCopy, RecordInv, CopiesServed
    <3>2. ~IsExpired(copies[url], limit) /\ Show(copies[url].rdap, limit) /\ served' = served
      BY <2>2 DEF ReadCopy
    <3>3. StillGood(answer, now, limit)
      BY <3>1, <3>2, CopyStillGood, LimitsAssumption DEF RecordInv
    <3>4. Show(answer.rdap, limit)
      BY <3>1, <3>2 DEF IsCopyOf
    <3> QED
      BY <3>2, <3>3, <3>4, ShowStep
  <2> QED
    BY <2>1, <2>2
<1> QED
  BY <1>1, <1>2 DEF RecordInv

LEMMA FetchStep ==
  ASSUME RecordInv, author \in Authors, NEW url \in Urls, NEW limit \in Limits,
         NEW policy \in author.policies, Fetch(url, limit, policy)
  PROVE  RecordInv'
<1> DEFINE rdap == AsRead(published)
           answer == [rdap |-> rdap, policy |-> policy, at |-> now]
<1>0. now \in Nat /\ now' = now /\ served' = served \union {answer} /\ Show(rdap, limit)
  BY DEF Fetch, RecordInv, AnswersBefore
<1>a. answer.rdap = rdap /\ answer.policy = policy /\ answer.at = now
  OBVIOUS
<1> HIDE DEF answer
<1>1. AnswersBefore'
  <2>1. IsAnswer(answer)
    BY <1>0, <1>a, PoliciesAssumption DEF IsAnswer
  <2> QED
    BY <2>1, <1>0, <1>a DEF RecordInv, AnswersBefore
<1>2. CopiesServed'
  <2> SUFFICES ASSUME NEW u \in Urls, copies'[u] # NoCopy
               PROVE  \E a \in served' : IsCopyOf(copies'[u], a)
    BY DEF CopiesServed
  <2>1. copies'[u] = copies[u] \/ (copies'[u] = Copy(rdap, policy) /\ ShouldCache(policy))
    BY DEF Fetch
  <2>2. CASE copies'[u] = copies[u]
    BY <2>2, <1>0 DEF RecordInv, CopiesServed
  <2>3. CASE copies'[u] = Copy(rdap, policy) /\ ShouldCache(policy)
    <3>1. IsCopyOf(copies'[u], answer)
      BY <2>3, <1>a DEF IsCopyOf, Copy, ShouldCache
    <3> QED
      BY <3>1, <1>0
  <2> QED
    BY <2>1, <2>2, <2>3
<1>3. ShownServed'
  <2>1. StillGood(answer, now, limit)
    BY <1>a DEF StillGood
  <2> QED
    BY <2>1, <1>0, <1>a, ShowStep
<1> QED
  BY <1>1, <1>2, <1>3 DEF RecordInv

LEMMA RecordStep ==
  ASSUME RecordInv, author \in Authors, [Next]_vars
  PROVE  RecordInv' /\ author' \in Authors
<1>1. ASSUME NEW call \in author.calls, Write(call)
      PROVE  RecordInv' /\ author' \in Authors
  BY <1>1, AuthorStep DEF Write
<1>2. ASSUME NEW build \in author.builds, Build(build)
      PROVE  RecordInv' /\ author' \in Authors
  BY <1>2, AuthorStep DEF Build
<1>3. ASSUME NEW build \in author.builds, NEW asChild \in BOOLEAN, Nest(build, asChild)
      PROVE  RecordInv' /\ author' \in Authors
  BY <1>3, AuthorStep DEF Nest
<1>4. ASSUME NEW link \in author.links, Link(link)
      PROVE  RecordInv' /\ author' \in Authors
  BY <1>4, AuthorStep DEF Link
<1>5. CASE Publish
  BY <1>5, AuthorStep DEF Publish
<1>6. ASSUME NEW url \in Urls, NEW limit \in Limits, ReadCopy(url, limit)
      PROVE  RecordInv' /\ author' \in Authors
  BY <1>6, ReadCopyStep DEF ReadCopy, authorVars
<1>7. ASSUME NEW url \in Urls, NEW limit \in Limits, NEW policy \in author.policies,
             Fetch(url, limit, policy)
      PROVE  RecordInv' /\ author' \in Authors
  BY <1>7, FetchStep DEF Fetch, authorVars
<1>8. CASE Tick
  BY <1>8, TickStep DEF Tick, authorVars
<1>9. CASE UNCHANGED vars
  BY <1>9, AuthorStep DEF vars, authorVars
<1> QED
  BY <1>1, <1>2, <1>3, <1>4, <1>5, <1>6, <1>7, <1>8, <1>9 DEF Next

(* A copy is of an answer that was served and may be kept, and what is     *)
(* shown is made of an answer that was then no older than the reader and   *)
(* the server's header allow (HttpData::is_expired, do_request).           *)
THEOREM RecordsServed == Spec => []RecordInv
<1>1. Init => RecordInv /\ IsAuthor
  BY InitRecord DEF Init, IsAuthor
<1>2. RecordInv /\ IsAuthor /\ [Next]_vars => RecordInv' /\ IsAuthor'
  BY RecordStep DEF IsAuthor
<1> QED
  BY <1>1, <1>2, PTL DEF Spec

---------------------------------------------------------------------------
(* What is hidden                                                          *)

(* A registered redaction is found under the name that it has.             *)
LEMMA NamedIsRegistered ==
  ASSUME NEW rdap, NEW name, Text(name) \in NamesOf(rdap), NEW types, name \in types
  PROVE  IsRegistered(rdap, types)
<1>1. PICK r \in Elements(rdap, "redacted") : Has(r, "nameType") /\ r.nameType = Text(name)
  BY DEF NamesOf
<1> QED
  BY <1>1 DEF IsRegistered, SameIgnoringCase

LEMMA SaidHasRole ==
  ASSUME NEW entity, NEW role, NEW roles, role \in roles, Text(role) \in Elements(entity, "roles")
  PROVE  HasRole(entity, roles)
  BY DEF HasRole, SameIgnoringCase

(* The rules of Entity::to_md hide the value that a redaction is about.    *)
LEMMA AboutIsRuled ==
  ASSUME NEW a \in DOMAIN About
  PROVE  /\ About[a][3] \in DOMAIN Hiding
         /\ \E rule \in Hiding[About[a][3]] : About[a][1] \in rule.types /\ About[a][2] \in rule.roles
<1>1. a \in {"registrantId", "registrantName", "registrantCity", "registrantPhone",
             "registrantEmail", "techName", "techEmail"}
  BY DEF About
<1>2. CASE a = "registrantId"
  BY <1>2 DEF About, Hiding, Rule
<1>3. CASE a = "registrantName"
  BY <1>3 DEF About, Hiding, Rule
<1>4. CASE a = "registrantCity"
  BY <1>4 DEF About, Hiding, Rule
<1>5. CASE a = "registrantPhone"
  BY <1>5 DEF About, Hiding, Rule, OfBoth
<1>6. CASE a = "registrantEmail"
  BY <1>6 DEF About, Hiding, Rule, OfBoth
<1>7. CASE a = "techName"
  BY <1>7 DEF About, Hiding, Rule
<1>8. CASE a = "techEmail"
  BY <1>8 DEF About, Hiding, Rule, OfBoth
<1> QED
  BY <1>1, <1>2, <1>3, <1>4, <1>5, <1>6, <1>7, <1>8

(* The row of an entity does not have a value that is hidden.              *)
LEMMA HiddenIsNotTold ==
  ASSUME NEW root, NEW entity, NEW field \in DOMAIN Hiding, Hides(root, entity, field)
  PROVE  RowHides(EntityText(root, entity).rows, field)
<1> DEFINE card == IF Has(entity, "vcardArray") THEN FromVcard(entity.vcardArray) ELSE NoContact
           source(f) == IF f = "handle" THEN entity ELSE card
           there == {f \in DOMAIN Hiding : Has(source(f), f)}
           hidden == {f \in DOMAIN Hiding :
                        /\ Hides(root, entity, f)
                        /\ f # "handle" => card # NoContact
                        /\ f = "postal_addresses" => Has(card, f)}
           told == EntityRows(root, entity, card)
<1>0. EntityText(root, entity).rows = told
  BY DEF EntityText
<1>1. told = [f \in there \union hidden |->
                IF f \notin hidden THEN source(f)[f]
                ELSE IF f = "postal_addresses" THEN [i \in DOMAIN card[f] |-> HideAddress(card[f][i])]
                ELSE Hidden]
  BY DEF EntityRows
<1> SUFFICES ASSUME Has(told, field) PROVE RowHides(told, field)
  BY <1>0 DEF RowHides
<1>2. field \in there \union hidden
  BY <1>1 DEF Has
<1>3. field \in hidden
  <2> SUFFICES ASSUME field \in there, field # "handle"
               PROVE  card # NoContact /\ Has(card, field)
    BY <1>2
  <2>1. Has(card, field)
    OBVIOUS
  <2>2. ~Has(NoContact, field)
    BY DEF Has, NoContact
  <2> QED
    BY <2>1, <2>2
<1> HIDE DEF card, there, hidden
<1>4. CASE field = "postal_addresses"
  <2>1. told[field] = [i \in DOMAIN card[field] |-> HideAddress(card[field][i])]
    BY <1>1, <1>3, <1>4
  <2>2. \A address : HideAddress(address).locality = Hidden
    BY DEF HideAddress, TellingParts
  <2> HIDE DEF told
  <2>3. \A i \in DOMAIN told[field] : told[field][i].locality = Hidden
    BY <2>1, <2>2
  <2> QED
    BY <2>3, <1>4 DEF RowHides
<1>5. CASE field # "postal_addresses"
  <2>1. told[field] = Hidden
    BY <1>1, <1>3, <1>5
  <2> QED
    BY <2>1, <1>5 DEF RowHides
<1> QED
  BY <1>4, <1>5

(* What is written of a record hides what its redactions are about.        *)
LEMMA TextsHide ==
  ASSUME NEW rdap
  PROVE  HidesWhatIsNamed(NamesOf(rdap), DomainTextOf(rdap), EntityTexts(rdap))
<1>1. ASSUME Text("Registry Domain ID") \in NamesOf(rdap)
      PROVE  RowHides(DomainTextOf(rdap).rows, "handle")
  <2>1. IsRegistered(rdap, {"Registry Domain ID"})
    BY <1>1, NamedIsRegistered
  <2>2. DomainTextOf(rdap).rows = [handle |-> Hidden] \/ DomainTextOf(rdap).rows = <<>>
    BY <2>1 DEF DomainTextOf, DomainText, NoText, DomainHandleText
  <2>3. CASE DomainTextOf(rdap).rows = [handle |-> Hidden]
    BY <2>3 DEF RowHides
  <2>4. CASE DomainTextOf(rdap).rows = <<>>
    BY <2>4 DEF RowHides, Has
  <2> QED
    BY <2>2, <2>3, <2>4
<1>2. ASSUME NEW a \in DOMAIN About, Text(About[a][1]) \in NamesOf(rdap),
             NEW text \in EntityTexts(rdap), Text(About[a][2]) \in text.roles
      PROVE  RowHides(text.of.rows, About[a][3])
  <2>1. PICK entity \in EntitiesIn(rdap) :
          text = [roles |-> Elements(entity, "roles"), of |-> EntityText(rdap, entity)]
    BY DEF EntityTexts
  <2>2. text.roles = Elements(entity, "roles") /\ text.of = EntityText(rdap, entity)
    BY <2>1
  <2>3. PICK rule \in Hiding[About[a][3]] : About[a][1] \in rule.types /\ About[a][2] \in rule.roles
    BY AboutIsRuled
  <2>4. IsRegistered(rdap, rule.types)
    BY <1>2, <2>3, NamedIsRegistered
  <2>5. HasRole(entity, rule.roles)
    BY <1>2, <2>2, <2>3, SaidHasRole
  <2>6. Hides(rdap, entity, About[a][3])
    BY <2>3, <2>4, <2>5 DEF Hides
  <2> QED
    BY <2>2, <2>6, AboutIsRuled, HiddenIsNotTold
<1> QED
  BY <1>1, <1>2 DEF HidesWhatIsNamed

(* What the command shows stands, whatever is published and kept in the    *)
(* meantime: it is what a server answered, marked once, no longer ago than *)
(* the limit and the header allow, and the rows that registered redactions *)
(* of it are about do not tell it (httpdata.rs, request.rs, md/entity.rs,  *)
(* registered_redactions.rs).                                              *)
THEOREM ShownRecordsStand == Spec => []ShownStands
<1>1. RecordInv => ShownStands
  <2> SUFFICES ASSUME ShownServed, shown.is = "record"
               PROVE  \E answer \in served :
                        /\ StillGood(answer, shown.asked, shown.limit)
                        /\ shown.rdap = Marked(answer.rdap)
                        /\ HidesWhatIsNamed(NamesOf(shown.rdap), shown.domain, shown.texts)
    BY DEF RecordInv, ShownStands
  <2>1. PICK answer \in served : IsShowing(shown, answer)
    BY DEF ShownServed
  <2>2. HidesWhatIsNamed(NamesOf(shown.rdap), shown.domain, shown.texts)
    BY <2>1, TextsHide DEF IsShowing
  <2> QED
    BY <2>1, <2>2 DEF IsShowing
<1> QED
  BY <1>1, RecordsServed, PTL

=============================================================================
