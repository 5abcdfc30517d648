------------------------- MODULE RdapServingProofs -------------------------
(***************************************************************************)
(* What is proved of RdapServing, for any queries, files and runs of       *)
(* rdap-srv-data: a handler's answer is the one that was due (AnswersStand)*)
(* the tables of the domains agree (DomainsAgree), a search finds every    *)
(* domain that fits it (SearchFinds), what rdap-srv-data writes can be     *)
(* loaded (WritesCanLoad), a redirect is where the handlers look for it    *)
(* (RedirectsAreServed), and a self link leads back to its object          *)
(* (SelfLinksLeadBack).                                                    *)
(*                                                                         *)
(* The invariant has a part for the request, ReqInv, which says where the  *)
(* answer that is due can still be, given what has been looked up already; *)
(* one for the store, StoreOK, which says what its tables hold; and Fresh, *)
(* which says of which files the store is made.  That a load is all of its *)
(* files, in whatever order they are listed, is LoadedFrom.                *)
(***************************************************************************)
EXTENDS RdapServing, FunctionTheorems, FiniteSetTheorems, SequenceTheorems,
        WellFoundedInduction, TLAPS

---------------------------------------------------------------------------
(* Numbers: a set of them has a least one, a bounded one a greatest        *)

LEMMA LeastNumber ==
  ASSUME NEW S \in SUBSET Nat, S # {}
  PROVE  \E n \in S : \A m \in S : n <= m
<1>1. PICK n \in S : \A m \in S : ~(<<m, n>> \in OpToRel(<, Nat))
  BY WFMin, NatLessThanWellFounded
<1>2. ASSUME NEW m \in S PROVE n <= m
  <2>1. m \in Nat /\ n \in Nat
    OBVIOUS
  <2>2. ~(m < n)
    BY <1>1, <2>1 DEF OpToRel
  <2> QED BY <2>1, <2>2
<1> QED BY <1>2

LEMMA GreatestNumber ==
  ASSUME NEW N \in Nat, NEW T \in SUBSET (0..N), T # {}
  PROVE  \E n \in T : \A m \in T : m <= n
<1> DEFINE U == {u \in 0..N : N - u \in T}
<1>1. U \in SUBSET Nat /\ U # {}
  <2>1. PICK t \in T : TRUE
    OBVIOUS
  <2>2. N - t \in 0..N /\ N - (N - t) = t
    BY <2>1
  <2> QED BY <2>1, <2>2
<1>2. PICK u \in U : \A v \in U : u <= v
  <2> HIDE DEF U
  <2> QED BY <1>1, LeastNumber
<1>3. u \in 0..N /\ N - u \in T
  OBVIOUS
<1>4. ASSUME NEW m \in T PROVE m <= N - u
  <2>1. m \in 0..N
    OBVIOUS
  <2>2. N - m \in 0..N /\ N - (N - m) = m
    BY <2>1
  <2>3. N - m \in U
    BY <2>1, <2>2
  <2>4. u <= N - m
    BY <1>2, <2>3
  <2> QED BY <1>3, <2>1, <2>2, <2>4
<1> QED BY <1>3, <1>4

---------------------------------------------------------------------------
(* Texts                                                                   *)

Text == Seq(STRING)
Name(q) == IF q.kind = "domain" THEN Canonical(q.text) ELSE q.text

(* What is looked up next, above what was looked up: the next dot parts it.*)
IsNext(j, i, name) ==
  /\ j \in Places(".", name) /\ i < j
  /\ \A k \in Places(".", name) : i < k => j <= k

LEMMA SequenceOf ==
  ASSUME NEW S, NEW n \in Nat, NEW s, s = [k \in 1..n |-> s[k]], \A k \in 1..n : s[k] \in S
  PROVE  s \in Seq(S)
<1>1. s \in [1..n -> S]
  OBVIOUS
<1> QED BY <1>1, SeqDef

LEMMA AfterText ==
  ASSUME NEW text \in Text, NEW i \in 0..Len(text)
  PROVE  /\ After(i, text) \in Text
         /\ Len(After(i, text)) = Len(text) - i
         /\ DOMAIN After(i, text) = 1..(Len(text) - i)
         /\ \A k \in 1..(Len(text) - i) : After(i, text)[k] = text[i + k]
<1>1. Len(text) \in Nat /\ i \in Nat /\ i + 1 \in Int /\ i <= Len(text)
  BY DEF Text
<1>2. \A k \in (i + 1)..Len(text) : text[k] \in STRING
  BY <1>1 DEF Text
<1>3. /\ SubSeq(text, i + 1, Len(text)) \in Seq(STRING)
      /\ Len(SubSeq(text, i + 1, Len(text))) =
           IF i + 1 <= Len(text) THEN Len(text) - (i + 1) + 1 ELSE 0
      /\ \A k \in 1..(Len(text) - (i + 1) + 1) :
           SubSeq(text, i + 1, Len(text))[k] = text[i + 1 + k - 1]
  BY <1>1, <1>2, SubSeqProperties
<1>4. Len(SubSeq(text, i + 1, Len(text))) = Len(text) - i
  BY <1>1, <1>3
<1>5. DOMAIN SubSeq(text, i + 1, Len(text)) = 1..(Len(text) - i)
  BY <1>3, <1>4
<1>6. \A k \in 1..(Len(text) - i) : SubSeq(text, i + 1, Len(text))[k] = text[i + k]
  <2> TAKE k \in 1..(Len(text) - i)
  <2>1. k \in 1..(Len(text) - (i + 1) + 1) /\ i + 1 + k - 1 = i + k
    BY <1>1
  <2> QED BY <1>3, <2>1
<1> QED BY <1>3, <1>4, <1>5, <1>6 DEF After, Text

(* A name is what comes after no dot of it.                                *)
LEMMA AfterNothing ==
  ASSUME NEW text \in Text
  PROVE  After(0, text) = text
<1>1. Len(text) \in Nat /\ DOMAIN text = 1..Len(text) /\ 0 \in 0..Len(text)
  BY DEF Text
<1>2. /\ After(0, text) \in Text
      /\ Len(After(0, text)) = Len(text)
      /\ \A k \in 1..Len(text) : After(0, text)[k] = text[k]
  <2>1. Len(text) - 0 = Len(text) /\ \A k \in 1..Len(text) : 0 + k = k
    BY <1>1
  <2> QED BY <1>1, <2>1, AfterText
<1> QED BY <1>1, <1>2, SeqEqual DEF Text

LEMMA TrimEndText ==
  ASSUME NEW text \in Text
  PROVE  TrimEnd(text) \in Text
<1> DEFINE kept == {i \in DOMAIN text : text[i] # "."}
           last == CHOOSE i \in kept : \A j \in kept : j <= i
<1>1. CASE kept = {}
  BY <1>1 DEF TrimEnd, None, Text
<1>2. CASE kept # {}
  <2>1. Len(text) \in Nat /\ DOMAIN text = 1..Len(text) /\ kept \in SUBSET (0..Len(text))
    BY DEF Text
  <2>2. \E i \in kept : \A j \in kept : j <= i
    <3> HIDE DEF kept
    <3> QED BY <1>2, <2>1, GreatestNumber
  <2>3. last \in kept
    BY <2>2
  <2>4. last \in 1..Len(text)
    BY <2>1, <2>3
  <2>5. SubSeq(text, 1, last) \in Seq(STRING)
    <3> HIDE DEF last
    <3>1. \A k \in 1..last : text[k] \in STRING
      BY <2>1, <2>4 DEF Text
    <3> QED BY <2>4, <3>1, SubSeqProperties
  <2> QED BY <1>2, <2>5 DEF TrimEnd, Text
<1> QED BY <1>1, <1>2

LEMMA CanonicalText ==
  ASSUME NEW text \in Text
  PROVE  Canonical(text) \in Text
<1> DEFINE trimmed == TrimEnd(text)
<1>1. trimmed \in Seq(STRING)
  BY TrimEndText DEF Text
<1>2. Len(trimmed) \in Nat /\ DOMAIN trimmed = 1..Len(trimmed)
  BY <1>1
<1>3. \A i \in 1..Len(trimmed) : Lower(trimmed)[i] \in STRING
  BY <1>1, <1>2, LowerCaseAssumption DEF Lower
<1>4. Lower(trimmed) = [i \in 1..Len(trimmed) |-> Lower(trimmed)[i]]
  BY <1>2 DEF Lower
<1>5. Lower(trimmed) \in Seq(STRING)
  BY <1>2, <1>3, <1>4, SeqDef
<1> QED BY <1>5 DEF Canonical, Text

LEMMA NameText ==
  ASSUME NEW q \in Queries
  PROVE  Name(q) \in Text
BY CanonicalText, QueriesAssumption DEF Name, Text

(* One label less is what comes after the next dot.                        *)
LEMMA NextPlace ==
  ASSUME NEW name \in Text, NEW i \in {0} \union Places(".", name),
         Places(".", After(i, name)) # {}
  PROVE  \E j \in Places(".", name) :
           IsNext(j, i, name) /\ LessSpecific(After(i, name)) = After(j, name)
<1> DEFINE slice == After(i, name)
           first == FirstPlace(".", slice)
<1>1. Len(name) \in Nat /\ DOMAIN name = 1..Len(name) /\ i \in 0..Len(name)
  BY DEF Text, Places
<1>2. /\ slice \in Text /\ Len(slice) = Len(name) - i
      /\ DOMAIN slice = 1..(Len(name) - i)
      /\ \A k \in 1..(Len(name) - i) : slice[k] = name[i + k]
  BY <1>1, AfterText
<1>3. first \in Places(".", slice) /\ \A k \in Places(".", slice) : first <= k
  <2>1. Places(".", slice) \in SUBSET Nat
    BY <1>1, <1>2 DEF Places
  <2>2. \E n \in Places(".", slice) : \A m \in Places(".", slice) : n <= m
    BY <2>1, LeastNumber
  <2> QED BY <2>2 DEF FirstPlace
<1> HIDE DEF slice, first
<1>4. /\ first \in 1..(Len(name) - i) /\ name[i + first] = "."
      /\ i + first \in 1..Len(name)
  <2>1. first \in 1..(Len(name) - i) /\ slice[first] = "."
    BY <1>2, <1>3 DEF Places
  <2>2. slice[first] = name[i + first]
    BY <1>2, <2>1
  <2>3. i + first \in 1..Len(name)
    BY <1>1, <2>1
  <2> QED BY <2>1, <2>2, <2>3
<1>5. IsNext(i + first, i, name)
  <2>1. i + first \in Places(".", name) /\ i < i + first
    BY <1>1, <1>4 DEF Places
  <2>2. ASSUME NEW k \in Places(".", name), i < k PROVE i + first <= k
    <3>1. k \in 1..Len(name) /\ name[k] = "." /\ k - i \in 1..(Len(name) - i) /\ i + (k - i) = k
      BY <1>1, <2>2 DEF Places
    <3>2. k - i \in Places(".", slice)
      BY <1>2, <3>1 DEF Places
    <3> QED BY <1>1, <1>3, <1>4, <3>1, <3>2
  <2> QED BY <2>1, <2>2 DEF IsNext
<1>6. After(first, slice) = After(i + first, name)
  <2>1. first \in 0..Len(slice) /\ i + first \in 0..Len(name)
    BY <1>1, <1>2, <1>4
  <2>2. Len(slice) - first = Len(name) - (i + first)
    BY <1>1, <1>2, <1>4
  <2>3. /\ After(first, slice) \in Text /\ Len(After(first, slice)) = Len(slice) - first
        /\ \A k \in 1..(Len(slice) - first) : After(first, slice)[k] = slice[first + k]
    BY <1>2, <2>1, AfterText
  <2>4. /\ After(i + first, name) \in Text
        /\ Len(After(i + first, name)) = Len(name) - (i + first)
        /\ \A k \in 1..(Len(name) - (i + first)) : After(i + first, name)[k] = name[i + first + k]
    BY <2>1, AfterText
  <2>5. ASSUME NEW k \in 1..(Len(slice) - first)
        PROVE  After(first, slice)[k] = After(i + first, name)[k]
    <3>1. first + k \in 1..(Len(name) - i) /\ i + (first + k) = i + first + k
      BY <1>1, <1>2, <1>4
    <3>2. slice[first + k] = name[i + first + k]
      BY <1>2, <3>1
    <3> QED BY <2>2, <2>3, <2>4, <3>2
  <2> QED BY <2>2, <2>3, <2>4, <2>5, SeqEqual DEF Text
<1> QED BY <1>4, <1>5, <1>6 DEF LessSpecific, slice, first, IsNext

(* What comes after a dot tells the dot, and is not the name itself.       *)
LEMMA AfterTells ==
  ASSUME NEW name \in Text, NEW i \in {0} \union Places(".", name),
         NEW j \in {0} \union Places(".", name), After(i, name) = After(j, name)
  PROVE  i = j
<1>1. Len(name) \in Nat /\ i \in 0..Len(name) /\ j \in 0..Len(name)
  BY DEF Text, Places
<1>2. Len(After(i, name)) = Len(name) - i /\ Len(After(j, name)) = Len(name) - j
  BY <1>1, AfterText
<1> QED BY <1>1, <1>2

---------------------------------------------------------------------------
(* What a query is due                                                     *)

(* The redirect that counts is the first one on the way up.                *)
IsNearest(j, store, name) ==
  /\ j \in Places(".", name) /\ IsRedirect(Get(store, "domains", After(j, name)))
  /\ \A k \in Places(".", name) : IsRedirect(Get(store, "domains", After(k, name))) => j <= k

LEMMA NearestRedirect ==
  ASSUME NEW name \in Text, NEW store, RedirectsAbove(store, name) # {}
  PROVE  \E j \in Places(".", name) :
           IsNearest(j, store, name) /\ Nearest(RedirectsAbove(store, name)) = After(j, name)
<1> DEFINE above == RedirectsAbove(store, name)
           at == {k \in Places(".", name) : IsRedirect(Get(store, "domains", After(k, name)))}
           near == Nearest(above)
<1>1. above = {After(k, name) : k \in at}
  BY DEF RedirectsAbove
<1>2. Len(name) \in Nat /\ at \in SUBSET (1..Len(name)) /\ at \in SUBSET Nat /\ at # {}
  BY <1>1 DEF Text, Places
<1>3. PICK j \in at : \A k \in at : j <= k
  <2> HIDE DEF at
  <2> QED BY <1>2, LeastNumber
<1>4. \A k \in at : Len(After(k, name)) = Len(name) - k
  <2> TAKE k \in at
  <2>1. k \in 0..Len(name)
    BY <1>2
  <2> QED BY <2>1, AfterText
<1>5. \E n \in above : \A m \in above : Len(m) <= Len(n)
  <2>0. After(j, name) \in above
    BY <1>1
  <2> WITNESS After(j, name) \in above
  <2> TAKE m \in above
  <2>1. PICK k \in at : m = After(k, name)
    BY <1>1
  <2>2. j \in Nat /\ k \in Nat /\ j <= k
    BY <1>2, <1>3
  <2> QED BY <1>2, <1>4, <2>1, <2>2
<1>6. near \in above /\ \A m \in above : Len(m) <= Len(near)
  BY <1>5 DEF Nearest
<1> HIDE DEF near
<1>7. PICK k \in at : near = After(k, name)
  BY <1>1, <1>6
<1>8. k = j
  <2>1. Len(After(j, name)) <= Len(After(k, name))
    BY <1>1, <1>6, <1>7
  <2> QED BY <1>2, <1>3, <1>4, <2>1
<1> QED BY <1>3, <1>7, <1>8 DEF IsNearest, near

From(store, table, key) == << <<table, key>>, Get(store, table, key) >>
Redirected(store, table, key, path, name) ==
  << <<table, key>>, BootstrapRedirect(Get(store, table, key), path, name) >>

(* The table an answer is in that is not found by walking up the names.    *)
Own(q) == <<IF q.kind = "domain" THEN "idns" ELSE "nameservers", Name(q)>>
OwnAnswer(store, q) == Get(store, IF q.kind = "domain" THEN "idns" ELSE "nameservers", Name(q))

LEMMA DueDomain ==
  ASSUME NEW store, NEW q, q.kind = "domain"
  PROVE  Due(store, q) =
           IF Fits(Get(store, "domains", Name(q)), "domain") THEN From(store, "domains", Name(q))
           ELSE IF Fits(Get(store, "idns", Name(q)), "domain") THEN From(store, "idns", Name(q))
           ELSE IF Bootstrap /\ RedirectsAbove(store, Name(q)) # {}
           THEN Redirected(store, "domains", Nearest(RedirectsAbove(store, Name(q))), "domain", Name(q))
           ELSE << <<"idns", Name(q)>>, NotFound >>
BY DEF Due, Name, From, Redirected

LEMMA DueNameserver ==
  ASSUME NEW store, NEW q, q.kind = "nameserver", ~(Cardinality(Places(".", Name(q))) < 2)
  PROVE  Due(store, q) =
           IF Fits(Get(store, "nameservers", Name(q)), "nameserver") \/ ~Bootstrap
              \/ RedirectsAbove(store, Name(q)) = {}
           THEN From(store, "nameservers", Name(q))
           ELSE Redirected(store, "domains", Nearest(RedirectsAbove(store, Name(q))), "nameserver",
                           Name(q))
BY DEF Due, Name, From, Redirected

LEMMA DueEntity ==
  ASSUME NEW store, NEW q, q.kind = "entity"
  PROVE  Due(store, q) =
           IF \/ Fits(Get(store, "entities", Name(q)), "entity") \/ ~Bootstrap
              \/ Places("-", Name(q)) = {} \/ ~IsRedirect(Get(store, "entities", Tag(Name(q))))
           THEN From(store, "entities", Name(q))
           ELSE Redirected(store, "entities", Tag(Name(q)), "entity", Name(q))
<1>1. ~IsRedirect(NotFound)
  BY DEF IsRedirect, NotFound, ErrorResponse
<1> QED BY <1>1 DEF Due, Name, From, Redirected

LEMMA DueHelp ==
  ASSUME NEW store, NEW q, q.kind = "help"
  PROVE  Due(store, q) =
           IF Get(store, "srvhelps", Name(q)).class = "help" THEN From(store, "srvhelps", Name(q))
           ELSE From(store, "srvhelps", DefaultHost)
BY DEF Due, Name, From

LEMMA DueNumbers ==
  ASSUME NEW store, NEW q, q.kind \in {"ip", "autnum"}
  PROVE  Due(store, q)[2] =
           LET r == IF q.kind = "ip" THEN GetLpm(store, q.version, q.net)
                    ELSE Get(store, "autnums", q.num)
           IN IF Bootstrap THEN BootstrapRedirect(r, q.kind, q.text) ELSE r
BY DEF Due

LEMMA DueSearch ==
  ASSUME NEW store, NEW q, q.kind = "domains"
  PROVE  Due(store, q)[2] = SearchDomains(store, Name(q))
BY DEF Due, Name

LEMMA DueAtOnce ==
  ASSUME NEW store, NEW q
  PROVE  /\ q.kind = "nameserver" /\ Cardinality(Places(".", Name(q))) < 2 =>
              Due(store, q)[2] = BadRequest
         /\ q.kind \in {"nameservers", "entities"} => Due(store, q)[2] = NotImplemented
BY DEF Due, Name

(* Once the name itself has nothing, the answer is the table's own, or the *)
(* first redirect on the way up.                                           *)
LEMMA DueAbove ==
  ASSUME NEW store, NEW q \in Queries, Bootstrap, q.kind \in {"domain", "nameserver"},
         q.kind = "domain" =>
           /\ Due(store, q)[1] # <<"domains", Name(q)>>
           /\ ~Fits(OwnAnswer(store, q), "domain") => OwnAnswer(store, q) = NotFound,
         q.kind = "nameserver" => ~(Cardinality(Places(".", Name(q))) < 2)
  PROVE  \/ /\ Due(store, q) = <<Own(q), OwnAnswer(store, q)>>
            /\ RedirectsAbove(store, Name(q)) = {} \/ Fits(OwnAnswer(store, q), q.kind)
         \/ /\ ~Fits(OwnAnswer(store, q), q.kind)
            /\ \E j \in Places(".", Name(q)) :
                 /\ IsNearest(j, store, Name(q))
                 /\ Due(store, q) = Redirected(store, "domains", After(j, Name(q)), q.kind, Name(q))
<1> DEFINE name == Name(q)
           above == RedirectsAbove(store, name)
<1>1. name \in Text
  BY NameText
<1>2. above # {} => \E j \in Places(".", name) : IsNearest(j, store, name) /\ Nearest(above) = After(j, name)
  BY <1>1, NearestRedirect
<1>3. CASE q.kind = "domain"
  <2>1. ~Fits(Get(store, "domains", name), "domain")
    BY <1>3, DueDomain DEF From
  <2>2. CASE Fits(OwnAnswer(store, q), "domain")
    BY <1>3, <2>1, <2>2, DueDomain DEF From, Own, OwnAnswer
  <2>3. CASE ~Fits(OwnAnswer(store, q), "domain") /\ above = {}
    BY <1>3, <2>1, <2>3, DueDomain DEF Own, OwnAnswer
  <2>4. CASE ~Fits(OwnAnswer(store, q), "domain") /\ above # {}
    BY <1>2, <1>3, <2>1, <2>4, DueDomain DEF OwnAnswer
  <2> QED BY <2>2, <2>3, <2>4
<1>4. CASE q.kind = "nameserver"
  <2>1. CASE Fits(OwnAnswer(store, q), "nameserver") \/ above = {}
    BY <1>4, <2>1, DueNameserver DEF From, Own, OwnAnswer
  <2>2. CASE ~Fits(OwnAnswer(store, q), "nameserver") /\ above # {}
    BY <1>2, <1>4, <2>2, DueNameserver DEF OwnAnswer
  <2> QED BY <2>1, <2>2
<1> QED BY <1>3, <1>4

---------------------------------------------------------------------------
(* The invariant of the request                                            *)

(* The request is a record, and at a lookup of its kind of query.          *)
Asked ==
  /\ req = [pc |-> req.pc, query |-> req.query, name |-> req.name, slice |-> req.slice,
            found |-> req.found]
  /\ req.pc \in Pcs
  /\ req.pc # "idle" => req.query \in Queries /\ req.name = Name(req.query)
  /\ req.pc \in {"ldh", "unicode"} => req.query.kind = "domain"
  /\ req.pc \in {"nameserver", "up"} /\ req.query.kind # "domain" =>
       req.query.kind = "nameserver" /\ ~(Cardinality(Places(".", req.name)) < 2)
  /\ req.pc = "nameserver" => req.query.kind = "nameserver"
  /\ req.pc \in {"entity", "tag"} => req.query.kind = "entity"
  /\ req.pc \in {"ip", "autnum", "domains"} => req.query.kind = req.pc
  /\ req.pc \in {"help", "default"} => req.query.kind = "help"

(* A handler that looks further has found nothing that it could answer.    *)
Further ==
  /\ req.pc = "up" =>
       /\ Bootstrap /\ ~Fits(req.found, req.query.kind)
       /\ req.query.kind = "domain" => req.found = NotFound
  /\ req.pc = "tag" =>
       Bootstrap /\ ~Fits(req.found, "entity") /\ Places("-", req.name) # {}

(* What is due is not among the names that were walked past.               *)
Passed(i) ==
  \A j \in Places(".", req.name) : j <= i => due[1] # <<"domains", After(j, req.name)>>

WalkedTo(i, slice) ==
  /\ i \in {0} \union Places(".", req.name) /\ slice = After(i, req.name)
  /\ stands => Passed(i)

Climbing ==
  req.pc = "up" => Places(".", req.slice) # {} /\ \E i \in Nat : WalkedTo(i, req.slice)

(* What is due was not in the slots that have been looked into, unless it  *)
(* is what was found there.                                                *)
Ahead ==
  stands =>
    /\ req.pc \in {"unicode", "up"} /\ req.query.kind = "domain" =>
         due[1] # <<"domains", req.name>>
    /\ req.pc = "up" /\ due[1] = Own(req.query) => due[2] = req.found
    /\ req.pc = "tag" /\ due[1] = <<"entities", req.name>> => due[2] = req.found
    /\ req.pc = "default" => due[1] # <<"srvhelps", req.name>> \/ req.name = DefaultHost

(* What is due has not changed while a request is on its way that stands.  *)
StillDue == stands /\ req.pc \notin {"idle", "answered"} => Due(db, req.query) = due

ReqInv == Asked /\ Further /\ Climbing /\ Ahead /\ StillDue /\ AnswerStands

(* A U-label is looked up in a table that holds nothing but domains.       *)
SlotsOK(store) ==
  \A s \in DOMAIN store.slots :
    /\ s = <<s[1], s[2]>>
    /\ store.slots[s].class \in Classes \union {"error"}
    /\ s[1] = "idns" => store.slots[s].class = "domain"
    /\ s[1] = "domains" => store.slots[s].class \in {"domain", "error"}

LEMMA UnicodeFound ==
  ASSUME NEW store, SlotsOK(store), NEW name, ~Fits(Get(store, "idns", name), "domain")
  PROVE  Get(store, "idns", name) = NotFound
<1>1. << "idns", name >>[1] = "idns"
  OBVIOUS
<1> QED BY <1>1 DEF SlotsOK, Get, Fits

---------------------------------------------------------------------------
(* The handlers                                                            *)

KeptByLookup == UNCHANGED <<serverVars, due, stands>>

(* A handler answers, with what is due.                                    *)
LEMMA Answers ==
  ASSUME ReqInv, KeptByLookup, req.pc # "idle", NEW r, Answer(r), stands => r = due[2]
  PROVE  ReqInv'
<1>1. /\ req' = [pc |-> "answered", query |-> req.query, name |-> req.name, slice |-> req.slice,
                 found |-> r]
      /\ req.query \in Queries /\ req.name = Name(req.query)
  BY DEF ReqInv, Asked, Answer
<1>2. UNCHANGED <<db, due, stands>>
  BY DEF KeptByLookup, serverVars
<1>3. Asked'
  BY <1>1 DEF Asked, Pcs, Name
<1>4. Further' /\ Climbing'
  BY <1>1 DEF Further, Climbing
<1>5. Ahead'
  BY <1>1 DEF Ahead
<1>6. StillDue'
  BY <1>1 DEF StillDue
<1>7. AnswerStands'
  BY <1>1, <1>2 DEF AnswerStands
<1> QED BY <1>3, <1>4, <1>5, <1>6, <1>7 DEF ReqInv

(* A handler takes the names above for what it looks up next.              *)
LEMMA Climbs ==
  ASSUME ReqInv, SlotsOK(db), KeptByLookup, req.pc \notin {"idle", "answered"}, Bootstrap,
         req.query.kind \in {"domain", "nameserver"},
         req.query.kind = "nameserver" => ~(Cardinality(Places(".", req.name)) < 2),
         NEW r, ~Fits(r, req.query.kind), req.query.kind = "domain" => r = NotFound,
         NEW i \in Nat, NEW slice, WalkedTo(i, slice), Climb(r, slice),
         stands => /\ req.query.kind = "domain" => due[1] # <<"domains", req.name>>
                   /\ due[1] = Own(req.query) => due[2] = r
  PROVE  ReqInv'
<1> DEFINE q == req.query
           name == req.name
           pc == IF Places(".", slice) = {} THEN "answered" ELSE "up"
<1>1. /\ req' = [pc |-> pc, query |-> q, name |-> name, slice |-> slice, found |-> r]
      /\ q \in Queries /\ name = Name(q) /\ name \in Text
  BY NameText DEF ReqInv, Asked, Climb
<1>2. UNCHANGED <<db, due, stands>>
  BY DEF KeptByLookup, serverVars
<1>3. Asked'
  BY <1>1 DEF Asked, Pcs, Name
<1>4. Further' /\ Climbing'
  <2>1. Further'
    BY <1>1 DEF Further
  <2>2. pc = "up" => WalkedTo(i, slice)' /\ Places(".", slice) # {}
    BY <1>1, <1>2 DEF WalkedTo, Passed
  <2> QED BY <1>1, <2>1, <2>2 DEF Climbing
<1>5. Ahead'
  BY <1>1, <1>2 DEF Ahead, Own, Name
<1>6. StillDue'
  BY <1>1, <1>2 DEF StillDue, ReqInv
<1>7. AnswerStands'
  <2> SUFFICES ASSUME stands, Places(".", slice) = {} PROVE r = due[2]
    BY <1>1, <1>2 DEF AnswerStands
  <2>1. Due(db, q) = due
    BY DEF ReqInv, StillDue
  <2>2. q.kind = "domain" /\ ~Fits(OwnAnswer(db, q), "domain") => OwnAnswer(db, q) = NotFound
    BY UnicodeFound DEF OwnAnswer
  <2>3. CASE due[1] = Own(q)
    BY <2>3
  <2>4. CASE \E j \in Places(".", name) :
               due = Redirected(db, "domains", After(j, name), q.kind, name)
    <3>1. PICK j \in Places(".", name) : due[1] = <<"domains", After(j, name)>>
      BY <2>4 DEF Redirected
    <3>2. Len(name) \in Nat /\ i \in 0..Len(name) /\ j \in 1..Len(name) /\ name[j] = "." /\ i < j
      <4>1. ~(j <= i)
        BY <3>1 DEF WalkedTo, Passed
      <4> QED BY <1>1, <4>1 DEF WalkedTo, Places, Text
    <3>3. /\ slice = After(i, name) /\ DOMAIN slice = 1..(Len(name) - i)
          /\ \A k \in 1..(Len(name) - i) : slice[k] = name[i + k]
      BY <1>1, <3>2, AfterText DEF WalkedTo
    <3>4. j - i \in 1..(Len(name) - i) /\ i + (j - i) = j
      BY <3>2
    <3>5. slice[j - i] = "."
      BY <3>2, <3>3, <3>4
    <3> QED BY <3>3, <3>4, <3>5 DEF Places
  <2>5. due = <<Own(q), OwnAnswer(db, q)>> => due[1] = Own(q)
    OBVIOUS
  <2>6. q.kind = "domain" => Due(db, q)[1] # <<"domains", name>>
    BY <2>1
  <2> QED BY <1>1, <2>1, <2>2, <2>3, <2>4, <2>5, <2>6, DueAbove
<1> QED BY <1>3, <1>4, <1>5, <1>6, <1>7 DEF ReqInv

LEMMA LookupLdhKeeps ==
  ASSUME ReqInv, LookupLdh
  PROVE  ReqInv'
<1> DEFINE q == req.query
           r == Get(db, "domains", req.name)
<1>1. /\ req.pc = "ldh" /\ q.kind = "domain" /\ q \in Queries /\ req.name = Name(q)
      /\ stands => Due(db, q) = due
  BY DEF LookupLdh, ReqInv, Asked, StillDue
<1>2. KeptByLookup
  BY DEF LookupLdh, KeptByLookup
<1>3. CASE Fits(r, "domain")
  <2>1. Due(db, q)[2] = r
    BY <1>1, <1>3, DueDomain DEF From
  <2>2. Answer(r)
    BY <1>3 DEF LookupLdh
  <2> QED BY <1>1, <1>2, <2>1, <2>2, Answers
<1>4. CASE ~Fits(r, "domain")
  <2>1. req' = [pc |-> "unicode", query |-> q, name |-> req.name, slice |-> req.slice,
                found |-> req.found]
    BY <1>4 DEF LookupLdh, Goto, ReqInv, Asked
  <2>2. UNCHANGED <<db, due, stands>>
    BY <1>2 DEF KeptByLookup, serverVars
  <2>3. stands => due[1] # <<"domains", req.name>>
    <3>1. CASE Due(db, q)[1][1] = "idns"
      BY <1>1, <3>1
    <3>2. CASE RedirectsAbove(db, req.name) # {} /\
               Due(db, q)[1] = <<"domains", Nearest(RedirectsAbove(db, req.name))>>
      <4>1. req.name \in Text
        BY <1>1, NameText
      <4>2. PICK j \in Places(".", req.name) :
               Nearest(RedirectsAbove(db, req.name)) = After(j, req.name)
        BY <3>2, <4>1, NearestRedirect
      <4>3. After(j, req.name) # req.name
        <5>1. j # 0
          BY <4>1 DEF Places, Text
        <5> QED BY <4>1, <5>1, AfterTells, AfterNothing
      <4> QED BY <1>1, <3>2, <4>2, <4>3
    <3>3. \/ Due(db, q) = From(db, "idns", req.name)
          \/ Due(db, q) = << <<"idns", req.name>>, NotFound >>
          \/ /\ RedirectsAbove(db, req.name) # {}
             /\ Due(db, q) = Redirected(db, "domains", Nearest(RedirectsAbove(db, req.name)),
                                        "domain", req.name)
      BY <1>1, <1>4, DueDomain
    <3> QED BY <3>1, <3>2, <3>3 DEF From, Redirected
  <2>4. Asked' /\ Further' /\ Climbing' /\ AnswerStands'
    BY <1>1, <2>1 DEF Asked, Further, Climbing, AnswerStands, Pcs, Name
  <2>5. Ahead'
    BY <1>1, <2>1, <2>2, <2>3 DEF Ahead
  <2>6. StillDue'
    BY <1>1, <2>1, <2>2 DEF StillDue
  <2> QED BY <2>4, <2>5, <2>6 DEF ReqInv
<1> QED BY <1>3, <1>4

(* A walk starts at the name itself.                                       *)
LEMMA WalkStarts ==
  ASSUME req.name \in Text
  PROVE  WalkedTo(0, req.name)
<1>1. \A j \in Places(".", req.name) : ~(j <= 0)
  BY DEF Places, Text
<1> QED BY <1>1, AfterNothing DEF WalkedTo, Passed

LEMMA LookupUnicodeKeeps ==
  ASSUME ReqInv, SlotsOK(db), LookupUnicode
  PROVE  ReqInv'
<1> DEFINE q == req.query
           r == Get(db, "idns", req.name)
<1>1. /\ req.pc = "unicode" /\ q.kind = "domain" /\ q \in Queries /\ req.name = Name(q)
      /\ stands => Due(db, q) = due /\ due[1] # <<"domains", req.name>>
  BY DEF LookupUnicode, ReqInv, Asked, StillDue, Ahead
<1>2. KeptByLookup
  BY DEF LookupUnicode, KeptByLookup
<1>3. stands => ~Fits(Get(db, "domains", Name(q)), "domain")
  BY <1>1, DueDomain DEF From
<1>4. CASE Missing(r, "domain")
  <2>1. Bootstrap /\ ~Fits(r, "domain") /\ r = NotFound
    BY <1>4, UnicodeFound DEF Missing
  <2>2. stands /\ due[1] = Own(q) => due[2] = r
    <3> SUFFICES ASSUME stands, due[1] = Own(q) PROVE due[2] = r
      OBVIOUS
    <3>1. \/ due = << <<"idns", Name(q)>>, NotFound >>
          \/ due = Redirected(db, "domains", Nearest(RedirectsAbove(db, Name(q))), "domain", Name(q))
      BY <1>1, <1>3, <2>1, DueDomain
    <3>2. due[1][1] = "idns"
      BY <1>1 DEF Own
    <3> QED BY <2>1, <3>1, <3>2 DEF Redirected
  <2>3. WalkedTo(0, req.name)
    BY <1>1, NameText, WalkStarts
  <2>4. Climb(r, req.name)
    BY <1>4 DEF LookupUnicode
  <2> QED BY <1>1, <1>2, <2>1, <2>2, <2>3, <2>4, Climbs
<1>5. CASE ~Missing(r, "domain")
  <2>1. stands => r = due[2]
    <3>1. CASE Fits(r, "domain")
      BY <1>1, <1>3, <3>1, DueDomain DEF From
    <3>2. CASE ~Fits(r, "domain") /\ ~Bootstrap
      BY <1>1, <1>3, <3>2, DueDomain, UnicodeFound
    <3> QED BY <1>5, <3>1, <3>2 DEF Missing
  <2>2. Answer(r)
    BY <1>5 DEF LookupUnicode
  <2> QED BY <1>1, <1>2, <2>1, <2>2, Answers
<1> QED BY <1>4, <1>5

LEMMA LookupNameserverKeeps ==
  ASSUME ReqInv, SlotsOK(db), LookupNameserver
  PROVE  ReqInv'
<1> DEFINE q == req.query
           r == Get(db, "nameservers", req.name)
<1>1. /\ req.pc = "nameserver" /\ q.kind = "nameserver" /\ q \in Queries /\ req.name = Name(q)
      /\ ~(Cardinality(Places(".", req.name)) < 2)
      /\ stands => Due(db, q) = due
  BY DEF LookupNameserver, ReqInv, Asked, StillDue
<1>2. KeptByLookup
  BY DEF LookupNameserver, KeptByLookup
<1>3. CASE Missing(r, "nameserver")
  <2>1. Bootstrap /\ ~Fits(r, "nameserver")
    BY <1>3 DEF Missing
  <2>2. stands /\ due[1] = Own(q) => due[2] = r
    <3> SUFFICES ASSUME stands, due[1] = Own(q) PROVE due[2] = r
      OBVIOUS
    <3>1. \/ due = From(db, "nameservers", Name(q))
          \/ due = Redirected(db, "domains", Nearest(RedirectsAbove(db, Name(q))), "nameserver",
                              Name(q))
      BY <1>1, DueNameserver
    <3>2. due[1][1] = "nameservers"
      BY <1>1 DEF Own
    <3> QED BY <1>1, <3>1, <3>2 DEF Redirected, From
  <2>3. WalkedTo(0, req.name)
    BY <1>1, NameText, WalkStarts
  <2>4. Climb(r, req.name)
    BY <1>3 DEF LookupNameserver
  <2> QED BY <1>1, <1>2, <2>1, <2>2, <2>3, <2>4, Climbs
<1>4. CASE ~Missing(r, "nameserver")
  <2>1. stands => r = due[2]
    BY <1>1, <1>4, DueNameserver DEF From, Missing
  <2>2. Answer(r)
    BY <1>4 DEF LookupNameserver
  <2> QED BY <1>1, <1>2, <2>1, <2>2, Answers
<1> QED BY <1>3, <1>4

LEMMA LookupAboveKeeps ==
  ASSUME ReqInv, SlotsOK(db), LookupAbove
  PROVE  ReqInv'
<1> DEFINE q == req.query
           name == req.name
           less == LessSpecific(req.slice)
           r == Get(db, "domains", less)
<1>1. /\ req.pc = "up" /\ q.kind \in {"domain", "nameserver"} /\ q \in Queries /\ name = Name(q)
      /\ q.kind = "nameserver" => ~(Cardinality(Places(".", name)) < 2)
      /\ Bootstrap /\ ~Fits(req.found, q.kind)
      /\ q.kind = "domain" => req.found = NotFound
      /\ Places(".", req.slice) # {}
      /\ stands => /\ Due(db, q) = due
                   /\ q.kind = "domain" => due[1] # <<"domains", name>>
                   /\ due[1] = Own(q) => due[2] = req.found
  BY DEF LookupAbove, ReqInv, Asked, Further, Climbing, StillDue, Ahead
<1>2. KeptByLookup
  BY DEF LookupAbove, KeptByLookup
<1>3. PICK i \in Nat : WalkedTo(i, req.slice)
  BY <1>1 DEF ReqInv, Climbing
<1>4. name \in Text
  BY <1>1, NameText
<1>5. PICK j \in Places(".", name) : IsNext(j, i, name) /\ less = After(j, name)
  BY <1>1, <1>3, <1>4, NextPlace DEF WalkedTo
<1>6. j \in Nat
  BY <1>4 DEF Places, Text
(* The walk has not come to what is due, if that is above the name at all. *)
<1>7. ASSUME stands
      PROVE  \/ due[1] = Own(q) /\ RedirectsAbove(db, name) = {}
             \/ \E k \in Places(".", name) :
                  /\ IsNearest(k, db, name) /\ j <= k
                  /\ due = Redirected(db, "domains", After(k, name), q.kind, name)
  <2>1. q.kind = "domain" /\ ~Fits(OwnAnswer(db, q), "domain") => OwnAnswer(db, q) = NotFound
    BY UnicodeFound DEF OwnAnswer
  <2>2. \/ /\ due = <<Own(q), OwnAnswer(db, q)>>
           /\ RedirectsAbove(db, name) = {} \/ Fits(OwnAnswer(db, q), q.kind)
        \/ \E k \in Places(".", name) :
             /\ IsNearest(k, db, name)
             /\ due = Redirected(db, "domains", After(k, name), q.kind, name)
    BY <1>1, <1>7, <2>1, DueAbove
  <2>3. CASE due = <<Own(q), OwnAnswer(db, q)>> /\ Fits(OwnAnswer(db, q), q.kind)
    BY <1>1, <1>7, <2>3
  <2>4. CASE \E k \in Places(".", name) :
               /\ IsNearest(k, db, name)
               /\ due = Redirected(db, "domains", After(k, name), q.kind, name)
    <3>1. PICK k \in Places(".", name) :
               /\ IsNearest(k, db, name)
               /\ due = Redirected(db, "domains", After(k, name), q.kind, name)
      BY <2>4
    <3>2. ~(k <= i)
      BY <1>3, <1>7, <3>1 DEF WalkedTo, Passed, Redirected
    <3>3. k \in Nat
      BY <1>4 DEF Places, Text
    <3>4. j <= k
      BY <1>5, <3>2, <3>3 DEF IsNext
    <3> QED BY <3>1, <3>4
  <2> QED BY <2>2, <2>3, <2>4
<1>8. CASE IsRedirect(r)
  <2>1. stands => due = Redirected(db, "domains", less, q.kind, name)
    <3> SUFFICES ASSUME stands PROVE due = Redirected(db, "domains", less, q.kind, name)
      OBVIOUS
    <3>1. less \in RedirectsAbove(db, name)
      BY <1>5, <1>8 DEF RedirectsAbove
    <3>2. PICK k \in Places(".", name) :
               /\ IsNearest(k, db, name) /\ j <= k
               /\ due = Redirected(db, "domains", After(k, name), q.kind, name)
      BY <1>7, <3>1
    <3>3. k <= j
      BY <1>5, <1>8, <3>2 DEF IsNearest
    <3>4. k \in Nat
      BY <1>4 DEF Places, Text
    <3>5. k = j
      BY <1>6, <3>2, <3>3, <3>4
    <3> QED BY <1>5, <3>2, <3>5
  <2>2. Answer(BootstrapRedirect(r, q.kind, name))
    BY <1>8 DEF LookupAbove
  <2>3. stands => due[2] = BootstrapRedirect(r, q.kind, name)
    BY <2>1 DEF Redirected
  <2> QED BY <1>1, <1>2, <2>2, <2>3, Answers
<1>9. CASE ~IsRedirect(r)
  <2>1. WalkedTo(j, less)
    <3>1. ASSUME stands, NEW k \in Places(".", name), k <= j
          PROVE  due[1] # <<"domains", After(k, name)>>
      <4>1. k \in Nat
        BY <1>4 DEF Places, Text
      <4>2. CASE k <= i
        BY <1>3, <3>1, <4>2 DEF WalkedTo, Passed
      <4>3. CASE ~(k <= i)
        <5>1. k = j
          BY <1>5, <1>6, <3>1, <4>1, <4>3 DEF IsNext
        <5>2. CASE due[1] = Own(q)
          <6>1. due[1][1] # "domains"
            BY <1>1, <5>2 DEF Own
          <6> QED BY <6>1
        <5>3. CASE \E m \in Places(".", name) :
                     /\ IsNearest(m, db, name)
                     /\ due = Redirected(db, "domains", After(m, name), q.kind, name)
          <6>1. PICK m \in Places(".", name) :
                     /\ IsNearest(m, db, name)
                     /\ due = Redirected(db, "domains", After(m, name), q.kind, name)
            BY <5>3
          <6>2. m # j
            BY <1>5, <1>9, <6>1 DEF IsNearest
          <6>3. After(m, name) # After(j, name)
            BY <1>4, <6>2, AfterTells
          <6> QED BY <5>1, <6>1, <6>3 DEF Redirected
        <5> QED BY <1>7, <3>1, <5>2, <5>3
      <4> QED BY <4>2, <4>3
    <3> QED BY <1>5, <3>1 DEF WalkedTo, Passed
  <2>2. Climb(req.found, less)
    BY <1>9 DEF LookupAbove
  <2> QED BY <1>1, <1>2, <1>6, <2>1, <2>2, Climbs
<1> QED BY <1>8, <1>9

LEMMA LookupEntityKeeps ==
  ASSUME ReqInv, LookupEntity
  PROVE  ReqInv'
<1> DEFINE q == req.query
           r == Get(db, "entities", req.name)
<1>1. /\ req.pc = "entity" /\ q.kind = "entity" /\ q \in Queries /\ req.name = Name(q)
      /\ stands => Due(db, q) = due
  BY DEF LookupEntity, ReqInv, Asked, StillDue
<1>2. KeptByLookup
  BY DEF LookupEntity, KeptByLookup
<1>3. CASE Missing(r, "entity") /\ Places("-", req.name) # {}
  <2>1. Bootstrap /\ ~Fits(r, "entity")
    BY <1>3 DEF Missing
  <2>2. req' = [pc |-> "tag", query |-> q, name |-> req.name, slice |-> req.slice, found |-> r]
    BY <1>3 DEF LookupEntity, ReqInv, Asked
  <2>3. UNCHANGED <<db, due, stands>>
    BY <1>2 DEF KeptByLookup, serverVars
  <2>4. stands /\ due[1] = <<"entities", req.name>> => due[2] = r
    <3> SUFFICES ASSUME stands, due[1] = <<"entities", req.name>> PROVE due[2] = r
      OBVIOUS
    <3>1. CASE due = From(db, "entities", Name(q))
      BY <1>1, <3>1 DEF From
    <3>2. CASE /\ due = Redirected(db, "entities", Tag(Name(q)), "entity", Name(q))
               /\ IsRedirect(Get(db, "entities", Tag(Name(q))))
      <4>1. Tag(Name(q)) = Name(q)
        BY <1>1, <3>2 DEF Redirected
      <4> QED BY <1>1, <2>1, <3>2, <4>1 DEF Fits
    <3> QED BY <1>1, <3>1, <3>2, DueEntity
  <2>5. Asked' /\ Further' /\ Climbing' /\ AnswerStands'
    BY <1>1, <1>3, <2>1, <2>2 DEF Asked, Further, Climbing, AnswerStands, Pcs, Name
  <2>6. Ahead'
    BY <2>2, <2>3, <2>4 DEF Ahead
  <2>7. StillDue'
    BY <1>1, <2>2, <2>3 DEF StillDue
  <2> QED BY <2>5, <2>6, <2>7 DEF ReqInv
<1>4. CASE ~(Missing(r, "entity") /\ Places("-", req.name) # {})
  <2>1. stands => r = due[2]
    BY <1>1, <1>4, DueEntity DEF From, Missing
  <2>2. Answer(r)
    BY <1>4 DEF LookupEntity
  <2> QED BY <1>1, <1>2, <2>1, <2>2, Answers
<1> QED BY <1>3, <1>4

LEMMA LookupTagKeeps ==
  ASSUME ReqInv, LookupTag
  PROVE  ReqInv'
<1> DEFINE q == req.query
           r == Get(db, "entities", Tag(req.name))
           answer == IF IsRedirect(r) THEN BootstrapRedirect(r, "entity", req.name) ELSE req.found
<1>1. /\ req.pc = "tag" /\ q.kind = "entity" /\ q \in Queries /\ req.name = Name(q)
      /\ Bootstrap /\ ~Fits(req.found, "entity") /\ Places("-", req.name) # {}
      /\ stands => /\ Due(db, q) = due
                   /\ due[1] = <<"entities", req.name>> => due[2] = req.found
  BY DEF LookupTag, ReqInv, Asked, Further, StillDue, Ahead
<1>2. KeptByLookup /\ Answer(answer)
  BY DEF LookupTag, KeptByLookup
<1>3. ASSUME stands PROVE answer = due[2]
  <2>1. CASE Fits(Get(db, "entities", Name(q)), "entity")
    <3>1. due = From(db, "entities", Name(q))
      BY <1>1, <1>3, <2>1, DueEntity
    <3> QED BY <1>1, <1>3, <2>1, <3>1 DEF From
  <2>2. CASE ~Fits(Get(db, "entities", Name(q)), "entity") /\ IsRedirect(r)
    BY <1>1, <1>3, <2>2, DueEntity DEF Redirected
  <2>3. CASE ~IsRedirect(r)
    <3>1. due = From(db, "entities", Name(q))
      BY <1>1, <1>3, <2>3, DueEntity
    <3> QED BY <1>1, <1>3, <2>3, <3>1 DEF From
  <2> QED BY <2>1, <2>2, <2>3
<1> QED BY <1>1, <1>2, <1>3, Answers

LEMMA LookupNumbersKeeps ==
  ASSUME ReqInv, LookupNumbers
  PROVE  ReqInv'
<1> DEFINE q == req.query
           r == IF q.kind = "ip" THEN GetLpm(db, q.version, q.net) ELSE Get(db, "autnums", q.num)
           answer == IF Bootstrap THEN BootstrapRedirect(r, q.kind, q.text) ELSE r
<1>1. /\ req.pc # "idle" /\ q.kind \in {"ip", "autnum"}
      /\ stands => Due(db, q) = due
  BY DEF LookupNumbers, ReqInv, Asked, StillDue
<1>2. KeptByLookup /\ Answer(answer)
  BY DEF LookupNumbers, KeptByLookup
<1>3. Due(db, q)[2] = answer
  BY <1>1, DueNumbers DEF LookupNumbers, ReqInv, Asked
<1> QED BY <1>1, <1>2, <1>3, Answers DEF LookupNumbers

LEMMA LookupHelpKeeps ==
  ASSUME ReqInv, LookupHelp
  PROVE  ReqInv'
<1> DEFINE q == req.query
           r == Get(db, "srvhelps", req.name)
<1>1. /\ req.pc = "help" /\ q.kind = "help" /\ q \in Queries /\ req.name = Name(q)
      /\ stands => Due(db, q) = due
  BY DEF LookupHelp, ReqInv, Asked, StillDue
<1>2. KeptByLookup
  BY DEF LookupHelp, KeptByLookup
<1>3. CASE r.class = "help"
  <2>1. stands => r = due[2]
    BY <1>1, <1>3, DueHelp DEF From
  <2>2. Answer(r)
    BY <1>3 DEF LookupHelp
  <2> QED BY <1>1, <1>2, <2>1, <2>2, Answers
<1>4. CASE r.class # "help"
  <2>1. req' = [pc |-> "default", query |-> q, name |-> req.name, slice |-> req.slice,
                found |-> req.found]
    BY <1>4 DEF LookupHelp, Goto, ReqInv, Asked
  <2>2. UNCHANGED <<db, due, stands>>
    BY <1>2 DEF KeptByLookup, serverVars
  <2>3. stands => due[1] = <<"srvhelps", DefaultHost>>
    BY <1>1, <1>4, DueHelp DEF From
  <2>4. Asked' /\ Further' /\ Climbing' /\ AnswerStands'
    BY <1>1, <2>1 DEF Asked, Further, Climbing, AnswerStands, Pcs, Name
  <2>5. Ahead'
    <3> HIDE DEF r, q
    <3>1. stands => due[1] # <<"srvhelps", req.name>> \/ req.name = DefaultHost
      BY <2>3
    <3> QED BY <2>1, <2>2, <3>1 DEF Ahead
  <2>6. StillDue'
    BY <1>1, <2>1, <2>2 DEF StillDue
  <2> QED BY <2>4, <2>5, <2>6 DEF ReqInv
<1> QED BY <1>3, <1>4

LEMMA LookupDefaultHelpKeeps ==
  ASSUME ReqInv, LookupDefaultHelp
  PROVE  ReqInv'
<1> DEFINE q == req.query
           r == Get(db, "srvhelps", DefaultHost)
<1>1. /\ req.pc = "default" /\ q.kind = "help" /\ req.name = Name(q)
      /\ stands => /\ Due(db, q) = due
                   /\ due[1] # <<"srvhelps", req.name>> \/ req.name = DefaultHost
  BY DEF LookupDefaultHelp, ReqInv, Asked, StillDue, Ahead
<1>2. KeptByLookup /\ Answer(r)
  BY DEF LookupDefaultHelp, KeptByLookup
<1>3. stands => r = due[2]
  BY <1>1, DueHelp DEF From
<1> QED BY <1>1, <1>2, <1>3, Answers

LEMMA LookupSearchKeeps ==
  ASSUME ReqInv, LookupSearch
  PROVE  ReqInv'
<1>1. /\ req.pc = "domains" /\ req.query.kind = "domains" /\ req.name = Name(req.query)
      /\ stands => Due(db, req.query) = due
  BY DEF LookupSearch, ReqInv, Asked, StillDue
<1>2. KeptByLookup /\ Answer(SearchDomains(db, req.name))
  BY DEF LookupSearch, KeptByLookup
<1>3. stands => SearchDomains(db, req.name) = due[2]
  BY <1>1, DueSearch
<1> QED BY <1>1, <1>2, <1>3, Answers

(* A request comes in: what it is due is what the store holds now.         *)
LEMMA ReceiveKeeps ==
  ASSUME ReqInv, NEW q \in Queries, Receive(q)
  PROVE  ReqInv'
<1> DEFINE name == Name(q)
           few == q.kind = "nameserver" /\ Cardinality(Places(".", name)) < 2
           none == q.kind \in {"nameservers", "entities"}
           pc == IF q.kind = "domain" THEN "ldh"
                 ELSE IF few \/ none THEN "answered" ELSE q.kind
           found == IF few THEN BadRequest ELSE IF none THEN NotImplemented ELSE NotFound
<1>1. q.kind \in Kinds
  BY QueriesAssumption
<1>2. req' = [pc |-> pc, query |-> q, name |-> name, slice |-> name, found |-> found]
  <2>1. CASE q.kind = "domain"
    BY <2>1 DEF Receive, Name
  <2>2. CASE few
    BY <2>2 DEF Receive, Name
  <2>3. CASE none
    BY <2>3 DEF Receive, Name
  <2>4. CASE ~(q.kind = "domain" \/ few \/ none)
    BY <2>4 DEF Receive, Name
  <2> QED BY <2>1, <2>2, <2>3, <2>4
<1>3. db' = db /\ stands' /\ due' = Due(db, q)
  BY DEF Receive, serverVars
<1>4. Asked'
  <2>1. req'.pc = pc /\ req'.query = q /\ req'.name = name
    BY <1>2
  <2>2. pc \in Pcs
    BY <1>1 DEF Pcs, Kinds
  <2>3. CASE pc \in {"ldh", "answered"}
    <3>1. pc = "ldh" => q.kind = "domain"
      BY <1>1 DEF Kinds
    <3> HIDE DEF pc
    <3> QED BY <1>2, <2>1, <2>2, <2>3, <3>1 DEF Asked, Name
  <2>4. CASE pc \notin {"ldh", "answered"}
    <3>1. pc = q.kind /\ ~few /\ pc \in {"nameserver", "entity", "ip", "autnum", "help", "domains"}
      BY <1>1, <2>4 DEF Kinds
    <3> QED BY <1>2, <2>1, <2>2, <3>1 DEF Asked, Name
  <2> QED BY <2>3, <2>4
<1>5. pc \notin {"up", "tag", "unicode", "default"}
  BY <1>1 DEF Kinds
<1>6. Further' /\ Climbing' /\ Ahead'
  BY <1>2, <1>5 DEF Further, Climbing, Ahead
<1>7. StillDue'
  BY <1>2, <1>3 DEF StillDue
<1>8. AnswerStands'
  <2>1. pc = "answered" => found = Due(db, q)[2]
    BY <1>1, DueAtOnce DEF Kinds
  <2> QED BY <1>2, <1>3, <2>1 DEF AnswerStands
<1> QED BY <1>4, <1>6, <1>7, <1>8 DEF ReqInv

LEMMA LeaveKeeps ==
  ASSUME ReqInv, Leave
  PROVE  ReqInv'
BY DEF ReqInv, Leave, NoRequest, Asked, Pcs, Further, Climbing, Ahead, StillDue, AnswerStands

(* A commit, or a step that leaves the request alone.                      *)
LEMMA OthersKeep ==
  ASSUME ReqInv, UNCHANGED <<req, due>>,
         stands' => stands /\ (db' = db \/ req.pc \in {"idle", "answered"} \/ Due(db', req.query) = due)
  PROVE  ReqInv'
<1>1. Asked' /\ Further'
  BY DEF ReqInv, Asked, Further, Name
<1>2. Climbing'
  BY DEF ReqInv, Climbing, WalkedTo, Passed
<1>3. Ahead'
  BY DEF ReqInv, Ahead, Own, Name
<1>4. StillDue'
  BY DEF ReqInv, StillDue
<1>5. AnswerStands'
  BY DEF ReqInv, AnswerStands
<1> QED BY <1>1, <1>2, <1>3, <1>4, <1>5 DEF ReqInv

---------------------------------------------------------------------------
(* What the files add                                                      *)

(* An addition that is made says where it goes: an error where its id      *)
(* says, a domain where its id says too.                                   *)
SoundAddition(a) ==
  /\ a.obj.class \in Classes \union {"error"}
  /\ a.obj.class = "error" => a.id.class \in Segments
  /\ a.obj.class = "domain" => <<"domains", a.obj.ldh>> \in Slots(a.id)

LEMMA TemplateAddition ==
  ASSUME NEW obj, NEW id, HasKey(obj), obj.class \in Segments, id.class = obj.class
  PROVE  SoundAddition(Addition(FromTemplate(obj, id), id, TRUE))
<1> DEFINE made == FromTemplate(obj, id)
<1>1. "class" \in DOMAIN obj
  BY DEF HasKey
<1>2. CASE obj.class = "domain"
  <2>1. "ldh" \in DOMAIN obj
    BY <1>2 DEF HasKey, KeyFields
  <2>2. made.class = "domain" /\ made.ldh = id.ldh
    BY <1>1, <1>2, <2>1 DEF FromTemplate
  <2>3. <<"domains", id.ldh>> \in Slots(id)
    BY <1>2 DEF Slots
  <2> QED BY <2>2, <2>3 DEF SoundAddition, Addition, Classes, Segments
<1>3. CASE obj.class # "domain"
  <2>1. made.class = obj.class
    BY <1>1, <1>3 DEF FromTemplate, Segments
  <2> QED BY <1>3, <2>1 DEF SoundAddition, Addition, Classes, Segments
<1> QED BY <1>2, <1>3

LEMMA SoundAdditions ==
  ASSUME NEW file, IsFile(file)
  PROVE  /\ \E m \in Nat : DOMAIN Additions(file) = 1..m
         /\ \A i \in DOMAIN Additions(file) :
              Additions(file)[i].ok => SoundAddition(Additions(file)[i])
<1> DEFINE kind == file.kind
<1>1. ~Failure.ok /\ DOMAIN <<Failure>> = 1..1 /\ \A i \in 1..1 : <<Failure>>[i] = Failure
  BY DEF Failure, Addition
<1>2. CASE kind = "json"
  <2>1. CASE file.obj.class \in Segments /\ ~Unusable(file.obj)
    <3> DEFINE a == Addition(file.obj, file.obj, TRUE)
    <3>1. Additions(file) = <<a>>
      BY <1>2, <2>1 DEF Additions
    <3>2. SoundAddition(a)
      BY <2>1 DEF SoundAddition, Addition, Slots, Segments, Classes
    <3> HIDE DEF a
    <3> QED BY <3>1, <3>2
  <2>2. CASE ~(file.obj.class \in Segments /\ ~Unusable(file.obj))
    <3>1. Additions(file) = <<Failure>>
      BY <1>2, <2>2 DEF Additions
    <3> QED BY <1>1, <3>1
  <2> QED BY <2>1, <2>2
<1>3. CASE kind = "help"
  <2>1. CASE file.obj.class = "help"
    <3> DEFINE help == [file.obj EXCEPT !.host = HelpHost(file.host)]
               a == Addition(help, help, TRUE)
    <3>1. Additions(file) = <<a>>
      BY <1>3, <2>1 DEF Additions
    <3>2. help.class = "help"
      BY <1>3, <2>1 DEF IsFile, HasKey
    <3>3. SoundAddition(a)
      BY <3>2 DEF SoundAddition, Addition, Classes
    <3> HIDE DEF a
    <3> QED BY <3>1, <3>3
  <2>2. CASE file.obj.class # "help"
    <3>1. Additions(file) = <<Failure>>
      BY <1>3, <2>2 DEF Additions
    <3> QED BY <1>1, <3>1
  <2> QED BY <2>1, <2>2
<1>4. CASE kind = "template"
  <2>1. /\ Len(file.ids) \in Nat /\ DOMAIN file.ids = 1..Len(file.ids)
        /\ HasKey(file.obj) /\ file.obj.class \in Segments \union {"error"}
        /\ \A i \in DOMAIN file.ids :
             /\ file.ids[i].class \in Segments
             /\ file.obj.class # "error" => file.ids[i].class = file.obj.class
    <3>1. IsTemplate(file)
      BY <1>4 DEF IsFile
    <3> QED BY <3>1, Zenon DEF IsTemplate
  <2>2. Additions(file) =
          [i \in DOMAIN file.ids |->
            IF TemplateFails(file.obj, file.ids[i]) THEN Failure
            ELSE IF IsError(file.obj) THEN Addition(file.obj, file.ids[i], TRUE)
            ELSE Addition(FromTemplate(file.obj, file.ids[i]), file.ids[i], TRUE)]
    BY <1>4 DEF Additions
  <2>3. ASSUME NEW i \in DOMAIN file.ids, Additions(file)[i].ok
        PROVE  SoundAddition(Additions(file)[i])
    <3>1. CASE TemplateFails(file.obj, file.ids[i])
      BY <1>1, <2>2, <2>3, <3>1
    <3>2. CASE ~TemplateFails(file.obj, file.ids[i]) /\ IsError(file.obj)
      <4>1. Additions(file)[i] = Addition(file.obj, file.ids[i], TRUE)
        BY <2>2, <3>2
      <4>2. SoundAddition(Addition(file.obj, file.ids[i], TRUE))
        BY <2>1, <3>2 DEF IsError, SoundAddition, Addition
      <4> QED BY <4>1, <4>2
    <3>3. CASE ~TemplateFails(file.obj, file.ids[i]) /\ ~IsError(file.obj)
      <4>1. Additions(file)[i] = Addition(FromTemplate(file.obj, file.ids[i]), file.ids[i], TRUE)
        BY <2>2, <3>3
      <4>2. file.obj.class \in Segments /\ file.ids[i].class = file.obj.class
        BY <2>1, <3>3 DEF IsError
      <4> QED BY <2>1, <4>1, <4>2, TemplateAddition
    <3> QED BY <3>1, <3>2, <3>3
  <2> QED BY <2>1, <2>2, <2>3
<1>5. CASE kind = "unreadable"
  <2>1. Additions(file) = <<Failure>>
    BY <1>5 DEF Additions
  <2> QED BY <1>1, <2>1
<1>6. CASE kind = "other"
  <2>1. Additions(file) = <<>>
    BY <1>6 DEF Additions
  <2>2. DOMAIN Additions(file) = 1..0
    BY <2>1
  <2> QED BY <2>2
<1> QED BY <1>2, <1>3, <1>4, <1>5, <1>6 DEF IsFile

(* The tables of the domains hold domains, and errors by their own name.   *)
LEMMA SlotsTables ==
  ASSUME NEW obj, obj.class \in Classes, NEW s \in Slots(obj)
  PROVE  /\ s = <<s[1], s[2]>>
         /\ s[1] \in {"domains", "idns"} => obj.class = "domain"
         /\ s[1] = "domains" => s = <<"domains", obj.ldh>>
<1>1. \A version : IpTable(version) \in {"ip4", "ip6"}
  BY DEF IpTable
<1> QED BY <1>1 DEF Slots, Classes, Segments

LEMMA PutsTables ==
  ASSUME NEW a, SoundAddition(a)
  PROVE  /\ \A s \in Puts(a) :
              /\ s = <<s[1], s[2]>>
              /\ s[1] = "idns" => a.obj.class = "domain"
              /\ s[1] = "domains" => a.obj.class \in {"domain", "error"} /\ s \in Slots(a.id)
         /\ a.obj.class = "domain" => <<"domains", a.obj.ldh>> \in Puts(a)
<1>1. CASE a.obj.class = "error"
  <2>1. Puts(a) = {s \in Slots(a.id) : s[1] # "idns"} /\ a.id.class \in Classes
    BY <1>1 DEF Puts, ErrSlots, IsError, SoundAddition, Classes
  <2> QED BY <1>1, <2>1, SlotsTables
<1>2. CASE a.obj.class # "error"
  <2>1. Puts(a) = Slots(a.obj) /\ a.obj.class \in Classes
    BY <1>2 DEF Puts, IsError, SoundAddition
  <2>2. a.obj.class = "domain" => <<"domains", a.obj.ldh>> \in Puts(a)
    BY <2>1 DEF Slots
  <2>3. \A s \in Puts(a) : /\ s = <<s[1], s[2]>>
                           /\ s[1] \in {"domains", "idns"} => a.obj.class = "domain"
                           /\ s[1] = "domains" => s = <<"domains", a.obj.ldh>>
    BY <2>1, SlotsTables
  <2>4. a.obj.class = "domain" => <<"domains", a.obj.ldh>> \in Slots(a.id)
    BY DEF SoundAddition
  <2> QED BY <2>2, <2>3, <2>4
<1> QED BY <1>1, <1>2

---------------------------------------------------------------------------
(* A load                                                                  *)

DirOK(d) == IsFiniteSet(DOMAIN d) /\ \A n \in DOMAIN d : IsFile(d[n])

(* A listing has every file of the directory and no other.                 *)
LEMMA Listed ==
  ASSUME NEW d, DirOK(d), NEW files \in Listings(d)
  PROVE  /\ Cardinality(DOMAIN d) \in Nat
         /\ DOMAIN files = 1..Cardinality(DOMAIN d)
         /\ \A f \in DOMAIN files : \E n \in DOMAIN d : files[f] = d[n]
         /\ \A n \in DOMAIN d : \E f \in DOMAIN files : files[f] = d[n]
<1> DEFINE size == Cardinality(DOMAIN d)
<1>0. PICK names \in SE!SetToSeqs(DOMAIN d) : files = [i \in DOMAIN names |-> d[names[i]]]
  BY DEF Listings
<1>1. /\ names \in [1..size -> DOMAIN d]
      /\ \A i, j \in 1..size : i # j => names[i] # names[j]
  <2>1. SE!Cardinality(DOMAIN d) = Cardinality(DOMAIN d)
    BY DEF SE!Cardinality, Cardinality
  <2> QED BY <2>1 DEF SE!SetToSeqs
<1>2. size \in Nat
  BY FS_CardinalityType DEF DirOK
<1>3. IsFiniteSet(1..size) /\ Cardinality(1..size) = size
  BY <1>2, FS_Interval
<1>4. names \in Injection(1..size, DOMAIN d)
  BY <1>1 DEF Injection, IsInjective
<1>5. names \in Surjection(1..size, DOMAIN d)
  BY <1>3, <1>4, FS_Injection DEF DirOK
<1>6. \A n \in DOMAIN d : \E i \in 1..size : names[i] = n
  BY <1>5 DEF Surjection
<1> QED BY <1>0, <1>1, <1>2, <1>6

(* Of the additions that are made there is a last one.                     *)
LEMMA LastAddition ==
  ASSUME NEW files, NEW size \in Nat, DOMAIN files = 1..size,
         \A f \in DOMAIN files : \E m \in Nat : DOMAIN Additions(files[f]) = 1..m,
         NEW ps \in SUBSET Added(AdditionsOf(files)), ps # {}
  PROVE  Last(ps) \in ps /\ \A q \in ps : ~IsLater(q, Last(ps))
<1>1. \A p \in ps : /\ p = <<p[1], p[2]>> /\ p[1] \in 1..size
                    /\ p[2] \in DOMAIN Additions(files[p[1]])
  BY DEF Added, AdditionsOf
<1> DEFINE fs == {f \in 0..size : \E p \in ps : p[1] = f}
<1>2. PICK f \in fs : \A g \in fs : g <= f
  <2>1. fs \in SUBSET (0..size) /\ fs # {}
    BY <1>1
  <2> HIDE DEF fs
  <2> QED BY <2>1, GreatestNumber
<1>3. f \in 1..size
  BY <1>1
<1>4. PICK m \in Nat : DOMAIN Additions(files[f]) = 1..m
  BY <1>3
<1> DEFINE is == {i \in 0..m : <<f, i>> \in ps}
<1>5. PICK i \in is : \A j \in is : j <= i
  <2>1. is \in SUBSET (0..m) /\ is # {}
    <3>1. PICK p \in ps : p[1] = f
      OBVIOUS
    <3>2. p = <<f, p[2]>> /\ p[2] \in 1..m
      BY <1>1, <1>4, <3>1
    <3> QED BY <3>2
  <2> HIDE DEF is
  <2> QED BY <2>1, GreatestNumber
<1>6. \A q \in ps : ~IsLater(q, <<f, i>>)
  <2> TAKE q \in ps
  <2>1. q = <<q[1], q[2]>> /\ q[1] \in 1..size /\ q[2] \in DOMAIN Additions(files[q[1]])
    BY <1>1
  <2>2. q[1] <= f
    BY <1>2, <2>1
  <2>3. q[1] = f => q[2] <= i /\ q[2] \in 1..m
    BY <1>4, <1>5, <2>1
  <2> QED BY <1>3, <2>1, <2>2, <2>3 DEF IsLater
<1>7. <<f, i>> \in ps
  OBVIOUS
<1> QED BY <1>6, <1>7 DEF Last

(* What a file of the directory adds.                                      *)
Adding(d, n, i) == Additions(d[n])[i]
AddsTo(d, s, n, i) ==
  /\ n \in DOMAIN d /\ i \in DOMAIN Additions(d[n])
  /\ s \in Puts(Adding(d, n, i))

LEMMA SoundAdding ==
  ASSUME NEW d, DirOK(d), LoadSucceeds(d), NEW n \in DOMAIN d, NEW i \in DOMAIN Additions(d[n])
  PROVE  SoundAddition(Adding(d, n, i))
BY SoundAdditions DEF DirOK, LoadSucceeds, Adding

(* What a load leaves in the store is what a file puts there, or what was  *)
(* there, if no file puts anything there.                                  *)
LEMMA LoadedFrom ==
  ASSUME NEW d, DirOK(d), LoadSucceeds(d), NEW files \in Listings(d), NEW tx
  PROVE  LET l == Loaded(tx, files)
         IN /\ \A s \in DOMAIN l.slots :
                 \/ \E n \in DOMAIN d : \E i \in DOMAIN Additions(d[n]) :
                      AddsTo(d, s, n, i) /\ l.slots[s] = Adding(d, n, i).obj
                 \/ /\ s \in DOMAIN tx.slots /\ l.slots[s] = tx.slots[s]
                    /\ \A n \in DOMAIN d : \A i \in DOMAIN Additions(d[n]) : ~AddsTo(d, s, n, i)
            /\ \A n \in DOMAIN d : \A i \in DOMAIN Additions(d[n]) :
                 Puts(Adding(d, n, i)) \subseteq DOMAIN l.slots
            /\ \A k \in DOMAIN l.index :
                 \/ \E n \in DOMAIN d : \E i \in DOMAIN Additions(d[n]) :
                      /\ k \in Labels(Adding(d, n, i))
                      /\ l.index[k] = Adding(d, n, i).obj
                 \/ k \in DOMAIN tx.index /\ l.index[k] = tx.index[k]
<1> DEFINE adds == AdditionsOf(files)
           at(p) == adds[p[1]][p[2]]
           all == Added(adds)
           into(s) == {p \in all : s \in Puts(at(p))}
           under(k) == {p \in all : k \in Labels(at(p))}
           slots == UNION {Puts(at(p)) : p \in all}
           keys == UNION {Labels(at(p)) : p \in all}
           l == Loaded(tx, files)
<1>1. /\ l.slots = [s \in slots \union DOMAIN tx.slots |->
                      IF s \in slots THEN at(Last(into(s))).obj ELSE tx.slots[s]]
      /\ l.index = [k \in keys \union DOMAIN tx.index |->
                      IF k \in keys THEN at(Last(under(k))).obj ELSE tx.index[k]]
  BY DEF Loaded
<1>2. /\ Cardinality(DOMAIN d) \in Nat /\ DOMAIN files = 1..Cardinality(DOMAIN d)
      /\ \A f \in DOMAIN files : \E n \in DOMAIN d : files[f] = d[n]
      /\ \A n \in DOMAIN d : \E f \in DOMAIN files : files[f] = d[n]
  BY Listed
<1>3. \A f \in DOMAIN files : \E m \in Nat : DOMAIN Additions(files[f]) = 1..m
  BY <1>2, SoundAdditions DEF DirOK
<1>4. \A p \in all : \E n \in DOMAIN d : \E i \in DOMAIN Additions(d[n]) : at(p) = Adding(d, n, i)
  <2> TAKE p \in all
  <2>1. p[1] \in DOMAIN files /\ p[2] \in DOMAIN Additions(files[p[1]])
        /\ at(p) = Additions(files[p[1]])[p[2]]
    BY DEF Added, AdditionsOf
  <2>2. PICK n \in DOMAIN d : files[p[1]] = d[n]
    BY <1>2, <2>1
  <2> QED BY <2>1, <2>2 DEF Adding
<1>5. \A n \in DOMAIN d : \A i \in DOMAIN Additions(d[n]) : \E p \in all : at(p) = Adding(d, n, i)
  <2> TAKE n \in DOMAIN d
  <2> TAKE i \in DOMAIN Additions(d[n])
  <2>1. PICK f \in DOMAIN files : files[f] = d[n]
    BY <1>2
  <2>2. <<f, i>> \in all /\ at(<<f, i>>) = Adding(d, n, i)
    BY <2>1 DEF Added, AdditionsOf, Adding
  <2> QED BY <2>2
<1>6. \A ps \in SUBSET all : ps # {} => Last(ps) \in ps
  BY <1>2, <1>3, LastAddition
<1> HIDE DEF adds, all, l
<1>7. ASSUME NEW s \in slots
      PROVE  \E n \in DOMAIN d : \E i \in DOMAIN Additions(d[n]) :
               AddsTo(d, s, n, i) /\ at(Last(into(s))).obj = Adding(d, n, i).obj
  <2>1. into(s) \in SUBSET all /\ into(s) # {}
    OBVIOUS
  <2>2. Last(into(s)) \in into(s)
    BY <1>6, <2>1
  <2> DEFINE p == Last(into(s))
  <2>3. p \in all /\ s \in Puts(at(p))
    BY <2>2
  <2> HIDE DEF p
  <2>4. PICK n \in DOMAIN d : \E i \in DOMAIN Additions(d[n]) : at(p) = Adding(d, n, i)
    BY <1>4, <2>3
  <2>5. PICK i \in DOMAIN Additions(d[n]) : at(p) = Adding(d, n, i)
    BY <2>4
  <2>6. AddsTo(d, s, n, i) /\ at(p).obj = Adding(d, n, i).obj
    BY <2>3, <2>5 DEF AddsTo
  <2> QED BY <2>6 DEF p
<1>8. ASSUME NEW k \in keys
      PROVE  \E n \in DOMAIN d : \E i \in DOMAIN Additions(d[n]) :
               k \in Labels(Adding(d, n, i)) /\ at(Last(under(k))).obj = Adding(d, n, i).obj
  <2>1. under(k) \in SUBSET all /\ under(k) # {}
    OBVIOUS
  <2>2. Last(under(k)) \in under(k)
    BY <1>6, <2>1
  <2> DEFINE p == Last(under(k))
  <2>3. p \in all /\ k \in Labels(at(p))
    BY <2>2
  <2> HIDE DEF p
  <2>4. PICK n \in DOMAIN d : \E i \in DOMAIN Additions(d[n]) : at(p) = Adding(d, n, i)
    BY <1>4, <2>3
  <2>5. PICK i \in DOMAIN Additions(d[n]) : at(p) = Adding(d, n, i)
    BY <2>4
  <2>6. k \in Labels(Adding(d, n, i)) /\ at(p).obj = Adding(d, n, i).obj
    BY <2>3, <2>5
  <2> QED BY <2>6 DEF p
<1>9. \A n \in DOMAIN d : \A i \in DOMAIN Additions(d[n]) : Puts(Adding(d, n, i)) \subseteq slots
  <2> TAKE n \in DOMAIN d
  <2> TAKE i \in DOMAIN Additions(d[n])
  <2>1. PICK p \in all : at(p) = Adding(d, n, i)
    BY <1>5
  <2> QED BY <2>1
<1>10. ASSUME NEW s \in DOMAIN l.slots
       PROVE  \/ \E n \in DOMAIN d : \E i \in DOMAIN Additions(d[n]) :
                   AddsTo(d, s, n, i) /\ l.slots[s] = Adding(d, n, i).obj
              \/ /\ s \in DOMAIN tx.slots /\ l.slots[s] = tx.slots[s]
                 /\ \A n \in DOMAIN d : \A i \in DOMAIN Additions(d[n]) : ~AddsTo(d, s, n, i)
  <2>1. CASE s \in slots
    <3>1. l.slots[s] = at(Last(into(s))).obj
      BY <1>1, <2>1
    <3> QED BY <1>7, <2>1, <3>1
  <2>2. CASE s \notin slots
    <3>1. s \in DOMAIN tx.slots /\ l.slots[s] = tx.slots[s]
      BY <1>1, <2>2
    <3>2. \A n \in DOMAIN d : \A i \in DOMAIN Additions(d[n]) : ~AddsTo(d, s, n, i)
      BY <1>9, <2>2 DEF AddsTo
    <3> QED BY <3>1, <3>2
  <2> QED BY <2>1, <2>2
<1>11. ASSUME NEW k \in DOMAIN l.index
       PROVE  \/ \E n \in DOMAIN d : \E i \in DOMAIN Additions(d[n]) :
                   /\ k \in Labels(Adding(d, n, i))
                   /\ l.index[k] = Adding(d, n, i).obj
              \/ k \in DOMAIN tx.index /\ l.index[k] = tx.index[k]
  <2>1. CASE k \in keys
    <3>1. l.index[k] = at(Last(under(k))).obj
      BY <1>1, <2>1
    <3> QED BY <1>8, <2>1, <3>1
  <2>2. CASE k \notin keys
    BY <1>1, <2>2
  <2> QED BY <2>1, <2>2
<1>12. slots \subseteq DOMAIN l.slots
  BY <1>1
<1> HIDE DEF slots, keys, into, under, at
<1> QED BY <1>9, <1>10, <1>11, <1>12 DEF l

---------------------------------------------------------------------------
(* The invariant of the store                                              *)

IndexOK(store) == \A k \in DOMAIN store.index : store.index[k].class \in {"domain", "error"}

StoreOK(store) == DOMAIN store = {"slots", "index"} /\ SlotsOK(store) /\ IndexOK(store)

LEMMA EmptyOK == StoreOK(Empty)
BY DEF StoreOK, SlotsOK, IndexOK, Empty, NoIndex

(* The index that an update starts with is made of the domains there are.  *)
LEMMA NewTxFrom ==
  ASSUME NEW store, DOMAIN store = {"slots", "index"},
         \A s \in DOMAIN store.slots : s = <<s[1], s[2]>>
  PROVE  /\ DOMAIN NewTx(store) = {"slots", "index"} /\ NewTx(store).slots = store.slots
         /\ \A k \in DOMAIN NewTx(store).index : \E s \in DOMAIN store.slots :
              s[1] = "domains" /\ NewTx(store).index[k] = store.slots[s]
<1> DEFINE names == {s[2] : s \in {s \in DOMAIN store.slots : s[1] = "domains"}}
           keys == UNION {Keys(n) : n \in names}
           holder(k) == CHOOSE n \in names : k \in Keys(n)
           tx == NewTx(store)
<1>1. /\ DOMAIN tx = {"slots", "index"} /\ tx.slots = store.slots
      /\ tx.index = IF SearchEnabled THEN [k \in keys |-> store.slots[<<"domains", holder(k)>>]]
                    ELSE NoIndex
  BY DEF NewTx
<1>2. CASE SearchEnabled
  <2> SUFFICES ASSUME NEW k \in keys
               PROVE  \E s \in DOMAIN store.slots :
                        s[1] = "domains" /\ tx.index[k] = store.slots[s]
    BY <1>1, <1>2
  <2>1. \E n \in names : k \in Keys(n)
    OBVIOUS
  <2>2. holder(k) \in names
    BY <2>1
  <2>3. PICK s \in DOMAIN store.slots : s[1] = "domains" /\ holder(k) = s[2]
    BY <2>2
  <2>4. tx.index[k] = store.slots[<<"domains", holder(k)>>]
    BY <1>1, <1>2
  <2> QED BY <2>3, <2>4
<1>3. CASE ~SearchEnabled
  BY <1>1, <1>3 DEF NoIndex
<1> QED BY <1>1, <1>2, <1>3

(* A load leaves a well-formed store behind, if it started from one.       *)
LEMMA LoadedOK ==
  ASSUME NEW d, DirOK(d), LoadSucceeds(d), NEW files \in Listings(d), NEW tx, StoreOK(tx)
  PROVE  StoreOK(Loaded(tx, files))
<1> DEFINE l == Loaded(tx, files)
<1>1. DOMAIN l = {"slots", "index"}
  BY DEF Loaded
<1>2. \A n \in DOMAIN d : \A i \in DOMAIN Additions(d[n]) : SoundAddition(Adding(d, n, i))
  BY SoundAdding
<1>3. ASSUME NEW s \in DOMAIN l.slots
      PROVE  /\ s = <<s[1], s[2]>>
             /\ l.slots[s].class \in Classes \union {"error"}
             /\ s[1] = "idns" => l.slots[s].class = "domain"
             /\ s[1] = "domains" => l.slots[s].class \in {"domain", "error"}
  <2>1. CASE \E n \in DOMAIN d : \E i \in DOMAIN Additions(d[n]) :
               AddsTo(d, s, n, i) /\ l.slots[s] = Adding(d, n, i).obj
    <3>0. PICK n \in DOMAIN d : \E i \in DOMAIN Additions(d[n]) :
            AddsTo(d, s, n, i) /\ l.slots[s] = Adding(d, n, i).obj
      BY <2>1
    <3>1. PICK i \in DOMAIN Additions(d[n]) :
            AddsTo(d, s, n, i) /\ l.slots[s] = Adding(d, n, i).obj
      BY <3>0
    <3> DEFINE a == Adding(d, n, i)
    <3>2. SoundAddition(a) /\ s \in Puts(a) /\ l.slots[s] = a.obj
      BY <1>2, <3>1 DEF AddsTo
    <3> HIDE DEF a, l
    <3> QED BY <3>2, PutsTables DEF SoundAddition
  <2>2. CASE s \in DOMAIN tx.slots /\ l.slots[s] = tx.slots[s]
    BY <2>2 DEF StoreOK, SlotsOK
  <2> QED BY <2>1, <2>2, LoadedFrom
<1>4. ASSUME NEW k \in DOMAIN l.index
      PROVE  l.index[k].class \in {"domain", "error"}
  <2>1. CASE \E n \in DOMAIN d : \E i \in DOMAIN Additions(d[n]) :
               k \in Labels(Adding(d, n, i)) /\ l.index[k] = Adding(d, n, i).obj
    BY <2>1 DEF Labels
  <2>2. CASE k \in DOMAIN tx.index /\ l.index[k] = tx.index[k]
    BY <2>2 DEF StoreOK, IndexOK
  <2> QED BY <2>1, <2>2, LoadedFrom
<1> HIDE DEF l
<1> QED BY <1>1, <1>3, <1>4 DEF StoreOK, SlotsOK, IndexOK, l

LEMMA NewTxOK ==
  ASSUME NEW store, StoreOK(store)
  PROVE  StoreOK(NewTx(store))
<1>1. /\ DOMAIN NewTx(store) = {"slots", "index"} /\ NewTx(store).slots = store.slots
      /\ \A k \in DOMAIN NewTx(store).index : \E s \in DOMAIN store.slots :
           s[1] = "domains" /\ NewTx(store).index[k] = store.slots[s]
  BY NewTxFrom DEF StoreOK, SlotsOK
<1> QED BY <1>1 DEF StoreOK, SlotsOK, IndexOK

(* Whatever rdap-srv-data writes is a file that can be loaded.             *)
LEMMA MadeFileOK ==
  ASSUME NEW args \in MadeArgs, NEW store, ~Refused(store, args)
  PROVE  IsFile(MadeFile(args).file)
<1> DEFINE class == args.id.class
           id == MadeId(args.id)
<1>1. /\ class \in Classes /\ args.as \in {"json", "template", "redirect"}
      /\ class # "ip" => HasKey(args.id)
  BY ArgsAssumption DEF IsArgs
<1>2. id.class = class /\ HasKey(id)
  <2>1. CASE class = "ip"
    BY <2>1 DEF MadeId, NetworkId, HasKey, KeyFields
  <2>2. CASE class = "domain"
    <3>1. id.class = class /\ DOMAIN id = DOMAIN args.id
      BY <1>1, <2>2 DEF MadeId, DomainId, HasKey
    <3> QED BY <1>1, <2>2, <3>1 DEF HasKey
  <2>3. CASE class \in {"autnum", "help"}
    <3>1. id.class = class /\ DOMAIN id = DOMAIN args.id
      BY <1>1, <2>3 DEF MadeId, HasKey
    <3> QED BY <1>1, <2>3, <3>1 DEF HasKey
  <2>4. CASE class \in {"nameserver", "entity"}
    BY <1>1, <2>4 DEF MadeId
  <2> QED BY <1>1, <2>1, <2>2, <2>3, <2>4 DEF Classes, Segments
<1> HIDE DEF id
<1>3. CASE class = "help"
  <2>0. args.as = "json"
    BY <1>1, <1>3 DEF Refused
  <2>1. MadeFile(args).file.kind = "help" /\ MadeFile(args).file.obj = id
    BY <1>3, <2>0 DEF MadeFile, id
  <2> QED BY <1>2, <2>1 DEF IsFile
<1>4. CASE class # "help"
  <2>1. class \in Segments
    BY <1>1, <1>4 DEF Classes
  <2>2. MadeObject(id).class = class /\ HasKey(MadeObject(id))
    <3>1. "class" \in DOMAIN id /\ id.class = class
      BY <1>2 DEF HasKey
    <3>2. DOMAIN MadeObject(id) = DOMAIN id \union {"self"} /\ MadeObject(id).class = class
      BY <3>1 DEF MadeObject
    <3> QED BY <1>2, <3>1, <3>2 DEF HasKey
  <2>3. /\ Len(<<id>>) \in Nat /\ DOMAIN <<id>> = 1..Len(<<id>>)
        /\ \A i \in DOMAIN <<id>> : <<id>>[i] = id
    OBVIOUS
  <2>4. CASE args.as = "template"
    <3>1. MadeFile(args).file = [kind |-> "template", obj |-> MadeObject(id), ids |-> <<id>>]
      BY <1>4, <2>4 DEF MadeFile, id
    <3>2. IsTemplate(MadeFile(args).file)
      BY <1>2, <2>1, <2>2, <2>3, <3>1 DEF IsTemplate
    <3> QED BY <3>1, <3>2 DEF IsFile
  <2>5. CASE args.as = "redirect"
    <3>1. MadeFile(args).file = RedirectFile(id, args.url)
      BY <1>4, <2>5 DEF MadeFile, id
    <3>2. HasKey(ErrorResponse(307, args.url)) /\ ErrorResponse(307, args.url).class = "error"
      BY DEF HasKey, ErrorResponse, KeyFields
    <3>3. IsTemplate(MadeFile(args).file)
      BY <1>2, <2>1, <2>3, <3>1, <3>2 DEF IsTemplate, RedirectFile
    <3> QED BY <3>1, <3>3 DEF IsFile, RedirectFile
  <2>6. CASE args.as = "json"
    <3>1. MadeFile(args).file = [kind |-> "json", obj |-> MadeObject(id)]
      BY <1>4, <2>6 DEF MadeFile, id
    <3> QED BY <2>2, <3>1 DEF IsFile
  <2> QED BY <1>1, <2>4, <2>5, <2>6
<1> QED BY <1>3, <1>4

(* What is known of a store that one load of today's directory has filled. *)
FilledFrom(d, store) ==
  /\ \A s \in DOMAIN store.slots : \E n \in DOMAIN d : \E i \in DOMAIN Additions(d[n]) :
       AddsTo(d, s, n, i) /\ store.slots[s] = Adding(d, n, i).obj
  /\ \A n \in DOMAIN d : \A i \in DOMAIN Additions(d[n]) :
       Puts(Adding(d, n, i)) \subseteq DOMAIN store.slots
  /\ \A k \in DOMAIN store.index : \E n \in DOMAIN d : \E i \in DOMAIN Additions(d[n]) :
       store.index[k] = Adding(d, n, i).obj

Fresh == fresh /\ LoadSucceeds(dir) => FilledFrom(dir, db)

LEMMA ReloadFills ==
  ASSUME NEW d, DirOK(d), LoadSucceeds(d), NEW files \in Listings(d)
  PROVE  FilledFrom(d, Loaded(Empty, files))
<1>1. DOMAIN Empty.slots = {} /\ DOMAIN Empty.index = {}
  BY DEF Empty, NoIndex
<1> QED BY <1>1, LoadedFrom DEF FilledFrom

(* An update of a store that came from this directory leaves it so.        *)
LEMMA UpdateFills ==
  ASSUME NEW d, DirOK(d), LoadSucceeds(d), NEW files \in Listings(d), NEW store, StoreOK(store),
         FilledFrom(d, store)
  PROVE  FilledFrom(d, Loaded(NewTx(store), files))
<1> DEFINE tx == NewTx(store)
           l == Loaded(tx, files)
<1>1. /\ tx.slots = store.slots
      /\ \A k \in DOMAIN tx.index : \E s \in DOMAIN store.slots : tx.index[k] = store.slots[s]
  BY NewTxFrom DEF StoreOK, SlotsOK
<1>2. /\ \A s \in DOMAIN l.slots :
           \/ \E n \in DOMAIN d : \E i \in DOMAIN Additions(d[n]) :
                AddsTo(d, s, n, i) /\ l.slots[s] = Adding(d, n, i).obj
           \/ /\ s \in DOMAIN tx.slots
              /\ \A n \in DOMAIN d : \A i \in DOMAIN Additions(d[n]) : ~AddsTo(d, s, n, i)
      /\ \A n \in DOMAIN d : \A i \in DOMAIN Additions(d[n]) :
           Puts(Adding(d, n, i)) \subseteq DOMAIN l.slots
      /\ \A k \in DOMAIN l.index :
           \/ \E n \in DOMAIN d : \E i \in DOMAIN Additions(d[n]) : l.index[k] = Adding(d, n, i).obj
           \/ k \in DOMAIN tx.index /\ l.index[k] = tx.index[k]
  BY LoadedFrom
<1> HIDE DEF tx, l
<1>3. ASSUME NEW s \in DOMAIN l.slots
      PROVE  \E n \in DOMAIN d : \E i \in DOMAIN Additions(d[n]) :
               AddsTo(d, s, n, i) /\ l.slots[s] = Adding(d, n, i).obj
  BY <1>1, <1>2 DEF FilledFrom
<1>4. ASSUME NEW k \in DOMAIN l.index
      PROVE  \E n \in DOMAIN d : \E i \in DOMAIN Additions(d[n]) : l.index[k] = Adding(d, n, i).obj
  <2>1. CASE k \in DOMAIN tx.index /\ l.index[k] = tx.index[k]
    <3>1. PICK s \in DOMAIN store.slots : tx.index[k] = store.slots[s]
      BY <1>1, <2>1
    <3> QED BY <2>1, <3>1 DEF FilledFrom
  <2> QED BY <1>2, <2>1
<1>5. FilledFrom(d, l)
  BY <1>2, <1>3, <1>4 DEF FilledFrom
<1> QED BY <1>5 DEF l, tx

---------------------------------------------------------------------------
(* The theorems                                                            *)

Counts == loads \in 0..MaxLoads /\ writes \in 0..MaxWrites /\ fresh \in BOOLEAN /\ stands \in BOOLEAN

ServeInv == Counts /\ DirOK(dir) /\ StoreOK(db) /\ Fresh /\ ReqInv

LEMMA InitServes == Init => ServeInv
<1> SUFFICES ASSUME Init PROVE ServeInv
  OBVIOUS
<1>1. DirOK(dir)
  BY FirstDirAssumption DEF Init, DirOK
<1>2. Counts
  BY BoundAssumption DEF Init, Counts, LoadSucceeds
<1>3. StoreOK(db) /\ Fresh
  <2>1. CASE LoadSucceeds(dir)
    <3>1. PICK files \in Listings(dir) : db = Loaded(Empty, files)
      BY <2>1 DEF Init
    <3> QED BY <1>1, <2>1, <3>1, EmptyOK, LoadedOK, ReloadFills DEF Fresh
  <2>2. CASE ~LoadSucceeds(dir)
    BY <2>2, EmptyOK DEF Init, Fresh
  <2> QED BY <2>1, <2>2
<1>4. ReqInv
  BY DEF Init, ReqInv, NoRequest, Asked, Pcs, Further, Climbing, Ahead, StillDue, AnswerStands
<1> QED BY <1>1, <1>2, <1>3, <1>4 DEF ServeInv

LEMMA LoadServes ==
  ASSUME ServeInv, NEW kind \in {"update", "reload"}, Load(kind)
  PROVE  ServeInv'
<1>1. UNCHANGED <<dir, req, writes, due>>
  BY DEF Load
<1>2. DirOK(dir)'
  BY <1>1 DEF ServeInv, DirOK
<1>3. Counts'
  <2>1. loads' \in 0..MaxLoads /\ writes' \in 0..MaxWrites
    BY <1>1, BoundAssumption DEF Load, ServeInv, Counts
  <2>2. fresh' \in BOOLEAN
    BY DEF Load, ServeInv, Counts
  <2>3. stands' \in BOOLEAN
    BY DEF Load
  <2> QED BY <2>1, <2>2, <2>3 DEF Counts
<1>4. ReqInv'
  <2>1. stands' => stands /\ (req.pc \in {"idle", "answered"} \/ Due(db', req.query) = due)
    BY DEF Load
  <2> QED BY <1>1, <2>1, OthersKeep DEF ServeInv
<1>5. CASE LoadSucceeds(dir)
  <2> DEFINE tx == IF kind = "update" THEN NewTx(db) ELSE Empty
  <2>1. PICK files \in Listings(dir) : db' = Loaded(tx, files)
    BY <1>5 DEF Load
  <2>2. StoreOK(tx)
    BY EmptyOK, NewTxOK DEF ServeInv
  <2>3. StoreOK(Loaded(tx, files))
    <3> HIDE DEF tx
    <3> QED BY <1>5, <2>2, LoadedOK DEF ServeInv
  <2>4. StoreOK(db)'
    BY <2>1, <2>3
  <2>5. Fresh'
    <3> SUFFICES ASSUME fresh' PROVE FilledFrom(dir, db)'
      BY DEF Fresh
    <3>1. CASE kind = "reload"
      BY <1>1, <1>5, <2>1, <3>1, ReloadFills DEF ServeInv
    <3>2. CASE kind = "update"
      <4>1. fresh
        BY <1>5, <3>2 DEF Load
      <4>2. FilledFrom(dir, db)
        BY <1>5, <4>1 DEF ServeInv, Fresh
      <4> QED BY <1>1, <1>5, <2>1, <3>2, <4>2, UpdateFills DEF ServeInv
    <3> QED BY <3>1, <3>2
  <2> QED BY <1>2, <1>3, <1>4, <2>4, <2>5 DEF ServeInv
<1>6. CASE ~LoadSucceeds(dir)
  <2>1. db' = db
    BY <1>6 DEF Load
  <2>2. StoreOK(db)' /\ Fresh'
    BY <1>1, <1>6, <2>1 DEF ServeInv, Fresh
  <2> QED BY <1>2, <1>3, <1>4, <2>2 DEF ServeInv
<1> QED BY <1>5, <1>6

LEMMA MakeDataServes ==
  ASSUME ServeInv, NEW args \in MadeArgs, MakeData(args)
  PROVE  ServeInv'
<1> DEFINE made == MadeFile(args)
<1>1. /\ UNCHANGED <<db, req, loads, due, stands>> /\ writes < MaxWrites /\ writes' = writes + 1
      /\ fresh' = (fresh /\ made.name \in DOMAIN dir /\ dir[made.name] = made.file)
      /\ dir' = [n \in DOMAIN dir \union {made.name} |->
                   IF n = made.name THEN made.file ELSE dir[n]]
  BY DEF MakeData
<1>2. IsFile(made.file)
  <2>1. PICK files \in Listings(dir) : ~Refused(Loaded(Empty, files), args)
    BY DEF MakeData
  <2> QED BY <2>1, MadeFileOK
<1> HIDE DEF made
<1>3. DirOK(dir)'
  <2>1. IsFiniteSet(DOMAIN dir \union {made.name})
    BY FS_AddElement DEF ServeInv, DirOK
  <2>2. \A n \in DOMAIN dir' : IsFile(dir'[n])
    BY <1>1, <1>2 DEF ServeInv, DirOK
  <2> QED BY <1>1, <2>1, <2>2 DEF DirOK
<1>4. Counts'
  <2>1. loads' \in 0..MaxLoads /\ writes' \in 0..MaxWrites
    BY <1>1, BoundAssumption DEF ServeInv, Counts
  <2>2. fresh' \in BOOLEAN
    BY <1>1
  <2>3. stands' \in BOOLEAN
    BY <1>1 DEF ServeInv, Counts
  <2> QED BY <2>1, <2>2, <2>3 DEF Counts
(* The store is still fresh only if the file was there as it is.           *)
<1>5. Fresh'
  <2> SUFFICES ASSUME fresh', LoadSucceeds(dir') PROVE FilledFrom(dir', db)
    BY <1>1 DEF Fresh
  <2>1. DOMAIN dir' = DOMAIN dir /\ \A n \in DOMAIN dir : dir'[n] = dir[n]
    BY <1>1
  <2>2. LoadSucceeds(dir)
    BY <2>1 DEF LoadSucceeds
  <2>3. FilledFrom(dir, db)
    BY <1>1, <2>2 DEF ServeInv, Fresh
  <2>4. \A n \in DOMAIN dir : \A i : Adding(dir', n, i) = Adding(dir, n, i)
    BY <2>1 DEF Adding
  <2>5. \A s : \A n \in DOMAIN dir : \A i : AddsTo(dir', s, n, i) <=> AddsTo(dir, s, n, i)
    BY <2>1, <2>4 DEF AddsTo
  <2>6. \A n \in DOMAIN dir : DOMAIN Additions(dir'[n]) = DOMAIN Additions(dir[n])
    BY <2>1
  <2>7. ASSUME NEW s \in DOMAIN db.slots
        PROVE  \E n \in DOMAIN dir' : \E i \in DOMAIN Additions(dir'[n]) :
                 AddsTo(dir', s, n, i) /\ db.slots[s] = Adding(dir', n, i).obj
    <3>1. PICK n \in DOMAIN dir : \E i \in DOMAIN Additions(dir[n]) :
            AddsTo(dir, s, n, i) /\ db.slots[s] = Adding(dir, n, i).obj
      BY <2>3 DEF FilledFrom
    <3>2. PICK i \in DOMAIN Additions(dir[n]) :
            AddsTo(dir, s, n, i) /\ db.slots[s] = Adding(dir, n, i).obj
      BY <3>1
    <3> QED BY <2>1, <2>4, <2>5, <2>6, <3>2
  <2>8. \A n \in DOMAIN dir' : \A i \in DOMAIN Additions(dir'[n]) :
          Puts(Adding(dir', n, i)) \subseteq DOMAIN db.slots
    BY <2>1, <2>3, <2>4, <2>6 DEF FilledFrom
  <2>9. ASSUME NEW k \in DOMAIN db.index
        PROVE  \E n \in DOMAIN dir' : \E i \in DOMAIN Additions(dir'[n]) :
                 db.index[k] = Adding(dir', n, i).obj
    <3>1. PICK n \in DOMAIN dir : \E i \in DOMAIN Additions(dir[n]) :
            db.index[k] = Adding(dir, n, i).obj
      BY <2>3 DEF FilledFrom
    <3>2. PICK i \in DOMAIN Additions(dir[n]) : db.index[k] = Adding(dir, n, i).obj
      BY <3>1
    <3> QED BY <2>1, <2>4, <2>6, <3>2
  <2> QED BY <2>7, <2>8, <2>9 DEF FilledFrom
<1>6. StoreOK(db)' /\ ReqInv'
  BY <1>1, OthersKeep DEF ServeInv
<1> QED BY <1>3, <1>4, <1>5, <1>6 DEF ServeInv

LEMMA RemoveFileServes ==
  ASSUME ServeInv, NEW name \in DOMAIN dir, RemoveFile(name)
  PROVE  ServeInv'
<1>1. /\ UNCHANGED <<db, req, loads, due, stands>> /\ writes < MaxWrites /\ writes' = writes + 1
      /\ fresh' = FALSE /\ dir' = [n \in DOMAIN dir \ {name} |-> dir[n]]
  BY DEF RemoveFile
<1>2. DirOK(dir)'
  <2>1. IsFiniteSet(DOMAIN dir \ {name})
    BY FS_Subset DEF ServeInv, DirOK
  <2> QED BY <1>1, <2>1 DEF ServeInv, DirOK
<1>3. Counts'
  <2>1. loads' \in 0..MaxLoads /\ writes' \in 0..MaxWrites
    BY <1>1, BoundAssumption DEF ServeInv, Counts
  <2>2. fresh' \in BOOLEAN
    BY <1>1
  <2>3. stands' \in BOOLEAN
    BY <1>1 DEF ServeInv, Counts
  <2> QED BY <2>1, <2>2, <2>3 DEF Counts
<1>4. StoreOK(db)' /\ ReqInv' /\ Fresh'
  BY <1>1, OthersKeep DEF ServeInv, Fresh
<1> QED BY <1>2, <1>3, <1>4 DEF ServeInv

LEMMA NextServes == ServeInv /\ [Next]_vars => ServeInv'
<1> SUFFICES ASSUME ServeInv, [Next]_vars PROVE ServeInv'
  OBVIOUS
<1>1. ASSUME Load("update") \/ Load("reload") PROVE ServeInv'
  BY <1>1, LoadServes
<1>2. ASSUME NEW args \in MadeArgs, MakeData(args) PROVE ServeInv'
  BY <1>2, MakeDataServes
<1>3. ASSUME NEW name \in DOMAIN dir, RemoveFile(name) PROVE ServeInv'
  BY <1>3, RemoveFileServes
<1>4. ASSUME NEW q \in Queries, Receive(q) PROVE ServeInv'
  <2>1. UNCHANGED serverVars /\ stands'
    BY <1>4 DEF Receive
  <2>2. ReqInv'
    BY <1>4, ReceiveKeeps DEF ServeInv
  <2> QED BY <2>1, <2>2 DEF ServeInv, serverVars, Counts, DirOK, Fresh
<1>5. ASSUME Lookup PROVE ServeInv'
  <2>1. UNCHANGED <<serverVars, due, stands>>
    BY <1>5 DEF Lookup, LookupLdh, LookupUnicode, LookupAbove, LookupNameserver, LookupEntity,
                LookupTag, LookupNumbers, LookupHelp, LookupDefaultHelp, LookupSearch
  <2>2. ReqInv'
    BY <1>5, LookupLdhKeeps, LookupUnicodeKeeps, LookupAboveKeeps, LookupNameserverKeeps,
       LookupEntityKeeps, LookupTagKeeps, LookupNumbersKeeps, LookupHelpKeeps,
       LookupDefaultHelpKeeps, LookupSearchKeeps DEF Lookup, ServeInv, StoreOK
  <2> QED BY <2>1, <2>2 DEF ServeInv, serverVars, Counts, DirOK, Fresh
<1>6. ASSUME Leave PROVE ServeInv'
  <2>1. UNCHANGED serverVars /\ stands' = TRUE
    BY <1>6 DEF Leave
  <2>2. ReqInv'
    BY <1>6, LeaveKeeps DEF ServeInv
  <2> QED BY <2>1, <2>2 DEF ServeInv, serverVars, Counts, DirOK, Fresh
<1>7. CASE UNCHANGED vars
  BY <1>7, OthersKeep DEF vars, ServeInv, Counts, DirOK, Fresh
<1> QED BY <1>1, <1>2, <1>3, <1>4, <1>5, <1>6, <1>7 DEF Next

(* The invariant the theorems rest on holds in every reachable state.      *)
LEMMA Serves == Spec => []ServeInv
BY InitServes, NextServes, PTL DEF Spec

(* The store holds responses of known classes, its index domains and       *)
(* errors, the directory files that can be read or not (data.rs, tx.rs).   *)
THEOREM ServingTypes == Spec => []TypeOK
<1>1. ServeInv => TypeOK
  <2> SUFFICES ASSUME ServeInv PROVE TypeOK
    OBVIOUS
  <2>1. req.pc \in Pcs
    BY DEF ServeInv, ReqInv, Asked
  <2>2. \A s \in DOMAIN db.slots : db.slots[s].class \in Classes \union {"error"}
    BY DEF ServeInv, StoreOK, SlotsOK
  <2>3. \A k \in DOMAIN db.index : db.index[k].class \in {"domain", "error"}
    BY DEF ServeInv, StoreOK, IndexOK
  <2>4. \A n \in DOMAIN dir : dir[n].kind \in {"json", "template", "help", "other", "unreadable"}
    BY DEF ServeInv, DirOK, IsFile
  <2> QED BY <2>1, <2>2, <2>3, <2>4 DEF ServeInv, Counts, TypeOK
<1> QED BY <1>1, Serves, PTL

(* Whatever the handlers have to look up, one lock at a time, their answer *)
(* is the one that was due, unless a commit has changed that meanwhile     *)
(* (domain.rs, nameserver.rs, entity.rs, srvhelp.rs).                      *)
THEOREM AnswersStand == Spec => []AnswerStands
<1>1. ServeInv => AnswerStands
  BY DEF ServeInv, ReqInv
<1> QED BY <1>1, Serves, PTL

(* After a load from nothing, and after any updates of the same directory, *)
(* a domain that is found as a U-label or by a search is the one that is   *)
(* found by its name (tx.rs, add_domain and add_domain_err).               *)
THEOREM DomainsAgree == Spec => []TablesAgree
<1>1. ServeInv => TablesAgree
  <2> SUFFICES ASSUME ServeInv, CleanDir,
                      NEW v \in Stored("idns") \union {db.index[k] : k \in DOMAIN db.index},
                      v.class = "domain"
               PROVE  Get(db, "domains", v.ldh) = v
    BY DEF TablesAgree
  <2>1. DirOK(dir) /\ LoadSucceeds(dir) /\ FilledFrom(dir, db) /\ Clean
    BY DEF ServeInv, CleanDir, Fresh
  <2>2. \E n \in DOMAIN dir : \E i \in DOMAIN Additions(dir[n]) : v = Adding(dir, n, i).obj
    BY <2>1 DEF FilledFrom, Stored
  <2>3. PICK n \in DOMAIN dir : \E i \in DOMAIN Additions(dir[n]) : v = Adding(dir, n, i).obj
    BY <2>2
  <2>4. PICK i \in DOMAIN Additions(dir[n]) : v = Adding(dir, n, i).obj
    BY <2>3
  <2> DEFINE slot == <<"domains", v.ldh>>
             a == Adding(dir, n, i)
  <2>5. slot \in Puts(a) /\ slot \in Slots(a.id)
    BY <2>1, <2>4, SoundAdding, PutsTables DEF SoundAddition
  <2>6. slot \in DOMAIN db.slots
    BY <2>1, <2>5 DEF FilledFrom
  <2>7. PICK m \in DOMAIN dir : \E j \in DOMAIN Additions(dir[m]) :
          AddsTo(dir, slot, m, j) /\ db.slots[slot] = Adding(dir, m, j).obj
    BY <2>1, <2>6 DEF FilledFrom
  <2>8. PICK j \in DOMAIN Additions(dir[m]) :
          AddsTo(dir, slot, m, j) /\ db.slots[slot] = Adding(dir, m, j).obj
    BY <2>7
  <2>9. slot \in Slots(Adding(dir, m, j).id)
    <3>1. SoundAddition(Adding(dir, m, j)) /\ slot \in Puts(Adding(dir, m, j))
      BY <2>1, <2>8, SoundAdding DEF AddsTo
    <3>2. slot[1] = "domains"
      OBVIOUS
    <3> QED BY <3>1, <3>2, PutsTables
  <2>10. <<m, j>> = <<n, i>>
    BY <2>1, <2>5, <2>9 DEF Clean, Adding
  <2> QED BY <2>4, <2>6, <2>8, <2>10 DEF Get
<1> QED BY <1>1, Serves, PTL

---------------------------------------------------------------------------
(* The search                                                              *)

(* The keys of two names differ, if no name ends with a dot: one that does *)
(* has a key that is the whole of another name.                            *)
IsName(text) == text \in Text /\ (Len(text) > 0 => text[Len(text)] # ".")

LEMMA BeforeText ==
  ASSUME NEW text \in Text, NEW i \in 1..Len(text)
  PROVE  /\ Before(i, text) \in Text /\ Len(Before(i, text)) = i - 1
         /\ \A k \in 1..(i - 1) : Before(i, text)[k] = text[k]
<1>1. Len(text) \in Nat /\ i \in Nat /\ i - 1 \in Int /\ i <= Len(text)
  BY DEF Text
<1>2. \A k \in 1..(i - 1) : text[k] \in STRING
  BY <1>1 DEF Text
<1>3. /\ SubSeq(text, 1, i - 1) \in Seq(STRING)
      /\ Len(SubSeq(text, 1, i - 1)) = IF 1 <= i - 1 THEN (i - 1) - 1 + 1 ELSE 0
      /\ \A k \in 1..((i - 1) - 1 + 1) : SubSeq(text, 1, i - 1)[k] = text[1 + k - 1]
  BY <1>1, <1>2, SubSeqProperties
<1>4. Len(SubSeq(text, 1, i - 1)) = i - 1
  BY <1>1, <1>3
<1>5. \A k \in 1..(i - 1) : SubSeq(text, 1, i - 1)[k] = text[k]
  <2> TAKE k \in 1..(i - 1)
  <2>1. k \in 1..((i - 1) - 1 + 1) /\ 1 + k - 1 = k
    BY <1>1
  <2> QED BY <1>3, <2>1
<1> QED BY <1>3, <1>4, <1>5 DEF Before, Text

LEMMA KeyTells ==
  ASSUME NEW t, IsName(t), NEW u, IsName(u), NEW k \in Keys(t), k \in Keys(u)
  PROVE  t = u
<1>1. /\ t \in Text /\ u \in Text /\ Len(t) \in Nat /\ Len(u) \in Nat
      /\ DOMAIN t = 1..Len(t) /\ DOMAIN u = 1..Len(u)
  BY DEF IsName, Text
(* A key that is not the whole of a name has something behind the dot.     *)
<1>2. ASSUME NEW v, IsName(v), NEW i \in Places(".", v) PROVE After(i, v) # Root
  <2>1. v \in Text /\ Len(v) \in Nat /\ i \in 1..Len(v) /\ v[i] = "."
    BY <1>2 DEF IsName, Text, Places
  <2>2. i # Len(v)
    BY <1>2, <2>1 DEF IsName
  <2>3. Len(After(i, v)) = Len(v) - i
    BY <2>1, AfterText
  <2>4. Len(Root) = 0
    BY DEF Root
  <2> QED BY <2>1, <2>2, <2>3, <2>4
<1>3. CASE k = <<Root, t>>
  <2>1. k = <<Root, u>>
    BY <1>2, <1>3 DEF Keys
  <2> QED BY <1>3, <2>1
<1>4. CASE \E i \in Places(".", t) : k = <<After(i, t), Before(i, t)>>
  <2>1. PICK i \in Places(".", t) : k = <<After(i, t), Before(i, t)>>
    BY <1>4
  <2>2. PICK j \in Places(".", u) : k = <<After(j, u), Before(j, u)>>
    BY <1>2, <2>1 DEF Keys
  <2>3. /\ i \in 1..Len(t) /\ t[i] = "." /\ j \in 1..Len(u) /\ u[j] = "."
        /\ After(i, t) = After(j, u) /\ Before(i, t) = Before(j, u)
    BY <1>1, <2>1, <2>2 DEF Places
  <2>4. i = j
    <3>1. Len(Before(i, t)) = i - 1 /\ Len(Before(j, u)) = j - 1
      BY <1>1, <2>3, BeforeText
    <3> QED BY <1>1, <2>3, <3>1
  <2>5. /\ i \in 0..Len(t) /\ Len(After(i, t)) = Len(t) - i
        /\ \A m \in 1..(Len(t) - i) : After(i, t)[m] = t[i + m]
    <3>1. i \in 0..Len(t)
      BY <1>1, <2>3
    <3> QED BY <1>1, <3>1, AfterText
  <2>6. /\ Len(After(j, u)) = Len(u) - j
        /\ \A m \in 1..(Len(u) - j) : After(j, u)[m] = u[j + m]
    <3>1. j \in 0..Len(u)
      BY <1>1, <2>3
    <3> QED BY <1>1, <3>1, AfterText
  <2>7. Len(t) = Len(u)
    <3>1. Len(t) - i = Len(u) - i
      BY <2>3, <2>4, <2>5, <2>6
    <3>2. i \in Nat
      BY <1>1, <2>3
    <3>3. \A a, b, c \in Nat : a - c = b - c => a = b
      OBVIOUS
    <3> QED BY <1>1, <3>1, <3>2, <3>3, Zenon
  <2>8. ASSUME NEW m \in 1..Len(t) PROVE t[m] = u[m]
    <3>1. CASE m < i
      <4>1. m \in 1..(i - 1)
        BY <1>1, <2>3, <3>1
      <4>2. Before(i, t)[m] = t[m]
        BY <1>1, <2>3, <4>1, BeforeText
      <4>3. Before(j, u)[m] = u[m]
        BY <1>1, <2>3, <2>4, <4>1, BeforeText
      <4> QED BY <2>3, <4>2, <4>3
    <3>2. CASE m = i
      BY <2>3, <2>4, <3>2
    <3>3. CASE i < m
      <4>1. m - i \in 1..(Len(t) - i) /\ i + (m - i) = m
        BY <1>1, <2>3, <3>3
      <4> QED BY <2>3, <2>4, <2>5, <2>6, <2>7, <4>1
    <3> QED BY <1>1, <2>3, <3>1, <3>2, <3>3
  <2> QED BY <1>1, <2>7, <2>8, SeqEqual DEF Text
<1> QED BY <1>3, <1>4 DEF Keys

(* Every domain is in the index, under every key of its name.              *)
Indexed(store) ==
  \A s \in DOMAIN store.slots : s[1] = "domains" /\ store.slots[s].class = "domain" =>
    /\ store.slots[s].ldh = s[2]
    /\ \A k \in Keys(s[2]) : k \in DOMAIN store.index /\ store.index[k] = store.slots[s]

Named(store) == \A s \in DOMAIN store.slots : s[1] = "domains" => IsName(s[2])

(* A file that adds nothing to the domains but by names without a last dot.*)
AddsNames(file) ==
  \A i \in DOMAIN Additions(file) :
    Additions(file)[i].ok =>
      \A s \in Puts(Additions(file)[i]) : s[1] = "domains" => IsName(s[2])

LEMMA DomainLabels ==
  ASSUME SearchEnabled, NEW a, SoundAddition(a), NEW s \in Puts(a), s[1] = "domains",
         a.obj.class = "domain"
  PROVE  s = <<"domains", a.obj.ldh>> /\ Labels(a) = Keys(s[2])
<1>1. Puts(a) = Slots(a.obj) /\ a.obj.class \in Classes
  BY DEF Puts, IsError, Classes, Segments
<1>2. s = <<"domains", a.obj.ldh>>
  BY <1>1, SlotsTables
<1> QED BY <1>2 DEF Labels

LEMMA LabelsDomain ==
  ASSUME NEW a, SoundAddition(a), NEW k \in Labels(a)
  PROVE  a.obj.class = "domain" /\ k \in Keys(a.obj.ldh) /\ <<"domains", a.obj.ldh>> \in Puts(a)
<1>1. a.obj.class = "domain" /\ k \in Keys(a.obj.ldh)
  BY DEF Labels
<1> QED BY <1>1, PutsTables

(* The index that an update starts with has all the domains there are.     *)
LEMMA NewTxIndexed ==
  ASSUME SearchEnabled, NEW store, StoreOK(store), Named(store), Indexed(store)
  PROVE  Named(NewTx(store)) /\ Indexed(NewTx(store))
<1> DEFINE names == {s[2] : s \in {s \in DOMAIN store.slots : s[1] = "domains"}}
           keys == UNION {Keys(n) : n \in names}
           holder(k) == CHOOSE n \in names : k \in Keys(n)
           tx == NewTx(store)
<1>1. tx.slots = store.slots
  BY NewTxFrom DEF StoreOK, SlotsOK
<1>2. tx.index = [k \in keys |-> store.slots[<<"domains", holder(k)>>]]
  BY DEF NewTx, StoreOK
<1>3. ASSUME NEW s \in DOMAIN store.slots, s[1] = "domains", NEW k \in Keys(s[2])
      PROVE  k \in keys /\ tx.index[k] = store.slots[s]
  <2>1. s[2] \in names /\ s = <<"domains", s[2]>>
    BY <1>3 DEF StoreOK, SlotsOK
  <2>2. k \in keys
    BY <2>1
  <2>3. holder(k) \in names /\ k \in Keys(holder(k))
    BY <2>1
  <2>4. IsName(holder(k)) /\ IsName(s[2])
    BY <2>1, <2>3 DEF Named
  <2>5. holder(k) = s[2]
    BY <2>3, <2>4, KeyTells
  <2> QED BY <1>2, <2>1, <2>2, <2>5
<1>4. DOMAIN tx.index = keys
  BY <1>2
<1> HIDE DEF tx, keys
<1>5. Named(tx)
  BY <1>1 DEF Named
<1>6. Indexed(tx)
  BY <1>1, <1>3, <1>4 DEF Indexed
<1> QED BY <1>5, <1>6 DEF tx

(* What the files put in last by name they put in last under its keys.     *)
LEMMA LoadedIndexed ==
  ASSUME SearchEnabled, NEW d, DirOK(d), LoadSucceeds(d), \A n \in DOMAIN d : AddsNames(d[n]),
         NEW files \in Listings(d), NEW tx, StoreOK(tx), Named(tx), Indexed(tx)
  PROVE  Named(Loaded(tx, files)) /\ Indexed(Loaded(tx, files))
<1> DEFINE adds == AdditionsOf(files)
           at(p) == adds[p[1]][p[2]]
           all == Added(adds)
           into(s) == {p \in all : s \in Puts(at(p))}
           under(k) == {p \in all : k \in Labels(at(p))}
           slots == UNION {Puts(at(p)) : p \in all}
           keys == UNION {Labels(at(p)) : p \in all}
           l == Loaded(tx, files)
           size == Cardinality(DOMAIN d)
<1>1. /\ l.slots = [s \in slots \union DOMAIN tx.slots |->
                      IF s \in slots THEN at(Last(into(s))).obj ELSE tx.slots[s]]
      /\ l.index = [k \in keys \union DOMAIN tx.index |->
                      IF k \in keys THEN at(Last(under(k))).obj ELSE tx.index[k]]
  BY DEF Loaded
<1>2. /\ size \in Nat /\ DOMAIN files = 1..size
      /\ \A f \in DOMAIN files : \E n \in DOMAIN d : files[f] = d[n]
  BY Listed
<1>3. \A f \in DOMAIN files : \E m \in Nat : DOMAIN Additions(files[f]) = 1..m
  BY <1>2, SoundAdditions DEF DirOK
<1>4. ASSUME NEW p \in all
      PROVE  /\ SoundAddition(at(p)) /\ \A s \in Puts(at(p)) : s[1] = "domains" => IsName(s[2])
             /\ p = <<p[1], p[2]>> /\ p[1] \in Nat /\ p[2] \in Nat
  <2>1. /\ p = <<p[1], p[2]>> /\ p[1] \in DOMAIN files /\ p[2] \in DOMAIN Additions(files[p[1]])
        /\ at(p) = Additions(files[p[1]])[p[2]]
    BY DEF Added, AdditionsOf
  <2>2. PICK n \in DOMAIN d : files[p[1]] = d[n]
    BY <1>2, <2>1
  <2>3. p[2] \in DOMAIN Additions(d[n]) /\ at(p) = Additions(d[n])[p[2]]
    BY <2>1, <2>2
  <2>4. SoundAddition(at(p))
    BY <2>3, SoundAdding DEF Adding
  <2>5. at(p).ok
    BY <2>3 DEF LoadSucceeds
  <2>6. \A s \in Puts(at(p)) : s[1] = "domains" => IsName(s[2])
    BY <2>3, <2>5 DEF AddsNames
  <2>7. p[1] \in Nat /\ p[2] \in Nat
    BY <1>2, <1>3, <2>1
  <2> QED BY <2>1, <2>4, <2>6, <2>7
<1>5. \A ps \in SUBSET all : ps # {} => Last(ps) \in ps /\ \A q \in ps : ~IsLater(q, Last(ps))
  BY <1>2, <1>3, LastAddition
<1> HIDE DEF adds, all, l, size
(* The last of some that is among fewer of them is the last of those.      *)
<1>6. ASSUME NEW qs \in SUBSET all, NEW ps \in SUBSET qs, qs # {}, Last(qs) \in ps
      PROVE  Last(ps) = Last(qs)
  <2> DEFINE p == Last(qs)
             q == Last(ps)
  <2>1. ps # {} /\ ps \in SUBSET all
    BY <1>6
  <2>2. p \in all /\ q \in all /\ q \in qs
    BY <1>5, <1>6, <2>1
  <2>3. ~IsLater(q, p) /\ ~IsLater(p, q)
    BY <1>5, <1>6, <2>1, <2>2
  <2> HIDE DEF p, q
  <2>4. /\ p = <<p[1], p[2]>> /\ p[1] \in Nat /\ p[2] \in Nat
        /\ q = <<q[1], q[2]>> /\ q[1] \in Nat /\ q[2] \in Nat
    BY <1>4, <2>2
  <2>5. p[1] = q[1] /\ p[2] = q[2]
    BY <2>3, <2>4 DEF IsLater
  <2>6. p = q
    BY <2>4, <2>5
  <2> QED BY <2>6 DEF p, q
<1>7. ASSUME NEW s \in DOMAIN l.slots, s[1] = "domains"
      PROVE  /\ IsName(s[2])
             /\ l.slots[s].class = "domain" =>
                  /\ l.slots[s].ldh = s[2]
                  /\ \A k \in Keys(s[2]) : k \in DOMAIN l.index /\ l.index[k] = l.slots[s]
  <2>1. CASE s \in slots
    <3> DEFINE p == Last(into(s))
    <3>1. into(s) \in SUBSET all /\ into(s) # {}
      BY <2>1
    <3>2. p \in into(s)
      BY <1>5, <3>1
    <3>3. p \in all /\ s \in Puts(at(p))
      BY <3>2
    <3>4. l.slots[s] = at(p).obj
      BY <1>1, <2>1
    <3> HIDE DEF p
    <3>5. IsName(s[2]) /\ SoundAddition(at(p))
      BY <1>4, <1>7, <3>3
    <3> SUFFICES ASSUME at(p).obj.class = "domain", NEW k \in Keys(s[2])
                 PROVE  /\ at(p).obj.ldh = s[2]
                        /\ k \in DOMAIN l.index /\ l.index[k] = at(p).obj
      <4>1. CASE Keys(s[2]) = {}
        <5>1. <<Root, s[2]>> \in Keys(s[2])
          BY DEF Keys
        <5> QED BY <4>1, <5>1
      <4> QED BY <3>4, <3>5, <4>1
    <3>6. s = <<"domains", at(p).obj.ldh>> /\ Labels(at(p)) = Keys(s[2])
      BY <1>7, <3>3, <3>5, DomainLabels
    <3>7. k \in Labels(at(p)) /\ at(p).obj.ldh = s[2]
      BY <3>6
    <3>8. p \in under(k) /\ k \in keys
      BY <3>3, <3>7
    <3>9. under(k) \subseteq into(s)
      <4> SUFFICES ASSUME NEW q \in all, k \in Labels(at(q)) PROVE s \in Puts(at(q))
        OBVIOUS
      <4>1. SoundAddition(at(q)) /\ \A r \in Puts(at(q)) : r[1] = "domains" => IsName(r[2])
        BY <1>4
      <4> DEFINE t == <<"domains", at(q).obj.ldh>>
      <4>2. k \in Keys(at(q).obj.ldh) /\ t \in Puts(at(q))
        BY <4>1, LabelsDomain
      <4>3. t[1] = "domains" /\ t[2] = at(q).obj.ldh
        OBVIOUS
      <4>4. IsName(at(q).obj.ldh)
        BY <4>1, <4>2, <4>3
      <4>5. at(q).obj.ldh = s[2]
        BY <3>5, <4>2, <4>4, KeyTells
      <4> QED BY <3>6, <4>2, <4>5
    <3>10. Last(under(k)) = p
      <4>1. under(k) \in SUBSET into(s) /\ Last(into(s)) \in under(k)
        BY <3>8, <3>9 DEF p
      <4>2. Last(under(k)) = Last(into(s))
        <5> HIDE DEF under, into
        <5> QED BY <1>6, <3>1, <4>1
      <4> QED BY <4>2 DEF p
    <3>11. k \in DOMAIN l.index /\ l.index[k] = at(Last(under(k))).obj
      BY <1>1, <3>8
    <3> QED BY <3>7, <3>10, <3>11
  <2>2. CASE s \notin slots
    <3>1. s \in DOMAIN tx.slots /\ l.slots[s] = tx.slots[s]
      BY <1>1, <2>2
    <3>2. IsName(s[2])
      BY <1>7, <3>1 DEF Named
    <3>3. ASSUME l.slots[s].class = "domain", NEW k \in Keys(s[2])
          PROVE  k \in DOMAIN l.index /\ l.index[k] = l.slots[s]
      <4>1. k \in DOMAIN tx.index /\ tx.index[k] = tx.slots[s]
        BY <1>7, <3>1, <3>3 DEF Indexed
      <4>2. k \notin keys
        <5> SUFFICES ASSUME NEW q \in all, k \in Labels(at(q)) PROVE s \in slots
          BY <2>2
        <5>1. SoundAddition(at(q)) /\ \A r \in Puts(at(q)) : r[1] = "domains" => IsName(r[2])
          BY <1>4
        <5> DEFINE t == <<"domains", at(q).obj.ldh>>
        <5>2. k \in Keys(at(q).obj.ldh) /\ t \in Puts(at(q))
          BY <5>1, LabelsDomain
        <5>3. t[1] = "domains" /\ t[2] = at(q).obj.ldh
          OBVIOUS
        <5>4. IsName(at(q).obj.ldh)
          BY <5>1, <5>2, <5>3
        <5>5. at(q).obj.ldh = s[2]
          BY <3>2, <3>3, <5>2, <5>4, KeyTells
        <5>6. s = t
          BY <1>7, <3>1, <5>5 DEF StoreOK, SlotsOK
        <5> QED BY <5>2, <5>6
      <4> QED BY <1>1, <3>1, <4>1, <4>2
    <3> QED BY <1>7, <3>1, <3>2, <3>3 DEF Indexed
  <2> QED BY <2>1, <2>2
<1> HIDE DEF slots, keys, into, under, at
<1>8. Named(l) /\ Indexed(l)
  BY <1>7 DEF Named, Indexed
<1> QED BY <1>8 DEF l

LEMMA PrefixTells ==
  ASSUME NEW S, NEW s \in Seq(S), NEW t \in Seq(S)
  PROVE  SE!IsPrefix(s, t) <=> Len(s) <= Len(t) /\ \A k \in 1..Len(s) : s[k] = t[k]
<1>1. Len(s) \in Nat /\ Len(t) \in Nat
  OBVIOUS
<1> SUFFICES ASSUME Len(s) <= Len(t)
             PROVE  SubSeq(s, 1, Len(s)) = SubSeq(t, 1, Len(s)) <=> \A k \in 1..Len(s) : s[k] = t[k]
  BY DEF SE!IsPrefix
<1> DEFINE n == Len(s)
           a == SubSeq(s, 1, n)
           b == SubSeq(t, 1, n)
<1>2. /\ \A k \in 1..n : s[k] \in S /\ t[k] \in S
      /\ 1 \in Int /\ n \in Int /\ n - 1 + 1 = n
  BY <1>1
<1>3. /\ a \in Seq(S) /\ Len(a) = n /\ \A k \in 1..n : a[k] = s[k]
      /\ b \in Seq(S) /\ Len(b) = n /\ \A k \in 1..n : b[k] = t[k]
  <2>1. /\ a \in Seq(S) /\ Len(a) = IF 1 <= n THEN n - 1 + 1 ELSE 0
        /\ \A k \in 1..(n - 1 + 1) : a[k] = s[1 + k - 1]
    BY <1>2, SubSeqProperties
  <2>2. /\ b \in Seq(S) /\ Len(b) = IF 1 <= n THEN n - 1 + 1 ELSE 0
        /\ \A k \in 1..(n - 1 + 1) : b[k] = t[1 + k - 1]
    BY <1>2, SubSeqProperties
  <2>3. (IF 1 <= n THEN n - 1 + 1 ELSE 0) = n /\ \A k \in 1..n : 1 + k - 1 = k
    BY <1>1
  <2> QED BY <1>2, <2>1, <2>2, <2>3
<1> HIDE DEF a, b
<1>4. a = b <=> \A k \in 1..n : a[k] = b[k]
  BY <1>3, SeqEqual
<1> QED BY <1>3, <1>4 DEF a, b

LEMMA ReverseText ==
  ASSUME NEW S, NEW s \in Seq(S)
  PROVE  /\ SE!Reverse(s) \in Seq(S) /\ Len(SE!Reverse(s)) = Len(s)
         /\ \A k \in 1..Len(s) : SE!Reverse(s)[k] = s[(Len(s) - k) + 1]
<1>1. Len(s) \in Nat /\ \A k \in 1..Len(s) : s[k] \in S
  OBVIOUS
<1>2. SE!Reverse(s) = [k \in 1..Len(s) |-> s[(Len(s) - k) + 1]]
  BY DEF SE!Reverse
<1>3. \A k \in 1..Len(s) : s[(Len(s) - k) + 1] \in S
  BY <1>1
<1>4. SE!Reverse(s) \in Seq(S)
  BY <1>1, <1>2, <1>3, SeqDef
<1>5. Len(SE!Reverse(s)) = Len(s)
  BY <1>1, <1>2, <1>4
<1> QED BY <1>2, <1>4, <1>5

LEMMA SuffixTells ==
  ASSUME NEW S, NEW s \in Seq(S), NEW t \in Seq(S), SE!IsSuffix(s, t)
  PROVE  Len(s) <= Len(t) /\ \A k \in 1..Len(s) : s[k] = t[Len(t) - Len(s) + k]
<1>1. Len(s) \in Nat /\ Len(t) \in Nat
  OBVIOUS
<1>2. /\ SE!Reverse(s) \in Seq(S) /\ Len(SE!Reverse(s)) = Len(s)
      /\ \A k \in 1..Len(s) : SE!Reverse(s)[k] = s[(Len(s) - k) + 1]
  BY ReverseText
<1>3. /\ SE!Reverse(t) \in Seq(S) /\ Len(SE!Reverse(t)) = Len(t)
      /\ \A k \in 1..Len(t) : SE!Reverse(t)[k] = t[(Len(t) - k) + 1]
  BY ReverseText
<1>4. SE!IsPrefix(SE!Reverse(s), SE!Reverse(t))
  BY DEF SE!IsSuffix
<1>5. Len(s) <= Len(t) /\ \A k \in 1..Len(s) : SE!Reverse(s)[k] = SE!Reverse(t)[k]
  BY <1>2, <1>3, <1>4, PrefixTells
<1>6. ASSUME NEW k \in 1..Len(s) PROVE s[k] = t[Len(t) - Len(s) + k]
  <2> DEFINE m == (Len(s) - k) + 1
  <2>1. /\ m \in 1..Len(s) /\ m \in 1..Len(t)
        /\ (Len(s) - m) + 1 = k /\ (Len(t) - m) + 1 = Len(t) - Len(s) + k
    BY <1>1, <1>5
  <2> HIDE DEF m
  <2>2. SE!Reverse(s)[m] = s[k]
    BY <1>2, <2>1
  <2>3. SE!Reverse(t)[m] = t[Len(t) - Len(s) + k]
    BY <1>3, <2>1
  <2> QED BY <1>5, <2>1, <2>2, <2>3
<1> QED BY <1>5, <1>6

LEMMA TrimText ==
  ASSUME NEW text \in Text
  PROVE  Trim(text) \in Text
<1> DEFINE kept == {i \in DOMAIN text : text[i] # "."}
           first == CHOOSE i \in kept : \A j \in kept : i <= j
<1>1. CASE kept = {}
  BY <1>1 DEF Trim, Text
<1>2. CASE kept # {}
  <2>1. Len(text) \in Nat /\ DOMAIN text = 1..Len(text) /\ kept \in SUBSET Nat
    BY DEF Text
  <2>2. \E i \in kept : \A j \in kept : i <= j
    <3> HIDE DEF kept
    <3> QED BY <1>2, <2>1, LeastNumber
  <2>3. first \in kept
    BY <2>2
  <2>4. first \in 1..Len(text)
    BY <2>1, <2>3
  <2>5. SubSeq(text, first, Len(text)) \in Seq(STRING)
    <3> HIDE DEF first
    <3>1. \A k \in first..Len(text) : text[k] \in STRING
      BY <2>1, <2>4 DEF Text
    <3> QED BY <2>1, <2>4, <3>1, SubSeqProperties
  <2> QED BY <1>2, <2>5 DEF Trim, Text
<1> QED BY <1>1, <1>2

(* What a search of two parts asks of a name.                              *)
FitsParts(name, before, after) ==
  /\ SE!IsPrefix(before, name)
  /\ after # None => /\ SE!IsSuffix(<<".">> \o after, name)
                     /\ Len(name) > Len(before) + Len(after)

(* A name that fits a search has a key whose prefix and suffix do.         *)
LEMMA FitsKey ==
  ASSUME NEW name \in Text, NEW before \in Text, NEW after \in Text, Len(before) > 0,
         FitsParts(name, before, after)
  PROVE  \E k \in Keys(name) : k[1] = after /\ SE!IsPrefix(before, k[2])
<1>1. Len(name) \in Nat /\ Len(before) \in Nat /\ Len(after) \in Nat
  BY DEF Text
<1> USE DEF FitsParts
<1>2. CASE after = None
  <2>1. <<Root, name>> \in Keys(name) /\ Root = after
    BY <1>2 DEF Keys, Root, None
  <2> QED BY <2>1
<1>3. CASE after # None
  <2> DEFINE i == Len(name) - Len(after)
             tail == <<".">> \o after
             S == STRING \union {"."}
  <2>0. name \in Seq(S) /\ after \in Seq(S)
    <3>1. name = [k \in 1..Len(name) |-> name[k]] /\ \A k \in 1..Len(name) : name[k] \in S
      BY DEF Text
    <3>2. after = [k \in 1..Len(after) |-> after[k]] /\ \A k \in 1..Len(after) : after[k] \in S
      BY DEF Text
    <3> HIDE DEF S
    <3>3. name \in Seq(S)
      BY <1>1, <3>1, SequenceOf
    <3>4. after \in Seq(S)
      BY <1>1, <3>2, SequenceOf
    <3> QED BY <3>3, <3>4
  <2>1. <<".">> \in Seq(S) /\ Len(<<".">>) = 1 /\ <<".">>[1] = "."
    OBVIOUS
  <2>2. /\ tail \in Seq(S) /\ Len(tail) = 1 + Len(after) /\ tail[1] = "."
        /\ \A m \in 1..Len(after) : tail[1 + m] = after[m]
    <3>1. /\ tail \in Seq(S) /\ Len(tail) = 1 + Len(after)
          /\ \A m \in 1..(1 + Len(after)) :
               tail[m] = IF m <= 1 THEN <<".">>[m] ELSE after[m - 1]
      BY <2>0, <2>1, ConcatProperties
    <3>2. 1 \in 1..(1 + Len(after))
      BY <1>1
    <3>3. \A m \in 1..Len(after) :
            1 + m \in 1..(1 + Len(after)) /\ ~(1 + m <= 1) /\ (1 + m) - 1 = m
      BY <1>1
    <3> QED BY <2>1, <3>1, <3>2, <3>3
  <2> HIDE DEF tail, S
  <2>3. Len(tail) <= Len(name) /\ \A m \in 1..Len(tail) : tail[m] = name[Len(name) - Len(tail) + m]
    <3>1. SE!IsSuffix(tail, name)
      BY <1>3 DEF tail
    <3> QED BY <2>0, <2>2, <3>1, SuffixTells
  <2>4. i \in 1..Len(name) /\ i - 1 >= Len(before) /\ i # 1 /\ Len(name) - i = Len(after)
    BY <1>1, <1>3, <2>2, <2>3
  <2>5. name[i] = "."
    <3>1. 1 \in 1..Len(tail) /\ Len(name) - Len(tail) + 1 = i
      BY <1>1, <2>2
    <3> QED BY <2>2, <2>3, <3>1
  <2>6. \A m \in 1..Len(after) : after[m] = name[i + m]
    <3> TAKE m \in 1..Len(after)
    <3>1. 1 + m \in 1..Len(tail) /\ Len(name) - Len(tail) + (1 + m) = i + m
      BY <1>1, <2>2
    <3> QED BY <2>2, <2>3, <3>1
  <2>7. /\ After(i, name) \in Text /\ Len(After(i, name)) = Len(after)
        /\ \A m \in 1..Len(after) : After(i, name)[m] = name[i + m]
    <3>1. i \in 0..Len(name)
      BY <1>1, <2>4
    <3> HIDE DEF i
    <3> QED BY <2>4, <3>1, AfterText
  <2>8. After(i, name) = after
    BY <2>6, <2>7, SeqEqual DEF Text
  <2>9. /\ Before(i, name) \in Text /\ Len(Before(i, name)) = i - 1
        /\ \A m \in 1..(i - 1) : Before(i, name)[m] = name[m]
    <3> HIDE DEF i
    <3> QED BY <2>4, BeforeText
  <2>10. SE!IsPrefix(before, Before(i, name))
    <3>1. \A m \in 1..Len(before) : before[m] = name[m]
      <4>1. before \in Seq(STRING) /\ name \in Seq(STRING)
        BY DEF Text
      <4> HIDE DEF i, tail
      <4> QED BY <4>1, PrefixTells
    <3>2. \A m \in 1..Len(before) : m \in 1..(i - 1)
      BY <1>1, <2>4
    <3>3. Len(before) <= Len(Before(i, name)) /\ \A m \in 1..Len(before) : before[m] = Before(i, name)[m]
      BY <2>4, <2>9, <3>1, <3>2
    <3> QED BY <2>9, <3>3, PrefixTells DEF Text
  <2>11. i \in Places(".", name) \ {1}
    BY <1>1, <2>4, <2>5 DEF Places, Text
  <2> HIDE DEF i
  <2>12. <<After(i, name), Before(i, name)>> \in Keys(name)
    BY <2>11 DEF Keys
  <2> QED BY <2>8, <2>10, <2>12
<1> QED BY <1>2, <1>3

(* The names of the domains, in the files there are and in those that      *)
(* rdap-srv-data writes, have no dot at their end.                         *)
NoLastDots ==
  /\ \A d \in FirstDir : \A n \in DOMAIN d : AddsNames(d[n])
  /\ \A args \in MadeArgs :
       ~(args.id.class = "domain" /\ args.id.ldh = None /\ args.id.unicode \notin DOMAIN ALabels) =>
         AddsNames(MadeFile(args).file)

SearchInv == (\A n \in DOMAIN dir : AddsNames(dir[n])) /\ Named(db) /\ Indexed(db)

LEMMA InitSearches ==
  ASSUME SearchEnabled, NoLastDots, Init
  PROVE  SearchInv
<1>1. DirOK(dir) /\ \A n \in DOMAIN dir : AddsNames(dir[n])
  BY FirstDirAssumption DEF Init, DirOK, NoLastDots
<1>2. Named(Empty) /\ Indexed(Empty)
  BY DEF Named, Indexed, Empty
<1>3. CASE LoadSucceeds(dir)
  <2>1. PICK files \in Listings(dir) : db = Loaded(Empty, files)
    BY <1>3 DEF Init
  <2> QED BY <1>1, <1>2, <1>3, <2>1, EmptyOK, LoadedIndexed DEF SearchInv
<1>4. CASE ~LoadSucceeds(dir)
  BY <1>1, <1>2, <1>4 DEF Init, SearchInv
<1> QED BY <1>3, <1>4

LEMMA LoadSearches ==
  ASSUME SearchEnabled, ServeInv, SearchInv, NEW kind \in {"update", "reload"}, Load(kind)
  PROVE  SearchInv'
<1>1. dir' = dir /\ DirOK(dir) /\ StoreOK(db)
  BY DEF Load, ServeInv
<1>2. CASE LoadSucceeds(dir)
  <2> DEFINE tx == IF kind = "update" THEN NewTx(db) ELSE Empty
  <2>1. PICK files \in Listings(dir) : db' = Loaded(tx, files)
    BY <1>2 DEF Load
  <2>2. StoreOK(tx) /\ Named(tx) /\ Indexed(tx)
    <3>1. CASE kind = "update"
      BY <1>1, <3>1, NewTxOK, NewTxIndexed DEF SearchInv
    <3>2. CASE kind = "reload"
      <4>1. Named(Empty) /\ Indexed(Empty)
        BY DEF Named, Indexed, Empty
      <4> QED BY <3>2, <4>1, EmptyOK
    <3> QED BY <3>1, <3>2
  <2> HIDE DEF tx
  <2> QED BY <1>1, <1>2, <2>1, <2>2, LoadedIndexed DEF SearchInv
<1>3. CASE ~LoadSucceeds(dir)
  BY <1>1, <1>3 DEF Load, SearchInv
<1> QED BY <1>2, <1>3

LEMMA MakeDataSearches ==
  ASSUME NoLastDots, SearchInv, NEW args \in MadeArgs, MakeData(args)
  PROVE  SearchInv'
<1> DEFINE made == MadeFile(args)
<1>1. /\ db' = db
      /\ dir' = [n \in DOMAIN dir \union {made.name} |->
                   IF n = made.name THEN made.file ELSE dir[n]]
  BY DEF MakeData
<1>2. AddsNames(made.file)
  <2>1. PICK files \in Listings(dir) : ~Refused(Loaded(Empty, files), args)
    BY DEF MakeData
  <2> QED BY <2>1 DEF Refused, NoLastDots
<1> HIDE DEF made
<1>3. \A n \in DOMAIN dir' : AddsNames(dir'[n])
  BY <1>1, <1>2 DEF SearchInv
<1> QED BY <1>1, <1>3 DEF SearchInv

LEMMA NextSearches ==
  ASSUME SearchEnabled, NoLastDots
  PROVE  ServeInv /\ SearchInv /\ [Next]_vars => SearchInv'
<1> SUFFICES ASSUME ServeInv, SearchInv, [Next]_vars PROVE SearchInv'
  OBVIOUS
<1>1. ASSUME Load("update") \/ Load("reload") PROVE SearchInv'
  BY <1>1, LoadSearches
<1>2. ASSUME NEW args \in MadeArgs, MakeData(args) PROVE SearchInv'
  BY <1>2, MakeDataSearches
<1>3. ASSUME NEW name \in DOMAIN dir, RemoveFile(name) PROVE SearchInv'
  BY <1>3 DEF RemoveFile, SearchInv
<1>4. ASSUME (\E q \in Queries : Receive(q)) \/ Lookup \/ Leave \/ UNCHANGED vars PROVE SearchInv'
  <2>1. UNCHANGED <<dir, db>>
    BY <1>4 DEF Receive, Leave, vars, serverVars, Lookup, LookupLdh, LookupUnicode, LookupAbove,
                LookupNameserver, LookupEntity, LookupTag, LookupNumbers, LookupHelp,
                LookupDefaultHelp, LookupSearch
  <2> QED BY <2>1 DEF SearchInv
<1> QED BY <1>1, <1>2, <1>3, <1>4 DEF Next

(* After any updates and reloads a search finds every domain whose name    *)
(* fits it, if no name ends with a dot: the keys of two names can be the   *)
(* same only if one does (label_search.rs, tx.rs).                         *)
THEOREM SearchFinds ==
  ASSUME SearchEnabled, NoLastDots
  PROVE  Spec => []SearchFindsAll
<1>1. Init => SearchInv
  BY InitSearches
<1>2. ServeInv /\ SearchInv /\ [Next]_vars => SearchInv'
  BY NextSearches
<1>3. SearchInv => SearchFindsAll
  <2> SUFFICES ASSUME SearchInv, NEW q \in Queries, q.kind = "domains",
                      SearchLabels(db.index, q.text).outcome = "found",
                      NEW v \in Stored("domains"), v.class = "domain"
               PROVE  LET star == FirstPlace("*", q.text)
                          before == Before(star, q.text)
                          after == Trim(After(star, q.text))
                      IN SE!IsPrefix(before, v.ldh)
                         /\ (after # None => /\ SE!IsSuffix(<<".">> \o after, v.ldh)
                                             /\ Len(v.ldh) > Len(before) + Len(after))
                         => v \in SearchDomains(db, q.text).results
    BY DEF SearchFindsAll
  <2> DEFINE text == q.text
             star == FirstPlace("*", text)
             before == Before(star, text)
             after == Trim(After(star, text))
  <2>1. text \in Text /\ Len(text) \in Nat /\ DOMAIN text = 1..Len(text)
    BY QueriesAssumption DEF Text
  <2>2. Cardinality(Places("*", text)) = 1
    BY DEF SearchLabels, Outcome
  <2>3. PICK x : Places("*", text) = {x}
    <3>1. IsFiniteSet(Places("*", text))
      <4>1. IsFiniteSet(1..Len(text))
        BY <2>1, FS_Interval
      <4>2. Places("*", text) \in SUBSET (1..Len(text))
        BY <2>1 DEF Places
      <4> QED BY <4>1, <4>2, FS_Subset
    <3> QED BY <2>2, <3>1, FS_Singleton
  <2>4. x \in 1..Len(text)
    BY <2>1, <2>3 DEF Places
  <2>5. star = x /\ (CHOOSE i \in Places("*", text) : TRUE) = x
    BY <2>3, <2>4 DEF FirstPlace
  <2> HIDE DEF star
  <2>6. x # 1 /\ SearchLabels(db.index, text) = Outcome("found", Hits(db.index, x, text))
    BY <2>2, <2>5 DEF SearchLabels, Outcome
  <2>7. before \in Text /\ Len(before) > 0 /\ after \in Text
    <3>1. star \in 1..Len(text) /\ star \in 0..Len(text) /\ star - 1 > 0
      BY <2>1, <2>4, <2>5, <2>6
    <3>2. before \in Text /\ Len(before) = star - 1
      BY <2>1, <3>1, BeforeText
    <3>3. After(star, text) \in Text
      BY <2>1, <3>1, AfterText
    <3> QED BY <3>1, <3>2, <3>3, TrimText
  <2> DEFINE fits == /\ SE!IsPrefix(before, v.ldh)
                     /\ after # None => /\ SE!IsSuffix(<<".">> \o after, v.ldh)
                                        /\ Len(v.ldh) > Len(before) + Len(after)
  <2>8. ASSUME fits PROVE v \in SearchDomains(db, text).results
    <3>1. PICK s \in DOMAIN db.slots : s[1] = "domains" /\ db.slots[s] = v
      BY DEF Stored
    <3>2. /\ v.ldh \in Text
          /\ \A k \in Keys(v.ldh) : k \in DOMAIN db.index /\ db.index[k] = v
      BY <3>1 DEF SearchInv, Named, Indexed, IsName
    <3>3. PICK k \in Keys(v.ldh) : k[1] = after /\ SE!IsPrefix(before, k[2])
      <4> HIDE DEF before, after
      <4>1. FitsParts(v.ldh, before, after)
        BY <2>8 DEF FitsParts
      <4>2. v.ldh \in Text
        BY <3>2
      <4> HIDE DEF fits
      <4> QED BY <2>7, <4>1, <4>2, FitsKey
    <3>4. k \in DOMAIN db.index /\ db.index[k] = v
      BY <3>2
    <3>5. v \in Hits(db.index, x, text)
      BY <2>5, <3>3, <3>4 DEF Hits
    <3>6. SearchDomains(db, text) =
            [class |-> "domainSearchResults",
             results |-> {r \in Hits(db.index, x, text) : r.class = "domain"}]
      BY <2>6 DEF SearchDomains, Outcome
    <3> QED BY <3>5, <3>6
  <2> HIDE DEF before, after
  <2> QED BY <2>8 DEF before, after, star
<1> QED BY <1>1, <1>2, <1>3, Serves, PTL DEF Spec

---------------------------------------------------------------------------
(* Powers of two, and the networks of addresses                            *)

(* A claim about the numbers up to n is true of all when it is of 0 and     *)
(* passes from each to the next: there is no least one it is false of.     *)
LEMMA NoneFails ==
  ASSUME NEW Fails, Fails \subseteq Nat, 0 \notin Fails,
         \A n \in Nat : n + 1 \in Fails => n \in Fails
  PROVE  Fails = {}
<1> SUFFICES ASSUME Fails # {} PROVE FALSE
  OBVIOUS
<1>1. PICK n \in Fails : \A m \in Fails : n <= m
  BY LeastNumber
<1>2. n - 1 \in Nat /\ (n - 1) + 1 = n
  OBVIOUS
<1> QED BY <1>1, <1>2

IsPow2(pow, m) == pow = [n \in 0..m |-> IF n = 0 THEN 1 ELSE 2 * pow[n - 1]]

LEMMA Pow2Exists ==
  ASSUME NEW m \in Nat
  PROVE  \E pow : IsPow2(pow, m)
<1> DEFINE Fails == {n \in Nat : ~\E pow : IsPow2(pow, n)}
<1>1. 0 \notin Fails
  <2>1. IsPow2([n \in 0..0 |-> 1], 0)
    BY DEF IsPow2
  <2> QED BY <2>1
<1>2. ASSUME NEW n \in Nat, n \notin Fails PROVE n + 1 \notin Fails
  <2>1. PICK pow : IsPow2(pow, n)
    BY <1>2
  <2> DEFINE next == [k \in 0..(n + 1) |-> IF k = 0 THEN 1 ELSE 2 * pow[k - 1]]
  <2>2. ASSUME NEW k \in 0..(n + 1), k # 0 PROVE next[k - 1] = pow[k - 1]
    <3>1. k - 1 \in 0..n /\ k - 1 \in 0..(n + 1)
      BY <2>2
    <3>2. pow[k - 1] = IF k - 1 = 0 THEN 1 ELSE 2 * pow[(k - 1) - 1]
      BY <2>1, <3>1 DEF IsPow2
    <3>3. next[k - 1] = IF k - 1 = 0 THEN 1 ELSE 2 * pow[(k - 1) - 1]
      BY <3>1
    <3> QED BY <3>2, <3>3
  <2>3. IsPow2(next, n + 1)
    BY <2>2 DEF IsPow2
  <2> QED BY <2>3
<1>3. Fails = {}
  <2> HIDE DEF Fails
  <2>1. Fails \subseteq Nat
    BY DEF Fails
  <2> QED BY <1>1, <1>2, <2>1, NoneFails
<1> QED BY <1>3

LEMMA Pow2Is ==
  /\ 0 \in 0..Width /\ Pow2[0] = 1
  /\ \A n \in 1..Width : n \in 0..Width /\ n - 1 \in 0..Width /\ Pow2[n] = 2 * Pow2[n - 1]
<1>1. IsPow2(Pow2, Width)
  <2>1. \E pow : IsPow2(pow, Width)
    BY Pow2Exists, WidthAssumption
  <2> QED BY <2>1 DEF IsPow2, Pow2
<1>2. ASSUME NEW n \in 0..Width PROVE Pow2[n] = IF n = 0 THEN 1 ELSE 2 * Pow2[n - 1]
  BY <1>1 DEF IsPow2
<1>3. 0 \in 0..Width /\ \A n \in 1..Width : n \in 0..Width /\ n - 1 \in 0..Width /\ n # 0
  BY WidthAssumption
<1> QED BY <1>2, <1>3

LEMMA Pow2Positive ==
  ASSUME NEW n \in 0..Width
  PROVE  Pow2[n] \in Nat /\ Pow2[n] > 0
<1> DEFINE Fails == {k \in Nat : k <= Width /\ ~(Pow2[k] \in Nat /\ Pow2[k] > 0)}
<1>1. 0 \notin Fails
  BY Pow2Is
<1>2. ASSUME NEW k \in Nat, k + 1 \in Fails PROVE k \in Fails
  <2>1. k + 1 \in 1..Width /\ k <= Width /\ (k + 1) - 1 = k
    BY <1>2, WidthAssumption
  <2>2. Pow2[k + 1] = 2 * Pow2[k]
    BY <2>1, Pow2Is
  <2> QED BY <1>2, <2>1, <2>2
<1>3. Fails = {}
  <2> HIDE DEF Fails
  <2>1. Fails \subseteq Nat
    BY DEF Fails
  <2> QED BY <1>1, <1>2, <2>1, NoneFails
<1> QED BY <1>3, WidthAssumption

LEMMA Pow2Increases ==
  ASSUME NEW a \in 0..Width, NEW b \in 0..Width, a < b
  PROVE  Pow2[a] < Pow2[b]
<1> DEFINE Fails == {d \in Nat : a + d + 1 <= Width /\ ~(Pow2[a] < Pow2[a + d + 1])}
<1>1. 0 \notin Fails
  <2> SUFFICES ASSUME a + 1 <= Width PROVE Pow2[a] < Pow2[a + 1]
    OBVIOUS
  <2>1. a + 1 \in 1..Width /\ (a + 1) - 1 = a
    OBVIOUS
  <2> QED BY <2>1, Pow2Is, Pow2Positive
<1>2. ASSUME NEW d \in Nat, d + 1 \in Fails PROVE d \in Fails
  <2>1. a + (d + 1) + 1 \in 1..Width /\ (a + (d + 1) + 1) - 1 = a + d + 1 /\ a + d + 1 \in 0..Width
    BY <1>2, WidthAssumption
  <2>2. Pow2[a + (d + 1) + 1] = 2 * Pow2[a + d + 1]
    BY <2>1, Pow2Is
  <2>3. Pow2[a + d + 1] \in Nat /\ Pow2[a + d + 1] > 0 /\ Pow2[a] \in Nat
    BY <2>1, Pow2Positive
  <2> QED BY <1>2, <2>1, <2>2, <2>3
<1>3. Fails = {}
  <2> HIDE DEF Fails
  <2>1. Fails \subseteq Nat
    BY DEF Fails
  <2> QED BY <1>1, <1>2, <2>1, NoneFails
<1>4. b - a - 1 \in Nat /\ a + (b - a - 1) + 1 = b /\ b <= Width
  BY WidthAssumption
<1> QED BY <1>3, <1>4

LEMMA Pow2Adds ==
  ASSUME NEW len \in 0..Width
  PROVE  Pow2[Width] = Pow2[len] * Pow2[Width - len]
<1> DEFINE rest == Width - len
           Fails == {d \in Nat : rest + d <= Width /\ Pow2[rest + d] # Pow2[d] * Pow2[rest]}
<1>0. rest \in 0..Width
  BY WidthAssumption
<1> HIDE DEF rest
<1>1. 0 \notin Fails
  BY <1>0, Pow2Is, Pow2Positive
<1>2. ASSUME NEW d \in Nat, d + 1 \in Fails PROVE d \in Fails
  <2>1. /\ rest + (d + 1) \in 1..Width /\ (rest + (d + 1)) - 1 = rest + d
        /\ d + 1 \in 1..Width /\ (d + 1) - 1 = d /\ d \in 0..Width
    BY <1>0, <1>2, WidthAssumption
  <2>2. Pow2[rest + (d + 1)] = 2 * Pow2[rest + d] /\ Pow2[d + 1] = 2 * Pow2[d]
    BY <2>1, Pow2Is
  <2>3. Pow2[rest] \in Nat /\ Pow2[d] \in Nat
    BY <1>0, <2>1, Pow2Positive
  <2>4. \A x, y \in Nat : (2 * x) * y = 2 * (x * y)
    OBVIOUS
  <2>5. (2 * Pow2[d]) * Pow2[rest] = 2 * (Pow2[d] * Pow2[rest])
    BY <2>3, <2>4
  <2>6. Pow2[rest + (d + 1)] # Pow2[d + 1] * Pow2[rest]
    BY <1>2
  <2>7. 2 * Pow2[rest + d] # 2 * (Pow2[d] * Pow2[rest])
    BY <2>2, <2>5, <2>6
  <2>8. Pow2[rest + d] # Pow2[d] * Pow2[rest]
    BY <2>7
  <2>9. rest + d <= Width
    BY <1>0, <2>1, WidthAssumption
  <2> QED BY <2>8, <2>9
<1>3. Fails = {}
  <2> HIDE DEF Fails
  <2>1. Fails \subseteq Nat
    BY DEF Fails
  <2> QED BY <1>1, <1>2, <2>1, NoneFails
<1>4. len \in Nat /\ rest + len = Width
  BY WidthAssumption DEF rest
<1> QED BY <1>3, <1>4, WidthAssumption DEF rest

(* Every address is in a block of any size.                                *)
LEMMA InBlock ==
  ASSUME NEW size \in Nat, size > 0, NEW addr \in Nat
  PROVE  \E i \in Nat : i * size <= addr /\ addr < i * size + size
<1> DEFINE Within(a) == \E i \in Nat : i * size <= a /\ a < i * size + size
           Fails == {a \in Nat : ~Within(a)}
<1>1. 0 \notin Fails
  <2>1. 0 * size = 0
    OBVIOUS
  <2> QED BY <2>1
<1>2. ASSUME NEW a \in Nat, Within(a) PROVE Within(a + 1)
  <2>1. PICK i \in Nat : i * size <= a /\ a < i * size + size
    BY <1>2
  <2> DEFINE from == i * size
  <2>2. from \in Nat /\ (i + 1) * size = from + size
    OBVIOUS
  <2>3. from <= a /\ a < from + size
    BY <2>1
  <2>4. CASE a + 1 < from + size
    <3>1. from <= a + 1
      BY <2>2, <2>3
    <3> QED BY <2>4, <3>1
  <2>5. CASE ~(a + 1 < from + size)
    <3> HIDE DEF from
    <3>1. from + size <= a + 1 /\ a + 1 < from + size + size
      BY <2>2, <2>3, <2>5
    <3>2. (i + 1) * size <= a + 1 /\ a + 1 < (i + 1) * size + size /\ i + 1 \in Nat
      BY <2>2, <3>1
    <3> QED BY <3>2
  <2> QED BY <2>4, <2>5
<1>3. Fails = {}
  <2> HIDE DEF Within
  <2>1. Fails \subseteq Nat
    OBVIOUS
  <2>2. \A a \in Nat : a + 1 \in Fails => a \in Fails
    BY <1>2
  <2> HIDE DEF Fails
  <2> QED BY <1>1, <2>1, <2>2, NoneFails
<1> QED BY <1>3

(* parse_cidr has a network to find.                                       *)
LEMMA NetworkAround ==
  ASSUME NEW len \in 0..Width, NEW addr \in 0..(Pow2[Width] - 1)
  PROVE  \E n \in Nets : n[2] = len /\ Covers(n, addr, addr)
<1> DEFINE size == Pow2[Width - len]
           count == Pow2[len]
<1>1. /\ Width - len \in 0..Width
      /\ size \in Nat /\ size > 0 /\ count \in Nat /\ Pow2[Width] = count * size
  <2>1. Width - len \in 0..Width
    BY WidthAssumption
  <2> QED BY <2>1, Pow2Positive, Pow2Adds
<1>2. addr \in Nat /\ addr < count * size
  BY <1>1
<1> HIDE DEF size, count
<1>3. PICK i \in Nat : i * size <= addr /\ addr < i * size + size
  BY <1>1, <1>2, InBlock
<1>4. i < count
  <2> SUFFICES ASSUME i >= count PROVE FALSE
    BY <1>1
  <2>1. PICK more \in Nat : i = count + more
    <3>1. i - count \in Nat /\ i = count + (i - count)
      BY <1>1
    <3> QED BY <3>1
  <2>2. \A x, y, z \in Nat : (x + y) * z = x * z + y * z /\ x * z \in Nat /\ y * z \in Nat
    OBVIOUS
  <2>3. i * size = count * size + more * size /\ count * size \in Nat /\ more * size \in Nat
    BY <1>1, <2>1, <2>2
  <2> QED BY <1>2, <1>3, <2>3
<1>5. i * size \in Blocks(len)
  BY <1>1, <1>4 DEF Blocks, size, count
<1> DEFINE n == <<i * size, len>>
<1>6. n \in Nets
  BY <1>5 DEF Nets
<1>7. Covers(n, addr, addr)
  <2>1. n[1] = i * size /\ LastOf(n) = i * size + size - 1 /\ i * size \in Nat
    BY <1>1 DEF LastOf, size
  <2> QED BY <1>1, <1>2, <1>3, <2>1 DEF Covers
<1> QED BY <1>6, <1>7

LEMMA NetsAre ==
  ASSUME NEW n \in Nets
  PROVE  /\ n = <<n[1], n[2]>> /\ n[1] \in Nat /\ n[2] \in 0..Width
         /\ LastOf(n) \in Nat /\ n[1] <= LastOf(n)
<1>1. PICK len \in 0..Width : \E b \in Blocks(len) : n = <<b, len>>
  BY DEF Nets
<1>2. PICK b \in Blocks(len) : n = <<b, len>>
  BY <1>1
<1>3. Width - len \in 0..Width
  BY WidthAssumption
<1>4. Pow2[Width - len] \in Nat /\ Pow2[Width - len] > 0
  BY <1>3, Pow2Positive
<1>5. Pow2[len] \in Nat
  BY Pow2Positive
<1>6. b \in Nat
  BY <1>4, <1>5 DEF Blocks
<1>7. LastOf(n) = b + Pow2[Width - len] - 1
  BY <1>2 DEF LastOf
<1> QED BY <1>2, <1>4, <1>6, <1>7

(* What Ipv4Subnets makes of the range of a network is that network.       *)
LEMMA SubnetsOfOne ==
  ASSUME NEW n \in Nets
  PROVE  n \in Subnets(n[1], LastOf(n))
<1> DEFINE inside == {m \in Nets : n[1] <= m[1] /\ LastOf(m) <= LastOf(n)}
<1>1. n \in inside
  BY NetsAre
<1>2. ASSUME NEW m \in inside, Covers(m, n[1], LastOf(n)) PROVE m = n
  <2>1. m \in Nets /\ m[1] = n[1] /\ LastOf(m) = LastOf(n)
    BY <1>2, NetsAre DEF Covers
  <2>2. /\ Width - m[2] \in 0..Width /\ Width - n[2] \in 0..Width
        /\ m[2] \in 0..Width /\ n[2] \in 0..Width
    BY <2>1, NetsAre, WidthAssumption
  <2>3. Pow2[Width - m[2]] \in Nat /\ Pow2[Width - n[2]] \in Nat
    BY <2>2, Pow2Positive
  <2>4. Pow2[Width - m[2]] = Pow2[Width - n[2]]
    <3>1. n[1] \in Nat
      BY NetsAre
    <3>2. n[1] + Pow2[Width - m[2]] - 1 = n[1] + Pow2[Width - n[2]] - 1
      BY <2>1 DEF LastOf
    <3> QED BY <2>3, <3>1, <3>2
  <2>5. ~(Width - m[2] < Width - n[2]) /\ ~(Width - n[2] < Width - m[2])
    BY <2>2, <2>3, <2>4, Pow2Increases
  <2>6. m[2] = n[2]
    BY <2>2, <2>5, WidthAssumption
  <2> QED BY <2>1, <2>6, NetsAre
<1> QED BY <1>1, <1>2 DEF Subnets

---------------------------------------------------------------------------
(* What rdap-srv-data writes can be loaded                                 *)

(* A key that it makes has what an addition needs.                         *)
LEMMA MadeIdUsable ==
  ASSUME NEW args \in MadeArgs, NEW store, ~Refused(store, args)
  PROVE  LET id == MadeId(args.id)
         IN /\ id.class = args.id.class /\ HasKey(id) /\ ~Unusable(id)
            /\ id.class = "ip" => NetRange(id) # {}
<1> DEFINE class == args.id.class
           id == MadeId(args.id)
<1>1. class \in Classes /\ (class # "ip" => HasKey(args.id))
  BY ArgsAssumption DEF IsArgs
<1>2. CASE class = "domain"
  <2>1. /\ "ldh" \in DOMAIN args.id /\ "unicode" \in DOMAIN args.id /\ "class" \in DOMAIN args.id
    BY <1>1, <1>2 DEF HasKey, KeyFields
  <2> DEFINE ldh == IF args.id.ldh = None THEN ALabels[args.id.unicode] ELSE args.id.ldh
  <2>2. ldh # None
    BY <1>2, ALabelsAssumption DEF Refused
  <2>3. id = [args.id EXCEPT !.ldh = ldh, !.unicode = OrElse(args.id.unicode, ToUnicode(ldh))]
    BY <1>2 DEF MadeId, DomainId
  <2> HIDE DEF ldh, id
  <2>4. id.ldh = ldh /\ id.class = class /\ DOMAIN id = DOMAIN args.id
    BY <2>1, <2>3
  <2>5. HasKey(id)
    BY <1>1, <1>2, <2>4 DEF HasKey
  <2> QED BY <1>2, <2>2, <2>4, <2>5 DEF Unusable, id
<1>3. CASE class = "ip"
  <2>1. /\ args.id.version \in {4, 6}
        /\ args.id.len \in 0..Width /\ args.id.addr \in 0..(Pow2[Width] - 1)
    BY <1>3, ArgsAssumption DEF IsArgs
  <2> DEFINE version == args.id.version
             net == CHOOSE n \in Nets : n[2] = args.id.len /\ Covers(n, args.id.addr, args.id.addr)
  <2>2. net \in Nets
    BY <2>1, NetworkAround
  <2>3. id = [class |-> "ip", version |-> version,
              start |-> <<version, net[1]>>, end |-> <<version, LastOf(net)>>]
    BY <1>3 DEF MadeId, NetworkId
  <2> HIDE DEF net, id
  <2>4. NetRange(id) # {}
    <3>1. id.start[2] = net[1] /\ id.end[2] = LastOf(net)
      BY <2>3
    <3> QED BY <2>2, <3>1, SubnetsOfOne DEF NetRange
  <2>5. /\ id.class = "ip" /\ id.version = version /\ id.start[1] = version /\ id.end[1] = version
        /\ id.start # None /\ id.end # None
    <3>1. Len(id.start) = 2 /\ Len(id.end) = 2 /\ Len(None) = 0
      BY <2>3 DEF None
    <3> QED BY <2>3, <3>1
  <2>6. version # NoNumber
    BY <2>1 DEF NoNumber
  <2>7. ~Unusable(id)
    BY <2>5, <2>6 DEF Unusable
  <2>8. HasKey(id)
    BY <2>3 DEF HasKey, KeyFields
  <2> QED BY <1>3, <2>4, <2>5, <2>7, <2>8 DEF id
<1>4. CASE class = "autnum"
  <2>1. "start" \in DOMAIN args.id /\ "end" \in DOMAIN args.id /\ "class" \in DOMAIN args.id
    BY <1>1, <1>4 DEF HasKey, KeyFields
  <2>2. args.id.start # NoNumber
    BY <1>4, ArgsAssumption DEF IsArgs
  <2>3. id = [args.id EXCEPT !.end = IF args.id.end = NoNumber THEN args.id.start ELSE args.id.end]
    BY <1>4 DEF MadeId
  <2> HIDE DEF id
  <2>4. /\ id.class = class /\ DOMAIN id = DOMAIN args.id
        /\ id.start # NoNumber /\ id.end # NoNumber
    BY <2>1, <2>2, <2>3
  <2>5. HasKey(id)
    BY <1>1, <1>4, <2>4 DEF HasKey
  <2> QED BY <1>4, <2>4, <2>5 DEF Unusable, id
<1>5. CASE class = "help"
  <2>1. "host" \in DOMAIN args.id /\ "class" \in DOMAIN args.id
    BY <1>1, <1>5 DEF HasKey, KeyFields
  <2>2. id.class = class /\ DOMAIN id = DOMAIN args.id
    BY <1>5, <2>1 DEF MadeId
  <2>3. HasKey(id)
    BY <1>1, <1>5, <2>2 DEF HasKey
  <2> QED BY <1>5, <2>2, <2>3 DEF Unusable
<1>6. CASE class \in {"nameserver", "entity"}
  <2>1. id = args.id
    BY <1>6 DEF MadeId
  <2>2. (class = "nameserver" => args.id.ldh # None) /\ (class = "entity" => args.id.handle # None)
    BY ArgsAssumption DEF IsArgs
  <2> QED BY <1>1, <1>6, <2>1, <2>2 DEF Unusable
<1> QED BY <1>1, <1>2, <1>3, <1>4, <1>5, <1>6 DEF Classes, Segments

LEMMA MadeAdds ==
  ASSUME NEW args \in MadeArgs, NEW store, ~Refused(store, args)
  PROVE  \A i \in DOMAIN Additions(MadeFile(args).file) : Additions(MadeFile(args).file)[i].ok
<1> DEFINE class == args.id.class
           id == MadeId(args.id)
           file == MadeFile(args).file
<1>1. /\ id.class = class /\ HasKey(id) /\ ~Unusable(id)
      /\ class = "ip" => NetRange(id) # {}
  BY MadeIdUsable
<1>2. class \in Classes /\ args.as \in {"json", "template", "redirect"}
  BY ArgsAssumption DEF IsArgs
<1>3. \A obj, key : DOMAIN <<Addition(obj, key, TRUE)>> = {1} /\ <<Addition(obj, key, TRUE)>>[1].ok
  BY DEF Addition
<1>4. CASE class = "help"
  <2>1. args.as = "json"
    BY <1>2, <1>4 DEF Refused
  <2>2. file.kind = "help" /\ file.obj = id
    BY <1>4, <2>1 DEF MadeFile
  <2> HIDE DEF file, id
  <2>3. Additions(file) = LET help == [file.obj EXCEPT !.host = HelpHost(file.host)]
                          IN <<Addition(help, help, TRUE)>>
    BY <1>1, <1>4, <2>2 DEF Additions
  <2> QED BY <1>3, <2>3 DEF file
<1>5. CASE class # "help"
  <2>1. class \in Segments
    BY <1>2, <1>5 DEF Classes
  <2> DEFINE obj == MadeObject(id)
  <2>2. "class" \in DOMAIN id
    BY <1>1 DEF HasKey
  <2> HIDE DEF id
  <2>3. obj.class = class /\ \A f \in DOMAIN id : f # "self" => obj[f] = id[f]
    BY <1>1, <2>2 DEF MadeObject
  <2>4. ~Unusable(obj)
    <3> HIDE DEF obj
    <3>1. CASE class \in {"domain", "nameserver"}
      <4>1. "ldh" \in DOMAIN id
        BY <1>1, <3>1 DEF HasKey, KeyFields
      <4> QED BY <1>1, <2>3, <3>1, <4>1 DEF Unusable
    <3>2. CASE class = "entity"
      <4>1. "handle" \in DOMAIN id
        BY <1>1, <3>2 DEF HasKey, KeyFields
      <4> QED BY <1>1, <2>3, <3>2, <4>1 DEF Unusable
    <3>3. CASE class = "autnum"
      <4>1. "start" \in DOMAIN id /\ "end" \in DOMAIN id
        BY <1>1, <3>3 DEF HasKey, KeyFields
      <4> QED BY <1>1, <2>3, <3>3, <4>1 DEF Unusable
    <3>4. CASE class = "ip"
      <4>1. "start" \in DOMAIN id /\ "end" \in DOMAIN id /\ "version" \in DOMAIN id
        BY <1>1, <3>4 DEF HasKey, KeyFields
      <4>2. obj.start = id.start /\ obj.end = id.end /\ obj.version = id.version
        BY <2>3, <4>1
      <4> QED BY <1>1, <2>3, <3>4, <4>2 DEF Unusable
    <3> QED BY <2>1, <3>1, <3>2, <3>3, <3>4 DEF Segments
  <2> HIDE DEF obj
  <2>5. DOMAIN <<id>> = {1} /\ <<id>>[1] = id
    OBVIOUS
  <2>6. CASE args.as = "json"
    <3>1. file = [kind |-> "json", obj |-> obj]
      BY <1>5, <2>6 DEF MadeFile, obj, id
    <3> HIDE DEF file
    <3>2. Additions(file) = <<Addition(obj, obj, TRUE)>>
      BY <2>1, <2>3, <2>4, <3>1 DEF Additions
    <3> QED BY <1>3, <3>2 DEF file
  <2>7. CASE args.as \in {"template", "redirect"}
    <3>1. /\ file.kind = "template" /\ file.ids = <<id>>
          /\ file.obj = IF args.as = "template" THEN obj ELSE ErrorResponse(307, args.url)
      BY <1>5, <2>7 DEF MadeFile, RedirectFile, obj, id
    <3> HIDE DEF file
    <3>2. ~TemplateFails(file.obj, id)
      BY <1>1, <2>7, <3>1 DEF TemplateFails, IsError, ErrorResponse
    <3>3. Additions(file) =
            [i \in {1} |-> IF IsError(file.obj) THEN Addition(file.obj, id, TRUE)
                           ELSE Addition(FromTemplate(file.obj, id), id, TRUE)]
      <4>1. Additions(file) =
              [i \in DOMAIN file.ids |->
                IF TemplateFails(file.obj, file.ids[i]) THEN Failure
                ELSE IF IsError(file.obj) THEN Addition(file.obj, file.ids[i], TRUE)
                ELSE Addition(FromTemplate(file.obj, file.ids[i]), file.ids[i], TRUE)]
        BY <3>1 DEF Additions
      <4>2. DOMAIN file.ids = {1} /\ file.ids[1] = id
        BY <2>5, <3>1
      <4>3. \A i \in {1} : file.ids[i] = id
        BY <4>2
      <4> QED BY <3>2, <4>1, <4>2, <4>3
    <3>4. DOMAIN Additions(file) = {1} /\ Additions(file)[1].ok
      BY <3>3 DEF Addition
    <3> QED BY <3>4 DEF file
  <2> QED BY <1>2, <2>6, <2>7
<1> QED BY <1>4, <1>5

(* Only rdap-srv-data and removals change the directory.                   *)
LEMMA OtherSteps ==
  ASSUME [Next]_vars, ~\E args \in MadeArgs : MakeData(args),
         ~\E name \in DOMAIN dir : RemoveFile(name)
  PROVE  dir' = dir
<1>1. CASE Load("update") \/ Load("reload")
  BY <1>1 DEF Load
<1>2. CASE (\E q \in Queries : Receive(q)) \/ Leave \/ Lookup \/ UNCHANGED vars
  BY <1>2 DEF Receive, Leave, vars, serverVars, Lookup, LookupLdh, LookupUnicode, LookupAbove,
              LookupNameserver, LookupEntity, LookupTag, LookupNumbers, LookupHelp,
              LookupDefaultHelp, LookupSearch
<1> QED BY <1>1, <1>2 DEF Next

LEMMA StepsLoad == [Next]_vars /\ LoadSucceeds(dir) => LoadSucceeds(dir')
<1> SUFFICES ASSUME [Next]_vars, LoadSucceeds(dir) PROVE LoadSucceeds(dir')
  OBVIOUS
<1>1. ASSUME NEW args \in MadeArgs, MakeData(args) PROVE LoadSucceeds(dir')
  <2> DEFINE made == MadeFile(args)
  <2>1. dir' = [n \in DOMAIN dir \union {made.name} |-> IF n = made.name THEN made.file ELSE dir[n]]
    BY <1>1 DEF MakeData
  <2>2. \A i \in DOMAIN Additions(made.file) : Additions(made.file)[i].ok
    <3>1. PICK files \in Listings(dir) : ~Refused(Loaded(Empty, files), args)
      BY <1>1 DEF MakeData
    <3> QED BY <3>1, MadeAdds
  <2> HIDE DEF made
  <2>3. ASSUME NEW n \in DOMAIN dir'
        PROVE  \A i \in DOMAIN Additions(dir'[n]) : Additions(dir'[n])[i].ok
    <3>1. dir'[n] = made.file \/ (n \in DOMAIN dir /\ dir'[n] = dir[n])
      BY <2>1
    <3> QED BY <2>2, <3>1 DEF LoadSucceeds
  <2> QED BY <2>3 DEF LoadSucceeds
<1>2. ASSUME NEW name \in DOMAIN dir, RemoveFile(name) PROVE LoadSucceeds(dir')
  BY <1>2 DEF RemoveFile, LoadSucceeds
<1>3. ASSUME dir' = dir PROVE LoadSucceeds(dir')
  BY <1>3 DEF LoadSucceeds
<1> QED BY <1>1, <1>2, <1>3, OtherSteps

(* Nothing rdap-srv-data writes keeps the server from loading a directory  *)
(* that it could load before: its files are files of keys and networks that*)
(* a load takes, whatever the command line asks for.                       *)
THEOREM WritesCanLoad == Spec => WritesLoad
<1>1. [Next]_vars => (LoadSucceeds(dir) => LoadSucceeds(dir'))
  BY StepsLoad
<1> QED BY <1>1, PTL DEF Spec, WritesLoad

---------------------------------------------------------------------------
(* The redirects of the files                                              *)

(* An addition is put where its id says, but for a U-label that a template *)
(* keeps of its object.                                                    *)
KeyedAddition(a) == \A s \in Puts(a) : s[1] # "idns" => s \in Slots(a.id)

LEMMA TemplateKeyed ==
  ASSUME NEW obj, NEW id, HasKey(obj), obj.class \in Segments, id.class = obj.class
  PROVE  KeyedAddition(Addition(FromTemplate(obj, id), id, TRUE))
<1> DEFINE made == FromTemplate(obj, id)
           a == Addition(made, id, TRUE)
<1>1. "class" \in DOMAIN obj /\ obj.class # "error" /\ obj.class # "help"
  BY DEF HasKey, Segments
<1>2. a.obj = made /\ a.id = id
  BY DEF Addition
<1>3. CASE obj.class = "domain"
  <2>1. "ldh" \in DOMAIN obj /\ "unicode" \in DOMAIN obj
    BY <1>3 DEF HasKey, KeyFields
  <2>2. made.class = "domain" /\ made.ldh = id.ldh
    BY <1>1, <1>3, <2>1 DEF FromTemplate
  <2> HIDE DEF a, made
  <2>3. Puts(a) = Slots(made)
    BY <1>2, <2>2 DEF Puts, IsError
  <2>4. \A s \in Slots(made) : s[1] # "idns" => s = <<"domains", id.ldh>>
    BY <2>2 DEF Slots
  <2>5. <<"domains", id.ldh>> \in Slots(id)
    BY <1>3 DEF Slots
  <2> QED BY <1>2, <2>3, <2>4, <2>5 DEF KeyedAddition, a, made
<1>4. CASE obj.class = "nameserver"
  <2>1. "ldh" \in DOMAIN obj
    BY <1>4 DEF HasKey, KeyFields
  <2>2. made.class = "nameserver" /\ made.ldh = id.ldh
    BY <1>1, <1>4, <2>1 DEF FromTemplate
  <2> HIDE DEF a, made
  <2>3. Puts(a) = Slots(made)
    BY <1>2, <2>2 DEF Puts, IsError
  <2>4. Slots(made) = Slots(id)
    BY <1>4, <2>2 DEF Slots
  <2> QED BY <1>2, <2>3, <2>4 DEF KeyedAddition, a, made
<1>5. CASE obj.class = "entity"
  <2>1. "handle" \in DOMAIN obj
    BY <1>5 DEF HasKey, KeyFields
  <2>2. made.class = "entity" /\ made.handle = id.handle
    BY <1>1, <1>5, <2>1 DEF FromTemplate
  <2> HIDE DEF a, made
  <2>3. Puts(a) = Slots(made)
    BY <1>2, <2>2 DEF Puts, IsError
  <2>4. Slots(made) = Slots(id)
    BY <1>5, <2>2 DEF Slots
  <2> QED BY <1>2, <2>3, <2>4 DEF KeyedAddition, a, made
<1>6. CASE obj.class = "autnum"
  <2>1. "start" \in DOMAIN obj /\ "end" \in DOMAIN obj
    BY <1>6 DEF HasKey, KeyFields
  <2>2. made.class = "autnum" /\ made.start = id.start /\ made.end = id.end
    BY <1>1, <1>6, <2>1 DEF FromTemplate
  <2> HIDE DEF a, made
  <2>3. Puts(a) = Slots(made)
    BY <1>2, <2>2 DEF Puts, IsError
  <2>4. NumRange(made) = NumRange(id)
    BY <2>2 DEF NumRange
  <2>5. Slots(made) = Slots(id)
    BY <1>6, <2>2, <2>4 DEF Slots
  <2> QED BY <1>2, <2>3, <2>5 DEF KeyedAddition, a, made
<1>7. CASE obj.class = "ip"
  <2>1. "version" \in DOMAIN obj /\ "start" \in DOMAIN obj /\ "end" \in DOMAIN obj
    BY <1>7 DEF HasKey, KeyFields
  <2>2. made.class = "ip" /\ made.version = id.version /\ made.start = id.start /\ made.end = id.end
    BY <1>1, <1>7, <2>1 DEF FromTemplate
  <2> HIDE DEF a, made
  <2>3. Puts(a) = Slots(made)
    BY <1>2, <2>2 DEF Puts, IsError
  <2>4. NetRange(made) = NetRange(id)
    BY <2>2 DEF NetRange
  <2>5. Slots(made) = Slots(id)
    BY <1>7, <2>2, <2>4 DEF Slots
  <2> QED BY <1>2, <2>3, <2>5 DEF KeyedAddition, a, made
<1> QED BY <1>3, <1>4, <1>5, <1>6, <1>7 DEF Segments

LEMMA KeyedAdditions ==
  ASSUME NEW file, IsFile(file), NEW i \in DOMAIN Additions(file), Additions(file)[i].ok
  PROVE  KeyedAddition(Additions(file)[i])
<1> DEFINE kind == file.kind
<1>1. ~Failure.ok /\ DOMAIN <<Failure>> = 1..1 /\ \A j \in 1..1 : <<Failure>>[j] = Failure
  BY DEF Failure, Addition
<1>2. ASSUME NEW obj, obj.class # "error" PROVE KeyedAddition(Addition(obj, obj, TRUE))
  BY <1>2 DEF KeyedAddition, Puts, IsError, Addition
<1>3. CASE kind = "json"
  <2>1. CASE file.obj.class \in Segments /\ ~Unusable(file.obj)
    <3> DEFINE a == Addition(file.obj, file.obj, TRUE)
    <3>1. Additions(file) = <<a>> /\ file.obj.class # "error"
      BY <1>3, <2>1 DEF Additions, Segments
    <3>2. KeyedAddition(a)
      BY <1>2, <3>1
    <3> HIDE DEF a
    <3> QED BY <3>1, <3>2
  <2>2. CASE ~(file.obj.class \in Segments /\ ~Unusable(file.obj))
    <3>1. Additions(file) = <<Failure>>
      BY <1>3, <2>2 DEF Additions
    <3> QED BY <1>1, <3>1
  <2> QED BY <2>1, <2>2
<1>4. CASE kind = "help"
  <2>1. CASE file.obj.class = "help"
    <3> DEFINE help == [file.obj EXCEPT !.host = HelpHost(file.host)]
               a == Addition(help, help, TRUE)
    <3>1. Additions(file) = <<a>>
      BY <1>4, <2>1 DEF Additions
    <3>2. help.class # "error"
      BY <1>4, <2>1 DEF IsFile, HasKey
    <3> HIDE DEF help
    <3>3. KeyedAddition(a)
      BY <1>2, <3>2
    <3> HIDE DEF a
    <3> QED BY <3>1, <3>3
  <2>2. CASE file.obj.class # "help"
    <3>1. Additions(file) = <<Failure>>
      BY <1>4, <2>2 DEF Additions
    <3> QED BY <1>1, <3>1
  <2> QED BY <2>1, <2>2
<1>5. CASE kind = "template"
  <2> DEFINE id == file.ids[i]
  <2>1. Additions(file) =
          [j \in DOMAIN file.ids |->
            IF TemplateFails(file.obj, file.ids[j]) THEN Failure
            ELSE IF IsError(file.obj) THEN Addition(file.obj, file.ids[j], TRUE)
            ELSE Addition(FromTemplate(file.obj, file.ids[j]), file.ids[j], TRUE)]
    BY <1>5 DEF Additions
  <2>2. i \in DOMAIN file.ids
    BY <2>1
  <2>3. /\ HasKey(file.obj) /\ file.obj.class \in Segments \union {"error"}
        /\ file.obj.class # "error" => id.class = file.obj.class
    <3>1. IsTemplate(file)
      BY <1>5 DEF IsFile
    <3> QED BY <2>2, <3>1, Zenon DEF IsTemplate
  <2>4. ~TemplateFails(file.obj, id)
    BY <1>1, <2>1, <2>2
  <2>5. CASE IsError(file.obj)
    <3>1. Additions(file)[i] = Addition(file.obj, id, TRUE)
      BY <2>1, <2>2, <2>4, <2>5
    <3> QED BY <2>5, <3>1 DEF KeyedAddition, Puts, ErrSlots, Addition
  <2>6. CASE ~IsError(file.obj)
    <3>1. Additions(file)[i] = Addition(FromTemplate(file.obj, id), id, TRUE)
      BY <2>1, <2>2, <2>4, <2>6
    <3>2. file.obj.class \in Segments /\ id.class = file.obj.class
      BY <2>3, <2>6 DEF IsError
    <3> QED BY <2>3, <3>1, <3>2, TemplateKeyed
  <2> QED BY <2>5, <2>6
<1>6. CASE kind = "unreadable"
  <2>1. Additions(file) = <<Failure>>
    BY <1>6 DEF Additions
  <2> QED BY <1>1, <2>1
<1>7. CASE kind = "other"
  <2>1. Additions(file) = <<>>
    BY <1>7 DEF Additions
  <2> QED BY <2>1
<1> QED BY <1>3, <1>4, <1>5, <1>6, <1>7 DEF IsFile

(* What a file adds is what is stored where it is put, if no two files     *)
(* want the same slot.                                                     *)
LEMMA AdditionStored ==
  ASSUME DirOK(dir), CleanDir, FilledFrom(dir, db),
         NEW n \in DOMAIN dir, NEW i \in DOMAIN Additions(dir[n]),
         NEW s \in Puts(Adding(dir, n, i)), s[1] # "idns"
  PROVE  s \in DOMAIN db.slots /\ db.slots[s] = Adding(dir, n, i).obj
<1>1. LoadSucceeds(dir) /\ Clean
  BY DEF CleanDir
<1>2. ASSUME NEW m \in DOMAIN dir, NEW j \in DOMAIN Additions(dir[m]), s \in Puts(Adding(dir, m, j))
      PROVE  s \in Slots(Adding(dir, m, j).id)
  <2>1. IsFile(dir[m]) /\ Additions(dir[m])[j].ok
    BY <1>1 DEF DirOK, LoadSucceeds
  <2>2. KeyedAddition(Adding(dir, m, j))
    BY <2>1, KeyedAdditions DEF Adding
  <2> QED BY <1>2, <2>2 DEF KeyedAddition
<1>3. s \in DOMAIN db.slots
  BY DEF FilledFrom
<1>4. PICK m \in DOMAIN dir : \E j \in DOMAIN Additions(dir[m]) :
        AddsTo(dir, s, m, j) /\ db.slots[s] = Adding(dir, m, j).obj
  BY <1>3 DEF FilledFrom
<1>5. PICK j \in DOMAIN Additions(dir[m]) :
        AddsTo(dir, s, m, j) /\ db.slots[s] = Adding(dir, m, j).obj
  BY <1>4
<1>6. s \in Slots(Adding(dir, n, i).id) /\ s \in Slots(Adding(dir, m, j).id)
  BY <1>2, <1>5 DEF AddsTo
<1>7. <<m, j>> = <<n, i>>
  BY <1>1, <1>6 DEF Clean, Adding
<1> QED BY <1>3, <1>5, <1>7

(* An error of a template is stored under each of its ids.                 *)
LEMMA ErrorStored ==
  ASSUME DirOK(dir), CleanDir, FilledFrom(dir, db),
         NEW n \in DOMAIN dir, dir[n].kind = "template", IsError(dir[n].obj),
         NEW i \in DOMAIN dir[n].ids, NEW s \in Slots(dir[n].ids[i]), s[1] # "idns"
  PROVE  s \in DOMAIN db.slots /\ db.slots[s] = dir[n].obj
<1> DEFINE file == dir[n]
           a == Addition(file.obj, file.ids[i], TRUE)
<1>1. i \in DOMAIN Additions(file) /\ Adding(dir, n, i) = a
  <2>1. Additions(file) =
          [j \in DOMAIN file.ids |->
            IF TemplateFails(file.obj, file.ids[j]) THEN Failure
            ELSE IF IsError(file.obj) THEN Addition(file.obj, file.ids[j], TRUE)
            ELSE Addition(FromTemplate(file.obj, file.ids[j]), file.ids[j], TRUE)]
    BY DEF Additions
  <2>2. Additions(file)[i].ok
    BY <2>1 DEF CleanDir, LoadSucceeds
  <2>3. ~Failure.ok
    BY DEF Failure, Addition
  <2>4. ~TemplateFails(file.obj, file.ids[i])
    BY <2>1, <2>2, <2>3
  <2> QED BY <2>1, <2>4 DEF Adding
<1>2. s \in Puts(a) /\ a.obj = dir[n].obj
  BY DEF Puts, ErrSlots, Addition
<1> HIDE DEF a
<1> QED BY <1>1, <1>2, AdditionStored

(* The tables of networks have networks for keys.                          *)
LEMMA NetworkSlots ==
  ASSUME DirOK(dir), LoadSucceeds(dir), FilledFrom(dir, db),
         NEW s \in DOMAIN db.slots, s[1] \in {"ip4", "ip6"}
  PROVE  s = <<s[1], s[2]>> /\ s[2] \in Nets
<1>1. PICK n \in DOMAIN dir : \E i \in DOMAIN Additions(dir[n]) :
        AddsTo(dir, s, n, i) /\ db.slots[s] = Adding(dir, n, i).obj
  BY DEF FilledFrom
<1>2. PICK i \in DOMAIN Additions(dir[n]) : AddsTo(dir, s, n, i)
  BY <1>1
<1> DEFINE a == Adding(dir, n, i)
<1>3. SoundAddition(a) /\ s \in Puts(a)
  BY <1>2, SoundAdding DEF AddsTo
<1> HIDE DEF a
<1>4. ASSUME NEW obj, obj.class \in Classes, s \in Slots(obj)
      PROVE  s = <<s[1], s[2]>> /\ s[2] \in Nets
  <2>1. obj.class = "ip"
    BY <1>4 DEF Slots, Classes, Segments
  <2>2. s[2] \in NetRange(obj) /\ s = <<s[1], s[2]>>
    BY <1>4, <2>1 DEF Slots
  <2> QED BY <2>2 DEF NetRange, Subnets
<1>5. CASE IsError(a.obj)
  <2>1. s \in Slots(a.id) /\ a.id.class \in Classes
    BY <1>3, <1>5 DEF Puts, ErrSlots, SoundAddition, IsError, Classes
  <2> QED BY <1>4, <2>1
<1>6. CASE ~IsError(a.obj)
  <2>1. s \in Slots(a.obj) /\ a.obj.class \in Classes
    BY <1>3, <1>6 DEF Puts, SoundAddition, IsError
  <2> QED BY <1>4, <2>1
<1> QED BY <1>5, <1>6

(* The longest prefix of a network that is stored itself is the network.   *)
LEMMA LongestIsOwn ==
  ASSUME NEW store, NEW version, NEW net \in Nets,
         <<IpTable(version), net>> \in DOMAIN store.slots,
         \A s \in DOMAIN store.slots :
           s[1] = IpTable(version) => s = <<s[1], s[2]>> /\ s[2] \in Nets
  PROVE  GetLpm(store, version, net) = store.slots[<<IpTable(version), net>>]
<1> DEFINE around == {s \in DOMAIN store.slots :
                        s[1] = IpTable(version) /\ Covers(s[2], net[1], LastOf(net))}
           own == <<IpTable(version), net>>
           longest == CHOOSE s \in around : \A t \in around : t[2][2] <= s[2][2]
<1>1. own \in around /\ own[2] = net
  BY NetsAre DEF Covers
<1>2. \A s \in around : s[2] \in Nets /\ s[2][2] \in 0..Width /\ s = <<IpTable(version), s[2]>>
  BY NetsAre
<1>3. \E s \in around : \A t \in around : t[2][2] <= s[2][2]
  <2> DEFINE lens == {s[2][2] : s \in around}
  <2>1. lens \in SUBSET (0..Width) /\ lens # {}
    BY <1>1, <1>2
  <2>2. PICK len \in lens : \A l \in lens : l <= len
    BY <2>1, GreatestNumber, WidthAssumption
  <2>3. PICK s \in around : s[2][2] = len
    OBVIOUS
  <2> HIDE DEF around
  <2>4. \A t \in around : t[2][2] <= s[2][2]
    BY <2>2, <2>3
  <2> QED BY <2>3, <2>4
<1>4. longest \in around /\ net[2] <= longest[2][2]
  BY <1>1, <1>3
<1>5. GetLpm(store, version, net) = store.slots[longest]
  BY <1>1 DEF GetLpm
<1>6. Covers(longest[2], net[1], LastOf(net))
  BY <1>4
<1> HIDE DEF around
<1>7. longest[2] \in Nets /\ longest = <<IpTable(version), longest[2]>>
  BY <1>2, <1>4
<1> HIDE DEF longest
<1> DEFINE m == longest[2]
<1>8. m \in Nets /\ net[2] <= m[2] /\ Covers(m, net[1], LastOf(net))
  BY <1>4, <1>6, <1>7
<1> HIDE DEF m
<1>9. m = net
  <2> DEFINE rest == Width - net[2]
             own2 == Width - m[2]
  <2>1. /\ m[2] \in 0..Width /\ net[2] \in 0..Width /\ m[1] \in Nat /\ net[1] \in Nat
        /\ m = <<m[1], m[2]>> /\ net = <<net[1], net[2]>>
    BY <1>8, NetsAre
  <2>2. rest \in 0..Width /\ own2 \in 0..Width /\ own2 <= rest
    BY <1>8, <2>1, WidthAssumption
  <2>3. m[1] <= net[1] /\ net[1] + Pow2[rest] - 1 <= m[1] + Pow2[own2] - 1
    BY <1>8 DEF Covers, LastOf
  <2>4. rest - own2 = m[2] - net[2]
    BY <2>1, WidthAssumption
  <2> HIDE DEF rest, own2
  <2>5. Pow2[rest] \in Nat /\ Pow2[own2] \in Nat
    BY <2>2, Pow2Positive
  <2>6. own2 < rest => Pow2[own2] < Pow2[rest]
    BY <2>2, Pow2Increases
  <2>7. own2 = rest
    <3>1. ~(own2 < rest)
      BY <2>1, <2>3, <2>5, <2>6
    <3> QED BY <2>2, <3>1
  <2>8. m[1] = net[1]
    BY <2>1, <2>3, <2>5, <2>7
  <2>9. m[2] = net[2]
    BY <2>1, <2>2, <2>4, <2>7
  <2> QED BY <2>1, <2>8, <2>9
<1> QED BY <1>5, <1>7, <1>9 DEF m

LEMMA Halves ==
  ASSUME NEW S, NEW s \in Seq(S), NEW t \in Seq(S)
  PROVE  /\ s \o t \in Seq(S) /\ Len(s \o t) = Len(s) + Len(t)
         /\ \A k \in 1..Len(s) : (s \o t)[k] = s[k]
         /\ \A k \in 1..Len(t) : (s \o t)[Len(s) + k] = t[k]
<1> DEFINE both == s \o t
<1>1. /\ both \in Seq(S) /\ Len(both) = Len(s) + Len(t)
      /\ \A k \in 1..(Len(s) + Len(t)) : both[k] = IF k <= Len(s) THEN s[k] ELSE t[k - Len(s)]
  BY ConcatProperties
<1>2. Len(s) \in Nat /\ Len(t) \in Nat
  OBVIOUS
<1> HIDE DEF both
<1>3. \A k \in 1..Len(s) : k \in 1..(Len(s) + Len(t)) /\ k <= Len(s)
  BY <1>2
<1>4. \A k \in 1..Len(t) : /\ Len(s) + k \in 1..(Len(s) + Len(t)) /\ ~(Len(s) + k <= Len(s))
                           /\ (Len(s) + k) - Len(s) = k
  BY <1>2
<1>5. \A k \in 1..Len(s) : both[k] = s[k]
  BY <1>1, <1>3
<1>6. \A k \in 1..Len(t) : both[Len(s) + k] = t[k]
  BY <1>1, <1>4
<1> QED BY <1>1, <1>5, <1>6 DEF both

(* Where a redirect leads begins with the url of the file, also with the   *)
(* path that was asked for behind it.                                      *)
LEMMA RedirectBegins ==
  ASSUME NEW r, IsError(r), r.href \in Text, r.code \in LocationCodes,
         NEW path, NEW T, NEW text \in Seq(T)
  PROVE  /\ SE!IsPrefix(r.href, Location(r))
         /\ SE!IsPrefix(r.href, Location(BootstrapRedirect(r, path, text)))
<1> DEFINE S == STRING \union {path, "/"} \union T
           href == r.href
           between == <<path, "/">>
<1>1. href \in Seq(STRING)
  BY DEF Text
<1> HIDE DEF href
<1>2. href \in Seq(S) /\ between \in Seq(S) /\ text \in Seq(S) /\ Len(href) \in Nat
  BY <1>1
<1>3. SE!IsPrefix(href, href)
  BY <1>2, PrefixTells
<1>4. SE!IsPrefix(href, href \o between \o text)
  <2> HIDE DEF S, between
  <2> DEFINE front == href \o between
  <2>1. /\ front \in Seq(S) /\ Len(front) = Len(href) + Len(between)
        /\ \A k \in 1..Len(href) : front[k] = href[k]
    BY <1>2, Halves
  <2>2. Len(between) \in Nat /\ Len(text) \in Nat /\ text \in Seq(S) /\ front \in Seq(S)
    BY <1>2, <2>1
  <2> HIDE DEF front
  <2>3. /\ front \o text \in Seq(S) /\ Len(front \o text) = Len(front) + Len(text)
        /\ \A k \in 1..Len(front) : (front \o text)[k] = front[k]
    BY ONLY <2>2, Halves
  <2>4. Len(href) <= Len(front) /\ Len(href) <= Len(front \o text)
    BY <1>2, <2>1, <2>2, <2>3
  <2>5. \A k \in 1..Len(href) : k \in 1..Len(front)
    BY <1>2, <2>1, <2>2
  <2>6. \A k \in 1..Len(href) : (front \o text)[k] = href[k]
    BY <2>1, <2>3, <2>5
  <2> QED BY <1>2, <2>3, <2>4, <2>6, PrefixTells DEF front
<1>5. Location(r) = href
  BY DEF Location, Status, href
<1>6. CASE r.href # None
  <2>1. BootstrapRedirect(r, path, text) = ErrorResponse(307, href \o between \o text)
    BY <1>6 DEF BootstrapRedirect, href
  <2>2. \A to : Location(ErrorResponse(307, to)) = to
    BY DEF Location, Status, IsError, ErrorResponse, LocationCodes
  <2> QED BY <1>3, <1>4, <1>5, <2>1, <2>2 DEF href
<1>7. CASE r.href = None
  <2>1. BootstrapRedirect(r, path, text) = r
    BY <1>7 DEF BootstrapRedirect
  <2> QED BY <1>3, <1>5, <2>1 DEF href
<1> QED BY <1>6, <1>7

(* What keeps a redirect from its purpose, if a file has it: a code without*)
(* a location, a name that no query has in this form (it is in upper case, *)
(* or a nameserver right under the root), a range of nothing.              *)
RedirectsMeant(file) ==
  file.kind = "template" /\ IsRedirect(file.obj) =>
    /\ file.obj.code \in LocationCodes /\ file.obj.href \in Text
    /\ \A i \in DOMAIN file.ids :
         LET id == file.ids[i]
         IN /\ id.class = "domain" => Canonical(id.ldh) = id.ldh
            /\ id.class = "nameserver" => ~(Cardinality(Places(".", id.ldh)) < 2)
            /\ id.class = "autnum" => id.start \in NumRange(id)
            /\ id.class = "ip" => NetRange(id) # {}

RedirectsAreMeant ==
  /\ \A d \in FirstDir : \A n \in DOMAIN d : RedirectsMeant(d[n])
  /\ \A args \in MadeArgs : (\E store : ~Refused(store, args)) => RedirectsMeant(MadeFile(args).file)

MeantInv == \A n \in DOMAIN dir : RedirectsMeant(dir[n])

LEMMA FirstNetIn ==
  ASSUME NEW id, NetRange(id) # {}
  PROVE  FirstNet(NetRange(id)) \in NetRange(id) /\ NetRange(id) \subseteq Nets
<1> DEFINE nets == NetRange(id)
           starts == {n[1] : n \in nets}
<1>1. nets \subseteq Nets
  BY DEF NetRange, Subnets
<1> HIDE DEF nets
<1>2. starts \in SUBSET Nat /\ starts # {}
  BY <1>1, NetsAre DEF nets
<1>3. PICK least \in starts : \A s \in starts : least <= s
  BY <1>2, LeastNumber
<1>4. PICK n \in nets : n[1] = least
  OBVIOUS
<1>5. \A m \in nets : n[1] <= m[1]
  BY <1>3, <1>4
<1>6. FirstNet(nets) \in nets
  BY <1>4, <1>5 DEF FirstNet
<1> QED BY <1>1, <1>6 DEF nets

LEMMA RedirectFound ==
  ASSUME ServeInv, CleanDir, NEW n \in DOMAIN dir, RedirectsMeant(dir[n]),
         dir[n].kind = "template", IsRedirect(dir[n].obj), NEW i \in DOMAIN dir[n].ids
  PROVE  SE!IsPrefix(dir[n].obj.href, Location(Due(db, IdQuery(dir[n].ids[i]))[2]))
<1> DEFINE id == dir[n].ids[i]
           obj == dir[n].obj
           q == IdQuery(id)
<1>1. DirOK(dir) /\ LoadSucceeds(dir) /\ FilledFrom(dir, db)
  BY DEF ServeInv, Fresh, CleanDir
<1>2. id.class \in Segments
  <2>1. IsTemplate(dir[n])
    BY <1>1 DEF DirOK, IsFile
  <2> QED BY <2>1, Zenon DEF IsTemplate
<1>3. /\ IsError(obj) /\ obj.code \in LocationCodes /\ obj.href \in Text
      /\ id.class = "domain" => Canonical(id.ldh) = id.ldh
      /\ id.class = "nameserver" => ~(Cardinality(Places(".", id.ldh)) < 2)
      /\ id.class = "autnum" => id.start \in NumRange(id)
      /\ id.class = "ip" => NetRange(id) # {}
  BY DEF RedirectsMeant, IsRedirect
<1>4. ASSUME NEW s \in Slots(id), s[1] # "idns"
      PROVE  s \in DOMAIN db.slots /\ db.slots[s] = obj
  BY <1>1, <1>3, <1>4, ErrorStored
<1>5. ASSUME NEW table, NEW key, <<table, key>> \in Slots(id), table # "idns"
      PROVE  Get(db, table, key) = obj
  BY <1>4, <1>5 DEF Get
<1>6. SE!IsPrefix(obj.href, Location(obj))
  <2>1. None \in Seq(STRING)
    BY DEF None
  <2> HIDE DEF obj
  <2> QED BY <1>3, <2>1, RedirectBegins
<1>7. ASSUME NEW class PROVE Fits(obj, class)
  BY DEF Fits
<1> HIDE DEF id, obj
<1>8. CASE id.class = "domain"
  <2>1. q.kind = "domain" /\ Name(q) = id.ldh
    BY <1>3, <1>8 DEF IdQuery, IdText, Name
  <2>2. <<"domains", id.ldh>> \in Slots(id)
    BY <1>8 DEF Slots
  <2>3. Get(db, "domains", Name(q)) = obj
    BY <1>5, <2>1, <2>2
  <2> HIDE DEF q
  <2>4. Due(db, q) = From(db, "domains", Name(q))
    BY <1>7, <2>1, <2>3, DueDomain
  <2> QED BY <1>6, <2>3, <2>4 DEF From, q, id, obj
<1>9. CASE id.class = "nameserver"
  <2>1. q.kind = "nameserver" /\ Name(q) = id.ldh
    BY <1>9 DEF IdQuery, IdText, Name
  <2>2. <<"nameservers", id.ldh>> \in Slots(id)
    BY <1>9 DEF Slots
  <2>3. Get(db, "nameservers", Name(q)) = obj
    BY <1>5, <2>1, <2>2
  <2>4. ~(Cardinality(Places(".", Name(q))) < 2)
    BY <1>3, <1>9, <2>1
  <2> HIDE DEF q
  <2>5. Due(db, q) = From(db, "nameservers", Name(q))
    BY <1>7, <2>1, <2>3, <2>4, DueNameserver
  <2> QED BY <1>6, <2>3, <2>5 DEF From, q, id, obj
<1>10. CASE id.class = "entity"
  <2>1. q.kind = "entity" /\ Name(q) = id.handle
    BY <1>10 DEF IdQuery, IdText, Name
  <2>2. <<"entities", id.handle>> \in Slots(id)
    BY <1>10 DEF Slots
  <2>3. Get(db, "entities", Name(q)) = obj
    BY <1>5, <2>1, <2>2
  <2> HIDE DEF q
  <2>4. Due(db, q) = From(db, "entities", Name(q))
    BY <1>7, <2>1, <2>3, DueEntity
  <2> QED BY <1>6, <2>3, <2>4 DEF From, q, id, obj
<1>11. ASSUME NEW T, q.text \in Seq(T), q.kind \in {"ip", "autnum"},
              obj = IF q.kind = "ip" THEN GetLpm(db, q.version, q.net) ELSE Get(db, "autnums", q.num)
       PROVE  SE!IsPrefix(obj.href, Location(Due(db, q)[2]))
  <2> HIDE DEF q
  <2>1. Due(db, q)[2] = IF Bootstrap THEN BootstrapRedirect(obj, q.kind, q.text) ELSE obj
    BY <1>11, DueNumbers
  <2>2. SE!IsPrefix(obj.href, Location(BootstrapRedirect(obj, q.kind, q.text)))
    BY <1>3, <1>11, RedirectBegins
  <2> QED BY <1>6, <2>1, <2>2
<1>12. CASE id.class = "autnum"
  <2> DEFINE text == NumText(id.start)
  <2>1. q.kind = "autnum" /\ q.num = id.start /\ q.text = text
    BY <1>12 DEF IdQuery, IdText
  <2>2. <<"autnums", id.start>> \in Slots(id)
    BY <1>3, <1>12 DEF Slots
  <2>3. Get(db, "autnums", q.num) = obj
    BY <1>5, <2>1, <2>2
  <2>4. text \in Seq({ToString(id.start)})
    BY DEF NumText
  <2> HIDE DEF q, text
  <2> QED BY <1>11, <2>1, <2>3, <2>4 DEF q, id, obj
<1>13. CASE id.class = "ip"
  <2> DEFINE net == FirstNet(NetRange(id))
             table == IpTable(id.version)
             text == NetText(id.version, net)
  <2>1. q.kind = "ip" /\ q.version = id.version /\ q.net = net /\ q.text = text
    BY <1>13 DEF IdQuery, IdText
  <2>2. net \in NetRange(id) /\ net \in Nets
    BY <1>3, <1>13, FirstNetIn
  <2>3. table \in {"ip4", "ip6"} /\ table # "idns"
    BY DEF IpTable
  <2>4. <<table, net>> \in Slots(id)
    BY <1>13, <2>2 DEF Slots
  <2>5. <<table, net>> \in DOMAIN db.slots /\ db.slots[<<table, net>>] = obj
    BY <1>4, <2>3, <2>4
  <2>6. \A s \in DOMAIN db.slots : s[1] = table => s = <<s[1], s[2]>> /\ s[2] \in Nets
    BY <1>1, <2>3, NetworkSlots
  <2>7. GetLpm(db, id.version, net) = obj
    BY <2>2, <2>5, <2>6, LongestIsOwn
  <2>8. text \in Seq({table, "/", ToString(net[1]), ToString(net[2])})
    BY DEF NetText
  <2> HIDE DEF q, text
  <2> QED BY <1>11, <2>1, <2>7, <2>8 DEF q, id, obj
<1> QED BY <1>2, <1>8, <1>9, <1>10, <1>12, <1>13 DEF Segments

LEMMA StepsMean ==
  ASSUME RedirectsAreMeant
  PROVE  MeantInv /\ [Next]_vars => MeantInv'
<1> SUFFICES ASSUME MeantInv, [Next]_vars PROVE MeantInv'
  OBVIOUS
<1>1. ASSUME NEW args \in MadeArgs, MakeData(args) PROVE MeantInv'
  <2> DEFINE made == MadeFile(args)
  <2>1. dir' = [n \in DOMAIN dir \union {made.name} |-> IF n = made.name THEN made.file ELSE dir[n]]
    BY <1>1 DEF MakeData
  <2>2. RedirectsMeant(made.file)
    <3>1. \E store : ~Refused(store, args)
      BY <1>1 DEF MakeData
    <3> QED BY <3>1 DEF RedirectsAreMeant
  <2> HIDE DEF made
  <2> QED BY <2>1, <2>2 DEF MeantInv
<1>2. ASSUME NEW name \in DOMAIN dir, RemoveFile(name) PROVE MeantInv'
  BY <1>2 DEF RemoveFile, MeantInv
<1>3. ASSUME dir' = dir PROVE MeantInv'
  BY <1>3 DEF MeantInv
<1> QED BY <1>1, <1>2, <1>3, OtherSteps

(* A redirect that a file has for a name, a handle, a number or a network  *)
(* is what a query for just that gets, and it leads to the file's url, if  *)
(* no two files want the same slot: of all the networks around a network   *)
(* that are stored it is the one of its own that is found (mem/ops.rs).    *)
THEOREM RedirectsAreServed ==
  ASSUME RedirectsAreMeant
  PROVE  Spec => []RedirectsServed
<1>1. Init => MeantInv
  BY DEF Init, MeantInv, RedirectsAreMeant
<1>2. MeantInv /\ [Next]_vars => MeantInv'
  BY StepsMean
<1>3. ServeInv /\ MeantInv => RedirectsServed
  BY RedirectFound DEF RedirectsServed, MeantInv
<1> QED BY <1>1, <1>2, <1>3, Serves, PTL DEF Spec

---------------------------------------------------------------------------
(* The links of the objects                                                *)

(* A link can be taken apart again.                                        *)
LEMMA LinkParts ==
  ASSUME NEW S, NEW base \in Seq(S), NEW class \in S, "/" \in S, NEW text \in Seq(S)
  PROVE  LET link == base \o <<class, "/">> \o text
         IN /\ link \in Seq(S) /\ Len(link) = Len(base) + 2 + Len(text)
            /\ \A k \in 1..Len(base) : link[k] = base[k]
            /\ link[Len(base) + 1] = class /\ link[Len(base) + 2] = "/"
            /\ \A k \in 1..Len(text) : link[Len(base) + 2 + k] = text[k]
            /\ SubSeq(link, 1, Len(base)) = base
            /\ SubSeq(link, Len(base) + 3, Len(link)) = text
<1> DEFINE between == <<class, "/">>
           front == base \o between
           link == front \o text
           b == Len(base)
           t == Len(text)
<1>1. /\ between \in Seq(S) /\ Len(between) = 2 /\ between[1] = class /\ between[2] = "/"
      /\ b \in Nat /\ t \in Nat /\ base \in Seq(S) /\ text \in Seq(S)
  OBVIOUS
<1> HIDE DEF between
<1>2. /\ front \in Seq(S) /\ Len(front) = b + 2
      /\ \A k \in 1..b : front[k] = base[k]
      /\ front[b + 1] = class /\ front[b + 2] = "/"
  <2>1. front \in Seq(S) /\ Len(front) = Len(base) + Len(between)
    BY ONLY <1>1, Halves
  <2>2. \A k \in 1..Len(base) : front[k] = base[k]
    BY ONLY <1>1, Halves
  <2>3. front[Len(base) + 1] = class /\ front[Len(base) + 2] = "/"
    <3>1. \A k \in 1..Len(between) : (base \o between)[Len(base) + k] = between[k]
      <4>1. base \in Seq(S) /\ between \in Seq(S)
        BY <1>1
      <4> HIDE DEF b, t, link, front
      <4> QED BY ONLY <4>1, Halves
    <3>2. front = base \o between
      OBVIOUS
    <3>3. 1 \in 1..Len(between) /\ 2 \in 1..Len(between)
      BY <1>1
    <3> HIDE DEF front
    <3> QED BY <1>1, <3>1, <3>2, <3>3
  <2> HIDE DEF front
  <2> QED BY <1>1, <2>1, <2>2, <2>3
<1> HIDE DEF front
<1>3. /\ link \in Seq(S) /\ Len(link) = Len(front) + Len(text)
      /\ \A k \in 1..Len(front) : link[k] = front[k]
      /\ \A k \in 1..Len(text) : link[Len(front) + k] = text[k]
  <2>1. link \in Seq(S) /\ Len(link) = Len(front) + Len(text)
    BY ONLY <1>1, <1>2, Halves
  <2>2. \A k \in 1..Len(front) : link[k] = front[k]
    BY ONLY <1>1, <1>2, Halves
  <2>3. \A k \in 1..Len(text) : link[Len(front) + k] = text[k]
    BY ONLY <1>1, <1>2, Halves
  <2> QED BY <2>1, <2>2, <2>3
<1> HIDE DEF link, b, t
<1>4. b = Len(base) /\ t = Len(text)
  BY DEF b, t
<1>5. /\ \A k \in 1..b : k \in 1..Len(front)
      /\ b + 1 \in 1..Len(front) /\ b + 2 \in 1..Len(front)
  BY <1>1, <1>2
<1>6. /\ Len(link) = b + 2 + t
      /\ \A k \in 1..b : link[k] = base[k]
      /\ link[b + 1] = class /\ link[b + 2] = "/"
      /\ \A k \in 1..t : link[b + 2 + k] = text[k]
  BY <1>2, <1>3, <1>4, <1>5
<1>7. SubSeq(link, 1, b) = base
  <2> DEFINE part == SubSeq(link, 1, b)
  <2>1. \A k \in 1..b : link[k] \in S
    BY <1>1, <1>3, <1>6
  <2>2. /\ part \in Seq(S) /\ Len(part) = IF 1 <= b THEN b - 1 + 1 ELSE 0
        /\ \A k \in 1..(b - 1 + 1) : part[k] = link[1 + k - 1]
    BY <1>1, <2>1, SubSeqProperties
  <2>3. Len(part) = b /\ \A k \in 1..b : part[k] = link[k]
    <3> HIDE DEF part
    <3>1. b - 1 + 1 = b /\ \A k \in 1..b : 1 + k - 1 = k
      BY <1>1
    <3> QED BY <1>1, <2>2, <3>1
  <2> HIDE DEF part
  <2>4. part = base
    BY <1>4, <1>6, <2>2, <2>3, SeqEqual
  <2> QED BY <2>4 DEF part
<1>8. SubSeq(link, b + 3, Len(link)) = text
  <2> DEFINE from == b + 3
             to == Len(link)
             part == SubSeq(link, from, to)
  <2>1. from \in Int /\ to \in Int /\ to - from + 1 = t
    BY <1>1, <1>6
  <2>2. \A k \in 1..t : from + k - 1 = b + 2 + k
    BY <1>1
  <2>3. \A k \in from..to : link[k] \in S
    <3> TAKE k \in from..to
    <3>1. k \in 1..Len(link)
      BY <1>1
    <3> QED BY <1>3, <3>1
  <2> HIDE DEF from, to
  <2>4. /\ part \in Seq(S) /\ Len(part) = IF from <= to THEN to - from + 1 ELSE 0
        /\ \A k \in 1..(to - from + 1) : part[k] = link[from + k - 1]
    BY <2>1, <2>3, SubSeqProperties
  <2> HIDE DEF part
  <2>5. Len(part) = t
    BY <1>1, <2>1, <2>4
  <2>6. \A k \in 1..t : part[k] = text[k]
    BY <1>6, <2>1, <2>2, <2>4
  <2>7. part = text
    BY <1>4, <2>4, <2>5, <2>6, SeqEqual
  <2> QED BY <2>7 DEF part, from, to
<1> QED BY <1>3, <1>4, <1>6, <1>7, <1>8 DEF link, front, between

(* A link: its base, the name of a class and a text behind it.             *)
LinkWith(base, class, text) == base \o <<class, "/">> \o text

(* rsplit_once puts another text behind the segment, if the segment is not *)
(* in the text that was there as well.                                     *)
LEMMA Relinked ==
  ASSUME NEW S, NEW base \in Seq(S), NEW class \in S, "/" \in S, class # "/", NEW text \in Seq(S),
         \A k \in DOMAIN text : text[k] # class, NEW other
  PROVE  ChangeSelfLink(LinkWith(base, class, text), class, other) = LinkWith(base, class, other)
<1> DEFINE link == base \o <<class, "/">> \o text
           at == Places(class, link)
           b == Len(base)
<1>1. /\ link \in Seq(S) /\ Len(link) = b + 2 + Len(text)
      /\ link[b + 1] = class /\ link[b + 2] = "/"
      /\ \A k \in 1..Len(text) : link[b + 2 + k] = text[k]
      /\ SubSeq(link, 1, b) = base
  BY LinkParts
<1>2. b \in Nat /\ Len(text) \in Nat /\ DOMAIN text = 1..Len(text)
  OBVIOUS
<1> HIDE DEF link, b
<1>3. DOMAIN link = 1..Len(link)
  BY <1>1
<1>4. b + 1 \in at
  BY <1>1, <1>2, <1>3 DEF Places
<1>5. ASSUME NEW k \in at PROVE k <= b + 1
  <2>1. k \in 1..(b + 2 + Len(text)) /\ link[k] = class
    BY <1>1, <1>3 DEF Places
  <2>2. k # b + 2
    BY <1>1, <2>1
  <2>3. ASSUME k > b + 2 PROVE FALSE
    <3>1. k - (b + 2) \in 1..Len(text) /\ b + 2 + (k - (b + 2)) = k
      BY <1>2, <2>1, <2>3
    <3>2. link[k] = text[k - (b + 2)]
      BY <1>1, <3>1
    <3> QED BY <1>2, <2>1, <3>1, <3>2
  <2> QED BY <1>2, <2>1, <2>2, <2>3
<1>6. at \subseteq Int
  BY <1>1, <1>3, <1>2 DEF Places
<1> DEFINE last == CHOOSE i \in at : \A j \in at : j <= i
<1>7. last = b + 1
  <2>1. last \in at /\ b + 1 <= last
    BY <1>4, <1>5
  <2> QED BY <1>2, <1>5, <1>6, <2>1
<1>8. Before(last, link) = base
  <2>1. (b + 1) - 1 = b
    BY <1>2
  <2> QED BY <1>1, <1>7, <2>1 DEF Before
<1>9. ChangeSelfLink(link, class, other) = Before(last, link) \o <<class, "/">> \o other
  BY <1>4 DEF ChangeSelfLink
<1> QED BY <1>8, <1>9 DEF link, LinkWith

(* A key that is looked up as it is filed: a name as the handlers make it  *)
(* of a query, a range that is one.                                        *)
KeyMeant(id) ==
  /\ id.class = "domain" => id.ldh \in Text /\ Canonical(id.ldh) = id.ldh
  /\ id.class = "nameserver" => id.ldh \in Text /\ ~(Cardinality(Places(".", id.ldh)) < 2)
  /\ id.class = "entity" => id.handle \in Text
  /\ id.class = "autnum" => id.start \in NumRange(id) /\ id.start \in 0..MaxNum
  /\ id.class = "ip" => id.version \in {4, 6} /\ NetRange(id) # {}

(* A key in whose text the name of its class is not found by rsplit_once.  *)
Alone(id) == \A k \in DOMAIN IdText(id) : IdText(id)[k] # id.class

(* A link of an object, if there is one, is its own, and is one that a     *)
(* template can change.                                                    *)
LinksMeant(file) ==
  /\ file.kind \in {"json", "template"} /\ file.obj.class \in Segments =>
       /\ "self" \in DOMAIN file.obj
       /\ file.obj.self # None => file.obj.self = SelfHref(file.obj) /\ KeyMeant(file.obj)
  /\ file.kind = "template" /\ file.obj.class \in Segments /\ file.obj.self # None =>
       Alone(file.obj) /\ \A i \in DOMAIN file.ids : KeyMeant(file.ids[i])

LinksAreMeant ==
  /\ \A d \in FirstDir : \A n \in DOMAIN d : LinksMeant(d[n])
  /\ \A args \in MadeArgs :
       (\E store : ~Refused(store, args)) /\ args.id.class \in Segments =>
         KeyMeant(MadeId(args.id)) /\ (args.as = "template" => Alone(MadeId(args.id)))

(* Two that are filed under the same key, but for a U-label.               *)
SameKey(v, w) ==
  v.class = w.class /\ \A f \in KeyFields[w.class] \ {"unicode"} : v[f] = w[f]

LEMMA SameKeyTells ==
  ASSUME NEW v, NEW w, w.class \in Segments, SameKey(v, w)
  PROVE  /\ IdText(v) = IdText(w) /\ SelfHref(v) = SelfHref(w)
         /\ KeyMeant(w) => KeyMeant(v)
         /\ Alone(w) => Alone(v)
<1>1. v.class = w.class
  BY DEF SameKey
<1>2. /\ w.class \in {"domain", "nameserver"} => v.ldh = w.ldh
      /\ w.class = "entity" => v.handle = w.handle
      /\ w.class = "autnum" => v.start = w.start /\ v.end = w.end
      /\ w.class = "ip" => v.version = w.version /\ v.start = w.start /\ v.end = w.end
  BY DEF SameKey, KeyFields
<1>3. w.class = "ip" => NetRange(v) = NetRange(w)
  BY <1>2 DEF NetRange
<1>4. w.class = "autnum" => NumRange(v) = NumRange(w)
  BY <1>2 DEF NumRange
<1>5. IdText(v) = IdText(w)
  <2>1. CASE w.class \in {"domain", "nameserver"}
    BY <1>1, <1>2, <2>1 DEF IdText
  <2>2. CASE w.class = "entity"
    BY <1>1, <1>2, <2>2 DEF IdText
  <2>3. CASE w.class = "autnum"
    BY <1>1, <1>2, <2>3 DEF IdText
  <2>4. CASE w.class = "ip"
    BY <1>1, <1>2, <1>3, <2>4 DEF IdText
  <2> QED BY <2>1, <2>2, <2>3, <2>4 DEF Segments
<1>6. SelfHref(v) = SelfHref(w)
  BY <1>1, <1>5 DEF SelfHref
<1>7. KeyMeant(w) => KeyMeant(v)
  BY <1>1, <1>2, <1>3, <1>4 DEF KeyMeant
<1>8. Alone(w) => Alone(v)
  BY <1>1, <1>5 DEF Alone
<1> QED BY <1>5, <1>6, <1>7, <1>8

LEMMA KeyTexts ==
  ASSUME NEW id, id.class \in Segments, KeyMeant(id)
  PROVE  \E T : IdText(id) \in Seq(T)
<1>1. CASE id.class \in {"domain", "nameserver"}
  <2>1. IdText(id) = id.ldh /\ id.ldh \in Seq(STRING)
    BY <1>1 DEF IdText, KeyMeant, Text
  <2> QED BY <2>1
<1>2. CASE id.class = "entity"
  <2>1. IdText(id) = id.handle /\ id.handle \in Seq(STRING)
    BY <1>2 DEF IdText, KeyMeant, Text
  <2> QED BY <2>1
<1>3. CASE id.class = "autnum"
  <2>1. IdText(id) = <<ToString(id.start)>>
    BY <1>3 DEF IdText, NumText
  <2>2. <<ToString(id.start)>> \in Seq({ToString(id.start)})
    OBVIOUS
  <2> QED BY <2>1, <2>2
<1>4. CASE id.class = "ip"
  <2> DEFINE net == FirstNet(NetRange(id))
             table == IpTable(id.version)
             T == {table, "/", ToString(net[1]), ToString(net[2])}
  <2>1. IdText(id) = <<table, "/", ToString(net[1]), "/", ToString(net[2])>>
    BY <1>4 DEF IdText, NetText
  <2> HIDE DEF net, table
  <2>2. <<table, "/", ToString(net[1]), "/", ToString(net[2])>> \in Seq(T)
    OBVIOUS
  <2> QED BY <2>1, <2>2
<1> QED BY <1>1, <1>2, <1>3, <1>4 DEF Segments

(* What is behind the name of the class in a link is its object's text.    *)
LEMMA LinkTells ==
  ASSUME NEW v, v.class \in Segments, KeyMeant(v)
  PROVE  LET link == SelfHref(v)
         IN /\ link[Len(BaseUrl) + 1] = v.class
            /\ SubSeq(link, Len(BaseUrl) + 3, Len(link)) = IdText(v)
            /\ Alone(v) => \A other : ChangeSelfLink(link, v.class, other) =
                                        BaseUrl \o <<v.class, "/">> \o other
<1> DEFINE text == IdText(v)
           class == v.class
<1>1. PICK T : text \in Seq(T)
  BY KeyTexts
<1> DEFINE S == STRING \union {class, "/"} \union T
<1>2. SelfHref(v) = BaseUrl \o <<class, "/">> \o text
  BY DEF SelfHref
<1>3. class # "/"
  BY DEF Segments
<1>4. Alone(v) <=> \A k \in DOMAIN text : text[k] # class
  BY DEF Alone
<1> HIDE DEF text, class
<1>5. BaseUrl \in Seq(S) /\ text \in Seq(S) /\ class \in S /\ "/" \in S
  BY <1>1, BaseUrlAssumption
<1> HIDE DEF S
<1> DEFINE link == BaseUrl \o <<class, "/">> \o text
<1>6. link[Len(BaseUrl) + 1] = class /\ SubSeq(link, Len(BaseUrl) + 3, Len(link)) = text
  BY <1>5, LinkParts
<1>7. ASSUME Alone(v), NEW other
      PROVE  ChangeSelfLink(link, class, other) = BaseUrl \o <<class, "/">> \o other
  <2>1. \A k \in DOMAIN text : text[k] # class
    BY <1>4, <1>7
  <2>2. BaseUrl \in Seq(S) /\ text \in Seq(S) /\ class \in S /\ "/" \in S /\ class # "/"
    BY <1>3, <1>5
  <2> HIDE DEF link
  <2>3. ChangeSelfLink(LinkWith(BaseUrl, class, text), class, other) = LinkWith(BaseUrl, class, other)
    BY ONLY <2>1, <2>2, Relinked
  <2> QED BY <2>3 DEF link, LinkWith
<1> QED BY <1>2, <1>6, <1>7 DEF text, class

LEMMA TemplateLinks ==
  ASSUME NEW obj, NEW id, HasKey(obj), obj.class \in Segments, id.class = obj.class,
         "self" \in DOMAIN obj
  PROVE  /\ SameKey(FromTemplate(obj, id), id)
         /\ FromTemplate(obj, id).self = ChangeSelfLink(obj.self, obj.class, IdText(id))
<1> DEFINE made == FromTemplate(obj, id)
<1>1. "class" \in DOMAIN obj
  BY DEF HasKey
<1>2. CASE obj.class = "domain"
  <2>1. "ldh" \in DOMAIN obj /\ "unicode" \in DOMAIN obj
    BY <1>2 DEF HasKey, KeyFields
  <2>2. /\ made.class = "domain" /\ made.ldh = id.ldh
        /\ made.self = ChangeSelfLink(obj.self, obj.class, id.ldh)
    BY <1>1, <1>2, <2>1 DEF FromTemplate
  <2> HIDE DEF made
  <2>3. SameKey(made, id) /\ IdText(id) = id.ldh
    BY <1>2, <2>2 DEF SameKey, KeyFields, IdText
  <2> QED BY <2>2, <2>3 DEF made
<1>3. CASE obj.class = "nameserver"
  <2>1. "ldh" \in DOMAIN obj
    BY <1>3 DEF HasKey, KeyFields
  <2>2. /\ made.class = "nameserver" /\ made.ldh = id.ldh
        /\ made.self = ChangeSelfLink(obj.self, obj.class, id.ldh)
    BY <1>1, <1>3, <2>1 DEF FromTemplate
  <2> HIDE DEF made
  <2>3. SameKey(made, id) /\ IdText(id) = id.ldh
    BY <1>3, <2>2 DEF SameKey, KeyFields, IdText
  <2> QED BY <2>2, <2>3 DEF made
<1>4. CASE obj.class = "entity"
  <2>1. "handle" \in DOMAIN obj
    BY <1>4 DEF HasKey, KeyFields
  <2>2. /\ made.class = "entity" /\ made.handle = id.handle
        /\ made.self = ChangeSelfLink(obj.self, obj.class, id.handle)
    BY <1>1, <1>4, <2>1 DEF FromTemplate
  <2> HIDE DEF made
  <2>3. SameKey(made, id) /\ IdText(id) = id.handle
    BY <1>4, <2>2 DEF SameKey, KeyFields, IdText
  <2> QED BY <2>2, <2>3 DEF made
<1>5. CASE obj.class = "autnum"
  <2>1. "start" \in DOMAIN obj /\ "end" \in DOMAIN obj
    BY <1>5 DEF HasKey, KeyFields
  <2>2. /\ made.class = "autnum" /\ made.start = id.start /\ made.end = id.end
        /\ made.self = ChangeSelfLink(obj.self, obj.class, NumText(id.start))
    BY <1>1, <1>5, <2>1 DEF FromTemplate
  <2> HIDE DEF made
  <2>3. SameKey(made, id) /\ IdText(id) = NumText(id.start)
    BY <1>5, <2>2 DEF SameKey, KeyFields, IdText
  <2> QED BY <2>2, <2>3 DEF made
<1>6. CASE obj.class = "ip"
  <2>1. "version" \in DOMAIN obj /\ "start" \in DOMAIN obj /\ "end" \in DOMAIN obj
    BY <1>6 DEF HasKey, KeyFields
  <2> DEFINE text == NetText(id.version, FirstNet(NetRange(id)))
  <2>2. /\ made.class = "ip" /\ made.version = id.version
        /\ made.start = id.start /\ made.end = id.end
        /\ made.self = ChangeSelfLink(obj.self, obj.class, text)
    BY <1>1, <1>6, <2>1 DEF FromTemplate
  <2> HIDE DEF made
  <2>3. SameKey(made, id) /\ IdText(id) = text
    BY <1>6, <2>2 DEF SameKey, KeyFields, IdText
  <2> QED BY <2>2, <2>3 DEF made
<1> QED BY <1>2, <1>3, <1>4, <1>5, <1>6 DEF Segments

(* What rdap-srv-data writes has the link of its object.                   *)
LEMMA MadeLinks ==
  ASSUME LinksAreMeant, NEW args \in MadeArgs, NEW store, ~Refused(store, args)
  PROVE  LinksMeant(MadeFile(args).file)
<1> DEFINE class == args.id.class
           id == MadeId(args.id)
           obj == MadeObject(id)
           file == MadeFile(args).file
<1>1. id.class = class /\ HasKey(id)
  BY MadeIdUsable
<1>2. class \in Classes /\ args.as \in {"json", "template", "redirect"}
  BY ArgsAssumption DEF IsArgs
<1>3. CASE class = "help"
  <2>1. args.as = "json"
    BY <1>2, <1>3 DEF Refused
  <2>2. file.kind = "help"
    BY <1>3, <2>1 DEF MadeFile
  <2> QED BY <2>2 DEF LinksMeant
<1>4. CASE class # "help"
  <2>1. class \in Segments
    BY <1>2, <1>4 DEF Classes
  <2>2. KeyMeant(id) /\ (args.as = "template" => Alone(id))
    BY <2>1 DEF LinksAreMeant
  <2> HIDE DEF id
  <2>3. /\ DOMAIN obj = DOMAIN id \union {"self"} /\ obj.self = SelfHref(id)
        /\ \A f \in DOMAIN id : f # "self" => obj[f] = id[f]
    BY DEF MadeObject
  <2> HIDE DEF obj
  <2>4. SameKey(obj, id)
    <3>1. "class" \in DOMAIN id
      BY <1>1 DEF HasKey
    <3>2. KeyFields[class] \subseteq DOMAIN id /\ "self" \notin KeyFields[class]
      BY <1>1, <2>1 DEF HasKey, KeyFields, Segments
    <3> QED BY <1>1, <2>3, <3>1, <3>2 DEF SameKey
  <2>5. obj.class = class /\ obj.self = SelfHref(obj) /\ KeyMeant(obj) /\ (Alone(id) => Alone(obj))
    <3>1. obj.class = class
      BY <1>1, <2>4 DEF SameKey
    <3> QED BY <1>1, <2>1, <2>2, <2>3, <2>4, <3>1, SameKeyTells
  <2>6. CASE args.as = "json"
    <3>1. file = [kind |-> "json", obj |-> obj]
      BY <1>4, <2>6 DEF MadeFile, obj, id
    <3> HIDE DEF file
    <3>2. file.kind = "json" /\ file.obj = obj
      BY <3>1
    <3> QED BY <2>3, <2>5, <3>2 DEF LinksMeant, file
  <2>7. CASE args.as = "template"
    <3>1. file = [kind |-> "template", obj |-> obj, ids |-> <<id>>]
      BY <1>4, <2>7 DEF MadeFile, obj, id
    <3> HIDE DEF file
    <3>2. file.obj = obj /\ DOMAIN file.ids = {1} /\ file.ids[1] = id
      BY <3>1
    <3> QED BY <2>2, <2>3, <2>5, <2>7, <3>2 DEF LinksMeant, file
  <2>8. CASE args.as = "redirect"
    <3>1. file = RedirectFile(id, args.url)
      BY <1>4, <2>8 DEF MadeFile, id
    <3> HIDE DEF file
    <3>2. file.obj.class = "error"
      BY <3>1 DEF RedirectFile, ErrorResponse
    <3> QED BY <3>2 DEF LinksMeant, Segments, file
  <2> QED BY <1>2, <2>6, <2>7, <2>8
<1> QED BY <1>3, <1>4

(* An object that a file adds has its own link, or none.                   *)
LEMMA AddedLinks ==
  ASSUME NEW file, IsFile(file), LinksMeant(file), NEW i \in DOMAIN Additions(file),
         Additions(file)[i].ok, Additions(file)[i].obj.class \in Segments,
         Additions(file)[i].obj.self # None
  PROVE  LET v == Additions(file)[i].obj IN v.self = SelfHref(v) /\ KeyMeant(v)
<1> DEFINE v == Additions(file)[i].obj
<1>1. ~Failure.ok /\ DOMAIN <<Failure>> = 1..1 /\ \A j \in 1..1 : <<Failure>>[j] = Failure
  BY DEF Failure, Addition
<1>2. CASE file.kind = "json"
  <2>1. CASE file.obj.class \in Segments /\ ~Unusable(file.obj)
    <3> DEFINE a == Addition(file.obj, file.obj, TRUE)
    <3>1. Additions(file) = <<a>>
      BY <1>2, <2>1 DEF Additions
    <3>2. a.obj = file.obj
      BY DEF Addition
    <3> HIDE DEF a
    <3>3. v = file.obj
      BY <3>1, <3>2
    <3> QED BY <1>2, <2>1, <3>3 DEF LinksMeant
  <2>2. CASE ~(file.obj.class \in Segments /\ ~Unusable(file.obj))
    <3>1. Additions(file) = <<Failure>>
      BY <1>2, <2>2 DEF Additions
    <3> QED BY <1>1, <3>1
  <2> QED BY <2>1, <2>2
<1>3. CASE file.kind = "help"
  <2>1. CASE file.obj.class = "help"
    <3> DEFINE help == [file.obj EXCEPT !.host = HelpHost(file.host)]
               a == Addition(help, help, TRUE)
    <3>1. Additions(file) = <<a>>
      BY <1>3, <2>1 DEF Additions
    <3>2. help.class = "help" /\ a.obj = help
      BY <1>3, <2>1 DEF IsFile, HasKey, Addition
    <3> HIDE DEF help, a
    <3>3. v.class = "help"
      BY <3>1, <3>2
    <3> QED BY <3>3 DEF Segments
  <2>2. CASE file.obj.class # "help"
    <3>1. Additions(file) = <<Failure>>
      BY <1>3, <2>2 DEF Additions
    <3> QED BY <1>1, <3>1
  <2> QED BY <2>1, <2>2
<1>4. CASE file.kind = "template"
  <2> DEFINE id == file.ids[i]
             obj == file.obj
  <2>1. Additions(file) =
          [j \in DOMAIN file.ids |->
            IF TemplateFails(file.obj, file.ids[j]) THEN Failure
            ELSE IF IsError(file.obj) THEN Addition(file.obj, file.ids[j], TRUE)
            ELSE Addition(FromTemplate(file.obj, file.ids[j]), file.ids[j], TRUE)]
    BY <1>4 DEF Additions
  <2>2. i \in DOMAIN file.ids
    BY <2>1
  <2>3. /\ HasKey(obj) /\ obj.class \in Segments \union {"error"}
        /\ obj.class # "error" => id.class = obj.class
    <3>1. IsTemplate(file)
      BY <1>4 DEF IsFile
    <3> QED BY <2>2, <3>1, Zenon DEF IsTemplate
  <2>4. ~TemplateFails(obj, id)
    BY <1>1, <2>1, <2>2
  <2>5. CASE IsError(obj)
    <3>1. Additions(file)[i] = Addition(obj, id, TRUE)
      BY <2>1, <2>2, <2>4, <2>5
    <3>2. v = obj /\ obj.class = "error"
      BY <2>5, <3>1 DEF Addition, IsError
    <3> QED BY <3>2 DEF Segments
  <2>6. CASE ~IsError(obj)
    <3>1. Additions(file)[i] = Addition(FromTemplate(obj, id), id, TRUE)
      BY <2>1, <2>2, <2>4, <2>6
    <3>2. v = FromTemplate(obj, id)
      BY <3>1 DEF Addition
    <3>3. obj.class \in Segments /\ id.class = obj.class
      BY <2>3, <2>6 DEF IsError
    <3>4. /\ "self" \in DOMAIN obj
          /\ obj.self # None => /\ obj.self = SelfHref(obj) /\ KeyMeant(obj) /\ Alone(obj)
                                /\ KeyMeant(id)
      BY <1>4, <2>2, <3>3 DEF LinksMeant
    <3>5. SameKey(v, id) /\ v.self = ChangeSelfLink(obj.self, obj.class, IdText(id))
      BY <2>3, <3>2, <3>3, <3>4, TemplateLinks
    <3> HIDE DEF v, obj, id
    <3>6. obj.self # None
      <4>1. ASSUME obj.self = None PROVE v.self = None
        <5>1. Places(obj.class, None) = {}
          BY DEF Places, None
        <5> QED BY <3>5, <4>1, <5>1 DEF ChangeSelfLink
      <4> QED BY <4>1 DEF v
    <3>7. v.self = BaseUrl \o <<id.class, "/">> \o IdText(id)
      <4>1. ChangeSelfLink(SelfHref(obj), obj.class, IdText(id)) =
              BaseUrl \o <<obj.class, "/">> \o IdText(id)
        BY <3>3, <3>4, <3>6, LinkTells
      <4> QED BY <3>3, <3>4, <3>5, <3>6, <4>1
    <3>8. v.self = SelfHref(v) /\ KeyMeant(v)
      <4>1. SelfHref(v) = SelfHref(id) /\ KeyMeant(v)
        BY <3>3, <3>4, <3>5, <3>6, SameKeyTells
      <4> QED BY <3>7, <4>1 DEF SelfHref
    <3> QED BY <3>8 DEF v
  <2> QED BY <2>5, <2>6
<1>5. CASE file.kind = "unreadable"
  <2>1. Additions(file) = <<Failure>>
    BY <1>5 DEF Additions
  <2> QED BY <1>1, <2>1
<1>6. CASE file.kind = "other"
  <2>1. Additions(file) = <<>>
    BY <1>6 DEF Additions
  <2> QED BY <2>1
<1> QED BY <1>2, <1>3, <1>4, <1>5, <1>6 DEF IsFile

LinksInv == \A n \in DOMAIN dir : LinksMeant(dir[n])

LEMMA LinkLeads ==
  ASSUME ServeInv, LinksInv, CleanDir, NEW s \in DOMAIN db.slots,
         db.slots[s].class \in Segments, db.slots[s].self # None
  PROVE  Due(db, LinkQuery(db.slots[s]))[2] = db.slots[s]
<1> DEFINE v == db.slots[s]
           q == LinkQuery(v)
           class == v.class
           text == IdText(v)
<1>1. DirOK(dir) /\ LoadSucceeds(dir) /\ FilledFrom(dir, db)
  BY DEF ServeInv, Fresh, CleanDir
<1>2. PICK n \in DOMAIN dir : \E i \in DOMAIN Additions(dir[n]) : v = Adding(dir, n, i).obj
  BY <1>1 DEF FilledFrom
<1>3. PICK i \in DOMAIN Additions(dir[n]) : v = Adding(dir, n, i).obj
  BY <1>2
<1>4. v.self = SelfHref(v) /\ KeyMeant(v)
  <2>1. IsFile(dir[n]) /\ LinksMeant(dir[n]) /\ Additions(dir[n])[i].ok
    BY <1>1 DEF DirOK, LoadSucceeds, LinksInv
  <2> QED BY <1>3, <2>1, AddedLinks DEF Adding
<1>5. ASSUME NEW slot \in Slots(v), slot[1] # "idns"
      PROVE  slot \in DOMAIN db.slots /\ db.slots[slot] = v
  <2>1. slot \in Puts(Adding(dir, n, i))
    BY <1>3, <1>5 DEF Puts, IsError, Segments
  <2> QED BY <1>1, <1>3, <1>5, <2>1, AdditionStored
<1>6. class \in Segments
  OBVIOUS
<1> HIDE DEF v
<1>7. v.self[Len(BaseUrl) + 1] = class /\ SubSeq(v.self, Len(BaseUrl) + 3, Len(v.self)) = text
  BY <1>4, <1>6, LinkTells
<1>8. /\ q.kind = class /\ q.text = text
      /\ class = "autnum" => q.num = CHOOSE m \in 0..MaxNum : NumText(m) = text
      /\ class = "ip" => /\ q.version = v.version
                         /\ q.net = CHOOSE m \in Nets : NetText(v.version, m) = text
  BY <1>7 DEF LinkQuery
<1> HIDE DEF q
<1>9. ASSUME NEW table, NEW key, <<table, key>> \in Slots(v), table # "idns"
      PROVE  Get(db, table, key) = v
  BY <1>5, <1>9 DEF Get
<1>10. Fits(v, class) /\ ~IsError(v)
  BY <1>6 DEF Fits, IsError, Segments
<1>11. CASE class = "domain"
  <2>1. text = v.ldh /\ Canonical(v.ldh) = v.ldh /\ <<"domains", v.ldh>> \in Slots(v)
    BY <1>4, <1>11 DEF IdText, KeyMeant, Slots
  <2>2. Name(q) = v.ldh
    BY <1>8, <1>11, <2>1 DEF Name
  <2>3. Get(db, "domains", Name(q)) = v
    BY <1>9, <2>1, <2>2
  <2>4. Due(db, q) = From(db, "domains", Name(q))
    BY <1>8, <1>10, <1>11, <2>3, DueDomain
  <2> QED BY <2>3, <2>4 DEF From, q, v
<1>12. CASE class = "nameserver"
  <2>1. /\ text = v.ldh /\ ~(Cardinality(Places(".", v.ldh)) < 2)
        /\ <<"nameservers", v.ldh>> \in Slots(v)
    BY <1>4, <1>12 DEF IdText, KeyMeant, Slots
  <2>2. Name(q) = v.ldh
    BY <1>8, <1>12, <2>1 DEF Name
  <2>3. Get(db, "nameservers", Name(q)) = v
    BY <1>9, <2>1, <2>2
  <2>4. Due(db, q) = From(db, "nameservers", Name(q))
    BY <1>8, <1>10, <1>12, <2>1, <2>2, <2>3, DueNameserver
  <2> QED BY <2>3, <2>4 DEF From, q, v
<1>13. CASE class = "entity"
  <2>1. text = v.handle /\ <<"entities", v.handle>> \in Slots(v)
    BY <1>13 DEF IdText, Slots
  <2>2. Name(q) = v.handle
    BY <1>8, <1>13, <2>1 DEF Name
  <2>3. Get(db, "entities", Name(q)) = v
    BY <1>9, <2>1, <2>2
  <2>4. Due(db, q) = From(db, "entities", Name(q))
    BY <1>8, <1>10, <1>13, <2>3, DueEntity
  <2> QED BY <2>3, <2>4 DEF From, q, v
<1>14. CASE class = "autnum"
  <2>1. /\ text = NumText(v.start) /\ v.start \in 0..MaxNum
        /\ <<"autnums", v.start>> \in Slots(v)
    BY <1>4, <1>14 DEF IdText, KeyMeant, Slots
  <2>2. q.num = v.start
    BY <1>8, <1>14, <2>1, TextsAssumption
  <2>3. Get(db, "autnums", q.num) = v
    BY <1>9, <2>1, <2>2
  <2>4. Due(db, q)[2] = IF Bootstrap THEN BootstrapRedirect(v, q.kind, q.text) ELSE v
    BY <1>8, <1>14, <2>3, DueNumbers
  <2> QED BY <1>10, <2>4 DEF BootstrapRedirect, q, v
<1>15. CASE class = "ip"
  <2> DEFINE net == FirstNet(NetRange(v))
             table == IpTable(v.version)
  <2>1. text = NetText(v.version, net) /\ v.version \in {4, 6} /\ NetRange(v) # {}
    BY <1>4, <1>15 DEF IdText, KeyMeant
  <2>2. net \in NetRange(v) /\ net \in Nets
    BY <2>1, FirstNetIn
  <2>3. <<table, net>> \in Slots(v)
    BY <1>15, <2>2 DEF Slots
  <2>4. table \in {"ip4", "ip6"} /\ table # "idns"
    BY DEF IpTable
  <2> HIDE DEF net
  <2>5. q.version = v.version /\ q.net = net
    BY <1>8, <1>15, <2>1, <2>2, TextsAssumption
  <2>6. <<table, net>> \in DOMAIN db.slots /\ db.slots[<<table, net>>] = v
    BY <1>5, <2>3, <2>4
  <2>7. \A t \in DOMAIN db.slots : t[1] = table => t = <<t[1], t[2]>> /\ t[2] \in Nets
    BY <1>1, <2>4, NetworkSlots
  <2>8. GetLpm(db, v.version, net) = v
    BY <2>2, <2>6, <2>7, LongestIsOwn
  <2>9. Due(db, q)[2] = IF Bootstrap THEN BootstrapRedirect(v, q.kind, q.text) ELSE v
    BY <1>8, <1>15, <2>5, <2>8, DueNumbers
  <2> QED BY <1>10, <2>9 DEF BootstrapRedirect, q, v
<1> QED BY <1>6, <1>11, <1>12, <1>13, <1>14, <1>15 DEF Segments

LEMMA StepsLink ==
  ASSUME LinksAreMeant
  PROVE  LinksInv /\ [Next]_vars => LinksInv'
<1> SUFFICES ASSUME LinksInv, [Next]_vars PROVE LinksInv'
  OBVIOUS
<1>1. ASSUME NEW args \in MadeArgs, MakeData(args) PROVE LinksInv'
  <2> DEFINE made == MadeFile(args)
  <2>1. dir' = [n \in DOMAIN dir \union {made.name} |-> IF n = made.name THEN made.file ELSE dir[n]]
    BY <1>1 DEF MakeData
  <2>2. LinksMeant(made.file)
    <3>1. PICK files \in Listings(dir) : ~Refused(Loaded(Empty, files), args)
      BY <1>1 DEF MakeData
    <3> QED BY <3>1, MadeLinks
  <2> HIDE DEF made
  <2> QED BY <2>1, <2>2 DEF LinksInv
<1>2. ASSUME NEW name \in DOMAIN dir, RemoveFile(name) PROVE LinksInv'
  BY <1>2 DEF RemoveFile, LinksInv
<1>3. ASSUME dir' = dir PROVE LinksInv'
  BY <1>3 DEF LinksInv
<1> QED BY <1>1, <1>2, <1>3, OtherSteps

(* The self link of an object that the server or rdap-srv-data made leads  *)
(* back to the object, also for one that was made by a template of another:*)
(* change_self_link and the handlers agree about the text of each key.     *)
THEOREM SelfLinksLeadBack ==
  ASSUME LinksAreMeant
  PROVE  Spec => []SelfLinksLead
<1>1. Init => LinksInv
  BY DEF Init, LinksInv, LinksAreMeant
<1>2. LinksInv /\ [Next]_vars => LinksInv'
  BY StepsLink
<1>3. ServeInv /\ LinksInv => SelfLinksLead
  BY LinkLeads DEF SelfLinksLead
<1> QED BY <1>1, <1>2, <1>3, Serves, PTL DEF Spec

=============================================================================
