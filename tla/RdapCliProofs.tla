--------------------------- MODULE RdapCliProofs ---------------------------
(***************************************************************************)
(* What holds of any number of invocations of `rdap` that share the caches *)
(* of a user, whatever they ask for, whatever registries and servers       *)
(* answer, and wherever they are killed.                                   *)
(*                                                                         *)
(* The invariant has three parts:                                          *)
(*   Values   what the variables hold; a response in the cache fits the    *)
(*            URL it is filed under;                                       *)
(*   Course   what an invocation has, and has shown, at each of its steps; *)
(*            it speaks of one invocation at a time;                       *)
(*   Sound    as long as nobody disturbed the caches: one invocation at a  *)
(*            time, and no file is torn but the one it is writing.         *)
(***************************************************************************)
EXTENDS RdapCli, SequenceTheorems, TLAPS

Looking == {"has", "fetch", "put", "putting", "get"}
Requesting == {"read", "send"}
Holding == {"save", "saving", "save_self", "saving_self", "got"}
Pcs == {"idle", "removing", "init", "done"} \union Looking \union Requesting \union Holding
Exits == {"none", "ok", "checks", "killed", "network", "io", "bad_cache", "no_bootstrap",
          "no_registry", "no_registrar"}

AnAnswer == [from : Urls, self : Urls \union {NoUrl}, related : Urls \union {NoUrl},
             cacheable : BOOLEAN]

(* An answer is filed and shown under the URL it came from, or one that it *)
(* calls its own.                                                          *)
Fits(u, a) == a \in AnAnswer /\ u \in {a.from, a.self}
Entries == {e \in [asked : Urls, answer : AnAnswer] : Fits(e.asked, e.answer)}

Contents == {Absent, Torn}
            \union [is : {"whole"}, body : BOOLEAN \union AnAnswer, fresh : BOOLEAN]

FilesOK ==
  /\ file \in [Files -> Contents]
  /\ \A r \in Registries : file[RegistryFile(r)].is = "whole" => file[RegistryFile(r)].body \in BOOLEAN
  /\ \A u \in Urls : file[ResponseFile(u)].is = "whole" => Fits(u, file[ResponseFile(u)].body)

Values ==
  /\ FilesOK
  /\ dirs \subseteq Dirs
  /\ pc \in [Procs -> Pcs]
  /\ inv \in [Procs -> Invocations]
  /\ hint \in [Procs -> Nat]
  /\ download \in [Procs -> BOOLEAN]
  /\ url \in [Procs -> Urls \union {NoUrl}]
  /\ answer \in [Procs -> AnAnswer \union {NoAnswer}]
  /\ received \in [Procs -> Seq(Entries)]
  /\ shown \in [Procs -> Seq(Entries)]
  /\ exit \in [Procs -> Exits]
  /\ crashes \in 0..MaxCrashes
  /\ expiries \in 0..MaxExpiries
  /\ disturbed \in BOOLEAN

(* Whether the registrar is asked for as well, if the registry links to it.*)
Wants(p) == inv[p].kind \in Domains /\ inv[p].process # "registry"

(* p follows the link of the registry's answer, and has shown that answer  *)
(* if it is to be shown before the end.                                    *)
Follows(p) ==
  /\ Wants(p)
  /\ Len(received[p]) = 1
  /\ received[p][1].answer.related = url[p] /\ url[p] # NoUrl
  /\ shown[p] = IF inv[p].json \/ inv[p].process = "registrar" THEN <<>> ELSE received[p]

(* What an invocation that succeeds has shown.                             *)
Succeeds(p) ==
  LET first == received[p][1]
      last == shown[p][Len(shown[p])]
  IN /\ shown[p] # <<>>
     /\ inv[p].process = "standard" => shown[p][1] = first
     /\ Wants(p) /\ first.answer.related # NoUrl => last.asked = first.answer.related
     /\ Wants(p) /\ first.answer.related = NoUrl => inv[p].process = "standard"

Course(p) ==
  /\ hint[p] < Len(HintOrder)
  /\ pc[p] \in {"removing", "init"} => inv[p].reset
  /\ pc[p] \in Looking \union Requesting \union Holding => ~inv[p].reset
  /\ pc[p] \in Looking => Registry(p) \in Registries
  /\ pc[p] \in Requesting \union Holding => url[p] \in Urls
  /\ pc[p] \in Holding => Fits(url[p], answer[p])
  /\ pc[p] \in {"save_self", "saving_self"} => SelfUrl(answer[p]) \in Urls
  /\ pc[p] \in Holding /\ inv[p].noCache => pc[p] = "got" /\ answer[p].from = url[p]
  /\ pc[p] # "done" => exit[p] = "none"
  /\ pc[p] \in {"idle", "removing", "init"} \union Looking => received[p] = <<>> /\ shown[p] = <<>>
  /\ pc[p] \in Requesting \union Holding =>
       (received[p] = <<>> /\ shown[p] = <<>>) \/ Follows(p)
  /\ Len(received[p]) <= 2 /\ Len(shown[p]) <= Len(received[p])
  /\ exit[p] \in {"ok", "checks"} /\ ~inv[p].reset => Succeeds(p)

(* The file p has truncated and not yet filled.                            *)
Writes(p, f) ==
  \/ pc[p] = "putting" /\ f = RegistryFile(Registry(p))
  \/ pc[p] = "saving" /\ f = ResponseFile(url[p])
  \/ pc[p] = "saving_self" /\ f = ResponseFile(SelfUrl(answer[p]))

Sound ==
  ~disturbed =>
    /\ \A p, q \in Procs : Ended(p) \/ Ended(q) \/ p = q
    /\ \A p \in Procs : ~Ended(p) /\ pc[p] # "init" => dirs = Dirs
    /\ \A f \in Files : (file[f].is = "torn") <=> (\E p \in Procs : Writes(p, f))
    /\ \A p \in Procs : pc[p] = "get" => file[RegistryFile(Registry(p))].is = "whole"

CliInv == Values /\ (\A p \in Procs : Course(p)) /\ Sound

USE DEF fileVars, procVars, historyVars, Goto, End

---------------------------------------------------------------------------
(* The cache.                                                              *)

LEMMA FileNames ==
  /\ \A r \in Registries : RegistryFile(r) \in Files
  /\ \A u \in Urls : ResponseFile(u) \in Files
  /\ \A f \in Files : \/ \E r \in Registries : f = RegistryFile(r)
                      \/ \E u \in Urls : f = ResponseFile(u)
  /\ \A r, s : RegistryFile(r) = RegistryFile(s) => r = s
  /\ \A u, v : ResponseFile(u) = ResponseFile(v) => u = v
  /\ \A r, u : RegistryFile(r) # ResponseFile(u)
BY DEF Files, RegistryFile, ResponseFile

LEMMA TruncateKeeps ==
  ASSUME FilesOK, NEW f \in Files, Truncate(f)
  PROVE  FilesOK'
BY FileNames DEF FilesOK, Truncate, Contents, Torn

(* What is written into a file is of its kind: in a registry's file        *)
(* whether the registry lists the object, in a response's a response that  *)
(* fits.                                                                   *)
Suits(f, body) ==
  \/ \E r \in Registries : f = RegistryFile(r) /\ body \in BOOLEAN
  \/ \E u \in Urls : f = ResponseFile(u) /\ Fits(u, body)

LEMMA WholeSuits ==
  ASSUME FilesOK, NEW f \in Files, NEW body, Suits(f, body),
         file' = [file EXCEPT ![f] = Whole(body)]
  PROVE  FilesOK'
<1>1. body \in BOOLEAN \union AnAnswer
  BY DEF Suits, Fits
<1>2. Whole(body) \in Contents
  BY <1>1 DEF Whole, Contents
<1>3. file' \in [Files -> Contents]
  BY <1>2 DEF FilesOK
<1>4. \A g \in Files : file'[g] = IF g = f THEN Whole(body) ELSE file[g]
  BY DEF FilesOK
<1>5. Whole(body).body = body
  BY DEF Whole
<1>6. \A r \in Registries : file'[RegistryFile(r)].is = "whole" => file'[RegistryFile(r)].body \in BOOLEAN
  BY <1>4, <1>5, FileNames DEF FilesOK, Suits
<1>7. \A u \in Urls : file'[ResponseFile(u)].is = "whole" => Fits(u, file'[ResponseFile(u)].body)
  BY <1>4, <1>5, FileNames DEF FilesOK, Suits
<1> QED BY <1>3, <1>6, <1>7 DEF FilesOK

LEMMA FillKeeps ==
  ASSUME FilesOK, NEW f \in Files, NEW body, Suits(f, body), Fill(f, body)
  PROVE  FilesOK'
<1>1. file[f] \in Contents
  BY DEF FilesOK
<1>2. file[f].is \in {"absent", "torn", "whole"}
  BY <1>1 DEF Contents, Absent, Torn
<1>3. \/ UNCHANGED file
      \/ file' = [file EXCEPT ![f] = Whole(body)]
      \/ file' = [file EXCEPT ![f] = Torn]
  BY <1>2 DEF Fill
<1>4. CASE UNCHANGED file
  BY <1>4 DEF FilesOK
<1>5. CASE file' = [file EXCEPT ![f] = Whole(body)]
  BY <1>5, WholeSuits
<1>6. CASE file' = [file EXCEPT ![f] = Torn]
  BY <1>6, TruncateKeeps DEF Truncate
<1> QED BY <1>3, <1>4, <1>5, <1>6

---------------------------------------------------------------------------
(* Initially.                                                              *)

LEMMA CliInit == Init => CliInv
<1> SUFFICES ASSUME Init PROVE CliInv
  OBVIOUS
<1>1. Values
  <2>1. FilesOK
    BY FileNames DEF Init, FilesOK, Contents, Absent
  <2>2. NoAnswer \in AnAnswer \union {NoAnswer}
    OBVIOUS
  <2>3. pc \in [Procs -> Pcs] /\ exit \in [Procs -> Exits]
    BY DEF Init, Pcs, Exits
  <2>4. received \in [Procs -> Seq(Entries)] /\ shown \in [Procs -> Seq(Entries)]
    BY DEF Init
  <2>5. crashes \in 0..MaxCrashes /\ expiries \in 0..MaxExpiries
    BY BoundsAssumption DEF Init
  <2>6. hint \in [Procs -> Nat] /\ download \in [Procs -> BOOLEAN]
        /\ url \in [Procs -> Urls \union {NoUrl}]
    BY DEF Init
  <2> QED BY <2>1, <2>2, <2>3, <2>4, <2>5, <2>6 DEF Init, Values
<1>2. \A p \in Procs : Course(p)
  BY RegistriesAssumption DEF Init, Course, Looking, Requesting, Holding
<1>3. Sound
  BY DEF Init, Sound, Ended, Writes, Absent
<1> QED BY <1>1, <1>2, <1>3 DEF CliInv

---------------------------------------------------------------------------
(* Values.                                                                 *)

(* What the steps use of the invariant for the invocation they are of.     *)
LEMMA AtHand ==
  ASSUME CliInv, NEW p \in Procs
  PROVE  /\ inv[p] \in Invocation
         /\ pc[p] \in Looking => Registry(p) \in Registries
         /\ pc[p] \in Requesting \union Holding => url[p] \in Urls
         /\ pc[p] \in Holding => /\ answer[p] \in AnAnswer
                                 /\ Fits(url[p], answer[p])
                                 /\ Entry(p) \in Entries
         /\ pc[p] \in {"save_self", "saving_self"} => SelfUrl(answer[p]) \in Urls
         /\ Registries \subseteq Urls
BY InvocationsAssumption DEF CliInv, Values, Course, Fits, Entries, Entry, Urls, Looking, Holding

LEMMA EndTypes ==
  ASSUME Values, NEW p \in Procs, NEW result \in Exits, End(p, result)
  PROVE  pc' \in [Procs -> Pcs] /\ exit' \in [Procs -> Exits]
BY DEF Values, Pcs

LEMMA AskUrlTypes ==
  ASSUME Values, NEW p \in Procs, NEW u \in Urls, AskUrl(p, u)
  PROVE  /\ pc' \in [Procs -> Pcs] /\ exit' \in [Procs -> Exits]
         /\ url' \in [Procs -> Urls \union {NoUrl}]
BY DEF Values, Pcs, AskUrl, Requesting

LEMMA NoBaseUrlTypes ==
  ASSUME Values, NEW p \in Procs, NEW result \in Exits, NoBaseUrl(p, result)
  PROVE  /\ pc' \in [Procs -> Pcs] /\ exit' \in [Procs -> Exits]
         /\ url' \in [Procs -> Urls \union {NoUrl}]
<1>1. "backup" \in Urls
  BY DEF Urls
<1>2. CASE AskUrl(p, "backup")
  BY <1>1, <1>2, AskUrlTypes
<1>3. CASE End(p, result) /\ UNCHANGED url
  BY <1>3, EndTypes DEF Values
<1> QED BY <1>2, <1>3 DEF NoBaseUrl

LEMMA RequestFailsTypes ==
  ASSUME Values, NEW p \in Procs, NEW result \in Exits, RequestFails(p, result)
  PROVE  pc' \in [Procs -> Pcs] /\ exit' \in [Procs -> Exits]
BY EndTypes DEF RequestFails, Exits

LEMMA ReceiveTypes ==
  ASSUME CliInv, NEW p \in Procs, Receive(p)
  PROVE  /\ received' = [received EXCEPT ![p] = Append(received[p], Entry(p))]
         /\ received' \in [Procs -> Seq(Entries)]
         /\ answer' \in [Procs -> AnAnswer \union {NoAnswer}]
         /\ \A last \in BOOLEAN : Shown(p, last) \in Seq(Entries)
<1>1. Entry(p) \in Entries
  BY AtHand DEF Receive, Holding
<1>2. received \in [Procs -> Seq(Entries)] /\ shown \in [Procs -> Seq(Entries)]
  BY DEF CliInv, Values
<1>3. received' = [received EXCEPT ![p] = Append(received[p], Entry(p))]
  BY DEF Receive
<1>4. received' \in [Procs -> Seq(Entries)]
  BY <1>1, <1>2, <1>3
<1>5. \A last \in BOOLEAN : Shown(p, last) \in Seq(Entries)
  BY <1>1, <1>2, <1>4 DEF Shown
<1>6. answer' \in [Procs -> AnAnswer \union {NoAnswer}]
  BY DEF Receive, Got, CliInv, Values
<1> QED BY <1>3, <1>4, <1>5, <1>6

LEMMA CliValues ==
  ASSUME CliInv, [Next]_vars
  PROVE  Values'
<1> USE DEF CliInv
<1>1. ASSUME NEW p \in Procs, Start(p)
      PROVE  Values'
  <2>1. {"tld", "given"} \subseteq Urls /\ "no_bootstrap" \in Exits
    BY DEF Urls, Exits
  <2>2. /\ pc' \in [Procs -> Pcs] /\ exit' \in [Procs -> Exits]
        /\ url' \in [Procs -> Urls \union {NoUrl}]
    BY <1>1, <2>1, AskUrlTypes, NoBaseUrlTypes DEF Start, Values, Pcs, Looking
  <2> QED BY <1>1, <2>2 DEF Start, Values, FilesOK, Dirs
<1>2. ASSUME NEW p \in Procs, HasRegistry(p)
      PROVE  Values'
  <2>1. "bad_cache" \in Exits
    BY DEF Exits
  <2>2. /\ pc' \in [Procs -> Pcs] /\ exit' \in [Procs -> Exits]
        /\ url' \in [Procs -> Urls \union {NoUrl}]
    BY <1>2, <2>1, NoBaseUrlTypes DEF HasRegistry, Values, Pcs, Looking
  <2> QED BY <1>2, <2>2 DEF HasRegistry, Values, FilesOK
<1>3. ASSUME NEW p \in Procs, FetchRegistry(p)
      PROVE  Values'
  <2>1. "network" \in Exits
    BY DEF Exits
  <2>2. /\ pc' \in [Procs -> Pcs] /\ exit' \in [Procs -> Exits]
        /\ url' \in [Procs -> Urls \union {NoUrl}]
    BY <1>3, <2>1, NoBaseUrlTypes DEF FetchRegistry, Values, Pcs, Looking
  <2>3. download' \in [Procs -> BOOLEAN]
    BY <1>3 DEF FetchRegistry, Values
  <2> QED BY <1>3, <2>2, <2>3 DEF FetchRegistry, Values, FilesOK
<1>4. ASSUME NEW p \in Procs, PutRegistry(p)
      PROVE  Values'
  <2>1. "io" \in Exits
    BY DEF Exits
  <2>2. /\ pc' \in [Procs -> Pcs] /\ exit' \in [Procs -> Exits]
        /\ url' \in [Procs -> Urls \union {NoUrl}]
    BY <1>4, <2>1, NoBaseUrlTypes DEF PutRegistry, Values, Pcs, Looking
  <2>3. RegistryFile(Registry(p)) \in Files
    BY <1>4, AtHand, FileNames DEF PutRegistry, Looking
  <2>4. FilesOK'
    BY <1>4, <2>3, TruncateKeeps DEF PutRegistry, Values, FilesOK
  <2> QED BY <1>4, <2>2, <2>4 DEF PutRegistry, Values
<1>5. ASSUME NEW p \in Procs, RegistryPut(p)
      PROVE  Values'
  <2>1. Registry(p) \in Registries
    BY <1>5, AtHand DEF RegistryPut, Looking
  <2>2. Suits(RegistryFile(Registry(p)), download[p])
    BY <2>1 DEF Suits, Values
  <2>3. FilesOK'
    BY <1>5, <2>1, <2>2, FileNames, FillKeeps DEF RegistryPut, Values
  <2>4. pc' \in [Procs -> Pcs]
    BY <1>5 DEF RegistryPut, Values, Pcs, Looking
  <2> QED BY <1>5, <2>3, <2>4 DEF RegistryPut, Values
<1>6. ASSUME NEW p \in Procs, GetUrls(p)
      PROVE  Values'
  <2>1. {"no_bootstrap", "bad_cache", "io"} \subseteq Exits
    BY DEF Exits
  <2>2. Registry(p) \in Registries /\ RegistryFile(Registry(p)) \in Files
    BY <1>6, AtHand, FileNames DEF GetUrls, Looking
  <2>3. file[RegistryFile(Registry(p))].is \in {"absent", "torn", "whole"}
    BY <2>2 DEF Values, FilesOK, Contents, Absent, Torn
  <2>4. /\ pc' \in [Procs -> Pcs] /\ exit' \in [Procs -> Exits]
        /\ url' \in [Procs -> Urls \union {NoUrl}]
    BY <1>6, <2>1, <2>2, <2>3, AtHand, AskUrlTypes, NoBaseUrlTypes
       DEF GetUrls, Values, Pcs, Looking
  <2>5. hint' = hint \/ hint' = [hint EXCEPT ![p] = hint[p] + 1]
    BY <1>6 DEF GetUrls
  <2>6. hint' \in [Procs -> Nat]
    <3>1. hint \in [Procs -> Nat] /\ hint[p] + 1 \in Nat
      BY DEF Values
    <3> QED BY <2>5, <3>1
  <2> QED BY <1>6, <2>4, <2>6 DEF GetUrls, Values, FilesOK
<1>7. ASSUME NEW p \in Procs, ReadCache(p)
      PROVE  Values'
  <2>1. "bad_cache" \in Exits
    BY DEF Exits
  <2>2. url[p] \in Urls
    BY <1>7, AtHand DEF ReadCache, Requesting
  <2>3. pc' \in [Procs -> Pcs] /\ exit' \in [Procs -> Exits]
    BY <1>7, <2>1, RequestFailsTypes DEF ReadCache, Values, Pcs, Requesting, Holding
  <2>4. answer' \in [Procs -> AnAnswer \union {NoAnswer}]
    BY <1>7, <2>2 DEF ReadCache, Got, Values, FilesOK, Fits
  <2> QED BY <1>7, <2>3, <2>4 DEF ReadCache, Values, FilesOK
<1>8. ASSUME NEW p \in Procs, Send(p)
      PROVE  Values'
  <2>1. "network" \in Exits
    BY DEF Exits
  <2>2. url[p] \in Urls
    BY <1>8, AtHand DEF Send, Requesting
  <2>3. Answers(url[p]) \subseteq AnAnswer
    BY <2>2, AnswersAssumption DEF Answer, AnAnswer
  <2>4. pc' \in [Procs -> Pcs] /\ exit' \in [Procs -> Exits]
    BY <1>8, <2>1, RequestFailsTypes DEF Send, Values, Pcs, Holding
  <2>5. answer' \in [Procs -> AnAnswer \union {NoAnswer}]
    BY <1>8, <2>3 DEF Send, Got, Values
  <2> QED BY <1>8, <2>4, <2>5 DEF Send, Values, FilesOK
<1>9. ASSUME NEW p \in Procs, SaveStarts(p)
      PROVE  Values'
  <2>1. "io" \in Exits
    BY DEF Exits
  <2>2. (IF pc[p] = "save" THEN url[p] ELSE SelfUrl(answer[p])) \in Urls
    BY <1>9, AtHand DEF SaveStarts, Holding
  <2>3. pc' \in [Procs -> Pcs] /\ exit' \in [Procs -> Exits]
    BY <1>9, <2>1, RequestFailsTypes DEF SaveStarts, Values, Pcs, Holding
  <2>4. FilesOK'
    BY <1>9, <2>2, FileNames, TruncateKeeps DEF SaveStarts, Values, FilesOK
  <2> QED BY <1>9, <2>3, <2>4 DEF SaveStarts, Values
<1>10. ASSUME NEW p \in Procs, Saved(p)
       PROVE  Values'
  <2> DEFINE u == IF pc[p] = "saving" THEN url[p] ELSE SelfUrl(answer[p])
  <2>1. u \in Urls /\ Fits(u, answer[p])
    BY <1>10, AtHand DEF Saved, Holding, Fits, SelfUrl
  <2>2. Suits(ResponseFile(u), answer[p])
    BY <2>1 DEF Suits
  <2>3. Fill(ResponseFile(u), answer[p])
    BY <1>10 DEF Saved
  <2>4. FilesOK'
    BY <2>1, <2>2, <2>3, FileNames, FillKeeps DEF Values
  <2>5. pc' \in [Procs -> Pcs]
    BY <1>10 DEF Saved, Values, Pcs, Holding
  <2> QED BY <1>10, <2>4, <2>5 DEF Saved, Values
<1>11. ASSUME NEW p \in Procs, Refer(p)
       PROVE  Values'
  <2>1. answer[p].related \in Urls
    BY <1>11, AtHand DEF Refer, Receive, Holding, AnAnswer
  <2>2. /\ pc' \in [Procs -> Pcs] /\ exit' \in [Procs -> Exits]
        /\ url' \in [Procs -> Urls \union {NoUrl}]
    BY <1>11, <2>1, AskUrlTypes DEF Refer, Values
  <2>3. /\ received' \in [Procs -> Seq(Entries)]
        /\ answer' \in [Procs -> AnAnswer \union {NoAnswer}]
        /\ shown' \in [Procs -> Seq(Entries)]
    BY <1>11, ReceiveTypes DEF Refer, Values
  <2> QED BY <1>11, <2>2, <2>3 DEF Refer, Receive, Values, FilesOK
<1>12. ASSUME NEW p \in Procs, NoRegistrar(p)
       PROVE  Values'
  <2>1. pc' \in [Procs -> Pcs] /\ exit' \in [Procs -> Exits]
    BY <1>12, EndTypes DEF NoRegistrar, Exits
  <2>2. /\ received' \in [Procs -> Seq(Entries)]
        /\ answer' \in [Procs -> AnAnswer \union {NoAnswer}]
    BY <1>12, ReceiveTypes DEF NoRegistrar
  <2> QED BY <1>12, <2>1, <2>2 DEF NoRegistrar, Receive, Values, FilesOK
<1>13. ASSUME NEW p \in Procs, Finish(p)
       PROVE  Values'
  <2>1. pc' \in [Procs -> Pcs] /\ exit' \in [Procs -> Exits]
    BY <1>13, EndTypes DEF Finish, Exits
  <2>2. /\ received' \in [Procs -> Seq(Entries)]
        /\ answer' \in [Procs -> AnAnswer \union {NoAnswer}]
        /\ shown' \in [Procs -> Seq(Entries)]
    BY <1>13, ReceiveTypes DEF Finish, Values
  <2> QED BY <1>13, <2>1, <2>2 DEF Finish, Receive, Values, FilesOK
<1>14. ASSUME NEW p \in Procs, Remove(p)
       PROVE  Values'
  <2>1. pc' \in [Procs -> Pcs] /\ exit' \in [Procs -> Exits]
    BY <1>14, EndTypes DEF Remove, Values, Pcs, Exits
  <2>2. \A f \in Files : file'[f] \in {file[f], Absent}
    BY <1>14 DEF Remove, Values, FilesOK
  <2>3. file' \in [Files -> Contents]
    BY <1>14 DEF Remove, Values, FilesOK, Contents
  <2>4. \A f \in Files : file'[f].is = "whole" => file'[f] = file[f]
    BY <2>2 DEF Absent
  <2>5. FilesOK'
    BY <2>3, <2>4, FileNames DEF Values, FilesOK
  <2> QED BY <1>14, <2>1, <2>5 DEF Remove, Values, Dirs
<1>15. ASSUME NEW p \in Procs, ResetDone(p)
       PROVE  Values'
  <2>1. pc' \in [Procs -> Pcs] /\ exit' \in [Procs -> Exits]
    BY <1>15, EndTypes DEF ResetDone, Exits
  <2> QED BY <1>15, <2>1 DEF ResetDone, Values, FilesOK, Dirs
<1>16. ASSUME NEW p \in Procs, Crash(p)
       PROVE  Values'
  <2>1. pc' \in [Procs -> Pcs] /\ exit' \in [Procs -> Exits]
    BY <1>16, EndTypes DEF Crash, Exits
  <2>2. crashes' \in 0..MaxCrashes
    BY <1>16, BoundsAssumption DEF Crash, Values
  <2> QED BY <1>16, <2>1, <2>2 DEF Crash, Values, FilesOK
<1>17. ASSUME NEW f \in Files, Expire(f)
       PROVE  Values'
  <2>1. file[f] \in [is : {"whole"}, body : BOOLEAN \union AnAnswer, fresh : BOOLEAN]
    BY <1>17 DEF Expire, Values, FilesOK, Contents, Absent, Torn
  <2>2. /\ file' \in [Files -> Contents]
        /\ file'[f].is = "whole" /\ file'[f].body = file[f].body
    BY <1>17, <2>1 DEF Expire, Values, FilesOK, Contents
  <2>3. \A g \in Files \ {f} : file'[g] = file[g]
    BY <1>17 DEF Expire, Values, FilesOK
  <2>4. FilesOK'
    BY <2>1, <2>2, <2>3, FileNames DEF Values, FilesOK
  <2>5. expiries' \in 0..MaxExpiries
    BY <1>17, BoundsAssumption DEF Expire, Values
  <2> QED BY <1>17, <2>4, <2>5 DEF Expire, Values
<1>18. CASE UNCHANGED vars
  BY <1>18 DEF vars, Values, FilesOK
<1> QED
  BY <1>1, <1>2, <1>3, <1>4, <1>5, <1>6, <1>7, <1>8, <1>9, <1>10, <1>11, <1>12,
     <1>13, <1>14, <1>15, <1>16, <1>17, <1>18 DEF Next, Step

---------------------------------------------------------------------------
(* Course.                                                                 *)

Stays(q) ==
  /\ pc'[q] = pc[q] /\ inv'[q] = inv[q] /\ hint'[q] = hint[q] /\ url'[q] = url[q]
  /\ answer'[q] = answer[q] /\ received'[q] = received[q] /\ shown'[q] = shown[q]
  /\ exit'[q] = exit[q]

LEMMA CourseStays ==
  ASSUME NEW q, Course(q), Stays(q)
  PROVE  Course(q)'
BY DEF Course, Stays, Registry, Follows, Succeeds, Wants

(* An invocation's step is its own: the others are where they were.        *)
LEMMA OthersStay ==
  ASSUME Values, NEW p \in Procs, Start(p) \/ Step(p) \/ Crash(p), NEW q \in Procs \ {p}
  PROVE  Stays(q)
<1> USE DEF Values, Stays, AskUrl, NoBaseUrl, RequestFails, Got
<1>1. CASE Start(p)
  BY <1>1 DEF Start
<1>2. CASE HasRegistry(p)
  BY <1>2 DEF HasRegistry
<1>3. CASE FetchRegistry(p)
  BY <1>3 DEF FetchRegistry
<1>4. CASE PutRegistry(p)
  BY <1>4 DEF PutRegistry
<1>5. CASE RegistryPut(p)
  BY <1>5 DEF RegistryPut
<1>6. CASE GetUrls(p)
  BY <1>6 DEF GetUrls
<1>7. CASE ReadCache(p)
  BY <1>7 DEF ReadCache
<1>8. CASE Send(p)
  BY <1>8 DEF Send
<1>9. CASE SaveStarts(p)
  BY <1>9 DEF SaveStarts
<1>10. CASE Saved(p)
  BY <1>10 DEF Saved
<1>11. CASE Refer(p)
  BY <1>11 DEF Refer, Receive
<1>12. CASE NoRegistrar(p)
  BY <1>12 DEF NoRegistrar, Receive
<1>13. CASE Finish(p)
  BY <1>13 DEF Finish, Receive
<1>14. CASE Remove(p)
  BY <1>14 DEF Remove
<1>15. CASE ResetDone(p)
  BY <1>15 DEF ResetDone
<1>16. CASE Crash(p)
  BY <1>16 DEF Crash
<1> QED
  BY <1>1, <1>2, <1>3, <1>4, <1>5, <1>6, <1>7, <1>8, <1>9, <1>10, <1>11, <1>12,
     <1>13, <1>14, <1>15, <1>16 DEF Step

(* What is kept of an invocation that only goes on to another step.        *)
Keeps(p) ==
  /\ inv'[p] = inv[p] /\ hint'[p] = hint[p]
  /\ received'[p] = received[p] /\ shown'[p] = shown[p]

(* An invocation that fails has its course behind it.                      *)
LEMMA CourseEnds ==
  ASSUME CliInv, NEW p \in Procs, pc'[p] = "done", exit'[p] \notin {"ok", "checks"}, Keeps(p)
  PROVE  Course(p)'
BY DEF CliInv, Course, Keeps, Looking, Requesting, Holding

LEMMA CourseAsks ==
  ASSUME CliInv, NEW p \in Procs, pc[p] \in {"idle"} \union Looking, ~inv[p].reset,
         NEW u \in Urls, AskUrl(p, u), Keeps(p)
  PROVE  Course(p)'
<1>1. pc'[p] = "read" /\ url'[p] = u /\ exit'[p] = exit[p]
  BY DEF CliInv, Values, AskUrl
<1>2. received'[p] = <<>> /\ shown'[p] = <<>> /\ exit'[p] = "none"
  BY <1>1 DEF CliInv, Course, Keeps, Looking
<1> QED BY <1>1, <1>2 DEF CliInv, Course, Keeps, Looking, Requesting, Holding

LEMMA CourseNoBaseUrl ==
  ASSUME CliInv, NEW p \in Procs, pc[p] \in {"idle"} \union Looking, ~inv[p].reset,
         NEW result \in Exits \ {"ok", "checks"}, NoBaseUrl(p, result), Keeps(p)
  PROVE  Course(p)'
<1>1. CASE AskUrl(p, "backup")
  BY <1>1, CourseAsks DEF Urls
<1>2. CASE End(p, result)
  <2>1. pc'[p] = "done" /\ exit'[p] = result
    BY <1>2 DEF CliInv, Values
  <2> QED BY <2>1, CourseEnds
<1> QED BY <1>1, <1>2 DEF NoBaseUrl

LEMMA CourseRequestFails ==
  ASSUME CliInv, NEW p \in Procs, NEW result \in Exits \ {"ok", "checks"},
         RequestFails(p, result), Keeps(p)
  PROVE  Course(p)'
<1>1. pc'[p] = "done" /\ exit'[p] \in {result, "no_registry"}
  BY DEF CliInv, Values, RequestFails, Exits
<1> QED BY <1>1, CourseEnds

LEMMA StartCourse ==
  ASSUME CliInv, NEW p \in Procs, Start(p)
  PROVE  Course(p)'
<1>1. inv[p] \in Invocation /\ {"tld", "given"} \subseteq Urls
  BY AtHand DEF Urls
<1>2. Keeps(p)
  BY DEF Start, Keeps
<1>3. CASE inv[p].reset
  BY <1>3 DEF Start, CliInv, Values, Course, Looking, Requesting, Holding
<1>4. CASE ~inv[p].reset /\ \E u \in Urls : AskUrl(p, u)
  BY <1>2, <1>4, CourseAsks DEF Start
<1>5. CASE ~inv[p].reset /\ NoBaseUrl(p, "no_bootstrap")
  BY <1>2, <1>5, CourseNoBaseUrl DEF Start, Exits
<1>6. CASE /\ ~inv[p].reset
           /\ ~(inv[p].base = "rfc9224" /\ RegistryOf[inv[p].kind] = "none")
           /\ inv[p].kind # "tld" => inv[p].base # "url"
           /\ inv[p].kind # "tld"
           /\ Goto(p, "has") /\ UNCHANGED <<url, exit>>
  <2>1. inv[p].base \in {"rfc9224", "hint"} /\ inv[p].kind \in DOMAIN RegistryOf
    BY <1>1, <1>6 DEF Invocation
  <2>2. hint[p] < Len(HintOrder) /\ hint[p] \in Nat
    BY DEF CliInv, Values, Course
  <2>3. HintOrder[hint[p] + 1] \in Registries
    BY <2>2, RegistriesAssumption
  <2>4. Registry(p) \in Registries
    BY <1>6, <2>1, <2>3, RegistriesAssumption DEF Registry
  <2>5. Registry(p)' = Registry(p)
    BY DEF Start, Registry
  <2>6. pc'[p] = "has" /\ exit'[p] = exit[p] /\ pc[p] = "idle"
    BY <1>6 DEF Start, CliInv, Values
  <2> QED BY <1>2, <1>6, <2>4, <2>5, <2>6 DEF CliInv, Course, Keeps, Looking, Requesting, Holding
<1> QED BY <1>1, <1>3, <1>4, <1>5, <1>6 DEF Start

LEMMA LookCourse ==
  ASSUME CliInv, NEW p \in Procs,
         HasRegistry(p) \/ FetchRegistry(p) \/ PutRegistry(p) \/ RegistryPut(p)
  PROVE  Course(p)'
<1>1. Keeps(p) /\ pc[p] \in Looking /\ ~inv[p].reset /\ Registry(p)' = Registry(p)
  BY DEF HasRegistry, FetchRegistry, PutRegistry, RegistryPut, Keeps, Looking, Registry,
         CliInv, Course
<1>2. \/ \E result \in {"bad_cache", "network", "io"} : NoBaseUrl(p, result)
      \/ \E label \in Looking : Goto(p, label) /\ UNCHANGED exit
  BY DEF HasRegistry, FetchRegistry, PutRegistry, RegistryPut, Looking
<1>3. ASSUME NEW result \in {"bad_cache", "network", "io"}, NoBaseUrl(p, result)
      PROVE  Course(p)'
  BY <1>1, <1>3, CourseNoBaseUrl DEF Exits
<1>4. ASSUME NEW label \in Looking, Goto(p, label), UNCHANGED exit
      PROVE  Course(p)'
  <2>1. pc'[p] = label /\ exit'[p] = exit[p]
    BY <1>4 DEF CliInv, Values
  <2> QED BY <1>1, <2>1 DEF CliInv, Course, Keeps, Looking, Requesting, Holding
<1> QED BY <1>2, <1>3, <1>4

LEMMA GetUrlsCourse ==
  ASSUME CliInv, NEW p \in Procs, GetUrls(p)
  PROVE  Course(p)'
<1>1. /\ pc[p] = "get" /\ pc[p] \in Looking /\ ~inv[p].reset
      /\ Registry(p) \in Registries /\ Registry(p) \in Urls
  BY AtHand DEF GetUrls, Looking, CliInv, Course
<1>2. CASE UNCHANGED hint /\ AskUrl(p, Registry(p))
  <2>1. Keeps(p)
    BY <1>2 DEF GetUrls, Keeps
  <2> QED BY <1>1, <1>2, <2>1, CourseAsks
<1>3. CASE UNCHANGED hint /\ \E result \in {"no_bootstrap", "bad_cache", "io"} : NoBaseUrl(p, result)
  <2>1. Keeps(p)
    BY <1>3 DEF GetUrls, Keeps
  <2> QED BY <1>1, <1>3, <2>1, CourseNoBaseUrl DEF Exits
<1>4. CASE /\ inv[p].base = "hint" /\ hint[p] + 1 # Len(HintOrder)
           /\ hint' = [hint EXCEPT ![p] = @ + 1]
           /\ Goto(p, "has")
           /\ UNCHANGED <<url, exit>>
  <2>1. /\ pc'[p] = "has" /\ exit'[p] = exit[p] /\ hint'[p] = hint[p] + 1
        /\ inv'[p] = inv[p] /\ received'[p] = received[p] /\ shown'[p] = shown[p]
    BY <1>4 DEF GetUrls, CliInv, Values
  <2>2. hint[p] \in Nat /\ Len(HintOrder) \in Nat /\ hint[p] < Len(HintOrder)
    BY RegistriesAssumption DEF CliInv, Values, Course
  <2>3. hint'[p] < Len(HintOrder) /\ hint'[p] \in Nat
    BY <1>4, <2>1, <2>2
  <2>4. HintOrder[hint'[p] + 1] \in Registries
    BY <2>3, RegistriesAssumption
  <2>5. Registry(p)' \in Registries
    BY <1>4, <2>1, <2>4 DEF Registry
  <2> QED BY <1>1, <2>1, <2>3, <2>5 DEF CliInv, Course, Looking, Requesting, Holding
<1>5. file[RegistryFile(Registry(p))].is \in {"absent", "torn", "whole"}
  BY <1>1, FileNames DEF CliInv, Values, FilesOK, Contents, Absent, Torn
<1> QED BY <1>2, <1>3, <1>4, <1>5 DEF GetUrls

LEMMA RequestCourse ==
  ASSUME CliInv, NEW p \in Procs, ReadCache(p) \/ Send(p)
  PROVE  Course(p)'
<1>1. /\ Keeps(p) /\ pc[p] \in Requesting /\ ~inv[p].reset
      /\ inv'[p] = inv[p] /\ url'[p] = url[p] /\ url[p] \in Urls
  BY AtHand DEF ReadCache, Send, Keeps, Requesting, CliInv, Course
<1>2. \/ \E result \in {"bad_cache", "network"} : RequestFails(p, result)
      \/ Goto(p, "send") /\ UNCHANGED <<answer, exit>>
      \/ \E a \in AnAnswer :
           /\ Fits(url[p], a)
           /\ inv[p].noCache => a.from = url[p]
           /\ Got(p, a)
           /\ \E label \in {"save", "got"} :
                Goto(p, label) /\ (inv[p].noCache => label = "got")
           /\ UNCHANGED exit
  <2>1. CASE ReadCache(p)
    BY <1>1, <2>1 DEF ReadCache, CliInv, Values, FilesOK, Fits
  <2>2. CASE Send(p)
    <3>1. \A a \in Answers(url[p]) : a \in AnAnswer /\ a.from = url[p] /\ Fits(url[p], a)
      BY <1>1, AnswersAssumption DEF Answer, AnAnswer, Fits
    <3> QED BY <2>2, <3>1 DEF Send
  <2> QED BY <2>1, <2>2
<1>3. ASSUME NEW result \in {"bad_cache", "network"}, RequestFails(p, result)
      PROVE  Course(p)'
  BY <1>1, <1>3, CourseRequestFails DEF Exits
<1>4. CASE Goto(p, "send") /\ UNCHANGED <<answer, exit>>
  <2>1. pc'[p] = "send" /\ exit'[p] = exit[p]
    BY <1>4 DEF CliInv, Values
  <2> QED BY <1>1, <2>1
        DEF CliInv, Course, Keeps, Follows, Wants, Looking, Requesting, Holding
<1>5. ASSUME NEW a \in AnAnswer, Fits(url[p], a), inv[p].noCache => a.from = url[p],
             NEW label \in {"save", "got"}, inv[p].noCache => label = "got",
             Got(p, a), Goto(p, label), UNCHANGED exit
      PROVE  Course(p)'
  <2>1. pc'[p] = label /\ exit'[p] = exit[p] /\ answer'[p] = a
    BY <1>5 DEF CliInv, Values, Got
  <2> QED BY <1>1, <1>5, <2>1
        DEF CliInv, Course, Keeps, Follows, Wants, Looking, Requesting, Holding
<1> QED BY <1>2, <1>3, <1>4, <1>5

LEMMA SaveCourse ==
  ASSUME CliInv, NEW p \in Procs, SaveStarts(p) \/ Saved(p)
  PROVE  Course(p)'
<1>1. /\ Keeps(p) /\ pc[p] \in Holding \ {"got"} /\ ~inv[p].reset /\ ~inv[p].noCache
      /\ inv'[p] = inv[p] /\ url'[p] = url[p] /\ answer'[p] = answer[p]
      /\ answer[p] \in AnAnswer
  BY AtHand DEF SaveStarts, Saved, Keeps, Holding, CliInv, Course
<1>2. \/ RequestFails(p, "io")
      \/ \E label \in Holding :
           /\ Goto(p, label) /\ UNCHANGED exit
           /\ label \in {"save_self", "saving_self"} => SelfUrl(answer[p]) \in Urls
  <2>1. CASE SaveStarts(p)
    BY <2>1, AtHand DEF SaveStarts, Holding
  <2>2. CASE Saved(p)
    BY <1>1, <2>2 DEF Saved, Holding, SelfUrl, AnAnswer
  <2> QED BY <2>1, <2>2
<1>3. CASE RequestFails(p, "io")
  BY <1>1, <1>3, CourseRequestFails DEF Exits
<1>4. ASSUME NEW label \in Holding, Goto(p, label), UNCHANGED exit,
             label \in {"save_self", "saving_self"} => SelfUrl(answer[p]) \in Urls
      PROVE  Course(p)'
  <2>1. pc'[p] = label /\ exit'[p] = exit[p]
    BY <1>4 DEF CliInv, Values
  <2> QED BY <1>1, <1>4, <2>1
        DEF CliInv, Course, Keeps, Follows, Wants, SelfUrl, Looking, Requesting, Holding
<1> QED BY <1>2, <1>3, <1>4

LEMMA ReferCourse ==
  ASSUME CliInv, NEW p \in Procs, Refer(p)
  PROVE  Course(p)'
<1>1. /\ pc[p] = "got" /\ received[p] = <<>> /\ shown[p] = <<>> /\ exit[p] = "none"
      /\ Wants(p) /\ ~inv[p].reset
  BY DEF Refer, Receive, Refers, Wants, Follows, CliInv, Course, Requesting, Holding
<1>2. Entry(p) \in Entries /\ answer[p].related \in Urls /\ answer[p].related # NoUrl
  BY <1>1, AtHand DEF Refer, Holding, AnAnswer
<1>3. /\ pc'[p] = "read" /\ exit'[p] = "none" /\ url'[p] = answer[p].related
      /\ inv'[p] = inv[p] /\ hint'[p] = hint[p]
  BY <1>1 DEF Refer, Receive, AskUrl, CliInv, Values
<1>4. received'[p] = <<Entry(p)>>
  BY <1>1, <1>2, ReceiveTypes DEF Refer, CliInv, Values
<1>5. shown'[p] = IF inv[p].json \/ inv[p].process = "registrar" THEN <<>> ELSE <<Entry(p)>>
  BY <1>1, <1>2 DEF Refer, Shown, Hides, Wants, CliInv, Values
<1>6. Follows(p)'
  BY <1>1, <1>2, <1>3, <1>4, <1>5 DEF Follows, Wants, Entry
<1>7. Len(received'[p]) = 1 /\ Len(shown'[p]) <= 1
  BY <1>4, <1>5
<1> QED BY <1>1, <1>2, <1>3, <1>6, <1>7 DEF CliInv, Course, Looking, Requesting, Holding

LEMMA NoRegistrarCourse ==
  ASSUME CliInv, NEW p \in Procs, NoRegistrar(p)
  PROVE  Course(p)'
<1>1. pc[p] = "got" /\ received[p] = <<>> /\ shown[p] = <<>>
  BY DEF NoRegistrar, Receive, Refers, Follows, CliInv, Course, Requesting, Holding
<1>2. /\ pc'[p] = "done" /\ exit'[p] = "no_registrar" /\ shown'[p] = <<>>
      /\ inv'[p] = inv[p] /\ hint'[p] = hint[p]
  BY <1>1 DEF NoRegistrar, Receive, CliInv, Values
<1>3. received'[p] = <<Entry(p)>>
  BY <1>1, AtHand, ReceiveTypes DEF NoRegistrar, Holding, CliInv, Values
<1> QED BY <1>2, <1>3 DEF CliInv, Course, Looking, Requesting, Holding

LEMMA AppendToOne ==
  ASSUME NEW S, NEW s \in Seq(S), Len(s) = 1, NEW e \in S
  PROVE  /\ s # <<>> /\ Append(s, e) # <<>> /\ Len(Append(s, e)) = 2
         /\ Append(s, e)[1] = s[1] /\ Append(s, e)[2] = e
<1>1. 1 \in 1..Len(s) /\ Len(s) + 1 = 2
  OBVIOUS
<1>2. /\ Len(Append(s, e)) = Len(s) + 1
      /\ \A i \in 1..Len(s) : Append(s, e)[i] = s[i]
      /\ Append(s, e)[Len(s) + 1] = e
  BY AppendProperties, SMTT(30)
<1>3. s # <<>>
  BY EmptySeq
<1>4. Append(s, e) # <<>>
  BY AppendProperties, Zenon
<1> QED BY <1>1, <1>2, <1>3, <1>4

LEMMA FinishCourse ==
  ASSUME CliInv, NEW p \in Procs, Finish(p)
  PROVE  Course(p)'
<1>1. /\ pc[p] = "got" /\ Entry(p) \in Entries /\ url[p] \in Urls
      /\ inv[p] \in Invocation /\ ~inv[p].reset
      /\ (received[p] = <<>> /\ shown[p] = <<>>) \/ Follows(p)
  BY AtHand DEF Finish, Receive, CliInv, Course, Requesting, Holding
<1>2. /\ pc'[p] = "done" /\ inv'[p] = inv[p] /\ hint'[p] = hint[p]
  BY DEF Finish, Receive, CliInv, Values
<1>3. received'[p] = Append(received[p], Entry(p)) /\ received[p] \in Seq(Entries)
  BY ReceiveTypes DEF Finish, CliInv, Values
<1>4. shown'[p] = IF inv[p].json THEN received'[p]
                  ELSE IF Hides(p) THEN shown[p] ELSE Append(shown[p], Entry(p))
  BY DEF Finish, Shown, CliInv, Values
<1>5. inv[p].process \in {"standard", "registry", "registrar"}
  BY <1>1 DEF Invocation
<1>6. CASE received[p] = <<>> /\ shown[p] = <<>>
  <2>1. received'[p] = <<Entry(p)>>
    BY <1>3, <1>6
  <2>2. ~Wants(p) \/ (answer[p].related = NoUrl /\ inv[p].process = "standard")
    BY <1>6 DEF Finish, Refers, Wants
  <2>3. shown'[p] = <<Entry(p)>>
    BY <1>4, <1>6, <2>1, <2>2 DEF Hides, Wants
  <2>4. Succeeds(p)'
    BY <1>2, <2>1, <2>2, <2>3 DEF Succeeds, Wants, Entry
  <2> QED BY <1>2, <2>1, <2>3, <2>4 DEF CliInv, Course, Looking, Requesting, Holding
<1>7. CASE Follows(p)
  <2>1. /\ Wants(p) /\ Len(received[p]) = 1
        /\ received[p][1].answer.related = url[p] /\ url[p] # NoUrl
    BY <1>7 DEF Follows
  <2>2. /\ Len(received'[p]) = 2 /\ received[p] # <<>> /\ received'[p] # <<>>
        /\ received'[p][1] = received[p][1] /\ received'[p][2] = Entry(p)
    BY <1>1, <1>3, <2>1, AppendToOne
  <2>3. \/ shown'[p] = received'[p]
        \/ shown'[p] = <<Entry(p)>> /\ inv[p].process = "registrar"
    <3>1. CASE inv[p].json
      BY <1>4, <3>1
    <3>2. CASE ~inv[p].json /\ inv[p].process = "registrar"
      BY <1>4, <1>7, <2>2, <3>2 DEF Follows, Hides
    <3>3. CASE ~inv[p].json /\ inv[p].process # "registrar"
      BY <1>3, <1>4, <1>7, <2>2, <3>3 DEF Follows, Hides
    <3> QED BY <3>1, <3>2, <3>3
  <2>4. Len(<<Entry(p)>>) = 1 /\ <<Entry(p)>>[1] = Entry(p)
    OBVIOUS
  <2>5. shown'[p] # <<>> /\ shown'[p][Len(shown'[p])] = Entry(p) /\ Len(shown'[p]) <= 2
    <3>1. CASE shown'[p] = received'[p]
      <4>1. shown'[p] # <<>>
        BY <2>2, <3>1, Zenon
      <4>2. shown'[p][Len(shown'[p])] = Entry(p) /\ Len(shown'[p]) = 2
        BY <2>2, <3>1, Zenon
      <4> QED BY <4>1, <4>2
    <3>2. CASE shown'[p] = <<Entry(p)>>
      BY <2>4, <3>2
    <3> QED BY <2>3, <3>1, <3>2
  <2>6. Succeeds(p)'
    BY <1>2, <2>1, <2>2, <2>3, <2>5 DEF Succeeds, Wants, Entry
  <2> QED BY <1>2, <2>2, <2>5, <2>6 DEF CliInv, Course, Looking, Requesting, Holding
<1> QED BY <1>1, <1>6, <1>7

LEMMA ResetCourse ==
  ASSUME CliInv, NEW p \in Procs, Remove(p) \/ ResetDone(p)
  PROVE  Course(p)'
<1>1. Keeps(p) /\ pc[p] \in {"removing", "init"} /\ inv[p].reset
  BY DEF Remove, ResetDone, Keeps, CliInv, Course
<1>2. \/ pc'[p] = "init" /\ exit'[p] = exit[p]
      \/ pc'[p] = "done"
  BY DEF Remove, ResetDone, CliInv, Values
<1> QED BY <1>1, <1>2 DEF CliInv, Course, Keeps, Looking, Requesting, Holding

LEMMA CliCourse ==
  ASSUME CliInv, [Next]_vars, NEW q \in Procs
  PROVE  Course(q)'
<1>1. CASE \E p \in Procs \ {q} : Start(p) \/ Step(p) \/ Crash(p)
  BY <1>1, OthersStay, CourseStays DEF CliInv
<1>2. CASE Start(q)
  BY <1>2, StartCourse
<1>3. CASE Step(q)
  BY <1>3, LookCourse, GetUrlsCourse, RequestCourse, SaveCourse, ReferCourse,
     NoRegistrarCourse, FinishCourse, ResetCourse DEF Step
<1>4. CASE Crash(q)
  <2>1. Keeps(q) /\ pc'[q] = "done" /\ exit'[q] = "killed"
    BY <1>4 DEF Crash, Keeps, CliInv, Values
  <2> QED BY <2>1, CourseEnds
<1>5. CASE UNCHANGED vars \/ \E f \in Files : Expire(f)
  BY <1>5, CourseStays DEF vars, Expire, Stays, CliInv
<1> QED BY <1>1, <1>2, <1>3, <1>4, <1>5 DEF Next

---------------------------------------------------------------------------
(* Sound.                                                                  *)

Writing == {"putting", "saving", "saving_self"}

(* Sound for the one invocation that is on its way.                        *)
SoundFor(p) ==
  /\ ~Ended(p) /\ pc[p] # "init" => dirs = Dirs
  /\ \A f \in Files : (file[f].is = "torn") <=> Writes(p, f)
  /\ pc[p] = "get" => file[RegistryFile(Registry(p))].is = "whole"

LEMMA OnlyOne ==
  ASSUME Sound, ~disturbed, NEW p \in Procs, ~Ended(p) \/ Alone(p)
  PROVE  Alone(p) /\ SoundFor(p)
<1>1. Alone(p)
  BY DEF Sound, Alone
<1>2. \A q \in Procs \ {p}, f \in Files : ~Writes(q, f)
  BY <1>1 DEF Alone, Ended, Writes
<1> QED BY <1>1, <1>2 DEF Sound, SoundFor

LEMMA SoundForOne ==
  ASSUME NEW p \in Procs, Alone(p), \A q \in Procs \ {p} : Stays(q), SoundFor(p)'
  PROVE  Sound'
<1>1. \A q \in Procs \ {p} : Ended(q)' /\ pc'[q] \notin {"get"} \union Writing
  BY DEF Alone, Ended, Stays, Writing
<1>2. \A q \in Procs \ {p}, f \in Files : ~Writes(q, f)'
  BY <1>1 DEF Writes, Writing
<1> QED BY <1>1, <1>2 DEF Sound, SoundFor

(* A step that leaves the cache alone, and is not one of a write.          *)
LEMMA QuietSound ==
  ASSUME NEW p \in Procs, SoundFor(p), ~Ended(p), pc[p] # "init", UNCHANGED fileVars,
         pc[p] \notin Writing, pc'[p] \notin Writing \union {"get"}
  PROVE  SoundFor(p)'
BY DEF SoundFor, Writes, Writing

(* Nothing is torn where nothing is being written.                         *)
LEMMA NothingTorn ==
  ASSUME NEW p \in Procs, SoundFor(p), pc[p] \notin Writing, NEW f \in Files
  PROVE  file[f].is # "torn"
BY DEF SoundFor, Writes, Writing

LEMMA LookSound ==
  ASSUME CliInv, NEW p \in Procs, SoundFor(p),
         HasRegistry(p) \/ FetchRegistry(p) \/ PutRegistry(p) \/ RegistryPut(p) \/ GetUrls(p)
  PROVE  SoundFor(p)'
<1>1. /\ pc[p] \in Looking /\ dirs = Dirs /\ Registry(p) \in Registries
      /\ RegistryFile(Registry(p)) \in Files
  BY AtHand, FileNames DEF HasRegistry, FetchRegistry, PutRegistry, RegistryPut, GetUrls,
     Looking, SoundFor, Ended
<1>2. ASSUME NEW result, NoBaseUrl(p, result)
      PROVE  pc'[p] \in {"read", "done"}
  BY <1>2 DEF NoBaseUrl, AskUrl, CliInv, Values
<1>3. CASE HasRegistry(p)
  <2>1. file[RegistryFile(Registry(p))].is # "torn"
    BY <1>1, <1>3, NothingTorn DEF HasRegistry, Writing
  <2>2. \/ pc'[p] = "fetch"
        \/ pc'[p] = "get" /\ file[RegistryFile(Registry(p))].is = "whole"
    BY <1>3, <2>1 DEF HasRegistry, CliInv, Values
  <2>3. Registry(p)' = Registry(p)
    BY <1>3 DEF HasRegistry, Registry
  <2> QED BY <1>1, <1>3, <2>2, <2>3 DEF HasRegistry, SoundFor, Writes
<1>4. CASE FetchRegistry(p)
  <2>1. pc'[p] \in {"read", "done", "put"}
    BY <1>2, <1>4 DEF FetchRegistry, CliInv, Values
  <2> QED BY <1>4, <2>1, QuietSound DEF FetchRegistry, Ended, Writing
<1>5. CASE PutRegistry(p)
  <2>1. Truncate(RegistryFile(Registry(p))) /\ pc'[p] = "putting" /\ UNCHANGED dirs
    BY <1>1, <1>5 DEF PutRegistry, Dirs, CliInv, Values
  <2>2. Registry(p)' = Registry(p)
    BY <1>5 DEF PutRegistry, Registry
  <2>3. \A f \in Files : (file'[f].is = "torn") <=> f = RegistryFile(Registry(p))
    BY <1>1, <1>5, <2>1, NothingTorn
       DEF PutRegistry, Writing, Truncate, Torn, CliInv, Values, FilesOK
  <2> QED BY <1>1, <2>1, <2>2, <2>3 DEF SoundFor, Writes
<1>6. CASE RegistryPut(p)
  <2>1. \A f \in Files : (file[f].is = "torn") <=> f = RegistryFile(Registry(p))
    BY <1>6 DEF RegistryPut, SoundFor, Writes
  <2>2. file' = [file EXCEPT ![RegistryFile(Registry(p))] = Whole(download[p])]
    BY <1>1, <1>6, <2>1 DEF RegistryPut, Fill
  <2>3. /\ file'[RegistryFile(Registry(p))].is = "whole"
        /\ \A f \in Files : file'[f].is # "torn"
    BY <1>1, <2>1, <2>2 DEF Whole, CliInv, Values, FilesOK
  <2>4. pc'[p] = "get" /\ UNCHANGED dirs /\ Registry(p)' = Registry(p)
    BY <1>6 DEF RegistryPut, Registry, CliInv, Values
  <2> QED BY <1>1, <2>3, <2>4 DEF SoundFor, Writes
<1>7. CASE GetUrls(p)
  <2>1. file[RegistryFile(Registry(p))].is = "whole"
    BY <1>7 DEF GetUrls, SoundFor
  <2>2. pc'[p] \in {"read", "done", "has"}
    BY <1>2, <1>7, <2>1 DEF GetUrls, AskUrl, CliInv, Values
  <2> QED BY <1>7, <2>2, QuietSound DEF GetUrls, Ended, Writing
<1> QED BY <1>3, <1>4, <1>5, <1>6, <1>7

LEMMA RequestSound ==
  ASSUME CliInv, NEW p \in Procs, SoundFor(p), ReadCache(p) \/ Send(p)
  PROVE  SoundFor(p)'
<1>1. pc[p] \in Requesting /\ UNCHANGED fileVars
  BY DEF ReadCache, Send, Requesting
<1>2. pc'[p] \in {"done", "send", "save", "got"}
  BY DEF ReadCache, Send, RequestFails, CliInv, Values
<1> QED BY <1>1, <1>2, QuietSound DEF Requesting, Writing, Ended

LEMMA SaveSound ==
  ASSUME CliInv, NEW p \in Procs, SoundFor(p), SaveStarts(p) \/ Saved(p)
  PROVE  SoundFor(p)'
<1>1. CASE SaveStarts(p)
  <2> DEFINE u == IF pc[p] = "save" THEN url[p] ELSE SelfUrl(answer[p])
  <2>1. u \in Urls /\ ResponseFile(u) \in Files /\ dirs = Dirs
    BY <1>1, AtHand, FileNames DEF SaveStarts, Holding, SoundFor, Ended
  <2>2. Truncate(ResponseFile(u)) /\ UNCHANGED <<dirs, url, answer>>
    BY <1>1, <2>1 DEF SaveStarts, Dirs
  <2>3. pc'[p] = IF pc[p] = "save" THEN "saving" ELSE "saving_self"
    BY <1>1, <2>1 DEF SaveStarts, Dirs, CliInv, Values
  <2>4. \A f \in Files : (file'[f].is = "torn") <=> f = ResponseFile(u)
    BY <1>1, <2>1, <2>2, NothingTorn
       DEF SaveStarts, Writing, Truncate, Torn, CliInv, Values, FilesOK
  <2>5. \A f : Writes(p, f)' <=> f = ResponseFile(u)
    BY <1>1, <2>2, <2>3 DEF Writes, SelfUrl, SaveStarts
  <2> QED BY <2>1, <2>2, <2>3, <2>4, <2>5 DEF SoundFor
<1>2. CASE Saved(p)
  <2> DEFINE u == IF pc[p] = "saving" THEN url[p] ELSE SelfUrl(answer[p])
  <2>1. u \in Urls /\ ResponseFile(u) \in Files /\ dirs = Dirs
    BY <1>2, AtHand, FileNames DEF Saved, Holding, SoundFor, Ended
  <2>2. \A f \in Files : (file[f].is = "torn") <=> f = ResponseFile(u)
    BY <1>2 DEF Saved, SoundFor, Writes
  <2>3. file' = [file EXCEPT ![ResponseFile(u)] = Whole(answer[p])]
    BY <1>2, <2>1, <2>2 DEF Saved, Fill
  <2>4. \A f \in Files : file'[f].is # "torn"
    BY <2>1, <2>2, <2>3 DEF Whole, CliInv, Values, FilesOK
  <2>5. pc'[p] \in {"save_self", "got"} /\ UNCHANGED dirs
    BY <1>2 DEF Saved, CliInv, Values
  <2> QED BY <2>1, <2>4, <2>5 DEF SoundFor, Writes
<1> QED BY <1>1, <1>2

LEMMA AnsweredSound ==
  ASSUME CliInv, NEW p \in Procs, SoundFor(p), Refer(p) \/ NoRegistrar(p) \/ Finish(p)
  PROVE  SoundFor(p)'
<1>1. pc[p] = "got" /\ UNCHANGED fileVars
  BY DEF Refer, NoRegistrar, Finish, Receive
<1>2. pc'[p] \in {"done", "read"}
  BY DEF Refer, NoRegistrar, Finish, AskUrl, CliInv, Values
<1> QED BY <1>1, <1>2, QuietSound DEF Writing, Ended

LEMMA CliSound ==
  ASSUME CliInv, [Next]_vars
  PROVE  Sound'
<1> SUFFICES ASSUME ~disturbed' PROVE Sound'
  BY DEF Sound
<1> USE DEF CliInv
<1>1. ASSUME NEW p \in Procs, Start(p)
      PROVE  Sound'
  <2>1. Alone(p) /\ ~disturbed
    BY <1>1 DEF Start
  <2>2. SoundFor(p) /\ pc[p] = "idle"
    BY <1>1, <2>1, OnlyOne DEF Start
  <2>3. pc'[p] \in {"removing", "read", "done", "has"}
    BY <1>1 DEF Start, AskUrl, NoBaseUrl, Values
  <2>4. SoundFor(p)'
    BY <1>1, <2>2, <2>3 DEF Start, SoundFor, Writes
  <2> QED BY <1>1, <2>1, <2>4, OthersStay, SoundForOne
<1>2. ASSUME NEW p \in Procs, Step(p), ~Remove(p)
      PROVE  Sound'
  <2>1. UNCHANGED disturbed
    BY <1>2 DEF Step, HasRegistry, FetchRegistry, PutRegistry, RegistryPut, GetUrls,
       ReadCache, Send, SaveStarts, Saved, Refer, NoRegistrar, Finish, Receive, ResetDone
  <2>2. pc[p] \notin {"idle", "done"}
    BY <1>2 DEF Step, HasRegistry, FetchRegistry, PutRegistry, RegistryPut, GetUrls,
       ReadCache, Send, SaveStarts, Saved, Refer, NoRegistrar, Finish, Receive, ResetDone
  <2>3. Alone(p) /\ SoundFor(p)
    BY <2>1, <2>2, OnlyOne DEF Ended
  <2>4. CASE ResetDone(p)
    <3>1. pc[p] = "init" /\ pc'[p] = "done" /\ UNCHANGED file
      BY <2>4 DEF ResetDone, Values
    <3> QED BY <2>3, <2>4, <3>1, OthersStay, SoundForOne
            DEF Step, SoundFor, Writes, Ended
  <2>5. CASE ~ResetDone(p)
    <3>1. SoundFor(p)'
      BY <1>2, <2>3, <2>5, LookSound, RequestSound, SaveSound, AnsweredSound DEF Step
    <3> QED BY <1>2, <2>3, <3>1, OthersStay, SoundForOne
  <2> QED BY <2>4, <2>5
<1>3. ASSUME NEW p \in Procs, Remove(p)
      PROVE  Sound'
  <2>1. Alone(p)
    <3>1. ~disturbed \/ Alone(p)
      BY <1>3 DEF Remove
    <3> QED BY <1>3, <3>1, OnlyOne DEF Remove, Ended
  <2>2. pc'[p] = "init" /\ file' = [f \in Files |-> Absent]
    BY <1>3, <2>1 DEF Remove, Values
  <2>3. SoundFor(p)'
    BY <2>2 DEF SoundFor, Writes, Absent
  <2> QED BY <1>3, <2>1, <2>3, OthersStay, SoundForOne DEF Step
<1>4. ASSUME NEW p \in Procs, Crash(p)
      PROVE  Sound'
  <2>1. ~disturbed /\ ~Ended(p) /\ pc[p] \notin Writing
    BY <1>4 DEF Crash, Writing
  <2>2. Alone(p) /\ SoundFor(p)
    BY <2>1, OnlyOne
  <2>3. pc'[p] = "done" /\ UNCHANGED fileVars
    BY <1>4 DEF Crash, Values
  <2>4. SoundFor(p)'
    BY <2>1, <2>2, <2>3, NothingTorn DEF SoundFor, Writes, Ended
  <2> QED BY <1>4, <2>2, <2>4, OthersStay, SoundForOne
<1>5. ASSUME NEW f \in Files, Expire(f)
      PROVE  Sound'
  <2>1. \A g \in Files : file'[g].is = file[g].is
    BY <1>5 DEF Expire, Values, FilesOK
  <2>2. \A p \in Procs : pc[p] = "get" => RegistryFile(Registry(p)) \in Files
    BY AtHand, FileNames DEF Looking
  <2>3. /\ UNCHANGED <<dirs, pc, inv, hint, url, answer, disturbed>>
        /\ \A p \in Procs : Registry(p)' = Registry(p)
    BY <1>5 DEF Expire, Registry
  <2>4. \A p \in Procs, g \in Files : Writes(p, g)' <=> Writes(p, g)
    BY <2>3 DEF Writes
  <2> QED BY <2>1, <2>2, <2>3, <2>4 DEF Sound, Ended
<1>6. CASE UNCHANGED vars
  BY <1>6 DEF vars, Sound, Ended, Writes, Registry
<1> QED BY <1>1, <1>2, <1>3, <1>4, <1>5, <1>6 DEF Next

---------------------------------------------------------------------------
(* The theorems.                                                           *)

LEMMA CliStep == CliInv /\ [Next]_vars => CliInv'
BY CliValues, CliCourse, CliSound DEF CliInv

LEMMA CliInvariance == Spec => []CliInv
<1>1. Init => CliInv
  BY CliInit
<1>2. CliInv /\ [Next]_vars => CliInv'
  BY CliStep
<1> QED BY <1>1, <1>2, PTL DEF Spec

(* The variables of the command have their types in every reachable state: *)
(* a file of a registry holds a registry, one of a response a response,    *)
(* and no invocation gets past the last registry or asks a third server.   *)
THEOREM CliTypes == Spec => []TypeOK
<1>1. CliInv => TypeOK
  <2> SUFFICES ASSUME CliInv PROVE TypeOK
    OBVIOUS
  <2>1. ASSUME NEW f \in Files
        PROVE  \/ file[f] \in {Absent, Torn}
               \/ /\ file[f].is = "whole" /\ file[f].fresh \in BOOLEAN
                  /\ \/ f[1] = "registry" /\ file[f].body \in BOOLEAN
                     \/ f[1] = "response" /\ file[f].body.from \in Urls
    <3>1. file[f] \in Contents
      BY DEF CliInv, Values, FilesOK
    <3>2. CASE file[f] \in {Absent, Torn}
      BY <3>2
    <3>3. CASE /\ file[f].is = "whole"
               /\ file[f] \in [is : {"whole"}, body : BOOLEAN \union AnAnswer, fresh : BOOLEAN]
      <4>1. file[f].fresh \in BOOLEAN
        BY <3>3
      <4>2. ASSUME NEW r \in Registries, f = RegistryFile(r)
            PROVE  f[1] = "registry" /\ file[f].body \in BOOLEAN
        BY <3>3, <4>2 DEF CliInv, Values, FilesOK, RegistryFile
      <4>3. ASSUME NEW u \in Urls, f = ResponseFile(u)
            PROVE  f[1] = "response" /\ file[f].body.from \in Urls
        BY <3>3, <4>3 DEF CliInv, Values, FilesOK, ResponseFile, Fits, AnAnswer
      <4> QED BY <3>3, <4>1, <4>2, <4>3, FileNames
    <3> QED BY <3>1, <3>2, <3>3 DEF Contents
  <2>2. ASSUME NEW p \in Procs
        PROVE  /\ pc[p] \in {"idle", "has", "fetch", "put", "putting", "get", "read", "send",
                             "save", "saving", "save_self", "saving_self", "got",
                             "removing", "init", "done"}
               /\ hint[p] \in 0..Len(HintOrder)
               /\ url[p] \in Urls \union {NoUrl}
               /\ Len(received[p]) <= 2 /\ Len(shown[p]) <= Len(received[p])
    <3>1. hint[p] \in Nat /\ Len(HintOrder) \in Nat /\ hint[p] < Len(HintOrder)
      BY RegistriesAssumption DEF CliInv, Values, Course
    <3> QED BY <3>1 DEF CliInv, Values, Course, Pcs, Looking, Requesting, Holding
  <2> QED BY <2>1, <2>2 DEF TypeOK, CliInv, Values
<1> QED BY <1>1, CliInvariance, PTL

(* What an invocation shows for a URL came from that URL, or from a server *)
(* that calls it its object's own, whatever the other invocations that     *)
(* share the cache are doing, and wherever they were killed.               *)
THEOREM ShownFits == Spec => []ShownAnswersAsked
<1>1. CliInv => ShownAnswersAsked
  <2> SUFFICES ASSUME CliInv, NEW p \in Procs, NEW i \in 1..Len(shown[p])
               PROVE  shown[p][i].asked \in {shown[p][i].answer.from, shown[p][i].answer.self}
    BY DEF ShownAnswersAsked
  <2>1. shown[p][i] \in Entries
    BY ElementOfSeq DEF CliInv, Values
  <2> QED BY <2>1 DEF Entries, Fits
<1> QED BY <1>1, CliInvariance, PTL

(* An invocation that succeeds has shown the registry's answer, that of    *)
(* the registrar the registry links to, or both, as it was told.           *)
THEOREM SuccessMeans == Spec => []SuccessShows
<1>1. CliInv => SuccessShows
  BY DEF CliInv, Course, Succeeds, Wants, SuccessShows
<1> QED BY <1>1, CliInvariance, PTL

LEMMA NoCacheStep ==
  ASSUME CliInv, [Next]_vars, NEW p \in Procs, pc'[p] # pc[p], inv[p].noCache, ~inv[p].reset
  PROVE  /\ \A u \in Urls : file'[ResponseFile(u)] = file[ResponseFile(u)]
         /\ received'[p] # received[p] => answer[p].from = url[p]
<1>1. Start(p) \/ Step(p) \/ Crash(p)
  <2>1. ASSUME NEW q \in Procs \ {p}
        PROVE  ~(Start(q) \/ Step(q) \/ Crash(q))
    BY <2>1, OthersStay DEF Stays, CliInv
  <2> QED BY <2>1 DEF Next, Expire, vars
<1>2. CASE Start(p) \/ Crash(p) \/ HasRegistry(p) \/ FetchRegistry(p) \/ GetUrls(p)
           \/ ReadCache(p) \/ Send(p)
  BY <1>2 DEF Start, Crash, HasRegistry, FetchRegistry, GetUrls, ReadCache, Send
<1>3. CASE PutRegistry(p) \/ RegistryPut(p)
  <2>1. UNCHANGED received
    BY <1>3 DEF PutRegistry, RegistryPut
  <2>2. ASSUME NEW f \in Files, f # RegistryFile(Registry(p))
        PROVE  file'[f] = file[f]
    <3>1. file[RegistryFile(Registry(p))].is \in {"absent", "torn", "whole"}
      BY <1>3, AtHand, FileNames
         DEF PutRegistry, RegistryPut, Looking, CliInv, Values, FilesOK, Contents, Absent, Torn
    <3>2. \/ UNCHANGED file
          \/ \E c : file' = [file EXCEPT ![RegistryFile(Registry(p))] = c]
      BY <1>3, <3>1 DEF PutRegistry, RegistryPut, Truncate, Fill
    <3> QED BY <2>2, <3>2 DEF CliInv, Values, FilesOK
  <2> QED BY <2>1, <2>2, FileNames
<1>4. CASE SaveStarts(p) \/ Saved(p)
  BY <1>4 DEF SaveStarts, Saved, CliInv, Course, Holding
<1>5. CASE Refer(p) \/ NoRegistrar(p) \/ Finish(p)
  BY <1>5 DEF Refer, NoRegistrar, Finish, Receive, CliInv, Course, Holding
<1>6. CASE Remove(p) \/ ResetDone(p)
  BY <1>6 DEF Remove, ResetDone, CliInv, Course
<1> QED BY <1>1, <1>2, <1>3, <1>4, <1>5, <1>6 DEF Step

(* An invocation with --no-cache neither takes an answer from the cache of *)
(* responses nor changes it.                                               *)
THEOREM NoCacheMeans == Spec => NoCacheBypasses
<1>1. CliInv /\ [Next]_vars =>
        [\A p \in Procs :
           pc'[p] # pc[p] /\ inv[p].noCache /\ ~inv[p].reset =>
             /\ \A u \in Urls : file'[ResponseFile(u)] = file[ResponseFile(u)]
             /\ received'[p] # received[p] => answer[p].from = url[p]]_vars
  BY NoCacheStep
<1> QED BY <1>1, CliInvariance, PTL DEF Spec, NoCacheBypasses

LEMMA UndisturbedStep ==
  ASSUME CliInv, [Next]_vars, ~disturbed, NEW p \in Procs, exit'[p] # exit[p]
  PROVE  exit'[p] \notin {"bad_cache", "io"}
<1> USE DEF CliInv
<1>1. Start(p) \/ Step(p) \/ Crash(p)
  <2>1. ASSUME NEW q \in Procs \ {p}
        PROVE  ~(Start(q) \/ Step(q) \/ Crash(q))
    BY <2>1, OthersStay DEF Stays
  <2> QED BY <2>1 DEF Next, Expire, vars
<1>2. ASSUME NEW result, NoBaseUrl(p, result) \/ RequestFails(p, result) \/ End(p, result),
             result \notin {"bad_cache", "io"}
      PROVE  exit'[p] \notin {"bad_cache", "io"}
  BY <1>2 DEF NoBaseUrl, AskUrl, RequestFails, Values
<1>3. CASE Start(p) \/ Crash(p) \/ FetchRegistry(p) \/ Send(p) \/ Refer(p) \/ NoRegistrar(p)
           \/ Finish(p) \/ ResetDone(p) \/ RegistryPut(p) \/ Saved(p)
  <2>1. CASE Start(p)
    BY <1>2, <2>1 DEF Start, AskUrl
  <2>2. CASE FetchRegistry(p)
    BY <1>2, <2>2 DEF FetchRegistry
  <2>3. CASE Send(p)
    BY <1>2, <2>3 DEF Send
  <2>4. CASE Crash(p) \/ NoRegistrar(p) \/ Finish(p) \/ ResetDone(p)
    BY <1>2, <2>4 DEF Crash, NoRegistrar, Finish, ResetDone
  <2>5. CASE Refer(p) \/ RegistryPut(p) \/ Saved(p)
    BY <2>5 DEF Refer, AskUrl, RegistryPut, Saved
  <2> QED BY <1>3, <2>1, <2>2, <2>3, <2>4, <2>5
<1>4. CASE HasRegistry(p) \/ PutRegistry(p) \/ GetUrls(p)
  <2>1. ~Ended(p) /\ pc[p] \in Looking
    BY <1>4 DEF HasRegistry, PutRegistry, GetUrls, Ended, Looking
  <2>2. SoundFor(p)
    BY <2>1, OnlyOne
  <2>3. RegistryFile(Registry(p)) \in Files
    BY <2>1, AtHand, FileNames
  <2>4. HasRegistry(p) => file[RegistryFile(Registry(p))].is # "torn"
    BY <2>2, <2>3, NothingTorn DEF HasRegistry, Writing
  <2>5. PutRegistry(p) => "registry" \in dirs
    BY <2>1, <2>2 DEF PutRegistry, SoundFor, Dirs
  <2>6. GetUrls(p) => file[RegistryFile(Registry(p))].is = "whole"
    BY <2>2 DEF GetUrls, SoundFor
  <2>7. CASE HasRegistry(p)
    BY <2>4, <2>7 DEF HasRegistry
  <2>8. CASE PutRegistry(p)
    BY <2>5, <2>8 DEF PutRegistry
  <2>9. CASE GetUrls(p)
    <3>1. UNCHANGED exit \/ NoBaseUrl(p, "no_bootstrap")
      BY <2>6, <2>9 DEF GetUrls, AskUrl
    <3> QED BY <1>2, <3>1
  <2> QED BY <1>4, <2>7, <2>8, <2>9
<1>5. CASE ReadCache(p) \/ SaveStarts(p)
  <2>1. ~Ended(p) /\ pc[p] \in {"read", "save", "save_self"}
    BY <1>5 DEF ReadCache, SaveStarts, Ended
  <2>2. SoundFor(p)
    BY <2>1, OnlyOne
  <2>3. url[p] \in Urls /\ ResponseFile(url[p]) \in Files
    BY <2>1, AtHand, FileNames DEF Requesting, Holding
  <2>4. file[ResponseFile(url[p])].is # "torn"
    BY <2>1, <2>2, <2>3, NothingTorn DEF Writing
  <2>5. "response" \in dirs
    BY <2>1, <2>2 DEF SoundFor, Dirs
  <2> QED BY <1>5, <2>4, <2>5 DEF ReadCache, SaveStarts
<1>6. CASE Remove(p)
  <2>1. Alone(p)
    BY <1>6, OnlyOne DEF Remove, Ended
  <2> QED BY <1>6, <2>1 DEF Remove
<1> QED BY <1>1, <1>3, <1>4, <1>5, <1>6 DEF Step

(* No invocation fails on the caches as long as they were used by one at a *)
(* time, none of which was killed in a write; a reset makes up for it.     *)
THEOREM UndisturbedMeans == Spec => UndisturbedWorks
<1>1. CliInv /\ [Next]_vars =>
        [~disturbed =>
           \A p \in Procs : exit'[p] # exit[p] => exit'[p] \notin {"bad_cache", "io"}]_vars
  BY UndisturbedStep
<1> QED BY <1>1, CliInvariance, PTL DEF Spec, UndisturbedWorks
=============================================================================
