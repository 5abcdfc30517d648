------------------------- MODULE RdapServerProofs --------------------------
(***************************************************************************)
(* What holds of the server process and its data directory for any files,  *)
(* registries, versions and bounds, through any crash, failed download,    *)
(* malformed registry, failed load and run of rdap-srv-store.              *)
(*                                                                         *)
(* The argument has three parts, each an invariant of its own:             *)
(*   Shape    what the variables hold, and how the start of the process,   *)
(*            its bootstrap and its reload task go together;               *)
(*   Made     what the template files of a registry are, at every stage of *)
(*            the pass that makes them;                                    *)
(*   Told     a file the server does not serve is one a load under way     *)
(*            will read, or something is still to come that makes the      *)
(*            server load again.                                           *)
(***************************************************************************)
EXTENDS RdapServer, TLAPS

(* The values of the variables.                                            *)
Values ==
  /\ dir \in [Files -> Nat \union {Torn}]
  /\ trigger \in [Triggers -> Nat]
  /\ clock \in Nat
  /\ lastTime \in Nat
  /\ served \in [Files -> SUBSET (Nat \ {Absent})]
  /\ draft \in [Files -> SUBSET (Nat \ {Absent})]
  /\ loader \in Loaders
  /\ listed \subseteq Files
  /\ visited \subseteq Files
  /\ reloadPc \in ReloadPcs
  /\ published \in [Registries -> Nat]
  /\ cache \in [Registries -> Nat \union {Torn}]
  /\ expired \in [Registries -> BOOLEAN]
  /\ bootPc \in BootPcs
  /\ bootAt \in DOMAIN RegistryOrder
  /\ bootVersion \in Nat
  /\ todo \subseteq Files
  /\ newData \in BOOLEAN
  /\ cutShort \subseteq Registries
  /\ server \in ServerPcs
  /\ storePc \in StorePcs
  /\ toCopy \subseteq StoreFiles
  /\ stores \in 0..MaxStores
  /\ untold \in BOOLEAN
  /\ crashes \in Nat
  /\ expiries \in Nat

(* Versions are published before they are anywhere else, and times are     *)
(* stamped before anybody reads them.                                      *)
Bounds ==
  /\ \A k \in Triggers : trigger[k] <= clock
  /\ lastTime <= clock
  /\ \A r \in Registries :
       /\ published[r] \in 1..LastVersion(r)
       /\ cache[r] \in {Torn, Absent} \union 1..published[r]
       /\ \A f \in Slots(r) : dir[f] \in {Torn, Absent} \union 1..published[r]
  /\ MakingTemplates => bootVersion \in 1..published[Here]
  /\ bootPc \in {"remove", "make", "making"} => todo \subseteq Slots(Here)
  /\ \A f \in StoreFiles : dir[f] \in {Torn, Absent} \union 1..MaxStores
  /\ storePc = "copying" => stores >= 1
  /\ storePc # "copying" => toCopy = {}

(* How far the process, the bootstrap and the reload task are.             *)
Stages ==
  /\ server = "down" <=> bootPc = "off"
  /\ server # "serving" => reloadPc = "off"
  /\ server = "bootstrap" => bootPc # "sleep"
  /\ loader \in {"update", "reload"} => reloadPc \in {"updating", "reloading"}

Shape == Values /\ Bounds /\ Stages

(* The file f of a registry is as the version v of it wants it.            *)
IsMade(r, v, f) ==
  dir[f] = IF v # Absent /\ f \in Service(r, v) THEN v ELSE Absent

(* The files of the registry the pass is at: first those made before go,   *)
(* then those of the new version are made, one at a time.                  *)
HereMade ==
  /\ bootPc = "remove" =>
       /\ cache[Here] = bootVersion
       /\ \A f \in Slots(Here) \ todo : dir[f] = Absent
  /\ bootPc \in {"make", "making"} =>
       /\ cache[Here] = bootVersion
       /\ todo \subseteq Service(Here, bootVersion)
       /\ \A f \in Slots(Here) \ todo : IsMade(Here, bootVersion, f)
  /\ bootPc = "make" => \A f \in todo : dir[f] = Absent
  /\ bootPc = "making" => \E g \in todo : \A f \in todo \ {g} : dir[f] = Absent

Made ==
  /\ \A r \in Registries \ cutShort :
       (MakingTemplates => r # Here) => \A f \in Slots(r) : IsMade(r, cache[r], f)
  /\ HereMade

(* What makes the server load again: it has not loaded yet, somebody is    *)
(* writing who will set a trigger, or a trigger was set that the task has  *)
(* still to see; or nothing ever will, and the server is not at rest.      *)
Coming ==
  \/ server \in {"down", "bootstrap"}
  \/ untold
  \/ storePc # "idle"
  \/ reloadPc = "dead"
  \/ bootPc = "failed" \/ MakingTemplates
  \/ newData /\ bootPc \in {"check", "notify"}
  \/ ReloadTaskAlive /\ \E k \in Triggers : trigger[k] > lastTime

(* A file is served as it is, or a load under way has it or will read it.  *)
Current(f) ==
  IF loader = "none" THEN dir[f] \in served[f]
  ELSE (f \in visited /\ dir[f] \in draft[f]) \/ f \in listed \ visited

Told == Coming \/ \A f \in Present : Current(f)

---------------------------------------------------------------------------
(* Shape                                                                   *)

(* The registry the pass is at is one, and there is a first one.           *)
LEMMA Places ==
  /\ Len(RegistryOrder) \in Nat \ {0}
  /\ DOMAIN RegistryOrder = 1..Len(RegistryOrder)
  /\ 1 \in DOMAIN RegistryOrder
  /\ bootAt \in DOMAIN RegistryOrder => Here \in Registries
<1>1. /\ RegistryOrder \in Seq(Registries) /\ RegistryOrder # <<>>
  BY RegistriesAssumption
<1>2. Len(RegistryOrder) \in Nat /\ DOMAIN RegistryOrder = 1..Len(RegistryOrder)
  BY <1>1
<1>3. Len(RegistryOrder) # 0
  BY <1>1
<1>4. bootAt \in DOMAIN RegistryOrder => Here \in Registries
  BY DEF Here, Registries
<1> QED BY <1>2, <1>3, <1>4

LEMMA InitShape == Init => Shape
<1> SUFFICES ASSUME Init PROVE Shape
  OBVIOUS
<1> USE DEF Init, DirInit, LoadInit, BootInit
<1>1. Values
  <2>1. dir \in [Files -> Nat \union {Torn}] /\ trigger \in [Triggers -> Nat]
    BY DEF Absent
  <2>2. served \in [Files -> SUBSET (Nat \ {Absent})] /\ draft \in [Files -> SUBSET (Nat \ {Absent})]
    BY DEF Nothing
  <2>3. /\ published \in [Registries -> Nat] /\ cache \in [Registries -> Nat \union {Torn}]
        /\ expired \in [Registries -> BOOLEAN]
    BY DEF Absent
  <2>4. bootAt \in DOMAIN RegistryOrder /\ stores \in 0..MaxStores
    BY Places, BoundsAssumption
  <2> QED BY <2>1, <2>2, <2>3, <2>4
          DEF Values, Loaders, ReloadPcs, BootPcs, ServerPcs, StorePcs
<1>2. Bounds
  BY RegistriesAssumption, FilesAssumption DEF Bounds, MakingTemplates, Absent, Triggers
<1>3. Stages
  BY DEF Stages
<1> QED BY <1>1, <1>2, <1>3 DEF Shape

LEMMA ServerShape == ASSUME Shape, ServerStep PROVE Shape'
<1> USE DEF loadVars, taskVars, pastVars, bootVars, bootTaskVars, dirVars, storeVars
<1>1. CASE Start
  <2> USE <1>1 DEF Start, BeginPass
  <2>1. Values'
    BY Places DEF Shape, Values, BootPcs, ServerPcs
  <2>2. Bounds'
    BY DEF Shape, Bounds, MakingTemplates
  <2>3. Stages'
    BY DEF Shape, Stages
  <2> QED BY <2>1, <2>2, <2>3 DEF Shape
<1>2. CASE BootstrapReady
  <2> USE <1>2 DEF BootstrapReady, BeginLoad
  <2>1. Values'
    BY DEF Shape, Values, BootPcs, ServerPcs, Loaders, Nothing, Present
  <2>2. Bounds'
    BY DEF Shape, Bounds, MakingTemplates, Here
  <2>3. Stages'
    BY DEF Shape, Stages
  <2> QED BY <2>1, <2>2, <2>3 DEF Shape
<1>3. CASE BootstrapFailed
  <2> USE <1>3 DEF BootstrapFailed
  <2>1. Values'
    BY DEF Shape, Values, BootPcs, ServerPcs
  <2>2. Bounds'
    BY DEF Shape, Bounds, MakingTemplates
  <2>3. Stages'
    BY DEF Shape, Stages
  <2> QED BY <2>1, <2>2, <2>3 DEF Shape
<1>4. CASE InitialLoadDone
  <2> USE <1>4 DEF InitialLoadDone, LoadDone, DropLoad
  <2>1. Values'
    BY DEF Shape, Values, ReloadPcs, ServerPcs, Loaders, Nothing
  <2>2. Bounds'
    BY DEF Shape, Bounds, MakingTemplates, Here
  <2>3. Stages'
    BY DEF Shape, Stages
  <2> QED BY <2>1, <2>2, <2>3 DEF Shape
<1>5. CASE InitialLoadFailed
  <2> USE <1>5 DEF InitialLoadFailed, LoadError, DropLoad, AbandonPass
  <2>1. Values'
    BY Places DEF Shape, Values, BootPcs, ServerPcs, Loaders, Nothing
  <2>2. Bounds'
    BY DEF Shape, Bounds, MakingTemplates
  <2>3. Stages'
    BY DEF Shape, Stages
  <2> QED BY <2>1, <2>2, <2>3 DEF Shape
<1>6. CASE BootstrapAgain
  <2> USE <1>6 DEF BootstrapAgain, BeginPass
  <2>1. Values'
    BY Places DEF Shape, Values, BootPcs
  <2>2. Bounds'
    BY DEF Shape, Bounds, MakingTemplates
  <2>3. Stages'
    BY DEF Shape, Stages
  <2> QED BY <2>1, <2>2, <2>3 DEF Shape
<1>7. CASE PassDone
  <2> USE <1>7 DEF PassDone
  <2>1. Values'
    BY DEF Shape, Values, BootPcs
  <2>2. Bounds'
    BY DEF Shape, Bounds, MakingTemplates
  <2>3. Stages'
    BY DEF Shape, Stages
  <2> QED BY <2>1, <2>2, <2>3 DEF Shape
<1> QED BY <1>1, <1>2, <1>3, <1>4, <1>5, <1>6, <1>7 DEF ServerStep

LEMMA LoadTaskShape == ASSUME Shape, LoadTask PROVE Shape'
<1> USE DEF LoadTask, loadVars, taskVars, pastVars, bootVars, bootTaskVars, dirVars, storeVars
<1>1. CASE StartReloadTask
  <2> USE <1>1 DEF StartReloadTask
  <2>1. Values'
    BY DEF Shape, Values, ReloadPcs
  <2>2. Bounds'
    BY DEF Shape, Bounds, MakingTemplates, Here, Values
  <2>3. Stages'
    BY DEF Shape, Stages
  <2> QED BY <2>1, <2>2, <2>3 DEF Shape
<1>2. CASE CheckUpdate
  <2> USE <1>2 DEF CheckUpdate, BeginLoad
  <2>1. Values'
    BY DEF Shape, Values, ReloadPcs, Loaders, Nothing, Present, Triggers
  <2>2. Bounds'
    BY DEF Shape, Bounds, MakingTemplates, Here, Values, Triggers
  <2>3. Stages'
    BY DEF Shape, Stages
  <2> QED BY <2>1, <2>2, <2>3 DEF Shape
<1>3. CASE CheckReload
  <2> USE <1>3 DEF CheckReload, BeginLoad
  <2>1. Values'
    BY DEF Shape, Values, ReloadPcs, Loaders, Nothing, Present, Triggers
  <2>2. Bounds'
    BY DEF Shape, Bounds, MakingTemplates, Here, Values, Triggers
  <2>3. Stages'
    BY DEF Shape, Stages
  <2> QED BY <2>1, <2>2, <2>3 DEF Shape
<1>4. CASE TaskLoadDone
  <2> USE <1>4 DEF TaskLoadDone, LoadDone, DropLoad
  <2>1. Values'
    BY DEF Shape, Values, ReloadPcs, Loaders, Nothing
  <2>2. Bounds'
    BY DEF Shape, Bounds, MakingTemplates, Here
  <2>3. Stages'
    BY DEF Shape, Stages
  <2> QED BY <2>1, <2>2, <2>3 DEF Shape
<1>5. CASE TaskLoadError
  <2> USE <1>5 DEF TaskLoadError, LoadError, DropLoad
  <2>1. Values'
    BY DEF Shape, Values, ReloadPcs, Loaders, Nothing
  <2>2. Bounds'
    BY DEF Shape, Bounds, MakingTemplates, Here
  <2>3. Stages'
    BY DEF Shape, Stages
  <2> QED BY <2>1, <2>2, <2>3 DEF Shape
<1> QED BY <1>1, <1>2, <1>3, <1>4, <1>5 DEF ReloadTaskStep

LEMMA LoadingShape == ASSUME Shape, Loading PROVE Shape'
<1> USE DEF Loading, loadVars, taskVars, pastVars, bootVars, bootTaskVars, dirVars, storeVars
<1>1. ASSUME NEW f \in Files, LoadFile(f) PROVE Shape'
  <2> USE <1>1 DEF LoadFile
  <2>1. Values'
    BY DEF Shape, Values, Torn
  <2>2. Bounds'
    BY DEF Shape, Bounds, MakingTemplates, Here
  <2>3. Stages'
    BY DEF Shape, Stages
  <2> QED BY <2>1, <2>2, <2>3 DEF Shape
<1>2. ASSUME NEW f \in Files, MissFile(f) PROVE Shape'
  <2> USE <1>2 DEF MissFile
  <2>1. Values'
    BY DEF Shape, Values
  <2>2. Bounds'
    BY DEF Shape, Bounds, MakingTemplates, Here
  <2>3. Stages'
    BY DEF Shape, Stages
  <2> QED BY <2>1, <2>2, <2>3 DEF Shape
<1> QED BY <1>1, <1>2 DEF LoadStep

LEMMA BootstrappingShape == ASSUME Shape, Bootstrapping PROVE Shape'
<1> USE DEF Bootstrapping, Tell, loadVars, taskVars, pastVars, bootVars, bootTaskVars, dirVars, storeVars
<1>1. CASE UseCache
  <2> USE <1>1 DEF UseCache, NextRegistry
  <2>1. Values'
    BY Places DEF Shape, Values, BootPcs
  <2>2. Bounds'
    BY DEF Shape, Bounds, MakingTemplates
  <2>3. Stages'
    BY DEF Shape, Stages
  <2> QED BY <2>1, <2>2, <2>3 DEF Shape
<1>2. CASE Download
  <2> USE <1>2 DEF Download
  <2>1. Values'
    BY Places DEF Shape, Values, BootPcs
  <2>2. Bounds'
    BY Places DEF Shape, Bounds, MakingTemplates, Here, Values
  <2>3. Stages'
    BY DEF Shape, Stages
  <2> QED BY <2>1, <2>2, <2>3 DEF Shape
<1>3. CASE CacheWritten
  <2> USE <1>3 DEF CacheWritten
  <2>1. Values'
    BY Places DEF Shape, Values, BootPcs, Present
  <2>2. Bounds'
    BY Places DEF Shape, Bounds, MakingTemplates, Here, Values
  <2>3. Stages'
    BY DEF Shape, Stages
  <2> QED BY <2>1, <2>2, <2>3 DEF Shape
<1>4. CASE AllRemoved
  <2> USE <1>4 DEF AllRemoved
  <2>1. Here \in Registries /\ bootVersion \in 1..LastVersion(Here)
    BY Places, RegistriesAssumption DEF Shape, Values, Bounds, MakingTemplates
  <2>2. Service(Here, bootVersion) \subseteq Slots(Here) /\ Slots(Here) \subseteq Files
    BY <2>1, FilesAssumption
  <2>3. Values'
    BY <2>2 DEF Shape, Values, BootPcs
  <2>4. Bounds'
    BY <2>2 DEF Shape, Bounds, MakingTemplates, Here
  <2>5. Stages'
    BY DEF Shape, Stages
  <2> QED BY <2>3, <2>4, <2>5 DEF Shape
<1>5. CASE RegistryMade
  <2> USE <1>5 DEF RegistryMade, NextRegistry
  <2>1. Values'
    BY Places DEF Shape, Values, BootPcs
  <2>2. Bounds'
    BY DEF Shape, Bounds, MakingTemplates
  <2>3. Stages'
    BY DEF Shape, Stages
  <2> QED BY <2>1, <2>2, <2>3 DEF Shape
<1>6. CASE Notify
  <2> USE <1>6 DEF Notify, Touch
  <2>1. Values'
    BY DEF Shape, Values, BootPcs, Triggers
  <2>2. Bounds'
    BY DEF Shape, Bounds, MakingTemplates, Values, Triggers
  <2>3. Stages'
    BY DEF Shape, Stages
  <2> QED BY <2>1, <2>2, <2>3 DEF Shape
<1>7. ASSUME NEW f \in Files, RemovePrevious(f) PROVE Shape'
  <2> USE <1>7 DEF RemovePrevious, RemoveFile
  <2>1. Values'
    BY DEF Shape, Values, Absent
  <2>2. Bounds'
    BY DEF Shape, Bounds, MakingTemplates, Here, Values
  <2>3. Stages'
    BY DEF Shape, Stages
  <2> QED BY <2>1, <2>2, <2>3 DEF Shape
<1>8. ASSUME NEW f \in Files, StartTemplate(f) PROVE Shape'
  <2> USE <1>8 DEF StartTemplate, StartWrite
  <2>1. Values'
    BY DEF Shape, Values, BootPcs
  <2>2. Bounds'
    BY DEF Shape, Bounds, MakingTemplates, Here, Values
  <2>3. Stages'
    BY DEF Shape, Stages
  <2> QED BY <2>1, <2>2, <2>3 DEF Shape
<1>9. ASSUME NEW f \in Files, FinishTemplate(f) PROVE Shape'
  <2> USE <1>9 DEF FinishTemplate, FinishWrite
  <2>1. Values'
    BY DEF Shape, Values, BootPcs
  <2>2. Here \in Registries /\ f \in Slots(Here) /\ bootVersion \in 1..published[Here]
    BY Places DEF Shape, Values, Bounds, MakingTemplates
  <2>3. \A r \in Registries : f \in Slots(r) => r = Here
    BY <2>2, RegistriesAssumption
  <2>4. f \notin StoreFiles
    BY <2>2, FilesAssumption
  <2>5. dir' = [dir EXCEPT ![f] = bootVersion]
    OBVIOUS
  <2>6. \A r \in Registries : \A g \in Slots(r) : dir'[g] \in {Torn, Absent} \union 1..published[r]
    BY <2>2, <2>3, <2>5 DEF Shape, Values, Bounds
  <2>7. Bounds'
    BY <2>4, <2>5, <2>6 DEF Shape, Bounds, MakingTemplates, Here, Values
  <2>8. Stages'
    BY DEF Shape, Stages
  <2> QED BY <2>1, <2>7, <2>8 DEF Shape
<1> QED BY <1>1, <1>2, <1>3, <1>4, <1>5, <1>6, <1>7, <1>8, <1>9 DEF BootStep

LEMMA BootstrapFailsShape == ASSUME Shape, BootstrapFails PROVE Shape'
<1> USE DEF BootstrapFails, loadVars, taskVars, pastVars, bootVars, bootTaskVars, dirVars, storeVars
<1>1. CASE FetchError
  <2> USE <1>1 DEF FetchError
  <2>1. Values'
    BY DEF Shape, Values, BootPcs
  <2>2. Bounds'
    BY DEF Shape, Bounds, MakingTemplates
  <2>3. Stages'
    BY DEF Shape, Stages
  <2> QED BY <2>1, <2>2, <2>3 DEF Shape
<1>2. CASE TemplateError
  <2> USE <1>2 DEF TemplateError
  <2>1. Values'
    BY Places DEF Shape, Values, BootPcs
  <2>2. Bounds'
    BY DEF Shape, Bounds, MakingTemplates
  <2>3. Stages'
    BY DEF Shape, Stages
  <2> QED BY <2>1, <2>2, <2>3 DEF Shape
<1> QED BY <1>1, <1>2 DEF BootError

LEMMA StoreToolShape == ASSUME Shape, StoreTool PROVE Shape'
<1> USE DEF StoreTool, loadVars, taskVars, pastVars, bootVars, bootTaskVars, dirVars, storeVars
<1>0. Stages'
  BY DEF Store, Tell, StoreTriggers, StoreCopy, StoreTruncates, StoreFills, StoreBegin, StoreCopied,
         StoreStaysSilent, Shape, Stages
<1>1. CASE StoreBegin /\ UNCHANGED <<dirVars, untold>>
  <2> USE <1>1 DEF StoreBegin
  <2>1. Values'
    BY BoundsAssumption DEF Shape, Values, StorePcs
  <2>2. Bounds'
    BY DEF Shape, Bounds, MakingTemplates, Here, Values
  <2> QED BY <1>0, <2>1, <2>2 DEF Shape
<1>2. ASSUME NEW f \in StoreFiles, StoreTruncates(f), UNCHANGED untold PROVE Shape'
  <2> USE <1>2 DEF StoreTruncates, StartWrite
  <2>1. Values'
    BY FilesAssumption DEF Shape, Values
  <2>2. Bounds'
    BY FilesAssumption DEF Shape, Bounds, MakingTemplates, Here, Values
  <2> QED BY <1>0, <2>1, <2>2 DEF Shape
<1>3. ASSUME NEW f \in StoreFiles, StoreFills(f), storePc = "copying", UNCHANGED untold PROVE Shape'
  <2> USE <1>3 DEF StoreFills, FinishWrite
  <2>1. f \in Files /\ \A r \in Registries : f \notin Slots(r)
    BY FilesAssumption
  <2>2. stores \in 1..MaxStores /\ dir' = [dir EXCEPT ![f] = stores]
    BY BoundsAssumption DEF Shape, Values, Bounds
  <2>3. Values'
    BY <2>1, <2>2, BoundsAssumption DEF Shape, Values
  <2>4. \A g \in StoreFiles : dir'[g] \in {Torn, Absent} \union 1..MaxStores
    BY <2>1, <2>2 DEF Shape, Values, Bounds
  <2>5. \A r \in Registries : \A g \in Slots(r) : dir'[g] = dir[g]
    BY <2>1, <2>2 DEF Shape, Values
  <2>6. Bounds'
    BY <2>4, <2>5 DEF Shape, Bounds, MakingTemplates, Here, Values
  <2> QED BY <1>0, <2>3, <2>6 DEF Shape
<1>4. CASE (StoreCopied \/ StoreStaysSilent) /\ UNCHANGED <<dirVars, untold>>
  <2> USE <1>4 DEF StoreCopied, StoreStaysSilent
  <2>1. Values'
    BY DEF Shape, Values, StorePcs
  <2>2. Bounds'
    BY DEF Shape, Bounds, MakingTemplates, Here, Values
  <2> QED BY <1>0, <2>1, <2>2 DEF Shape
<1>5. CASE StoreTriggers /\ Tell
  <2> USE <1>5 DEF StoreTriggers, Touch, Tell
  <2>1. Values'
    BY DEF Shape, Values, StorePcs, Triggers
  <2>2. Bounds'
    BY DEF Shape, Bounds, MakingTemplates, Here, Values, Triggers
  <2> QED BY <1>0, <2>1, <2>2 DEF Shape
<1> QED BY <1>1, <1>2, <1>3, <1>4, <1>5 DEF Store, StoreCopy

LEMMA WorldShape ==
  ASSUME Shape, Publishing \/ (\E r \in Registries : Expiring(r)) \/ Crash
  PROVE  Shape'
<1> USE DEF loadVars, taskVars, pastVars, bootVars, bootTaskVars, dirVars, storeVars
<1>1. CASE Publishing
  <2>0. PICK r \in Registries : Publish(r)
    BY <1>1 DEF Publishing
  <2> USE <1>1, <2>0 DEF Publish, Publishing
  <2>1. Values'
    BY DEF Shape, Values
  <2>a. published' = [published EXCEPT ![r] = @ + 1] /\ published[r] < LastVersion(r)
    OBVIOUS
  <2>b. \A q \in Registries : /\ published[q] \in Nat /\ published'[q] \in 1..LastVersion(q)
                                /\ published[q] <= published'[q]
    <3> HIDE DEF Publishing, Publish
    <3>1. TAKE q \in Registries
    <3>2. /\ LastVersion(q) \in Nat /\ published \in [Registries -> Nat]
          /\ published[q] \in 1..LastVersion(q)
      BY <3>1, RegistriesAssumption DEF Shape, Values, Bounds
    <3>3. published'[q] = IF q = r THEN published[q] + 1 ELSE published[q]
      BY <2>a, <3>2
    <3> QED BY <2>a, <3>2, <3>3
  <2>c. \A q \in Registries : 1..published[q] \subseteq 1..published'[q]
    BY <2>b
  <2>2. Bounds'
    <3> HIDE DEF Publishing, Publish
    <3>1. UNCHANGED <<trigger, clock, lastTime, cache, dir, bootPc, bootAt, bootVersion, todo, storePc, stores, toCopy>>
      BY <2>0, <1>1 DEF Publish, Publishing
    <3> QED BY <3>1, <2>b, <2>c, Places DEF Shape, Bounds, MakingTemplates, Here, Values
  <2>3. Stages'
    BY DEF Shape, Stages
  <2> QED BY <2>1, <2>2, <2>3 DEF Shape
<1>2. ASSUME NEW r \in Registries, Expiring(r) PROVE Shape'
  <2> USE <1>2 DEF Expiring, Expire
  <2>1. Values'
    BY DEF Shape, Values
  <2>2. Bounds'
    BY DEF Shape, Bounds, MakingTemplates, Here, Values
  <2>3. Stages'
    BY DEF Shape, Stages
  <2> QED BY <2>1, <2>2, <2>3 DEF Shape
<1>3. CASE Crash
  <2> USE <1>3 DEF Crash, DropLoad, AbandonPass
  <2>0. Nothing \in [Files -> SUBSET (Nat \ {Absent})]
    BY DEF Nothing
  <2>a. served' \in [Files -> SUBSET (Nat \ {Absent})] /\ draft' \in [Files -> SUBSET (Nat \ {Absent})]
    BY <2>0
  <2>b. cutShort' \subseteq Registries
    BY Places DEF Shape, Values
  <2>c. crashes' \in Nat
    BY DEF Shape, Values
  <2>1. Values'
    <3> QED BY <2>a, <2>b, <2>c DEF Shape, Values, BootPcs, ReloadPcs, ServerPcs, Loaders
  <2>2. Bounds'
    BY DEF Shape, Bounds, MakingTemplates
  <2>3. Stages'
    BY DEF Shape, Stages
  <2> QED BY <2>1, <2>2, <2>3 DEF Shape
<1> QED BY <1>1, <1>2, <1>3 DEF Publishing

LEMMA StepShape == Shape /\ [Next]_vars => Shape'
<1> SUFFICES ASSUME Shape, [Next]_vars PROVE Shape'
  OBVIOUS
<1>1. CASE UNCHANGED vars
  BY <1>1 DEF Shape, Values, Bounds, Stages, MakingTemplates, Here, vars, loadVars, taskVars, pastVars, bootVars, bootTaskVars, dirVars, storeVars
<1> QED BY <1>1, ServerShape, LoadTaskShape, LoadingShape, BootstrappingShape,
           BootstrapFailsShape, StoreToolShape, WorldShape DEF Next

(* A server that starts, crashes and restarts over any directory keeps its *)
(* types: whatever a file, a cache file or the store holds is a version    *)
(* that was published or stored, and no time read lies ahead of the clock. *)
THEOREM ServerTypes == Spec => []TypeOK
<1>1. Init => Shape
  BY InitShape
<1>2. Shape /\ [Next]_vars => Shape'
  BY StepShape
<1>3. Shape => TypeOK
  <2> SUFFICES ASSUME Shape PROVE TypeOK
    OBVIOUS
  <2>1. trigger \in [Triggers -> 0..clock]
    BY DEF Shape, Values, Bounds
  <2> QED BY <2>1 DEF Shape, Values, Bounds, TypeOK
<1> QED BY <1>1, <1>2, <1>3, PTL DEF Spec

---------------------------------------------------------------------------
(* Made                                                                    *)

LEMMA InitMade == Init => Made
<1> SUFFICES ASSUME Init PROVE Made
  OBVIOUS
<1>1. \A r \in Registries : \A f \in Slots(r) : f \in Files
  BY FilesAssumption
<1>2. \A r \in Registries : \A f \in Slots(r) : IsMade(r, cache[r], f)
  BY <1>1 DEF Init, DirInit, BootInit, IsMade
<1>3. HereMade
  BY DEF Init, BootInit, HereMade
<1> QED BY <1>2, <1>3 DEF Made

(* Steps of others: rdap-srv-store, the loads, the world.                  *)
LEMMA MadeByNobodyElse ==
  ASSUME Shape, Made, UNCHANGED <<cache, bootPc, bootAt, bootVersion, todo, cutShort>>,
         \A r \in Registries : \A f \in Slots(r) : dir'[f] = dir[f]
  PROVE  Made'
<1>1. Here' = Here /\ MakingTemplates' = MakingTemplates
  BY DEF Here, MakingTemplates
<1>2. Here \in Registries
  BY Places DEF Shape, Values
<1>3. \A r \in Registries \ cutShort' :
         (MakingTemplates' => r # Here') => \A f \in Slots(r) : IsMade(r, cache[r], f)'
  BY <1>1 DEF Made, IsMade
<1>4. \A f \in Slots(Here) : IsMade(Here, bootVersion, f)' <=> IsMade(Here, bootVersion, f)
  BY <1>1, <1>2 DEF IsMade
<1>5. bootPc \in {"make", "making"} => \A f \in todo : dir'[f] = dir[f]
  BY <1>2 DEF Shape, Bounds
<1>6. HereMade'
  BY <1>1, <1>2, <1>4, <1>5 DEF Made, HereMade
<1> QED BY <1>3, <1>6 DEF Made

(* Steps between passes, or before the cache file of a registry is opened. *)
LEMMA MadeBetween ==
  ASSUME Made, ~MakingTemplates, ~MakingTemplates', UNCHANGED <<cache, dir, cutShort>>
  PROVE  Made'
BY DEF Made, HereMade, IsMade, MakingTemplates

(* The end of the process, wherever the pass is.                           *)
LEMMA MadeAbandoned ==
  ASSUME Shape, Made, AbandonPass, UNCHANGED dir
  PROVE  Made'
BY DEF Made, HereMade, IsMade, MakingTemplates, AbandonPass, Here

LEMMA ServerMade == ASSUME Shape, Made, ServerStep PROVE Made'
<1> USE DEF loadVars, taskVars, pastVars, bootVars, bootTaskVars, dirVars, storeVars
<1>1. CASE Start \/ BootstrapAgain
  BY <1>1, MadeBetween DEF Start, BootstrapAgain, BeginPass, MakingTemplates, Shape, Stages
<1>2. CASE BootstrapReady \/ BootstrapFailed \/ PassDone
  BY <1>2, MadeBetween DEF BootstrapReady, BootstrapFailed, PassDone, MakingTemplates
<1>3. CASE InitialLoadFailed
  BY <1>3, MadeAbandoned DEF InitialLoadFailed
<1>4. CASE InitialLoadDone
  BY <1>4, MadeByNobodyElse DEF InitialLoadDone
<1> QED BY <1>1, <1>2, <1>3, <1>4 DEF ServerStep

(* A step of the pass that changes no file of another registry.            *)
LEMMA MadeHere ==
  ASSUME Shape, Made, UNCHANGED <<cutShort, bootAt>>, MakingTemplates', HereMade',
         \A r \in Registries \ {Here} :
           cache'[r] = cache[r] /\ \A f \in Slots(r) : dir'[f] = dir[f]
  PROVE  Made'
BY DEF Made, IsMade, Here

(* The files of the registry the pass is at are no other registry's.       *)
LEMMA FilesOfHere ==
  ASSUME Shape, NEW f \in todo, bootPc \in {"remove", "make", "making"}
  PROVE  /\ Here \in Registries /\ f \in Slots(Here) /\ f \in Files
         /\ \A r \in Registries \ {Here} : f \notin Slots(r)
BY Places, RegistriesAssumption, FilesAssumption DEF Shape, Values, Bounds

LEMMA BootstrappingMade == ASSUME Shape, Shape', Made, Bootstrapping PROVE Made'
<1> USE DEF Bootstrapping, dirVars
<1>0. Here \in Registries /\ Slots(Here) \subseteq Files
  BY Places, FilesAssumption DEF Shape, Values
<1>1. CASE UseCache \/ Notify
  <2>1. CASE UseCache
    BY <2>1, MadeBetween DEF UseCache, NextRegistry, MakingTemplates
  <2>2. CASE Notify
    BY <2>2, MadeBetween DEF Notify, Touch, MakingTemplates
  <2> QED BY <1>1, <2>1, <2>2
<1>2. CASE Download
  <2> USE <1>2 DEF Download
  <2>1. HereMade' /\ MakingTemplates'
    BY DEF HereMade, MakingTemplates
  <2>2. \A r \in Registries \ {Here} : cache'[r] = cache[r]
    BY DEF Shape, Values
  <2> QED BY <2>1, <2>2, MadeHere
<1>3. CASE CacheWritten
  <2> USE <1>3 DEF CacheWritten
  <2>1. cache'[Here] = bootVersion /\ Here' = Here
    BY <1>0 DEF Shape, Values, Here
  <2>2. \A f \in Slots(Here) \ todo' : dir'[f] = Absent
    BY <1>0 DEF Present
  <2>3. HereMade' /\ MakingTemplates'
    BY <2>1, <2>2 DEF HereMade, MakingTemplates
  <2>4. \A r \in Registries \ {Here} : cache'[r] = cache[r]
    BY DEF Shape, Values
  <2> QED BY <2>3, <2>4, MadeHere
<1>4. CASE AllRemoved
  <2> USE <1>4 DEF AllRemoved
  <2>1. Here' = Here /\ bootVersion # Absent
    BY DEF Here, Shape, Bounds, MakingTemplates, Absent
  <2>2. HereMade' /\ MakingTemplates'
    BY <2>1 DEF Made, HereMade, MakingTemplates, IsMade, Shape, Bounds
  <2> QED BY <2>2, MadeHere
<1>5. CASE RegistryMade
  <2> USE <1>5 DEF RegistryMade
  <2>1. ~MakingTemplates' /\ HereMade'
    BY DEF NextRegistry, HereMade, MakingTemplates
  <2>2. \A f \in Slots(Here) : IsMade(Here, cache[Here], f)
    BY DEF Made, HereMade
  <2>3. \A r \in Registries \ cutShort' : \A f \in Slots(r) : IsMade(r, cache[r], f)
    BY <2>2 DEF Made
  <2> QED BY <2>1, <2>3 DEF Made, IsMade
<1>6. ASSUME NEW f \in Files, RemovePrevious(f) PROVE Made'
  <2> USE <1>6 DEF RemovePrevious, RemoveFile
  <2>1. \A r \in Registries \ {Here} : \A g \in Slots(r) : dir'[g] = dir[g]
    BY FilesOfHere DEF Shape, Values
  <2>2. HereMade' /\ MakingTemplates'
    BY <1>0 DEF Made, HereMade, MakingTemplates, Here, Shape, Values
  <2> QED BY <2>1, <2>2, MadeHere
<1>7. ASSUME NEW f \in Files, StartTemplate(f) PROVE Made'
  <2> USE <1>7 DEF StartTemplate, StartWrite
  <2>1. \A r \in Registries \ {Here} : \A g \in Slots(r) : dir'[g] = dir[g]
    BY FilesOfHere DEF Shape, Values
  <2>2. Here' = Here
    BY DEF Here
  <2>3. \A g \in Files \ {f} : dir'[g] = dir[g]
    BY DEF Shape, Values
  <2>4. HereMade' /\ MakingTemplates'
    BY <1>0, <2>2, <2>3 DEF Made, HereMade, MakingTemplates, IsMade, Shape, Values
  <2> QED BY <2>1, <2>4, MadeHere
<1>8. ASSUME NEW f \in Files, FinishTemplate(f) PROVE Made'
  <2> USE <1>8 DEF FinishTemplate, FinishWrite
  <2>1. \A r \in Registries \ {Here} : \A g \in Slots(r) : dir'[g] = dir[g]
    BY FilesOfHere DEF Shape, Values
  <2>2. Here' = Here
    BY DEF Here
  <2>3. (\A g \in Files \ {f} : dir'[g] = dir[g]) /\ dir'[f] = bootVersion
    BY DEF Shape, Values
  <2>4. bootVersion # Absent /\ f \in Service(Here, bootVersion)
    BY DEF Made, HereMade, Shape, Bounds, MakingTemplates, Absent
  <2>5. \A g \in todo \ {f} : dir[g] = Absent
    BY DEF Made, HereMade, Torn, Absent
  <2>6. \A g \in Slots(Here) \ todo' : IsMade(Here, bootVersion, g)'
    BY <1>0, <2>2, <2>3, <2>4 DEF Made, HereMade, IsMade
  <2>7. \A g \in todo' : dir'[g] = Absent
    BY <2>3, <2>5 DEF Shape, Values
  <2>8. HereMade' /\ MakingTemplates'
    BY <2>2, <2>6, <2>7 DEF Made, HereMade, MakingTemplates
  <2> QED BY <2>1, <2>8, MadeHere
<1> QED BY <1>1, <1>2, <1>3, <1>4, <1>5, <1>6, <1>7, <1>8 DEF BootStep

LEMMA StepMade == Shape /\ Shape' /\ Made /\ [Next]_vars => Made'
<1> SUFFICES ASSUME Shape, Shape', Made, [Next]_vars PROVE Made'
  OBVIOUS
<1> USE DEF loadVars, taskVars, pastVars, bootVars, bootTaskVars, dirVars, storeVars
<1>1. CASE LoadTask \/ Loading
  BY <1>1, MadeByNobodyElse
     DEF LoadTask, ReloadTaskStep, StartReloadTask, CheckUpdate, CheckReload, TaskLoadDone,
         TaskLoadError, Loading, LoadStep, LoadFile, MissFile
<1>2. CASE StoreTool
  <2>1. \A r \in Registries : \A f \in Slots(r) : dir'[f] = dir[f]
    BY <1>2, FilesAssumption
       DEF StoreTool, Store, StoreTriggers, Touch, StoreCopy, StoreTruncates, StoreFills,
           StartWrite, FinishWrite, Shape, Values
  <2> QED BY <1>2, <2>1, MadeByNobodyElse DEF StoreTool
<1>3. CASE BootstrapFails
  <2>1. CASE FetchError
    BY <1>3, <2>1, MadeBetween DEF FetchError, MakingTemplates
  <2>2. CASE TemplateError
    BY <2>2 DEF TemplateError, Made, HereMade, IsMade, MakingTemplates
  <2> QED BY <1>3, <2>1, <2>2 DEF BootstrapFails, BootError
<1>4. CASE Publishing \/ (\E r \in Registries : Expiring(r)) \/ UNCHANGED vars
  BY <1>4, MadeByNobodyElse DEF Publishing, Publish, Expiring, Expire, vars
<1>5. CASE Crash
  BY <1>5, MadeAbandoned DEF Crash
<1> QED BY <1>1, <1>2, <1>3, <1>4, <1>5, ServerMade, BootstrappingMade DEF Next

(* Whatever crashed or failed, the template files of a registry are all    *)
(* those of the version in its cache file and no other, but while a pass   *)
(* is at them or after one that did not come to their end.                 *)
THEOREM TemplatesComplete == Spec => []TemplatesMatchCache
<1>1. Init => Shape /\ Made
  BY InitShape, InitMade
<1>2. Shape /\ Made /\ [Next]_vars => (Shape /\ Made)'
  BY StepShape, StepMade
<1>3. Made => TemplatesMatchCache
  BY DEF Made, IsMade, TemplatesMatchCache
<1> QED BY <1>1, <1>2, <1>3, PTL DEF Spec

---------------------------------------------------------------------------
(* Told                                                                    *)

(* A step that changes neither files nor the loads keeps Told, if what was *)
(* coming still is.                                                        *)
LEMMA ToldStays ==
  ASSUME Told, UNCHANGED <<dir, loadVars>>, Coming => Coming'
  PROVE  Told'
BY DEF Told, Current, Present, loadVars

(* A load that begins reads whatever is there.                             *)
LEMMA ToldByLoad ==
  ASSUME NEW kind \in Loaders \ {"none"}, BeginLoad(kind), UNCHANGED dir
  PROVE  Told'
BY DEF BeginLoad, Told, Current, Present

(* A load that ends serves whatever it has read, and it has read all.      *)
LEMMA ToldByCommit ==
  ASSUME Told, LoadDone, UNCHANGED dir, Coming => Coming'
  PROVE  Told'
BY DEF LoadDone, DropLoad, Told, Current, Present

LEMMA InitTold == Init => Told
BY DEF Init, Told, Coming

LEMMA ServerTold == ASSUME Shape, Told, ServerStep PROVE Told'
<1> USE DEF taskVars, pastVars, bootVars, bootTaskVars, dirVars, storeVars
<1>1. CASE Start \/ BootstrapFailed \/ InitialLoadFailed
  BY <1>1 DEF Start, BootstrapFailed, InitialLoadFailed, Told, Coming
<1>2. CASE BootstrapReady
  BY <1>2, ToldByLoad DEF BootstrapReady, Loaders
<1>3. CASE InitialLoadDone
  <2>1. Coming => Coming'
    BY <1>3 DEF InitialLoadDone, Coming, MakingTemplates, ReloadTaskAlive, Shape, Stages
  <2> QED BY <1>3, <2>1, ToldByCommit DEF InitialLoadDone
<1>4. CASE BootstrapAgain \/ PassDone
  <2>1. Coming => Coming'
    BY <1>4 DEF BootstrapAgain, BeginPass, PassDone, Coming, MakingTemplates, ReloadTaskAlive
  <2> QED BY <1>4, <2>1, ToldStays DEF BootstrapAgain, BeginPass, PassDone
<1> QED BY <1>1, <1>2, <1>3, <1>4 DEF ServerStep

LEMMA LoadTaskTold == ASSUME Shape, Told, LoadTask PROVE Told'
<1> USE DEF LoadTask, taskVars, pastVars, bootVars, bootTaskVars, dirVars, storeVars
<1>1. CASE StartReloadTask
  <2>1. Coming => Coming'
    BY <1>1 DEF StartReloadTask, loadVars, Coming, MakingTemplates, ReloadTaskAlive, Shape, Stages
  <2> QED BY <1>1, <2>1, ToldStays DEF StartReloadTask
<1>2. CASE CheckUpdate
  <2>1. CASE trigger["update"] > lastTime
    BY <1>2, <2>1, ToldByLoad DEF CheckUpdate, Loaders
  <2>2. CASE ~(trigger["update"] > lastTime)
    <3>1. Coming => Coming'
      BY <1>2, <2>2 DEF CheckUpdate, loadVars, Coming, MakingTemplates, ReloadTaskAlive, Shape, Stages
    <3> QED BY <1>2, <2>2, <3>1, ToldStays DEF CheckUpdate
  <2> QED BY <2>1, <2>2
<1>3. CASE CheckReload
  <2>1. CASE trigger["reload"] > lastTime
    BY <1>3, <2>1, ToldByLoad DEF CheckReload, Loaders
  <2>2. CASE ~(trigger["reload"] > lastTime)
    <3>1. Coming => Coming'
      BY <1>3, <2>2 DEF CheckReload, loadVars, Coming, MakingTemplates, ReloadTaskAlive, Shape, Stages
    <3> QED BY <1>3, <2>2, <3>1, ToldStays DEF CheckReload
  <2> QED BY <2>1, <2>2
<1>4. CASE TaskLoadDone
  <2>1. Coming => Coming'
    BY <1>4 DEF TaskLoadDone, LoadDone, DropLoad, Coming, MakingTemplates, ReloadTaskAlive
  <2> QED BY <1>4, <2>1, ToldByCommit DEF TaskLoadDone
<1>5. CASE TaskLoadError
  BY <1>5 DEF TaskLoadError, Told, Coming
<1> QED BY <1>1, <1>2, <1>3, <1>4, <1>5 DEF ReloadTaskStep

LEMMA LoadingTold == ASSUME Shape, Told, Loading PROVE Told'
<1> USE DEF Loading, taskVars, pastVars, bootVars, bootTaskVars, dirVars, storeVars
<1>1. Coming => Coming'
  BY DEF LoadStep, LoadFile, MissFile, Coming, MakingTemplates, ReloadTaskAlive
<1>2. ASSUME NEW f \in Files, LoadFile(f), \A g \in Present : Current(g) PROVE Told'
  BY <1>2 DEF LoadFile, Told, Current, Present, Shape, Values
<1>3. ASSUME NEW f \in Files, MissFile(f), \A g \in Present : Current(g) PROVE Told'
  BY <1>3 DEF MissFile, Told, Current, Present
<1> QED BY <1>1, <1>2, <1>3 DEF LoadStep, Told

(* A trigger is seen by the task that polls it, or known to be lost.       *)
LEMMA Touched ==
  ASSUME Shape, NEW k \in Triggers, Touch(k), Tell, UNCHANGED <<reloadPc, lastTime>>
  PROVE  Coming'
<1>1. trigger'[k] = clock + 1 /\ lastTime \in Nat /\ clock \in Nat /\ lastTime <= clock
  BY DEF Touch, Shape, Values, Bounds
<1>2. trigger'[k] > lastTime'
  BY <1>1
<1> QED BY <1>2 DEF Tell, Coming, ReloadTaskAlive

LEMMA BootstrappingTold == ASSUME Shape, Told, Bootstrapping PROVE Told'
<1> USE DEF Bootstrapping, loadVars, taskVars, pastVars, dirVars, storeVars
<1>1. CASE UseCache
  <2>1. Coming => Coming'
    BY <1>1 DEF UseCache, NextRegistry, Coming, MakingTemplates, ReloadTaskAlive
  <2> QED BY <1>1, <2>1, ToldStays DEF UseCache
<1>2. CASE Notify
  <2>1. CASE newData
    <3>1. PICK k \in Triggers : Touch(k)
      BY <1>2, <2>1 DEF Notify, Triggers
    <3>2. trigger' # trigger
      BY <3>1 DEF Touch, Shape, Values, Bounds
    <3> QED BY <1>2, <3>1, <3>2, Touched DEF Told
  <2>2. CASE ~newData
    <3>1. Coming => Coming'
      BY <1>2, <2>2 DEF Notify, Coming, MakingTemplates, ReloadTaskAlive
    <3> QED BY <1>2, <2>2, <3>1, ToldStays DEF Notify
  <2> QED BY <2>1, <2>2
<1>3. CASE Download \/ CacheWritten \/ AllRemoved
  BY <1>3 DEF Download, CacheWritten, AllRemoved, Told, Coming, MakingTemplates
<1>4. CASE RegistryMade
  BY <1>4 DEF RegistryMade, NextRegistry, Told, Coming
<1>5. ASSUME NEW f \in Files, RemovePrevious(f) \/ StartTemplate(f) \/ FinishTemplate(f) PROVE Told'
  BY <1>5 DEF RemovePrevious, StartTemplate, FinishTemplate, Told, Coming, MakingTemplates
<1> QED BY <1>1, <1>2, <1>3, <1>4, <1>5 DEF BootStep

LEMMA StoreToolTold == ASSUME Shape, Told, StoreTool PROVE Told'
<1> USE DEF StoreTool, loadVars, taskVars, pastVars, bootVars, bootTaskVars, storeVars
<1>1. CASE StoreTriggers /\ Tell
  <2>1. PICK k \in Triggers : Touch(k)
    BY <1>1 DEF StoreTriggers
  <2> QED BY <1>1, <2>1, Touched DEF Told
<1>2. CASE StoreBegin \/ StoreCopied \/ StoreStaysSilent
  BY <1>2 DEF StoreBegin, StoreCopied, StoreStaysSilent, Told, Coming
<1>3. CASE StoreCopy
  BY <1>3 DEF StoreCopy, StoreTruncates, StoreFills, Told, Coming
<1> QED BY <1>1, <1>2, <1>3 DEF Store

LEMMA StepTold == Shape /\ Told /\ [Next]_vars => Told'
<1> SUFFICES ASSUME Shape, Told, [Next]_vars PROVE Told'
  OBVIOUS
<1>1. CASE BootstrapFails
  BY <1>1 DEF BootstrapFails, BootError, FetchError, TemplateError, Told, Coming
<1>2. CASE Publishing \/ (\E r \in Registries : Expiring(r)) \/ UNCHANGED vars
  <2>1. UNCHANGED <<dir, loadVars, server, untold, storePc, reloadPc, bootPc, newData, trigger, lastTime>>
    BY <1>2 DEF Publishing, Publish, Expiring, Expire, vars, taskVars, bootVars, bootTaskVars,
                dirVars, storeVars
  <2>2. Coming => Coming'
    BY <2>1 DEF Coming, MakingTemplates, ReloadTaskAlive
  <2> QED BY <2>1, <2>2, ToldStays
<1>3. CASE Crash
  BY <1>3 DEF Crash, Told, Coming
<1> QED BY <1>1, <1>2, <1>3, ServerTold, LoadTaskTold, LoadingTold, BootstrappingTold,
           StoreToolTold DEF Next

(* When the server is at rest it serves every file of its directory as it  *)
(* is, however its loads, the bootstrap, rdap-srv-store and crashes came   *)
(* together: no change goes unserved but one whose trigger came before the *)
(* reload task took its time.                                              *)
THEOREM RestServes == Spec => []NothingUnserved
<1>1. Init => Shape /\ Told
  BY InitShape, InitTold
<1>2. Shape /\ Told /\ [Next]_vars => (Shape /\ Told)'
  BY StepShape, StepTold
<1>3. Shape /\ Told => NothingUnserved
  <2> SUFFICES ASSUME Shape, Told, AtRest, ~untold PROVE \A f \in Present : dir[f] \in served[f]
    BY DEF NothingUnserved
  <2>1. ~ \E k \in Triggers : trigger[k] > lastTime
    BY DEF AtRest, Shape, Values
  <2>2. ~Coming
    BY <2>1 DEF AtRest, Coming, MakingTemplates
  <2> QED BY <2>2 DEF Told, AtRest, Current
<1> QED BY <1>1, <1>2, <1>3, PTL DEF Spec
=============================================================================
