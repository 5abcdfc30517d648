----------------------------- MODULE RdapServer ----------------------------
(***************************************************************************)
(* The server process around its data (icann-rdap-srv/src/server.rs), the  *)
(* composition of the bootstrap, the loading of the data and the tool that *)
(* feeds the data directory from outside (bin/rdap-srv-store.rs).          *)
(*                                                                         *)
(*   start_server:  one bootstrap pass, the bootstrap task is spawned;     *)
(*                  load_data, the reload task is spawned; serve.          *)
(*                                                                         *)
(* The process can be killed at any time and started again: its memory is  *)
(* gone, the directory stays as it was.                                    *)
(***************************************************************************)
EXTENDS DataLoad, SrvBootstrap

CONSTANTS StoreFiles,  \* the files rdap-srv-store copies
          MaxStores,   \* bound on the runs of rdap-srv-store
          MaxCrashes,  \* bound on the crashes of the server
          MaxExpiries, \* bound on the expiries of copies that are up to date
          MaxTime      \* the times the liveness properties speak of

ASSUME FilesAssumption ==
  /\ StoreFiles \subseteq Files
  /\ \A r \in Registries : \A v \in 1..LastVersion(r) : Service(r, v) \subseteq Slots(r)
  /\ \A r \in Registries : Slots(r) \subseteq Files \ StoreFiles
ASSUME BoundsAssumption == {MaxStores, MaxCrashes, MaxExpiries, MaxTime} \subseteq Nat

VARIABLES server,   \* the start of the process: how far it is
          storePc,  \* where rdap-srv-store is
          toCopy,   \* the files it has still to copy
          stores,   \* its runs so far: the version of the files it copies
          untold,   \* a trigger came before the reload task listened, and no load began since
          crashes,  \* the crashes so far
          expiries  \* how often a cached copy that was up to date expired

storeVars == <<storePc, toCopy, stores>>
vars == <<loadVars, taskVars, pastVars, bootVars, dirVars, server, storeVars, untold, crashes, expiries>>

ServerPcs == {"down", "bootstrap", "load", "serving"}
StorePcs == {"idle", "copying", "notify", "silent"}

Init ==
  /\ DirInit
  /\ LoadInit
  /\ BootInit
  /\ server = "down"
  /\ storePc = "idle"
  /\ toCopy = {}
  /\ stores = 0
  /\ untold = FALSE
  /\ crashes = 0
  /\ expiries = 0

(* A trigger that is set before the reload task took its time is not seen. *)
Tell == untold' = (untold \/ reloadPc \in {"off", "spawned"})

---------------------------------------------------------------------------
(* start_server                                                            *)
Start ==
  /\ server = "down"
  /\ server' = "bootstrap"
  /\ BeginPass
  /\ UNCHANGED <<loadVars, taskVars, pastVars, storeVars, untold, crashes, expiries>>

(* init_bootstrap returns: the task that repeats the pass is spawned, and  *)
(* init_data loads the data.                                               *)
BootstrapReady ==
  /\ server = "bootstrap"
  /\ bootPc = "done"
  /\ bootPc' = "sleep"
  /\ server' = "load"
  /\ BeginLoad("init")
  /\ untold' = FALSE
  /\ UNCHANGED <<bootAt, bootVersion, todo, newData, published, cache, expired, cutShort,
                 taskVars, pastVars, dirVars, storeVars, crashes, expiries>>

(* An error of the first pass, or of the first load, ends the process.     *)
BootstrapFailed ==
  /\ server = "bootstrap"
  /\ bootPc = "failed"
  /\ bootPc' = "off"
  /\ todo' = {}
  /\ newData' = FALSE
  /\ server' = "down"
  /\ UNCHANGED <<bootAt, bootVersion, published, cache, expired, cutShort, loadVars, taskVars,
                 pastVars, dirVars, storeVars, untold, crashes, expiries>>

InitialLoadDone ==
  /\ server = "load"
  /\ loader = "init"
  /\ LoadDone
  /\ server' = "serving"
  /\ reloadPc' = "spawned"
  /\ UNCHANGED <<lastTime, pastVars, bootVars, dirVars, storeVars, untold, crashes, expiries>>

(* A slip the runs must catch: the error of the first load is swallowed.   *)
InitialLoadSwallowed ==
  /\ server = "load"
  /\ loader = "init"
  /\ LoadError
  /\ AbandonPass
  /\ UNCHANGED <<server, taskVars, pastVars, dirVars, storeVars, untold, crashes, expiries>>

InitialLoadFailed ==
  /\ server = "load"
  /\ loader = "init"
  /\ LoadError
  /\ server' = "down"
  /\ AbandonPass
  /\ UNCHANGED <<taskVars, pastVars, dirVars, storeVars, untold, crashes, expiries>>

(* loop_bootstrap: the next pass a minute later, after the last one ended  *)
(* well.  A pass that finds nothing expired changes nothing: left out.     *)
BootstrapAgain ==
  /\ server # "bootstrap"
  /\ bootPc = "sleep"
  /\ \E r \in Registries : expired[r]
  /\ BeginPass
  /\ UNCHANGED <<server, loadVars, taskVars, pastVars, storeVars, untold, crashes, expiries>>

PassDone ==
  /\ server # "bootstrap"
  /\ bootPc = "done"
  /\ bootPc' = "sleep"
  /\ UNCHANGED <<bootAt, bootVersion, todo, newData, published, cache, expired, cutShort,
                 server, loadVars, taskVars, pastVars, dirVars, storeVars, untold, crashes, expiries>>

Crash ==
  /\ server # "down"
  /\ crashes < MaxCrashes
  /\ crashes' = crashes + 1
  /\ server' = "down"
  /\ DropLoad
  /\ served' = Nothing
  /\ reloadPc' = "off"
  /\ AbandonPass
  /\ UNCHANGED <<lastTime, pastVars, dirVars, storeVars, untold, expiries>>

---------------------------------------------------------------------------
(* rdap-srv-store: the files were validated, now they are copied one by    *)
(* one, and the server is told if it was asked to.                         *)
StoreBegin ==
  /\ storePc \in {"idle", "silent"}
  /\ stores < MaxStores
  /\ stores' = stores + 1
  /\ toCopy' = StoreFiles
  /\ storePc' = "copying"

StoreTruncates(f) ==
  /\ f \in toCopy
  /\ \A g \in StoreFiles : dir[g] # Torn
  /\ StartWrite(f)
  /\ UNCHANGED storeVars

StoreFills(f) ==
  /\ f \in toCopy
  /\ FinishWrite(f, stores)
  /\ toCopy' = toCopy \ {f}
  /\ UNCHANGED <<storePc, stores>>

StoreCopy ==
  /\ storePc = "copying"
  /\ \E f \in StoreFiles : StoreTruncates(f) \/ StoreFills(f)

StoreCopied ==
  /\ storePc = "copying"
  /\ toCopy = {}
  /\ storePc' = "notify"
  /\ UNCHANGED <<toCopy, stores>>

(* main: --reload, --update or neither.                                    *)
StoreTriggers ==
  /\ storePc = "notify"
  /\ \E k \in Triggers : Touch(k)
  /\ storePc' = "idle"
  /\ UNCHANGED <<toCopy, stores>>

StoreStaysSilent ==
  /\ storePc = "notify"
  /\ storePc' = "silent"
  /\ UNCHANGED <<toCopy, stores>>

Store ==
  \/ (StoreBegin \/ StoreCopied \/ StoreStaysSilent) /\ UNCHANGED <<dirVars, untold>>
  \/ StoreCopy /\ UNCHANGED untold
  \/ StoreTriggers /\ Tell

---------------------------------------------------------------------------
ServerStep ==
  \/ Start \/ BootstrapReady \/ BootstrapFailed \/ InitialLoadDone \/ InitialLoadFailed
  \/ BootstrapAgain \/ PassDone
(* Copies expire when there is a new version, or when the files made of    *)
(* them are unfinished and the server is not just loading them; otherwise  *)
(* the bound counts.                                                       *)
WorthRefreshing(r) ==
  \/ cache[r] # published[r]
  \/ r \in cutShort /\ server \in {"down", "serving"} /\ ~MakingTemplates

LoadTask ==
  /\ ReloadTaskStep
  /\ untold' = (untold /\ loader' \notin {"update", "reload"})
  /\ UNCHANGED <<bootVars, server, storeVars, crashes, expiries>>

Loading == LoadStep /\ UNCHANGED <<bootVars, server, storeVars, untold, crashes, expiries>>

Bootstrapping ==
  /\ BootStep
  /\ IF trigger' # trigger THEN Tell ELSE UNCHANGED untold
  /\ UNCHANGED <<loadVars, taskVars, pastVars, server, storeVars, crashes, expiries>>

BootstrapFails ==
  /\ BootError
  /\ UNCHANGED <<loadVars, taskVars, pastVars, server, storeVars, untold, crashes, expiries>>

Publishing ==
  /\ \E r \in Registries : Publish(r)
  /\ UNCHANGED <<loadVars, taskVars, pastVars, server, storeVars, untold, crashes, expiries>>

Expiring(r) ==
  /\ Expire(r)
  /\ WorthRefreshing(r) \/ expiries < MaxExpiries
  /\ expiries' = IF WorthRefreshing(r) THEN expiries ELSE expiries + 1
  /\ UNCHANGED <<loadVars, taskVars, pastVars, server, storeVars, untold, crashes>>

StoreTool ==
  /\ Store
  /\ UNCHANGED <<loadVars, taskVars, pastVars, bootVars, server, crashes, expiries>>

Next ==
  ServerStep \/ LoadTask \/ Loading \/ Bootstrapping \/ BootstrapFails \/ StoreTool
  \/ Publishing \/ (\E r \in Registries : Expiring(r)) \/ Crash

Spec == Init /\ [][Next]_vars

(* The tasks run, a server that is down is started again, downloads do not *)
(* fail for ever, and cached copies expire.                                *)
Fairness ==
  /\ WF_vars(ServerStep)
  /\ WF_vars(LoadTask)
  /\ WF_vars(Loading)
  /\ WF_vars(Bootstrapping \/ BootstrapFails)
  /\ SF_vars(Download /\ Bootstrapping)
  /\ \A r \in Registries : SF_vars(Expiring(r))
  /\ WF_vars(StoreTool /\ storePc \notin {"idle", "silent"})

FairSpec == Spec /\ Fairness

---------------------------------------------------------------------------
Times == 1..clock

(* Files, caches and what is served hold versions that were published, and *)
(* no recorded time lies ahead of the clock.                               *)
TypeOK ==
  /\ \A f \in StoreFiles : dir[f] \in {Torn, Absent} \union 1..MaxStores
  /\ \A r \in Registries : \A f \in Slots(r) : dir[f] \in {Torn, Absent} \union 1..published[r]
  /\ trigger \in [Triggers -> 0..clock]
  /\ lastTime \in 0..clock
  /\ \A f \in Files : served[f] \union draft[f] \subseteq Nat \ {Absent}
  /\ loader \in Loaders
  /\ listed \union visited \subseteq Files
  /\ reloadPc \in ReloadPcs
  /\ bootPc \in BootPcs
  /\ bootAt \in DOMAIN RegistryOrder
  /\ \A r \in Registries : cache[r] \in {Torn, Absent} \union 1..published[r]
  /\ todo \subseteq Files
  /\ cutShort \subseteq Registries
  /\ server \in ServerPcs
  /\ storePc \in StorePcs

(* Between passes, the template files of a registry are those of the       *)
(* version in its cache file, all of them and no other, unless a crash or  *)
(* an error caught a pass between the cache file and the last template.    *)
TemplatesMatchCache ==
  ~MakingTemplates =>
    \A r \in Registries \ cutShort :
      \A f \in Slots(r) :
        dir[f] = IF cache[r] # Absent /\ f \in Service(r, cache[r]) THEN cache[r] ELSE Absent

(* When everything is at rest, whatever is in the directory is served,     *)
(* unless it came without a trigger that the reload task could see.        *)
AtRest ==
  /\ server = "serving" /\ loader = "none" /\ reloadPc = "sleep"
  /\ bootPc = "sleep" /\ storePc = "idle"
  /\ \A k \in Triggers : trigger[k] <= lastTime
NothingUnserved ==
  AtRest /\ ~untold => \A f \in Present : dir[f] \in served[f]

(* A trigger set under the eyes of the reload task is followed by a load   *)
(* that began later, or the task dies of an error.                         *)
TriggersHonoured ==
  \A k \in Triggers, c \in 1..MaxTime :
    (ReloadTaskAlive /\ trigger[k] = c /\ c > lastTime) ~> (loadedAt >= c \/ ~ReloadTaskAlive)

(* rdap-srv-store: "If true, storage is completely reloaded."              *)
ReloadHonoured ==
  \A c \in 1..MaxTime :
    (ReloadTaskAlive /\ trigger["reload"] = c /\ c > lastTime)
      ~> (emptiedAt >= c \/ ~ReloadTaskAlive)

(* What nothing but an operator, or IANA, mends: a cache file that a crash *)
(* tore, a malformed registry.                                             *)
StuckDown ==
  /\ server = "down"
  /\ \E r \in Registries : cache[r] = Torn \/ Malformed(r, published[r])

(* A registry version that IANA publishes for good is served in the end,   *)
(* unless one of the two tasks died of an error or the trigger came before *)
(* the reload task took its time.                                          *)
RegistryServed ==
  \A r \in Registries : \A v \in 1..LastVersion(r) :
    (published[r] = v) ~>
       \/ \A f \in Service(r, v) : v \in served[f]
       \/ published[r] # v
       \/ reloadPc = "dead" \/ bootPc = "failed"
       \/ untold
       \/ StuckDown

(* The server comes back after a crash, whatever the crash left behind.    *)
ComesBack == (server = "down") ~> (server = "serving" \/ StuckDown)
=============================================================================
