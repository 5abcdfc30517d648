---------------------------- MODULE SrvBootstrap ---------------------------
(***************************************************************************)
(* The server's IANA bootstrap (icann-rdap-srv/src/bootstrap.rs): one pass *)
(* goes through the registries in order.  For a registry whose cached copy *)
(* is missing or expired it downloads the registry, writes the cache file, *)
(* removes the template files it made before and writes one template per   *)
(* service of the registry; at the end of the pass it triggers a reload or *)
(* an update if any registry was new.  Any error ends the pass.            *)
(*                                                                         *)
(* A pass runs before the server loads its data, and then in a task of its *)
(* own that ends with the first pass that fails.                           *)
(***************************************************************************)
EXTENDS DataDir, Sequences

CONSTANTS RegistryOrder,     \* the registries, in the order of process_bootstrap
          LastVersion(_),    \* a registry's contents are its versions 1, 2, ... this
          Service(_, _),     \* the template files made for the services of a registry's version
          Malformed(_, _),   \* whether a service of that version is unusable
          Slots(_),          \* every file with the registry's prefix
          UpdateOnBootstrap  \* ServiceConfig.update_on_bootstrap

VARIABLES published,   \* the version IANA publishes, per registry
          cache,       \* the version in the cache file, Absent, or Torn
          expired,     \* whether the cached copy has expired
          bootPc,      \* where the bootstrap is
          bootAt,      \* the registry it is at: an index of RegistryOrder
          bootVersion, \* the version it has downloaded
          todo,        \* the files still to remove, or to write
          newData,     \* new_data
          cutShort     \* registries whose files a pass left unfinished

bootTaskVars == <<bootPc, bootAt, bootVersion, todo, newData>>
bootVars == <<published, cache, expired, bootTaskVars, cutShort>>

Registries == {RegistryOrder[i] : i \in DOMAIN RegistryOrder}
Here == RegistryOrder[bootAt]

(* IanaRegistryType::prefix: no two registries make files of one name.     *)
ASSUME RegistriesAssumption ==
  /\ RegistryOrder \in Seq(Registries) /\ RegistryOrder # <<>>
  /\ \A r \in Registries : LastVersion(r) \in Nat \ {0}
  /\ \A q, r \in Registries : q # r => Slots(q) \intersect Slots(r) = {}

BootPcs == {"off", "sleep", "check", "caching", "remove", "make", "making",
            "notify", "done", "failed"}

(* A pass is between the cache file and the last template of a registry.   *)
MakingTemplates == bootPc \in {"caching", "remove", "make", "making"}

BootInit ==
  /\ published = [r \in Registries |-> 1]
  /\ cache = [r \in Registries |-> Absent]
  /\ expired = [r \in Registries |-> FALSE]
  /\ bootPc = "off"
  /\ bootAt = 1
  /\ bootVersion = 1
  /\ todo = {}
  /\ newData = FALSE
  /\ cutShort = {}

(* process_bootstrap begins.                                               *)
BeginPass ==
  /\ bootPc' = "check"
  /\ bootAt' = 1
  /\ newData' = FALSE
  /\ UNCHANGED <<published, cache, expired, bootVersion, todo, cutShort, dirVars>>

(* On to the next registry, or to the trigger.                             *)
NextRegistry ==
  IF bootAt < Len(RegistryOrder)
  THEN bootAt' = bootAt + 1 /\ bootPc' = "check"
  ELSE bootAt' = bootAt /\ bootPc' = "notify"

(* fetch_iana_registry: the cached copy is good, there is nothing to do.   *)
UseCache ==
  /\ bootPc = "check"
  /\ cache[Here] \notin {Absent, Torn}
  /\ ~expired[Here]
  /\ NextRegistry
  /\ UNCHANGED <<published, cache, expired, bootVersion, todo, newData, cutShort, dirVars>>

(* A cache file without its header or separator does not parse; a download *)
(* can fail.                                                               *)
FetchError ==
  /\ bootPc = "check"
  /\ cache[Here] \in {Absent, Torn} \/ expired[Here]
  /\ bootPc' = "failed"
  /\ UNCHANGED <<published, cache, expired, bootAt, bootVersion, todo, newData, cutShort,
                 dirVars>>

(* The registry is downloaded, the cache file being written ...            *)
Download ==
  /\ bootPc = "check"
  /\ cache[Here] # Torn
  /\ cache[Here] = Absent \/ expired[Here]
  /\ bootVersion' = published[Here]
  /\ cache' = [cache EXCEPT ![Here] = Torn]
  /\ bootPc' = "caching"
  /\ UNCHANGED <<published, expired, bootAt, todo, newData, cutShort, dirVars>>

(* A slip the runs must catch: the templates made before are not removed.  *)
CacheWrittenKeepsOld ==
  /\ bootPc = "caching"
  /\ cache' = [cache EXCEPT ![Here] = bootVersion]
  /\ expired' = [expired EXCEPT ![Here] = FALSE]
  /\ todo' = {}
  /\ bootPc' = "remove"
  /\ UNCHANGED <<published, bootAt, bootVersion, newData, cutShort, dirVars>>

(* ... and written: from here on the copy counts as good.  The directory   *)
(* is opened to remove what was made before.                               *)
CacheWritten ==
  /\ bootPc = "caching"
  /\ cache' = [cache EXCEPT ![Here] = bootVersion]
  /\ expired' = [expired EXCEPT ![Here] = FALSE]
  /\ todo' = Slots(Here) \intersect Present
  /\ bootPc' = "remove"
  /\ UNCHANGED <<published, bootAt, bootVersion, newData, cutShort, dirVars>>

(* remove_previous_bootstrap: one file.                                    *)
RemovePrevious(f) ==
  /\ bootPc = "remove"
  /\ f \in todo
  /\ RemoveFile(f)
  /\ todo' = todo \ {f}
  /\ UNCHANGED <<published, cache, expired, bootPc, bootAt, bootVersion, newData, cutShort>>

AllRemoved ==
  /\ bootPc = "remove"
  /\ todo = {}
  /\ todo' = Service(Here, bootVersion)
  /\ bootPc' = "make"
  /\ UNCHANGED <<published, cache, expired, bootAt, bootVersion, newData, cutShort, dirVars>>

(* make_dns_bootstrap and its siblings: one template file per service.     *)
StartTemplate(f) ==
  /\ bootPc = "make"
  /\ f \in todo
  /\ StartWrite(f)
  /\ bootPc' = "making"
  /\ UNCHANGED <<published, cache, expired, bootAt, bootVersion, todo, newData, cutShort>>

FinishTemplate(f) ==
  /\ bootPc = "making"
  /\ f \in todo
  /\ FinishWrite(f, bootVersion)
  /\ todo' = todo \ {f}
  /\ bootPc' = "make"
  /\ UNCHANGED <<published, cache, expired, bootAt, bootVersion, newData, cutShort>>

(* A service without a URL, an AS number or a CIDR that is none: an error  *)
(* half way.                                                               *)
TemplateError ==
  /\ bootPc = "make"
  /\ Malformed(Here, bootVersion)
  /\ bootPc' = "failed"
  /\ cutShort' = cutShort \union {Here}
  /\ UNCHANGED <<published, cache, expired, bootAt, bootVersion, todo, newData, dirVars>>

(* A slip the runs must catch: new data that nobody is told of.            *)
RegistryMadeQuietly ==
  /\ bootPc = "make"
  /\ todo = {}
  /\ ~Malformed(Here, bootVersion)
  /\ newData' = FALSE
  /\ cutShort' = cutShort \ {Here}
  /\ NextRegistry
  /\ UNCHANGED <<published, cache, expired, bootVersion, todo, dirVars>>

RegistryMade ==
  /\ bootPc = "make"
  /\ todo = {}
  /\ ~Malformed(Here, bootVersion)
  /\ newData' = TRUE
  /\ cutShort' = cutShort \ {Here}
  /\ NextRegistry
  /\ UNCHANGED <<published, cache, expired, bootVersion, todo, dirVars>>

(* The end of process_bootstrap.                                           *)
Notify ==
  /\ bootPc = "notify"
  /\ IF newData
     THEN Touch(IF UpdateOnBootstrap THEN "update" ELSE "reload")
     ELSE UNCHANGED dirVars
  /\ bootPc' = "done"
  /\ UNCHANGED <<published, cache, expired, bootAt, bootVersion, todo, newData, cutShort>>

BootStep ==
  \/ UseCache \/ Download \/ CacheWritten \/ AllRemoved \/ RegistryMade \/ Notify
  \/ \E f \in Files : RemovePrevious(f) \/ StartTemplate(f) \/ FinishTemplate(f)

BootError == FetchError \/ TemplateError

(* The process ends in the middle of a pass.                               *)
AbandonPass ==
  /\ bootPc' = "off"
  /\ todo' = {}
  /\ newData' = FALSE
  /\ cutShort' = IF MakingTemplates THEN cutShort \union {Here} ELSE cutShort
  /\ UNCHANGED <<published, cache, expired, bootAt, bootVersion>>

---------------------------------------------------------------------------
(* The world: IANA publishes a new version; a week goes by, or the copy's  *)
(* own max-age does.                                                       *)
Publish(r) ==
  /\ published[r] < LastVersion(r)
  /\ published' = [published EXCEPT ![r] = @ + 1]
  /\ UNCHANGED <<cache, expired, bootTaskVars, cutShort, dirVars>>

Expire(r) ==
  /\ cache[r] \notin {Absent, Torn}
  /\ ~expired[r]
  /\ expired' = [expired EXCEPT ![r] = TRUE]
  /\ UNCHANGED <<published, cache, bootTaskVars, cutShort, dirVars>>
=============================================================================
