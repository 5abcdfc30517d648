----------------------------- MODULE DataLoad ------------------------------
(***************************************************************************)
(* load_data and the reload task (icann-rdap-srv/src/storage/data.rs).     *)
(*                                                                         *)
(* load_data opens a transaction, reads the files of the directory one by  *)
(* one into it and commits it at the end; any error drops the transaction. *)
(* The reload task polls the two trigger files, against one time that both *)
(* share, and ends for good with the first load that fails.                *)
(*                                                                         *)
(* The store serves, for each file, the set of the versions whose objects  *)
(* it holds: an update adds a version to the older ones, whose objects     *)
(* that are not in the new version stay; a reload starts from nothing.     *)
(***************************************************************************)
EXTENDS DataDir

VARIABLES served,    \* what the store holds, per file
          loader,    \* what load_data is running for
          listed,    \* the files the directory had when it was opened
          visited,   \* the files it has been through
          draft,     \* the content of its transaction
          reloadPc,  \* where the reload task is
          lastTime,  \* the task's last_time
          loadedAt,  \* when the last load that was committed began
          emptiedAt  \* when the last truncating one did

loadVars == <<served, loader, listed, visited, draft>>
taskVars == <<reloadPc, lastTime>>
pastVars == <<loadedAt, emptiedAt>>

Nothing == [f \in Files |-> {}]
Loaders == {"none", "init", "update", "reload"}
ReloadPcs == {"off", "spawned", "sleep", "updating", "check_reload", "reloading", "dead"}

LoadInit ==
  /\ served = Nothing
  /\ loader = "none"
  /\ listed = {}
  /\ visited = {}
  /\ draft = Nothing
  /\ reloadPc = "off"
  /\ lastTime = 0
  /\ loadedAt = 0
  /\ emptiedAt = 0

---------------------------------------------------------------------------
(* load_data                                                               *)

(* new_tx or new_truncate_tx, then read_dir.                               *)
BeginLoad(kind) ==
  /\ loader = "none"
  /\ loader' = kind
  /\ listed' = Present
  /\ visited' = {}
  /\ draft' = IF kind = "reload" THEN Nothing ELSE served
  /\ UNCHANGED served

(* One file is read, parsed and added.                                     *)
LoadFile(f) ==
  /\ loader # "none"
  /\ f \notin visited
  /\ dir[f] \notin {Absent, Torn}
  /\ draft' = [draft EXCEPT ![f] = @ \union {dir[f]}]
  /\ visited' = visited \union {f}
  /\ UNCHANGED <<served, loader, listed, taskVars, pastVars, dirVars>>

(* A file that was removed since may not show up any more.                 *)
MissFile(f) ==
  /\ loader # "none"
  /\ f \in listed \ visited
  /\ dir[f] = Absent
  /\ visited' = visited \union {f}
  /\ UNCHANGED <<served, loader, listed, draft, taskVars, pastVars, dirVars>>

DropLoad ==
  /\ loader' = "none"
  /\ listed' = {}
  /\ visited' = {}
  /\ draft' = Nothing

(* Or it shows up and cannot be opened; or a file is only half written and *)
(* does not parse.  The transaction is dropped, the error goes up.         *)
LoadError ==
  /\ loader # "none"
  /\ \E f \in Files \ visited : dir[f] = Torn \/ (f \in listed /\ dir[f] = Absent)
  /\ DropLoad
  /\ UNCHANGED served

(* A slip the runs must catch: committed before every file was read.       *)
LoadDoneEarly ==
  /\ loader # "none"
  /\ served' = draft
  /\ DropLoad

(* The directory is exhausted: commit.  A file that came late may have     *)
(* been seen or not.                                                       *)
LoadDone ==
  /\ loader # "none"
  /\ listed \subseteq visited
  /\ served' = draft
  /\ DropLoad

---------------------------------------------------------------------------
(* reload_data                                                             *)

(* A slip the runs must catch: last_time lies ahead of the clock.          *)
StartReloadTaskAhead ==
  /\ reloadPc = "spawned"
  /\ reloadPc' = "sleep"
  /\ clock' = clock + 1
  /\ lastTime' = clock + 2
  /\ UNCHANGED <<dir, trigger, loadVars, pastVars>>

(* The spawned task starts: last_time is now.                              *)
StartReloadTask ==
  /\ reloadPc = "spawned"
  /\ reloadPc' = "sleep"
  /\ clock' = clock + 1
  /\ lastTime' = clock + 1
  /\ UNCHANGED <<dir, trigger, loadVars, pastVars>>

(* A slip the runs must catch: last_time moves on at every poll.           *)
CheckUpdateMovesOn ==
  /\ reloadPc = "sleep"
  /\ IF trigger["update"] > lastTime
     THEN /\ BeginLoad("update")
          /\ reloadPc' = "updating"
     ELSE /\ reloadPc' = "check_reload"
          /\ UNCHANGED loadVars
  /\ lastTime' = clock
  /\ UNCHANGED <<dirVars, pastVars>>

(* A second later: the update trigger ...                                  *)
CheckUpdate ==
  /\ reloadPc = "sleep"
  /\ IF trigger["update"] > lastTime
     THEN /\ lastTime' = trigger["update"]
          /\ BeginLoad("update")
          /\ reloadPc' = "updating"
     ELSE /\ reloadPc' = "check_reload"
          /\ UNCHANGED <<loadVars, lastTime>>
  /\ UNCHANGED <<dirVars, pastVars>>

(* ... then the reload trigger, against the same last_time.                *)
CheckReload ==
  /\ reloadPc = "check_reload"
  /\ IF trigger["reload"] > lastTime
     THEN /\ lastTime' = trigger["reload"]
          /\ BeginLoad("reload")
          /\ reloadPc' = "reloading"
     ELSE /\ reloadPc' = "sleep"
          /\ UNCHANGED <<loadVars, lastTime>>
  /\ UNCHANGED <<dirVars, pastVars>>

(* The load returns to the loop.  It began no earlier than at last_time.   *)
TaskLoadDone ==
  /\ reloadPc \in {"updating", "reloading"}
  /\ LoadDone
  /\ reloadPc' = IF reloadPc = "updating" THEN "check_reload" ELSE "sleep"
  /\ loadedAt' = lastTime
  /\ emptiedAt' = IF reloadPc = "reloading" THEN lastTime ELSE emptiedAt
  /\ UNCHANGED <<lastTime, dirVars>>

(* An error ends the task: it was spawned, nobody awaits it.               *)
TaskLoadError ==
  /\ reloadPc \in {"updating", "reloading"}
  /\ LoadError
  /\ reloadPc' = "dead"
  /\ UNCHANGED <<lastTime, dirVars, pastVars>>

LoadStep == \E f \in Files : LoadFile(f) \/ MissFile(f)

ReloadTaskStep ==
  StartReloadTask \/ CheckUpdate \/ CheckReload \/ TaskLoadDone \/ TaskLoadError

ReloadTaskAlive == reloadPc \notin {"off", "spawned", "dead"}
=============================================================================
