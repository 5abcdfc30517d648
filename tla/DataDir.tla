------------------------------ MODULE DataDir ------------------------------
(***************************************************************************)
(* The data directory of the server: the files that describe what it       *)
(* serves, and the two trigger files, "update" and "reload", whose         *)
(* modification times ask the server to read them again.                   *)
(*                                                                         *)
(* A file is written in two steps: fs::write and fs::copy first truncate   *)
(* it, and a reader that comes between sees text that is not JSON.         *)
(*                                                                         *)
(* External: the file system, as icann-rdap-srv/src uses it.  Modification *)
(* times strictly increase: two triggers never have the same one.          *)
(***************************************************************************)
EXTENDS Integers, FiniteSets

CONSTANTS Files

VARIABLES dir,      \* for each file: Absent, Torn, or the version of its content
          trigger,  \* the modification times of the trigger files, 0: no such file
          clock     \* the latest time anything was stamped with

dirVars == <<dir, trigger, clock>>

Absent == 0
Torn == -1
Triggers == {"update", "reload"}

Present == {f \in Files : dir[f] # Absent}

DirInit ==
  /\ dir = [f \in Files |-> Absent]
  /\ trigger = [k \in Triggers |-> 0]
  /\ clock = 0

(* fs::write and fs::copy, first half and second half.                     *)
StartWrite(f) ==
  /\ dir' = [dir EXCEPT ![f] = Torn]
  /\ UNCHANGED <<trigger, clock>>

FinishWrite(f, v) ==
  /\ dir[f] = Torn
  /\ dir' = [dir EXCEPT ![f] = v]
  /\ UNCHANGED <<trigger, clock>>

RemoveFile(f) ==
  /\ dir' = [dir EXCEPT ![f] = Absent]
  /\ UNCHANGED <<trigger, clock>>

(* trigger_update and trigger_reload: File::create.                        *)
Touch(kind) ==
  /\ clock' = clock + 1
  /\ trigger' = [trigger EXCEPT ![kind] = clock + 1]
  /\ UNCHANGED dir
=============================================================================
