----------------------------- MODULE MemStore ------------------------------
(***************************************************************************)
(* The in-memory storage engine at the level of its locks                  *)
(* (icann-rdap-srv/src/storage/mem/ops.rs and tx.rs).                      *)
(*                                                                         *)
(* Mem is nine tables, each behind a tokio RwLock of its own.  A           *)
(* transaction (MemTx) copies them one lock at a time, takes its additions *)
(* privately, and commits by taking the nine write locks one by one,       *)
(* swapping each table as it gets its lock; the guards are given back when *)
(* commit returns.  Requests being served take one read lock at a time.    *)
(*                                                                         *)
(* tokio's RwLock is fair: a request for a lock waits behind every earlier *)
(* request that conflicts with it, waiting or granted.  queue[t] is the    *)
(* set of those who asked for the lock of t and have not given it back,    *)
(* and ahead[t][p] those of them who asked before p.                       *)
(*                                                                         *)
(* The content of a table is the set of the transactions whose additions   *)
(* it holds, so that an old, a mixed and a current copy differ.            *)
(***************************************************************************)
EXTENDS Integers, Sequences, FiniteSets

CONSTANTS Tables,       \* the fields of Mem
          CommitOrder,  \* the order in which commit takes the write locks
          HeldOrder,    \* the order in which new takes the read locks it keeps
          DomainTable,  \* Mem.domains, copied first: its lock is given back at once
          NameIndex,    \* Mem.domains_by_name, never copied: rebuilt from the domains
          Txs,          \* the transactions of a behaviour
          Readers,      \* the requests being served
          MaxOpen       \* how many transactions callers keep open at a time

SeqRange(s) == {s[i] : i \in DOMAIN s}
NoRepeat(s) == \A i, j \in DOMAIN s : s[i] = s[j] => i = j

ASSUME OrderAssumption ==
  /\ CommitOrder \in Seq(Tables)
  /\ SeqRange(CommitOrder) = Tables
  /\ NoRepeat(CommitOrder)
  /\ HeldOrder \in Seq(Tables)
  /\ NoRepeat(HeldOrder)
  /\ SeqRange(HeldOrder) = Tables \ {DomainTable, NameIndex}
  /\ DomainTable \in Tables
  /\ NameIndex \in Tables
  /\ Len(HeldOrder) > 0
  /\ Len(CommitOrder) > 0
  /\ HeldOrder[1] = CommitOrder[1]
ASSUME ProcessAssumption == Txs \intersect Readers = {}
ASSUME OpenAssumption == MaxOpen \in Nat \ {0}

VARIABLES table,   \* the content of each table
          queue,   \* who asked for each table's lock and has not given it back
          ahead,   \* who asked for it before
          pc,      \* where each process is
          at,      \* how many locks a transaction has got, or still holds, there
          copy,    \* each transaction's own tables (the fields of MemTx)
          want,    \* the table each reader is after
          answer   \* what each reader read, until it returns: the table and its content

vars == <<table, queue, ahead, pc, at, copy, want, answer>>

Procs == Txs \union Readers
NoData == [t \in Tables |-> {}]
NoAnswer == [table |-> DomainTable, content |-> {}]

TxPcs == {"idle", "domains", "snapshot", "drop_read", "open", "loaded",
          "commit", "drop_write", "over"}
ReaderPcs == {"ready", "wait", "reading"}

(* Callers keep at most MaxOpen transactions open: the server opens one,   *)
(* in load_data, and ends it before the next.                              *)
Open == {p \in Txs : pc[p] \notin {"idle", "over"}}

---------------------------------------------------------------------------
(* tokio's RwLock                                                          *)

Writing(p) == p \in Txs /\ pc[p] \in {"commit", "drop_write"}

(* p's request for the lock of t is granted.                               *)
Granted(p, t) ==
  /\ p \in queue[t]
  /\ \A q \in ahead[t][p] : ~Writing(p) /\ ~Writing(q)

Ask(p, t) ==
  /\ queue' = [queue EXCEPT ![t] = @ \union {p}]
  /\ ahead' = [ahead EXCEPT ![t][p] = queue[t]]

(* The guard on t is dropped, or the wait for it abandoned.                *)
GiveBack(p, t) ==
  /\ queue' = [queue EXCEPT ![t] = @ \ {p}]
  /\ ahead' = [ahead EXCEPT ![t] = [q \in Procs |-> IF q = p THEN {} ELSE ahead[t][q] \ {p}]]

---------------------------------------------------------------------------
Init ==
  /\ table = NoData
  /\ queue = [t \in Tables |-> {}]
  /\ ahead = [t \in Tables |-> [p \in Procs |-> {}]]
  /\ pc = [p \in Procs |-> IF p \in Txs THEN "idle" ELSE "ready"]
  /\ at = [p \in Txs |-> 0]
  /\ copy = [p \in Txs |-> NoData]
  /\ want = [r \in Readers |-> DomainTable]
  /\ answer = [r \in Readers |-> NoAnswer]

Goto(p, label) == pc' = [pc EXCEPT ![p] = label]

(* MemTx::new: asks for the domains ...                                    *)
NewTx(p) ==
  /\ pc[p] = "idle"
  /\ Cardinality(Open) < MaxOpen
  /\ Ask(p, DomainTable)
  /\ Goto(p, "domains")
  /\ UNCHANGED <<table, at, copy, want, answer>>

(* ... copies them, gives their lock back and rebuilds the search index.   *)
CopyDomains(p) ==
  /\ pc[p] = "domains"
  /\ Granted(p, DomainTable)
  /\ copy' = [copy EXCEPT ![p] =
                [t \in Tables |-> IF t \in {DomainTable, NameIndex}
                                  THEN table[DomainTable] ELSE {}]]
  /\ GiveBack(p, DomainTable)
  /\ Goto(p, "snapshot")
  /\ UNCHANGED <<table, at, want, answer>>

(* A slip the runs must catch: the fields are in the opposite order.       *)
ReadLockFromLast(i) == HeldOrder[Len(HeldOrder) + 1 - i]

(* The lock that the i-th field of the struct literal is copied under.     *)
ReadLock(i) == HeldOrder[i]

(* The struct literal: each field's read lock in turn.  The guards are     *)
(* temporaries of the function's last expression and live until it returns.*)
AskRead(p) ==
  /\ pc[p] = "snapshot"
  /\ at[p] < Len(HeldOrder)
  /\ p \notin queue[ReadLock(at[p] + 1)]
  /\ Ask(p, ReadLock(at[p] + 1))
  /\ UNCHANGED <<table, pc, at, copy, want, answer>>

(* A slip the runs must catch: each lock is given back after its copy.     *)
CopyTableUnlocked(p) ==
  /\ pc[p] = "snapshot"
  /\ at[p] < Len(HeldOrder)
  /\ LET t == ReadLock(at[p] + 1) IN
       /\ Granted(p, t)
       /\ copy' = [copy EXCEPT ![p][t] = table[t]]
       /\ GiveBack(p, t)
  /\ at' = [at EXCEPT ![p] = IF @ + 1 = Len(HeldOrder) THEN 0 ELSE @ + 1]
  /\ Goto(p, IF at[p] + 1 = Len(HeldOrder) THEN "open" ELSE "snapshot")
  /\ UNCHANGED <<table, want, answer>>

CopyTable(p) ==
  /\ pc[p] = "snapshot"
  /\ at[p] < Len(HeldOrder)
  /\ LET t == ReadLock(at[p] + 1) IN
       /\ Granted(p, t)
       /\ copy' = [copy EXCEPT ![p][t] = table[t]]
  /\ at' = [at EXCEPT ![p] = @ + 1]
  /\ Goto(p, IF at[p] + 1 = Len(HeldOrder) THEN "drop_read" ELSE "snapshot")
  /\ UNCHANGED <<table, queue, ahead, want, answer>>

(* new returns: its guards are dropped, the last one taken first.          *)
DropRead(p) ==
  /\ pc[p] = "drop_read"
  /\ GiveBack(p, ReadLock(at[p]))
  /\ at' = [at EXCEPT ![p] = @ - 1]
  /\ Goto(p, IF at[p] = 1 THEN "open" ELSE "drop_read")
  /\ UNCHANGED <<table, copy, want, answer>>

(* MemTx::new_truncate takes no lock: every table starts empty.            *)
NewTruncateTx(p) ==
  /\ pc[p] = "idle"
  /\ Cardinality(Open) < MaxOpen
  /\ Goto(p, "open")
  /\ UNCHANGED <<table, queue, ahead, at, copy, want, answer>>

(* The add_ operations change the transaction's own tables only.           *)
Add(p) ==
  /\ pc[p] = "open"
  /\ copy' = [copy EXCEPT ![p] = [t \in Tables |-> @[t] \union {p}]]
  /\ Goto(p, "loaded")
  /\ UNCHANGED <<table, queue, ahead, at, want, answer>>

(* commit starts: it asks for the first write lock.                        *)
Commit(p) ==
  /\ pc[p] = "loaded"
  /\ Ask(p, CommitOrder[1])
  /\ Goto(p, "commit")
  /\ UNCHANGED <<table, at, copy, want, answer>>

AskWrite(p) ==
  /\ pc[p] = "commit"
  /\ p \notin queue[CommitOrder[at[p] + 1]]
  /\ Ask(p, CommitOrder[at[p] + 1])
  /\ UNCHANGED <<table, pc, at, copy, want, answer>>

(* A slip the runs must catch: each guard ends with its swap.              *)
SwapTableUnlocked(p) ==
  /\ pc[p] = "commit"
  /\ LET t == CommitOrder[at[p] + 1] IN
       /\ Granted(p, t)
       /\ table' = [table EXCEPT ![t] = copy[p][t]]
       /\ copy' = [copy EXCEPT ![p][t] = table[t]]
       /\ GiveBack(p, t)
  /\ at' = [at EXCEPT ![p] = IF @ + 1 = Len(CommitOrder) THEN 0 ELSE @ + 1]
  /\ Goto(p, IF at[p] + 1 = Len(CommitOrder) THEN "over" ELSE "commit")
  /\ UNCHANGED <<want, answer>>

(* std::mem::swap under the write lock, which is kept until commit returns.*)
SwapTable(p) ==
  /\ pc[p] = "commit"
  /\ LET t == CommitOrder[at[p] + 1] IN
       /\ Granted(p, t)
       /\ table' = [table EXCEPT ![t] = copy[p][t]]
       /\ copy' = [copy EXCEPT ![p][t] = table[t]]
  /\ at' = [at EXCEPT ![p] = @ + 1]
  /\ Goto(p, IF at[p] + 1 = Len(CommitOrder) THEN "drop_write" ELSE "commit")
  /\ UNCHANGED <<queue, ahead, want, answer>>

(* A slip the runs must catch: the count of the guards runs past zero.     *)
DropWriteTwice(p) ==
  /\ pc[p] = "drop_write"
  /\ GiveBack(p, CommitOrder[at[p]])
  /\ at' = [at EXCEPT ![p] = @ - 2]
  /\ Goto(p, IF at[p] = 1 THEN "over" ELSE "drop_write")
  /\ copy' = [copy EXCEPT ![p] = IF at[p] = 1 THEN NoData ELSE @]
  /\ UNCHANGED <<table, want, answer>>

(* commit returns: the guards are dropped, the last one taken first, and   *)
(* the transaction with them.                                              *)
DropWrite(p) ==
  /\ pc[p] = "drop_write"
  /\ GiveBack(p, CommitOrder[at[p]])
  /\ at' = [at EXCEPT ![p] = @ - 1]
  /\ Goto(p, IF at[p] = 1 THEN "over" ELSE "drop_write")
  /\ copy' = [copy EXCEPT ![p] = IF at[p] = 1 THEN NoData ELSE @]
  /\ UNCHANGED <<table, want, answer>>

(* rollback does nothing: the transaction is dropped, as on any error.     *)
Rollback(p) ==
  /\ pc[p] \in {"open", "loaded"}
  /\ copy' = [copy EXCEPT ![p] = NoData]
  /\ Goto(p, "over")
  /\ UNCHANGED <<table, queue, ahead, at, want, answer>>

---------------------------------------------------------------------------
(* A get_ or search_ operation: one read lock, one lookup.                 *)
Lookup(r, t) ==
  /\ pc[r] = "ready"
  /\ want' = [want EXCEPT ![r] = t]
  /\ Ask(r, t)
  /\ Goto(r, "wait")
  /\ UNCHANGED <<table, at, copy, answer>>

(* A slip the runs must catch: the table is read without waiting.          *)
ReadEarly(r) ==
  /\ pc[r] = "wait"
  /\ answer' = [answer EXCEPT ![r] = [table |-> want[r], content |-> table[want[r]]]]
  /\ Goto(r, "reading")
  /\ UNCHANGED <<table, queue, ahead, at, copy, want>>

Read(r) ==
  /\ pc[r] = "wait"
  /\ Granted(r, want[r])
  /\ answer' = [answer EXCEPT ![r] = [table |-> want[r], content |-> table[want[r]]]]
  /\ Goto(r, "reading")
  /\ UNCHANGED <<table, queue, ahead, at, copy, want>>

Return(r) ==
  /\ pc[r] = "reading"
  /\ GiveBack(r, want[r])
  /\ Goto(r, "ready")
  /\ want' = [want EXCEPT ![r] = DomainTable]
  /\ answer' = [answer EXCEPT ![r] = NoAnswer]
  /\ UNCHANGED <<table, at, copy>>

(* The ten-second timeout layer of app_router drops the handler's future:  *)
(* a waiting request leaves the queue.                                     *)
Timeout(r) ==
  /\ pc[r] = "wait"
  /\ GiveBack(r, want[r])
  /\ Goto(r, "ready")
  /\ want' = [want EXCEPT ![r] = DomainTable]
  /\ UNCHANGED <<table, at, copy, answer>>

---------------------------------------------------------------------------
TxStep(p) ==
  \/ NewTx(p) \/ CopyDomains(p) \/ AskRead(p) \/ CopyTable(p) \/ DropRead(p)
  \/ NewTruncateTx(p) \/ Add(p) \/ Rollback(p)
  \/ Commit(p) \/ AskWrite(p) \/ SwapTable(p) \/ DropWrite(p)

ReaderStep(r) == (\E t \in Tables : Lookup(r, t)) \/ Read(r) \/ Return(r) \/ Timeout(r)

Next == (\E p \in Txs : TxStep(p)) \/ (\E r \in Readers : ReaderStep(r))

Spec == Init /\ [][Next]_vars

(* Whoever is inside an operation of the store is scheduled again by the   *)
(* runtime; nobody has to start one, and no request has to time out.       *)
Fairness ==
  /\ \A p \in Txs :
       WF_vars(CopyDomains(p) \/ AskRead(p) \/ CopyTable(p) \/ DropRead(p)
               \/ AskWrite(p) \/ SwapTable(p) \/ DropWrite(p))
  /\ \A r \in Readers : WF_vars(Read(r) \/ Return(r))

FairSpec == Spec /\ Fairness

---------------------------------------------------------------------------
(* The locks, the counts of guards and the tables keep their shape, and a  *)
(* process is only ever at a label of its own kind.                        *)
TypeOK ==
  /\ table \in [Tables -> SUBSET Txs]
  /\ queue \in [Tables -> SUBSET Procs]
  /\ ahead \in [Tables -> [Procs -> SUBSET Procs]]
  /\ pc \in [Procs -> TxPcs \union ReaderPcs]
  /\ \A p \in Txs : pc[p] \in TxPcs
  /\ \A r \in Readers : pc[r] \in ReaderPcs
  /\ at \in [Txs -> Nat]
  /\ copy \in [Txs -> [Tables -> SUBSET Txs]]
  /\ want \in [Readers -> Tables]
  /\ answer \in [Readers -> [table : Tables, content : SUBSET Txs]]

(* The tables a commit under way has already swapped: the transaction's    *)
(* own copy now holds what was committed before.                           *)
Swapped(p) == IF pc[p] = "commit" THEN {CommitOrder[i] : i \in 1..at[p]} ELSE {}

(* The committed data: what the tables hold, but for a commit under way,   *)
(* whose swaps count all at once when the last one is done.                *)
Committed ==
  [t \in Tables |-> IF \E p \in Txs : t \in Swapped(p)
                    THEN copy[CHOOSE p \in Txs : t \in Swapped(p)][t]
                    ELSE table[t]]

(* How far a transaction is, and what it holds, for its caller.            *)
Phase(p) ==
  CASE pc[p] \in {"idle", "domains"} -> "idle"
    [] pc[p] = "snapshot" -> "half"
    [] pc[p] \in {"drop_read", "open"} -> "open"
    [] pc[p] \in {"loaded", "commit"} -> "loaded"
    [] pc[p] \in {"drop_write", "over"} -> "over"

Draft(p) ==
  [t \in Tables |->
     CASE pc[p] = "drop_write" -> {}
       [] pc[p] = "snapshot" /\ t \notin {DomainTable, NameIndex} -> {}
       [] t \in Swapped(p) -> table[t]
       [] OTHER -> copy[p][t]]

Abs == INSTANCE AtomicStore
         WITH db <- Committed,
              phase <- [p \in Txs |-> Phase(p)],
              draft <- [p \in Txs |-> Draft(p)]

(* The nine locks taken one at a time behave as one atomic step: commits   *)
(* replace everything at once, lookups see no half of a commit, and all    *)
(* the tables a transaction copies after the domains come from one commit. *)
ImplementsAtomicStore == Abs!AbsSpec

(* Two commits never overlap: a second one gets its first lock only after  *)
(* the first one has given back its last.                                  *)
CommitsTakeTurns ==
  \A p, q \in Txs :
    (/\ pc[p] = "drop_write" \/ (pc[p] = "commit" /\ at[p] > 0)
     /\ pc[q] = "drop_write" \/ (pc[q] = "commit" /\ at[q] > 0)) => p = q

(* The tables whose read locks new keeps while it copies them always agree *)
(* with each other: in the committed data and in every transaction's copy. *)
HeldTablesAgree ==
  \A t, u \in Tables \ {DomainTable, NameIndex} :
    /\ Committed[t] = Committed[u]
    /\ \A p \in Txs : Draft(p)[t] = Draft(p)[u]

(* With one transaction open at a time, as in the server, the domains and  *)
(* their index agree with the other tables too, and an update that is      *)
(* ready to commit holds all that is committed: no commit is lost.         *)
UpdatesBuildOnCommitted ==
  /\ \A t, u \in Tables : Committed[t] = Committed[u]
  /\ \A p \in Txs : Phase(p) = "loaded" =>
        \/ \A t \in Tables : Draft(p)[t] = {p}
        \/ \A t \in Tables : Draft(p)[t] = Committed[t] \union {p}

(* Inside an operation that takes locks.                                   *)
Busy(p) ==
  pc[p] \in {"domains", "snapshot", "drop_read", "commit", "drop_write", "wait", "reading"}

(* Every operation that was begun returns: a transaction that is being     *)
(* opened or committed is not starved by lookups, and nobody waits for a   *)
(* lock in a circle.                                                       *)
OperationsReturn == \A p \in Procs : Busy(p) ~> ~Busy(p)

=============================================================================
