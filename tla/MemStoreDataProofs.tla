------------------------ MODULE MemStoreDataProofs -------------------------
(***************************************************************************)
(* What the locks of MemStore do for its data, and that MemStore           *)
(* implements AtomicStore, for any tables, orders of the locks,            *)
(* transactions and requests.                                              *)
(*                                                                         *)
(* The argument: all commits and all snapshots begin with the same table,  *)
(* whose lock they keep.  So there is at most one commit under way, which  *)
(* says what is committed; and while a snapshot holds any lock there is    *)
(* none, so that all it copies is what was committed when it began.        *)
(***************************************************************************)
EXTENDS MemStoreProofs, FiniteSetTheorems

Kept == Tables \ {DomainTable, NameIndex}

(* With one commit at a time the committed data are determined by it.      *)
CommittedIs ==
  \A t \in Tables :
    /\ \A p \in Txs : t \in Swapped(p) => Committed[t] = copy[p][t]
    /\ (\A p \in Txs : t \notin Swapped(p)) => Committed[t] = table[t]

(* What a snapshot has copied so far is what is committed.                 *)
SnapshotCurrent ==
  \A p \in Txs : pc[p] = "snapshot" =>
    \A i \in 1..at[p] : copy[p][HeldOrder[i]] = Committed[HeldOrder[i]]

DataInv == LockInv /\ HeldTablesAgree /\ SnapshotCurrent

---------------------------------------------------------------------------
LEMMA SwappedCommits ==
  ASSUME LockInv, NEW p \in Txs, NEW t \in Swapped(p)
  PROVE  /\ pc[p] = "commit" /\ at[p] > 0 /\ at[p] \in Nat
         /\ t \in Tables
         /\ Granted(p, CommitOrder[1]) /\ Writing(p)
<1>1. pc[p] = "commit" /\ at[p] \in Nat /\ t \in Prefix(CommitOrder, at[p])
  BY DEF Swapped, LockInv, TypeOK, Prefix
<1>2. at[p] > 0
  BY <1>1 DEF Prefix
<1>3. p \in Procs /\ Held(p) = Prefix(CommitOrder, at[p])
  BY <1>1, TxHolds DEF Procs
<1>4. CommitOrder[1] \in Held(p)
  BY <1>1, <1>2, <1>3 DEF Prefix
<1>5. Granted(p, CommitOrder[1])
  BY <1>3, <1>4 DEF LockInv, Queued, QueuedAt
<1>6. t \in Tables
  BY <1>1, <1>3, HeldInTables DEF LockInv
<1> QED BY <1>1, <1>2, <1>5, <1>6 DEF Writing

LEMMA OneSwaps ==
  ASSUME LockInv, NEW p \in Txs, NEW q \in Txs, Swapped(p) # {}, Swapped(q) # {}
  PROVE  p = q
<1>1. CommitsTakeTurns
  BY TurnsFromLocks
<1> QED BY <1>1, SwappedCommits DEF CommitsTakeTurns

LEMMA CommittedFacts == LockInv => CommittedIs
<1> SUFFICES ASSUME LockInv, NEW t \in Tables
             PROVE  /\ \A p \in Txs : t \in Swapped(p) => Committed[t] = copy[p][t]
                    /\ (\A p \in Txs : t \notin Swapped(p)) => Committed[t] = table[t]
  BY DEF CommittedIs
<1>1. ASSUME NEW p \in Txs, t \in Swapped(p) PROVE Committed[t] = copy[p][t]
  <2> DEFINE c == CHOOSE q \in Txs : t \in Swapped(q)
  <2>1. c \in Txs /\ t \in Swapped(c)
    BY <1>1
  <2>2. c = p
    BY <1>1, <2>1, OneSwaps
  <2>3. Committed[t] = copy[c][t]
    BY <1>1 DEF Committed
  <2> QED BY <2>2, <2>3
<1>2. ASSUME \A p \in Txs : t \notin Swapped(p) PROVE Committed[t] = table[t]
  BY <1>2 DEF Committed
<1> QED BY <1>1, <1>2

(* Nobody commits while somebody has a granted request for the first lock. *)
LEMMA NobodySwaps ==
  ASSUME LockInv, NEW p \in Procs, Granted(p, CommitOrder[1]),
         NEW q \in Txs, q # p
  PROVE  Swapped(q) = {}
<1> SUFFICES ASSUME Swapped(q) # {} PROVE FALSE
  OBVIOUS
<1>1. PICK t \in Swapped(q) : TRUE
  OBVIOUS
<1>2. Granted(q, CommitOrder[1]) /\ Writing(q)
  BY SwappedCommits
<1> QED BY <1>2, WritersExclude, Orders, OrderAssumption DEF Procs

(* The committed data stay as they are when no table is swapped.           *)
LEMMA CommittedStays ==
  ASSUME LockInv, LockInv', table' = table,
         \A q \in Txs : Swapped(q)' = Swapped(q) /\ (Swapped(q) # {} => copy'[q] = copy[q])
  PROVE  Committed' = Committed
<1>1. CommittedIs /\ CommittedIs'
  BY CommittedFacts, PTL
<1>2. ASSUME NEW t \in Tables PROVE Committed'[t] = Committed[t]
  <2>1. CASE \E p \in Txs : t \in Swapped(p)
    BY <1>1, <2>1 DEF CommittedIs
  <2>2. CASE \A p \in Txs : t \notin Swapped(p)
    BY <1>1, <2>2 DEF CommittedIs
  <2> QED BY <2>1, <2>2
<1> QED BY <1>2 DEF Committed

---------------------------------------------------------------------------
(* What a transaction is for its caller does not depend on the others.     *)
OnlyMoves(p) ==
  \A q \in Txs \ {p} : pc'[q] = pc[q] /\ at'[q] = at[q] /\ copy'[q] = copy[q]

LEMMA OthersKeepData ==
  ASSUME NEW p, OnlyMoves(p), NEW q \in Txs, q # p, table' = table \/ Swapped(q) = {}
  PROVE  Swapped(q)' = Swapped(q) /\ Phase(q)' = Phase(q) /\ Draft(q)' = Draft(q)
<1>1. pc'[q] = pc[q] /\ at'[q] = at[q] /\ copy'[q] = copy[q]
  BY DEF OnlyMoves
<1>2. Swapped(q)' = Swapped(q)
  BY <1>1 DEF Swapped
<1>3. Phase(q)' = Phase(q)
  BY <1>1 DEF Phase
<1>4. Draft(q)' = Draft(q)
  BY <1>1, <1>2 DEF Draft
<1> QED BY <1>2, <1>3, <1>4

(* Callers see nothing of this step.                                       *)
Unseen ==
  /\ Committed' = Committed
  /\ \A q \in Txs : Phase(q)' = Phase(q) /\ Draft(q)' = Draft(q)

(* A step of p that leaves the tables alone is unseen if p's caller does   *)
(* not see it.                                                             *)
LEMMA UnseenStep ==
  ASSUME LockInv, LockInv', NEW p, OnlyMoves(p), table' = table,
         p \in Txs => /\ Swapped(p) = {} /\ Swapped(p)' = {}
                      /\ Phase(p)' = Phase(p) /\ Draft(p)' = Draft(p)
  PROVE  Unseen
<1>1. \A q \in Txs : q # p => Swapped(q)' = Swapped(q) /\ Phase(q)' = Phase(q) /\ Draft(q)' = Draft(q)
  BY OthersKeepData
<1>2. \A q \in Txs : Swapped(q)' = Swapped(q) /\ (Swapped(q) # {} => copy'[q] = copy[q])
  BY <1>1 DEF OnlyMoves
<1>3. Committed' = Committed
  BY <1>2, CommittedStays
<1> QED BY <1>1, <1>3 DEF Unseen

LEMMA LabelsUnseen ==
  ASSUME LockInv, LockInv', NEW p \in Txs,
         NewTx(p) \/ AskRead(p) \/ DropRead(p) \/ Commit(p)
  PROVE  Unseen
<1>1. p \in Procs /\ table' = table /\ copy' = copy /\ pc' \in [Procs -> TxPcs \union ReaderPcs]
  BY DEF ReadLock, NewTx, AskRead, DropRead, Commit, Procs, LockInv, TypeOK
<1>2. OnlyMoves(p)
  BY <1>1, ProcessAssumption
     DEF ReadLock, OnlyMoves, NewTx, AskRead, DropRead, Commit, Goto, Procs, LockInv, TypeOK
<1>3. \/ pc[p] = "idle" /\ pc'[p] = "domains"
      \/ pc[p] = "snapshot" /\ pc'[p] = "snapshot"
      \/ pc[p] = "drop_read" /\ pc'[p] \in {"drop_read", "open"}
      \/ pc[p] = "loaded" /\ pc'[p] = "commit" /\ at'[p] = 0
  BY <1>1 DEF ReadLock, NewTx, AskRead, DropRead, Commit, Goto, LockInv, TypeOK, Counted, CountedAt
<1>4. Swapped(p) = {} /\ Swapped(p)' = {}
  BY <1>3 DEF Swapped
<1>5. Phase(p)' = Phase(p)
  BY <1>3 DEF Phase
<1>6. Draft(p)' = Draft(p)
  BY <1>1, <1>3, <1>4 DEF Draft
<1> QED BY <1>1, <1>2, <1>4, <1>5, <1>6, UnseenStep

LEMMA AskWriteUnseen ==
  ASSUME LockInv, LockInv', NEW p \in Txs, AskWrite(p)
  PROVE  Unseen
<1>1. table' = table /\ copy' = copy /\ pc' = pc /\ at' = at
  BY DEF AskWrite
<1>2. \A q \in Txs : Swapped(q)' = Swapped(q) /\ Phase(q)' = Phase(q)
  BY <1>1 DEF Swapped, Phase
<1>3. \A q \in Txs : Draft(q)' = Draft(q)
  BY <1>1, <1>2 DEF Draft
<1>4. Committed' = Committed
  BY <1>1, <1>2, CommittedStays
<1> QED BY <1>2, <1>3, <1>4 DEF Unseen

LEMMA DropWriteUnseen ==
  ASSUME LockInv, LockInv', NEW p \in Txs, DropWrite(p)
  PROVE  Unseen
<1>1. p \in Procs /\ table' = table
  BY DEF DropWrite, Procs
<1>2. OnlyMoves(p)
  BY <1>1, ProcessAssumption DEF OnlyMoves, DropWrite, Goto, Procs, LockInv, TypeOK
<1>3. /\ pc[p] = "drop_write" /\ pc'[p] \in {"drop_write", "over"}
      /\ pc'[p] = "over" => copy'[p] = NoData
  BY <1>1 DEF DropWrite, Goto, LockInv, TypeOK
<1>4. Swapped(p) = {} /\ Swapped(p)' = {}
  BY <1>3 DEF Swapped
<1>5. Phase(p)' = Phase(p)
  BY <1>3 DEF Phase
<1>6. Draft(p)' = Draft(p)
  <2>1. Draft(p) = [t \in Tables |-> {}]
    BY <1>3, <1>4 DEF Draft
  <2>2. \A t \in Tables : t \notin Swapped(p)'
    BY <1>4
  <2>3. Draft(p)' = [t \in Tables |-> {}]
    BY <1>3, <1>4, <2>2 DEF Draft, NoData
  <2> QED BY <2>1, <2>3
<1> QED BY <1>1, <1>2, <1>4, <1>5, <1>6, UnseenStep

LEMMA ReadersUnseen ==
  ASSUME LockInv, LockInv', NEW r \in Readers, ReaderStep(r)
  PROVE  Unseen
<1>1. r \in Procs /\ r \notin Txs /\ table' = table /\ copy' = copy /\ at' = at
  BY ProcessAssumption DEF ReaderStep, Lookup, Read, Return, Timeout, Procs
<1>2. OnlyMoves(r)
  BY <1>1 DEF OnlyMoves, ReaderStep, Lookup, Read, Return, Timeout, Goto, Procs, LockInv, TypeOK
<1> QED BY <1>1, <1>2, UnseenStep

---------------------------------------------------------------------------
(* The steps of a snapshot.                                                *)

(* Where a granted request meets the table, what it finds is committed.    *)
LEMMA GrantedIsCommitted ==
  ASSUME LockInv, NEW p \in Procs, ~Writing(p), NEW t \in Tables, Granted(p, t)
  PROVE  Committed[t] = table[t] /\ \A q \in Txs : t \notin Swapped(q)
<1>1. ASSUME NEW q \in Txs, t \in Swapped(q) PROVE FALSE
  <2>1. Writing(q) /\ q \in Procs
    BY <1>1, SwappedCommits DEF Procs
  <2>2. Granted(q, t)
    BY <1>1, <2>1, TxHolds DEF Swapped, Prefix, LockInv, Queued, QueuedAt
  <2> QED BY <2>1, <2>2, WritersExclude
<1>2. CommittedIs
  BY CommittedFacts
<1> QED BY <1>1, <1>2 DEF CommittedIs

LEMMA CopyDomainsData ==
  ASSUME LockInv, LockInv', NEW p \in Txs, CopyDomains(p)
  PROVE  /\ Committed' = Committed
         /\ \A q \in Txs : q # p => Phase(q)' = Phase(q) /\ Draft(q)' = Draft(q)
         /\ Phase(p) = "idle" /\ Phase(p)' = "half"
         /\ Draft(p)' = [t \in Tables |-> IF t \in {DomainTable, NameIndex}
                                          THEN Committed[DomainTable] ELSE {}]
         /\ pc'[p] = "snapshot" /\ at'[p] = 0
<1>1. p \in Procs /\ table' = table /\ at' = at /\ pc[p] = "domains" /\ pc'[p] = "snapshot"
  BY DEF CopyDomains, Goto, Procs, LockInv, TypeOK
<1>2. OnlyMoves(p)
  BY <1>1 DEF OnlyMoves, CopyDomains, Goto, Procs, LockInv, TypeOK
<1>3. copy'[p] = [t \in Tables |-> IF t \in {DomainTable, NameIndex}
                                  THEN table[DomainTable] ELSE {}]
  BY DEF CopyDomains, LockInv, TypeOK
<1>4. Swapped(p) = {} /\ Swapped(p)' = {}
  BY <1>1 DEF Swapped
<1>5. \A q \in Txs : q # p => Swapped(q)' = Swapped(q) /\ Phase(q)' = Phase(q) /\ Draft(q)' = Draft(q)
  BY <1>1, <1>2, OthersKeepData
<1>6. \A q \in Txs : Swapped(q)' = Swapped(q) /\ (Swapped(q) # {} => copy'[q] = copy[q])
  BY <1>2, <1>4, <1>5 DEF OnlyMoves
<1>7. Committed' = Committed
  BY <1>1, <1>6, CommittedStays
<1>8. Committed[DomainTable] = table[DomainTable]
  <2>1. Granted(p, DomainTable) /\ ~Writing(p)
    BY <1>1 DEF CopyDomains, Writing
  <2> QED BY <1>1, <2>1, OrderAssumption, GrantedIsCommitted
<1>9. Draft(p)' = copy'[p]
  BY <1>1, <1>3, <1>4 DEF Draft
<1>10. Phase(p) = "idle" /\ Phase(p)' = "half"
  BY <1>1 DEF Phase
<1>11. at'[p] = 0
  BY <1>1 DEF LockInv, Counted, CountedAt
<1> QED BY <1>1, <1>3, <1>5, <1>7, <1>8, <1>9, <1>10, <1>11

(* A table that is copied under its lock is what is committed, and so are  *)
(* all those copied before: the first lock keeps every commit out.         *)
LEMMA CopyTableData ==
  ASSUME DataInv, LockInv', NEW p \in Txs, CopyTable(p)
  PROVE  /\ Committed' = Committed
         /\ \A q \in Txs : q # p => /\ Phase(q)' = Phase(q) /\ Draft(q)' = Draft(q)
                                    /\ pc'[q] = pc[q] /\ at'[q] = at[q] /\ copy'[q] = copy[q]
         /\ Phase(p) = "half"
         /\ pc'[p] \in {"snapshot", "drop_read"}
         /\ \A i \in 1..at'[p] : copy'[p][HeldOrder[i]] = Committed[HeldOrder[i]]
         /\ pc'[p] = "snapshot" => Phase(p)' = "half" /\ Draft(p)' = Draft(p)
         /\ pc'[p] = "drop_read" =>
               /\ Phase(p)' = "open"
               /\ Draft(p)' = [t \in Tables |-> IF t \in {DomainTable, NameIndex}
                                                THEN Draft(p)[t] ELSE Committed[t]]
<1> USE DEF DataInv
<1> DEFINE n == at[p] + 1
<1>1. /\ p \in Procs /\ table' = table /\ pc[p] = "snapshot" /\ at[p] \in Nat
      /\ n \in 1..Len(HeldOrder) /\ HeldOrder[n] \in Tables
      /\ Granted(p, HeldOrder[n])
      /\ copy' = [copy EXCEPT ![p][HeldOrder[n]] = table[HeldOrder[n]]]
      /\ at'[p] = n
  BY Orders DEF ReadLock, CopyTable, Procs, LockInv, TypeOK
<1>2. pc'[p] = IF n = Len(HeldOrder) THEN "drop_read" ELSE "snapshot"
  BY <1>1 DEF ReadLock, CopyTable, Goto, LockInv, TypeOK
<1>3. OnlyMoves(p)
  BY <1>1 DEF ReadLock, OnlyMoves, CopyTable, Goto, Procs, LockInv, TypeOK
<1>4. Swapped(p) = {} /\ Swapped(p)' = {}
  BY <1>1, <1>2 DEF Swapped
<1>5. \A q \in Txs : q # p => Swapped(q)' = Swapped(q) /\ Phase(q)' = Phase(q) /\ Draft(q)' = Draft(q)
  BY <1>1, <1>3, OthersKeepData
<1>6. \A q \in Txs : Swapped(q)' = Swapped(q) /\ (Swapped(q) # {} => copy'[q] = copy[q])
  BY <1>3, <1>4, <1>5 DEF OnlyMoves
<1>7. Committed' = Committed
  BY <1>1, <1>6, CommittedStays
<1>8. Committed[HeldOrder[n]] = table[HeldOrder[n]]
  <2>1. ~Writing(p)
    BY <1>1 DEF Writing
  <2> QED BY <1>1, <2>1, GrantedIsCommitted
<1>9. ASSUME NEW t \in Tables
      PROVE  copy'[p][t] = IF t = HeldOrder[n] THEN table[t] ELSE copy[p][t]
  BY <1>1 DEF LockInv, TypeOK
<1>10. ASSUME NEW i \in 1..at'[p] PROVE copy'[p][HeldOrder[i]] = Committed[HeldOrder[i]]
  <2>1. i \in 1..Len(HeldOrder) /\ HeldOrder[i] \in Tables
    BY <1>1, Orders
  <2>2. CASE i = n
    BY <1>8, <1>9, <2>1, <2>2
  <2>3. CASE i # n
    <3>1. i \in 1..at[p]
      BY <1>1, <2>3
    <3>2. copy[p][HeldOrder[i]] = Committed[HeldOrder[i]]
      BY <1>1, <3>1 DEF SnapshotCurrent
    <3>3. HeldOrder[i] # HeldOrder[n]
      BY <1>1, <2>1, <2>3, Orders, OrderAssumption DEF NoRepeat
    <3> QED BY <1>9, <2>1, <3>2, <3>3
  <2> QED BY <2>2, <2>3
<1>11. Phase(p) = "half" /\ (pc'[p] = "snapshot" => Phase(p)' = "half")
       /\ (pc'[p] = "drop_read" => Phase(p)' = "open")
  BY <1>1, <1>2 DEF Phase
<1>12. /\ Draft(p) = [t \in Tables |-> IF t \in {DomainTable, NameIndex} THEN copy[p][t] ELSE {}]
       /\ pc'[p] = "snapshot" =>
             Draft(p)' = [t \in Tables |-> IF t \in {DomainTable, NameIndex} THEN copy'[p][t] ELSE {}]
       /\ pc'[p] = "drop_read" => Draft(p)' = [t \in Tables |-> copy'[p][t]]
  <2>1. Draft(p) = [t \in Tables |-> IF t \in {DomainTable, NameIndex} THEN copy[p][t] ELSE {}]
    BY <1>1, <1>4 DEF Draft
  <2>2. ASSUME pc'[p] = "snapshot"
        PROVE  Draft(p)' = [t \in Tables |-> IF t \in {DomainTable, NameIndex} THEN copy'[p][t] ELSE {}]
    BY <1>4, <2>2 DEF Draft
  <2>3. ASSUME pc'[p] = "drop_read" PROVE Draft(p)' = [t \in Tables |-> copy'[p][t]]
    BY <1>4, <2>3 DEF Draft
  <2> QED BY <2>1, <2>2, <2>3
<1>13. \A t \in {DomainTable, NameIndex} : copy'[p][t] = copy[p][t]
  <2>1. HeldOrder[n] \notin {DomainTable, NameIndex}
    BY <1>1, Orders, OrderAssumption DEF SeqRange
  <2> QED BY <1>9, <2>1, OrderAssumption
<1>14. ASSUME pc'[p] = "drop_read", NEW t \in Kept PROVE copy'[p][t] = Committed[t]
  <2>1. PICK i \in 1..Len(HeldOrder) : t = HeldOrder[i]
    BY Orders, OrderAssumption DEF SeqRange, Kept
  <2>2. at'[p] = Len(HeldOrder)
    BY <1>1, <1>2, <1>14
  <2> QED BY <1>10, <2>1, <2>2
<1>15. pc'[p] = "snapshot" => Draft(p)' = Draft(p)
  BY <1>12, <1>13
<1>16. ASSUME pc'[p] = "drop_read"
       PROVE  Draft(p)' = [t \in Tables |-> IF t \in {DomainTable, NameIndex}
                                            THEN Draft(p)[t] ELSE Committed[t]]
  <2>1. \A t \in Tables : copy'[p][t] = IF t \in {DomainTable, NameIndex}
                                        THEN Draft(p)[t] ELSE Committed[t]
    BY <1>12, <1>13, <1>14, <1>16 DEF Kept
  <2> QED BY <1>12, <1>16, <2>1
<1> QED
  BY <1>2, <1>3, <1>5, <1>7, <1>10, <1>11, <1>15, <1>16 DEF OnlyMoves

---------------------------------------------------------------------------
(* The steps of a commit: only the last swap is seen, and it makes the     *)
(* transaction's draft what is committed.                                  *)
LEMMA SwapTableData ==
  ASSUME LockInv, LockInv', NEW p \in Txs, SwapTable(p)
  PROVE  /\ \A q \in Txs : q # p => /\ Phase(q)' = Phase(q) /\ Draft(q)' = Draft(q)
                                    /\ pc'[q] = pc[q] /\ at'[q] = at[q] /\ copy'[q] = copy[q]
         /\ \A q \in Txs : pc'[q] = "snapshot" => at'[q] = 0
         /\ Phase(p) = "loaded"
         /\ pc'[p] \in {"commit", "drop_write"}
         /\ pc'[p] = "commit" => Committed' = Committed /\ Phase(p)' = "loaded" /\ Draft(p)' = Draft(p)
         /\ pc'[p] = "drop_write" => Committed' = Draft(p) /\ Phase(p)' = "over" /\ Draft(p)' = NoData
<1> DEFINE n == at[p] + 1
<1> DEFINE t == CommitOrder[n]
<1>1. /\ p \in Procs /\ pc[p] = "commit" /\ at[p] \in Nat
      /\ n \in 1..Len(CommitOrder) /\ t \in Tables
      /\ table' = [table EXCEPT ![t] = copy[p][t]]
      /\ copy' = [copy EXCEPT ![p][t] = table[t]]
      /\ at'[p] = n
  BY Orders DEF SwapTable, Procs, LockInv, TypeOK, Counted, CountedAt
<1>2. pc'[p] = IF n = Len(CommitOrder) THEN "drop_write" ELSE "commit"
  BY <1>1 DEF SwapTable, Goto, LockInv, TypeOK
<1>3. OnlyMoves(p)
  BY <1>1 DEF OnlyMoves, SwapTable, Goto, Procs, LockInv, TypeOK
<1>4. Granted(p, CommitOrder[1])'
  <2>1. Held(p)' = Prefix(CommitOrder, n)
    BY <1>1, <1>2, ProcessAssumption DEF Held, Prefix
  <2>2. CommitOrder[1] \in Prefix(CommitOrder, n)
    BY <1>1 DEF Prefix
  <2> QED BY <1>1, <2>1, <2>2 DEF LockInv, Queued, QueuedAt
<1>5. Writing(p)' /\ Writing(p)
  BY <1>1, <1>2 DEF Writing
<1>6. ASSUME NEW q \in Procs, q # p PROVE ~ Granted(q, CommitOrder[1])'
  <2>1. CommitOrder[1] \in Tables
    BY Orders, OrderAssumption
  <2> QED BY <1>1, <1>4, <1>5, <1>6, <2>1 DEF LockInv, InLine, Granted
<1>7. ASSUME NEW q \in Txs, pc'[q] = "snapshot" PROVE at'[q] = 0
  <2>1. q # p /\ q \in Procs
    BY <1>2, <1>7 DEF Procs
  <2>2. SUFFICES ASSUME at'[q] # 0 PROVE FALSE
    OBVIOUS
  <2>3. HeldOrder[1] \in Prefix(HeldOrder, at'[q])
    BY <2>2 DEF Prefix, LockInv, TypeOK
  <2>4. Held(q)' = Prefix(HeldOrder, at'[q])
    BY <1>7, ProcessAssumption DEF Held, Prefix
  <2>5. Granted(q, CommitOrder[1])'
    BY <2>1, <2>3, <2>4, OrderAssumption DEF LockInv, Queued, QueuedAt
  <2> QED BY <1>6, <2>1, <2>5
<1>8. ASSUME NEW q \in Txs, q # p PROVE Swapped(q) = {}
  <2>1. SUFFICES ASSUME NEW u \in Swapped(q) PROVE FALSE
    OBVIOUS
  <2>2. pc[q] = "commit" /\ at[q] > 0 /\ at[q] \in Nat
    BY SwappedCommits
  <2>3. pc'[q] = "commit" /\ at'[q] = at[q] /\ q \in Procs
    BY <1>3, <1>8, <2>2 DEF OnlyMoves, Procs
  <2>4. Held(q)' = Prefix(CommitOrder, at[q])
    BY <2>3, ProcessAssumption DEF Held, Prefix
  <2>5. CommitOrder[1] \in Prefix(CommitOrder, at[q])
    BY <2>2 DEF Prefix
  <2>6. Granted(q, CommitOrder[1])'
    BY <2>3, <2>4, <2>5 DEF LockInv, Queued, QueuedAt
  <2> QED BY <1>6, <1>8, <2>3, <2>6
<1>9. \A q \in Txs : q # p => Swapped(q)' = Swapped(q) /\ Phase(q)' = Phase(q) /\ Draft(q)' = Draft(q)
  BY <1>3, <1>8, OthersKeepData
<1>10. CommittedIs /\ CommittedIs'
  BY CommittedFacts, PTL
<1>11. ASSUME NEW u \in Tables
       PROVE  /\ Committed[u] = IF u \in Swapped(p) THEN copy[p][u] ELSE table[u]
              /\ Committed'[u] = IF u \in Swapped(p)' THEN copy'[p][u] ELSE table'[u]
  <2>1. \A q \in Txs : q # p => u \notin Swapped(q) /\ u \notin Swapped(q)'
    BY <1>8, <1>9
  <2>2. (\A q \in Txs : u \notin Swapped(q)) \/ u \in Swapped(p)
    BY <2>1
  <2>3. (\A q \in Txs : u \notin Swapped(q)') \/ u \in Swapped(p)'
    BY <2>1
  <2> QED BY <1>10, <2>2, <2>3 DEF CommittedIs
<1>12. ASSUME NEW u \in Tables
       PROVE  /\ table'[u] = IF u = t THEN copy[p][t] ELSE table[u]
              /\ copy'[p][u] = IF u = t THEN table[t] ELSE copy[p][u]
  BY <1>1 DEF LockInv, TypeOK
<1>13. Swapped(p) = Prefix(CommitOrder, at[p])
  BY <1>1 DEF Swapped, Prefix
<1>14. t \notin Swapped(p)
  <2>1. at[p] \in Nat /\ at[p] < Len(CommitOrder)
    BY <1>1, Orders
  <2>2. t \notin Prefix(CommitOrder, at[p])
    BY <2>1, PrefixIsNew, Orders, OrderAssumption
  <2> QED BY <1>13, <2>2
<1>15. Draft(p) = [u \in Tables |-> IF u \in Swapped(p) THEN table[u] ELSE copy[p][u]]
  BY <1>1 DEF Draft
<1>16. Phase(p) = "loaded" /\ (pc'[p] = "commit" => Phase(p)' = "loaded")
       /\ (pc'[p] = "drop_write" => Phase(p)' = "over")
  BY <1>1 DEF Phase
<1>17. ASSUME pc'[p] = "commit"
       PROVE  Committed' = Committed /\ Draft(p)' = Draft(p)
  <2>1. Swapped(p)' = Swapped(p) \union {t}
    <3>1. Swapped(p)' = Prefix(CommitOrder, n)
      BY <1>1, <1>17 DEF Swapped, Prefix
    <3> QED BY <1>1, <1>13, <3>1, PrefixSteps
  <2>2. \A u \in Tables : Committed'[u] = Committed[u]
    BY <1>11, <1>12, <1>14, <2>1
  <2>3. Committed' = Committed
    BY <2>2 DEF Committed
  <2>4. Draft(p)' = [u \in Tables |-> IF u \in Swapped(p)' THEN table'[u] ELSE copy'[p][u]]
    BY <1>17 DEF Draft
  <2>5. \A u \in Tables : (IF u \in Swapped(p)' THEN table'[u] ELSE copy'[p][u])
                         = (IF u \in Swapped(p) THEN table[u] ELSE copy[p][u])
    BY <1>12, <1>14, <2>1
  <2>6. Draft(p)' = Draft(p)
    BY <1>15, <2>4, <2>5
  <2> QED BY <2>3, <2>6
<1>18. ASSUME pc'[p] = "drop_write"
       PROVE  Committed' = Draft(p) /\ Draft(p)' = NoData
  <2>1. Swapped(p)' = {}
    BY <1>18 DEF Swapped
  <2>2. Draft(p)' = NoData
    BY <1>18, <2>1 DEF Draft, NoData
  <2>3. \A u \in Tables : u \in Swapped(p) \/ u = t
    <3>1. n = Len(CommitOrder)
      BY <1>2, <1>18
    <3>2. \A u \in Tables : \E i \in 1..Len(CommitOrder) : u = CommitOrder[i]
      BY Orders, OrderAssumption DEF SeqRange
    <3> QED BY <1>1, <1>13, <3>1, <3>2 DEF Prefix
  <2>4. \A u \in Tables : Committed'[u] = Draft(p)[u]
    BY <1>11, <1>12, <1>14, <1>15, <2>1, <2>3
  <2>5. Committed' = Draft(p)
    BY <1>15, <2>4 DEF Committed
  <2> QED BY <2>2, <2>5
<1> QED
  BY <1>2, <1>3, <1>7, <1>9, <1>16, <1>17, <1>18 DEF OnlyMoves

(* The steps of a caller on its own transaction.                           *)
LEMMA LocklessData ==
  ASSUME LockInv, LockInv', NEW p \in Txs, NewTruncateTx(p) \/ Add(p) \/ Rollback(p)
  PROVE  /\ Committed' = Committed
         /\ \A q \in Txs : q # p => Phase(q)' = Phase(q) /\ Draft(q)' = Draft(q)
         /\ pc'[p] # "snapshot"
         /\ NewTruncateTx(p) => Phase(p) = "idle" /\ Phase(p)' = "open" /\ Draft(p)' = Draft(p)
         /\ Add(p) => /\ Phase(p) = "open" /\ Phase(p)' = "loaded"
                      /\ Draft(p)' = [t \in Tables |-> Draft(p)[t] \union {p}]
         /\ Rollback(p) => Phase(p) \in {"open", "loaded"} /\ Phase(p)' = "over" /\ Draft(p)' = NoData
<1>1. /\ p \in Procs /\ table' = table
      /\ pc[p] \in {"idle", "open", "loaded"} /\ pc'[p] \in {"open", "loaded", "over"}
  BY DEF NewTruncateTx, Add, Rollback, Goto, Procs, LockInv, TypeOK
<1>2. OnlyMoves(p)
  BY <1>1 DEF OnlyMoves, NewTruncateTx, Add, Rollback, Goto, Procs, LockInv, TypeOK
<1>3. Swapped(p) = {} /\ Swapped(p)' = {}
  BY <1>1 DEF Swapped
<1>4. \A q \in Txs : q # p => Swapped(q)' = Swapped(q) /\ Phase(q)' = Phase(q) /\ Draft(q)' = Draft(q)
  BY <1>1, <1>2, OthersKeepData
<1>5. \A q \in Txs : Swapped(q)' = Swapped(q) /\ (Swapped(q) # {} => copy'[q] = copy[q])
  BY <1>2, <1>3, <1>4 DEF OnlyMoves
<1>6. Committed' = Committed
  BY <1>1, <1>5, CommittedStays
<1>7. copy \in [Txs -> [Tables -> SUBSET Txs]]
  BY DEF LockInv, TypeOK
<1>8. Draft(p) = [t \in Tables |-> copy[p][t]]
  BY <1>1, <1>3 DEF Draft
<1>9. Draft(p)' = [t \in Tables |-> copy'[p][t]]
  BY <1>1, <1>3 DEF Draft
<1>10. ASSUME NewTruncateTx(p)
       PROVE  Phase(p) = "idle" /\ Phase(p)' = "open" /\ Draft(p)' = Draft(p)
  <2>1. pc[p] = "idle" /\ pc'[p] = "open" /\ copy' = copy
    BY <1>1, <1>10 DEF NewTruncateTx, Goto, LockInv, TypeOK
  <2> QED BY <1>8, <1>9, <2>1 DEF Phase
<1>11. ASSUME Add(p)
       PROVE  /\ Phase(p) = "open" /\ Phase(p)' = "loaded"
              /\ Draft(p)' = [t \in Tables |-> Draft(p)[t] \union {p}]
  <2>1. pc[p] = "open" /\ pc'[p] = "loaded"
    BY <1>1, <1>11 DEF Add, Goto, LockInv, TypeOK
  <2>2. copy'[p] = [t \in Tables |-> copy[p][t] \union {p}]
    BY <1>7, <1>11 DEF Add
  <2>3. Phase(p) = "open" /\ Phase(p)' = "loaded"
    BY <2>1 DEF Phase
  <2> QED BY <1>8, <1>9, <2>2, <2>3
<1>12. ASSUME Rollback(p)
       PROVE  Phase(p) \in {"open", "loaded"} /\ Phase(p)' = "over" /\ Draft(p)' = NoData
  <2>1. pc[p] \in {"open", "loaded"} /\ pc'[p] = "over"
    BY <1>1, <1>12 DEF Rollback, Goto, LockInv, TypeOK
  <2>2. copy'[p] = NoData
    BY <1>7, <1>12 DEF Rollback
  <2>3. Phase(p) \in {"open", "loaded"} /\ Phase(p)' = "over"
    BY <2>1 DEF Phase
  <2> QED BY <1>9, <2>2, <2>3 DEF NoData
<1> QED BY <1>1, <1>4, <1>6, <1>10, <1>11, <1>12

---------------------------------------------------------------------------
(* The invariant on the data.                                              *)
LEMMA DataInit == Init => DataInv
<1> SUFFICES ASSUME Init PROVE DataInv
  OBVIOUS
<1>1. LockInv
  BY LockInit
<1>2. \A p \in Txs : pc[p] = "idle" /\ Swapped(p) = {} /\ copy[p] = NoData
  BY DEF Init, Procs, Swapped
<1>3. \A t \in Tables : Committed[t] = {}
  BY <1>1, <1>2, CommittedFacts DEF CommittedIs, Init, NoData
<1>4. \A p \in Txs, t \in Tables : Draft(p)[t] = {}
  BY <1>2 DEF Draft, NoData
<1> QED BY <1>1, <1>2, <1>3, <1>4 DEF DataInv, HeldTablesAgree, SnapshotCurrent

LEMMA SnapshotStays ==
  ASSUME SnapshotCurrent, Committed' = Committed,
         \A q \in Txs : pc'[q] = "snapshot" =>
            pc[q] = "snapshot" /\ at'[q] = at[q] /\ copy'[q] = copy[q]
  PROVE  SnapshotCurrent'
BY DEF SnapshotCurrent

LEMMA UnseenAgree ==
  ASSUME HeldTablesAgree, Unseen
  PROVE  HeldTablesAgree'
BY DEF HeldTablesAgree, Unseen

(* The steps callers see nothing of leave the snapshots alone as well.     *)
LEMMA QuietData ==
  ASSUME DataInv, LockInv', NEW p \in Txs,
         \/ NewTx(p) \/ AskRead(p) \/ DropRead(p) \/ Commit(p)
         \/ AskWrite(p) \/ DropWrite(p)
  PROVE  DataInv' /\ Unseen
<1>1. Unseen
  BY LabelsUnseen, AskWriteUnseen, DropWriteUnseen DEF DataInv
<1>2. p \in Procs
  BY DEF Procs
<1>3. ASSUME NEW q \in Txs, pc'[q] = "snapshot"
      PROVE  pc[q] = "snapshot" /\ at'[q] = at[q] /\ copy'[q] = copy[q]
  <2>1. CASE q = p
    BY <1>2, <1>3, <2>1
       DEF ReadLock, NewTx, AskRead, DropRead, Commit, AskWrite, DropWrite, Goto, DataInv, LockInv, TypeOK
  <2>2. CASE q # p
    BY <1>2, <1>3, <2>2
       DEF ReadLock, NewTx, AskRead, DropRead, Commit, AskWrite, DropWrite, Goto, Procs, DataInv, LockInv, TypeOK
  <2> QED BY <2>1, <2>2
<1> QED BY <1>1, <1>3, SnapshotStays, UnseenAgree DEF DataInv, Unseen

LEMMA ReaderData ==
  ASSUME DataInv, LockInv', NEW r \in Readers, ReaderStep(r)
  PROVE  DataInv' /\ Unseen
<1>1. Unseen
  BY ReadersUnseen DEF DataInv
<1>2. r \notin Txs /\ at' = at /\ copy' = copy /\ \A q \in Procs : q # r => pc'[q] = pc[q]
  BY ProcessAssumption
     DEF ReaderStep, Lookup, Read, Return, Timeout, Goto, Procs, DataInv, LockInv, TypeOK
<1> QED BY <1>1, <1>2, SnapshotStays, UnseenAgree DEF DataInv, Unseen, Procs

(* The steps they do see.                                                  *)
LEMMA SeenData ==
  ASSUME DataInv, LockInv', NEW p \in Txs,
         \/ CopyDomains(p) \/ CopyTable(p) \/ SwapTable(p)
         \/ NewTruncateTx(p) \/ Add(p) \/ Rollback(p)
  PROVE  DataInv'
<1> USE DEF DataInv
<1>1. CASE CopyDomains(p)
  <2>1. SnapshotCurrent'
    <3>1. \A q \in Txs : q # p => pc'[q] = pc[q] /\ at'[q] = at[q] /\ copy'[q] = copy[q]
      BY <1>1 DEF CopyDomains, Goto, Procs, LockInv, TypeOK
    <3> QED BY <1>1, <3>1, CopyDomainsData DEF SnapshotCurrent
  <2>2. HeldTablesAgree'
    BY <1>1, CopyDomainsData, SMTT(30) DEF HeldTablesAgree
  <2> QED BY <2>1, <2>2
<1>2. CASE CopyTable(p)
  <2>1. SnapshotCurrent'
    BY <1>2, CopyTableData DEF SnapshotCurrent
  <2>2. HeldTablesAgree'
    BY <1>2, CopyTableData DEF HeldTablesAgree
  <2> QED BY <2>1, <2>2
<1>3. CASE SwapTable(p)
  <2>1. SnapshotCurrent'
    <3>1. \A q \in Txs : pc'[q] = "snapshot" => at'[q] = 0
      BY <1>3, SwapTableData
    <3> QED BY <3>1 DEF SnapshotCurrent
  <2>2. pc'[p] \in {"commit", "drop_write"} /\ \A q \in Txs : q # p => Draft(q)' = Draft(q)
    BY <1>3, SwapTableData
  <2>3. CASE pc'[p] = "commit"
    <3>1. Committed' = Committed /\ \A q \in Txs : Draft(q)' = Draft(q)
      BY <1>3, <2>2, <2>3, SwapTableData
    <3> QED BY <2>1, <3>1 DEF HeldTablesAgree
  <2>4. CASE pc'[p] = "drop_write"
    <3>1. Committed' = Draft(p) /\ Draft(p)' = NoData
      BY <1>3, <2>4, SwapTableData
    <3>2. HeldTablesAgree'
      BY <2>2, <3>1 DEF HeldTablesAgree, NoData
    <3> QED BY <2>1, <3>2
  <2> QED BY <2>2, <2>3, <2>4
<1>4. CASE NewTruncateTx(p) \/ Add(p) \/ Rollback(p)
  <2>1. SnapshotCurrent'
    <3>1. \A q \in Txs : q # p => pc'[q] = pc[q] /\ at'[q] = at[q] /\ copy'[q] = copy[q]
      BY <1>4 DEF NewTruncateTx, Add, Rollback, Goto, Procs, LockInv, TypeOK
    <3> QED BY <1>4, <3>1, LocklessData, SnapshotStays
  <2>2. HeldTablesAgree'
    BY <1>4, LocklessData DEF HeldTablesAgree, NoData
  <2> QED BY <2>1, <2>2
<1> QED BY <1>1, <1>2, <1>3, <1>4

LEMMA DataStutter ==
  ASSUME DataInv, UNCHANGED vars
  PROVE  DataInv' /\ Unseen
<1>1. LockInv'
  BY LockStutter DEF DataInv
<1>2. Unseen
  <2>1. \A q \in Txs : Swapped(q)' = Swapped(q) /\ Phase(q)' = Phase(q)
    BY DEF vars, Swapped, Phase
  <2>2. \A q \in Txs : Draft(q)' = Draft(q)
    BY <2>1 DEF vars, Draft
  <2>3. Committed' = Committed
    BY <1>1, <2>1, CommittedStays DEF vars, DataInv
  <2> QED BY <2>1, <2>2, <2>3 DEF Unseen
<1> QED BY <1>1, <1>2, SnapshotStays, UnseenAgree DEF DataInv, Unseen, vars

LEMMA DataNext == DataInv /\ [Next]_vars => DataInv'
<1> SUFFICES ASSUME DataInv, [Next]_vars PROVE DataInv'
  OBVIOUS
<1>1. LockInv'
  BY LockNext DEF DataInv
<1>2. ASSUME NEW p \in Txs, TxStep(p) PROVE DataInv'
  BY <1>1, <1>2, QuietData, SeenData DEF TxStep
<1>3. ASSUME NEW r \in Readers, ReaderStep(r) PROVE DataInv'
  BY <1>1, <1>3, ReaderData
<1> QED BY <1>2, <1>3, DataStutter DEF Next

LEMMA DataAlwaysRight == Spec => []DataInv
<1>1. Init => DataInv
  BY DataInit
<1>2. DataInv /\ [Next]_vars => DataInv'
  BY DataNext
<1> QED BY <1>1, <1>2, PTL DEF Spec

(* The tables whose read locks new keeps agree with each other in the      *)
(* committed data and in every transaction's copy, however many            *)
(* transactions are open and however commits fall between their steps.     *)
THEOREM SnapshotsAgree == Spec => []HeldTablesAgree
<1>1. DataInv => HeldTablesAgree
  BY DEF DataInv
<1> QED BY <1>1, DataAlwaysRight, PTL

---------------------------------------------------------------------------
(* One transaction at a time, as the server has them: what it copied is    *)
(* still what is committed when it commits in its turn.                    *)
OneOpen == \A p, q \in Open : p = q

BuildsOnCommitted(p) ==
  /\ Phase(p) = "idle" => \A t \in Tables : Draft(p)[t] = {}
  /\ Phase(p) = "half" => \A t \in {DomainTable, NameIndex} : Draft(p)[t] = Committed[t]
  /\ Phase(p) = "open" => \/ \A t \in Tables : Draft(p)[t] = {}
                          \/ \A t \in Tables : Draft(p)[t] = Committed[t]
  /\ Phase(p) = "loaded" => \/ \A t \in Tables : Draft(p)[t] = {p}
                            \/ \A t \in Tables : Draft(p)[t] = Committed[t] \union {p}

TurnInv ==
  /\ DataInv
  /\ OneOpen
  /\ \A t, u \in Tables : Committed[t] = Committed[u]
  /\ \A p \in Txs : BuildsOnCommitted(p)

LEMMA TurnInit == Init => TurnInv
<1> SUFFICES ASSUME Init PROVE TurnInv
  OBVIOUS
<1>1. LockInv /\ DataInv
  BY LockInit, DataInit
<1>2. \A p \in Txs : pc[p] = "idle" /\ Swapped(p) = {} /\ copy[p] = NoData
  BY DEF Init, Procs, Swapped
<1>3. \A t \in Tables : Committed[t] = {}
  BY <1>1, <1>2, CommittedFacts DEF CommittedIs, Init, NoData
<1>4. \A p \in Txs, t \in Tables : Draft(p)[t] = {}
  BY <1>2 DEF Draft, NoData
<1>5. OneOpen
  BY <1>2 DEF OneOpen, Open
<1>6. \A p \in Txs : Phase(p) = "idle"
  BY <1>2 DEF Phase
<1> QED BY <1>1, <1>3, <1>4, <1>5, <1>6 DEF TurnInv, BuildsOnCommitted

(* A transaction is opened when none is.                                   *)
LEMMA NoneOpen ==
  ASSUME MaxOpen = 1, OneOpen, Cardinality(Open) < MaxOpen
  PROVE  Open = {}
<1> SUFFICES ASSUME NEW p \in Open PROVE FALSE
  OBVIOUS
<1>1. Open = {p}
  BY DEF OneOpen
<1>2. Cardinality(Open) = 1
  BY <1>1, FS_Singleton
<1> QED BY <1>2

LEMMA TurnsOpen ==
  ASSUME MaxOpen = 1, LockInv, OneOpen, [Next]_vars
  PROVE  OneOpen'
<1>1. ASSUME NEW p \in Txs, TxStep(p) PROVE OneOpen'
  <2>1. \A q \in Txs : q # p => pc'[q] = pc[q]
    BY <1>1 DEF ReadLock, TxStep, NewTx, CopyDomains, AskRead, CopyTable, DropRead, NewTruncateTx, Add,
                Rollback, Commit, AskWrite, SwapTable, DropWrite, Goto, Procs, LockInv, TypeOK
  <2>2. CASE NewTx(p) \/ NewTruncateTx(p)
    <3>1. Open = {}
      BY <2>2, NoneOpen DEF NewTx, NewTruncateTx
    <3> QED BY <2>1, <3>1 DEF OneOpen, Open
  <2>3. CASE p \in Open
    BY <2>1, <2>3 DEF OneOpen, Open
  <2>4. NewTx(p) \/ NewTruncateTx(p) \/ p \in Open
    BY <1>1 DEF ReadLock, TxStep, CopyDomains, AskRead, CopyTable, DropRead, Add,
                Rollback, Commit, AskWrite, SwapTable, DropWrite, Open
  <2> QED BY <2>2, <2>3, <2>4
<1>2. ASSUME NEW r \in Readers, ReaderStep(r) PROVE OneOpen'
  <2>1. \A q \in Txs : pc'[q] = pc[q]
    BY <1>2, ProcessAssumption
       DEF ReaderStep, Lookup, Read, Return, Timeout, Goto, Procs, LockInv, TypeOK
  <2> QED BY <2>1 DEF OneOpen, Open
<1>3. CASE UNCHANGED vars
  BY <1>3 DEF vars, OneOpen, Open
<1> QED BY <1>1, <1>2, <1>3 DEF Next

(* Who is not open has nothing that a commit could make stale.             *)
LEMMA ClosedBuilds ==
  ASSUME NEW p \in Txs, p \notin Open, BuildsOnCommitted(p),
         Phase(p)' = Phase(p), Draft(p)' = Draft(p)
  PROVE  BuildsOnCommitted(p)'
<1>1. Phase(p) \in {"idle", "over"}
  BY DEF Open, Phase
<1> QED BY <1>1 DEF BuildsOnCommitted

LEMMA UnseenTurns ==
  ASSUME TurnInv, DataInv', OneOpen', Unseen
  PROVE  TurnInv'
BY DEF TurnInv, Unseen, BuildsOnCommitted

LEMMA TurnStep ==
  ASSUME TurnInv, LockInv', DataInv', OneOpen', NEW p \in Txs, TxStep(p)
  PROVE  TurnInv'
<1> USE DEF TurnInv
<1>0. LockInv
  BY DEF DataInv
<1>1. CASE \/ NewTx(p) \/ AskRead(p) \/ DropRead(p) \/ Commit(p)
           \/ AskWrite(p) \/ DropWrite(p)
  BY <1>1, QuietData, UnseenTurns
<1>2. CASE CopyDomains(p)
  <2>1. BuildsOnCommitted(p)'
    BY <1>0, <1>2, CopyDomainsData, OrderAssumption DEF BuildsOnCommitted
  <2> QED BY <1>0, <1>2, <2>1, CopyDomainsData DEF BuildsOnCommitted
<1>3. CASE CopyTable(p)
  <2>1. BuildsOnCommitted(p)'
    BY <1>3, CopyTableData DEF BuildsOnCommitted
  <2> QED BY <1>3, <2>1, CopyTableData DEF BuildsOnCommitted
<1>4. CASE NewTruncateTx(p) \/ Add(p) \/ Rollback(p)
  <2>1. BuildsOnCommitted(p)'
    BY <1>0, <1>4, LocklessData DEF BuildsOnCommitted
  <2> QED BY <1>0, <1>4, <2>1, LocklessData DEF BuildsOnCommitted
<1>5. CASE SwapTable(p)
  <2>1. CASE pc'[p] = "commit"
    BY <1>0, <1>5, <2>1, SwapTableData, UnseenTurns DEF Unseen
  <2>2. CASE pc'[p] = "drop_write"
    <3>1. /\ Committed' = Draft(p) /\ Phase(p)' = "over" /\ Phase(p) = "loaded"
          /\ \A q \in Txs : q # p => Phase(q)' = Phase(q) /\ Draft(q)' = Draft(q)
      BY <1>0, <1>5, <2>2, SwapTableData
    <3>2. \A t, u \in Tables : Draft(p)[t] = Draft(p)[u]
      <4>1. \/ \A t \in Tables : Draft(p)[t] = {p}
            \/ \A t \in Tables : Draft(p)[t] = Committed[t] \union {p}
        BY <3>1 DEF BuildsOnCommitted
      <4> QED BY <4>1
    <3>3. p \in Open
      BY <1>5 DEF SwapTable, Open
    <3>4. ASSUME NEW q \in Txs, q # p PROVE BuildsOnCommitted(q)'
      BY <3>1, <3>3, <3>4, ClosedBuilds DEF OneOpen
    <3>5. BuildsOnCommitted(p)'
      BY <3>1 DEF BuildsOnCommitted
    <3> QED BY <3>1, <3>2, <3>4, <3>5
  <2> QED BY <1>0, <1>5, <2>1, <2>2, SwapTableData
<1> QED BY <1>1, <1>2, <1>3, <1>4, <1>5 DEF TxStep

LEMMA TurnNext == MaxOpen = 1 /\ TurnInv /\ [Next]_vars => TurnInv'
<1> SUFFICES ASSUME MaxOpen = 1, TurnInv, [Next]_vars PROVE TurnInv'
  OBVIOUS
<1>1. DataInv' /\ LockInv'
  BY DataNext DEF TurnInv, DataInv
<1>2. OneOpen'
  BY TurnsOpen DEF TurnInv, DataInv
<1>3. ASSUME NEW p \in Txs, TxStep(p) PROVE TurnInv'
  BY <1>1, <1>2, <1>3, TurnStep
<1>4. ASSUME NEW r \in Readers, ReaderStep(r) PROVE TurnInv'
  BY <1>1, <1>2, <1>4, ReaderData, UnseenTurns DEF TurnInv
<1>5. CASE UNCHANGED vars
  BY <1>1, <1>2, <1>5, DataStutter, UnseenTurns DEF TurnInv
<1> QED BY <1>3, <1>4, <1>5 DEF Next

(* As long as there is one transaction at a time, which is how the server  *)
(* loads its data, no commit is lost: an update adds to all that was       *)
(* committed before, and the tables always agree, the index included.      *)
THEOREM NoCommitLost ==
  ASSUME MaxOpen = 1 PROVE Spec => []UpdatesBuildOnCommitted
<1>1. Init => TurnInv
  BY TurnInit
<1>2. TurnInv /\ [Next]_vars => TurnInv'
  BY TurnNext
<1>3. TurnInv => UpdatesBuildOnCommitted
  BY DEF TurnInv, BuildsOnCommitted, UpdatesBuildOnCommitted
<1> QED BY <1>1, <1>2, <1>3, PTL DEF Spec

---------------------------------------------------------------------------
(* The store with its locks implements the atomic store.  Most steps only  *)
(* move locks and are stutters of it.  The steps that are seen: the copy   *)
(* of the domains, the copy of the last table, the last swap of a commit,  *)
(* and the reads.                                                          *)

AbsStep == Abs!AbsNext \/ UNCHANGED Abs!absVars

LEMMA StartsAlike == Init => Abs!AbsInit
<1> SUFFICES ASSUME Init PROVE Abs!AbsInit
  OBVIOUS
<1>1. \A p \in Txs : pc[p] = "idle" /\ Swapped(p) = {} /\ copy[p] = NoData
  BY DEF Init, Procs, Swapped
<1>2. Committed = Abs!NoData
  <2>1. \A t \in Tables : Committed[t] = {}
    BY <1>1, LockInit, CommittedFacts DEF CommittedIs, Init, NoData
  <2> QED BY <2>1 DEF Committed, Abs!NoData
<1>3. \A p \in Txs : Draft(p) = Abs!NoData
  BY <1>1 DEF Draft, NoData, Abs!NoData
<1>4. \A p \in Txs : Phase(p) = "idle"
  BY <1>1 DEF Phase
<1>5. answer = [r \in Readers |-> Abs!NoAnswer]
  BY DEF Init, NoAnswer, Abs!NoAnswer
<1> QED BY <1>2, <1>3, <1>4, <1>5 DEF Abs!AbsInit

LEMMA UnseenMaps ==
  ASSUME Unseen, answer' = answer
  PROVE  AbsStep
BY DEF Unseen, AbsStep, Abs!absVars

LEMMA CopyDomainsMaps ==
  ASSUME DataInv, LockInv', NEW p \in Txs, CopyDomains(p)
  PROVE  AbsStep
<1>1. answer' = answer
  BY DEF CopyDomains
<1>2. Abs!CopyDomains(p)
  BY <1>1, CopyDomainsData DEF DataInv, Abs!CopyDomains
<1> QED BY <1>2 DEF AbsStep, Abs!AbsNext

LEMMA CopyTableMaps ==
  ASSUME DataInv, LockInv', NEW p \in Txs, CopyTable(p)
  PROVE  AbsStep
<1>1. answer' = answer
  BY DEF ReadLock, CopyTable
<1>2. CASE pc'[p] = "snapshot"
  <2>1. Unseen
    BY <1>2, CopyTableData DEF Unseen
  <2> QED BY <1>1, <2>1, UnseenMaps
<1>3. CASE pc'[p] = "drop_read"
  <2>1. /\ Committed' = Committed
        /\ \A q \in Txs : q # p => Phase(q)' = Phase(q) /\ Draft(q)' = Draft(q)
        /\ Phase(p) = "half" /\ Phase(p)' = "open"
    BY <1>3, CopyTableData
  <2>2. Draft(p)' = [t \in Tables |-> IF t \in {DomainTable, NameIndex}
                                      THEN Draft(p)[t] ELSE Committed[t]]
    BY <1>3, CopyTableData
  <2>3. Abs!CopyRest(p)
    BY <1>1, <2>1, <2>2 DEF Abs!CopyRest
  <2> QED BY <2>3 DEF AbsStep, Abs!AbsNext
<1> QED BY <1>2, <1>3, CopyTableData

LEMMA LocklessMaps ==
  ASSUME DataInv, LockInv', NEW p \in Txs, NewTruncateTx(p) \/ Add(p) \/ Rollback(p)
  PROVE  AbsStep
<1>1. answer' = answer
  BY DEF NewTruncateTx, Add, Rollback
<1>2. CASE NewTruncateTx(p)
  <2>1. Abs!StartEmpty(p)
    BY <1>1, <1>2, LocklessData DEF DataInv, Abs!StartEmpty
  <2> QED BY <2>1 DEF AbsStep, Abs!AbsNext
<1>3. CASE Add(p)
  <2>1. Abs!AddData(p)
    BY <1>1, <1>3, LocklessData DEF DataInv, Abs!AddData
  <2> QED BY <2>1 DEF AbsStep, Abs!AbsNext
<1>4. CASE Rollback(p)
  <2>1. Abs!Discard(p)
    BY <1>1, <1>4, LocklessData DEF DataInv, Abs!Discard, NoData, Abs!NoData
  <2> QED BY <2>1 DEF AbsStep, Abs!AbsNext
<1> QED BY <1>2, <1>3, <1>4

LEMMA SwapTableMaps ==
  ASSUME DataInv, LockInv', NEW p \in Txs, SwapTable(p)
  PROVE  AbsStep
<1>1. answer' = answer
  BY DEF SwapTable
<1>2. CASE pc'[p] = "commit"
  <2>1. Unseen
    BY <1>2, SwapTableData DEF DataInv, Unseen
  <2> QED BY <1>1, <2>1, UnseenMaps
<1>3. CASE pc'[p] = "drop_write"
  <2>1. Abs!CommitAll(p)
    BY <1>1, <1>3, SwapTableData DEF DataInv, Abs!CommitAll, NoData, Abs!NoData
  <2> QED BY <2>1 DEF AbsStep, Abs!AbsNext
<1> QED BY <1>2, <1>3, SwapTableData DEF DataInv

LEMMA QuietMaps ==
  ASSUME DataInv, LockInv', NEW p \in Txs,
         \/ NewTx(p) \/ AskRead(p) \/ DropRead(p) \/ Commit(p)
         \/ AskWrite(p) \/ DropWrite(p)
  PROVE  AbsStep
<1>1. answer' = answer
  BY DEF ReadLock, NewTx, AskRead, DropRead, Commit, AskWrite, DropWrite
<1>2. Unseen
  BY QuietData
<1> QED BY <1>1, <1>2, UnseenMaps

(* A lookup finds what is committed: it has the table's read lock.         *)
LEMMA ReaderMaps ==
  ASSUME DataInv, LockInv', NEW r \in Readers, ReaderStep(r)
  PROVE  AbsStep
<1>1. Unseen
  BY ReaderData
<1>2. CASE Read(r)
  <2>1. PICK t \in Tables : t = want[r]
    BY DEF DataInv, LockInv, TypeOK
  <2>2. r \in Procs /\ ~Writing(r) /\ Granted(r, t)
    BY <1>2, <2>1, ProcessAssumption DEF Read, Writing, Procs
  <2>3. Committed[t] = table[t]
    BY <2>2, GrantedIsCommitted DEF DataInv
  <2>4. answer' = [answer EXCEPT ![r] = [table |-> t, content |-> Committed[t]]]
    BY <1>2, <2>1, <2>3 DEF Read
  <2>5. Abs!ReadTable(r, t)
    BY <1>1, <2>4 DEF Unseen, Abs!ReadTable
  <2> QED BY <2>5 DEF AbsStep, Abs!AbsNext
<1>3. CASE Return(r)
  <2>1. Abs!Answer(r)
    BY <1>1, <1>3 DEF Unseen, Return, NoAnswer, Abs!Answer, Abs!NoAnswer
  <2> QED BY <2>1 DEF AbsStep, Abs!AbsNext
<1>4. CASE Timeout(r) \/ \E t \in Tables : Lookup(r, t)
  <2>1. answer' = answer
    BY <1>4 DEF Timeout, Lookup
  <2> QED BY <1>1, <2>1, UnseenMaps
<1> QED BY <1>2, <1>3, <1>4 DEF ReaderStep

LEMMA StepsMap == DataInv /\ [Next]_vars => [Abs!AbsNext]_(Abs!absVars)
<1> SUFFICES ASSUME DataInv, [Next]_vars PROVE AbsStep
  BY DEF AbsStep
<1>1. LockInv'
  BY LockNext DEF DataInv
<1>2. ASSUME NEW p \in Txs, TxStep(p) PROVE AbsStep
  BY <1>1, <1>2, QuietMaps, CopyDomainsMaps, CopyTableMaps, LocklessMaps, SwapTableMaps DEF TxStep
<1>3. ASSUME NEW r \in Readers, ReaderStep(r) PROVE AbsStep
  BY <1>1, <1>3, ReaderMaps
<1>4. CASE UNCHANGED vars
  <2>1. answer' = answer
    BY <1>4 DEF vars
  <2> QED BY <1>4, <2>1, DataStutter, UnseenMaps
<1> QED BY <1>2, <1>3, <1>4 DEF Next

(* The store of the server is atomic: its callers cannot tell nine locks   *)
(* taken one at a time from commits, copies and lookups done in one step.  *)
THEOREM StoreIsAtomic == Spec => ImplementsAtomicStore
<1>1. Init => Abs!AbsInit
  BY StartsAlike
<1>2. DataInv /\ [Next]_vars => [Abs!AbsNext]_(Abs!absVars)
  BY StepsMap
<1> QED BY <1>1, <1>2, DataAlwaysRight, PTL DEF Spec, ImplementsAtomicStore, Abs!AbsSpec

=============================================================================
