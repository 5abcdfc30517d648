-------------------------- MODULE MemStoreProofs ---------------------------
(***************************************************************************)
(* What is proved of MemStore, for any tables, lock orders, transactions   *)
(* and requests that satisfy its assumptions.                              *)
(*                                                                         *)
(* The argument: every process that has asked for a lock is in its queue,  *)
(* the requests of a queue are totally ordered by ahead, and a lock that   *)
(* is held is a granted request.  Hence nobody else holds a lock that a    *)
(* commit holds.  As all commits start with the same table, whose lock     *)
(* they keep to the end, they take turns.                                  *)
(***************************************************************************)
EXTENDS MemStore, TLAPS

(* The locks p holds, and the one it has asked for or is about to.         *)
Prefix(order, n) == {order[i] : i \in 1..n}

Held(p) ==
  CASE p \in Readers -> IF pc[p] = "reading" THEN {want[p]} ELSE {}
    [] p \in Txs /\ pc[p] \in {"snapshot", "drop_read"} -> Prefix(HeldOrder, at[p])
    [] p \in Txs /\ pc[p] \in {"commit", "drop_write"} -> Prefix(CommitOrder, at[p])
    [] OTHER -> {}

Asking(p) ==
  CASE p \in Readers /\ pc[p] = "wait" -> {want[p]}
    [] p \in Txs /\ pc[p] = "domains" -> {DomainTable}
    [] p \in Txs /\ pc[p] = "snapshot" -> {HeldOrder[at[p] + 1]}
    [] p \in Txs /\ pc[p] = "commit" -> {CommitOrder[at[p] + 1]}
    [] OTHER -> {}

(* The requests for one lock are in a line.                                *)
InLine ==
  \A t \in Tables :
    /\ \A p \in Procs : ahead[t][p] \subseteq queue[t] \ {p}
    /\ \A p \in Procs : p \notin queue[t] => ahead[t][p] = {}
    /\ \A p, q \in queue[t] : p # q => p \in ahead[t][q] \/ q \in ahead[t][p]

(* at counts within the order of the locks.                                *)
CountedAt(p) ==
  /\ pc[p] = "snapshot" => at[p] < Len(HeldOrder)
  /\ pc[p] = "drop_read" => at[p] \in 1..Len(HeldOrder)
  /\ pc[p] = "commit" => at[p] < Len(CommitOrder)
  /\ pc[p] = "drop_write" => at[p] \in 1..Len(CommitOrder)
  /\ pc[p] \notin {"snapshot", "drop_read", "commit", "drop_write"} => at[p] = 0

Counted == \A p \in Txs : CountedAt(p)

(* The queues hold the requests of those who are at them, and no others.   *)
QueuedAt(p) ==
  /\ \A t \in Held(p) : Granted(p, t)
  /\ \A t \in Tables : p \in queue[t] => t \in Held(p) \union Asking(p)

Queued == \A p \in Procs : QueuedAt(p)

LockInv == TypeOK /\ InLine /\ Counted /\ Queued

---------------------------------------------------------------------------
(* The two lock operations keep the requests in line.                      *)
LEMMA AskInLine ==
  ASSUME TypeOK, InLine, NEW p \in Procs, NEW t \in Tables,
         p \notin queue[t], Ask(p, t)
  PROVE  /\ InLine'
         /\ queue' \in [Tables -> SUBSET Procs]
         /\ ahead' \in [Tables -> [Procs -> SUBSET Procs]]
<1>1. queue' \in [Tables -> SUBSET Procs]
  BY DEF Ask, TypeOK
<1>2. ahead' \in [Tables -> [Procs -> SUBSET Procs]]
  BY DEF Ask, TypeOK
<1>3. \A u \in Tables : queue'[u] = IF u = t THEN queue[t] \union {p} ELSE queue[u]
  BY DEF Ask, TypeOK
<1>4. \A u \in Tables, q \in Procs :
        ahead'[u][q] = IF u = t /\ q = p THEN queue[t] ELSE ahead[u][q]
  BY DEF Ask, TypeOK
<1>5. InLine'
  <2> SUFFICES ASSUME NEW u \in Tables
               PROVE  /\ \A q \in Procs : ahead'[u][q] \subseteq queue'[u] \ {q}
                      /\ \A q \in Procs : q \notin queue'[u] => ahead'[u][q] = {}
                      /\ \A q, r \in queue'[u] : q # r => q \in ahead'[u][r] \/ r \in ahead'[u][q]
    BY DEF InLine
  <2>1. /\ \A q \in Procs : ahead[u][q] \subseteq queue[u] \ {q}
        /\ \A q \in Procs : q \notin queue[u] => ahead[u][q] = {}
        /\ \A q, r \in queue[u] : q # r => q \in ahead[u][r] \/ r \in ahead[u][q]
        /\ queue[u] \subseteq Procs
    BY DEF InLine, TypeOK
  <2>2. CASE u = t
    BY <1>3, <1>4, <2>1, <2>2
  <2>3. CASE u # t
    BY <1>3, <1>4, <2>1, <2>3
  <2> QED BY <2>2, <2>3
<1> QED BY <1>1, <1>2, <1>5

LEMMA GiveBackInLine ==
  ASSUME TypeOK, InLine, NEW p \in Procs, NEW t \in Tables, GiveBack(p, t)
  PROVE  /\ InLine'
         /\ queue' \in [Tables -> SUBSET Procs]
         /\ ahead' \in [Tables -> [Procs -> SUBSET Procs]]
<1>1. queue' \in [Tables -> SUBSET Procs]
  BY DEF GiveBack, TypeOK
<1>2. ahead' \in [Tables -> [Procs -> SUBSET Procs]]
  BY DEF GiveBack, TypeOK
<1>3. \A u \in Tables : queue'[u] = IF u = t THEN queue[t] \ {p} ELSE queue[u]
  BY DEF GiveBack, TypeOK
<1>4. \A u \in Tables, q \in Procs :
        ahead'[u][q] = IF u # t THEN ahead[u][q]
                       ELSE IF q = p THEN {} ELSE ahead[t][q] \ {p}
  BY DEF GiveBack, TypeOK
<1>5. InLine'
  <2> SUFFICES ASSUME NEW u \in Tables
               PROVE  /\ \A q \in Procs : ahead'[u][q] \subseteq queue'[u] \ {q}
                      /\ \A q \in Procs : q \notin queue'[u] => ahead'[u][q] = {}
                      /\ \A q, r \in queue'[u] : q # r => q \in ahead'[u][r] \/ r \in ahead'[u][q]
    BY DEF InLine
  <2>1. /\ \A q \in Procs : ahead[u][q] \subseteq queue[u] \ {q}
        /\ \A q \in Procs : q \notin queue[u] => ahead[u][q] = {}
        /\ \A q, r \in queue[u] : q # r => q \in ahead[u][r] \/ r \in ahead[u][q]
        /\ queue[u] \subseteq Procs
    BY DEF InLine, TypeOK
  <2>2. CASE u = t
    <3>1. queue'[u] = queue[u] \ {p}
      BY <1>3, <2>2
    <3>2. \A q \in Procs : ahead'[u][q] = IF q = p THEN {} ELSE ahead[u][q] \ {p}
      BY <1>4, <2>2
    <3>3. ASSUME NEW q \in Procs PROVE ahead'[u][q] \subseteq queue'[u] \ {q}
      <4>1. ahead[u][q] \subseteq queue[u] \ {q}
        BY <2>1
      <4>2. ahead'[u][q] = IF q = p THEN {} ELSE ahead[u][q] \ {p}
        BY <3>2
      <4> QED BY <4>1, <4>2, <3>1
    <3>4. \A q \in Procs : q \notin queue'[u] => ahead'[u][q] = {}
      BY <2>1, <3>1, <3>2
    <3>5. ASSUME NEW q \in queue'[u], NEW r \in queue'[u], q # r
          PROVE  q \in ahead'[u][r] \/ r \in ahead'[u][q]
      <4>1. /\ q \in queue[u] /\ q # p /\ q \in Procs
            /\ r \in queue[u] /\ r # p /\ r \in Procs
        BY <2>1, <3>1
      <4>2. ahead'[u][q] = ahead[u][q] \ {p} /\ ahead'[u][r] = ahead[u][r] \ {p}
        BY <3>2, <4>1
      <4>3. q \in ahead[u][r] \/ r \in ahead[u][q]
        BY <2>1, <3>5, <4>1
      <4> QED BY <4>1, <4>2, <4>3
    <3> QED BY <3>3, <3>4, <3>5
  <2>3. CASE u # t
    BY <1>3, <1>4, <2>1, <2>3
  <2> QED BY <2>2, <2>3
<1> QED BY <1>1, <1>2, <1>5

---------------------------------------------------------------------------
(* In a step of p nobody else moves, and nobody gets in front of others.   *)
StepOf(p) ==
  \A q \in Procs \ {p} :
    /\ pc'[q] = pc[q]
    /\ q \in Txs => at'[q] = at[q]
    /\ q \in Readers => want'[q] = want[q]
    /\ \A t \in Tables : /\ q \in queue'[t] <=> q \in queue[t]
                         /\ ahead'[t][q] \subseteq ahead[t][q]

(* p starts writing only when it is in no queue.                           *)
WritesAlone(p) == Writing(p)' => Writing(p) \/ \A t \in Tables : p \notin queue[t]

(* Only tables of the store are held.                                      *)
LEMMA HeldInTables ==
  ASSUME TypeOK, Counted, NEW p \in Procs
  PROVE  Held(p) \subseteq Tables
<1>1. \A i \in 1..Len(HeldOrder) : HeldOrder[i] \in Tables
  BY OrderAssumption
<1>2. \A i \in 1..Len(CommitOrder) : CommitOrder[i] \in Tables
  BY OrderAssumption
<1>3. Len(HeldOrder) \in Nat /\ Len(CommitOrder) \in Nat
  BY OrderAssumption
<1>4. CASE p \in Readers
  BY <1>4, ProcessAssumption DEF Held, TypeOK
<1>5. CASE p \in Txs
  <2>1. at[p] \in Nat /\ p \notin Readers
    BY <1>5, ProcessAssumption DEF TypeOK
  <2>2. /\ pc[p] \in {"snapshot", "drop_read"} => at[p] <= Len(HeldOrder)
        /\ pc[p] \in {"commit", "drop_write"} => at[p] <= Len(CommitOrder)
    BY <1>3, <1>5, <2>1 DEF Counted, CountedAt
  <2> QED
    BY <1>1, <1>2, <1>3, <1>5, <2>1, <2>2 DEF Held, Prefix
<1> QED BY <1>4, <1>5 DEF Procs

LEMMA OthersStay ==
  ASSUME TypeOK, InLine, Counted, Queued, NEW p \in Procs, StepOf(p), WritesAlone(p),
         NEW q \in Procs, q # p
  PROVE  QueuedAt(q)'
<1>1. Held(q)' = Held(q) /\ Asking(q)' = Asking(q)
  BY DEF StepOf, Held, Asking, Prefix, Procs
<1>2. \A r \in Procs \ {p} : Writing(r)' <=> Writing(r)
  BY DEF StepOf, Writing, Procs
<1>3. ASSUME NEW t \in Held(q) PROVE Granted(q, t)'
  <2>1. t \in Tables
    BY HeldInTables
  <2>2. /\ q \in queue[t]
        /\ \A r \in ahead[t][q] : ~Writing(q) /\ ~Writing(r)
    BY DEF Queued, QueuedAt, Granted
  <2>3. q \in queue'[t] /\ ahead'[t][q] \subseteq ahead[t][q]
    BY <2>1, <2>2 DEF StepOf
  <2>4. ahead[t][q] \subseteq queue[t] /\ queue[t] \subseteq Procs
    BY <2>1 DEF InLine, TypeOK
  <2>5. ASSUME NEW r \in ahead'[t][q] PROVE ~Writing(q)' /\ ~Writing(r)'
    <3>1. ~Writing(q) /\ ~Writing(r) /\ r \in Procs /\ r \in queue[t]
      BY <2>2, <2>3, <2>4
    <3>2. ~Writing(p)' \/ r # p
      BY <3>1, <2>1 DEF WritesAlone
    <3> QED BY <1>2, <3>1, <3>2
  <2> QED BY <2>3, <2>5 DEF Granted
<1>4. ASSUME NEW t \in Tables, q \in queue'[t]
      PROVE  t \in Held(q) \union Asking(q)
  BY <1>4 DEF StepOf, Queued, QueuedAt
<1> QED BY <1>1, <1>3, <1>4 DEF QueuedAt

(* A request of p that was granted stays granted.                          *)
LEMMA GrantStays ==
  ASSUME TypeOK, InLine, NEW p \in Procs, StepOf(p), NEW t \in Tables,
         Granted(p, t), p \in queue'[t], ahead'[t][p] \subseteq ahead[t][p],
         Writing(p)' => Writing(p)
  PROVE  Granted(p, t)'
<1>1. \A r \in Procs \ {p} : Writing(r)' <=> Writing(r)
  BY DEF StepOf, Writing, Procs
<1>2. ahead[t][p] \subseteq Procs \ {p}
  BY DEF InLine, TypeOK
<1> QED BY <1>1, <1>2 DEF Granted

(* So a step of p is right if it is right about p.                         *)
LEMMA OneMoves ==
  ASSUME LockInv, NEW p \in Procs, StepOf(p), WritesAlone(p),
         TypeOK', InLine', p \in Txs => CountedAt(p)', QueuedAt(p)'
  PROVE  LockInv'
<1>1. \A q \in Procs : q # p => QueuedAt(q)'
  BY OthersStay DEF LockInv
<1>2. \A q \in Txs : q # p => CountedAt(q)'
  BY DEF LockInv, Counted, CountedAt, StepOf, Procs
<1> QED BY <1>1, <1>2 DEF LockInv, Counted, Queued

LEMMA PrefixSteps ==
  ASSUME NEW order, NEW n \in Nat
  PROVE  /\ Prefix(order, 0) = {}
         /\ Prefix(order, n + 1) = Prefix(order, n) \union {order[n + 1]}
<1>1. 1..0 = {} /\ 1..(n + 1) = (1..n) \union {n + 1}
  OBVIOUS
<1> QED BY <1>1 DEF Prefix

LEMMA PrefixIsNew ==
  ASSUME NEW order, NoRepeat(order), Len(order) \in Nat, DOMAIN order = 1..Len(order),
         NEW n \in Nat, n < Len(order)
  PROVE  order[n + 1] \notin Prefix(order, n)
BY DEF Prefix, NoRepeat

LEMMA Orders ==
  /\ Len(HeldOrder) \in Nat /\ Len(CommitOrder) \in Nat
  /\ DOMAIN HeldOrder = 1..Len(HeldOrder) /\ DOMAIN CommitOrder = 1..Len(CommitOrder)
  /\ \A i \in 1..Len(HeldOrder) : HeldOrder[i] \in Tables
  /\ \A i \in 1..Len(CommitOrder) : CommitOrder[i] \in Tables
BY OrderAssumption

---------------------------------------------------------------------------
(* What a transaction or a request holds and asks for, label by label.     *)
LEMMA TxHolds ==
  ASSUME NEW p \in Txs
  PROVE  /\ Held(p) = IF pc[p] \in {"snapshot", "drop_read"} THEN Prefix(HeldOrder, at[p])
                      ELSE IF pc[p] \in {"commit", "drop_write"} THEN Prefix(CommitOrder, at[p])
                      ELSE {}
         /\ Asking(p) = IF pc[p] = "domains" THEN {DomainTable}
                        ELSE IF pc[p] = "snapshot" THEN {HeldOrder[at[p] + 1]}
                        ELSE IF pc[p] = "commit" THEN {CommitOrder[at[p] + 1]}
                        ELSE {}
BY ProcessAssumption DEF Held, Asking

LEMMA ReaderHolds ==
  ASSUME NEW r \in Readers
  PROVE  /\ Held(r) = IF pc[r] = "reading" THEN {want[r]} ELSE {}
         /\ Asking(r) = IF pc[r] = "wait" THEN {want[r]} ELSE {}
BY ProcessAssumption DEF Held, Asking

LEMMA NewTxStep ==
  ASSUME LockInv, NEW p \in Txs, NewTx(p)
  PROVE  LockInv'
<1> USE DEF LockInv
<1>1. p \in Procs /\ DomainTable \in Tables
  BY OrderAssumption DEF Procs
<1>2. \A t \in Tables : p \notin queue[t]
  BY TxHolds, <1>1 DEF NewTx, Queued, QueuedAt
<1>3. pc' = [pc EXCEPT ![p] = "domains"] /\ Ask(p, DomainTable)
  BY DEF NewTx, Goto
<1>4. InLine' /\ queue' \in [Tables -> SUBSET Procs] /\ ahead' \in [Tables -> [Procs -> SUBSET Procs]]
  BY AskInLine, <1>1, <1>2, <1>3
<1>5. TypeOK'
  BY <1>1, <1>3, <1>4, ProcessAssumption DEF TypeOK, NewTx, TxPcs, Procs
<1>6. StepOf(p) /\ WritesAlone(p)
  BY <1>1, <1>2, <1>3 DEF StepOf, WritesAlone, Writing, NewTx, Ask, TypeOK, Procs
<1>7. CountedAt(p)'
  BY <1>1, <1>3 DEF NewTx, Counted, CountedAt, TypeOK
<1>8. QueuedAt(p)'
  <2>1. Held(p)' = {} /\ Asking(p)' = {DomainTable}
    BY <1>1, <1>3, ProcessAssumption DEF Held, Asking, TypeOK
  <2>2. \A t \in Tables : p \in queue'[t] => t = DomainTable
    BY <1>2, <1>3 DEF Ask, TypeOK
  <2> QED BY <2>1, <2>2 DEF QueuedAt
<1> QED BY OneMoves, <1>1, <1>4, <1>5, <1>6, <1>7, <1>8

LEMMA CopyDomainsStep ==
  ASSUME LockInv, NEW p \in Txs, CopyDomains(p)
  PROVE  LockInv'
<1> USE DEF LockInv
<1>1. p \in Procs /\ DomainTable \in Tables
  BY OrderAssumption DEF Procs
<1>2. pc' = [pc EXCEPT ![p] = "snapshot"] /\ GiveBack(p, DomainTable) /\ at' = at
  BY DEF CopyDomains, Goto
<1>3. InLine' /\ queue' \in [Tables -> SUBSET Procs] /\ ahead' \in [Tables -> [Procs -> SUBSET Procs]]
  BY GiveBackInLine, <1>1, <1>2
<1>4. TypeOK'
  <2>1. copy' \in [Txs -> [Tables -> SUBSET Txs]]
    BY <1>1 DEF CopyDomains, TypeOK
  <2> QED BY <1>1, <1>2, <1>3, <2>1, ProcessAssumption DEF TypeOK, CopyDomains, TxPcs, Procs
<1>5. StepOf(p) /\ WritesAlone(p)
  BY <1>1, <1>2 DEF StepOf, WritesAlone, Writing, CopyDomains, GiveBack, TypeOK, Procs
<1>6. at[p] = 0 /\ pc'[p] = "snapshot" /\ pc[p] = "domains"
  BY <1>1, <1>2 DEF CopyDomains, Counted, CountedAt, TypeOK
<1>7. CountedAt(p)'
  BY <1>2, <1>6, OrderAssumption DEF CountedAt
<1>8. QueuedAt(p)'
  <2>1. Held(p)' = {}
    BY <1>2, <1>6, PrefixSteps, ProcessAssumption DEF Held
  <2>2. \A t \in Tables : p \in queue[t] => t = DomainTable
    BY <1>1, <1>6, TxHolds DEF Queued, QueuedAt
  <2>3. \A t \in Tables : p \notin queue'[t]
    BY <1>1, <1>2, <2>2 DEF GiveBack, TypeOK
  <2> QED BY <2>1, <2>3 DEF QueuedAt
<1> QED BY OneMoves, <1>1, <1>3, <1>4, <1>5, <1>7, <1>8

LEMMA AskReadStep ==
  ASSUME LockInv, NEW p \in Txs, AskRead(p)
  PROVE  LockInv'
<1> USE DEF LockInv
<1> DEFINE t == HeldOrder[at[p] + 1]
<1>1. p \in Procs /\ t \in Tables /\ at[p] \in Nat
  BY Orders DEF ReadLock, Procs, AskRead, TypeOK
<1>2. Ask(p, t) /\ p \notin queue[t] /\ UNCHANGED <<table, pc, at, copy, want, answer>>
  BY DEF ReadLock, AskRead
<1>3. InLine' /\ queue' \in [Tables -> SUBSET Procs] /\ ahead' \in [Tables -> [Procs -> SUBSET Procs]]
  BY AskInLine, <1>1, <1>2
<1>4. TypeOK'
  BY <1>2, <1>3 DEF TypeOK
<1>5. StepOf(p) /\ WritesAlone(p)
  BY <1>1, <1>2 DEF StepOf, WritesAlone, Writing, Ask, TypeOK, Procs
<1>6. CountedAt(p)'
  BY <1>2 DEF Counted, CountedAt
<1>7. QueuedAt(p)'
  <2>1. Held(p)' = Held(p) /\ Asking(p)' = Asking(p) /\ Asking(p) = {t}
    BY <1>2, TxHolds DEF ReadLock, Held, Asking, Prefix, AskRead
  <2>2. ASSUME NEW u \in Held(p) PROVE Granted(p, u)'
    <3>1. u \in Tables /\ Granted(p, u) /\ u # t
      BY <1>1, <1>2, HeldInTables DEF Queued, QueuedAt, Granted
    <3>2. queue'[u] = queue[u] /\ ahead'[u] = ahead[u]
      BY <1>2, <3>1 DEF Ask, TypeOK
    <3>3. Writing(p)' => Writing(p)
      BY <1>2 DEF Writing
    <3> QED BY GrantStays, <1>1, <1>5, <3>1, <3>2, <3>3 DEF Granted
  <2>3. ASSUME NEW u \in Tables, p \in queue'[u] PROVE u \in Held(p) \union {t}
    <3>1. u = t \/ p \in queue[u]
      BY <1>2, <2>3 DEF Ask, TypeOK
    <3> QED BY <1>1, <2>1, <3>1 DEF Queued, QueuedAt
  <2> QED BY <2>1, <2>2, <2>3 DEF QueuedAt
<1> QED BY OneMoves, <1>1, <1>3, <1>4, <1>5, <1>6, <1>7

LEMMA CopyTableStep ==
  ASSUME LockInv, NEW p \in Txs, CopyTable(p)
  PROVE  LockInv'
<1> USE DEF LockInv
<1> DEFINE t == HeldOrder[at[p] + 1]
<1>1. p \in Procs /\ t \in Tables /\ at[p] \in Nat /\ at[p] < Len(HeldOrder) /\ pc[p] = "snapshot"
  BY Orders DEF ReadLock, Procs, CopyTable, TypeOK
<1>2. /\ Granted(p, t)
      /\ at' = [at EXCEPT ![p] = @ + 1]
      /\ pc' = [pc EXCEPT ![p] = IF at[p] + 1 = Len(HeldOrder) THEN "drop_read" ELSE "snapshot"]
      /\ UNCHANGED <<table, queue, ahead, want, answer>>
  BY DEF ReadLock, CopyTable, Goto
<1>3. InLine'
  BY <1>2 DEF InLine
<1>4. at'[p] = at[p] + 1 /\ pc'[p] \in {"snapshot", "drop_read"}
  BY <1>1, <1>2 DEF TypeOK
<1>5. TypeOK'
  <2>1. copy' \in [Txs -> [Tables -> SUBSET Txs]]
    BY <1>1 DEF ReadLock, CopyTable, TypeOK
  <2>2. at' \in [Txs -> Nat]
    BY <1>1, <1>2 DEF TypeOK
  <2>3. pc' \in [Procs -> TxPcs \union ReaderPcs] /\ (\A q \in Txs : pc'[q] \in TxPcs)
        /\ (\A r \in Readers : pc'[r] \in ReaderPcs)
    BY <1>1, <1>2, ProcessAssumption DEF TypeOK, TxPcs, Procs
  <2> QED BY <1>2, <2>1, <2>2, <2>3 DEF TypeOK
<1>6. StepOf(p) /\ WritesAlone(p)
  BY <1>1, <1>2, <1>4 DEF StepOf, WritesAlone, Writing, TypeOK, Procs
<1>7. CountedAt(p)'
  BY <1>1, <1>2, <1>4, Orders DEF CountedAt, TypeOK
<1>8. QueuedAt(p)'
  <2>1. Held(p)' = Prefix(HeldOrder, at[p] + 1)
    BY <1>4, TxHolds, ProcessAssumption DEF Held
  <2>2. Held(p)' = Held(p) \union {t} /\ Asking(p) = {t}
    BY <1>1, <2>1, TxHolds, PrefixSteps
  <2>3. ASSUME NEW u \in Held(p)' PROVE Granted(p, u)'
    <3>1. u \in Tables /\ Granted(p, u)
      BY <1>1, <1>2, <2>2, HeldInTables DEF Queued, QueuedAt
    <3>2. ~Writing(p)'
      BY <1>4 DEF Writing
    <3> QED BY GrantStays, <1>1, <1>2, <1>6, <3>1, <3>2 DEF Granted
  <2> QED BY <1>1, <1>2, <2>2, <2>3 DEF QueuedAt, Queued
<1> QED BY OneMoves, <1>1, <1>3, <1>5, <1>6, <1>7, <1>8

LEMMA DropReadStep ==
  ASSUME LockInv, NEW p \in Txs, DropRead(p)
  PROVE  LockInv'
<1> USE DEF LockInv
<1> DEFINE n == at[p] - 1
<1> DEFINE t == HeldOrder[n + 1]
<1>1. p \in Procs /\ n \in Nat /\ n < Len(HeldOrder) /\ at[p] = n + 1 /\ pc[p] = "drop_read"
  BY Orders DEF ReadLock, Procs, DropRead, TypeOK, Counted, CountedAt
<1>2. /\ t \in Tables /\ GiveBack(p, t)
      /\ at' = [at EXCEPT ![p] = n]
      /\ pc' = [pc EXCEPT ![p] = IF n = 0 THEN "open" ELSE "drop_read"]
      /\ UNCHANGED <<table, copy, want, answer>>
  BY <1>1, Orders DEF ReadLock, DropRead, Goto, TypeOK
<1>3. InLine' /\ queue' \in [Tables -> SUBSET Procs] /\ ahead' \in [Tables -> [Procs -> SUBSET Procs]]
  BY GiveBackInLine, <1>1, <1>2
<1>4. at'[p] = n /\ pc'[p] = IF n = 0 THEN "open" ELSE "drop_read"
  BY <1>1, <1>2 DEF TypeOK
<1>5. TypeOK'
  <2>1. at' \in [Txs -> Nat]
    BY <1>1, <1>2 DEF TypeOK
  <2>2. pc' \in [Procs -> TxPcs \union ReaderPcs] /\ (\A q \in Txs : pc'[q] \in TxPcs)
        /\ (\A r \in Readers : pc'[r] \in ReaderPcs)
    BY <1>1, <1>2, ProcessAssumption DEF TypeOK, TxPcs, Procs
  <2> QED BY <1>2, <1>3, <2>1, <2>2 DEF TypeOK
<1>6. StepOf(p) /\ WritesAlone(p)
  BY <1>1, <1>2, <1>4 DEF StepOf, WritesAlone, Writing, GiveBack, TypeOK, Procs
<1>7. CountedAt(p)'
  BY <1>1, <1>4, Orders DEF CountedAt
<1>8. QueuedAt(p)'
  <2>1. Held(p) = Prefix(HeldOrder, n) \union {t} /\ Asking(p) = {}
    BY <1>1, TxHolds, PrefixSteps
  <2>2. Held(p)' = Prefix(HeldOrder, n)
    BY <1>4, PrefixSteps, ProcessAssumption DEF Held
  <2>3. t \notin Prefix(HeldOrder, n)
    BY <1>1, PrefixIsNew, Orders, OrderAssumption
  <2>4. \A u \in Tables : p \in queue'[u] => p \in queue[u] /\ u # t
    BY <1>1, <1>2 DEF GiveBack, TypeOK
  <2>5. ASSUME NEW u \in Prefix(HeldOrder, n) PROVE Granted(p, u)'
    <3>1. u \in Tables /\ Granted(p, u) /\ u # t
      BY <1>1, <2>1, <2>3, HeldInTables DEF Queued, QueuedAt
    <3>2. queue'[u] = queue[u] /\ ahead'[u] = ahead[u]
      BY <1>2, <3>1 DEF GiveBack, TypeOK
    <3>3. ~Writing(p)'
      BY <1>4 DEF Writing
    <3> QED BY GrantStays, <1>1, <1>6, <3>1, <3>2, <3>3 DEF Granted
  <2> QED BY <1>1, <2>1, <2>2, <2>4, <2>5 DEF QueuedAt, Queued
<1> QED BY OneMoves, <1>1, <1>3, <1>5, <1>6, <1>7, <1>8

(* new_truncate_tx, the additions and a rollback touch no lock.            *)
LEMMA LocklessStep ==
  ASSUME LockInv, NEW p \in Txs, NewTruncateTx(p) \/ Add(p) \/ Rollback(p)
  PROVE  LockInv'
<1> USE DEF LockInv
<1>1. PICK label \in {"open", "loaded", "over"} :
         /\ pc' = [pc EXCEPT ![p] = label]
         /\ UNCHANGED <<table, queue, ahead, at, want, answer>>
  BY DEF NewTruncateTx, Add, Rollback, Goto
<1>2. p \in Procs /\ pc[p] \in {"idle", "open", "loaded"}
  BY DEF Procs, NewTruncateTx, Add, Rollback
<1>3. pc'[p] = label
  BY <1>1, <1>2 DEF TypeOK
<1>4. InLine'
  BY <1>1 DEF InLine
<1>5. TypeOK'
  <2>1. copy' \in [Txs -> [Tables -> SUBSET Txs]]
    BY DEF NewTruncateTx, Add, Rollback, NoData, TypeOK
  <2>2. pc' \in [Procs -> TxPcs \union ReaderPcs] /\ (\A q \in Txs : pc'[q] \in TxPcs)
        /\ (\A r \in Readers : pc'[r] \in ReaderPcs)
    BY <1>1, <1>2, ProcessAssumption DEF TypeOK, TxPcs, Procs
  <2> QED BY <1>1, <2>1, <2>2 DEF TypeOK
<1>6. StepOf(p) /\ WritesAlone(p)
  BY <1>1, <1>2, <1>3 DEF StepOf, WritesAlone, Writing, TypeOK, Procs
<1>7. CountedAt(p)'
  BY <1>1, <1>2, <1>3 DEF Counted, CountedAt
<1>8. QueuedAt(p)'
  <2>1. \A t \in Tables : p \notin queue[t]
    BY <1>2, TxHolds DEF Queued, QueuedAt
  <2>2. Held(p)' = {}
    BY <1>3, ProcessAssumption DEF Held
  <2> QED BY <1>1, <2>1, <2>2 DEF QueuedAt
<1> QED BY OneMoves, <1>2, <1>4, <1>5, <1>6, <1>7, <1>8

LEMMA CommitStep ==
  ASSUME LockInv, NEW p \in Txs, Commit(p)
  PROVE  LockInv'
<1> USE DEF LockInv
<1> DEFINE t == CommitOrder[1]
<1>1. p \in Procs /\ t \in Tables /\ pc[p] = "loaded" /\ at[p] = 0
  BY Orders, OrderAssumption DEF Procs, Commit, Counted, CountedAt
<1>2. /\ pc' = [pc EXCEPT ![p] = "commit"] /\ Ask(p, t)
      /\ UNCHANGED <<table, at, copy, want, answer>>
  BY DEF Commit, Goto
<1>3. \A u \in Tables : p \notin queue[u]
  BY <1>1, TxHolds DEF Queued, QueuedAt
<1>4. InLine' /\ queue' \in [Tables -> SUBSET Procs] /\ ahead' \in [Tables -> [Procs -> SUBSET Procs]]
  BY AskInLine, <1>1, <1>2, <1>3
<1>5. TypeOK'
  BY <1>1, <1>2, <1>4, ProcessAssumption DEF TypeOK, TxPcs, Procs
<1>6. StepOf(p) /\ WritesAlone(p)
  BY <1>1, <1>2, <1>3 DEF StepOf, WritesAlone, Ask, TypeOK, Procs
<1>7. pc'[p] = "commit" /\ at'[p] = 0
  BY <1>1, <1>2 DEF TypeOK
<1>8. CountedAt(p)'
  BY <1>7, OrderAssumption DEF CountedAt
<1>9. QueuedAt(p)'
  <2>1. Held(p)' = {}
    BY <1>7, PrefixSteps, ProcessAssumption DEF Held
  <2>2. Asking(p)' = {t}
    BY <1>7, ProcessAssumption DEF Asking
  <2>3. \A u \in Tables : p \in queue'[u] => u = t
    BY <1>2, <1>3 DEF Ask, TypeOK
  <2> QED BY <2>1, <2>2, <2>3 DEF QueuedAt
<1> QED BY OneMoves, <1>1, <1>4, <1>5, <1>6, <1>8, <1>9

LEMMA AskWriteStep ==
  ASSUME LockInv, NEW p \in Txs, AskWrite(p)
  PROVE  LockInv'
<1> USE DEF LockInv
<1> DEFINE t == CommitOrder[at[p] + 1]
<1>1. p \in Procs /\ t \in Tables /\ at[p] \in Nat /\ pc[p] = "commit"
  BY Orders DEF Procs, AskWrite, TypeOK, Counted, CountedAt
<1>2. Ask(p, t) /\ p \notin queue[t] /\ UNCHANGED <<table, pc, at, copy, want, answer>>
  BY DEF AskWrite
<1>3. InLine' /\ queue' \in [Tables -> SUBSET Procs] /\ ahead' \in [Tables -> [Procs -> SUBSET Procs]]
  BY AskInLine, <1>1, <1>2
<1>4. TypeOK'
  BY <1>2, <1>3 DEF TypeOK
<1>5. StepOf(p) /\ WritesAlone(p)
  BY <1>1, <1>2 DEF StepOf, WritesAlone, Writing, Ask, TypeOK, Procs
<1>6. CountedAt(p)'
  BY <1>2 DEF Counted, CountedAt
<1>7. QueuedAt(p)'
  <2>1. Held(p)' = Held(p) /\ Asking(p)' = Asking(p) /\ Asking(p) = {t}
    BY <1>1, <1>2, TxHolds DEF Held, Asking, Prefix
  <2>2. ASSUME NEW u \in Held(p) PROVE Granted(p, u)'
    <3>1. u \in Tables /\ Granted(p, u) /\ u # t
      BY <1>1, <1>2, HeldInTables DEF Queued, QueuedAt, Granted
    <3>2. queue'[u] = queue[u] /\ ahead'[u] = ahead[u]
      BY <1>2, <3>1 DEF Ask, TypeOK
    <3>3. Writing(p)' => Writing(p)
      BY <1>2 DEF Writing
    <3> QED BY GrantStays, <1>1, <1>5, <3>1, <3>2, <3>3 DEF Granted
  <2>3. ASSUME NEW u \in Tables, p \in queue'[u] PROVE u \in Held(p) \union {t}
    <3>1. u = t \/ p \in queue[u]
      BY <1>2, <2>3 DEF Ask, TypeOK
    <3> QED BY <1>1, <2>1, <3>1 DEF Queued, QueuedAt
  <2> QED BY <2>1, <2>2, <2>3 DEF QueuedAt
<1> QED BY OneMoves, <1>1, <1>3, <1>4, <1>5, <1>6, <1>7

LEMMA SwapTableStep ==
  ASSUME LockInv, NEW p \in Txs, SwapTable(p)
  PROVE  LockInv'
<1> USE DEF LockInv
<1> DEFINE t == CommitOrder[at[p] + 1]
<1>1. p \in Procs /\ t \in Tables /\ at[p] \in Nat /\ at[p] < Len(CommitOrder) /\ pc[p] = "commit"
  BY Orders DEF Procs, SwapTable, TypeOK, Counted, CountedAt
<1>2. /\ Granted(p, t)
      /\ at' = [at EXCEPT ![p] = @ + 1]
      /\ pc' = [pc EXCEPT ![p] = IF at[p] + 1 = Len(CommitOrder) THEN "drop_write" ELSE "commit"]
      /\ UNCHANGED <<queue, ahead, want, answer>>
  BY DEF SwapTable, Goto
<1>3. InLine'
  BY <1>2 DEF InLine
<1>4. at'[p] = at[p] + 1 /\ pc'[p] \in {"commit", "drop_write"}
  BY <1>1, <1>2 DEF TypeOK
<1>5. TypeOK'
  <2>1. copy' \in [Txs -> [Tables -> SUBSET Txs]] /\ table' \in [Tables -> SUBSET Txs]
    BY <1>1 DEF SwapTable, TypeOK
  <2>2. at' \in [Txs -> Nat]
    BY <1>1, <1>2 DEF TypeOK
  <2>3. pc' \in [Procs -> TxPcs \union ReaderPcs] /\ (\A q \in Txs : pc'[q] \in TxPcs)
        /\ (\A r \in Readers : pc'[r] \in ReaderPcs)
    BY <1>1, <1>2, ProcessAssumption DEF TypeOK, TxPcs, Procs
  <2> QED BY <1>2, <2>1, <2>2, <2>3 DEF TypeOK
<1>6. StepOf(p) /\ WritesAlone(p)
  BY <1>1, <1>2, <1>4 DEF StepOf, WritesAlone, Writing, TypeOK, Procs
<1>7. CountedAt(p)'
  BY <1>1, <1>2, <1>4, Orders DEF CountedAt, TypeOK
<1>8. QueuedAt(p)'
  <2>1. Held(p)' = Prefix(CommitOrder, at[p] + 1)
    BY <1>4, ProcessAssumption DEF Held
  <2>2. Held(p)' = Held(p) \union {t} /\ Asking(p) = {t}
    BY <1>1, <2>1, TxHolds, PrefixSteps
  <2>3. ASSUME NEW u \in Held(p)' PROVE Granted(p, u)'
    <3>1. u \in Tables /\ Granted(p, u)
      BY <1>1, <1>2, <2>2, HeldInTables DEF Queued, QueuedAt
    <3>2. Writing(p)
      BY <1>1 DEF Writing
    <3> QED BY GrantStays, <1>1, <1>2, <1>6, <3>1, <3>2 DEF Granted
  <2> QED BY <1>1, <1>2, <2>2, <2>3 DEF QueuedAt, Queued
<1> QED BY OneMoves, <1>1, <1>3, <1>5, <1>6, <1>7, <1>8

LEMMA DropWriteStep ==
  ASSUME LockInv, NEW p \in Txs, DropWrite(p)
  PROVE  LockInv'
<1> USE DEF LockInv
<1> DEFINE n == at[p] - 1
<1> DEFINE t == CommitOrder[n + 1]
<1>1. p \in Procs /\ n \in Nat /\ n < Len(CommitOrder) /\ at[p] = n + 1 /\ pc[p] = "drop_write"
  BY Orders DEF Procs, DropWrite, TypeOK, Counted, CountedAt
<1>2. /\ t \in Tables /\ GiveBack(p, t)
      /\ at' = [at EXCEPT ![p] = n]
      /\ pc' = [pc EXCEPT ![p] = IF n = 0 THEN "over" ELSE "drop_write"]
      /\ UNCHANGED <<table, want, answer>>
  BY <1>1, Orders DEF DropWrite, Goto, TypeOK
<1>3. InLine' /\ queue' \in [Tables -> SUBSET Procs] /\ ahead' \in [Tables -> [Procs -> SUBSET Procs]]
  BY GiveBackInLine, <1>1, <1>2
<1>4. at'[p] = n /\ pc'[p] = IF n = 0 THEN "over" ELSE "drop_write"
  BY <1>1, <1>2 DEF TypeOK
<1>5. TypeOK'
  <2>1. at' \in [Txs -> Nat]
    BY <1>1, <1>2 DEF TypeOK
  <2>2. pc' \in [Procs -> TxPcs \union ReaderPcs] /\ (\A q \in Txs : pc'[q] \in TxPcs)
        /\ (\A r \in Readers : pc'[r] \in ReaderPcs)
    BY <1>1, <1>2, ProcessAssumption DEF TypeOK, TxPcs, Procs
  <2>3. copy' \in [Txs -> [Tables -> SUBSET Txs]]
    BY DEF DropWrite, NoData, TypeOK
  <2> QED BY <1>2, <1>3, <2>1, <2>2, <2>3 DEF TypeOK
<1>6. StepOf(p) /\ WritesAlone(p)
  BY <1>1, <1>2, <1>4 DEF StepOf, WritesAlone, Writing, GiveBack, TypeOK, Procs
<1>7. CountedAt(p)'
  BY <1>1, <1>4, Orders DEF CountedAt
<1>8. QueuedAt(p)'
  <2>1. Held(p) = Prefix(CommitOrder, n) \union {t} /\ Asking(p) = {}
    BY <1>1, TxHolds, PrefixSteps
  <2>2. Held(p)' = Prefix(CommitOrder, n)
    BY <1>4, PrefixSteps, ProcessAssumption DEF Held
  <2>3. t \notin Prefix(CommitOrder, n)
    BY <1>1, PrefixIsNew, Orders, OrderAssumption
  <2>4. \A u \in Tables : p \in queue'[u] => p \in queue[u] /\ u # t
    BY <1>1, <1>2 DEF GiveBack, TypeOK
  <2>5. ASSUME NEW u \in Prefix(CommitOrder, n) PROVE Granted(p, u)'
    <3>1. u \in Tables /\ Granted(p, u) /\ u # t
      BY <1>1, <2>1, <2>3, HeldInTables DEF Queued, QueuedAt
    <3>2. queue'[u] = queue[u] /\ ahead'[u] = ahead[u]
      BY <1>2, <3>1 DEF GiveBack, TypeOK
    <3>3. Writing(p)
      BY <1>1 DEF Writing
    <3> QED BY GrantStays, <1>1, <1>6, <3>1, <3>2, <3>3 DEF Granted
  <2> QED BY <1>1, <2>1, <2>2, <2>4, <2>5 DEF QueuedAt, Queued
<1> QED BY OneMoves, <1>1, <1>3, <1>5, <1>6, <1>7, <1>8

LEMMA LookupStep ==
  ASSUME LockInv, NEW r \in Readers, NEW t \in Tables, Lookup(r, t)
  PROVE  LockInv'
<1> USE DEF LockInv
<1>1. r \in Procs /\ r \notin Txs /\ pc[r] = "ready"
  BY ProcessAssumption DEF Procs, Lookup
<1>2. /\ pc' = [pc EXCEPT ![r] = "wait"] /\ want' = [want EXCEPT ![r] = t] /\ Ask(r, t)
      /\ UNCHANGED <<table, at, copy, answer>>
  BY DEF Lookup, Goto
<1>3. \A u \in Tables : r \notin queue[u]
  BY <1>1, ReaderHolds DEF Queued, QueuedAt
<1>4. InLine' /\ queue' \in [Tables -> SUBSET Procs] /\ ahead' \in [Tables -> [Procs -> SUBSET Procs]]
  BY AskInLine, <1>1, <1>2, <1>3
<1>5. TypeOK'
  BY <1>1, <1>2, <1>4 DEF TypeOK, ReaderPcs, Procs
<1>6. StepOf(r) /\ WritesAlone(r)
  BY <1>1, <1>2, <1>3 DEF StepOf, WritesAlone, Ask, TypeOK, Procs
<1>7. QueuedAt(r)'
  <2>1. pc'[r] = "wait" /\ want'[r] = t
    BY <1>1, <1>2 DEF TypeOK
  <2>2. Held(r)' = {}
    BY <2>1, ProcessAssumption DEF Held
  <2>3. Asking(r)' = {t}
    BY <2>1, ProcessAssumption DEF Asking
  <2>4. \A u \in Tables : r \in queue'[u] => u = t
    BY <1>2, <1>3 DEF Ask, TypeOK
  <2> QED BY <2>2, <2>3, <2>4 DEF QueuedAt
<1> QED BY OneMoves, <1>1, <1>4, <1>5, <1>6, <1>7

LEMMA ReadStep ==
  ASSUME LockInv, NEW r \in Readers, Read(r)
  PROVE  LockInv'
<1> USE DEF LockInv
<1>1. r \in Procs /\ r \notin Txs /\ pc[r] = "wait" /\ want[r] \in Tables
  BY ProcessAssumption DEF Procs, Read, TypeOK
<1>2. /\ pc' = [pc EXCEPT ![r] = "reading"] /\ Granted(r, want[r])
      /\ UNCHANGED <<table, queue, ahead, at, copy, want>>
  BY DEF Read, Goto
<1>3. InLine'
  BY <1>2 DEF InLine
<1>4. TypeOK'
  <2>1. answer' \in [Readers -> [table : Tables, content : SUBSET Txs]]
    BY <1>1 DEF Read, TypeOK
  <2> QED BY <1>1, <1>2, <2>1 DEF TypeOK, ReaderPcs, Procs
<1>5. StepOf(r) /\ WritesAlone(r)
  BY <1>1, <1>2 DEF StepOf, WritesAlone, Writing, TypeOK, Procs
<1>6. QueuedAt(r)'
  <2>1. pc'[r] = "reading"
    BY <1>1, <1>2 DEF TypeOK
  <2>2. Held(r)' = {want[r]}
    BY <1>2, <2>1, ProcessAssumption DEF Held
  <2>3. ~Writing(r)'
    BY <1>1 DEF Writing
  <2>4. Granted(r, want[r])'
    <3>1. PICK t \in Tables : t = want[r]
      BY <1>1
    <3>2. Granted(r, t) /\ r \in queue'[t] /\ ahead'[t][r] \subseteq ahead[t][r]
      BY <1>2, <3>1 DEF Granted
    <3>3. Granted(r, t)'
      BY GrantStays, <1>1, <1>5, <2>3, <3>2
    <3>4. want'[r] = t
      BY <1>2, <3>1
    <3> QED BY <3>3, <3>4 DEF Granted
  <2>5. \A u \in Tables : r \in queue[u] => u = want[r]
    BY <1>1, ReaderHolds DEF Queued, QueuedAt
  <2> QED BY <1>2, <2>2, <2>4, <2>5 DEF QueuedAt
<1> QED BY OneMoves, <1>1, <1>3, <1>4, <1>5, <1>6

(* A request that is answered, and one that is given up.                   *)
LEMMA LeaveStep ==
  ASSUME LockInv, NEW r \in Readers, Return(r) \/ Timeout(r)
  PROVE  LockInv'
<1> USE DEF LockInv
<1>1. r \in Procs /\ r \notin Txs /\ pc[r] \in {"wait", "reading"} /\ want[r] \in Tables
  BY ProcessAssumption DEF Procs, Return, Timeout, TypeOK
<1>2. /\ pc' = [pc EXCEPT ![r] = "ready"] /\ GiveBack(r, want[r])
      /\ want' = [want EXCEPT ![r] = DomainTable]
      /\ UNCHANGED <<table, at, copy>>
  BY DEF Return, Timeout, Goto
<1>3. InLine' /\ queue' \in [Tables -> SUBSET Procs] /\ ahead' \in [Tables -> [Procs -> SUBSET Procs]]
  BY GiveBackInLine, <1>1, <1>2
<1>4. TypeOK'
  <2>1. answer' = [answer EXCEPT ![r] = NoAnswer] \/ answer' = answer
    BY DEF Return, Timeout
  <2>2. NoAnswer \in [table : Tables, content : SUBSET Txs]
    BY OrderAssumption DEF NoAnswer
  <2>3. answer' \in [Readers -> [table : Tables, content : SUBSET Txs]]
    BY <2>1, <2>2 DEF TypeOK
  <2> QED BY <1>1, <1>2, <1>3, <2>3, OrderAssumption DEF TypeOK, ReaderPcs, Procs
<1>5. StepOf(r) /\ WritesAlone(r)
  BY <1>1, <1>2 DEF StepOf, WritesAlone, Writing, GiveBack, TypeOK, Procs
<1>6. QueuedAt(r)'
  <2>1. pc'[r] = "ready"
    BY <1>1, <1>2 DEF TypeOK
  <2>2. Held(r)' = {}
    BY <2>1, ProcessAssumption DEF Held
  <2>3. \A u \in Tables : r \in queue[u] => u = want[r]
    BY <1>1, ReaderHolds DEF Queued, QueuedAt
  <2>4. \A u \in Tables : r \notin queue'[u]
    BY <1>1, <1>2, <2>3 DEF GiveBack, TypeOK
  <2> QED BY <2>2, <2>4 DEF QueuedAt
<1> QED BY OneMoves, <1>1, <1>3, <1>4, <1>5, <1>6

---------------------------------------------------------------------------
LEMMA LockInit == Init => LockInv
<1> SUFFICES ASSUME Init PROVE LockInv
  OBVIOUS
<1>1. TypeOK
  <2>1. pc \in [Procs -> TxPcs \union ReaderPcs] /\ (\A p \in Txs : pc[p] \in TxPcs)
        /\ (\A r \in Readers : pc[r] \in ReaderPcs)
    BY ProcessAssumption DEF Init, TxPcs, ReaderPcs, Procs
  <2>2. NoAnswer \in [table : Tables, content : SUBSET Txs] /\ NoData \in [Tables -> SUBSET Txs]
    BY OrderAssumption DEF NoAnswer, NoData
  <2>3. /\ queue \in [Tables -> SUBSET Procs] /\ ahead \in [Tables -> [Procs -> SUBSET Procs]]
        /\ at \in [Txs -> Nat] /\ want \in [Readers -> Tables]
    BY OrderAssumption DEF Init
  <2> QED BY <2>1, <2>2, <2>3 DEF Init, TypeOK
<1>2. InLine
  BY DEF Init, InLine
<1>3. Counted
  BY DEF Init, Counted, CountedAt, Procs
<1>4. Queued
  <2>1. \A p \in Txs : pc[p] = "idle"
    BY DEF Init, Procs
  <2>2. \A r \in Readers : pc[r] = "ready"
    BY ProcessAssumption DEF Init, Procs
  <2>3. \A p \in Procs : Held(p) = {}
    BY <2>1, <2>2, TxHolds, ReaderHolds DEF Procs
  <2> QED BY <2>3 DEF Init, Queued, QueuedAt
<1> QED BY <1>1, <1>2, <1>3, <1>4 DEF LockInv

LEMMA LockStutter ==
  ASSUME LockInv, UNCHANGED vars
  PROVE  LockInv'
<1> USE DEF LockInv
<1>1. TypeOK'
  BY DEF vars, TypeOK
<1>2. InLine'
  BY DEF vars, InLine
<1>3. Counted'
  BY DEF vars, Counted, CountedAt
<1>4. Queued'
  BY DEF vars, Queued, QueuedAt, Held, Asking, Prefix, Granted, Writing
<1> QED BY <1>1, <1>2, <1>3, <1>4

LEMMA LockNext == LockInv /\ [Next]_vars => LockInv'
<1> SUFFICES ASSUME LockInv, [Next]_vars PROVE LockInv'
  OBVIOUS
<1>1. ASSUME NEW p \in Txs, TxStep(p) PROVE LockInv'
  BY <1>1, NewTxStep, CopyDomainsStep, AskReadStep, CopyTableStep, DropReadStep,
     LocklessStep, CommitStep, AskWriteStep, SwapTableStep, DropWriteStep DEF TxStep
<1>2. ASSUME NEW r \in Readers, ReaderStep(r) PROVE LockInv'
  BY <1>2, LookupStep, ReadStep, LeaveStep DEF ReaderStep
<1> QED BY <1>1, <1>2, LockStutter DEF Next

LEMMA LocksAlwaysRight == Spec => []LockInv
<1>1. Init => LockInv
  BY LockInit
<1>2. LockInv /\ [Next]_vars => LockInv'
  BY LockNext
<1> QED BY <1>1, <1>2, PTL DEF Spec

(* Type correctness of the store at the level of its locks.                *)
THEOREM TypeCorrect == Spec => []TypeOK
<1>1. LockInv => TypeOK
  BY DEF LockInv
<1> QED BY <1>1, LocksAlwaysRight, PTL

(* Whoever else has a guard on a table that p is writing is p itself: the  *)
(* write locks exclude.                                                    *)
LEMMA WritersExclude ==
  ASSUME LockInv, NEW p \in Procs, NEW q \in Procs, NEW t \in Tables,
         Granted(p, t), Granted(q, t), Writing(p)
  PROVE  p = q
BY DEF LockInv, InLine, Granted

LEMMA TurnsFromLocks == LockInv => CommitsTakeTurns
<1> SUFFICES ASSUME LockInv, NEW p \in Txs, NEW q \in Txs,
                    pc[p] = "drop_write" \/ (pc[p] = "commit" /\ at[p] > 0),
                    pc[q] = "drop_write" \/ (pc[q] = "commit" /\ at[q] > 0)
             PROVE  p = q
  BY DEF CommitsTakeTurns
<1> DEFINE t == CommitOrder[1]
<1>1. t \in Tables /\ p \in Procs /\ q \in Procs
  BY OrderAssumption, Orders DEF Procs
<1>2. /\ at[p] \in Nat /\ at[p] > 0
      /\ at[q] \in Nat /\ at[q] > 0
  BY Orders DEF LockInv, TypeOK, Counted, CountedAt
<1>3. t \in Prefix(CommitOrder, at[p]) /\ t \in Prefix(CommitOrder, at[q])
  BY <1>2 DEF Prefix
<1>4. t \in Held(p) /\ t \in Held(q)
  BY <1>3, TxHolds
<1>5. Granted(p, t) /\ Granted(q, t)
  BY <1>1, <1>4 DEF LockInv, Queued, QueuedAt
<1> QED BY <1>1, <1>5, WritersExclude DEF Writing

(* Commits take turns, whatever the tables and their lock orders, as long  *)
(* as all commits take the locks in one order and keep them to the end.    *)
THEOREM TurnsTaken == Spec => []CommitsTakeTurns
BY LocksAlwaysRight, TurnsFromLocks, PTL
=============================================================================
