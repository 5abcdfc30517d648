---------------------------- MODULE AtomicStore ----------------------------
(***************************************************************************)
(* What the storage engine of the server promises its callers (StoreOps    *)
(* and TxHandle, icann-rdap-srv/src/storage/mod.rs), without locks:        *)
(*                                                                         *)
(*   - a transaction starts from a copy of the data, or from nothing;      *)
(*   - a commit replaces every table in one step;                          *)
(*   - a lookup reads one table in one step.                               *)
(*                                                                         *)
(* The copy is taken in two steps because the code gives back the lock of  *)
(* one table, the domains, before it asks for the others: another commit   *)
(* can fall between the two.                                               *)
(*                                                                         *)
(* The content of a table is the set of the transactions whose additions   *)
(* it holds.                                                               *)
(***************************************************************************)
CONSTANTS Tables,       \* the tables of the store
          DomainTable,  \* the table that is copied first, on its own
          NameIndex,    \* the search index, rebuilt from the copied domains
          Txs,          \* the transactions of a behaviour
          Readers       \* the requests being served

VARIABLES db,       \* the committed data
          phase,    \* how far each transaction is
          draft,    \* each transaction's own copy of the data
          answer    \* what each reader is answering: the table and its content

absVars == <<db, phase, draft, answer>>

NoData == [t \in Tables |-> {}]
NoAnswer == [table |-> DomainTable, content |-> {}]


AbsInit ==
  /\ db = NoData
  /\ phase = [p \in Txs |-> "idle"]
  /\ draft = [p \in Txs |-> NoData]
  /\ answer = [r \in Readers |-> NoAnswer]

(* new_tx, first part: the copy of the domains and the index made of it.   *)
CopyDomains(p) ==
  /\ phase[p] = "idle"
  /\ phase' = [phase EXCEPT ![p] = "half"]
  /\ draft' = [draft EXCEPT ![p] =
                 [t \in Tables |-> IF t \in {DomainTable, NameIndex} THEN db[DomainTable] ELSE {}]]
  /\ UNCHANGED <<db, answer>>

(* new_tx, second part: all the other tables, as one commit left them.     *)
CopyRest(p) ==
  /\ phase[p] = "half"
  /\ phase' = [phase EXCEPT ![p] = "open"]
  /\ draft' = [draft EXCEPT ![p] =
                 [t \in Tables |-> IF t \in {DomainTable, NameIndex} THEN draft[p][t] ELSE db[t]]]
  /\ UNCHANGED <<db, answer>>

(* new_truncate_tx.                                                        *)
StartEmpty(p) ==
  /\ phase[p] = "idle"
  /\ phase' = [phase EXCEPT ![p] = "open"]
  /\ UNCHANGED <<db, draft, answer>>

(* The add_ operations of TxHandle: seen by nobody else.                   *)
AddData(p) ==
  /\ phase[p] = "open"
  /\ phase' = [phase EXCEPT ![p] = "loaded"]
  /\ draft' = [draft EXCEPT ![p] = [t \in Tables |-> draft[p][t] \union {p}]]
  /\ UNCHANGED <<db, answer>>

(* commit: all the tables at once.                                         *)
CommitAll(p) ==
  /\ phase[p] = "loaded"
  /\ db' = draft[p]
  /\ phase' = [phase EXCEPT ![p] = "over"]
  /\ draft' = [draft EXCEPT ![p] = NoData]
  /\ UNCHANGED answer

(* rollback, or the transaction dropped on an error.                       *)
Discard(p) ==
  /\ phase[p] \in {"open", "loaded"}
  /\ phase' = [phase EXCEPT ![p] = "over"]
  /\ draft' = [draft EXCEPT ![p] = NoData]
  /\ UNCHANGED <<db, answer>>

(* A get_ or search_ operation of StoreOps.                                *)
ReadTable(r, t) ==
  /\ answer' = [answer EXCEPT ![r] = [table |-> t, content |-> db[t]]]
  /\ UNCHANGED <<db, phase, draft>>

(* The answer is sent and forgotten.                                       *)
Answer(r) ==
  /\ answer' = [answer EXCEPT ![r] = NoAnswer]
  /\ UNCHANGED <<db, phase, draft>>

AbsNext ==
  \/ \E p \in Txs : \/ CopyDomains(p) \/ CopyRest(p) \/ StartEmpty(p)
                    \/ AddData(p) \/ CommitAll(p) \/ Discard(p)
  \/ \E r \in Readers : Answer(r) \/ \E t \in Tables : ReadTable(r, t)

AbsSpec == AbsInit /\ [][AbsNext]_absVars

=============================================================================
