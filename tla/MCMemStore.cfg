SPECIFICATION FairSpec
CONSTANTS
  Tables <- MCTables
  CommitOrder <- MCCommitOrder
  HeldOrder <- MCHeldOrder
  DomainTable = "domains"
  NameIndex = "domains_by_name"
  Txs = {t1, t2}
  Readers = {r1}
  MaxOpen = 2
INVARIANTS
  TypeOK
  CommitsTakeTurns
  HeldTablesAgree
PROPERTY
  ImplementsAtomicStore
  OperationsReturn
