---------------------------- MODULE MCMemStore -----------------------------
(* The lock-level store over its tables in the orders of the code.         *)
EXTENDS MemStore

MCTables == {"autnums", "ip4", "ip6", "domains", "domains_by_name", "idns",
             "nameservers", "entities", "srvhelps"}
(* tx.rs, MemTx::commit.                                                   *)
MCCommitOrder == <<"autnums", "ip4", "ip6", "domains", "domains_by_name", "idns",
                   "nameservers", "entities", "srvhelps">>
(* tx.rs, MemTx::new: the fields of the struct literal that are awaited.   *)
MCHeldOrder == <<"autnums", "ip4", "ip6", "idns", "nameservers", "entities", "srvhelps">>
=============================================================================
