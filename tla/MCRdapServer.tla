---------------------------- MODULE MCRdapServer ---------------------------
EXTENDS RdapServer

(* Two registries.  The first goes from two services to one, so that a     *)
(* template file has to go; its second version may be malformed, its third *)
(* is not.  The second registry has one service and stays as it is.        *)
MCFiles == {"dns_0", "dns_1", "asn_0", "data"}
MCRegistryOrder == <<"dns", "asn">>
MCLastVersion(r) == IF r = "dns" THEN 3 ELSE 1
MCSlots(r) == IF r = "dns" THEN {"dns_0", "dns_1"} ELSE {"asn_0"}
MCService(r, v) == IF r = "dns" /\ v = 1 THEN {"dns_0", "dns_1"}
                   ELSE IF r = "dns" THEN {"dns_0"} ELSE {"asn_0"}
NoneMalformed(r, v) == FALSE
SecondMalformed(r, v) == r = "dns" /\ v = 2
TwoVersions(r) == 2
SmallFiles == {"dns_0", "data"}
OneRegistry == <<"dns">>
OneSlot(r) == {"dns_0"}
OneService(r, v) == {"dns_0"}
=============================================================================
