---------------------------- MODULE MCServerList ----------------------------
(* Two servers, the first with room for one connection; one client may use *)
(* both, the other, which connects only once, only the first.              *)
EXTENDS ServerList

CONSTANTS c1, c2

MCServers == <<Server("s1", 1, 1), Server("s2", 1, 0)>>

MCFilters == <<Filter({c2}, {"s2"}, FALSE)>>

MCMaxOf == [k \in Clients |-> IF k = c1 THEN MaxConnections ELSE 1]
=============================================================================
