--------------------------- MODULE MCAdminMirror ----------------------------
(* The clients of one server, without filters. *)
EXTENDS AdminMirror

CONSTANTS c1, c2

MCServers == <<Server("s1", 1, 0)>>

MCFilters == <<>>

MCMaxOf == [k \in Clients |-> MaxConnections]
=============================================================================
