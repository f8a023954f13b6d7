------------------------- MODULE MCServerAssignment -------------------------
(* Three servers in every mix of six conditions and two weights, and the   *)
(* filters that matter for one client.                                     *)
EXTENDS ServerAssignment

Conditions(s) ==
  {s, [s EXCEPT !.connecting = 1], [s EXCEPT !.connected = 1],
   [s EXCEPT !.finished = 1],
   [s EXCEPT !.connected = 1, !.max_connections = 1],
   [s EXCEPT !.failed = TRUE]}

Servers(ip) == UNION {Conditions(Server(ip, w, 0)) : w \in {1, 2}}

MCServerLists == {<<a, b, c>> : a \in Servers(1), b \in Servers(2), c \in Servers(3)}

Allow(dst) == Filter(Clients, dst, TRUE)
Deny(dst) == Filter(Clients, dst, FALSE)

MCFilterLists ==
  {<<>>, <<Deny({1})>>, <<Deny({1, 2})>>, <<Deny({1, 2, 3})>>,
   <<Allow({1}), Deny({1, 2, 3})>>, <<Allow({2, 3}), Deny({1, 2, 3})>>,
   <<Deny({2}), Allow({1, 2, 3})>>}
=============================================================================
