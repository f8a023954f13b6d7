--------------------------- MODULE ServerSelection ---------------------------
(***************************************************************************)
(* How ServerList::getServer chooses a server for a client that has no     *)
(* session: the filters, the turn, the scan for a better candidate.        *)
(* Servers are a sequence of records; the code counts them from 0, this    *)
(* module from 1.  The float ratio "connections / weight" is compared by   *)
(* cross multiplication.                                                   *)
(***************************************************************************)
EXTENDS Integers, SequencesExt, Lists

(* A server of the list.  failed stands for last_connection_failed within   *)
(* the retry time, which is the only way the code looks at either.          *)
Server(ip, weight, max) ==
  [ip |-> ip, weight |-> weight, max_connections |-> max,
   connecting |-> 0, connected |-> 0, finished |-> 0, disconnected |-> 0,
   failed |-> FALSE]

ServerType(Ips) ==
  [ip : Ips, weight : Int, max_connections : Int, connecting : Nat, connected : Nat,
   finished : Nat, disconnected : Nat, failed : BOOLEAN]

(* A filter: the clients and the servers under its masks, and its verdict. *)
Filter(src, dst, allow) == [src |-> src, dst |-> dst, allow |-> allow]

(* The first filter that matches decides; without one, allow. *)
Matching(filters, ip, client) ==
  {i \in DOMAIN filters : client \in filters[i].src /\ ip \in filters[i].dst}

IsServerAllowed(filters, ip, client) ==
  LET m == Matching(filters, ip, client)
  IN  m # {} => \E i \in m : filters[i].allow /\ \A j \in m : i <= j

-----------------------------------------------------------------------------
finished_weight == 1
disconnected_weight == 1

NotAvailable(s) ==
  \/ s.max_connections # 0 /\ s.connected >= s.max_connections
  \/ s.failed

Divisor(s) == IF s.weight > 1 THEN s.weight ELSE 1

Candidate(servers, i, connections) ==
  [server |-> i, connections |-> connections, divisor |-> Divisor(servers[i]),
   weight |-> servers[i].weight, notavailable |-> NotAvailable(servers[i])]

Past(s) == s.finished * finished_weight + s.disconnected * disconnected_weight

(* The candidate whose turn it is counts its connecting peers (line 820)... *)
ByTurn(servers, i) ==
  Candidate(servers, i,
            servers[i].connecting + servers[i].connected + Past(servers[i]))

(* ... the others count their finished ones twice instead (line 846). *)
Scanned(servers, i) ==
  Candidate(servers, i,
            servers[i].finished + servers[i].connected + Past(servers[i]))

Lighter(c, d) == c.connections * d.divisor < d.connections * c.divisor

(* Without connections the greater weight decides. *)
Preferred(c, d) ==
  IF c.connections = 0 /\ d.connections = 0 THEN c.weight > d.weight ELSE Lighter(c, d)

(* Mutations: an unavailable server may replace an available one; a server  *)
(* must be better although none is assigned; it may be as good.             *)
ReplacesUnavailable(c, next, assigned) ==
  ~assigned \/ Preferred(c, next)

ReplacesOnlyBetter(c, next, assigned) ==
  /\ Preferred(c, next)
  /\ c.notavailable => next.notavailable

ReplacesAsGood(c, next, assigned) ==
  /\ ~assigned \/ ~Preferred(next, c)
  /\ c.notavailable => next.notavailable

Replaces(c, next, assigned) ==
  /\ ~assigned \/ Preferred(c, next)
  /\ c.notavailable => next.notavailable

(***************************************************************************)
(* The turn goes round; the scan starts behind it and visits every other   *)
(* server once.  The loop "including temporarily unavailable servers"      *)
(* (lines 902-963) starts where it ends, so it has no iteration.           *)
(***************************************************************************)
Turn(servers, last) == IF last >= Len(servers) THEN 1 ELSE last + 1

Others(servers, turn) ==
  [k \in 1 .. Len(servers) - 1 |-> ((turn - 1 + k) % Len(servers)) + 1]

(* What is known after the scan looked at the i-th server.  Mutation: the   *)
(* filters are not asked.                                                   *)
BetterUnfiltered(servers, filters, client, best, i) ==
  IF Replaces(Scanned(servers, i), best.next, best.assigned)
  THEN [next |-> Scanned(servers, i), assigned |-> TRUE] ELSE best

Better(servers, filters, client, best, i) ==
  IF /\ IsServerAllowed(filters, servers[i].ip, client)
     /\ Replaces(Scanned(servers, i), best.next, best.assigned)
  THEN [next |-> Scanned(servers, i), assigned |-> TRUE] ELSE best

(* The best candidate, and whether it may be used. *)
Select(servers, filters, last, client) ==
  LET turn == Turn(servers, last)
      best[k \in 0 .. Len(servers) - 1] ==
        IF k = 0
        THEN [next |-> ByTurn(servers, turn),
              assigned |-> IsServerAllowed(filters, servers[turn].ip, client)]
        ELSE Better(servers, filters, client, best[k - 1], Others(servers, turn)[k])
  IN  best[Len(servers) - 1]
=============================================================================
