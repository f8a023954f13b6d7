-------------------------- MODULE ServerAssignment --------------------------
(***************************************************************************)
(* The assignment of ServerList::getServer (lines 802-1009) over every     *)
(* list of servers, every list of filters and every turn of a small world: *)
(* one request of a client that has no session.                            *)
(***************************************************************************)
EXTENDS ServerSelection

CONSTANTS
  Clients,
  ServerLists, (* The lists of servers that are tried... *)
  FilterLists  (* ... and the lists of filters.          *)

Ips == UNION {{servers[i].ip : i \in DOMAIN servers} : servers \in ServerLists}

ASSUME ServersAssumption ==
  \A servers \in ServerLists : servers \in Seq(ServerType(Ips)) /\ servers # <<>>

VARIABLES servers_list, filter_list, last_server_assigned,
          client (* Whose request it was, or "none". *)

vars == <<servers_list, filter_list, last_server_assigned, client>>

NoClient == "none"

Init ==
  /\ servers_list \in ServerLists
  /\ filter_list \in FilterLists
  /\ last_server_assigned \in DOMAIN servers_list
  /\ client = NoClient

(* last_server_assigned moves on although nothing was assigned. *)
GetServer(c) ==
  LET best == Select(servers_list, filter_list, last_server_assigned, c)
  IN  /\ client = NoClient
      /\ client' = c
      /\ IF best.assigned
         THEN /\ last_server_assigned' = best.next.server
              /\ servers_list' =
                   [servers_list EXCEPT ![best.next.server].connecting = @ + 1]
         ELSE /\ last_server_assigned' = Turn(servers_list, last_server_assigned)
              /\ UNCHANGED servers_list
      /\ UNCHANGED filter_list

Next == \E c \in Clients : GetServer(c)

Spec == Init /\ [][Next]_vars

-----------------------------------------------------------------------------
Assigned == servers_list' # servers_list
Chosen == last_server_assigned'
Allowed(i) == IsServerAllowed(filter_list, servers_list[i].ip, client')
Available(i) == ~NotAvailable(servers_list[i])
InTurn == Turn(servers_list, last_server_assigned)

(* No filter is got round: the server that is assigned is allowed to the    *)
(* client, whatever the turn and the scan preferred.                        *)
ChosenIsAllowed == [][Assigned => Allowed(Chosen)]_vars

(* A client is not turned away while a server is there for it: the scan     *)
(* takes an allowed, available server even when the one whose turn it is    *)
(* looks better and may not be used.                                        *)
AssignedIfPossible ==
  [][(\E i \in DOMAIN servers_list : Allowed(i) /\ Available(i))
       => Assigned]_vars

(* A server that is full or failed is only assigned when the turn fell on   *)
(* one that is full or failed.                                              *)
UnavailableOnlyByTurn ==
  [][Assigned /\ ~Available(Chosen) => ~Available(InTurn)]_vars

(* How the code weighs a server, which depends on the turn... *)
Weighed(i) == IF i = InTurn THEN ByTurn(servers_list, i) ELSE Scanned(servers_list, i)

(* ... and how far its own turn is away. *)
Away(i) == (i - InTurn) % Len(servers_list)

(* "the most available server" (ServerList.cpp:609): of the servers that    *)
(* are allowed and available none has fewer connections for its weight than *)
(* the one that is chosen, and of the ones that are as good it is the next  *)
(* in turn: the scan, which compares each only with the best so far, finds  *)
(* the best of all.  Fewer as the code counts them, the server in turn with *)
(* what is connecting, the others with what is finished twice (README.md,   *)
(* Known divergences).  Where the turn fell on an unavailable server, that  *)
(* one may be assigned: see UnavailableOnlyByTurn.                          *)
LightestIsChosen ==
  [][Assigned /\ Available(InTurn) =>
       \A i \in DOMAIN servers_list \ {Chosen} :
         Allowed(i) /\ Available(i) =>
           IF Away(i) < Away(Chosen)
           THEN Preferred(Weighed(Chosen), Weighed(i))
           ELSE ~Preferred(Weighed(i), Weighed(Chosen))]_vars

=============================================================================
