--------------------------- MODULE AssignmentProofs ---------------------------
(***************************************************************************)
(* Whom getServer may and must assign, for any number of servers with any  *)
(* counters and weights, any filters and any turn.                         *)
(***************************************************************************)
EXTENDS ServerAssignment, SelectionProofs

(* The types of a request, and what it comes to. *)
Inv ==
  /\ servers_list \in Seq(ServerType(Ips)) /\ servers_list # <<>>
  /\ last_server_assigned \in DOMAIN servers_list

LEMMA Outcome ==
  ASSUME Inv, NEW c \in Clients, GetServer(c)
  PROVE  LET best == Select(servers_list, filter_list, last_server_assigned, c)
         IN  /\ Known(best, servers_list, filter_list, InTurn, c, DOMAIN servers_list)
             /\ InTurn \in DOMAIN servers_list
             /\ Assigned <=> best.assigned
             /\ Assigned => Chosen = best.next.server
             /\ ~Assigned => Chosen = InTurn
             /\ client' = c
             /\ Inv'
<1> DEFINE best == Select(servers_list, filter_list, last_server_assigned, c)
           s == best.next.server
<1>1. /\ InTurn \in DOMAIN servers_list
      /\ Known(best, servers_list, filter_list, InTurn, c, DOMAIN servers_list)
  BY SelectKnows DEF Inv, InTurn
<1>2. s \in DOMAIN servers_list /\ best.assigned \in BOOLEAN
  BY <1>1 DEF Known
<1>3. /\ best.assigned => /\ last_server_assigned' = s
                          /\ servers_list' = [servers_list EXCEPT ![s].connecting = @ + 1]
      /\ ~best.assigned => /\ last_server_assigned' = InTurn
                           /\ UNCHANGED servers_list
      /\ client' = c
  BY DEF GetServer, InTurn
<1> HIDE DEF best, s
<1>4. /\ servers_list \in Seq(ServerType(Ips)) /\ servers_list # <<>>
      /\ DOMAIN servers_list = 1 .. Len(servers_list) /\ Len(servers_list) \in Nat
  BY DEF Inv
<1>5. servers_list[s] \in ServerType(Ips)
  BY <1>2, <1>4, ElementOfSeq
<1> DEFINE old == servers_list[s]
           new == [old EXCEPT !.connecting = @ + 1]
<1>6. new \in ServerType(Ips) /\ new # old
  <2>1. old \in ServerType(Ips) /\ old.connecting \in Nat
    BY <1>5 DEF ServerType
  <2> HIDE DEF old
  <2>2. new.connecting = old.connecting + 1
    BY <2>1 DEF ServerType
  <2>3. new \in ServerType(Ips)
    BY <2>1 DEF ServerType
  <2> HIDE DEF new
  <2>4. new.connecting # old.connecting
    BY <2>1, <2>2
  <2>5. QED BY <2>3, <2>4
<1>7. CASE best.assigned
  <2>1. servers_list' = [servers_list EXCEPT ![s] = new] /\ last_server_assigned' = s
    BY <1>3, <1>7
  <2> HIDE DEF new
  <2>2. /\ servers_list' \in Seq(ServerType(Ips))
        /\ Len(servers_list') = Len(servers_list)
        /\ servers_list'[s] = new
    BY <1>2, <1>4, <1>6, <2>1, ExceptSeq
  <2>3. servers_list' # servers_list
    BY <1>6, <2>2
  <2>4. servers_list' # <<>> /\ s \in DOMAIN servers_list'
    BY <1>2, <1>4, <2>2, EmptySeq
  <2>5. Inv'
    BY <2>1, <2>2, <2>4 DEF Inv
  <2>6. QED BY <1>1, <1>3, <1>7, <2>1, <2>3, <2>5 DEF Assigned, Chosen, best, s
<1>8. CASE ~best.assigned
  <2>1. Inv'
    BY <1>1, <1>3, <1>8 DEF Inv
  <2>2. QED BY <1>1, <1>3, <1>8, <2>1 DEF Assigned, Chosen, best, s
<1>9. QED BY <1>2, <1>7, <1>8

LEMMA Invariance == Spec => []Inv
<1>1. Init => Inv
  BY ServersAssumption DEF Init, Inv
<1>2. Inv /\ [Next]_vars => Inv'
  <2> SUFFICES ASSUME Inv, [Next]_vars PROVE Inv'
    OBVIOUS
  <2>1. ASSUME NEW c \in Clients, GetServer(c) PROVE Inv'
    BY <2>1, Outcome
  <2>2. CASE UNCHANGED vars
    BY <2>2 DEF Inv, vars
  <2>3. QED BY <2>1, <2>2 DEF Next
<1>3. QED BY <1>1, <1>2, PTL DEF Spec

(* Whatever the turn and the scan prefer, a server that is assigned is     *)
(* allowed by the filters (ServerList.cpp:811, :844).                      *)
THEOREM AssignedAreAllowed == Spec => ChosenIsAllowed
<1> DEFINE P == Assigned => Allowed(Chosen)
<1>1. Inv /\ [Next]_vars => [P]_vars
  <2> SUFFICES ASSUME Inv, NEW c \in Clients, GetServer(c) PROVE P
    BY DEF Next
  <2>1. QED BY Outcome DEF Known, Allowed
<1>2. QED BY <1>1, Invariance, PTL DEF Spec, ChosenIsAllowed

(* A client is turned away only if no server is both allowed and           *)
(* available.                                                              *)
THEOREM NoneIsTurnedAway == Spec => AssignedIfPossible
<1> DEFINE P == (\E i \in DOMAIN servers_list : Allowed(i) /\ Available(i)) => Assigned
<1>1. Inv /\ [Next]_vars => [P]_vars
  <2> SUFFICES ASSUME Inv, NEW c \in Clients, GetServer(c),
                      NEW i \in DOMAIN servers_list, Allowed(i), Available(i)
               PROVE  Assigned
    BY DEF Next
  <2>1. QED BY Outcome DEF Known, Allowed, Available
<1>2. QED BY <1>1, Invariance, PTL DEF Spec, AssignedIfPossible

(* A server that is full or failed is only assigned when the turn fell on  *)
(* one: the scan never leaves an available candidate for it.               *)
THEOREM FullOnlyByTurn == Spec => UnavailableOnlyByTurn
<1> DEFINE P == Assigned /\ ~Available(Chosen) => ~Available(InTurn)
<1>1. Inv /\ [Next]_vars => [P]_vars
  <2> SUFFICES ASSUME Inv, NEW c \in Clients, GetServer(c), Assigned, ~Available(Chosen)
               PROVE  ~Available(InTurn)
    BY DEF Next
  <2>1. QED BY Outcome DEF Known, Available
<1>2. QED BY <1>1, Invariance, PTL DEF Spec, UnavailableOnlyByTurn

(* When the turn falls on an available server, the scan's pairwise         *)
(* comparisons with the best so far find the best of all that are allowed  *)
(* and available, and of the equally good ones the next in turn.           *)
THEOREM BestIsFound == Spec => LightestIsChosen
<1> DEFINE P == Assigned /\ Available(InTurn) =>
                  \A i \in DOMAIN servers_list \ {Chosen} :
                    Allowed(i) /\ Available(i) =>
                      IF Away(i) < Away(Chosen)
                      THEN Preferred(Weighed(Chosen), Weighed(i))
                      ELSE ~Preferred(Weighed(i), Weighed(Chosen))
<1>1. Inv /\ [Next]_vars => [P]_vars
  <2> SUFFICES ASSUME Inv, NEW c \in Clients, GetServer(c), Assigned, Available(InTurn),
                      NEW i \in DOMAIN servers_list \ {Chosen}, Allowed(i), Available(i)
               PROVE  IF Away(i) < Away(Chosen)
                      THEN Preferred(Weighed(Chosen), Weighed(i))
                      ELSE ~Preferred(Weighed(i), Weighed(Chosen))
    BY DEF Next
  <2>0. PICK best : best = Select(servers_list, filter_list, last_server_assigned, c)
    OBVIOUS
  <2>1. /\ client' = c /\ InTurn \in DOMAIN servers_list
        /\ best.assigned /\ Chosen = best.next.server
    BY <2>0, Outcome
  <2>2. /\ servers_list \in Seq(ServerType(Ips)) /\ servers_list # <<>>
        /\ last_server_assigned \in DOMAIN servers_list
    BY DEF Inv
  <2> DEFINE n == Len(servers_list)
             At(m) == Place(servers_list, InTurn, m)
  <2>3. \A j \in DOMAIN servers_list : Weighed(j) = Weight(servers_list, InTurn, j)
    BY DEF Weighed, Weight
  <2>4. Leads(best, servers_list, filter_list, InTurn, c, n - 1)
    BY <2>0, <2>2, SelectLeads DEF Available, InTurn
  <2>5. PICK j \in 0 .. n - 1 :
          /\ best.next = Weight(servers_list, InTurn, At(j))
          /\ \A m \in 0 .. n - 1 :
               LET fits == /\ IsServerAllowed(filter_list, servers_list[At(m)].ip, c)
                           /\ ~NotAvailable(servers_list[At(m)])
               IN  /\ m < j /\ fits => Preferred(Weight(servers_list, InTurn, At(j)),
                                                 Weight(servers_list, InTurn, At(m)))
                   /\ m > j /\ fits => ~Preferred(Weight(servers_list, InTurn, At(m)),
                                                  Weight(servers_list, InTurn, At(j)))
    BY <2>1, <2>4 DEF Leads
  <2>6. PICK k \in 0 .. n - 1 : At(k) = i
    BY <2>1, <2>2, PlaceOf
  <2>7. /\ At(j) \in DOMAIN servers_list /\ (At(j) - InTurn) % n = j
        /\ (At(k) - InTurn) % n = k
    BY <2>1, <2>2, PlacesInTurn
  <2>8. Chosen = At(j)
    BY <2>1, <2>2, <2>5, <2>7, WeightIsCandidate
  <2>9. Away(Chosen) = j /\ Away(i) = k
    BY <2>6, <2>7, <2>8 DEF Away
  <2>10. j # k
    BY <2>6, <2>8
  <2>11. /\ IsServerAllowed(filter_list, servers_list[At(k)].ip, c)
         /\ ~NotAvailable(servers_list[At(k)])
    BY <2>1, <2>6 DEF Allowed, Available
  <2>12. /\ Weighed(Chosen) = Weight(servers_list, InTurn, At(j))
         /\ Weighed(i) = Weight(servers_list, InTurn, At(k))
    BY <2>3, <2>6, <2>7, <2>8
  <2> HIDE DEF At
  <2>13. /\ k < j => Preferred(Weighed(Chosen), Weighed(i))
         /\ k > j => ~Preferred(Weighed(i), Weighed(Chosen))
    BY <2>5, <2>11, <2>12
  <2>14. k < j \/ k > j
    BY <2>10
  <2>15. QED BY <2>9, <2>13, <2>14
<1>2. QED BY <1>1, Invariance, PTL DEF Spec, LightestIsChosen
=============================================================================
