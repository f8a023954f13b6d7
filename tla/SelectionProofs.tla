--------------------------- MODULE SelectionProofs ---------------------------
(***************************************************************************)
(* What getServer's search may and must choose, for any number of servers  *)
(* with any counters and weights, and any filters.                         *)
(*                                                                         *)
(* Select is a recursion over the servers behind the one in turn.  That it *)
(* has a solution is RecursionSolved's argument once more; what is known   *)
(* after k servers (Known) is then shown by induction over k.              *)
(***************************************************************************)
EXTENDS ServerSelection, ListFacts

Start(servers, filters, turn, c) ==
  [next |-> ByTurn(servers, turn),
   assigned |-> IsServerAllowed(filters, servers[turn].ip, c)]

(* The recursion of Select, up to its n-th step. *)
Finds(best, servers, filters, turn, c, n) ==
  best = [k \in 0 .. n |->
            IF k = 0 THEN Start(servers, filters, turn, c)
            ELSE Better(servers, filters, c, best[k - 1], Others(servers, turn)[k])]

LEMMA SearchSolved ==
  ASSUME NEW servers, NEW filters, NEW turn, NEW c, NEW n \in Nat
  PROVE  \E best : Finds(best, servers, filters, turn, c, n)
<1> DEFINE F(P, m) == Finds(P, servers, filters, turn, c, m)
           Step(x, i) == Better(servers, filters, c, x, Others(servers, turn)[i])
           start == Start(servers, filters, turn, c)
           S == {m \in Nat : \E P : F(P, m)}
<1>0. ASSUME NEW P, NEW m
      PROVE  F(P, m) <=> P = [k \in 0 .. m |-> IF k = 0 THEN start ELSE Step(P[k - 1], k)]
  BY DEF Finds
<1> HIDE DEF F, start, Step
<1>1. 0 \in S
  <2> DEFINE E == [i \in 0 .. 0 |-> start]
  <2>1. E = [k \in 0 .. 0 |-> IF k = 0 THEN start ELSE Step(E[k - 1], k)]
    OBVIOUS
  <2> HIDE DEF E
  <2>2. F(E, 0)
    BY <2>1, <1>0
  <2>3. QED BY <2>2
<1>2. ASSUME NEW m \in Nat, m \in S
      PROVE  m + 1 \in S
  <2>1. PICK P : F(P, m)
    BY <1>2
  <2> DEFINE Q == [i \in 0 .. m + 1 |-> IF i = m + 1 THEN Step(P[m], m + 1) ELSE P[i]]
  <2>2. /\ \A i \in 0 .. m : Q[i] = P[i]
        /\ Q[m + 1] = Step(P[m], m + 1)
        /\ Q = [i \in 0 .. m + 1 |-> Q[i]]
    OBVIOUS
  <2> HIDE DEF Q
  <2>3. P = [k \in 0 .. m |-> IF k = 0 THEN start ELSE Step(P[k - 1], k)]
    BY <2>1, <1>0
  <2>4. \A i \in 0 .. m : P[i] = IF i = 0 THEN start ELSE Step(P[i - 1], i)
    BY <2>3
  <2>5. \A i \in 0 .. m + 1 : Q[i] = IF i = 0 THEN start ELSE Step(Q[i - 1], i)
    <3> SUFFICES ASSUME NEW i \in 0 .. m + 1
                 PROVE  Q[i] = IF i = 0 THEN start ELSE Step(Q[i - 1], i)
      OBVIOUS
    <3>1. CASE i = m + 1
      <4>1. i # 0 /\ i - 1 = m /\ m \in 0 .. m
        BY <3>1
      <4>2. QED BY <4>1, <2>2, <3>1
    <3>2. CASE i # m + 1 /\ i # 0
      <4>1. i \in 0 .. m /\ i - 1 \in 0 .. m
        BY <3>2
      <4>2. QED BY <4>1, <2>2, <2>4, <3>2
    <3>3. CASE i = 0
      <4>1. i \in 0 .. m
        BY <3>3
      <4>2. QED BY <4>1, <2>2, <2>4, <3>3
    <3>4. QED BY <3>1, <3>2, <3>3
  <2>6. Q = [k \in 0 .. m + 1 |-> IF k = 0 THEN start ELSE Step(Q[k - 1], k)]
    BY <2>2, <2>5
  <2>7. F(Q, m + 1)
    BY <2>6, <1>0
  <2>8. QED BY <2>7
<1>3. Nat \subseteq S
  <2> HIDE DEF S
  <2>1. QED BY <1>1, <1>2, SetInduction
<1>4. \E P : F(P, n)
  BY <1>3
<1>5. QED BY <1>4 DEF F

(* The places of the search. *)
LEMMA Visits ==
  ASSUME NEW S, NEW servers \in Seq(S), servers # <<>>, NEW turn \in DOMAIN servers
  PROVE  /\ Len(servers) \in Nat \ {0}
         /\ DOMAIN servers = 1 .. Len(servers)
         /\ \A k \in 1 .. Len(servers) - 1 : Others(servers, turn)[k] \in DOMAIN servers
         /\ \A i \in DOMAIN servers :
              i # turn => \E k \in 1 .. Len(servers) - 1 : Others(servers, turn)[k] = i
<1> DEFINE n == Len(servers)
<1>1. n \in Nat \ {0} /\ DOMAIN servers = 1 .. n
  BY EmptySeq
<1>2. \A k \in 1 .. n - 1 : Others(servers, turn)[k] = ((turn - 1 + k) % n) + 1
  BY DEF Others
<1> HIDE DEF n
<1>3. ASSUME NEW k \in 1 .. n - 1
      PROVE  ((turn - 1 + k) % n) + 1 \in 1 .. n
  BY <1>1
<1>4. ASSUME NEW i \in 1 .. n, i # turn
      PROVE  \E k \in 1 .. n - 1 : ((turn - 1 + k) % n) + 1 = i
  <2>1. CASE i > turn
    <3> DEFINE k == i - turn
    <3>1. k \in 1 .. n - 1 /\ turn - 1 + k = i - 1
      BY <1>1, <2>1
    <3>2. (i - 1) % n = i - 1
      BY <1>1
    <3> HIDE DEF k
    <3>3. (turn - 1 + k) % n = i - 1
      BY <3>1, <3>2, Zenon
    <3>4. ((turn - 1 + k) % n) + 1 = i
      BY <3>3, <1>1
    <3>5. QED BY <3>1, <3>4
  <2>2. CASE i < turn
    <3> DEFINE k == i - turn + n
    <3>1. k \in 1 .. n - 1 /\ turn - 1 + k = i - 1 + n
      BY <1>1, <2>2
    <3>2. (i - 1 + n) % n = i - 1
      BY <1>1
    <3> HIDE DEF k
    <3>3. (turn - 1 + k) % n = i - 1
      BY <3>1, <3>2, Zenon
    <3>4. ((turn - 1 + k) % n) + 1 = i
      BY <3>3, <1>1
    <3>5. QED BY <3>1, <3>4
  <2>3. QED BY <1>1, <1>4, <2>1, <2>2
<1>5. QED BY <1>1, <1>2, <1>3, <1>4 DEF n

-----------------------------------------------------------------------------
(* What the search knows after some servers: its candidate is one of them, *)
(* allowed if it is assigned, and full or failed only if the one in turn   *)
(* is; none of them that is allowed and available was passed over without  *)
(* an assignment.                                                          *)
Known(b, servers, filters, turn, c, seen) ==
  LET Allow(i) == IsServerAllowed(filters, servers[i].ip, c)
  IN  /\ b.next.server \in DOMAIN servers
      /\ b.next.notavailable = NotAvailable(servers[b.next.server])
      /\ b.assigned \in BOOLEAN
      /\ b.assigned => Allow(b.next.server)
      /\ NotAvailable(servers[b.next.server]) => NotAvailable(servers[turn])
      /\ \A i \in seen : Allow(i) /\ ~NotAvailable(servers[i]) => b.assigned

LEMMA StartKnows ==
  ASSUME NEW S, NEW servers \in Seq(S), NEW filters, NEW turn \in DOMAIN servers, NEW c
  PROVE  Known(Start(servers, filters, turn, c), servers, filters, turn, c, {turn})
<1> DEFINE b == Start(servers, filters, turn, c)
<1>1. /\ b.next.server = turn
      /\ b.next.notavailable = NotAvailable(servers[turn])
      /\ b.assigned = IsServerAllowed(filters, servers[turn].ip, c)
  BY DEF Start, ByTurn, Candidate
<1>2. IsServerAllowed(filters, servers[turn].ip, c) \in BOOLEAN
  BY DEF IsServerAllowed
<1> HIDE DEF b
<1>3. Known(b, servers, filters, turn, c, {turn})
  BY <1>1, <1>2 DEF Known
<1>4. QED BY <1>3 DEF b

LEMMA BetterKnows ==
  ASSUME NEW servers, NEW filters, NEW turn, NEW c, NEW b, NEW seen,
         NEW i \in DOMAIN servers,
         Known(b, servers, filters, turn, c, seen)
  PROVE  Known(Better(servers, filters, c, b, i), servers, filters, turn, c, seen \cup {i})
<1> DEFINE Allow(j) == IsServerAllowed(filters, servers[j].ip, c)
           s == Scanned(servers, i)
           a == Better(servers, filters, c, b, i)
<1>1. s.server = i /\ s.notavailable = NotAvailable(servers[i])
  BY DEF Scanned, Candidate
<1>2. Replaces(s, b.next, b.assigned) =>
        (NotAvailable(servers[i]) => NotAvailable(servers[b.next.server]))
  BY <1>1 DEF Replaces, Known
<1>3. ~b.assigned /\ ~NotAvailable(servers[i]) => Replaces(s, b.next, b.assigned)
  BY <1>1 DEF Replaces
<1>4. a = IF Allow(i) /\ Replaces(s, b.next, b.assigned)
          THEN [next |-> s, assigned |-> TRUE] ELSE b
  BY DEF Better
<1> HIDE DEF s, a, Allow
<1>5. CASE Allow(i) /\ Replaces(s, b.next, b.assigned)
  <2>1. a.next = s /\ a.assigned = TRUE
    BY <1>4, <1>5
  <2>2. QED BY <2>1, <1>1, <1>2, <1>5 DEF Known, a, Allow
<1>6. CASE ~(Allow(i) /\ Replaces(s, b.next, b.assigned))
  <2>1. a = b
    BY <1>4, <1>6
  <2>2. Allow(i) /\ ~NotAvailable(servers[i]) => b.assigned
    BY <1>3, <1>6 DEF Known
  <2>3. Known(b, servers, filters, turn, c, seen \cup {i})
    BY <2>2 DEF Known, Allow
  <2>4. QED BY <2>1, <2>3 DEF a
<1>7. QED BY <1>5, <1>6

Searches(best, servers, filters, turn, c) ==
  /\ best[0] = Start(servers, filters, turn, c)
  /\ \A k \in 1 .. Len(servers) - 1 :
       best[k] = Better(servers, filters, c, best[k - 1], Others(servers, turn)[k])

LEMMA SelectSearches ==
  ASSUME NEW S, NEW servers \in Seq(S), servers # <<>>, NEW filters,
         NEW last \in DOMAIN servers, NEW c
  PROVE  /\ Turn(servers, last) \in DOMAIN servers
         /\ \E best : /\ Searches(best, servers, filters, Turn(servers, last), c)
                      /\ Select(servers, filters, last, c) = best[Len(servers) - 1]
<1> DEFINE turn == Turn(servers, last)
           n == Len(servers)
<1>1. n \in Nat \ {0} /\ DOMAIN servers = 1 .. n
  BY EmptySeq
<1>2. turn \in DOMAIN servers
  BY <1>1 DEF Turn
<1> DEFINE best == CHOOSE b : Finds(b, servers, filters, turn, c, n - 1)
<1>3. Select(servers, filters, last, c) = best[n - 1]
  BY DEF Select, Finds, Start
<1> HIDE DEF turn
<1>4. Finds(best, servers, filters, turn, c, n - 1)
  <2>1. n - 1 \in Nat
    BY <1>1
  <2>2. QED BY <2>1, SearchSolved
<1> HIDE DEF best, n
<1>5. /\ best[0] = Start(servers, filters, turn, c)
      /\ \A k \in 1 .. n - 1 :
           best[k] = Better(servers, filters, c, best[k - 1], Others(servers, turn)[k])
  BY <1>1, <1>4 DEF Finds
<1>6. Searches(best, servers, filters, turn, c)
  BY <1>5 DEF Searches, n
<1>7. QED BY <1>2, <1>3, <1>6 DEF turn, n

LEMMA SelectKnows ==
  ASSUME NEW S, NEW servers \in Seq(S), servers # <<>>, NEW filters,
         NEW last \in DOMAIN servers, NEW c
  PROVE  /\ Turn(servers, last) \in DOMAIN servers
         /\ Known(Select(servers, filters, last, c), servers, filters,
                  Turn(servers, last), c, DOMAIN servers)
<1> DEFINE turn == Turn(servers, last)
           n == Len(servers)
<1>0. n \in Nat \ {0} /\ DOMAIN servers = 1 .. n
  BY EmptySeq
<1>1. turn \in DOMAIN servers
  BY SelectSearches
<1>2. PICK best : /\ Searches(best, servers, filters, turn, c)
                  /\ Select(servers, filters, last, c) = best[n - 1]
  BY SelectSearches
<1> HIDE DEF turn
<1>3. /\ \A k \in 1 .. n - 1 : Others(servers, turn)[k] \in DOMAIN servers
      /\ \A i \in DOMAIN servers :
           i # turn => \E k \in 1 .. n - 1 : Others(servers, turn)[k] = i
  BY <1>1, Visits
<1>5. /\ best[0] = Start(servers, filters, turn, c)
      /\ \A k \in 1 .. n - 1 :
           best[k] = Better(servers, filters, c, best[k - 1], Others(servers, turn)[k])
  BY <1>2 DEF Searches
<1> HIDE DEF n
<1> DEFINE Seen(k) == {turn} \cup {Others(servers, turn)[j] : j \in 1 .. k}
           K(k) == Known(best[k], servers, filters, turn, c, Seen(k))
           I == {k \in Nat : k <= n - 1 => K(k)}
<1>6. 0 \in I
  <2>1. Seen(0) = {turn}
    OBVIOUS
  <2>2. Known(best[0], servers, filters, turn, c, {turn})
    BY <1>1, <1>5, StartKnows
  <2>3. K(0)
    BY <2>1, <2>2
  <2> HIDE DEF K
  <2>4. QED BY <2>3
<1>7. ASSUME NEW k \in Nat, k \in I
      PROVE  k + 1 \in I
  <2> SUFFICES ASSUME k + 1 <= n - 1
               PROVE  K(k + 1)
    OBVIOUS
  <2> DEFINE i == Others(servers, turn)[k + 1]
  <2>1. k + 1 \in 1 .. n - 1 /\ (k + 1) - 1 = k /\ K(k)
    BY <1>0, <1>7
  <2>2. i \in DOMAIN servers
    BY <1>3, <2>1
  <2>3. best[k + 1] = Better(servers, filters, c, best[k], i)
    BY <1>5, <2>1
  <2>4. Seen(k + 1) = Seen(k) \cup {i}
    OBVIOUS
  <2> HIDE DEF Seen, i
  <2>5. Known(Better(servers, filters, c, best[k], i), servers, filters, turn, c,
              Seen(k) \cup {i})
    BY <2>1, <2>2, BetterKnows
  <2>6. QED BY <2>3, <2>4, <2>5
<1>8. K(n - 1)
  <2>1. Nat \subseteq I
    <3> HIDE DEF I
    <3>1. QED BY <1>6, <1>7, SetInduction
  <2>2. n - 1 \in Nat /\ n - 1 <= n - 1
    BY <1>0
  <2> HIDE DEF K
  <2>3. QED BY <2>1, <2>2
<1>9. DOMAIN servers \subseteq Seen(n - 1)
  BY <1>3
<1> HIDE DEF Seen
<1>10. Known(best[n - 1], servers, filters, turn, c, DOMAIN servers)
  BY <1>8, <1>9 DEF Known
<1>11. QED BY <1>1, <1>2, <1>10 DEF turn, n

-----------------------------------------------------------------------------
(* Preferred is a strict weak order of the candidates: what is preferred   *)
(* to one is preferred to everything that is not better than this one.     *)
IsCandidate(c) == c.connections \in Nat /\ c.divisor \in Nat \ {0} /\ c.weight \in Int

LEMMA Products ==
  ASSUME NEW a \in Nat, NEW b \in Nat, NEW c \in Nat,
         NEW x \in Nat \ {0}, NEW y \in Nat \ {0}, NEW z \in Nat \ {0},
         a * y < b * x, b * z <= c * y
  PROVE  a * z < c * x
<1>1. PICK p \in Nat, q \in Nat, r \in Nat, t \in Nat :
        p = a * y /\ q = b * x /\ r = b * z /\ t = c * y
  OBVIOUS
<1>2. p * z < q * z /\ r * x <= t * x
  <2>1. p < q /\ r <= t
    BY <1>1
  <2>2. \A k, l \in Nat, m \in Nat \ {0} : k < l => k * m < l * m
    OBVIOUS
  <2>3. \A k, l \in Nat, m \in Nat \ {0} : k <= l => k * m <= l * m
    OBVIOUS
  <2>4. QED BY <2>1, <2>2, <2>3
<1>3. q * z = r * x
  BY <1>1
<1>4. p * z < t * x
  <2>1. p * z \in Nat /\ q * z \in Nat /\ r * x \in Nat /\ t * x \in Nat
    OBVIOUS
  <2>2. QED BY <1>2, <1>3, <2>1
<1>5. (a * z) * y < (c * x) * y
  BY <1>1, <1>4
<1>6. a * z \in Nat /\ c * x \in Nat
  OBVIOUS
<1>7. \A k, l \in Nat, m \in Nat \ {0} : k * m < l * m => k < l
  OBVIOUS
<1>8. QED BY <1>5, <1>6, <1>7

LEMMA PreferredOver ==
  ASSUME NEW a, NEW b, NEW c, IsCandidate(a), IsCandidate(b), IsCandidate(c),
         Preferred(a, b), ~Preferred(c, b)
  PROVE  Preferred(a, c)
<1> DEFINE A == a.connections  x == a.divisor
           B == b.connections  y == b.divisor
           C == c.connections  z == c.divisor
<1>1. /\ A \in Nat /\ B \in Nat /\ C \in Nat
      /\ x \in Nat \ {0} /\ y \in Nat \ {0} /\ z \in Nat \ {0}
      /\ a.weight \in Int /\ b.weight \in Int /\ c.weight \in Int
  BY DEF IsCandidate
<1>2. /\ IF A = 0 /\ B = 0 THEN a.weight > b.weight ELSE A * y < B * x
      /\ ~IF C = 0 /\ B = 0 THEN c.weight > b.weight ELSE C * y < B * z
  BY DEF Preferred, Lighter
<1>3. Preferred(a, c) <=> IF A = 0 /\ C = 0 THEN a.weight > c.weight ELSE A * z < C * x
  BY DEF Preferred, Lighter
<1> HIDE DEF A, B, C, x, y, z
<1>4. CASE A = 0 /\ B = 0 /\ C = 0
  BY <1>1, <1>2, <1>3, <1>4
<1>5. CASE A = 0 /\ B = 0 /\ C # 0
  <2>1. C * x > 0 /\ A * z = 0
    <3>1. \A k, l \in Nat \ {0} : k * l > 0
      OBVIOUS
    <3>2. QED BY <1>1, <1>5, <3>1
  <2>2. QED BY <1>3, <1>5, <2>1
<1>6. CASE ~(A = 0 /\ B = 0)
  <2>1. A * y < B * x
    BY <1>2, <1>6
  <2>2. A * y >= 0
    BY <1>1
  <2>3. B # 0
    BY <1>1, <2>1, <2>2
  <2>4. B * z <= C * y
    <3>1. B * z \in Nat /\ C * y \in Nat
      BY <1>1
    <3>2. QED BY <1>2, <2>3, <3>1
  <2>5. A * z < C * x
    BY <1>1, <2>1, <2>4, Products
  <2>6. C # 0
    <3>1. A * z >= 0
      BY <1>1
    <3>2. QED BY <1>1, <2>5, <3>1
  <2>7. QED BY <1>3, <2>5, <2>6
<1>7. QED BY <1>4, <1>5, <1>6

LEMMA PreferredOnce ==
  ASSUME NEW a, NEW b, IsCandidate(a), IsCandidate(b), Preferred(a, b)
  PROVE  ~Preferred(b, a)
<1>1. CASE a.connections = 0 /\ b.connections = 0
  BY <1>1 DEF Preferred, IsCandidate
<1>2. CASE ~(a.connections = 0 /\ b.connections = 0)
  <2>1. Lighter(a, b) /\ (Preferred(b, a) => Lighter(b, a))
    BY <1>2 DEF Preferred
  <2>2. /\ a.connections * b.divisor \in Nat
        /\ b.connections * a.divisor \in Nat
    BY DEF IsCandidate
  <2>3. QED BY <2>1, <2>2 DEF Lighter
<1>3. QED BY <1>1, <1>2

(* How a server is weighed, and the place where the search comes to it.    *)
Weight(servers, turn, i) ==
  IF i = turn THEN ByTurn(servers, i) ELSE Scanned(servers, i)

Place(servers, turn, k) == IF k = 0 THEN turn ELSE Others(servers, turn)[k]

LEMMA WeightIsCandidate ==
  ASSUME NEW Ips, NEW servers \in Seq(ServerType(Ips)), NEW turn,
         NEW i \in DOMAIN servers
  PROVE  /\ IsCandidate(Weight(servers, turn, i))
         /\ Weight(servers, turn, i).server = i
         /\ Weight(servers, turn, i).notavailable = NotAvailable(servers[i])
<1> DEFINE s == servers[i]
<1>1. s \in ServerType(Ips)
  BY ElementOfSeq
<1> HIDE DEF s
<1>2. /\ s.connecting \in Nat /\ s.connected \in Nat /\ s.finished \in Nat
      /\ s.disconnected \in Nat /\ s.weight \in Int
  BY <1>1 DEF ServerType
<1>3. /\ s.connecting + s.connected + Past(s) \in Nat
      /\ s.finished + s.connected + Past(s) \in Nat
      /\ Divisor(s) \in Nat \ {0}
  <2>1. Past(s) \in Nat
    BY <1>2 DEF Past, finished_weight, disconnected_weight
  <2>2. Divisor(s) \in Nat \ {0}
    BY <1>2 DEF Divisor
  <2>3. \A k, l, m \in Nat : k + l + m \in Nat
    OBVIOUS
  <2>4. QED BY <1>2, <2>1, <2>2, <2>3, Zenon
<1>4. ASSUME NEW n \in Nat
      PROVE  /\ IsCandidate(Candidate(servers, i, n))
             /\ Candidate(servers, i, n).server = i
             /\ Candidate(servers, i, n).notavailable = NotAvailable(servers[i])
  BY <1>2, <1>3 DEF Candidate, IsCandidate, s
<1>5. QED BY <1>3, <1>4 DEF Weight, ByTurn, Scanned, s

LEMMA PlacesInTurn ==
  ASSUME NEW S, NEW servers \in Seq(S), servers # <<>>, NEW turn \in DOMAIN servers,
         NEW k \in 0 .. Len(servers) - 1
  PROVE  /\ Place(servers, turn, k) \in DOMAIN servers
         /\ (Place(servers, turn, k) - turn) % Len(servers) = k
         /\ k # 0 => Place(servers, turn, k) # turn
<1> DEFINE n == Len(servers)
           i == Place(servers, turn, k)
<1>1. n \in Nat \ {0} /\ DOMAIN servers = 1 .. n
  BY Visits
<1>2. k # 0 => i = ((turn - 1 + k) % n) + 1
  BY <1>1 DEF Place, Others
<1>3. k = 0 => i = turn
  BY DEF Place
<1> HIDE DEF n, i
<1>4. CASE k = 0
  BY <1>1, <1>3, <1>4 DEF n, i
<1>5. CASE k # 0 /\ turn - 1 + k < n
  <2>1. (turn - 1 + k) % n = turn - 1 + k
    BY <1>1, <1>5 DEF n
  <2>2. i = turn + k
    BY <1>1, <1>2, <1>5, <2>1
  <2>3. i - turn = k /\ k % n = k /\ i \in 1 .. n /\ i # turn
    BY <1>1, <1>5, <2>2 DEF n
  <2>4. QED BY <1>1, <2>3 DEF n, i
<1>6. CASE k # 0 /\ turn - 1 + k >= n
  <2>0. PICK d \in 0 .. n - 1 : turn - 1 + k = d + n
    <3>1. turn \in 1 .. n /\ k \in 0 .. n - 1
      BY <1>1 DEF n
    <3>2. turn - 1 + k - n \in 0 .. n - 1 /\ turn - 1 + k = (turn - 1 + k - n) + n
      BY <1>1, <1>6, <3>1
    <3>3. QED BY <3>2
  <2>1. (d + n) % n = d
    BY <1>1
  <2>2. i = d + 1
    <3>1. (turn - 1 + k) % n = d
      BY <2>0, <2>1, Zenon
    <3>2. QED BY <1>2, <1>6, <3>1
  <2>3. /\ i - turn = k - n /\ (k - n) % n = k
        /\ i \in 1 .. n /\ i # turn
    BY <1>1, <1>6, <2>0, <2>2 DEF n
  <2>4. QED BY <1>1, <2>3 DEF n, i
<1>7. QED BY <1>1, <1>4, <1>5, <1>6 DEF n

LEMMA PlaceOf ==
  ASSUME NEW S, NEW servers \in Seq(S), servers # <<>>, NEW turn \in DOMAIN servers,
         NEW i \in DOMAIN servers
  PROVE  \E k \in 0 .. Len(servers) - 1 : Place(servers, turn, k) = i
<1>1. Len(servers) \in Nat \ {0}
  BY Visits
<1>2. CASE i = turn
  BY <1>1, <1>2 DEF Place
<1>3. CASE i # turn
  <2>1. PICK k \in 1 .. Len(servers) - 1 : Others(servers, turn)[k] = i
    BY <1>3, Visits
  <2>2. k \in 0 .. Len(servers) - 1 /\ k # 0
    BY <1>1
  <2>3. QED BY <2>1, <2>2 DEF Place
<1>4. QED BY <1>2, <1>3

(* The candidate after k servers, when the one in turn is available: it is *)
(* the one at some place j, preferred to what was there before and as good *)
(* as what came after it.                                                  *)
Leads(b, servers, filters, turn, c, k) ==
  LET P(m) == Place(servers, turn, m)
      W(m) == Weight(servers, turn, P(m))
      Fits(m) == /\ IsServerAllowed(filters, servers[P(m)].ip, c)
                 /\ ~NotAvailable(servers[P(m)])
  IN  /\ b.assigned \in BOOLEAN
      /\ b.next.notavailable = FALSE
      /\ ~b.assigned => \A m \in 0 .. k : ~Fits(m)
      /\ b.assigned =>
           \E j \in 0 .. k :
             /\ b.next = W(j)
             /\ \A m \in 0 .. k :
                  /\ m < j /\ Fits(m) => Preferred(W(j), W(m))
                  /\ m > j /\ Fits(m) => ~Preferred(W(m), W(j))

LEMMA StartLeads ==
  ASSUME NEW servers, NEW filters, NEW turn, NEW c, ~NotAvailable(servers[turn])
  PROVE  Leads(Start(servers, filters, turn, c), servers, filters, turn, c, 0)
<1> DEFINE b == Start(servers, filters, turn, c)
<1>1. /\ b.next = ByTurn(servers, turn)
      /\ b.assigned = IsServerAllowed(filters, servers[turn].ip, c)
  BY DEF Start
<1>2. b.next.notavailable = NotAvailable(servers[turn])
  BY <1>1 DEF ByTurn, Candidate
<1>3. IsServerAllowed(filters, servers[turn].ip, c) \in BOOLEAN
  BY DEF IsServerAllowed
<1>4. NotAvailable(servers[turn]) \in BOOLEAN
  BY DEF NotAvailable
<1> HIDE DEF b
<1>5. 0 .. 0 = {0}
  OBVIOUS
<1>6. Place(servers, turn, 0) = turn
  BY DEF Place
<1>7. b.next = Weight(servers, turn, turn)
  BY <1>1 DEF Weight
<1>8. Leads(b, servers, filters, turn, c, 0)
  BY <1>1, <1>2, <1>3, <1>4, <1>5, <1>6, <1>7 DEF Leads
<1>9. QED BY <1>8 DEF b

LEMMA BetterLeads ==
  ASSUME NEW Ips, NEW servers \in Seq(ServerType(Ips)), servers # <<>>, NEW filters,
         NEW turn \in DOMAIN servers, NEW c, NEW b,
         NEW k \in Nat, k + 1 \in 1 .. Len(servers) - 1,
         Leads(b, servers, filters, turn, c, k)
  PROVE  Leads(Better(servers, filters, c, b, Others(servers, turn)[k + 1]),
               servers, filters, turn, c, k + 1)
<1> DEFINE P(m) == Place(servers, turn, m)
           W(m) == Weight(servers, turn, P(m))
           Allow(m) == IsServerAllowed(filters, servers[P(m)].ip, c)
           Fits(m) == Allow(m) /\ ~NotAvailable(servers[P(m)])
           i == Others(servers, turn)[k + 1]
           a == Better(servers, filters, c, b, i)
<1>1. P(k + 1) = i /\ i \in DOMAIN servers /\ i # turn
  <2>1. k + 1 \in 0 .. Len(servers) - 1 /\ k + 1 # 0
    OBVIOUS
  <2>2. P(k + 1) = i
    BY <2>1 DEF Place
  <2>3. QED BY <2>1, <2>2, PlacesInTurn
<1>2. W(k + 1) = Scanned(servers, i)
  BY <1>1 DEF Weight
<1>3. ASSUME NEW m \in 0 .. k + 1
      PROVE  IsCandidate(W(m)) /\ W(m).notavailable = NotAvailable(servers[P(m)])
  <2>1. m \in 0 .. Len(servers) - 1
    OBVIOUS
  <2>2. P(m) \in DOMAIN servers
    BY <2>1, PlacesInTurn
  <2>3. QED BY <2>2, WeightIsCandidate
<1>4. a = IF Allow(k + 1) /\ Replaces(W(k + 1), b.next, b.assigned)
          THEN [next |-> W(k + 1), assigned |-> TRUE] ELSE b
  BY <1>1, <1>2 DEF Better
<1>5. /\ b.assigned \in BOOLEAN
      /\ b.next.notavailable = FALSE
      /\ ~b.assigned => \A m \in 0 .. k : ~Fits(m)
      /\ b.assigned =>
           \E j \in 0 .. k :
             /\ b.next = W(j)
             /\ \A m \in 0 .. k :
                  /\ m < j /\ Fits(m) => Preferred(W(j), W(m))
                  /\ m > j /\ Fits(m) => ~Preferred(W(m), W(j))
  BY DEF Leads
<1>6. \A m : Fits(m) <=> Allow(m) /\ ~NotAvailable(servers[P(m)])
  OBVIOUS
<1>7. Leads(a, servers, filters, turn, c, k + 1) <=>
        /\ a.assigned \in BOOLEAN
        /\ a.next.notavailable = FALSE
        /\ ~a.assigned => \A m \in 0 .. k + 1 : ~Fits(m)
        /\ a.assigned =>
             \E j \in 0 .. k + 1 :
               /\ a.next = W(j)
               /\ \A m \in 0 .. k + 1 :
                    /\ m < j /\ Fits(m) => Preferred(W(j), W(m))
                    /\ m > j /\ Fits(m) => ~Preferred(W(m), W(j))
  BY DEF Leads
<1>8. NotAvailable(servers[i]) \in BOOLEAN
  BY DEF NotAvailable
<1>9. k + 1 \in 0 .. k + 1 /\ 0 .. k \subseteq 0 .. k + 1
      /\ \A m \in 0 .. k + 1 : m \in 0 .. k \/ m = k + 1
  OBVIOUS
<1> HIDE DEF P, W, Allow, Fits, i, a
<1>10. CASE Allow(k + 1) /\ Replaces(W(k + 1), b.next, b.assigned)
  <2>1. a.next = W(k + 1) /\ a.assigned = TRUE
    BY <1>4, <1>10
  <2>2. /\ W(k + 1).notavailable = FALSE
        /\ b.assigned => Preferred(W(k + 1), b.next)
    BY <1>1, <1>3, <1>5, <1>8, <1>9, <1>10 DEF Replaces
  <2>3. ASSUME NEW m \in 0 .. k, Fits(m)
        PROVE  Preferred(W(k + 1), W(m))
    <3>1. b.assigned
      BY <1>5, <2>3
    <3>2. PICK j \in 0 .. k :
            /\ b.next = W(j)
            /\ \A l \in 0 .. k :
                 /\ l < j /\ Fits(l) => Preferred(W(j), W(l))
                 /\ l > j /\ Fits(l) => ~Preferred(W(l), W(j))
      BY <1>5, <3>1
    <3>3. IsCandidate(W(j)) /\ IsCandidate(W(m)) /\ IsCandidate(W(k + 1))
      BY <1>3, <1>9
    <3>4. Preferred(W(k + 1), W(j))
      BY <2>2, <3>1, <3>2
    <3>5. CASE m = j
      BY <3>4, <3>5
    <3>6. CASE m # j
      <4>1. m < j => Preferred(W(j), W(m))
        BY <2>3, <3>2
      <4>2. m > j => ~Preferred(W(m), W(j))
        BY <2>3, <3>2
      <4>3. ~Preferred(W(m), W(j))
        BY <3>3, <3>6, <4>1, <4>2, PreferredOnce
      <4>4. QED BY <3>3, <3>4, <4>3, PreferredOver
    <3>7. QED BY <3>5, <3>6
  <2>4. \A m \in 0 .. k + 1 : /\ m < k + 1 /\ Fits(m) => Preferred(W(k + 1), W(m))
                              /\ ~(m > k + 1)
    BY <1>9, <2>3
  <2>5. QED BY <1>7, <1>9, <2>1, <2>2, <2>4 DEF a, i
<1>11. CASE ~(Allow(k + 1) /\ Replaces(W(k + 1), b.next, b.assigned))
  <2>1. a = b
    BY <1>4, <1>11
  <2>2. ASSUME Fits(k + 1)
        PROVE  b.assigned /\ ~Preferred(W(k + 1), b.next)
    <3>1. Allow(k + 1) /\ ~W(k + 1).notavailable
      BY <1>3, <1>6, <1>9, <2>2
    <3>2. QED BY <1>5, <1>11, <3>1 DEF Replaces
  <2>3. ASSUME ~b.assigned, NEW m \in 0 .. k + 1
        PROVE  ~Fits(m)
    BY <1>5, <1>9, <2>2, <2>3
  <2>4. ASSUME b.assigned
        PROVE  \E j \in 0 .. k + 1 :
                 /\ b.next = W(j)
                 /\ \A m \in 0 .. k + 1 :
                      /\ m < j /\ Fits(m) => Preferred(W(j), W(m))
                      /\ m > j /\ Fits(m) => ~Preferred(W(m), W(j))
    <3>1. PICK j \in 0 .. k :
            /\ b.next = W(j)
            /\ \A l \in 0 .. k :
                 /\ l < j /\ Fits(l) => Preferred(W(j), W(l))
                 /\ l > j /\ Fits(l) => ~Preferred(W(l), W(j))
      BY <1>5, <2>4
    <3>2. ASSUME NEW m \in 0 .. k + 1
          PROVE  /\ m < j /\ Fits(m) => Preferred(W(j), W(m))
                 /\ m > j /\ Fits(m) => ~Preferred(W(m), W(j))
      <4>1. CASE m \in 0 .. k
        BY <3>1, <4>1
      <4>2. CASE m = k + 1
        BY <2>2, <3>1, <4>2
      <4>3. QED BY <1>9, <4>1, <4>2
    <3>3. j \in 0 .. k + 1
      OBVIOUS
    <3>4. QED BY <3>1, <3>2, <3>3
  <2>5. QED BY <1>5, <1>7, <2>1, <2>3, <2>4 DEF a, i
<1>12. QED BY <1>10, <1>11

LEMMA SelectLeads ==
  ASSUME NEW Ips, NEW servers \in Seq(ServerType(Ips)), servers # <<>>, NEW filters,
         NEW last \in DOMAIN servers, NEW c,
         ~NotAvailable(servers[Turn(servers, last)])
  PROVE  Leads(Select(servers, filters, last, c), servers, filters,
               Turn(servers, last), c, Len(servers) - 1)
<1> DEFINE turn == Turn(servers, last)
           n == Len(servers)
<1>0. n \in Nat \ {0}
  BY EmptySeq
<1>1. turn \in DOMAIN servers
  BY SelectSearches
<1>2. PICK best : /\ Searches(best, servers, filters, turn, c)
                  /\ Select(servers, filters, last, c) = best[n - 1]
  BY SelectSearches
<1>3. ~NotAvailable(servers[turn])
  OBVIOUS
<1> HIDE DEF turn
<1>4. /\ best[0] = Start(servers, filters, turn, c)
      /\ \A k \in 1 .. n - 1 :
           best[k] = Better(servers, filters, c, best[k - 1], Others(servers, turn)[k])
  BY <1>2 DEF Searches
<1> DEFINE I == {k \in Nat : k <= n - 1 => Leads(best[k], servers, filters, turn, c, k)}
<1>5. 0 \in I
  BY <1>3, <1>4, StartLeads
<1>6. ASSUME NEW k \in Nat, k \in I
      PROVE  k + 1 \in I
  <2> SUFFICES ASSUME k + 1 <= n - 1
               PROVE  Leads(best[k + 1], servers, filters, turn, c, k + 1)
    OBVIOUS
  <2>1. /\ k + 1 \in 1 .. n - 1 /\ (k + 1) - 1 = k
        /\ Leads(best[k], servers, filters, turn, c, k)
    BY <1>0, <1>6
  <2>2. best[k + 1] = Better(servers, filters, c, best[k], Others(servers, turn)[k + 1])
    BY <1>4, <2>1
  <2>3. Leads(Better(servers, filters, c, best[k], Others(servers, turn)[k + 1]),
              servers, filters, turn, c, k + 1)
    BY <1>1, <2>1, BetterLeads
  <2>4. QED BY <2>2, <2>3
<1>7. Nat \subseteq I
  <2> HIDE DEF I
  <2>1. QED BY <1>5, <1>6, SetInduction
<1>8. n - 1 \in I /\ n - 1 \in Nat
  BY <1>0, <1>7
<1>9. Leads(best[n - 1], servers, filters, turn, c, n - 1)
  BY <1>8
<1>10. QED BY <1>2, <1>9 DEF turn, n
=============================================================================
