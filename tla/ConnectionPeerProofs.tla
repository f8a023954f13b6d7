------------------------ MODULE ConnectionPeerProofs ------------------------
(***************************************************************************)
(* The safety properties of ConnectionPeer, and its refinements of the     *)
(* abstract relay and of PeerLife, for every buffer size, every stream and *)
(* every number of kicks.                                                  *)
(*                                                                         *)
(* The proof follows the code: every method of PeerOperations is shown to  *)
(* preserve the invariant of a peer (PeerInv) and to move each direction   *)
(* as the abstract relay does (PeerStep); the lemmas compose as the        *)
(* methods call each other, and the actions inherit both facts.            *)
(***************************************************************************)
EXTENDS ConnectionPeer, SequenceTheorems, TLAPS

BufferInv(b) ==
  /\ b \in BufferType
  /\ Accounting(b)
  /\ InOrder(b)
  /\ Len(b.given) <= b.taken

PeerInv(p) ==
  /\ p \in PeerType
  /\ BufferInv(p.forServer)
  /\ BufferInv(p.forClient)
  /\ p.server => Pending(p.forServer)
  /\ p.client => Pending(p.forClient)

(* What a step may do to one direction: b is its buffer, o its sink. *)
RelayStep(b, o, c, r) ==
  /\ b.taken <= c.taken
  /\ Len(b.given) <= Len(c.given)
  /\ ~o => ~r /\ c.given = b.given

PeerStep(p, q) ==
  PeerInv(p) =>
    /\ PeerInv(q)
    /\ RelayStep(p.forServer, p.server, q.forServer, q.server)
    /\ RelayStep(p.forClient, p.client, q.forClient, q.client)

-----------------------------------------------------------------------------
(* Buffers. *)

LEMMA NewBufferInv == BufferInv(NewBuffer) /\ Pending(NewBuffer)
  BY BufferAssumption
  DEF BufferInv, BufferType, NewBuffer, Accounting, InOrder, Pending

LEMMA ResetBufferInv ==
  ASSUME NEW b, BufferInv(b)
  PROVE  /\ BufferInv(ResetBuffer(b))
         /\ ResetBuffer(b).taken = b.taken
         /\ ResetBuffer(b).given = b.given
<1> DEFINE c == ResetBuffer(b)
<1>1. c = [data |-> b.data, w_offset |-> 0, r_offset |-> 0,
           to_receive |-> STAMBUFFERSOCKET, to_send |-> 0,
           taken |-> b.taken, given |-> b.given]
  BY DEF ResetBuffer
<1> HIDE DEF c
<1>2. c \in BufferType
  BY <1>1, BufferAssumption DEF BufferInv, BufferType
<1>3. Accounting(c)
  BY <1>1, BufferAssumption DEF Accounting
<1>4. InOrder(c)
  BY <1>1 DEF BufferInv, InOrder
<1>5. Len(c.given) <= c.taken
  BY <1>1 DEF BufferInv
<1>6. QED BY <1>1, <1>2, <1>3, <1>4, <1>5 DEF BufferInv, c

(* The fields of a buffer, for the arithmetic of the two lemmas below. *)
LEMMA BufferFields ==
  ASSUME NEW b, BufferInv(b)
  PROVE  /\ b.w_offset \in Nat /\ b.r_offset \in Nat /\ b.to_receive \in Nat
         /\ b.to_send \in Nat /\ b.taken \in Nat /\ b.given \in Seq(Nat)
         /\ b.data \in [0 .. STAMBUFFERSOCKET - 1 -> Nat]
         /\ STAMBUFFERSOCKET \in Nat \ {0}
         /\ b.r_offset <= b.w_offset /\ b.w_offset <= STAMBUFFERSOCKET
         /\ b.to_send = b.w_offset - b.r_offset
         /\ b.to_receive = STAMBUFFERSOCKET - b.w_offset
         /\ \A i \in 1 .. Len(b.given) : b.given[i] = i
         /\ Len(b.given) <= b.taken
  BY BufferAssumption DEF BufferInv, BufferType, Accounting, InOrder

LEMMA ReceiveInv ==
  ASSUME NEW b, BufferInv(b), NEW n \in 1 .. b.to_receive
  PROVE  /\ BufferInv(Receive(b, n))
         /\ Pending(b) => Pending(Receive(b, n))
         /\ Receive(b, n).taken = b.taken + n
         /\ Receive(b, n).given = b.given
<1> DEFINE c == Receive(b, n)
           m == Filled(b, n)
           w == b.w_offset   r == b.r_offset
           s == b.to_send    t == b.taken    g == Len(b.given)
<1>1. c = [data |-> m, w_offset |-> w + n, r_offset |-> r,
           to_receive |-> b.to_receive - n, to_send |-> s + n,
           taken |-> t + n, given |-> b.given]
  BY DEF Receive
<1>2. /\ w \in Nat /\ r \in Nat /\ s \in Nat /\ t \in Nat /\ g \in Nat
      /\ n \in Nat \ {0} /\ STAMBUFFERSOCKET \in Nat
      /\ r <= w /\ s = w - r /\ b.to_receive = STAMBUFFERSOCKET - w
      /\ w + n <= STAMBUFFERSOCKET
  BY BufferFields
<1>3. /\ b.data \in [0 .. STAMBUFFERSOCKET - 1 -> Nat]
      /\ b.given \in Seq(Nat)
      /\ \A i \in 1 .. Len(b.given) : b.given[i] = i
  BY BufferFields
<1>4. m = [i \in 0 .. STAMBUFFERSOCKET - 1 |->
             IF i \in w .. w + n - 1 THEN t + 1 + i - w ELSE b.data[i]]
  BY DEF Filled
<1>5. Pending(b) <=> /\ t = g + s
                     /\ \A j \in 0 .. s - 1 : b.data[r + j] = g + 1 + j
  BY DEF Pending
<1>b. g = Len(b.given)
  OBVIOUS
<1> HIDE DEF c, m, w, r, s, t, g
<1>6. m \in [0 .. STAMBUFFERSOCKET - 1 -> Nat]
  <2>1. ASSUME NEW i \in w .. w + n - 1 PROVE t + 1 + i - w \in Nat
    BY <1>2
  <2>2. QED BY <1>3, <1>4, <2>1
<1>7. c \in BufferType /\ Accounting(c)
  <2>1. /\ b.to_receive - n \in Nat /\ w + n \in Nat
        /\ s + n \in Nat /\ t + n \in Nat
        /\ s + n = (w + n) - r /\ b.to_receive - n = STAMBUFFERSOCKET - (w + n)
        /\ r <= w + n
    BY <1>2
  <2>2. c \in BufferType
    BY <1>1, <1>2, <1>3, <1>6, <2>1 DEF BufferType
  <2>3. Accounting(c)
    BY <1>1, <1>2, <2>1 DEF Accounting
  <2>4. QED BY <2>2, <2>3
<1>8. InOrder(c)
  BY <1>1, <1>3 DEF InOrder
<1>9. ASSUME Pending(b) PROVE Pending(c)
  <2>1. t + n = g + (s + n)
    BY <1>2, <1>5, <1>9
  <2>2. \A j \in 0 .. s + n - 1 : m[r + j] = g + 1 + j
    <3> TAKE j \in 0 .. s + n - 1
    <3>1. r + j \in 0 .. STAMBUFFERSOCKET - 1
      BY <1>2
    <3>2. CASE j \in 0 .. s - 1
      <4>1. r + j \notin w .. w + n - 1
        BY <1>2, <3>2
      <4>2. m[r + j] = b.data[r + j]
        BY <1>4, <3>1, <4>1
      <4>3. QED BY <1>5, <1>9, <3>2, <4>2
    <3>3. CASE j \notin 0 .. s - 1
      <4>1. r + j \in w .. w + n - 1
        BY <1>2, <3>3
      <4>2. m[r + j] = t + 1 + (r + j) - w
        BY <1>4, <3>1, <4>1
      <4>3. t + 1 + (r + j) - w = g + 1 + j
        BY <1>2, <2>1
      <4>4. QED BY <4>2, <4>3
    <3>4. QED BY <3>2, <3>3
  <2>3. /\ c.taken = t + n /\ c.to_send = s + n /\ c.data = m
        /\ c.r_offset = r /\ Len(c.given) = g
    BY <1>1, <1>b
  <2>4. /\ c.taken = Len(c.given) + c.to_send
        /\ \A j \in 0 .. c.to_send - 1 :
             c.data[c.r_offset + j] = Len(c.given) + 1 + j
    <3>1. c.taken = Len(c.given) + c.to_send
      BY <2>1, <2>3
    <3>2. ASSUME NEW j \in 0 .. c.to_send - 1
          PROVE  c.data[c.r_offset + j] = Len(c.given) + 1 + j
      <4>1. j \in 0 .. s + n - 1
        BY <1>2, <2>3, <3>2
      <4>2. m[r + j] = g + 1 + j
        BY <2>2, <4>1
      <4>3. QED BY <2>3, <4>2
    <3>3. QED BY <3>1, <3>2
  <2>5. QED BY <2>4 DEF Pending
<1>10. Len(c.given) <= c.taken
  <2>1. g <= t
    BY <1>b, BufferFields DEF t
  <2>2. g <= t + n
    BY <1>2, <2>1
  <2>3. QED BY <1>1, <1>b, <2>2
<1>11. QED BY <1>1, <1>7, <1>8, <1>9, <1>10 DEF BufferInv, c, t

LEMMA TakeInv ==
  ASSUME NEW b, BufferInv(b), Pending(b), NEW n \in 1 .. b.to_send
  PROVE  /\ BufferInv(Take(b, n))
         /\ Pending(Take(b, n))
         /\ Take(b, n).taken = b.taken
         /\ Len(Take(b, n).given) = Len(b.given) + n
<1> DEFINE c == Take(b, n)
           h == b.given
           m == FirstPending(b, n)
           w == b.w_offset   r == b.r_offset
           s == b.to_send    t == b.taken    g == Len(h)
<1>1. c = [data |-> b.data, w_offset |-> w, r_offset |-> r + n,
           to_receive |-> b.to_receive, to_send |-> s - n,
           taken |-> t, given |-> Handed(b, n)]
  BY DEF Take
<1>2. /\ w \in Nat /\ r \in Nat /\ s \in Nat /\ t \in Nat /\ g \in Nat
      /\ n \in Nat \ {0} /\ STAMBUFFERSOCKET \in Nat
      /\ r <= w /\ s = w - r /\ b.to_receive = STAMBUFFERSOCKET - w
      /\ w <= STAMBUFFERSOCKET /\ n <= s /\ b.to_receive \in Nat
  BY BufferFields
<1>3. /\ b.data \in [0 .. STAMBUFFERSOCKET - 1 -> Nat]
      /\ h \in Seq(Nat)
      /\ \A i \in 1 .. g : h[i] = i
  BY BufferFields
<1>4. m = [j \in 1 .. n |-> b.data[r + j - 1]] /\ Handed(b, n) = h \o m
  BY DEF FirstPending, Handed
<1>5. t = g + s /\ \A j \in 0 .. s - 1 : b.data[r + j] = g + 1 + j
  BY DEF Pending
<1>a. g = Len(h)
  OBVIOUS
<1> HIDE DEF c, h, m, w, r, s, t, g
<1>6. \A j \in 1 .. n : m[j] = g + j
  <2> TAKE j \in 1 .. n
  <2>1. j - 1 \in 0 .. s - 1 /\ r + (j - 1) = r + j - 1 /\ g + 1 + (j - 1) = g + j
    BY <1>2
  <2>2. b.data[r + (j - 1)] = g + 1 + (j - 1)
    BY <1>5, <2>1
  <2>3. QED BY <1>4, <2>1, <2>2
<1>7. m \in Seq(Nat) /\ Len(m) = n
  <2>1. \A j \in 1 .. n : g + j \in Nat
    BY <1>2
  <2>2. m \in [1 .. n -> Nat]
    BY <1>4, <1>6, <2>1
  <2>3. QED BY <1>2, <2>2
<1>8. /\ h \o m \in Seq(Nat) /\ Len(h \o m) = g + n
      /\ \A i \in 1 .. g : (h \o m)[i] = h[i]
      /\ \A i \in g + 1 .. g + n : (h \o m)[i] = m[i - g]
  <2>1. /\ h \o m \in Seq(Nat)
        /\ Len(h \o m) = g + n
        /\ \A i \in 1 .. g + n : (h \o m)[i] = IF i <= g THEN h[i] ELSE m[i - g]
    <3>1. /\ h \o m \in Seq(Nat)
          /\ Len(h \o m) = Len(h) + Len(m)
          /\ \A i \in 1 .. Len(h) + Len(m) :
               (h \o m)[i] = IF i <= Len(h) THEN h[i] ELSE m[i - Len(h)]
      BY <1>3, <1>7, ConcatProperties
    <3>2. QED BY <3>1, <1>7, <1>a, Zenon
  <2>2. /\ \A i \in 1 .. g : i \in 1 .. g + n /\ i <= g
        /\ \A i \in g + 1 .. g + n : i \in 1 .. g + n /\ ~(i <= g)
    BY <1>2
  <2>3. QED BY <2>1, <2>2
<1>9. InOrder(c)
  <2> SUFFICES ASSUME NEW i \in 1 .. g + n PROVE (h \o m)[i] = i
    BY <1>1, <1>4, <1>8 DEF InOrder
  <2>1. CASE i \in 1 .. g
    BY <1>3, <1>8, <2>1
  <2>2. CASE i \in g + 1 .. g + n
    <3>1. i - g \in 1 .. n /\ g + (i - g) = i
      BY <1>2, <2>2
    <3>2. QED BY <1>6, <1>8, <2>2, <3>1
  <2>3. i \in 1 .. g \/ i \in g + 1 .. g + n
    BY <1>2
  <2>4. QED BY <2>1, <2>2, <2>3
<1>10. c \in BufferType /\ Accounting(c)
  <2>1. /\ r + n \in Nat /\ s - n \in Nat /\ r + n <= w /\ s - n = w - (r + n)
    BY <1>2
  <2>2. c \in BufferType
    BY <1>1, <1>2, <1>3, <1>4, <1>8, <2>1 DEF BufferType
  <2>3. Accounting(c)
    BY <1>1, <1>2, <2>1 DEF Accounting
  <2>4. QED BY <2>2, <2>3
<1>11. Pending(c)
  <2>1. t = (g + n) + (s - n)
    BY <1>2, <1>5
  <2>2. \A j \in 0 .. s - n - 1 : b.data[r + n + j] = g + n + 1 + j
    <3> TAKE j \in 0 .. s - n - 1
    <3>1. /\ n + j \in 0 .. s - 1 /\ r + (n + j) = r + n + j
          /\ g + 1 + (n + j) = g + n + 1 + j
      BY <1>2
    <3>2. b.data[r + (n + j)] = g + 1 + (n + j)
      BY <1>5, <3>1
    <3>3. QED BY <3>1, <3>2
  <2>3. QED BY <1>1, <1>4, <1>8, <2>1, <2>2 DEF Pending
<1>12. Len(c.given) <= c.taken
  <2>1. g + n <= t
    BY <1>2, <1>5
  <2>2. QED BY <1>1, <1>4, <1>8, <2>1
<1>13. QED BY <1>1, <1>4, <1>8, <1>9, <1>10, <1>11, <1>12 DEF BufferInv, c, t, g, h

LEMMA DeliverInv ==
  ASSUME NEW b, BufferInv(b), Pending(b), NEW n \in 1 .. b.to_send
  PROVE  /\ BufferInv(Deliver(b, n))
         /\ Pending(Deliver(b, n))
         /\ Deliver(b, n).taken = b.taken
         /\ Len(Deliver(b, n).given) = Len(b.given) + n
<1> DEFINE c == Take(b, n)
<1>1. CASE c.w_offset # 0 /\ c.to_send = 0
  <2>1. Deliver(b, n) = ResetBuffer(c)
    BY <1>1 DEF Deliver
  <2>2. BufferInv(c) /\ Pending(c)
    BY TakeInv
  <2>3. ResetBuffer(c).to_send = 0
    BY <2>2 DEF ResetBuffer, BufferInv, BufferType
  <2>4. BufferInv(ResetBuffer(c))
    BY <2>2, ResetBufferInv
  <2>5. Pending(ResetBuffer(c))
    BY <2>2, <2>3, <1>1, ResetBufferInv DEF Pending
  <2>6. QED BY <2>1, <2>4, <2>5, TakeInv, ResetBufferInv
<1>2. CASE ~(c.w_offset # 0 /\ c.to_send = 0)
  BY <1>2, TakeInv DEF Deliver
<1>3. QED BY <1>1, <1>2
-----------------------------------------------------------------------------
(* Peers. *)

LEMMA StepRefl ==
  ASSUME NEW p
  PROVE  PeerStep(p, p)
  BY DEF PeerStep, RelayStep, PeerInv, BufferInv, BufferType

LEMMA StepTrans ==
  ASSUME NEW p, NEW q, NEW r, PeerStep(p, q), PeerStep(q, r)
  PROVE  PeerStep(p, r)
<1> SUFFICES ASSUME PeerInv(p)
             PROVE  /\ PeerInv(r)
                    /\ RelayStep(p.forServer, p.server, r.forServer, r.server)
                    /\ RelayStep(p.forClient, p.client, r.forClient, r.client)
  BY DEF PeerStep
<1>1. /\ PeerInv(q) /\ PeerInv(r)
      /\ RelayStep(p.forServer, p.server, q.forServer, q.server)
      /\ RelayStep(p.forClient, p.client, q.forClient, q.client)
      /\ RelayStep(q.forServer, q.server, r.forServer, r.server)
      /\ RelayStep(q.forClient, q.client, r.forClient, r.client)
  BY DEF PeerStep
<1>2. ASSUME NEW a, NEW b, NEW c, NEW i, NEW j, NEW k,
             BufferInv(a), BufferInv(b), BufferInv(c),
             RelayStep(a, i, b, j), RelayStep(b, j, c, k)
      PROVE  RelayStep(a, i, c, k)
  <2>1. /\ a.taken \in Nat /\ b.taken \in Nat /\ c.taken \in Nat
        /\ Len(a.given) \in Nat /\ Len(b.given) \in Nat /\ Len(c.given) \in Nat
    BY <1>2, BufferFields, LenProperties
  <2>2. a.taken <= c.taken /\ Len(a.given) <= Len(c.given)
    BY <1>2, <2>1 DEF RelayStep
  <2>3. ~i => ~k /\ c.given = a.given
    BY <1>2 DEF RelayStep
  <2>4. QED BY <2>2, <2>3 DEF RelayStep
<1>3. /\ BufferInv(p.forServer) /\ BufferInv(q.forServer) /\ BufferInv(r.forServer)
      /\ BufferInv(p.forClient) /\ BufferInv(q.forClient) /\ BufferInv(r.forClient)
  BY <1>1 DEF PeerInv
<1>4. QED BY <1>1, <1>2, <1>3

LEMMA PostStep ==
  ASSUME NEW p, NEW m \in Status
  PROVE  PeerStep(p, Post(p, m))
<1> SUFFICES ASSUME PeerInv(p) PROVE PeerStep(p, Post(p, m))
  BY DEF PeerStep
<1> DEFINE q == Post(p, m)
<1>1. p \in PeerType
  BY DEF PeerInv
<1>2. Append(p.posted, m) \in Seq(Status)
  BY <1>1, AppendProperties DEF PeerType
<1>3. q \in PeerType
  BY <1>1, <1>2 DEF Post, PeerType
<1>4. /\ q.client = p.client /\ q.server = p.server
      /\ q.forServer = p.forServer /\ q.forClient = p.forClient
  BY <1>1 DEF Post, PeerType
<1> HIDE DEF q
<1>5. PeerInv(q)
  BY <1>3, <1>4 DEF PeerInv
<1>6. PeerStep(p, p)
  BY StepRefl
<1>7. QED BY <1>4, <1>5, <1>6 DEF PeerStep, q

LEMMA DropClientStep ==
  ASSUME NEW p
  PROVE  PeerStep(p, DropClient(p))
<1> SUFFICES ASSUME PeerInv(p) PROVE PeerStep(p, DropClient(p))
  BY DEF PeerStep
<1> DEFINE q == DropClient(p)
<1>1. p \in PeerType /\ BufferInv(p.forServer) /\ BufferInv(p.forClient)
  BY DEF PeerInv
<1>2. BufferInv(ResetBuffer(p.forClient))
  BY <1>1, ResetBufferInv
<1>3. q \in PeerType
  BY <1>1, <1>2 DEF DropClient, PeerType, BufferInv
<1>4. /\ ~q.client /\ q.server = p.server
      /\ q.forServer = p.forServer /\ q.forClient = ResetBuffer(p.forClient)
  BY <1>1 DEF DropClient, PeerType
<1> HIDE DEF q
<1>5. PeerInv(q)
  BY <1>1, <1>2, <1>3, <1>4 DEF PeerInv
<1>6. PeerStep(p, p)
  BY StepRefl
<1>7. RelayStep(p.forClient, p.client, q.forClient, q.client)
  BY <1>1, <1>4, <1>6, ResetBufferInv DEF PeerStep, RelayStep
<1>8. QED BY <1>4, <1>5, <1>6, <1>7 DEF PeerStep, q

LEMMA DropServerStep ==
  ASSUME NEW p
  PROVE  PeerStep(p, DropServer(p))
<1> SUFFICES ASSUME PeerInv(p) PROVE PeerStep(p, DropServer(p))
  BY DEF PeerStep
<1> DEFINE q == DropServer(p)
<1>1. p \in PeerType /\ BufferInv(p.forServer) /\ BufferInv(p.forClient)
  BY DEF PeerInv
<1>2. BufferInv(ResetBuffer(p.forServer))
  BY <1>1, ResetBufferInv
<1>3. q \in PeerType
  BY <1>1, <1>2 DEF DropServer, PeerType, BufferInv
<1>4. /\ ~q.server /\ q.client = p.client
      /\ q.forClient = p.forClient /\ q.forServer = ResetBuffer(p.forServer)
  BY <1>1 DEF DropServer, PeerType
<1> HIDE DEF q
<1>5. PeerInv(q)
  BY <1>1, <1>2, <1>3, <1>4 DEF PeerInv
<1>6. PeerStep(p, p)
  BY StepRefl
<1>7. RelayStep(p.forServer, p.server, q.forServer, q.server)
  BY <1>1, <1>4, <1>6, ResetBufferInv DEF PeerStep, RelayStep
<1>8. QED BY <1>4, <1>5, <1>6, <1>7 DEF PeerStep, q

LEMMA CloseClientStep ==
  ASSUME NEW p
  PROVE  PeerStep(p, CloseClient(p))
  BY StepRefl, StepTrans, DropClientStep, DropServerStep DEF CloseClient

LEMMA CloseServerStep ==
  ASSUME NEW p
  PROVE  PeerStep(p, CloseServer(p))
  BY StepRefl, StepTrans, DropClientStep, DropServerStep DEF CloseServer

LEMMA CloseStep ==
  ASSUME NEW p
  PROVE  PeerStep(p, Close(p)) /\ PeerStep(p, ClosePInfo(p))
<1>1. PeerStep(p, Close(p))
  BY CloseClientStep, CloseServerStep, StepTrans DEF Close
<1>2. "SERVER_DISCONNECTED_OK" \in Status
  BY DEF Status
<1>3. QED BY <1>1, <1>2, PostStep, StepTrans DEF ClosePInfo
-----------------------------------------------------------------------------
(* Transfers. *)

LEMMA ForServerStep ==
  ASSUME NEW p, NEW b,
         PeerInv(p) => /\ BufferInv(b)
                       /\ p.server => Pending(b)
                       /\ RelayStep(p.forServer, p.server, b, p.server)
  PROVE  PeerStep(p, [p EXCEPT !.forServer = b])
<1> SUFFICES ASSUME PeerInv(p) PROVE PeerStep(p, [p EXCEPT !.forServer = b])
  BY DEF PeerStep
<1> DEFINE q == [p EXCEPT !.forServer = b]
<1>1. p \in PeerType /\ BufferInv(b)
  BY DEF PeerInv
<1>2. q \in PeerType
  BY <1>1 DEF PeerType, BufferInv
<1>3. /\ q.client = p.client /\ q.server = p.server
      /\ q.forServer = b /\ q.forClient = p.forClient
  BY <1>1 DEF PeerType
<1> HIDE DEF q
<1>4. PeerInv(q)
  BY <1>1, <1>2, <1>3 DEF PeerInv
<1>5. PeerStep(p, p)
  BY StepRefl
<1>6. QED BY <1>3, <1>4, <1>5 DEF PeerStep, q

LEMMA ForClientStep ==
  ASSUME NEW p, NEW b,
         PeerInv(p) => /\ BufferInv(b)
                       /\ p.client => Pending(b)
                       /\ RelayStep(p.forClient, p.client, b, p.client)
  PROVE  PeerStep(p, [p EXCEPT !.forClient = b])
<1> SUFFICES ASSUME PeerInv(p) PROVE PeerStep(p, [p EXCEPT !.forClient = b])
  BY DEF PeerStep
<1> DEFINE q == [p EXCEPT !.forClient = b]
<1>1. p \in PeerType /\ BufferInv(b)
  BY DEF PeerInv
<1>2. q \in PeerType
  BY <1>1 DEF PeerType, BufferInv
<1>3. /\ q.client = p.client /\ q.server = p.server
      /\ q.forClient = b /\ q.forServer = p.forServer
  BY <1>1 DEF PeerType
<1> HIDE DEF q
<1>4. PeerInv(q)
  BY <1>1, <1>2, <1>3 DEF PeerInv
<1>5. PeerStep(p, p)
  BY StepRefl
<1>6. QED BY <1>3, <1>4, <1>5 DEF PeerStep, q

(* A read and a delivery move one direction as the relay does. *)
LEMMA ReceiveRelays ==
  ASSUME NEW b, BufferInv(b), NEW n \in 1 .. b.to_receive, NEW o
  PROVE  RelayStep(b, o, Receive(b, n), o)
<1>1. b.taken <= b.taken + n /\ Len(b.given) <= Len(b.given)
  BY BufferFields, LenProperties
<1>2. QED BY <1>1, ReceiveInv DEF RelayStep

LEMMA DeliverRelays ==
  ASSUME NEW b, BufferInv(b), Pending(b), NEW n \in 1 .. b.to_send
  PROVE  RelayStep(b, TRUE, Deliver(b, n), TRUE)
<1>1. b.taken <= b.taken /\ Len(b.given) <= Len(b.given) + n
  BY BufferFields, LenProperties
<1>2. QED BY <1>1, DeliverInv DEF RelayStep

LEMMA ClientReadStep ==
  ASSUME NEW p, PeerInv(p),
         NEW ret \in ReceiveNB(p.forServer.to_receive,
                               StreamLength - p.forServer.taken)
  PROVE  PeerStep(p, ClientRead(p, ret))
<1>1. CASE ret > 0
  <2>1. BufferInv(p.forServer) /\ ret \in 1 .. p.forServer.to_receive
    BY <1>1 DEF PeerInv, ReceiveNB
  <2>2. PeerStep(p, [p EXCEPT !.forServer = Receive(p.forServer, ret)])
    BY <2>1, ForServerStep, ReceiveInv, ReceiveRelays DEF PeerInv
  <2>3. QED BY <1>1, <2>2 DEF ClientRead, ReceiveNB
<1>2. CASE ret = 0
  BY <1>2, StepRefl DEF ClientRead
<1>3. CASE ret < 0
  <2>1. PICK m \in Status : ClientRead(p, ret) = Post(CloseClient(p), m)
    BY <1>3 DEF ClientRead, ReceiveNB, Status
  <2>2. QED BY <2>1, CloseClientStep, PostStep, StepTrans
<1>4. QED BY <1>1, <1>2, <1>3 DEF ReceiveNB

LEMMA ServerReadStep ==
  ASSUME NEW p, PeerInv(p),
         NEW ret \in ReceiveNB(p.forClient.to_receive,
                               StreamLength - p.forClient.taken)
  PROVE  PeerStep(p, ServerRead(p, ret))
<1>1. CASE ret > 0
  <2>1. BufferInv(p.forClient) /\ ret \in 1 .. p.forClient.to_receive
    BY <1>1 DEF PeerInv, ReceiveNB
  <2>2. PeerStep(p, [p EXCEPT !.forClient = Receive(p.forClient, ret)])
    BY <2>1, ForClientStep, ReceiveInv, ReceiveRelays DEF PeerInv
  <2>3. QED BY <1>1, <2>2 DEF ServerRead, ReceiveNB
<1>2. CASE ret = 0
  BY <1>2, StepRefl DEF ServerRead
<1>3. CASE ret < 0
  <2>1. PICK m \in Status : ServerRead(p, ret) = Post(CloseServer(p), m)
    BY <1>3 DEF ServerRead, ReceiveNB, Status
  <2>2. QED BY <2>1, CloseServerStep, PostStep, StepTrans
<1>4. QED BY <1>1, <1>2, <1>3 DEF ReceiveNB

LEMMA WrittenStep ==
  ASSUME NEW p
  PROVE  PeerStep(p, ClientWritten(p)) /\ PeerStep(p, ServerWritten(p))
<1>1. "PEER_CONNECTION_CANCELLED" \in Status
  BY DEF Status
<1>2. QED
  BY <1>1, StepRefl, StepTrans, PostStep, CloseClientStep, CloseServerStep
  DEF ClientWritten, ServerWritten

LEMMA ClientWriteStep ==
  ASSUME NEW p, PeerInv(p), p.client,
         NEW ret \in SendNB(p.forClient.to_send)
  PROVE  PeerStep(p, ClientWrite(p, ret))
<1>1. CASE ret > 0
  <2> DEFINE q == [p EXCEPT !.forClient = Deliver(p.forClient, ret)]
  <2>1. /\ BufferInv(p.forClient) /\ Pending(p.forClient)
        /\ ret \in 1 .. p.forClient.to_send
        /\ p.client = TRUE
    BY <1>1 DEF PeerInv, SendNB, PeerType
  <2>2. PeerStep(p, q)
    BY <2>1, ForClientStep, DeliverInv, DeliverRelays
  <2>3. ClientWrite(p, ret) = ClientWritten(q)
    BY <1>1 DEF ClientWrite, SendNB
  <2>4. QED BY <2>2, <2>3, WrittenStep, StepTrans
<1>2. CASE ret = 0
  BY <1>2, StepRefl DEF ClientWrite
<1>3. CASE ret < 0
  <2>1. PICK m \in Status : ClientWrite(p, ret) = Post(CloseClient(p), m)
    BY <1>3 DEF ClientWrite, SendNB, Status
  <2>2. QED BY <2>1, CloseClientStep, PostStep, StepTrans
<1>4. QED BY <1>1, <1>2, <1>3 DEF SendNB

LEMMA ServerWriteStep ==
  ASSUME NEW p, PeerInv(p), p.server,
         NEW ret \in SendNB(p.forServer.to_send)
  PROVE  PeerStep(p, ServerWrite(p, ret))
<1>1. CASE ret > 0
  <2> DEFINE q == [p EXCEPT !.forServer = Deliver(p.forServer, ret)]
  <2>1. /\ BufferInv(p.forServer) /\ Pending(p.forServer)
        /\ ret \in 1 .. p.forServer.to_send
        /\ p.server = TRUE
    BY <1>1 DEF PeerInv, SendNB, PeerType
  <2>2. PeerStep(p, q)
    BY <2>1, ForServerStep, DeliverInv, DeliverRelays
  <2>3. ServerWrite(p, ret) = ServerWritten(q)
    BY <1>1 DEF ServerWrite, SendNB
  <2>4. QED BY <2>2, <2>3, WrittenStep, StepTrans
<1>2. CASE ret = 0
  BY <1>2, StepRefl DEF ServerWrite
<1>3. CASE ret < 0
  <2>1. PICK m \in Status : ServerWrite(p, ret) = Post(CloseServer(p), m)
    BY <1>3 DEF ServerWrite, SendNB, Status
  <2>2. QED BY <2>1, CloseServerStep, PostStep, StepTrans
<1>4. QED BY <1>1, <1>2, <1>3 DEF SendNB

LEMMA TransferSteps ==
  ASSUME NEW p, PeerInv(p)
  PROVE  /\ \A q \in GetMissingDataFromClient(p) : PeerStep(p, q)
         /\ \A q \in GetMissingDataFromServer(p) : PeerStep(p, q)
         /\ \A q \in SendMissingDataToClient(p) : PeerStep(p, q)
         /\ \A q \in SendMissingDataToServer(p) : PeerStep(p, q)
<1>1. \A q \in GetMissingDataFromClient(p) : PeerStep(p, q)
  BY ClientReadStep, StepRefl DEF GetMissingDataFromClient
<1>2. \A q \in GetMissingDataFromServer(p) : PeerStep(p, q)
  BY ServerReadStep, StepRefl DEF GetMissingDataFromServer
<1>3. \A q \in SendMissingDataToClient(p) : PeerStep(p, q)
  BY ClientWriteStep, StepRefl DEF SendMissingDataToClient
<1>4. \A q \in SendMissingDataToServer(p) : PeerStep(p, q)
  BY ServerWriteStep, StepRefl DEF SendMissingDataToServer
<1>5. QED BY <1>1, <1>2, <1>3, <1>4
-----------------------------------------------------------------------------
(* The methods the loop calls. *)

LEMMA FaultStep ==
  ASSUME NEW p, PeerInv(p)
  PROVE  PeerStep(p, [p EXCEPT !.faulted = TRUE])
<1> DEFINE q == [p EXCEPT !.faulted = TRUE]
<1>1. p \in PeerType
  BY DEF PeerInv
<1>2. q \in PeerType
  BY <1>1 DEF PeerType
<1>3. /\ q.client = p.client /\ q.server = p.server
      /\ q.forServer = p.forServer /\ q.forClient = p.forClient
  BY <1>1 DEF PeerType
<1> HIDE DEF q
<1>4. PeerInv(q)
  BY <1>2, <1>3 DEF PeerInv
<1>5. QED BY <1>3, <1>4, StepRefl DEF PeerStep, q

LEMMA ConnectStep ==
  ASSUME NEW p, PeerInv(p)
  PROVE  PeerStep(p, Connect(p))
<1> DEFINE q == [p EXCEPT !.serverConnected = TRUE]
<1>1. p \in PeerType
  BY DEF PeerInv
<1>2. q \in PeerType
  BY <1>1 DEF PeerType
<1>3. /\ q.client = p.client /\ q.server = p.server
      /\ q.forServer = p.forServer /\ q.forClient = p.forClient
  BY <1>1 DEF PeerType
<1>4. Connect(p) = Post(q, "CONNECTION_ESTABLISHED")
  BY DEF Connect
<1>5. "CONNECTION_ESTABLISHED" \in Status
  BY DEF Status
<1> HIDE DEF q
<1>6. PeerInv(q)
  BY <1>2, <1>3 DEF PeerInv
<1>7. PeerStep(p, q)
  BY <1>3, <1>6, StepRefl DEF PeerStep
<1>8. QED BY <1>4, <1>5, <1>7, PostStep, StepTrans

(* The end of a flush: the last socket is closed once nothing is pending. *)
LEMMA CancelStep ==
  ASSUME NEW p
  PROVE  /\ PeerStep(p, Post(CloseClient(p), "PEER_CONNECTION_CANCELLED"))
         /\ PeerStep(p, Post(CloseServer(p), "PEER_CONNECTION_CANCELLED"))
<1>1. "PEER_CONNECTION_CANCELLED" \in Status
  BY DEF Status
<1>2. QED BY <1>1, CloseClientStep, CloseServerStep, PostStep, StepTrans

LEMMA ServeStep ==
  ASSUME NEW p, PeerInv(p), NEW setr, NEW setw
  PROVE  /\ \A q \in ServeClient(p, setr, setw) : PeerStep(p, q)
         /\ \A q \in ServeServer(p, setr, setw) : PeerStep(p, q)
<1>1. \A q \in GetMissingDataFromClient(p) :
        \A r \in SendMissingDataToServer(q) : PeerStep(p, r)
  <2> TAKE q \in GetMissingDataFromClient(p)
  <2>1. PeerStep(p, q) /\ PeerInv(q)
    BY TransferSteps DEF PeerStep
  <2>2. \A r \in SendMissingDataToServer(q) : PeerStep(q, r)
    BY <2>1, TransferSteps
  <2>3. QED BY <2>1, <2>2, StepTrans
<1>2. \A q \in GetMissingDataFromServer(p) :
        \A r \in SendMissingDataToClient(q) : PeerStep(p, r)
  <2> TAKE q \in GetMissingDataFromServer(p)
  <2>1. PeerStep(p, q) /\ PeerInv(q)
    BY TransferSteps DEF PeerStep
  <2>2. \A r \in SendMissingDataToClient(q) : PeerStep(q, r)
    BY <2>1, TransferSteps
  <2>3. QED BY <2>1, <2>2, StepTrans
<1>3. \A q \in ServeClient(p, setr, setw) : PeerStep(p, q)
  BY <1>1, TransferSteps, StepRefl DEF ServeClient
<1>4. \A q \in ServeServer(p, setr, setw) : PeerStep(p, q)
  BY <1>2, TransferSteps, StepRefl, FaultStep DEF ServeServer
<1>5. QED BY <1>3, <1>4

LEMMA FlushStep ==
  ASSUME NEW p, PeerInv(p), NEW setw
  PROVE  /\ \A q \in FlushClient(p, setw) : PeerStep(p, q)
         /\ \A q \in FlushServer(p, setw) : PeerStep(p, q)
<1>1. \A q \in IF "client" \in setw THEN SendMissingDataToClient(p) ELSE {p} :
        PeerStep(p, q)
  BY TransferSteps, StepRefl
<1>2. \A q \in IF "server" \in setw THEN SendMissingDataToServer(p) ELSE {p} :
        PeerStep(p, q)
  BY TransferSteps, StepRefl
<1>3. \A q \in FlushClient(p, setw) : PeerStep(p, q)
  BY <1>1, CancelStep, StepTrans DEF FlushClient
<1>4. \A q \in FlushServer(p, setw) : PeerStep(p, q)
  BY <1>2, CancelStep, StepTrans DEF FlushServer
<1>5. QED BY <1>3, <1>4

LEMMA ManageConnectionsStep ==
  ASSUME NEW p, PeerInv(p), NEW setr, NEW setw
  PROVE  \A q \in ManageConnections(p, setr, setw) : PeerStep(p, q)
<1>1. \A q \in ServeClient(p, setr, setw) :
        \A r \in ServeServer(q, setr, setw) : PeerStep(p, r)
  <2> TAKE q \in ServeClient(p, setr, setw)
  <2>1. PeerStep(p, q) /\ PeerInv(q)
    BY ServeStep DEF PeerStep
  <2>2. \A r \in ServeServer(q, setr, setw) : PeerStep(q, r)
    BY <2>1, ServeStep
  <2>3. QED BY <2>1, <2>2, StepTrans
<1>2. QED BY <1>1, FlushStep, StepRefl DEF ManageConnections

LEMMA ManageConnectingStep ==
  ASSUME NEW p, PeerInv(p), NEW setr, NEW setw
  PROVE  \A o \in ManageConnectingPeer(p, setr, setw) :
           PeerStep(p, o.peer) /\ o.changed \in BOOLEAN
<1>1. \A q \in IF "client" \in setr THEN GetMissingDataFromClient(p) ELSE {p} :
        PeerStep(p, q) /\ PeerStep(p, Connect(q))
  <2> TAKE q \in IF "client" \in setr THEN GetMissingDataFromClient(p) ELSE {p}
  <2>1. PeerStep(p, q) /\ PeerInv(q)
    BY TransferSteps, StepRefl DEF PeerStep
  <2>2. QED BY <2>1, ConnectStep, StepTrans
<1>2. \A q \in IF "client" \in setw THEN SendMissingDataToClient(p) ELSE {p} :
        /\ PeerStep(p, q)
        /\ PeerStep(p, Post(CloseClient(q), "PEER_CONNECTION_CANCELLED"))
  BY TransferSteps, StepRefl, CancelStep, StepTrans
<1>3. ASSUME NEW o \in ManageConnectingPair(p, setr, setw)
      PROVE  PeerStep(p, o.peer) /\ o.changed \in BOOLEAN
  <2>1. PICK q \in IF "client" \in setr THEN GetMissingDataFromClient(p) ELSE {p} :
          o = IF q.server /\ "server" \in setw
              THEN [peer |-> Connect(q), changed |-> TRUE]
              ELSE [peer |-> q, changed |-> FALSE]
    BY Zenon DEF ManageConnectingPair
  <2>2. o.peer \in {Connect(q), q} /\ o.changed \in BOOLEAN
    BY <2>1
  <2>3. PeerStep(p, q) /\ PeerStep(p, Connect(q))
    BY <1>1
  <2>4. QED BY <2>2, <2>3
<1>4. ASSUME NEW o \in ManageConnectingClient(p, setw)
      PROVE  PeerStep(p, o.peer) /\ o.changed \in BOOLEAN
  <2> DEFINE closed(q) == Post(CloseClient(q), "PEER_CONNECTION_CANCELLED")
  <2>1. PICK q \in IF "client" \in setw THEN SendMissingDataToClient(p) ELSE {p} :
          o = IF q.forClient.to_send = 0
              THEN [peer |-> closed(q), changed |-> TRUE]
              ELSE [peer |-> q, changed |-> FALSE]
    BY Zenon DEF ManageConnectingClient
  <2>2. o.peer \in {closed(q), q} /\ o.changed \in BOOLEAN
    BY <2>1
  <2>3. PeerStep(p, q) /\ PeerStep(p, closed(q))
    BY <1>2
  <2>4. QED BY <2>2, <2>3
<1>5. ASSUME NEW o \in ManageConnectingPeer(p, setr, setw)
      PROVE  PeerStep(p, o.peer) /\ o.changed \in BOOLEAN
  <2> DEFINE closed == Post(CloseServer(p), "PEER_CONNECTION_CANCELLED")
  <2>1. CASE o \in ManageConnectingPair(p, setr, setw)
    BY <1>3, <2>1
  <2>2. CASE o \in ManageConnectingClient(p, setw)
    BY <1>4, <2>2
  <2>3. CASE o = [peer |-> closed, changed |-> FALSE]
    <3>1. o.peer = closed /\ o.changed = FALSE
      BY <2>3
    <3>2. QED BY <3>1, CancelStep
  <2>4. CASE o = [peer |-> p, changed |-> FALSE]
    <3>1. o.peer = p /\ o.changed = FALSE
      BY <2>4
    <3>2. QED BY <3>1, StepRefl
  <2>5. QED BY <1>5, <2>1, <2>2, <2>3, <2>4, Zenon DEF ManageConnectingPeer
<1>6. QED BY <1>5

LEMMA CheckPeersStep ==
  ASSUME NEW p, NEW bad
  PROVE  PeerStep(p, CheckPeers(p, bad))
<1>1. {"SERVER_CONNECTION_LOST", "CLIENT_CONNECTION_LOST"} \subseteq Status
  BY DEF Status
<1>2. \A q : PeerStep(q, CheckServer(q, bad)) /\ PeerStep(q, CheckClient(q, bad))
  BY <1>1, StepRefl, StepTrans, PostStep, CloseClientStep, CloseServerStep
  DEF CheckServer, CheckClient
<1>3. QED BY <1>2, StepTrans DEF CheckPeers
-----------------------------------------------------------------------------
(* The specification. *)

(* The inductive invariant. *)
Inv ==
  /\ PeerInv(peer)
  /\ list \in {"connecting", "connected", "deleted"}
  /\ kicks \in 0 .. MaxKicks

LEMMA InitInv == Init => Inv
<1> SUFFICES ASSUME Init PROVE Inv
  OBVIOUS
<1> DEFINE b == NewBuffer
<1>1. BufferInv(b) /\ Pending(b)
  BY NewBufferInv
<1>2. b \in BufferType
  BY <1>1 DEF BufferInv
<1> HIDE DEF b
<1>3. peer = [client |-> TRUE, server |-> TRUE, serverConnected |-> FALSE,
              forServer |-> b, forClient |-> b,
              posted |-> <<>>, faulted |-> FALSE]
  BY DEF Init, NewPeer, b
<1>4. peer \in PeerType
  BY <1>2, <1>3 DEF PeerType
<1>5. PeerInv(peer)
  BY <1>1, <1>3, <1>4 DEF PeerInv
<1>6. QED BY <1>5, KicksAssumption DEF Init, Inv

(* Every action moves the peer by methods of PeerOperations. *)
LEMMA NextPeerStep == Inv /\ [Next]_vars => PeerStep(peer, peer')
<1> SUFFICES ASSUME Inv, [Next]_vars PROVE PeerStep(peer, peer')
  OBVIOUS
<1>1. PeerInv(peer)
  BY DEF Inv
<1>2. CASE ManageConnecting
  BY <1>1, <1>2, ManageConnectingStep DEF ManageConnecting
<1>3. CASE Manage
  BY <1>1, <1>3, ManageConnectionsStep DEF Manage
<1>4. CASE Kick
  BY <1>4, CloseStep DEF Kick
<1>5. CASE Check
  BY <1>5, CheckPeersStep DEF Check
<1>6. CASE Delete
  BY <1>6, StepRefl DEF Delete
<1>7. CASE UNCHANGED vars
  BY <1>7, StepRefl DEF vars
<1>8. QED BY <1>2, <1>3, <1>4, <1>5, <1>6, <1>7 DEF Next

LEMMA NextInv == Inv /\ [Next]_vars => Inv'
<1> SUFFICES ASSUME Inv, [Next]_vars PROVE Inv'
  OBVIOUS
<1>1. PeerInv(peer')
  BY NextPeerStep DEF Inv, PeerStep
<1>2. /\ list' \in {"connecting", "connected", "deleted"}
      /\ kicks' \in 0 .. MaxKicks
  BY KicksAssumption
  DEF Inv, Next, ManageConnecting, Manage, Kick, Check, Delete, vars
<1>3. QED BY <1>1, <1>2 DEF Inv

LEMMA SpecInv == Spec => []Inv
  BY InitInv, NextInv, PTL DEF Spec

(* Every variable holds a value of its type in every reachable state. *)
THEOREM TypeCorrect == Spec => []TypeOK
<1>1. Inv => TypeOK
  BY DEF Inv, PeerInv, TypeOK
<1>2. QED BY <1>1, SpecInv, PTL

(* recv() and send() never get a range outside the buffer: the offsets and *)
(* the counters of the four transfers always agree.                        *)
THEOREM BuffersAgree == Spec => []BufferAccounting
<1>1. Inv => BufferAccounting
  BY DEF Inv, PeerInv, BufferInv, BufferAccounting
<1>2. QED BY <1>1, SpecInv, PTL

(* Each socket gets a prefix of what the other one sent: no byte is lost,  *)
(* repeated or moved by partial writes, rewinds and closes.                *)
THEOREM RelayKeepsOrder == Spec => []RelayedInOrder
<1>1. Inv => RelayedInOrder
  BY DEF Inv, PeerInv, BufferInv, RelayedInOrder
<1>2. QED BY <1>1, SpecInv, PTL

(* While a socket is open, what was read for it was sent or is pending.    *)
THEOREM RelayKeepsAll == Spec => []NothingMissing
<1>1. Inv => NothingMissing
  BY DEF Inv, PeerInv, NothingMissing
<1>2. QED BY <1>1, SpecInv, PTL

-----------------------------------------------------------------------------
(* The two directions implement the abstract relay. *)

LEMMA GivenIsPrefix ==
  ASSUME NEW b, BufferInv(b)
  PROVE  b.given = ToServer!Prefix(Len(b.given))
<1>1. b.given \in Seq(Nat) /\ \A i \in 1 .. Len(b.given) : b.given[i] = i
  BY BufferFields
<1>2. b.given = [i \in 1 .. Len(b.given) |-> b.given[i]]
  BY <1>1
<1>3. QED BY <1>1, <1>2, Zenon DEF ToServer!Prefix

(* One step of a peer, seen from one direction: b and c are its buffer     *)
(* before and after, o and r say whether its sink is open.                 *)
LEMMA DirectionMoves ==
  ASSUME NEW b, NEW c, BufferInv(b), BufferInv(c),
         NEW o \in BOOLEAN, NEW r \in BOOLEAN, r => Pending(c),
         RelayStep(b, o, c, r)
  PROVE  \/ /\ o = TRUE
            /\ c.taken \in Nat /\ b.taken <= c.taken
            /\ \E n \in 0 .. c.taken :
                 /\ Len(b.given) <= n
                 /\ r = TRUE => c.taken - n <= STAMBUFFERSOCKET
                 /\ c.given = ToServer!Prefix(n)
         \/ /\ o = FALSE
            /\ c.taken \in Nat /\ b.taken <= c.taken
            /\ c.given = b.given /\ r = o
<1> DEFINE n == Len(c.given)
<1>1. c.taken \in Nat /\ b.taken <= c.taken
  BY BufferFields DEF RelayStep
<1>2. CASE o = FALSE
  BY <1>1, <1>2 DEF RelayStep
<1>3. CASE o = TRUE
  <2>1. n \in 0 .. c.taken
    BY BufferFields, LenProperties
  <2>2. Len(b.given) <= n
    BY DEF RelayStep
  <2>3. ASSUME r = TRUE PROVE c.taken - n <= STAMBUFFERSOCKET
    <3>1. c.taken = n + c.to_send
      BY <2>3 DEF Pending
    <3>2. /\ c.to_send \in Nat /\ c.to_send <= STAMBUFFERSOCKET
          /\ n \in Nat /\ STAMBUFFERSOCKET \in Nat
      BY BufferFields, LenProperties
    <3>3. QED BY <3>1, <3>2
  <2>4. c.given = ToServer!Prefix(n)
    BY GivenIsPrefix
  <2>5. QED BY <1>1, <1>3, <2>1, <2>2, <2>3, <2>4
<1>4. QED BY <1>2, <1>3

LEMMA InitRelays == Init => ToServer!Init /\ ToClient!Init
  BY DEF Init, NewPeer, NewBuffer, ToServer!Init, ToClient!Init

LEMMA NextRelays ==
  Inv /\ [Next]_vars => ToServer!Next /\ ToClient!Next
<1> SUFFICES ASSUME Inv, [Next]_vars PROVE ToServer!Next /\ ToClient!Next
  OBVIOUS
<1>1. PeerInv(peer) /\ PeerInv(peer') /\ PeerStep(peer, peer')
  BY NextPeerStep, NextInv DEF Inv
<1>2. /\ peer.server \in BOOLEAN /\ peer'.server \in BOOLEAN
      /\ peer.client \in BOOLEAN /\ peer'.client \in BOOLEAN
      /\ BufferInv(peer.forServer) /\ BufferInv(peer'.forServer)
      /\ BufferInv(peer.forClient) /\ BufferInv(peer'.forClient)
      /\ peer'.server => Pending(peer'.forServer)
      /\ peer'.client => Pending(peer'.forClient)
  BY <1>1 DEF PeerInv, PeerType
<1>3. /\ RelayStep(peer.forServer, peer.server, peer'.forServer, peer'.server)
      /\ RelayStep(peer.forClient, peer.client, peer'.forClient, peer'.client)
  BY <1>1 DEF PeerStep
<1>4. ToServer!Move \/ ToServer!Discard
  <2> DEFINE b == peer.forServer   c == peer'.forServer
             o == peer.server     r == peer'.server
  <2>1. \/ /\ o = TRUE
           /\ c.taken \in Nat /\ b.taken <= c.taken
           /\ \E n \in 0 .. c.taken :
                /\ Len(b.given) <= n
                /\ r = TRUE => c.taken - n <= STAMBUFFERSOCKET
                /\ c.given = ToServer!Prefix(n)
        \/ /\ o = FALSE
           /\ c.taken \in Nat /\ b.taken <= c.taken
           /\ c.given = b.given /\ r = o
    <3> HIDE DEF b, c, o, r
    <3>1. /\ BufferInv(b) /\ BufferInv(c) /\ o \in BOOLEAN /\ r \in BOOLEAN
          /\ r => Pending(c)
          /\ RelayStep(b, o, c, r)
      BY <1>2, <1>3 DEF b, c, o, r
    <3>2. QED BY <3>1, DirectionMoves, Zenon DEF ToServer!Prefix, ToClient!Prefix
  <2>2. QED BY <1>2, <2>1, Zenon DEF ToServer!Move, ToServer!Discard
<1>5. ToClient!Move \/ ToClient!Discard
  <2> DEFINE b == peer.forClient   c == peer'.forClient
             o == peer.client     r == peer'.client
  <2>1. \/ /\ o = TRUE
           /\ c.taken \in Nat /\ b.taken <= c.taken
           /\ \E n \in 0 .. c.taken :
                /\ Len(b.given) <= n
                /\ r = TRUE => c.taken - n <= STAMBUFFERSOCKET
                /\ c.given = ToClient!Prefix(n)
        \/ /\ o = FALSE
           /\ c.taken \in Nat /\ b.taken <= c.taken
           /\ c.given = b.given /\ r = o
    <3> HIDE DEF b, c, o, r
    <3>1. /\ BufferInv(b) /\ BufferInv(c) /\ o \in BOOLEAN /\ r \in BOOLEAN
          /\ r => Pending(c)
          /\ RelayStep(b, o, c, r)
      BY <1>2, <1>3 DEF b, c, o, r
    <3>2. QED BY <3>1, DirectionMoves, Zenon DEF ToServer!Prefix, ToClient!Prefix
  <2>2. QED BY <1>2, <2>1, Zenon DEF ToClient!Move, ToClient!Discard
<1>6. QED BY <1>4, <1>5 DEF ToServer!Next, ToClient!Next

(* Each direction of a peer is an in-order relay that holds at most one    *)
(* buffer and gives nothing after the close of its sink.                   *)
THEOREM PeerIsRelay == Spec => ImplementsRelay
<1>1. Inv /\ [Next]_vars =>
        [ToServer!Next]_ToServer!relayVars /\ [ToClient!Next]_ToClient!relayVars
  BY NextRelays
<1>2. QED
  BY <1>1, SpecInv, InitRelays, PTL
  DEF Spec, ImplementsRelay, ToServer!Spec, ToClient!Spec

(***************************************************************************)
(* The life of a peer: it implements PeerLife, announces its end and       *)
(* closes no socket before it is flushed.                                  *)
(*                                                                         *)
(* What a method does to the life of a peer is said by Became: the phase   *)
(* it leaves, the messages it posts and, of an established connection, why *)
(* a socket was closed.  The contracts of the methods are composed as they *)
(* are called.                                                             *)
(***************************************************************************)

Cancelled == "PEER_CONNECTION_CANCELLED"

ClientEnds == Life!ClientEnds
ServerEnds == Life!ServerEnds

(* The invariant of a peer, with what is peculiar to a connecting one: its *)
(* sockets are closed together and nothing waits for the client.           *)
LifeInv(p) ==
  /\ PeerInv(p)
  /\ ~p.serverConnected => p.client = p.server /\ p.forClient.to_send = 0

Some(s, M) == \E i \in DOMAIN s : s[i] \in M

Flushed(b) == Len(b.given) = b.taken

(* The method leaves p as q, in phase f, and has posted s.                 *)
Became(p, q, f, s) ==
  /\ LifeInv(q)
  /\ PhaseOf(q) = f
  /\ p.serverConnected => q.serverConnected
  /\ s \in Seq(Status)
  /\ q.posted = p.posted \o s
  /\ p.serverConnected /\ p.server /\ ~q.server =>
       Some(s, ServerEnds) \/ (~q.client /\ Flushed(q.forServer))
  /\ p.serverConnected /\ p.client /\ ~q.client =>
       Some(s, ClientEnds) \/ (~q.server /\ Flushed(q.forClient))
  /\ ~IsActive(p) =>
       ~IsActive(q) /\ q.forServer = p.forServer /\ q.forClient = p.forClient
  /\ (~p.client => ~q.client) /\ (~p.server => ~q.server)

-----------------------------------------------------------------------------
LEMMA Phases ==
  ASSUME NEW p, p \in PeerType
  PROVE  /\ PhaseOf(p) = "over" <=> ~p.client /\ ~p.server
         /\ PhaseOf(p) = "connecting" <=> IsActive(p) /\ ~p.serverConnected
         /\ PhaseOf(p) = "open" <=> p.serverConnected /\ p.client /\ p.server
         /\ PhaseOf(p) = "flushClient" <=>
              p.serverConnected /\ p.client /\ ~p.server
         /\ PhaseOf(p) = "flushServer" <=>
              p.serverConnected /\ ~p.client /\ p.server
         /\ PhaseOf(p) \in {"connecting", "open", "flushClient", "flushServer", "over"}
<1>1. p.client \in BOOLEAN /\ p.server \in BOOLEAN /\ p.serverConnected \in BOOLEAN
  BY DEF PeerType
<1>2. QED BY <1>1 DEF PhaseOf, IsActive

LEMMA PeerFields ==
  ASSUME NEW p, LifeInv(p)
  PROVE  /\ p \in PeerType
         /\ p.client \in BOOLEAN /\ p.server \in BOOLEAN
         /\ p.serverConnected \in BOOLEAN
         /\ p.posted \in Seq(Status)
         /\ BufferInv(p.forServer) /\ BufferInv(p.forClient)
  BY DEF LifeInv, PeerInv, PeerType

LEMMA JoinedSome ==
  ASSUME NEW s \in Seq(Status), NEW t \in Seq(Status), NEW M
  PROVE  /\ s \o t \in Seq(Status)
         /\ Some(s \o t, M) <=> Some(s, M) \/ Some(t, M)
<1> DEFINE u == s \o t
<1>1. /\ u \in Seq(Status) /\ Len(s) \in Nat /\ Len(t) \in Nat
      /\ Len(u) = Len(s) + Len(t)
      /\ \A i \in 1 .. Len(u) : u[i] = IF i <= Len(s) THEN s[i] ELSE t[i - Len(s)]
  BY ConcatProperties, LenProperties
<1>2. DOMAIN u = 1 .. Len(u) /\ DOMAIN s = 1 .. Len(s) /\ DOMAIN t = 1 .. Len(t)
  BY <1>1, LenProperties
<1> HIDE DEF u
<1>3. ASSUME NEW i \in DOMAIN u, u[i] \in M PROVE Some(s, M) \/ Some(t, M)
  <2>1. CASE i <= Len(s)
    BY <1>1, <1>2, <1>3, <2>1 DEF Some
  <2>2. CASE i > Len(s)
    <3>1. i - Len(s) \in DOMAIN t /\ u[i] = t[i - Len(s)]
      BY <1>1, <1>2, <2>2
    <3>2. QED BY <1>3, <3>1 DEF Some
  <2>3. QED BY <1>1, <1>2, <2>1, <2>2
<1>4. ASSUME NEW i \in DOMAIN s, s[i] \in M PROVE Some(u, M)
  <2>1. i \in DOMAIN u /\ u[i] = s[i]
    BY <1>1, <1>2
  <2>2. QED BY <1>4, <2>1 DEF Some
<1>5. ASSUME NEW i \in DOMAIN t, t[i] \in M PROVE Some(u, M)
  <2>1. i + Len(s) \in DOMAIN u /\ u[i + Len(s)] = t[i]
    <3>1. i + Len(s) \in 1 .. Len(u) /\ ~(i + Len(s) <= Len(s)) /\ (i + Len(s)) - Len(s) = i
      BY <1>1, <1>2
    <3>2. QED BY <1>1, <1>2, <3>1
  <2>2. QED BY <1>5, <2>1 DEF Some
<1>6. QED BY <1>1, <1>3, <1>4, <1>5 DEF Some, u

LEMMA BecameSame ==
  ASSUME NEW p, LifeInv(p)
  PROVE  Became(p, p, PhaseOf(p), <<>>)
<1>1. p.posted = p.posted \o <<>> /\ <<>> \in Seq(Status)
  BY PeerFields, ConcatEmptySeq
<1>2. QED BY <1>1 DEF Became

LEMMA BecameTrans ==
  ASSUME NEW p, NEW q, NEW r, NEW f, NEW g, NEW s, NEW t, LifeInv(p),
         Became(p, q, f, s), Became(q, r, g, t)
  PROVE  Became(p, r, g, s \o t)
<1>1. s \in Seq(Status) /\ t \in Seq(Status) /\ p.posted \in Seq(Status)
  BY PeerFields DEF Became
<1>2. r.posted = p.posted \o (s \o t)
  <2>1. r.posted = (p.posted \o s) \o t
    BY DEF Became
  <2> DEFINE m == p.posted
  <2>2. m \in Seq(Status)
    BY <1>1
  <2> HIDE DEF m
  <2>3. (m \o s) \o t = m \o (s \o t)
    BY <1>1, <2>2, ConcatAssociative
  <2>4. QED BY <2>1, <2>3 DEF m
<1>3. /\ s \o t \in Seq(Status)
      /\ Some(s \o t, ServerEnds) <=> Some(s, ServerEnds) \/ Some(t, ServerEnds)
      /\ Some(s \o t, ClientEnds) <=> Some(s, ClientEnds) \/ Some(t, ClientEnds)
  BY <1>1, JoinedSome
<1>4. /\ p.client \in BOOLEAN /\ p.server \in BOOLEAN
      /\ q.client \in BOOLEAN /\ q.server \in BOOLEAN
      /\ r.client \in BOOLEAN /\ r.server \in BOOLEAN
      /\ p.serverConnected \in BOOLEAN /\ q.serverConnected \in BOOLEAN
  BY PeerFields DEF Became
<1>5. p.serverConnected /\ p.server /\ ~r.server =>
        Some(s \o t, ServerEnds) \/ (~r.client /\ Flushed(r.forServer))
  <2>1. CASE q.server
    BY <1>3, <2>1 DEF Became
  <2>2. CASE ~q.server
    BY <1>3, <1>4, <2>2 DEF Became, IsActive
  <2>3. QED BY <2>1, <2>2
<1>6. p.serverConnected /\ p.client /\ ~r.client =>
        Some(s \o t, ClientEnds) \/ (~r.server /\ Flushed(r.forClient))
  <2>1. CASE q.client
    BY <1>3, <2>1 DEF Became
  <2>2. CASE ~q.client
    BY <1>3, <1>4, <2>2 DEF Became, IsActive
  <2>3. QED BY <2>1, <2>2
<1>7. ~IsActive(p) =>
        ~IsActive(r) /\ r.forServer = p.forServer /\ r.forClient = p.forClient
  BY DEF Became
<1>8. QED BY <1>2, <1>3, <1>4, <1>5, <1>6, <1>7 DEF Became
-----------------------------------------------------------------------------
(* The closes. *)

LEMMA DropFields ==
  ASSUME NEW p, p \in PeerType
  PROVE  /\ DropClient(p).client = FALSE
         /\ DropClient(p).server = p.server
         /\ DropClient(p).serverConnected = p.serverConnected
         /\ DropClient(p).posted = p.posted
         /\ DropClient(p).forServer = p.forServer
         /\ DropClient(p).forClient = ResetBuffer(p.forClient)
         /\ DropServer(p).client = p.client
         /\ DropServer(p).server = FALSE
         /\ DropServer(p).serverConnected = p.serverConnected
         /\ DropServer(p).posted = p.posted
         /\ DropServer(p).forServer = ResetBuffer(p.forServer)
         /\ DropServer(p).forClient = p.forClient
  BY DEF DropClient, DropServer, PeerType

LEMMA PostFields ==
  ASSUME NEW p, p \in PeerType, NEW m
  PROVE  /\ Post(p, m).client = p.client
         /\ Post(p, m).server = p.server
         /\ Post(p, m).serverConnected = p.serverConnected
         /\ Post(p, m).posted = Append(p.posted, m)
         /\ Post(p, m).forServer = p.forServer
         /\ Post(p, m).forClient = p.forClient
  BY DEF Post, PeerType

LEMMA ResetFields ==
  ASSUME NEW b
  PROVE  /\ ResetBuffer(b).to_send = 0
         /\ ResetBuffer(b).taken = b.taken
         /\ ResetBuffer(b).given = b.given
         /\ Flushed(b) => Flushed(ResetBuffer(b))
  BY DEF ResetBuffer, Flushed

(* What is drained is flushed. *)
LEMMA DrainedIsFlushed ==
  ASSUME NEW b, BufferInv(b), Pending(b), b.to_send = 0
  PROVE  Flushed(b)
<1>1. b.taken = Len(b.given) + 0 /\ Len(b.given) \in Nat
  BY BufferFields, LenProperties DEF Pending
<1>2. QED BY <1>1 DEF Flushed

LEMMA CloseClientFields ==
  ASSUME NEW p, LifeInv(p), p.client, NEW q, q = CloseClient(p)
  PROVE  /\ LifeInv(q)
         /\ ~q.client /\ (~p.server => ~q.server)
         /\ q.serverConnected = p.serverConnected
         /\ q.posted = p.posted
         /\ ~p.serverConnected => ~q.server
         /\ Flushed(p.forClient) => Flushed(q.forClient)
         /\ p.serverConnected /\ p.server /\ ~q.server => Flushed(q.forServer)
<1> DEFINE d == DropClient(p)
<1>1. /\ p \in PeerType /\ PeerInv(p) /\ p.client \in BOOLEAN /\ p.server \in BOOLEAN
      /\ p.serverConnected \in BOOLEAN /\ BufferInv(p.forServer)
  BY PeerFields DEF LifeInv
<1>2. PeerInv(d) /\ PeerInv(q) /\ d \in PeerType
  BY <1>1, DropClientStep, CloseClientStep DEF PeerStep, PeerInv
<1>3. q = IF d.server /\ (d.forServer.to_send = 0 \/ ~d.serverConnected)
          THEN DropServer(d) ELSE d
  BY <1>1 DEF CloseClient
<1>4. /\ d.client = FALSE /\ d.server = p.server
      /\ d.serverConnected = p.serverConnected /\ d.posted = p.posted
      /\ d.forServer = p.forServer /\ d.forClient = ResetBuffer(p.forClient)
  BY <1>1, DropFields
<1>a. /\ DropServer(d).client = d.client /\ DropServer(d).server = FALSE
      /\ DropServer(d).serverConnected = d.serverConnected
      /\ DropServer(d).posted = d.posted
      /\ DropServer(d).forServer = ResetBuffer(d.forServer)
      /\ DropServer(d).forClient = d.forClient
  BY <1>2, DropFields
<1> HIDE DEF d
<1>5. q.forClient = ResetBuffer(p.forClient)
  BY <1>3, <1>4, <1>a
<1>6. /\ ~q.client /\ (~p.server => ~q.server)
      /\ q.serverConnected = p.serverConnected
      /\ q.posted = p.posted
  BY <1>3, <1>4, <1>a
<1>7. ~p.serverConnected => ~q.server
  BY <1>3, <1>4, <1>a
<1>8. ASSUME p.serverConnected, p.server, ~q.server PROVE Flushed(q.forServer)
  <2>1. q = DropServer(d) /\ p.forServer.to_send = 0
    BY <1>3, <1>4, <1>8
  <2>2. Flushed(p.forServer)
    BY <1>1, <1>8, <2>1, DrainedIsFlushed DEF PeerInv
  <2>3. QED BY <1>4, <1>a, <2>1, <2>2, ResetFields
<1>9. LifeInv(q)
  <2>1. q.client \in BOOLEAN /\ q.server \in BOOLEAN
    BY <1>2 DEF PeerInv, PeerType
  <2>2. QED BY <1>2, <1>5, <1>6, <1>7, <2>1, ResetFields DEF LifeInv
<1>10. QED BY <1>5, <1>6, <1>7, <1>8, <1>9, ResetFields

LEMMA CloseServerFields ==
  ASSUME NEW p, LifeInv(p), p.server, NEW q, q = CloseServer(p)
  PROVE  /\ LifeInv(q)
         /\ ~q.server /\ (~p.client => ~q.client)
         /\ q.serverConnected = p.serverConnected
         /\ q.posted = p.posted
         /\ ~p.serverConnected => ~q.client
         /\ Flushed(p.forServer) => Flushed(q.forServer)
         /\ p.client /\ ~q.client => Flushed(q.forClient)
<1> DEFINE d == DropServer(p)
<1>1. /\ p \in PeerType /\ PeerInv(p) /\ p.client \in BOOLEAN /\ p.server \in BOOLEAN
      /\ p.serverConnected \in BOOLEAN /\ BufferInv(p.forClient)
  BY PeerFields DEF LifeInv
<1>2. PeerInv(d) /\ PeerInv(q) /\ d \in PeerType
  BY <1>1, DropServerStep, CloseServerStep DEF PeerStep, PeerInv
<1>3. q = IF d.client /\ d.forClient.to_send = 0 THEN DropClient(d) ELSE d
  BY <1>1 DEF CloseServer
<1>4. /\ d.server = FALSE /\ d.client = p.client
      /\ d.serverConnected = p.serverConnected /\ d.posted = p.posted
      /\ d.forClient = p.forClient /\ d.forServer = ResetBuffer(p.forServer)
  BY <1>1, DropFields
<1>a. /\ DropClient(d).client = FALSE /\ DropClient(d).server = d.server
      /\ DropClient(d).serverConnected = d.serverConnected
      /\ DropClient(d).posted = d.posted
      /\ DropClient(d).forServer = d.forServer
      /\ DropClient(d).forClient = ResetBuffer(d.forClient)
  BY <1>2, DropFields
<1> HIDE DEF d
<1>5. q.forServer = ResetBuffer(p.forServer)
  BY <1>3, <1>4, <1>a
<1>6. /\ ~q.server /\ (~p.client => ~q.client)
      /\ q.serverConnected = p.serverConnected
      /\ q.posted = p.posted
  BY <1>3, <1>4, <1>a
<1>7. ~p.serverConnected => ~q.client
  BY <1>3, <1>4, <1>a DEF LifeInv
<1>8. ASSUME p.client, ~q.client PROVE Flushed(q.forClient)
  <2>1. q = DropClient(d) /\ p.forClient.to_send = 0
    BY <1>3, <1>4, <1>8
  <2>2. Flushed(p.forClient)
    BY <1>1, <1>8, <2>1, DrainedIsFlushed DEF PeerInv
  <2>3. QED BY <1>4, <1>a, <2>1, <2>2, ResetFields
<1>9. LifeInv(q)
  <2>1. q.client \in BOOLEAN /\ q.server \in BOOLEAN
    BY <1>2 DEF PeerInv, PeerType
  <2>2. q.forClient = p.forClient \/ q.forClient = ResetBuffer(p.forClient)
    BY <1>3, <1>4, <1>a
  <2>3. ~q.serverConnected => q.forClient.to_send = 0
    BY <1>6, <2>2, ResetFields DEF LifeInv
  <2>4. QED BY <1>2, <1>6, <1>7, <2>1, <2>3 DEF LifeInv
<1>10. QED BY <1>5, <1>6, <1>7, <1>8, <1>9, ResetFields

(* A post adds its message and changes nothing else. *)
LEMMA PostBecomes ==
  ASSUME NEW p, LifeInv(p), NEW m \in Status, NEW q, q = Post(p, m)
  PROVE  /\ LifeInv(q)
         /\ q.posted = p.posted \o <<m>>
         /\ q.client = p.client /\ q.server = p.server
         /\ q.serverConnected = p.serverConnected
         /\ q.forServer = p.forServer /\ q.forClient = p.forClient
<1>1. p \in PeerType /\ PeerInv(p) /\ p.posted \in Seq(Status)
  BY PeerFields DEF LifeInv
<1>2. PeerInv(q)
  BY <1>1, PostStep DEF PeerStep
<1>3. q.posted = Append(p.posted, m)
  BY <1>1, PostFields
<1>4. Append(p.posted, m) = p.posted \o <<m>>
  BY <1>1, AppendIsConcat
<1>5. QED BY <1>1, <1>2, <1>3, <1>4, PostFields DEF LifeInv

(* The end of the client: a message of Ends, or nothing was left for it.   *)
LEMMA ClientEnded ==
  ASSUME NEW p, LifeInv(p), p.client, NEW m \in Status,
         \/ ~p.serverConnected
         \/ m \in ClientEnds
         \/ ~p.server /\ Flushed(p.forClient),
         NEW q, q = Post(CloseClient(p), m)
  PROVE  /\ Became(p, q, PhaseOf(q), <<m>>)
         /\ PhaseOf(q) \in IF p.serverConnected /\ p.server
                           THEN {"flushServer", "over"} ELSE {"over"}
<1> DEFINE c == CloseClient(p)
<1>1. /\ LifeInv(c)
      /\ ~c.client /\ (~p.server => ~c.server)
      /\ c.serverConnected = p.serverConnected
      /\ c.posted = p.posted
      /\ ~p.serverConnected => ~c.server
      /\ Flushed(p.forClient) => Flushed(c.forClient)
      /\ p.serverConnected /\ p.server /\ ~c.server => Flushed(c.forServer)
  BY CloseClientFields
<1> HIDE DEF c
<1>2. /\ LifeInv(q)
      /\ q.posted = c.posted \o <<m>>
      /\ q.client = c.client /\ q.server = c.server
      /\ q.serverConnected = c.serverConnected
      /\ q.forServer = c.forServer /\ q.forClient = c.forClient
  <2>1. LifeInv(c) /\ q = Post(c, m)
    BY <1>1 DEF c
  <2>2. QED BY <2>1, PostBecomes
<1>3. /\ p.client \in BOOLEAN /\ p.server \in BOOLEAN /\ p.serverConnected \in BOOLEAN
      /\ q.client \in BOOLEAN /\ q.server \in BOOLEAN /\ q.serverConnected \in BOOLEAN
      /\ q \in PeerType
  BY <1>2, PeerFields
<1>4. <<m>> \in Seq(Status) /\ (m \in ClientEnds => Some(<<m>>, ClientEnds))
  BY DEF Some
<1>5. Became(p, q, PhaseOf(q), <<m>>)
  BY <1>1, <1>2, <1>3, <1>4 DEF Became, IsActive
<1>6. QED BY <1>1, <1>2, <1>3, <1>5, Phases

LEMMA ServerEnded ==
  ASSUME NEW p, LifeInv(p), p.server, NEW m \in Status,
         \/ ~p.serverConnected
         \/ m \in ServerEnds
         \/ ~p.client /\ Flushed(p.forServer),
         NEW q, q = Post(CloseServer(p), m)
  PROVE  /\ Became(p, q, PhaseOf(q), <<m>>)
         /\ PhaseOf(q) \in IF p.serverConnected /\ p.client
                           THEN {"flushClient", "over"} ELSE {"over"}
<1> DEFINE c == CloseServer(p)
<1>1. /\ LifeInv(c)
      /\ ~c.server /\ (~p.client => ~c.client)
      /\ c.serverConnected = p.serverConnected
      /\ c.posted = p.posted
      /\ ~p.serverConnected => ~c.client
      /\ Flushed(p.forServer) => Flushed(c.forServer)
      /\ p.client /\ ~c.client => Flushed(c.forClient)
  BY CloseServerFields
<1> HIDE DEF c
<1>2. /\ LifeInv(q)
      /\ q.posted = c.posted \o <<m>>
      /\ q.client = c.client /\ q.server = c.server
      /\ q.serverConnected = c.serverConnected
      /\ q.forServer = c.forServer /\ q.forClient = c.forClient
  <2>1. LifeInv(c) /\ q = Post(c, m)
    BY <1>1 DEF c
  <2>2. QED BY <2>1, PostBecomes
<1>3. /\ p.client \in BOOLEAN /\ p.server \in BOOLEAN /\ p.serverConnected \in BOOLEAN
      /\ q.client \in BOOLEAN /\ q.server \in BOOLEAN /\ q.serverConnected \in BOOLEAN
      /\ q \in PeerType
  BY <1>2, PeerFields
<1>4. <<m>> \in Seq(Status) /\ (m \in ServerEnds => Some(<<m>>, ServerEnds))
  BY DEF Some
<1>5. Became(p, q, PhaseOf(q), <<m>>)
  BY <1>1, <1>2, <1>3, <1>4 DEF Became, IsActive
<1>6. QED BY <1>1, <1>2, <1>3, <1>5, Phases
-----------------------------------------------------------------------------
(* The transfers. *)

(* A buffer of an open socket may change: the phase is the same.           *)
LEMMA ForServerMoves ==
  ASSUME NEW p, LifeInv(p), IsActive(p), NEW b, NEW q,
         q = [p EXCEPT !.forServer = b], PeerStep(p, q)
  PROVE  Became(p, q, PhaseOf(p), <<>>) /\ q.forServer = b /\ q.server = p.server
                                        /\ q.client = p.client
<1>1. p \in PeerType /\ PeerInv(q) /\ PeerInv(p)
  BY DEF LifeInv, PeerInv, PeerStep
<1>2. /\ q.client = p.client /\ q.server = p.server /\ q.forServer = b
      /\ q.serverConnected = p.serverConnected /\ q.posted = p.posted
      /\ q.forClient = p.forClient
  BY <1>1 DEF PeerType
<1>3. LifeInv(q)
  BY <1>1, <1>2 DEF LifeInv
<1>4. PhaseOf(q) = PhaseOf(p)
  BY <1>2 DEF PhaseOf, IsActive
<1>5. q.posted = p.posted \o <<>> /\ <<>> \in Seq(Status)
  BY <1>2, PeerFields, ConcatEmptySeq
<1>6. QED BY <1>2, <1>3, <1>4, <1>5 DEF Became

LEMMA ForClientMoves ==
  ASSUME NEW p, LifeInv(p), IsActive(p), p.serverConnected, NEW b, NEW q,
         q = [p EXCEPT !.forClient = b], PeerStep(p, q)
  PROVE  Became(p, q, PhaseOf(p), <<>>) /\ q.forClient = b /\ q.server = p.server
                                        /\ q.client = p.client
<1>1. p \in PeerType /\ PeerInv(q) /\ PeerInv(p)
  BY DEF LifeInv, PeerInv, PeerStep
<1>2. /\ q.client = p.client /\ q.server = p.server /\ q.forClient = b
      /\ q.serverConnected = p.serverConnected /\ q.posted = p.posted
      /\ q.forServer = p.forServer
  BY <1>1 DEF PeerType
<1>3. LifeInv(q)
  BY <1>1, <1>2 DEF LifeInv
<1>4. PhaseOf(q) = PhaseOf(p)
  BY <1>2 DEF PhaseOf, IsActive
<1>5. q.posted = p.posted \o <<>> /\ <<>> \in Seq(Status)
  BY <1>2, PeerFields, ConcatEmptySeq
<1>6. QED BY <1>2, <1>3, <1>4, <1>5 DEF Became

LEMMA ClientReads ==
  ASSUME NEW p, LifeInv(p), p.client, p.server,
         NEW q \in GetMissingDataFromClient(p)
  PROVE  \/ Became(p, q, PhaseOf(p), <<>>)
         \/ /\ ~p.serverConnected
            /\ Became(p, q, "over", <<"CONNECTION_FAILED">>)
         \/ /\ p.serverConnected
            /\ \E f \in {"flushServer", "over"}, m \in ClientEnds :
                 Became(p, q, f, <<m>>)
<1>1. CASE q = p
  BY <1>1, BecameSame
<1>2. CASE q # p
  <2> DEFINE n == p.forServer.to_receive
             a == StreamLength - p.forServer.taken
  <2>1. PICK ret \in ReceiveNB(n, a) : q = ClientRead(p, ret)
    BY <1>2 DEF GetMissingDataFromClient
  <2>2. PeerInv(p) /\ BufferInv(p.forServer)
    BY DEF LifeInv, PeerInv
  <2>3. CASE ret > 0
    <3>1. ret \in 1 .. p.forServer.to_receive
      BY <2>3 DEF ReceiveNB
    <3>2. q = [p EXCEPT !.forServer = Receive(p.forServer, ret)]
      BY <2>1, <2>3 DEF ClientRead, ReceiveNB
    <3>3. PeerStep(p, q)
      BY <2>1, <2>2, ClientReadStep
    <3>4. QED BY <3>2, <3>3, ForServerMoves DEF IsActive
  <2>4. CASE ret = 0
    BY <1>2, <2>1, <2>4 DEF ClientRead
  <2>5. CASE ret < 0
    <3> DEFINE m == IF ~p.serverConnected THEN "CONNECTION_FAILED"
                    ELSE IF ret = -2 THEN "CLIENT_DISCONNECTED_OK"
                    ELSE "CLIENT_CONNECTION_LOST"
    <3>1. q = Post(CloseClient(p), m)
      BY <2>1, <2>5 DEF ClientRead, ReceiveNB
    <3>2. /\ m \in Status
          /\ ~p.serverConnected => m = "CONNECTION_FAILED"
          /\ p.serverConnected => m \in ClientEnds
      BY DEF Status, ClientEnds, Life!ClientEnds
    <3> HIDE DEF m
    <3>3. /\ Became(p, q, PhaseOf(q), <<m>>)
          /\ PhaseOf(q) \in IF p.serverConnected /\ p.server
                            THEN {"flushServer", "over"} ELSE {"over"}
      BY <3>1, <3>2, ClientEnded
    <3>4. QED BY <3>2, <3>3
  <2>6. ret > 0 \/ ret = 0 \/ ret < 0
    BY <2>2, BufferFields DEF ReceiveNB
  <2>7. QED BY <2>3, <2>4, <2>5, <2>6
<1>3. QED BY <1>1, <1>2

LEMMA ServerReads ==
  ASSUME NEW p, LifeInv(p), p.serverConnected, p.server,
         NEW q \in GetMissingDataFromServer(p)
  PROVE  \/ Became(p, q, PhaseOf(p), <<>>)
         \/ \E f \in IF p.client THEN {"flushClient", "over"} ELSE {"over"},
               m \in ServerEnds : Became(p, q, f, <<m>>)
<1>1. CASE q = p
  BY <1>1, BecameSame
<1>2. CASE q # p
  <2> DEFINE n == p.forClient.to_receive
             a == StreamLength - p.forClient.taken
  <2>1. PICK ret \in ReceiveNB(n, a) : q = ServerRead(p, ret)
    BY <1>2 DEF GetMissingDataFromServer
  <2>2. PeerInv(p) /\ BufferInv(p.forClient)
    BY DEF LifeInv, PeerInv
  <2>3. CASE ret > 0
    <3>1. ret \in 1 .. p.forClient.to_receive
      BY <2>3 DEF ReceiveNB
    <3>2. q = [p EXCEPT !.forClient = Receive(p.forClient, ret)]
      BY <2>1, <2>3 DEF ServerRead, ReceiveNB
    <3>3. PeerStep(p, q)
      BY <2>1, <2>2, ServerReadStep
    <3>4. QED BY <3>2, <3>3, ForClientMoves DEF IsActive
  <2>4. CASE ret = 0
    BY <1>2, <2>1, <2>4 DEF ServerRead
  <2>5. CASE ret < 0
    <3> DEFINE m == IF ret = -2 THEN "SERVER_DISCONNECTED_OK"
                    ELSE "SERVER_CONNECTION_LOST"
    <3>1. q = Post(CloseServer(p), m)
      BY <2>1, <2>5 DEF ServerRead, ReceiveNB
    <3>2. m \in Status /\ m \in ServerEnds
      BY DEF Status, ServerEnds, Life!ServerEnds
    <3> HIDE DEF m
    <3>3. /\ Became(p, q, PhaseOf(q), <<m>>)
          /\ PhaseOf(q) \in IF p.serverConnected /\ p.client
                            THEN {"flushClient", "over"} ELSE {"over"}
      BY <3>1, <3>2, ServerEnded
    <3>4. QED BY <3>2, <3>3
  <2>6. ret > 0 \/ ret = 0 \/ ret < 0
    BY <2>2, BufferFields DEF ReceiveNB
  <2>7. QED BY <2>3, <2>4, <2>5, <2>6
<1>3. QED BY <1>1, <1>2

LEMMA ClientWrites ==
  ASSUME NEW p, LifeInv(p), p.serverConnected,
         NEW q \in SendMissingDataToClient(p)
  PROVE  \/ Became(p, q, PhaseOf(p), <<>>)
         \/ /\ p.client
            /\ \E f \in IF p.server THEN {"flushServer", "over"} ELSE {"over"} :
                 Became(p, q, f, <<"CLIENT_CONNECTION_LOST">>)
         \/ /\ p.client /\ ~p.server
            /\ Became(p, q, "over", <<Cancelled>>)
<1>1. CASE q = p
  BY <1>1, BecameSame
<1>2. CASE q # p
  <2>1. p.client /\ \E ret \in SendNB(p.forClient.to_send) : q = ClientWrite(p, ret)
    BY <1>2 DEF SendMissingDataToClient
  <2>2. PICK ret \in SendNB(p.forClient.to_send) : q = ClientWrite(p, ret)
    BY <2>1
  <2>3. /\ PeerInv(p) /\ BufferInv(p.forClient) /\ Pending(p.forClient)
        /\ p.client = TRUE
    BY <2>1, PeerFields DEF LifeInv, PeerInv
  <2>4. CASE ret > 0
    <3> DEFINE b == Deliver(p.forClient, ret)
               d == [p EXCEPT !.forClient = b]
    <3>1. ret \in 1 .. p.forClient.to_send
      BY <2>4 DEF SendNB
    <3>2. q = ClientWritten(d)
      BY <2>2, <2>4 DEF ClientWrite, SendNB
    <3>3. PeerStep(p, d)
      BY <2>3, <3>1, ForClientStep, DeliverInv, DeliverRelays
    <3>4. BufferInv(b) /\ Pending(b)
      BY <2>3, <3>1, DeliverInv
    <3> HIDE DEF b
    <3>5. /\ Became(p, d, PhaseOf(p), <<>>) /\ d.forClient = b
          /\ d.server = p.server /\ d.client = p.client
      BY <2>1, <3>3, ForClientMoves DEF IsActive
    <3> HIDE DEF d
    <3>6. CASE ~d.server /\ d.forClient.to_send = 0
      <4>1. q = Post(CloseClient(d), Cancelled)
        BY <3>2, <3>6 DEF ClientWritten, Cancelled
      <4>2. LifeInv(d) /\ Cancelled \in Status /\ d.client
        BY <2>1, <3>5 DEF Became, Status, Cancelled
      <4>3. Flushed(d.forClient)
        BY <3>4, <3>5, <3>6, DrainedIsFlushed
      <4>4. Became(d, q, "over", <<Cancelled>>)
        BY <3>6, <4>1, <4>2, <4>3, ClientEnded
      <4>5. Became(p, q, "over", <<>> \o <<Cancelled>>)
        BY <3>5, <4>4, BecameTrans
      <4>6. <<>> \o <<Cancelled>> = <<Cancelled>>
        OBVIOUS
      <4>7. QED BY <2>1, <3>5, <3>6, <4>5, <4>6
    <3>7. CASE ~(~d.server /\ d.forClient.to_send = 0)
      BY <3>2, <3>5, <3>7 DEF ClientWritten
    <3>8. QED BY <3>6, <3>7
  <2>5. CASE ret = 0
    BY <1>2, <2>2, <2>5 DEF ClientWrite
  <2>6. CASE ret < 0
    <3> DEFINE m == "CLIENT_CONNECTION_LOST"
    <3>1. q = Post(CloseClient(p), m)
      BY <2>2, <2>6 DEF ClientWrite, SendNB
    <3>2. m \in Status /\ m \in ClientEnds
      BY DEF Status, ClientEnds, Life!ClientEnds
    <3> HIDE DEF m
    <3>3. /\ Became(p, q, PhaseOf(q), <<m>>)
          /\ PhaseOf(q) \in IF p.serverConnected /\ p.server
                            THEN {"flushServer", "over"} ELSE {"over"}
      BY <2>1, <3>1, <3>2, ClientEnded
    <3>4. QED BY <2>1, <3>3 DEF m
  <2>7. QED BY <2>4, <2>5, <2>6 DEF SendNB
<1>3. QED BY <1>1, <1>2

LEMMA ServerWrites ==
  ASSUME NEW p, LifeInv(p), p.serverConnected,
         NEW q \in SendMissingDataToServer(p)
  PROVE  \/ Became(p, q, PhaseOf(p), <<>>)
         \/ /\ p.server
            /\ \E f \in IF p.client THEN {"flushClient", "over"} ELSE {"over"} :
                 Became(p, q, f, <<"SERVER_CONNECTION_LOST">>)
         \/ /\ p.server /\ ~p.client
            /\ Became(p, q, "over", <<Cancelled>>)
<1>1. CASE q = p
  BY <1>1, BecameSame
<1>2. CASE q # p
  <2>1. p.server /\ \E ret \in SendNB(p.forServer.to_send) : q = ServerWrite(p, ret)
    BY <1>2 DEF SendMissingDataToServer
  <2>2. PICK ret \in SendNB(p.forServer.to_send) : q = ServerWrite(p, ret)
    BY <2>1
  <2>3. /\ PeerInv(p) /\ BufferInv(p.forServer) /\ Pending(p.forServer)
        /\ p.server = TRUE
    BY <2>1, PeerFields DEF LifeInv, PeerInv
  <2>4. CASE ret > 0
    <3> DEFINE b == Deliver(p.forServer, ret)
               d == [p EXCEPT !.forServer = b]
    <3>1. ret \in 1 .. p.forServer.to_send
      BY <2>4 DEF SendNB
    <3>2. q = ServerWritten(d)
      BY <2>2, <2>4 DEF ServerWrite, SendNB
    <3>3. PeerStep(p, d)
      BY <2>3, <3>1, ForServerStep, DeliverInv, DeliverRelays
    <3>4. BufferInv(b) /\ Pending(b)
      BY <2>3, <3>1, DeliverInv
    <3> HIDE DEF b
    <3>5. /\ Became(p, d, PhaseOf(p), <<>>) /\ d.forServer = b
          /\ d.server = p.server /\ d.client = p.client
      BY <2>1, <3>3, ForServerMoves DEF IsActive
    <3> HIDE DEF d
    <3>6. CASE ~d.client /\ d.forServer.to_send = 0
      <4>1. q = Post(CloseServer(d), Cancelled)
        BY <3>2, <3>6 DEF ServerWritten, Cancelled
      <4>2. LifeInv(d) /\ Cancelled \in Status /\ d.server
        BY <2>1, <3>5 DEF Became, Status, Cancelled
      <4>3. Flushed(d.forServer)
        BY <3>4, <3>5, <3>6, DrainedIsFlushed
      <4>4. Became(d, q, "over", <<Cancelled>>)
        BY <3>6, <4>1, <4>2, <4>3, ServerEnded
      <4>5. Became(p, q, "over", <<>> \o <<Cancelled>>)
        BY <3>5, <4>4, BecameTrans
      <4>6. <<>> \o <<Cancelled>> = <<Cancelled>>
        OBVIOUS
      <4>7. QED BY <2>1, <3>5, <3>6, <4>5, <4>6
    <3>7. CASE ~(~d.client /\ d.forServer.to_send = 0)
      BY <3>2, <3>5, <3>7 DEF ServerWritten
    <3>8. QED BY <3>6, <3>7
  <2>5. CASE ret = 0
    BY <1>2, <2>2, <2>5 DEF ServerWrite
  <2>6. CASE ret < 0
    <3> DEFINE m == "SERVER_CONNECTION_LOST"
    <3>1. q = Post(CloseServer(p), m)
      BY <2>2, <2>6 DEF ServerWrite, SendNB
    <3>2. m \in Status /\ m \in ServerEnds
      BY DEF Status, ServerEnds, Life!ServerEnds
    <3> HIDE DEF m
    <3>3. /\ Became(p, q, PhaseOf(q), <<m>>)
          /\ PhaseOf(q) \in IF p.serverConnected /\ p.client
                            THEN {"flushClient", "over"} ELSE {"over"}
      BY <2>1, <3>1, <3>2, ServerEnded
    <3>4. QED BY <2>1, <3>3 DEF m
  <2>7. QED BY <2>4, <2>5, <2>6 DEF SendNB
<1>3. QED BY <1>1, <1>2
-----------------------------------------------------------------------------
(* The rounds of the loop. *)

LEMMA TwoInARow ==
  ASSUME NEW m, NEW n
  PROVE  <<m>> \o <<n>> = <<m, n>>
<1> DEFINE s == <<m>>
           t == <<n>>
           u == s \o t
           v == <<m, n>>
<1>1. s \in Seq({m, n}) /\ t \in Seq({m, n}) /\ Len(s) = 1 /\ Len(t) = 1
      /\ s[1] = m /\ t[1] = n
  OBVIOUS
<1>a. v \in Seq({m, n}) /\ Len(v) = 2 /\ v[1] = m /\ v[2] = n
  OBVIOUS
<1> HIDE DEF s, t, v
<1>2. /\ u \in Seq({m, n})
      /\ Len(u) = Len(s) + Len(t)
      /\ \A i \in 1 .. Len(s) + Len(t) :
           u[i] = IF i <= Len(s) THEN s[i] ELSE t[i - Len(s)]
  BY <1>1, ConcatProperties
<1> HIDE DEF u
<1>3. Len(u) = 2 /\ u[1] = m /\ u[2] = n
  BY <1>1, <1>2
<1>4. \A i \in 1 .. Len(u) : u[i] = v[i]
  BY <1>3, <1>a
<1>5. u = v
  BY <1>2, <1>3, <1>4, <1>a, SeqEqual
<1>6. QED BY <1>5 DEF u, v, s, t

LEMMA BecameOneByOne ==
  ASSUME NEW p, LifeInv(p), NEW q, NEW r, NEW f, NEW g
  PROVE  /\ \A t : Became(p, q, f, <<>>) /\ Became(q, r, g, t)
                     => Became(p, r, g, t)
         /\ \A s : Became(p, q, f, s) /\ Became(q, r, g, <<>>)
                     => Became(p, r, g, s)
         /\ \A m, n : Became(p, q, f, <<m>>) /\ Became(q, r, g, <<n>>)
                        => Became(p, r, g, <<m, n>>)
<1>1. ASSUME NEW t, Became(p, q, f, <<>>), Became(q, r, g, t)
      PROVE  Became(p, r, g, t)
  <2>1. Became(p, r, g, <<>> \o t)
    BY <1>1, BecameTrans
  <2>2. t \in Seq(Status)
    BY <1>1 DEF Became
  <2>3. QED BY <2>1, <2>2, ConcatEmptySeq
<1>2. ASSUME NEW s, Became(p, q, f, s), Became(q, r, g, <<>>)
      PROVE  Became(p, r, g, s)
  <2>1. Became(p, r, g, s \o <<>>)
    BY <1>2, BecameTrans
  <2>2. s \in Seq(Status)
    BY <1>2 DEF Became
  <2>3. QED BY <2>1, <2>2, ConcatEmptySeq
<1>3. ASSUME NEW m, NEW n, Became(p, q, f, <<m>>), Became(q, r, g, <<n>>)
      PROVE  Became(p, r, g, <<m, n>>)
  <2>1. Became(p, r, g, <<m>> \o <<n>>)
    BY <1>3, BecameTrans
  <2>2. <<m>> \o <<n>> = <<m, n>>
    BY TwoInARow
  <2>3. QED BY <2>1, <2>2
<1>4. QED BY <1>1, <1>2, <1>3

LEMMA BecameIs ==
  ASSUME NEW p, NEW q, NEW f, NEW s, Became(p, q, f, s)
  PROVE  LifeInv(q) /\ PhaseOf(q) = f /\ q \in PeerType
  BY PeerFields DEF Became

LEMMA FaultBecomes ==
  ASSUME NEW p, LifeInv(p), NEW q, q = [p EXCEPT !.faulted = TRUE]
  PROVE  Became(p, q, PhaseOf(p), <<>>)
<1>1. p \in PeerType /\ PeerInv(q)
  BY FaultStep DEF LifeInv, PeerInv, PeerStep
<1>2. /\ q.client = p.client /\ q.server = p.server
      /\ q.serverConnected = p.serverConnected /\ q.posted = p.posted
      /\ q.forClient = p.forClient /\ q.forServer = p.forServer
  BY <1>1 DEF PeerType
<1>3. LifeInv(q)
  BY <1>1, <1>2 DEF LifeInv
<1>4. PhaseOf(q) = PhaseOf(p)
  BY <1>2 DEF PhaseOf, IsActive
<1>5. q.posted = p.posted \o <<>> /\ <<>> \in Seq(Status)
  BY <1>2, PeerFields, ConcatEmptySeq
<1>6. QED BY <1>2, <1>3, <1>4, <1>5 DEF Became, IsActive

(* The client half of a round. *)
LEMMA ServeClientLife ==
  ASSUME NEW p, LifeInv(p), PhaseOf(p) = "open", NEW setr, NEW setw,
         NEW r \in ServeClient(p, setr, setw)
  PROVE  \/ Became(p, r, "open", <<>>)
         \/ \E m \in ClientEnds :
              \/ \E f \in {"flushServer", "over"} : Became(p, r, f, <<m>>)
              \/ Became(p, r, "over", <<m, "SERVER_CONNECTION_LOST">>)
              \/ Became(p, r, "over", <<m, Cancelled>>)
         \/ \E f \in {"flushClient", "over"} :
              Became(p, r, f, <<"SERVER_CONNECTION_LOST">>)
<1>1. p.client /\ p.server /\ p.serverConnected
  BY Phases, PeerFields
<1>2. CASE r \in SendMissingDataToServer(p)
  BY <1>1, <1>2, ServerWrites
<1>3. CASE r = p
  BY <1>3, BecameSame
<1>4. ASSUME NEW q \in GetMissingDataFromClient(p), r \in SendMissingDataToServer(q)
      PROVE  \/ Became(p, r, "open", <<>>)
             \/ \E m \in ClientEnds :
                  \/ \E f \in {"flushServer", "over"} : Became(p, r, f, <<m>>)
                  \/ Became(p, r, "over", <<m, "SERVER_CONNECTION_LOST">>)
                  \/ Became(p, r, "over", <<m, Cancelled>>)
             \/ \E f \in {"flushClient", "over"} :
                  Became(p, r, f, <<"SERVER_CONNECTION_LOST">>)
  <2>1. \/ Became(p, q, "open", <<>>)
        \/ \E m \in ClientEnds : \/ Became(p, q, "flushServer", <<m>>)
                                 \/ Became(p, q, "over", <<m>>)
    BY <1>1, ClientReads
  <2>2. CASE Became(p, q, "open", <<>>)
    <3>1. LifeInv(q) /\ PhaseOf(q) = "open" /\ q.client /\ q.server /\ q.serverConnected
      BY <2>2, BecameIs, Phases
    <3>2. \/ Became(q, r, "open", <<>>)
          \/ \E f \in {"flushClient", "over"} :
               Became(q, r, f, <<"SERVER_CONNECTION_LOST">>)
      BY <1>4, <3>1, ServerWrites
    <3>3. QED BY <2>2, <3>2, BecameOneByOne
  <2>3. ASSUME NEW m \in ClientEnds, Became(p, q, "flushServer", <<m>>)
        PROVE  \/ Became(p, r, "flushServer", <<m>>)
               \/ Became(p, r, "over", <<m, "SERVER_CONNECTION_LOST">>)
               \/ Became(p, r, "over", <<m, Cancelled>>)
    <3>1. /\ LifeInv(q) /\ PhaseOf(q) = "flushServer"
          /\ ~q.client /\ q.server /\ q.serverConnected
      BY <2>3, BecameIs, Phases
    <3>2. \/ Became(q, r, "flushServer", <<>>)
          \/ Became(q, r, "over", <<"SERVER_CONNECTION_LOST">>)
          \/ Became(q, r, "over", <<Cancelled>>)
      BY <1>4, <3>1, ServerWrites
    <3>3. QED BY <2>3, <3>2, BecameOneByOne
  <2>4. ASSUME NEW m \in ClientEnds, Became(p, q, "over", <<m>>)
        PROVE  Became(p, r, "over", <<m>>)
    <3>1. ~q.server
      BY <2>4, BecameIs, Phases
    <3>2. r = q
      BY <1>4, <3>1 DEF SendMissingDataToServer
    <3>3. QED BY <2>4, <3>2
  <2>5. QED BY <2>1, <2>2, <2>3, <2>4
<1>5. \/ r \in SendMissingDataToServer(p)
      \/ r = p
      \/ \E q \in GetMissingDataFromClient(p) : r \in SendMissingDataToServer(q)
  BY DEF ServeClient
<1>6. QED BY <1>2, <1>3, <1>4, <1>5

(* The server half, of a peer that still has its client... *)
LEMMA ServeServerLife ==
  ASSUME NEW p, LifeInv(p), PhaseOf(p) = "open", NEW setr, NEW setw,
         NEW r \in ServeServer(p, setr, setw)
  PROVE  \/ Became(p, r, "open", <<>>)
         \/ \E f \in {"flushServer", "over"} :
              Became(p, r, f, <<"CLIENT_CONNECTION_LOST">>)
         \/ \E n \in ServerEnds :
              \/ \E f \in {"flushClient", "over"} : Became(p, r, f, <<n>>)
              \/ Became(p, r, "over", <<n, "CLIENT_CONNECTION_LOST">>)
              \/ Became(p, r, "over", <<n, Cancelled>>)
<1>1. p.client /\ p.server /\ p.serverConnected
  BY Phases, PeerFields
<1>2. CASE r \in SendMissingDataToClient(p)
  BY <1>1, <1>2, ClientWrites
<1>3. CASE r = p
  BY <1>3, BecameSame
<1>4. ASSUME NEW q \in GetMissingDataFromServer(p), r \in SendMissingDataToClient(q)
      PROVE  \/ Became(p, r, "open", <<>>)
             \/ \E f \in {"flushServer", "over"} :
                  Became(p, r, f, <<"CLIENT_CONNECTION_LOST">>)
             \/ \E n \in ServerEnds :
                  \/ \E f \in {"flushClient", "over"} : Became(p, r, f, <<n>>)
                  \/ Became(p, r, "over", <<n, "CLIENT_CONNECTION_LOST">>)
                  \/ Became(p, r, "over", <<n, Cancelled>>)
  <2>1. \/ Became(p, q, "open", <<>>)
        \/ \E n \in ServerEnds : \/ Became(p, q, "flushClient", <<n>>)
                                 \/ Became(p, q, "over", <<n>>)
    BY <1>1, ServerReads
  <2>2. CASE Became(p, q, "open", <<>>)
    <3>1. LifeInv(q) /\ PhaseOf(q) = "open" /\ q.client /\ q.server /\ q.serverConnected
      BY <2>2, BecameIs, Phases
    <3>2. \/ Became(q, r, "open", <<>>)
          \/ \E f \in {"flushServer", "over"} :
               Became(q, r, f, <<"CLIENT_CONNECTION_LOST">>)
      BY <1>4, <3>1, ClientWrites
    <3>3. QED BY <2>2, <3>2, BecameOneByOne
  <2>3. ASSUME NEW n \in ServerEnds, Became(p, q, "flushClient", <<n>>)
        PROVE  \/ Became(p, r, "flushClient", <<n>>)
               \/ Became(p, r, "over", <<n, "CLIENT_CONNECTION_LOST">>)
               \/ Became(p, r, "over", <<n, Cancelled>>)
    <3>1. /\ LifeInv(q) /\ PhaseOf(q) = "flushClient"
          /\ q.client /\ ~q.server /\ q.serverConnected
      BY <2>3, BecameIs, Phases
    <3>2. \/ Became(q, r, "flushClient", <<>>)
          \/ Became(q, r, "over", <<"CLIENT_CONNECTION_LOST">>)
          \/ Became(q, r, "over", <<Cancelled>>)
      BY <1>4, <3>1, ClientWrites
    <3>3. QED BY <2>3, <3>2, BecameOneByOne
  <2>4. ASSUME NEW n \in ServerEnds, Became(p, q, "over", <<n>>)
        PROVE  Became(p, r, "over", <<n>>)
    <3>1. ~q.client
      BY <2>4, BecameIs, Phases
    <3>2. r = q
      BY <1>4, <3>1 DEF SendMissingDataToClient
    <3>3. QED BY <2>4, <3>2
  <2>5. QED BY <2>1, <2>2, <2>3, <2>4
<1>5. \/ r \in SendMissingDataToClient(p)
      \/ r = p
      \/ \E q \in GetMissingDataFromServer(p) : r \in SendMissingDataToClient(q)
  BY <1>1 DEF ServeServer
<1>6. QED BY <1>2, <1>3, <1>4, <1>5

(* ... and of one that just lost it. *)
LEMMA ServeServerAlone ==
  ASSUME NEW p, LifeInv(p), PhaseOf(p) = "flushServer", NEW setr, NEW setw,
         NEW r \in ServeServer(p, setr, setw)
  PROVE  \/ Became(p, r, "flushServer", <<>>)
         \/ \E n \in ServerEnds : Became(p, r, "over", <<n>>)
<1>1. ~p.client /\ p.server /\ p.serverConnected
  BY Phases, PeerFields
<1>2. CASE r = [p EXCEPT !.faulted = TRUE]
  BY <1>2, FaultBecomes
<1>3. ASSUME NEW q \in GetMissingDataFromServer(p), r \in SendMissingDataToClient(q)
      PROVE  \/ Became(p, r, "flushServer", <<>>)
             \/ \E n \in ServerEnds : Became(p, r, "over", <<n>>)
  <2>1. \/ Became(p, q, "flushServer", <<>>)
        \/ \E n \in ServerEnds : Became(p, q, "over", <<n>>)
    BY <1>1, ServerReads
  <2>2. ~q.client
    BY <2>1, BecameIs, Phases
  <2>3. r = q
    BY <1>3, <2>2 DEF SendMissingDataToClient
  <2>4. QED BY <2>1, <2>3
<1>4. \/ r = [p EXCEPT !.faulted = TRUE]
      \/ \E q \in GetMissingDataFromServer(p) : r \in SendMissingDataToClient(q)
  BY <1>1 DEF ServeServer
<1>5. QED BY <1>2, <1>3, <1>4

-----------------------------------------------------------------------------
(* A round of the loop, as PeerLife has it. *)

Round(p, q) ==
  \E o \in Life!Served(PhaseOf(p)) :
    \E c \in Life!Cancellations(PhaseOf(p), o.phase) :
      Became(p, q, o.phase, o.posts \o c)

LEMMA IdleRound ==
  ASSUME NEW p, p \in PeerType, NEW q, Became(p, q, PhaseOf(p), <<>>)
  PROVE  Round(p, q)
<1> DEFINE f == PhaseOf(p)
           o == Life!Outcome(f, <<>>)
<1>1. o \in Life!Served(f)
  BY DEF Life!Served
<1>2. o.phase = f /\ o.posts = <<>>
  BY DEF Life!Outcome
<1>3. <<>> \in Life!Cancellations(f, f)
  BY DEF Life!Cancellations
<1>4. <<>> \o <<>> = <<>>
  BY ConcatEmptySeq, EmptySeq
<1> HIDE DEF o
<1>5. QED BY <1>1, <1>2, <1>3, <1>4 DEF Round

(* Rounds that post s: the outcome and the cancellations s is made of.     *)
LEMMA RoundBy ==
  ASSUME NEW p, NEW q, NEW f, NEW posts \in Seq(Status),
         Life!Outcome(f, posts) \in Life!Served(PhaseOf(p)),
         NEW c \in Life!Cancellations(PhaseOf(p), f),
         NEW s, s = posts \o c,
         Became(p, q, f, s)
  PROVE  Round(p, q)
<1> DEFINE o == Life!Outcome(f, posts)
<1>1. o.phase = f /\ o.posts = posts
  BY DEF Life!Outcome
<1> HIDE DEF o
<1>2. o \in Life!Served(PhaseOf(p))
  BY DEF o
<1>3. QED BY <1>1, <1>2 DEF Round

LEMMA PlainRound ==
  ASSUME NEW p, NEW q, NEW f, NEW s,
         Life!Outcome(f, s) \in Life!Served(PhaseOf(p)),
         Became(p, q, f, s)
  PROVE  Round(p, q)
<1>1. s \in Seq(Status)
  BY DEF Became
<1>2. <<>> \in Life!Cancellations(PhaseOf(p), f)
  BY DEF Life!Cancellations
<1>3. s = s \o <<>>
  BY <1>1, ConcatEmptySeq
<1>4. QED BY <1>1, <1>2, <1>3, RoundBy

LEMMA EndsAreStatus ==
  /\ ClientEnds \subseteq Status /\ ServerEnds \subseteq Status
  /\ {"CONNECTION_ESTABLISHED", "CONNECTION_FAILED", "CLIENT_CONNECTION_LOST",
      "SERVER_CONNECTION_LOST", Cancelled} \subseteq Status
  BY DEF ClientEnds, ServerEnds, Life!ClientEnds, Life!ServerEnds, Status, Cancelled

LEMMA RoundConnecting ==
  ASSUME NEW p, NEW q, PhaseOf(p) = "connecting",
         \/ Became(p, q, "open", <<"CONNECTION_ESTABLISHED">>)
         \/ \E m \in {"CONNECTION_FAILED", "CLIENT_CONNECTION_LOST",
                      "SERVER_CONNECTION_LOST"} : Became(p, q, "over", <<m>>)
  PROVE  Round(p, q)
<1>1. Life!Outcome("open", <<"CONNECTION_ESTABLISHED">>) \in Life!Served(PhaseOf(p))
  BY DEF Life!Served, Life!Connecting
<1>2. \A m \in {"CONNECTION_FAILED", "CLIENT_CONNECTION_LOST",
                "SERVER_CONNECTION_LOST"} :
        Life!Outcome("over", <<m>>) \in Life!Served(PhaseOf(p))
  BY DEF Life!Served, Life!Connecting
<1>3. QED BY <1>1, <1>2, PlainRound

LEMMA RoundOpen ==
  ASSUME NEW p, NEW q, PhaseOf(p) = "open",
         \/ \E m \in ClientEnds :
              \/ \E f \in {"flushServer", "over"} : Became(p, q, f, <<m>>)
              \/ \E n \in ServerEnds : Became(p, q, "over", <<m, n>>)
              \/ Became(p, q, "over", <<m, Cancelled>>)
         \/ \E n \in ServerEnds :
              \/ \E f \in {"flushClient", "over"} : Became(p, q, f, <<n>>)
              \/ Became(p, q, "over", <<n, "CLIENT_CONNECTION_LOST">>)
              \/ Became(p, q, "over", <<n, Cancelled>>)
  PROVE  Round(p, q)
<1> DEFINE S == Life!Served(PhaseOf(p))
<1>0. S = {Life!Outcome("open", <<>>)} \cup (Life!ClientFirst \cup Life!ServerFirst)
  BY DEF Life!Served
<1> HIDE DEF S
<1>1. \A m \in ClientEnds :
        /\ \A f \in {"flushServer", "over"} : Life!Outcome(f, <<m>>) \in S
        /\ \A n \in ServerEnds : Life!Outcome("over", <<m, n>>) \in S
  <2>1. ASSUME NEW m \in ClientEnds, NEW f \in {"flushServer", "over"}
        PROVE  Life!Outcome(f, <<m>>) \in Life!ClientFirst
    BY DEF Life!ClientFirst, ClientEnds
  <2>2. ASSUME NEW m \in ClientEnds, NEW n \in ServerEnds
        PROVE  Life!Outcome("over", <<m, n>>) \in Life!ClientFirst
    BY DEF Life!ClientFirst, ClientEnds, ServerEnds
  <2>3. QED BY <1>0, <2>1, <2>2
<1>2. \A n \in ServerEnds :
        /\ \A f \in {"flushClient", "over"} : Life!Outcome(f, <<n>>) \in S
        /\ Life!Outcome("over", <<n, "CLIENT_CONNECTION_LOST">>) \in S
  <2>1. ASSUME NEW n \in ServerEnds, NEW f \in {"flushClient", "over"}
        PROVE  Life!Outcome(f, <<n>>) \in Life!ServerFirst
    BY DEF Life!ServerFirst, ServerEnds
  <2>2. ASSUME NEW n \in ServerEnds
        PROVE  Life!Outcome("over", <<n, "CLIENT_CONNECTION_LOST">>)
                 \in Life!ServerFirst
    BY DEF Life!ServerFirst, ServerEnds
  <2>3. QED BY <1>0, <2>1, <2>2
<1>3. <<Cancelled>> \in Life!Cancellations(PhaseOf(p), "over")
  BY DEF Life!Cancellations, Cancelled
<1>4. ASSUME NEW m \in ClientEnds \cup ServerEnds,
             Became(p, q, "over", <<m, Cancelled>>)
      PROVE  Round(p, q)
  <2>1. Life!Outcome("over", <<m>>) \in S
    BY <1>1, <1>2
  <2>2. <<m>> \in Seq(Status)
    BY EndsAreStatus
  <2>3. <<m, Cancelled>> = <<m>> \o <<Cancelled>>
    BY TwoInARow
  <2>4. QED BY <1>3, <1>4, <2>1, <2>2, <2>3, RoundBy DEF S
<1>5. QED BY <1>1, <1>2, <1>4, PlainRound DEF S

LEMMA RoundFlush ==
  ASSUME NEW p, NEW q, NEW lost,
         \/ PhaseOf(p) = "flushClient" /\ lost = "CLIENT_CONNECTION_LOST"
         \/ PhaseOf(p) = "flushServer" /\ lost = "SERVER_CONNECTION_LOST",
         \/ Became(p, q, "over", <<lost>>)
         \/ Became(p, q, "over", <<lost, Cancelled>>)
         \/ Became(p, q, "over", <<Cancelled>>)
         \/ Became(p, q, "over", <<Cancelled, Cancelled>>)
  PROVE  Round(p, q)
<1> DEFINE S == Life!Served(PhaseOf(p))
<1>1. S = {Life!Outcome(PhaseOf(p), <<>>)} \cup Life!Flushing(lost)
  BY DEF Life!Served
<1>2. Life!Outcome("over", <<>>) \in S /\ Life!Outcome("over", <<lost>>) \in S
  BY <1>1 DEF Life!Flushing
<1> HIDE DEF S
<1>3. {<<>>, <<Cancelled>>, <<Cancelled, Cancelled>>} \subseteq
        Life!Cancellations(PhaseOf(p), "over")
  BY DEF Life!Cancellations, Cancelled
<1>4. /\ <<>> \in Seq(Status) /\ <<lost>> \in Seq(Status)
      /\ <<Cancelled>> \in Seq(Status) /\ <<Cancelled, Cancelled>> \in Seq(Status)
  BY EndsAreStatus
<1>5. /\ <<lost, Cancelled>> = <<lost>> \o <<Cancelled>>
      /\ <<Cancelled>> = <<>> \o <<Cancelled>>
      /\ <<Cancelled, Cancelled>> = <<>> \o <<Cancelled, Cancelled>>
  BY <1>4, TwoInARow, ConcatEmptySeq
<1>6. CASE Became(p, q, "over", <<lost>>)
  BY <1>2, <1>6, PlainRound DEF S
<1>7. CASE Became(p, q, "over", <<lost, Cancelled>>)
  BY <1>2, <1>3, <1>4, <1>5, <1>7, RoundBy DEF S
<1>8. CASE Became(p, q, "over", <<Cancelled>>)
  BY <1>2, <1>3, <1>4, <1>5, <1>8, RoundBy DEF S
<1>9. CASE Became(p, q, "over", <<Cancelled, Cancelled>>)
  BY <1>2, <1>3, <1>4, <1>5, <1>9, RoundBy DEF S
<1>10. QED BY <1>6, <1>7, <1>8, <1>9

LEMMA PostOver ==
  ASSUME NEW p, LifeInv(p), ~p.client, ~p.server, NEW m \in Status,
         NEW q, q = Post(p, m)
  PROVE  Became(p, q, "over", <<m>>)
<1>1. /\ LifeInv(q)
      /\ q.posted = p.posted \o <<m>>
      /\ q.client = p.client /\ q.server = p.server
      /\ q.serverConnected = p.serverConnected
      /\ q.forServer = p.forServer /\ q.forClient = p.forClient
  BY PostBecomes
<1>2. PhaseOf(q) = "over"
  BY <1>1, PeerFields, Phases
<1>3. <<m>> \in Seq(Status)
  OBVIOUS
<1>4. QED BY <1>1, <1>2, <1>3 DEF Became, IsActive

LEMMA ConnectBecomes ==
  ASSUME NEW p, LifeInv(p), PhaseOf(p) = "connecting"
  PROVE  Became(p, Connect(p), "open", <<"CONNECTION_ESTABLISHED">>)
<1> DEFINE m == "CONNECTION_ESTABLISHED"
           d == [p EXCEPT !.serverConnected = TRUE]
           q == Connect(p)
<1>1. p \in PeerType /\ PeerInv(p) /\ p.client /\ p.server /\ ~p.serverConnected
  BY Phases, PeerFields DEF LifeInv, IsActive
<1>2. d \in PeerType
  BY <1>1 DEF PeerType
<1>3. /\ d.client = p.client /\ d.server = p.server /\ d.serverConnected = TRUE
      /\ d.forServer = p.forServer /\ d.forClient = p.forClient
      /\ d.posted = p.posted
  BY <1>1 DEF PeerType
<1>4. q = Post(d, m) /\ m \in Status
  BY DEF Connect, Status
<1> HIDE DEF d, q, m
<1>5. PeerInv(d)
  BY <1>1, <1>2, <1>3 DEF PeerInv
<1>6. LifeInv(d)
  BY <1>3, <1>5 DEF LifeInv
<1>7. /\ LifeInv(q)
      /\ q.posted = d.posted \o <<m>>
      /\ q.client = d.client /\ q.server = d.server
      /\ q.serverConnected = d.serverConnected
      /\ q.forServer = d.forServer /\ q.forClient = d.forClient
  BY <1>4, <1>6, PostBecomes
<1>8. PhaseOf(q) = "open"
  BY <1>1, <1>3, <1>7, PeerFields, Phases
<1>9. <<m>> \in Seq(Status)
  BY <1>4
<1>10. Became(p, q, "open", <<m>>)
  BY <1>1, <1>3, <1>7, <1>8, <1>9 DEF Became, IsActive
<1>11. QED BY <1>10 DEF q, m

LEMMA ManageLife ==
  ASSUME NEW p, LifeInv(p), p.serverConnected, IsActive(p), NEW setr, NEW setw,
         NEW r \in ManageConnections(p, setr, setw)
  PROVE  Round(p, r)
<1>1. p \in PeerType /\ PhaseOf(p) \in {"open", "flushClient", "flushServer"}
  BY Phases, PeerFields DEF IsActive
<1>a. /\ "SERVER_CONNECTION_LOST" \in ServerEnds
      /\ "CLIENT_CONNECTION_LOST" \in ClientEnds
  BY DEF ServerEnds, ClientEnds, Life!ServerEnds, Life!ClientEnds
<1>2. CASE PhaseOf(p) = "open"
  <2>1. PICK q \in ServeClient(p, setr, setw) : r \in ServeServer(q, setr, setw)
    BY <1>1, <1>2, Phases DEF ManageConnections
  <2>2. CASE Became(p, q, "open", <<>>)
    <3>1. LifeInv(q) /\ PhaseOf(q) = "open"
      BY <2>2, BecameIs
    <3>2. \/ Became(q, r, "open", <<>>)
          \/ \E f \in {"flushServer", "over"} :
               Became(q, r, f, <<"CLIENT_CONNECTION_LOST">>)
          \/ \E n \in ServerEnds :
               \/ \E f \in {"flushClient", "over"} : Became(q, r, f, <<n>>)
               \/ Became(q, r, "over", <<n, "CLIENT_CONNECTION_LOST">>)
               \/ Became(q, r, "over", <<n, Cancelled>>)
      BY <2>1, <3>1, ServeServerLife
    <3>3. \/ Became(p, r, "open", <<>>)
          \/ \E f \in {"flushServer", "over"} :
               Became(p, r, f, <<"CLIENT_CONNECTION_LOST">>)
          \/ \E n \in ServerEnds :
               \/ \E f \in {"flushClient", "over"} : Became(p, r, f, <<n>>)
               \/ Became(p, r, "over", <<n, "CLIENT_CONNECTION_LOST">>)
               \/ Became(p, r, "over", <<n, Cancelled>>)
      BY <2>2, <3>2, BecameOneByOne
    <3>4. QED BY <1>1, <1>2, <1>a, <3>3, IdleRound, RoundOpen
  <2>3. ASSUME NEW m \in ClientEnds, Became(p, q, "flushServer", <<m>>)
        PROVE  Round(p, r)
    <3>1. LifeInv(q) /\ PhaseOf(q) = "flushServer"
      BY <2>3, BecameIs
    <3>2. \/ Became(q, r, "flushServer", <<>>)
          \/ \E n \in ServerEnds : Became(q, r, "over", <<n>>)
      BY <2>1, <3>1, ServeServerAlone
    <3>3. \/ Became(p, r, "flushServer", <<m>>)
          \/ \E n \in ServerEnds : Became(p, r, "over", <<m, n>>)
      BY <2>3, <3>2, BecameOneByOne
    <3>4. QED BY <1>2, <3>3, RoundOpen
  <2>4. ASSUME NEW f \in {"flushClient", "over"}, NEW s, Became(p, q, f, s)
        PROVE  Became(p, r, f, s)
    <3>1. ~q.server
      BY <2>4, BecameIs, Phases
    <3>2. r = q
      BY <2>1, <3>1 DEF ServeServer
    <3>3. QED BY <2>4, <3>2
  <2>5. \/ Became(p, q, "open", <<>>)
        \/ \E m \in ClientEnds :
             \/ \E f \in {"flushServer", "over"} : Became(p, q, f, <<m>>)
             \/ Became(p, q, "over", <<m, "SERVER_CONNECTION_LOST">>)
             \/ Became(p, q, "over", <<m, Cancelled>>)
        \/ \E f \in {"flushClient", "over"} :
             Became(p, q, f, <<"SERVER_CONNECTION_LOST">>)
    BY <1>2, ServeClientLife
  <2>6. QED BY <1>2, <1>a, <2>2, <2>3, <2>4, <2>5, RoundOpen
<1>3. CASE PhaseOf(p) = "flushClient"
  <2>1. p.client /\ ~p.server
    BY <1>1, <1>3, Phases
  <2>2. r \in FlushClient(p, setw)
    BY <2>1 DEF ManageConnections
  <2>3. PICK q \in IF "client" \in setw THEN SendMissingDataToClient(p) ELSE {p} :
          r = IF q.forClient.to_send = 0
              THEN Post(CloseClient(q), Cancelled) ELSE q
    BY <2>2, Zenon DEF FlushClient, Cancelled
  <2>4. \/ Became(p, q, "flushClient", <<>>)
        \/ Became(p, q, "over", <<"CLIENT_CONNECTION_LOST">>)
        \/ Became(p, q, "over", <<Cancelled>>)
    BY <1>3, <2>1, <2>3, BecameSame, ClientWrites
  <2>5. CASE r = q
    BY <1>1, <1>3, <2>4, <2>5, IdleRound, RoundFlush
  <2>6. CASE r # q
    <3>1. r = Post(CloseClient(q), Cancelled) /\ q.forClient.to_send = 0
      BY <2>3, <2>6
    <3>2. LifeInv(q) /\ q \in PeerType /\ Cancelled \in Status
      BY <2>4, BecameIs, EndsAreStatus
    <3>3. CASE Became(p, q, "flushClient", <<>>)
      <4>1. q.client /\ ~q.server
        BY <3>3, BecameIs, Phases
      <4>2. BufferInv(q.forClient) /\ Pending(q.forClient)
        BY <3>2, <4>1 DEF LifeInv, PeerInv
      <4>3. Became(q, r, "over", <<Cancelled>>)
        BY <3>1, <3>2, <4>1, <4>2, DrainedIsFlushed, ClientEnded
      <4>4. Became(p, r, "over", <<Cancelled>>)
        BY <3>3, <4>3, BecameOneByOne
      <4>5. QED BY <1>3, <4>4, RoundFlush
    <3>4. ASSUME NEW m, Became(p, q, "over", <<m>>)
          PROVE  Became(p, r, "over", <<m, Cancelled>>)
      <4>1. ~q.client /\ ~q.server
        BY <3>4, BecameIs, Phases
      <4>2. r = Post(q, Cancelled)
        BY <3>1, <4>1 DEF CloseClient
      <4>3. Became(q, r, "over", <<Cancelled>>)
        BY <3>2, <4>1, <4>2, PostOver
      <4>4. QED BY <3>4, <4>3, BecameOneByOne
    <3>5. QED BY <1>3, <2>4, <3>3, <3>4, RoundFlush
  <2>7. QED BY <2>5, <2>6
<1>4. CASE PhaseOf(p) = "flushServer"
  <2>1. ~p.client /\ p.server
    BY <1>1, <1>4, Phases
  <2>2. r \in FlushServer(p, setw)
    BY <2>1 DEF ManageConnections
  <2>3. PICK q \in IF "server" \in setw THEN SendMissingDataToServer(p) ELSE {p} :
          r = IF q.forServer.to_send = 0
              THEN Post(CloseServer(q), Cancelled) ELSE q
    BY <2>2, Zenon DEF FlushServer, Cancelled
  <2>4. \/ Became(p, q, "flushServer", <<>>)
        \/ Became(p, q, "over", <<"SERVER_CONNECTION_LOST">>)
        \/ Became(p, q, "over", <<Cancelled>>)
    BY <1>4, <2>1, <2>3, BecameSame, ServerWrites
  <2>5. CASE r = q
    BY <1>1, <1>4, <2>4, <2>5, IdleRound, RoundFlush
  <2>6. CASE r # q
    <3>1. r = Post(CloseServer(q), Cancelled) /\ q.forServer.to_send = 0
      BY <2>3, <2>6
    <3>2. LifeInv(q) /\ q \in PeerType /\ Cancelled \in Status
      BY <2>4, BecameIs, EndsAreStatus
    <3>3. CASE Became(p, q, "flushServer", <<>>)
      <4>1. q.server /\ ~q.client
        BY <3>3, BecameIs, Phases
      <4>2. BufferInv(q.forServer) /\ Pending(q.forServer)
        BY <3>2, <4>1 DEF LifeInv, PeerInv
      <4>3. Became(q, r, "over", <<Cancelled>>)
        BY <3>1, <3>2, <4>1, <4>2, DrainedIsFlushed, ServerEnded
      <4>4. Became(p, r, "over", <<Cancelled>>)
        BY <3>3, <4>3, BecameOneByOne
      <4>5. QED BY <1>4, <4>4, RoundFlush
    <3>4. ASSUME NEW m, Became(p, q, "over", <<m>>)
          PROVE  Became(p, r, "over", <<m, Cancelled>>)
      <4>1. ~q.client /\ ~q.server
        BY <3>4, BecameIs, Phases
      <4>2. r = Post(q, Cancelled)
        BY <3>1, <4>1 DEF CloseServer
      <4>3. Became(q, r, "over", <<Cancelled>>)
        BY <3>2, <4>1, <4>2, PostOver
      <4>4. QED BY <3>4, <4>3, BecameOneByOne
    <3>5. QED BY <1>4, <2>4, <3>3, <3>4, RoundFlush
  <2>7. QED BY <2>5, <2>6
<1>5. QED BY <1>1, <1>2, <1>3, <1>4

(* A peer of the other list is still connecting when its round begins.     *)
LEMMA ManageConnectingLife ==
  ASSUME NEW p, LifeInv(p), ~p.serverConnected, IsActive(p), NEW setr, NEW setw,
         NEW o \in ManageConnectingPeer(p, setr, setw)
  PROVE  /\ Round(p, o.peer)
         /\ o.changed \in BOOLEAN
         /\ o.changed => o.peer.serverConnected
         /\ ~o.changed /\ IsActive(o.peer) => ~o.peer.serverConnected
<1>1. /\ p \in PeerType /\ PhaseOf(p) = "connecting" /\ p.client /\ p.server
      /\ p.serverConnected = FALSE
  BY Phases, PeerFields DEF IsActive, LifeInv
<1>2. PICK q \in IF "client" \in setr THEN GetMissingDataFromClient(p) ELSE {p} :
        o = IF q.server /\ "server" \in setw
            THEN [peer |-> Connect(q), changed |-> TRUE]
            ELSE [peer |-> q, changed |-> FALSE]
  <2>1. o \in ManageConnectingPair(p, setr, setw)
    BY <1>1 DEF ManageConnectingPeer
  <2>2. QED BY <2>1, Zenon DEF ManageConnectingPair
<1>3. Became(p, q, "connecting", <<>>) \/ Became(p, q, "over", <<"CONNECTION_FAILED">>)
  BY <1>1, <1>2, BecameSame, ClientReads
<1>4. /\ LifeInv(q) /\ q \in PeerType
      /\ PhaseOf(q) \in {"connecting", "over"}
  BY <1>3, BecameIs
<1>5. CASE q.server /\ "server" \in setw
  <2>1. o.peer = Connect(q) /\ o.changed = TRUE
    BY <1>2, <1>5
  <2>2. Became(p, q, "connecting", <<>>) /\ PhaseOf(q) = "connecting"
    BY <1>3, <1>4, <1>5, BecameIs, Phases
  <2>3. Became(q, Connect(q), "open", <<"CONNECTION_ESTABLISHED">>)
    BY <1>4, <2>2, ConnectBecomes
  <2>4. Became(p, o.peer, "open", <<"CONNECTION_ESTABLISHED">>)
    <3> DEFINE r == Connect(q)
    <3>1. Became(q, r, "open", <<"CONNECTION_ESTABLISHED">>)
      BY <2>3
    <3> HIDE DEF r
    <3>2. Became(p, r, "open", <<"CONNECTION_ESTABLISHED">>)
      BY <2>2, <3>1, BecameOneByOne
    <3>3. QED BY <2>1, <3>2 DEF r
  <2>5. o.peer.serverConnected
    BY <2>4, BecameIs, Phases
  <2>6. QED BY <1>1, <2>1, <2>4, <2>5, RoundConnecting
<1>6. CASE ~(q.server /\ "server" \in setw)
  <2>1. o.peer = q /\ o.changed = FALSE
    BY <1>2, <1>6
  <2>2. IsActive(q) => ~q.serverConnected
    BY <1>4, Phases DEF IsActive
  <2>3. QED BY <1>1, <1>3, <2>1, <2>2, IdleRound, RoundConnecting
<1>7. QED BY <1>5, <1>6

LEMMA CheckLife ==
  ASSUME NEW p, LifeInv(p), IsActive(p), NEW bad
  PROVE  Round(p, CheckPeers(p, bad))
<1> DEFINE S == "SERVER_CONNECTION_LOST"
           C == "CLIENT_CONNECTION_LOST"
           q == CheckServer(p, bad)
           r == CheckClient(q, bad)
<1>1. /\ p \in PeerType /\ p.server \in BOOLEAN /\ p.client \in BOOLEAN
      /\ p.serverConnected \in BOOLEAN
      /\ PhaseOf(p) \in {"connecting", "open", "flushClient", "flushServer"}
  BY Phases, PeerFields DEF IsActive
<1>2. S \in Status /\ C \in Status /\ S \in ServerEnds /\ C \in ClientEnds
  BY EndsAreStatus DEF ServerEnds, ClientEnds, Life!ServerEnds, Life!ClientEnds
<1>3. q = p \/ (p.server /\ q = Post(CloseServer(p), S))
  BY DEF CheckServer
<1>4. r = q \/ (q.client /\ r = Post(CloseClient(q), C))
  BY DEF CheckClient
<1>5. CheckPeers(p, bad) = r
  BY DEF CheckPeers
<1> HIDE DEF S, C, q, r
<1>6. ASSUME q = p PROVE Round(p, r)
  <2>1. CASE r = p
    BY <1>1, <2>1, BecameSame, IdleRound
  <2>2. CASE p.client /\ r = Post(CloseClient(p), C)
    <3>1. /\ Became(p, r, PhaseOf(r), <<C>>)
          /\ PhaseOf(r) \in IF p.serverConnected /\ p.server
                            THEN {"flushServer", "over"} ELSE {"over"}
      BY <1>2, <2>2, ClientEnded
    <3>2. CASE PhaseOf(p) = "connecting"
      <4>1. Became(p, r, "over", <<C>>)
        BY <1>1, <3>1, <3>2, Phases
      <4>2. QED BY <3>2, <4>1, RoundConnecting DEF C
    <3>3. CASE PhaseOf(p) = "open"
      BY <1>2, <3>1, <3>3, RoundOpen
    <3>4. CASE PhaseOf(p) = "flushClient"
      <4>1. Became(p, r, "over", <<C>>)
        BY <1>1, <3>1, <3>4, Phases
      <4>2. QED BY <3>4, <4>1, RoundFlush DEF C
    <3>5. PhaseOf(p) # "flushServer"
      BY <1>1, <2>2, Phases
    <3>6. QED BY <1>1, <3>2, <3>3, <3>4, <3>5
  <2>3. QED BY <1>4, <1>6, <2>1, <2>2
<1>7. ASSUME p.server, q = Post(CloseServer(p), S) PROVE Round(p, r)
  <2>1. /\ Became(p, q, PhaseOf(q), <<S>>)
        /\ PhaseOf(q) \in IF p.serverConnected /\ p.client
                          THEN {"flushClient", "over"} ELSE {"over"}
    BY <1>2, <1>7, ServerEnded
  <2>2. LifeInv(q) /\ q \in PeerType
    BY <2>1, BecameIs
  <2>3. CASE r = q
    <3>1. CASE PhaseOf(p) = "connecting"
      <4>1. Became(p, r, "over", <<S>>)
        BY <1>1, <2>1, <2>3, <3>1, Phases
      <4>2. QED BY <3>1, <4>1, RoundConnecting DEF S
    <3>2. CASE PhaseOf(p) = "open"
      BY <1>2, <2>1, <2>3, <3>2, RoundOpen
    <3>3. CASE PhaseOf(p) = "flushServer"
      <4>1. Became(p, r, "over", <<S>>)
        BY <1>1, <2>1, <2>3, <3>3, Phases
      <4>2. QED BY <3>3, <4>1, RoundFlush DEF S
    <3>4. PhaseOf(p) # "flushClient"
      BY <1>1, <1>7, Phases
    <3>5. QED BY <1>1, <3>1, <3>2, <3>3, <3>4
  <2>4. CASE q.client /\ r = Post(CloseClient(q), C)
    <3>1. PhaseOf(q) = "flushClient" /\ PhaseOf(p) = "open"
      BY <1>1, <1>7, <2>1, <2>2, <2>4, Phases
    <3>2. ~q.server
      BY <2>2, <3>1, Phases
    <3>3. Became(q, r, "over", <<C>>)
      BY <1>2, <2>2, <2>4, <3>2, ClientEnded
    <3>4. Became(p, r, "over", <<S, C>>)
      BY <2>1, <3>3, BecameOneByOne
    <3>5. QED BY <1>2, <3>1, <3>4, RoundOpen DEF C
  <2>5. QED BY <1>4, <2>3, <2>4
<1>8. QED BY <1>3, <1>5, <1>6, <1>7

(* A kick closes whatever is open and posts its message.                   *)
LEMMA KickLife ==
  ASSUME NEW p, LifeInv(p), NEW q, q = ClosePInfo(p)
  PROVE  /\ LifeInv(q) /\ PhaseOf(q) = "over"
         /\ q.posted = p.posted \o <<"SERVER_DISCONNECTED_OK">>
<1> DEFINE c == CloseClient(p)
           d == CloseServer(c)
<1>1. LifeInv(c) /\ ~c.client /\ c.posted = p.posted
  <2>1. CASE p.client
    BY <2>1, CloseClientFields
  <2>2. CASE ~p.client
    BY <2>2 DEF CloseClient
  <2>3. QED BY <2>1, <2>2
<1> HIDE DEF c
<1>2. LifeInv(d) /\ ~d.client /\ ~d.server /\ d.posted = p.posted
  <2>1. CASE c.server
    BY <1>1, <2>1, CloseServerFields
  <2>2. CASE ~c.server
    BY <1>1, <2>2 DEF CloseServer
  <2>3. QED BY <2>1, <2>2
<1>3. q = Post(d, "SERVER_DISCONNECTED_OK")
  BY DEF ClosePInfo, Close, c
<1>4. "SERVER_DISCONNECTED_OK" \in Status
  BY DEF Status
<1> HIDE DEF d
<1>5. /\ LifeInv(q) /\ q.posted = d.posted \o <<"SERVER_DISCONNECTED_OK">>
      /\ q.client = d.client /\ q.server = d.server
  BY <1>2, <1>3, <1>4, PostBecomes
<1>6. QED BY <1>2, <1>5, PeerFields, Phases

(* A check that leaves a connecting peer active leaves it connecting.      *)
LEMMA CheckKeepsConnecting ==
  ASSUME NEW p, LifeInv(p), IsActive(p), ~p.serverConnected, NEW bad,
         NEW q, q = CheckPeers(p, bad), IsActive(q)
  PROVE  ~q.serverConnected
<1>1. p.client /\ p.server /\ p.client \in BOOLEAN
  BY PeerFields DEF LifeInv, IsActive
<1>2. CASE "server" \in bad
  <2> DEFINE r == CheckServer(p, bad)
  <2>1. r = Post(CloseServer(p), "SERVER_CONNECTION_LOST")
    BY <1>1, <1>2 DEF CheckServer
  <2>2. "SERVER_CONNECTION_LOST" \in Status
    BY DEF Status
  <2> HIDE DEF r
  <2>3. Became(p, r, PhaseOf(r), <<"SERVER_CONNECTION_LOST">>) /\ PhaseOf(r) = "over"
    BY <1>1, <2>1, <2>2, ServerEnded
  <2>4. ~r.client /\ ~r.server
    BY <2>3, BecameIs, Phases
  <2>5. q = r
    BY <2>4 DEF CheckPeers, CheckClient, r
  <2>6. QED BY <2>4, <2>5 DEF IsActive
<1>3. CASE "server" \notin bad
  <2>1. CheckServer(p, bad) = p
    BY <1>3 DEF CheckServer
  <2>2. CASE "client" \in bad
    <3>1. q = Post(CloseClient(p), "CLIENT_CONNECTION_LOST")
      BY <1>1, <2>1, <2>2 DEF CheckPeers, CheckClient
    <3>2. "CLIENT_CONNECTION_LOST" \in Status
      BY DEF Status
    <3>3. Became(p, q, PhaseOf(q), <<"CLIENT_CONNECTION_LOST">>) /\ PhaseOf(q) = "over"
      BY <1>1, <3>1, <3>2, ClientEnded
    <3>4. QED BY <3>3, BecameIs, Phases DEF IsActive
  <2>3. CASE "client" \notin bad
    BY <2>1, <2>3 DEF CheckPeers, CheckClient
  <2>4. QED BY <2>2, <2>3
<1>4. QED BY <1>2, <1>3

-----------------------------------------------------------------------------
(* The specification. *)

(* A peer that lost a side has announced an end. *)
Announced(p) ==
  PhaseOf(p) \notin {"connecting", "open"} => Some(p.posted, Ends)

(* The inductive invariant: the one of the peer, the list it belongs to    *)
(* while it is active, and the announcement, which is carried from the     *)
(* moment the first side is lost and not from the moment both are.         *)
LivingInv ==
  /\ Inv
  /\ LifeInv(peer)
  /\ IsActive(peer) => (list = "connecting" => ~peer.serverConnected)
  /\ IsActive(peer) => (list = "connected" => peer.serverConnected)
  /\ Announced(peer)

LEMMA ServedEnds ==
  ASSUME NEW f \in {"connecting", "open"}, NEW o \in Life!Served(f),
         o.phase \notin {"connecting", "open"}
  PROVE  Some(o.posts, Ends) /\ o.posts \in Seq(Status)
<1>1. ASSUME NEW m \in Ends PROVE Some(<<m>>, Ends) /\ <<m>> \in Seq(Status)
  <2>1. <<m>>[1] \in Ends /\ 1 \in DOMAIN <<m>> /\ m \in Status
    BY <1>1 DEF Ends, Status
  <2>2. QED BY <2>1 DEF Some
<1>2. ASSUME NEW m \in Ends, NEW n \in Ends
      PROVE  Some(<<m, n>>, Ends) /\ <<m, n>> \in Seq(Status)
  <2>1. <<m, n>>[1] \in Ends /\ 1 \in DOMAIN <<m, n>> /\ m \in Status /\ n \in Status
    BY <1>2 DEF Ends, Status
  <2>2. QED BY <2>1 DEF Some
<1>3. Life!ClientEnds \subseteq Ends /\ Life!ServerEnds \subseteq Ends
  BY DEF Life!ClientEnds, Life!ServerEnds, Ends
<1>4. CASE f = "connecting"
  <2>1. PICK m \in {"CONNECTION_FAILED", "CLIENT_CONNECTION_LOST",
                    "SERVER_CONNECTION_LOST"} : o = Life!Outcome("over", <<m>>)
    BY <1>4 DEF Life!Served, Life!Connecting, Life!Outcome
  <2>2. m \in Ends /\ o.posts = <<m>>
    BY <2>1 DEF Ends, Life!Outcome
  <2>3. QED BY <1>1, <2>2
<1>5. CASE f = "open"
  <2>1. o \in Life!ClientFirst \cup Life!ServerFirst
    BY <1>5 DEF Life!Served, Life!Outcome
  <2>2. CASE o \in Life!ClientFirst
    <3> DEFINE A == {Life!Outcome(g, <<m>>) :
                       g \in {"flushServer", "over"}, m \in Life!ClientEnds}
               B == {Life!Outcome("over", <<m, n>>) :
                       m \in Life!ClientEnds, n \in Life!ServerEnds}
    <3>1. o \in A \/ o \in B
      BY <2>2 DEF Life!ClientFirst
    <3>2. o \in A => \E m \in Life!ClientEnds : o.posts = <<m>>
      BY DEF Life!Outcome
    <3>3. o \in B => \E m \in Life!ClientEnds, n \in Life!ServerEnds : o.posts = <<m, n>>
      BY DEF Life!Outcome
    <3> HIDE DEF A, B
    <3>4. QED BY <1>1, <1>2, <1>3, <3>1, <3>2, <3>3
  <2>3. CASE o \in Life!ServerFirst
    <3> DEFINE A == {Life!Outcome(g, <<m>>) :
                       g \in {"flushClient", "over"}, m \in Life!ServerEnds}
               B == {Life!Outcome("over", <<m, "CLIENT_CONNECTION_LOST">>) :
                       m \in Life!ServerEnds}
    <3>1. o \in A \/ o \in B
      BY <2>3 DEF Life!ServerFirst
    <3>2. o \in A => \E m \in Life!ServerEnds : o.posts = <<m>>
      BY DEF Life!Outcome
    <3>3. o \in B => \E m \in Life!ServerEnds : o.posts = <<m, "CLIENT_CONNECTION_LOST">>
      BY DEF Life!Outcome
    <3>4. "CLIENT_CONNECTION_LOST" \in Ends
      BY DEF Ends
    <3> HIDE DEF A, B
    <3>5. QED BY <1>1, <1>2, <1>3, <3>1, <3>2, <3>3, <3>4
  <2>4. QED BY <2>1, <2>2, <2>3
<1>6. QED BY <1>4, <1>5

LEMMA RoundAnnounces ==
  ASSUME NEW p, LifeInv(p), Announced(p), NEW q, Round(p, q)
  PROVE  LifeInv(q) /\ Announced(q)
<1>1. PICK o \in Life!Served(PhaseOf(p)) :
        \E c \in Life!Cancellations(PhaseOf(p), o.phase) :
          Became(p, q, o.phase, o.posts \o c)
  BY DEF Round
<1>2. PICK c \in Life!Cancellations(PhaseOf(p), o.phase) :
        Became(p, q, o.phase, o.posts \o c)
  BY <1>1
<1>3. c \in Seq(Status)
  <2>1. c = <<>> \/ c = <<Cancelled>> \/ c = <<Cancelled, Cancelled>>
    BY DEF Life!Cancellations, Cancelled
  <2>2. <<>> \in Seq(Status) /\ <<Cancelled>> \in Seq(Status)
        /\ <<Cancelled, Cancelled>> \in Seq(Status)
    BY EndsAreStatus
  <2>3. QED BY <2>1, <2>2
<1>4. /\ LifeInv(q) /\ PhaseOf(q) = o.phase
      /\ o.posts \o c \in Seq(Status)
      /\ q.posted = p.posted \o (o.posts \o c)
      /\ p.posted \in Seq(Status)
  BY <1>2, PeerFields DEF Became
<1>5. ASSUME o.phase \notin {"connecting", "open"}
      PROVE  Some(q.posted, Ends)
  <2>1. CASE PhaseOf(p) \in {"connecting", "open"}
    <3>1. Some(o.posts, Ends) /\ o.posts \in Seq(Status)
      BY <1>1, <1>5, <2>1, ServedEnds
    <3>2. Some(o.posts \o c, Ends)
      BY <1>3, <3>1, JoinedSome
    <3>3. QED BY <1>4, <3>2, JoinedSome
  <2>2. CASE PhaseOf(p) \notin {"connecting", "open"}
    BY <1>4, <2>2, JoinedSome DEF Announced
  <2>3. QED BY <2>1, <2>2
<1>6. QED BY <1>4, <1>5 DEF Announced

LEMMA InitLives == Init => LivingInv /\ Life!LifeInit
<1> SUFFICES ASSUME Init PROVE LivingInv /\ Life!LifeInit
  OBVIOUS
<1>1. Inv
  BY InitInv
<1>2. /\ peer.client = TRUE /\ peer.server = TRUE /\ peer.serverConnected = FALSE
      /\ peer.forClient.to_send = 0 /\ peer.posted = <<>>
  BY DEF Init, NewPeer, NewBuffer
<1>3. PhaseOf(peer) = "connecting"
  BY <1>2 DEF PhaseOf, IsActive
<1>4. LifeInv(peer)
  BY <1>1, <1>2 DEF Inv, LifeInv
<1>5. QED
  BY <1>1, <1>2, <1>3, <1>4 DEF Init, LivingInv, Announced, Life!LifeInit

(* Every action but the kick is a round, and that is a step of PeerLife.   *)
LEMMA ActionRounds ==
  LivingInv /\ (ManageConnecting \/ Manage \/ Check) => Round(peer, peer')
<1> SUFFICES ASSUME LivingInv, ManageConnecting \/ Manage \/ Check
             PROVE  Round(peer, peer')
  OBVIOUS
<1>1. CASE ManageConnecting
  BY <1>1, ManageConnectingLife DEF ManageConnecting, LivingInv
<1>2. CASE Manage
  BY <1>2, ManageLife DEF Manage, LivingInv
<1>3. CASE Check
  BY <1>3, CheckLife DEF Check, LivingInv
<1>4. QED BY <1>1, <1>2, <1>3

LEMMA NextLives == LivingInv /\ [Next]_vars => LivingInv'
<1> SUFFICES ASSUME LivingInv, [Next]_vars PROVE LivingInv'
  OBVIOUS
<1>1. Inv' /\ LifeInv(peer) /\ Announced(peer)
  BY NextInv DEF LivingInv
<1>2. CASE ManageConnecting
  <2>1. LifeInv(peer') /\ Announced(peer')
    BY <1>1, <1>2, ActionRounds, RoundAnnounces
  <2>2. PICK setr \in SUBSET AddToFDSETCR(peer), setw \in SUBSET AddToFDSETCW(peer) :
          \E o \in ManageConnectingPeer(peer, setr, setw) :
            /\ peer' = o.peer
            /\ list' = IF o.changed THEN "connected" ELSE "connecting"
    BY <1>2 DEF ManageConnecting
  <2>3. PICK o \in ManageConnectingPeer(peer, setr, setw) :
            /\ peer' = o.peer
            /\ list' = IF o.changed THEN "connected" ELSE "connecting"
    BY <2>2
  <2>4. IsActive(peer) /\ ~peer.serverConnected
    BY <1>2 DEF ManageConnecting, LivingInv
  <2>5. /\ o.changed \in BOOLEAN
        /\ o.changed => peer'.serverConnected
        /\ ~o.changed /\ IsActive(peer') => ~peer'.serverConnected
    BY <1>1, <2>3, <2>4, ManageConnectingLife
  <2>6. QED BY <1>1, <2>1, <2>3, <2>5 DEF LivingInv
<1>3. CASE Manage \/ Check
  <2>1. LifeInv(peer') /\ Announced(peer') /\ Round(peer, peer')
    BY <1>1, <1>3, ActionRounds, RoundAnnounces DEF LivingInv
  <2>2. IsActive(peer) /\ list' = list
    BY <1>3 DEF Manage, Check
  <2>3. CASE peer.serverConnected
    <3>1. peer'.serverConnected
      BY <2>1, <2>3 DEF Round, Became
    <3>2. QED BY <1>1, <2>1, <2>2, <2>3, <3>1 DEF LivingInv
  <2>4. CASE ~peer.serverConnected
    <3>1. list # "connected"
      BY <2>2, <2>4 DEF LivingInv
    <3>2. ~Manage
      BY <3>1 DEF Manage
    <3>3. IsActive(peer') => ~peer'.serverConnected
      BY <1>1, <1>3, <2>2, <2>4, <3>2, CheckKeepsConnecting DEF Check
    <3>4. QED BY <1>1, <2>1, <2>2, <3>1, <3>3 DEF LivingInv
  <2>5. QED BY <2>3, <2>4
<1>4. CASE Kick
  <2>1. /\ LifeInv(peer') /\ PhaseOf(peer') = "over"
        /\ peer'.posted = peer.posted \o <<"SERVER_DISCONNECTED_OK">>
    BY <1>1, <1>4, KickLife DEF Kick
  <2>2. /\ <<"SERVER_DISCONNECTED_OK">> \in Seq(Status)
        /\ Some(<<"SERVER_DISCONNECTED_OK">>, Ends)
    BY DEF Status, Some, Ends
  <2>3. Some(peer'.posted, Ends)
    <3> DEFINE s == <<"SERVER_DISCONNECTED_OK">>
    <3>1. s \in Seq(Status) /\ Some(s, Ends) /\ peer.posted \in Seq(Status)
      BY <1>1, <2>2, PeerFields
    <3>2. peer'.posted = peer.posted \o s
      BY <2>1
    <3> HIDE DEF s
    <3>3. QED BY <3>1, <3>2, JoinedSome
  <2>4. ~IsActive(peer')
    BY <2>1, PeerFields, Phases DEF IsActive
  <2>5. QED BY <1>1, <2>1, <2>3, <2>4 DEF LivingInv, Announced
<1>5. CASE Delete
  <2>1. peer' = peer /\ ~IsActive(peer)
    BY <1>5 DEF Delete
  <2>2. QED BY <1>1, <2>1 DEF LivingInv
<1>6. CASE UNCHANGED vars
  <2>1. peer' = peer /\ list' = list
    BY <1>6 DEF vars
  <2>2. QED BY <1>1, <2>1 DEF LivingInv
<1>7. QED BY <1>2, <1>3, <1>4, <1>5, <1>6 DEF Next

LEMMA SpecLives == Spec => []LivingInv
  BY InitLives, NextLives, PTL DEF Spec

(* A peer that is over has posted one of the messages on which the         *)
(* ServerList counts it down, whichever of the branches closed it.         *)
THEOREM EndIsAlwaysAnnounced == Spec => []EndIsAnnounced
<1>1. LivingInv => EndIsAnnounced
  <2> SUFFICES ASSUME LivingInv, ~IsActive(peer) PROVE PostedAt(Ends) # {}
    BY DEF EndIsAnnounced
  <2>1. PhaseOf(peer) = "over"
    BY PeerFields, Phases DEF LivingInv, IsActive
  <2>2. QED BY <2>1 DEF LivingInv, Announced, Some, PostedAt
<1>2. QED BY <1>1, SpecLives, PTL

LEMMA NextIsLife ==
  LivingInv /\ [Next]_vars => [Life!LifeNext]_<<PhaseOf(peer), peer.posted>>
<1> SUFFICES ASSUME LivingInv, [Next]_vars
             PROVE  Life!LifeNext \/ UNCHANGED <<PhaseOf(peer), peer.posted>>
  OBVIOUS
<1>1. CASE ManageConnecting \/ Manage \/ Check
  <2>1. Round(peer, peer')
    BY <1>1, ActionRounds
  <2>2. Life!LifeServe
    BY <2>1 DEF Round, Became, Life!LifeServe
  <2>3. QED BY <2>2 DEF Life!LifeNext
<1>2. CASE Kick
  <2>1. /\ PhaseOf(peer') = "over"
        /\ peer'.posted = peer.posted \o <<"SERVER_DISCONNECTED_OK">>
    BY <1>2, KickLife DEF Kick, LivingInv
  <2>2. Life!LifeKick
    BY <2>1 DEF Life!LifeKick, Life!Kicked, Life!Outcome
  <2>3. QED BY <2>2 DEF Life!LifeNext
<1>3. CASE Delete \/ UNCHANGED vars
  <2>1. peer' = peer
    BY <1>3 DEF Delete, vars
  <2>2. QED BY <2>1
<1>4. QED BY <1>1, <1>2, <1>3 DEF Next

(* A peer goes through the phases of PeerLife and posts what goes with     *)
(* them: the other components, built on PeerPhases, assume no more of it.  *)
THEOREM PeerImplementsLife == Spec => ImplementsLife
<1>1. Init => Life!LifeInit
  BY InitLives
<1>2. QED
  BY <1>1, SpecLives, NextIsLife, PTL DEF Spec, ImplementsLife, Life!LifeSpec

-----------------------------------------------------------------------------
(* Why a socket was closed. *)

(* What a step posted is found among the new messages. *)
LEMMA SomeIsNew ==
  ASSUME peer.posted \in Seq(Status), NEW s \in Seq(Status),
         peer'.posted = peer.posted \o s, NEW M, Some(s, M)
  PROVE  NewMessages \cap M # {}
<1> DEFINE t == peer.posted
           u == peer'.posted
<1>1. /\ t \in Seq(Status) /\ u = t \o s
  OBVIOUS
<1>2. NewMessages = {u[i] : i \in Len(t) + 1 .. Len(u)}
  BY DEF NewMessages
<1>3. PICK i \in 1 .. Len(s) : s[i] \in M
  BY LenProperties DEF Some
<1> HIDE DEF t, u
<1>4. /\ Len(t) \in Nat /\ Len(s) \in Nat /\ Len(u) = Len(t) + Len(s)
      /\ \A k \in 1 .. Len(t) + Len(s) :
           u[k] = IF k <= Len(t) THEN t[k] ELSE s[k - Len(t)]
  BY <1>1, ConcatProperties, LenProperties
<1>5. /\ Len(t) + i \in Len(t) + 1 .. Len(u) /\ Len(t) + i \in 1 .. Len(t) + Len(s)
      /\ ~(Len(t) + i <= Len(t)) /\ (Len(t) + i) - Len(t) = i
  BY <1>4
<1>6. u[Len(t) + i] = s[i]
  BY <1>4, <1>5
<1>7. s[i] \in NewMessages
  BY <1>2, <1>5, <1>6
<1>8. QED BY <1>3, <1>7

LEMMA NextFlushes ==
  ASSUME LivingInv, [Next]_vars
  PROVE  /\ peer.serverConnected /\ peer.server /\ ~peer'.server =>
              NewMessages \cap ServerEnds # {} \/ Flushed(peer'.forServer)
         /\ peer.serverConnected /\ peer.client /\ ~peer'.client /\ kicks' = kicks =>
              NewMessages \cap ClientEnds # {} \/ Flushed(peer'.forClient)
<1>1. peer.posted \in Seq(Status)
  BY PeerFields DEF LivingInv
<1>2. CASE ManageConnecting \/ Manage \/ Check
  <2>1. Round(peer, peer')
    BY <1>2, ActionRounds
  <2>2. PICK o \in Life!Served(PhaseOf(peer)) :
          \E c \in Life!Cancellations(PhaseOf(peer), o.phase) :
            Became(peer, peer', o.phase, o.posts \o c)
    BY <2>1 DEF Round
  <2>3. PICK c \in Life!Cancellations(PhaseOf(peer), o.phase) :
          Became(peer, peer', o.phase, o.posts \o c)
    BY <2>2
  <2> DEFINE s == o.posts \o c
  <2>4. /\ s \in Seq(Status) /\ peer'.posted = peer.posted \o s
        /\ peer.serverConnected /\ peer.server /\ ~peer'.server =>
             Some(s, ServerEnds) \/ Flushed(peer'.forServer)
        /\ peer.serverConnected /\ peer.client /\ ~peer'.client =>
             Some(s, ClientEnds) \/ Flushed(peer'.forClient)
    BY <2>3 DEF Became
  <2> HIDE DEF s
  <2>5. QED BY <1>1, <2>4, SomeIsNew
<1>3. CASE Kick
  <2> DEFINE s == <<"SERVER_DISCONNECTED_OK">>
  <2>1. s \in Seq(Status) /\ Some(s, ServerEnds)
    BY DEF Status, Some, ServerEnds, Life!ServerEnds
  <2>2. peer'.posted = peer.posted \o s
    BY <1>3, KickLife DEF Kick, LivingInv
  <2> HIDE DEF s
  <2>3. NewMessages \cap ServerEnds # {}
    BY <1>1, <2>1, <2>2, SomeIsNew
  <2>4. kicks' # kicks
    BY <1>3, KicksAssumption DEF Kick, LivingInv, Inv
  <2>5. QED BY <2>3, <2>4
<1>4. CASE Delete \/ UNCHANGED vars
  <2>1. peer' = peer
    BY <1>4 DEF Delete, vars
  <2>2. QED BY <2>1
<1>5. QED BY <1>2, <1>3, <1>4 DEF Next

(* A socket of an established connection that is closed although nothing   *)
(* was wrong with its side, and nobody asked for it, has been sent every   *)
(* byte that was read for it: closeClient, closeServer and the two flushes *)
(* close the other side only when nothing waits for it.                    *)
THEOREM SocketsAreFlushed == Spec => FlushedBeforeClose
<1> DEFINE A == /\ (/\ peer.serverConnected /\ peer.server /\ ~peer'.server
                    /\ NewMessages \cap {"SERVER_DISCONNECTED_OK",
                                         "SERVER_CONNECTION_LOST"} = {})
                   => Len(peer'.forServer.given) = peer'.forServer.taken
                /\ (/\ peer.client /\ ~peer'.client
                    /\ kicks' = kicks
                    /\ peer.serverConnected
                    /\ NewMessages \cap {"CLIENT_DISCONNECTED_OK",
                                         "CLIENT_CONNECTION_LOST"} = {})
                   => Len(peer'.forClient.given) = peer'.forClient.taken
<1>1. ASSUME LivingInv, [Next]_vars PROVE A
  <2>1. /\ ServerEnds = {"SERVER_DISCONNECTED_OK", "SERVER_CONNECTION_LOST"}
        /\ ClientEnds = {"CLIENT_DISCONNECTED_OK", "CLIENT_CONNECTION_LOST"}
    BY DEF ServerEnds, ClientEnds, Life!ServerEnds, Life!ClientEnds
  <2>2. QED BY <1>1, <2>1, NextFlushes DEF Flushed
<1>2. LivingInv /\ [Next]_vars => [A]_vars
  BY <1>1
<1>3. QED BY <1>2, SpecLives, PTL DEF Spec, FlushedBeforeClose
=============================================================================
