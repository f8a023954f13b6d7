------------------- MODULE ThreadedConnectionManagerProofs -------------------
(***************************************************************************)
(* What the threads of a manager never do to its lists, proved for any     *)
(* number of peers and requests and any size of the pipe, wherever the     *)
(* threads are: ListsAreSound, NothingLeaks and NoLostWakeup.              *)
(*                                                                         *)
(* All three follow from one invariant, Inv, whose parts are stated first. *)
(* Some of them hold always; the lists are what they should be (Untorn)    *)
(* until a del() comes between the two steps of an add(), and what is left *)
(* then is a memory whose entries were all made once (Made).  What the     *)
(* calls of the lists return comes next, then one lemma for every part of  *)
(* Inv, with a step for every action that can disturb it, and the          *)
(* theorems.                                                               *)
(***************************************************************************)
EXTENDS ThreadedConnectionManager, ListFacts

LoopPlaces == {"top", "purge", "collect", "uncount", "select", "read", "manage",
               "manageConnecting", "done", "undefined"}
BindPlaces == {"idle", "connect", "counting", "adding", "stored", "added"}

LoopRecords == [pc : LoopPlaces, i : Nat \ {0}, current : Int,
                watched : SUBSET Peers, ready : SUBSET Peers]
BindRecords == [pc : BindPlaces, peer : PeerOrNone, current : Int]
CloserRecords == [pc : {"idle", "stored", "added"}, requests : 0 .. MaxRequests]

(* The lists of ptypes with objects of S. *)
Objects(S) == [memory : Seq(S), count : Nat, add : {"none", "begun", "torn"}]

AllPhases == Phases \cup {"none", "deleted"}

(* The types, with the shapes of the records. *)
Types ==
  /\ TypeOK
  /\ connecting_peer_list \in Objects(Peers)
  /\ to_be_closed \in Objects(Peers)
  /\ phase \in [Peers -> AllPhases]
  /\ loop \in LoopRecords
  /\ bind \in BindRecords
  /\ closer \in CloserRecords

(* What is in a list, or is left in its memory, was made. *)
MadePeers == {p \in Peers : phase[p] # "none"}

Made ==
  /\ peer_list \in Seq(MadePeers)
  /\ connecting_peer_list.memory \in Seq(MadePeers)

(* What an add() will count was stored. *)
Storing ==
  /\ bind.pc = "stored" =>
       connecting_peer_list.count < Len(connecting_peer_list.memory)
  /\ closer.pc = "stored" => to_be_closed.count < Len(to_be_closed.memory)

(* The peer of the accept thread is not made before addConnectionPeer, and  *)
(* the end waits for it.                                                    *)
Chosen ==
  /\ bind.pc # "idle" => bind.peer \in Peers /\ ~finish
  /\ bind.pc = "connect" => phase[bind.peer] = "none"
  /\ bind.pc \notin {"idle", "connect"} => phase[bind.peer] # "none"

(* The peers that the walk has passed are watched: an added one is behind   *)
(* it, and the one it deletes was not passed.                               *)
Passed ==
  loop.pc \in {"collect", "uncount"} =>
    \A j \in 1 .. loop.i - 1 : j <= Len(Listed) /\ Listed[j] \in loop.watched

(* A request that came after the purge has its byte in the pipe, or its     *)
(* thread is about to write it: only the loop takes bytes, and not here.    *)
Requested ==
  loop.pc \in {"collect", "uncount", "select"} /\ to_be_closed.count > 0 =>
    pipe > 0 \/ closer.pc = "added"

(* The same of a peer that came after the walk, and of the end. *)
Woken ==
  loop.pc = "select" =>
    /\ ~(ToSet(Listed) \subseteq loop.watched) => pipe > 0 \/ bind.pc = "added"
    /\ finish => pipe > 0

(* The peer that is in no list yet is in the hands of the accept thread,    *)
(* and what it has stored is counted next.                                  *)
InHand == bind.pc \in {"counting", "adding", "stored"}

Handing ==
  /\ InHand => phase[bind.peer] = "connecting" /\ bind.peer \notin ToSet(Listed)
  /\ connecting_peer_list.add = IF bind.pc = "stored" THEN "begun" ELSE "none"
  /\ bind.pc = "stored" =>
       connecting_peer_list.memory[connecting_peer_list.count + 1] = bind.peer

(* A peer that exists is in a list, or in those hands. *)
Followed ==
  \A p \in Peers :
    phase[p] \in Phases => p \in ToSet(Listed) \/ (InHand /\ p = bind.peer)

Untorn == Sound /\ loop.pc # "undefined" /\ Handing /\ Followed

Inv ==
  /\ Types /\ Made /\ Storing /\ Chosen
  /\ Passed /\ Requested /\ Woken
  /\ (Torn(connecting_peer_list) \/ Untorn)

-----------------------------------------------------------------------------
(* The calls of the lists. *)

LEMMA MoreObjects ==
  ASSUME NEW S, NEW T, S \subseteq T, NEW s \in Seq(S)
  PROVE  s \in Seq(T)
<1>1. /\ Len(s) \in Nat
      /\ s \in [1 .. Len(s) -> S]
  BY LenProperties
<1>2. s \in [1 .. Len(s) -> T]
  BY <1>1
<1>3. QED
  BY <1>1, <1>2, SeqDef

LEMMA ItemsPlaces ==
  ASSUME NEW S, NEW l \in Objects(S), l.count <= Len(l.memory)
  PROVE  /\ Items(l) \in Seq(S)
         /\ Len(Items(l)) = l.count
         /\ \A j \in 1 .. l.count : Items(l)[j] = l.memory[j]
<1>1. l.memory \in Seq(S) /\ Len(l.memory) \in Nat /\ l.count \in Nat
  BY LenProperties DEF Objects
<1>2. \A j \in 1 .. l.count : l.memory[j] \in S
  BY <1>1, ElementOfSeq
<1>3. /\ SubSeq(l.memory, 1, l.count) \in Seq(S)
      /\ Len(SubSeq(l.memory, 1, l.count)) =
           IF 1 <= l.count THEN l.count - 1 + 1 ELSE 0
      /\ \A j \in 1 .. l.count - 1 + 1 :
           SubSeq(l.memory, 1, l.count)[j] = l.memory[1 + j - 1]
  BY <1>1, <1>2, SubSeqProperties
<1>4. \A j \in 1 .. l.count : j \in 1 .. l.count - 1 + 1 /\ 1 + j - 1 = j
  BY <1>1
<1>5. QED
  BY <1>1, <1>3, <1>4 DEF Items

(* The first step of add() puts the peer behind the last one... *)
LEMMA StoredItems ==
  ASSUME NEW S, NEW l \in Objects(S), l.count <= Len(l.memory), NEW p \in S
  PROVE  /\ Stored(l, p) \in Objects(S)
         /\ Stored(l, p).count = l.count
         /\ l.count < Len(Stored(l, p).memory)
         /\ Stored(l, p).memory[l.count + 1] = p
         /\ Items(Stored(l, p)) = Items(l)
         /\ Stored(l, p).add = IF l.add = "torn" THEN "torn" ELSE "begun"
<1> DEFINE a == SubSeq(l.memory, 1, l.count)
           one == <<p>>
           b == SubSeq(l.memory, l.count + 2, Len(l.memory))
           m == Stored(l, p)
<1>1. l.memory \in Seq(S) /\ Len(l.memory) \in Nat /\ l.count \in Nat
  BY LenProperties DEF Objects
<1>2. /\ a \in Seq(S)
      /\ Len(a) = l.count
      /\ a = Items(l)
  BY ItemsPlaces DEF Items
<1>3. /\ one \in Seq(S)
      /\ Len(one) = 1
      /\ one[1] = p
  OBVIOUS
<1>4. b \in Seq(S) /\ Len(b) \in Nat
  <2>1. \A j \in l.count + 2 .. Len(l.memory) : l.memory[j] \in S
    BY <1>1, ElementOfSeq
  <2>2. l.count + 2 \in Int /\ Len(l.memory) \in Int
    BY <1>1
  <2>3. b \in Seq(S)
    BY <2>1, <2>2, SubSeqProperties
  <2>4. QED
    BY <2>3, LenProperties
<1>5. m = [[l EXCEPT !.memory = a \o one \o b]
             EXCEPT !.add = IF @ = "torn" THEN "torn" ELSE "begun"]
  BY DEF Stored
<1> HIDE DEF a, b, one, m
<1>6. /\ a \o one \in Seq(S)
      /\ Len(a \o one) = l.count + 1
      /\ \A j \in 1 .. l.count : (a \o one)[j] = a[j]
      /\ (a \o one)[l.count + 1] = p
  <2>0. a \in Seq(S) /\ one \in Seq(S)
    BY <1>2, <1>3
  <2>1. /\ a \o one \in Seq(S)
        /\ Len(a \o one) = Len(a) + Len(one)
        /\ \A j \in 1 .. Len(a) + Len(one) :
             (a \o one)[j] = IF j <= Len(a) THEN a[j] ELSE one[j - Len(a)]
    BY <2>0, ConcatProperties
  <2>2. QED
    BY <1>1, <1>2, <1>3, <2>1
<1>7. /\ (a \o one) \o b \in Seq(S)
      /\ Len((a \o one) \o b) = l.count + 1 + Len(b)
      /\ \A j \in 1 .. l.count + 1 : ((a \o one) \o b)[j] = (a \o one)[j]
  <2> DEFINE c == a \o one
  <2>1. c \in Seq(S) /\ Len(c) = l.count + 1
    BY <1>6
  <2> HIDE DEF c
  <2>2. /\ c \o b \in Seq(S)
        /\ Len(c \o b) = Len(c) + Len(b)
        /\ \A j \in 1 .. Len(c) + Len(b) :
             (c \o b)[j] = IF j <= Len(c) THEN c[j] ELSE b[j - Len(c)]
    BY <1>4, <2>1, ConcatProperties
  <2>3. \A j \in 1 .. l.count + 1 : j \in 1 .. Len(c) + Len(b) /\ j <= Len(c)
    BY <1>1, <1>4, <2>1
  <2>4. /\ c \o b \in Seq(S)
        /\ Len(c \o b) = l.count + 1 + Len(b)
        /\ \A j \in 1 .. l.count + 1 : (c \o b)[j] = c[j]
    BY <2>1, <2>2, <2>3
  <2>5. QED
    BY <2>4 DEF c
<1>8. /\ m.memory = (a \o one) \o b
      /\ m.count = l.count
      /\ m.add = IF l.add = "torn" THEN "torn" ELSE "begun"
      /\ m \in Objects(S)
  <2> DEFINE c == (a \o one) \o b
             n == [l EXCEPT !.memory = c]
  <2>1. c \in Seq(S)
    BY <1>7
  <2> HIDE DEF c
  <2>2. /\ n \in Objects(S)
        /\ n.memory = c
        /\ n.count = l.count
        /\ n.add = l.add
    BY <2>1 DEF Objects
  <2>3. m = [n EXCEPT !.add = IF @ = "torn" THEN "torn" ELSE "begun"]
    BY <1>5 DEF c
  <2> HIDE DEF n
  <2>4. /\ m \in Objects(S)
        /\ m.memory = c
        /\ m.count = l.count
        /\ m.add = IF l.add = "torn" THEN "torn" ELSE "begun"
    BY <2>2, <2>3 DEF Objects
  <2>5. QED
    BY <2>4 DEF c
<1>9. l.count < Len(m.memory)
  BY <1>1, <1>4, <1>7, <1>8
<1>10. m.memory[l.count + 1] = p
  BY <1>1, <1>6, <1>7, <1>8
<1>11. \A j \in 1 .. l.count : m.memory[j] = a[j]
  BY <1>1, <1>6, <1>7, <1>8
<1>12. Items(m) = Items(l)
  <2>1. /\ Items(m) \in Seq(S)
        /\ Len(Items(m)) = l.count
        /\ \A j \in 1 .. l.count : Items(m)[j] = m.memory[j]
    BY <1>1, <1>8, <1>9, ItemsPlaces
  <2>2. \A j \in 1 .. l.count : Items(m)[j] = a[j]
    BY <1>11, <2>1
  <2>3. Items(m) = a
    BY <1>2, <2>1, <2>2, SeqEqual
  <2>4. QED
    BY <1>2, <2>3
<1>13. QED
  BY <1>8, <1>9, <1>10, <1>12 DEF m

(* ... and the second makes it one of the list... *)
LEMMA CountedItems ==
  ASSUME NEW S, NEW l \in Objects(S), l.count < Len(l.memory)
  PROVE  /\ Counted(l) \in Objects(S)
         /\ Counted(l).memory = l.memory
         /\ Counted(l).count <= Len(l.memory)
         /\ l.memory[l.count + 1] \in S
         /\ Items(Counted(l)) = Append(Items(l), l.memory[l.count + 1])
         /\ Counted(l).add = IF l.add = "torn" THEN "torn" ELSE "none"
<1> DEFINE m == Counted(l)
           p == l.memory[l.count + 1]
<1>1. l.memory \in Seq(S) /\ Len(l.memory) \in Nat /\ l.count \in Nat
  BY LenProperties DEF Objects
<1>2. p \in S
  BY <1>1, ElementOfSeq
<1>3. /\ m \in Objects(S)
      /\ m.memory = l.memory
      /\ m.count = l.count + 1
      /\ m.add = IF l.add = "torn" THEN "torn" ELSE "none"
  <2> DEFINE n == [l EXCEPT !.count = @ + 1]
  <2>1. /\ n \in Objects(S)
        /\ n.memory = l.memory
        /\ n.count = l.count + 1
        /\ n.add = l.add
    BY DEF Objects
  <2>2. m = [n EXCEPT !.add = IF @ = "torn" THEN "torn" ELSE "none"]
    BY DEF Counted
  <2> HIDE DEF n
  <2>3. QED
    BY <2>1, <2>2 DEF Objects
<1> HIDE DEF m
<1>4. /\ Items(m) \in Seq(S)
      /\ Len(Items(m)) = l.count + 1
      /\ \A j \in 1 .. l.count + 1 : Items(m)[j] = l.memory[j]
  BY <1>1, <1>3, ItemsPlaces
<1>5. /\ Items(l) \in Seq(S)
      /\ Len(Items(l)) = l.count
      /\ \A j \in 1 .. l.count : Items(l)[j] = l.memory[j]
  BY <1>1, ItemsPlaces
<1> HIDE DEF p
<1>6. /\ Append(Items(l), p) \in Seq(S)
      /\ Len(Append(Items(l), p)) = l.count + 1
      /\ \A j \in 1 .. l.count : Append(Items(l), p)[j] = Items(l)[j]
      /\ Append(Items(l), p)[l.count + 1] = p
  BY <1>2, <1>5, AppendProperties
<1>7. \A j \in 1 .. l.count + 1 : Items(m)[j] = Append(Items(l), p)[j]
  <2> TAKE j \in 1 .. l.count + 1
  <2>1. CASE j = l.count + 1
    BY <1>1, <1>4, <1>6, <2>1 DEF p
  <2>2. CASE j # l.count + 1
    <3>1. j \in 1 .. l.count
      BY <1>1, <2>2
    <3>2. QED
      BY <1>4, <1>5, <1>6, <3>1
  <2>3. QED
    BY <2>1, <2>2
<1>8. Items(m) = Append(Items(l), p)
  BY <1>4, <1>6, <1>7, SeqEqual
<1>9. QED
  BY <1>1, <1>2, <1>3, <1>8 DEF m, p

(* ... and del() takes one out. *)
LEMMA DeletedItems ==
  ASSUME NEW S, NEW l \in Objects(S), l.count <= Len(l.memory),
         NEW i \in 1 .. l.count
  PROVE  /\ Deleted(l, i) \in Objects(S)
         /\ Deleted(l, i).count = l.count - 1
         /\ Len(Deleted(l, i).memory) = Len(l.memory)
         /\ Items(Deleted(l, i)) = RemoveAt(Items(l), i)
         /\ Deleted(l, i).add = IF l.add = "none" THEN "none" ELSE "torn"
<1> DEFINE e(j) == IF j >= i /\ j < l.count THEN l.memory[j + 1] ELSE l.memory[j]
           mem == [j \in 1 .. Len(l.memory) |-> e(j)]
           d == Deleted(l, i)
<1>1. /\ l.memory \in Seq(S) /\ Len(l.memory) \in Nat
      /\ l.count \in Nat /\ i \in Nat /\ 1 <= i /\ i <= l.count
  BY LenProperties DEF Objects
<1>2. \A j \in 1 .. Len(l.memory) : e(j) \in S
  BY <1>1, ElementOfSeq
<1>3. /\ mem \in Seq(S)
      /\ \A j \in 1 .. Len(l.memory) : mem[j] = e(j)
  <2>1. mem \in [1 .. Len(l.memory) -> S]
    BY <1>2
  <2>2. QED
    BY <1>1, <2>1, SeqDef
<1>4. Len(mem) = Len(l.memory)
  <2>1. DOMAIN mem = 1 .. Len(l.memory)
    OBVIOUS
  <2>2. DOMAIN mem = 1 .. Len(mem) /\ Len(mem) \in Nat
    BY <1>3, LenProperties
  <2>3. QED
    BY <1>1, <2>1, <2>2
<1>5. d = [memory |-> mem, count |-> l.count - 1,
           add |-> IF l.add = "none" THEN "none" ELSE "torn"]
  BY DEF Deleted
<1> HIDE DEF mem, d
<1>6. /\ d \in Objects(S)
      /\ d.count = l.count - 1
      /\ d.memory = mem
      /\ d.count <= Len(d.memory)
      /\ d.add = IF l.add = "none" THEN "none" ELSE "torn"
  BY <1>1, <1>3, <1>4, <1>5 DEF Objects
<1>7. /\ Items(d) \in Seq(S)
      /\ Len(Items(d)) = l.count - 1
      /\ \A j \in 1 .. l.count - 1 : Items(d)[j] = mem[j]
  BY <1>6, ItemsPlaces
<1>8. /\ Items(l) \in Seq(S)
      /\ Len(Items(l)) = l.count
      /\ \A j \in 1 .. l.count : Items(l)[j] = l.memory[j]
  BY ItemsPlaces
<1>9. /\ RemoveAt(Items(l), i) \in Seq(S)
      /\ Len(RemoveAt(Items(l), i)) = l.count - 1
      /\ \A j \in 1 .. l.count - 1 :
           RemoveAt(Items(l), i)[j] =
             IF j < i THEN Items(l)[j] ELSE Items(l)[j + 1]
  <2> DEFINE items == Items(l)
  <2>1. items \in Seq(S) /\ Len(items) = l.count /\ i \in 1 .. Len(items)
    BY <1>8
  <2> HIDE DEF items
  <2>2. /\ RemoveAt(items, i) \in Seq(S)
        /\ Len(RemoveAt(items, i)) = Len(items) - 1
        /\ \A j \in 1 .. Len(items) - 1 :
             RemoveAt(items, i)[j] = IF j < i THEN items[j] ELSE items[j + 1]
    BY <2>1, RemovedPlaces
  <2>3. QED
    BY <2>1, <2>2 DEF items
<1>10. ASSUME NEW j \in 1 .. l.count - 1
       PROVE  Items(d)[j] = RemoveAt(Items(l), i)[j]
  <2>1. /\ j \in 1 .. l.count /\ j + 1 \in 1 .. l.count
        /\ j \in 1 .. Len(l.memory) /\ j < l.count
    BY <1>1
  <2>2. Items(d)[j] = e(j)
    BY <1>3, <1>7, <2>1
  <2>3. CASE j < i
    BY <1>1, <1>8, <1>9, <2>1, <2>2, <2>3
  <2>4. CASE ~(j < i)
    BY <1>1, <1>8, <1>9, <2>1, <2>2, <2>4
  <2>5. QED
    BY <2>3, <2>4
<1>11. Items(d) = RemoveAt(Items(l), i)
  BY <1>7, <1>9, <1>10, SeqEqual
<1>12. QED
  BY <1>4, <1>6, <1>11 DEF d

(* Emptying a list leaves its memory. *)
LEMMA EmptiedItems ==
  ASSUME NEW S, NEW l \in Objects(S)
  PROVE  /\ [l EXCEPT !.count = 0] \in Objects(S)
         /\ [l EXCEPT !.count = 0].memory = l.memory
         /\ [l EXCEPT !.count = 0].count = 0
         /\ [l EXCEPT !.count = 0].add = l.add
         /\ Items([l EXCEPT !.count = 0]) = <<>>
<1> DEFINE m == [l EXCEPT !.count = 0]
<1>1. /\ m \in Objects(S)
      /\ m.memory = l.memory
      /\ m.count = 0
      /\ m.add = l.add
  BY DEF Objects
<1> HIDE DEF m
<1>2. m.memory \in Seq(S)
  BY <1>1 DEF Objects
<1>3. Items(m) = <<>>
  BY <1>1, <1>2, SubSeqEmpty DEF Items
<1>4. QED
  BY <1>1, <1>3 DEF m

-----------------------------------------------------------------------------
(* The lists of a manager, one behind the other. *)

LEMMA ListedPlaces ==
  ASSUME Types
  PROVE  /\ peer_list \in Seq(Peers)
         /\ connecting \in Seq(Peers)
         /\ Len(connecting) = connecting_peer_list.count
         /\ Listed \in Seq(Peers)
         /\ Len(peer_list) \in Nat
         /\ Len(connecting) \in Nat
         /\ Len(Listed) = Len(peer_list) + Len(connecting)
         /\ ToSet(Listed) = ToSet(peer_list) \cup ToSet(connecting)
         /\ ToSet(Listed) \subseteq Peers
<1>1. /\ connecting_peer_list \in Objects(Peers)
      /\ connecting_peer_list.count <= Len(connecting_peer_list.memory)
      /\ peer_list \in Seq(Peers)
  BY LenProperties DEF Types, TypeOK
<1>2. connecting \in Seq(Peers) /\ Len(connecting) = connecting_peer_list.count
  BY <1>1, ItemsPlaces DEF connecting
<1>3. /\ Listed \in Seq(Peers)
      /\ Len(Listed) = Len(peer_list) + Len(connecting)
  <2>1. connecting \in Seq(Peers) /\ peer_list \in Seq(Peers)
    BY <1>1, <1>2
  <2>2. QED
    BY <2>1, ConcatProperties DEF Listed
<1>4. ToSet(Listed) = ToSet(peer_list) \cup ToSet(connecting)
  BY <1>1, <1>2, JoinedMembers DEF Listed
<1>5. QED
  BY <1>1, <1>2, <1>3, <1>4, ListMembers, LenProperties

LEMMA ListedStay ==
  ASSUME UNCHANGED <<peer_list, connecting_peer_list>>
  PROVE  Listed' = Listed
  BY DEF Listed, connecting, Items

(* What is at a place of the lists. *)
LEMMA AtPlace ==
  ASSUME Types
  PROVE  /\ \A i \in 1 .. Len(Listed) : Listed[i] \in ToSet(Listed)
         /\ \A i \in 1 .. Len(peer_list) : peer_list[i] \in ToSet(Listed)
         /\ \A i \in 1 .. Len(connecting) : connecting[i] \in ToSet(Listed)
<1>1. /\ peer_list \in Seq(Peers) /\ connecting \in Seq(Peers)
      /\ Listed \in Seq(Peers)
      /\ ToSet(Listed) = ToSet(peer_list) \cup ToSet(connecting)
  BY ListedPlaces
<1>2. /\ ToSet(Listed) = {Listed[i] : i \in 1 .. Len(Listed)}
      /\ ToSet(peer_list) = {peer_list[i] : i \in 1 .. Len(peer_list)}
      /\ ToSet(connecting) = {connecting[i] : i \in 1 .. Len(connecting)}
  BY <1>1, ListMembers
<1>3. QED
  BY <1>1, <1>2


(* The records of the threads: an assignment leaves a record. *)
LEMMA LoopFields ==
  ASSUME NEW l \in LoopRecords
  PROVE  /\ \A pc \in LoopPlaces : [l EXCEPT !.pc = pc] \in LoopRecords
         /\ \A i \in Nat \ {0} : [l EXCEPT !.i = i] \in LoopRecords
         /\ \A c \in Int : [l EXCEPT !.current = c] \in LoopRecords
         /\ \A w \in SUBSET Peers : [l EXCEPT !.watched = w] \in LoopRecords
         /\ \A r \in SUBSET Peers : [l EXCEPT !.ready = r] \in LoopRecords
  BY DEF LoopRecords

LEMMA BindFields ==
  ASSUME NEW b \in BindRecords
  PROVE  /\ \A pc \in BindPlaces : [b EXCEPT !.pc = pc] \in BindRecords
         /\ \A p \in PeerOrNone : [b EXCEPT !.peer = p] \in BindRecords
         /\ \A c \in Int : [b EXCEPT !.current = c] \in BindRecords
  BY DEF BindRecords

LEMMA LoopGoes ==
  ASSUME loop \in LoopRecords, NEW pc \in LoopPlaces
  PROVE  /\ Goto(pc) \in LoopRecords
         /\ Goto(pc).pc = pc
         /\ Goto(pc).i = 1
         /\ Goto(pc).watched = loop.watched
<1> DEFINE l == [loop EXCEPT !.pc = pc]
<1>1. l \in LoopRecords
  BY LoopFields
<1>2. Goto(pc) = [l EXCEPT !.i = 1]
  BY DEF Goto
<1> HIDE DEF l
<1>3. 1 \in Nat \ {0}
  OBVIOUS
<1>4. Goto(pc) \in LoopRecords
  BY <1>1, <1>2, <1>3, LoopFields
<1>5. /\ Goto(pc).pc = pc
      /\ Goto(pc).i = 1
      /\ Goto(pc).watched = loop.watched
  BY DEF LoopRecords, Goto
<1>6. QED
  BY <1>4, <1>5

LEMMA LoopAdvances ==
  ASSUME loop \in LoopRecords
  PROVE  /\ Advance \in LoopRecords
         /\ Advance.pc = loop.pc
         /\ Advance.i = loop.i + 1
         /\ Advance.watched = loop.watched
<1>1. loop.i + 1 \in Nat \ {0}
  BY DEF LoopRecords
<1>2. Advance \in LoopRecords
  BY <1>1, LoopFields DEF Advance
<1>3. QED
  BY <1>2 DEF LoopRecords, Advance

(* The fields of a thread's record. *)
LEMMA ThreadFields ==
  ASSUME Types
  PROVE  /\ loop \in LoopRecords
         /\ loop.pc \in LoopPlaces
         /\ loop.i \in Nat \ {0}
         /\ loop.current \in Int
         /\ loop.watched \subseteq Peers
         /\ loop.ready \subseteq Peers
         /\ bind \in BindRecords
         /\ bind.pc \in BindPlaces
         /\ bind.peer \in PeerOrNone
         /\ bind.current \in Int
  BY DEF Types, LoopRecords, BindRecords

-----------------------------------------------------------------------------
(* What the steps that change the lists do to them, torn or not. *)

LEMMA ConnectingList ==
  ASSUME Types
  PROVE  /\ connecting_peer_list \in Objects(Peers)
         /\ connecting_peer_list.count \in Nat
         /\ connecting_peer_list.count <= Len(connecting_peer_list.memory)
  BY DEF Types, TypeOK, Objects

(* The peer is behind the last one... *)
LEMMA StoreEffect ==
  ASSUME Types, Chosen, BindStore
  PROVE  /\ bind.peer \in Peers
         /\ connecting_peer_list'.count = connecting_peer_list.count
         /\ connecting_peer_list.count < Len(connecting_peer_list'.memory)
         /\ connecting_peer_list'.memory[connecting_peer_list.count + 1] = bind.peer
         /\ connecting_peer_list'.add =
              IF connecting_peer_list.add = "torn" THEN "torn" ELSE "begun"
         /\ Listed' = Listed
<1>1. bind.peer \in Peers
  BY DEF BindStore, Chosen
<1>2. connecting_peer_list' = Stored(connecting_peer_list, bind.peer) /\ peer_list' = peer_list
  BY DEF BindStore
<1>3. connecting' = connecting
  BY <1>1, <1>2, ConnectingList, StoredItems DEF connecting
<1>4. QED
  BY <1>1, <1>2, <1>3, ConnectingList, StoredItems DEF Listed

(* ... and then in the list. *)
LEMMA CountEffect ==
  ASSUME Types, Storing, BindCount
  PROVE  LET p == connecting_peer_list.memory[connecting_peer_list.count + 1]
         IN  /\ p \in Peers
             /\ Listed' = Append(Listed, p)
             /\ connecting_peer_list'.add =
                  IF connecting_peer_list.add = "torn" THEN "torn" ELSE "none"
<1> DEFINE l == connecting_peer_list
           p == l.memory[l.count + 1]
<1>1. l \in Objects(Peers) /\ l.count < Len(l.memory)
  BY ConnectingList DEF BindCount, Storing
<1>2. connecting_peer_list' = Counted(l) /\ peer_list' = peer_list
  BY DEF BindCount
<1>3. /\ p \in Peers
      /\ connecting' = Append(connecting, p)
      /\ connecting_peer_list'.add = IF l.add = "torn" THEN "torn" ELSE "none"
  BY <1>1, <1>2, CountedItems DEF connecting
<1> HIDE DEF p
<1>4. Listed' = peer_list \o Append(connecting, p)
  BY <1>2, <1>3 DEF Listed
<1>5. peer_list \o Append(connecting, p) = Append(peer_list \o connecting, p)
  <2> DEFINE c == connecting
             one == <<p>>
  <2>1. peer_list \in Seq(Peers) /\ c \in Seq(Peers) /\ one \in Seq(Peers)
    BY <1>3, ListedPlaces
  <2> HIDE DEF c
  <2>2. Append(c, p) = c \o one /\ peer_list \o c \in Seq(Peers)
    BY <1>3, <2>1, AppendIsConcat, ConcatProperties
  <2>3. Append(peer_list \o c, p) = (peer_list \o c) \o one
    BY <1>3, <2>2, AppendIsConcat
  <2> HIDE DEF one
  <2>4. (peer_list \o c) \o one = peer_list \o (c \o one)
    BY <2>1, ConcatAssociative
  <2>5. QED
    BY <2>2, <2>3, <2>4 DEF c
<1>6. Listed' = Append(Listed, p)
  BY <1>4, <1>5 DEF Listed
<1>7. QED
  BY <1>3, <1>6 DEF p

(* The peer the loop is at is in no list any more. *)
LEMMA DeleteEffect ==
  ASSUME Types, LoopDelete
  PROVE  /\ loop.i \in 1 .. Len(Listed)
         /\ Listed' = RemoveAt(Listed, loop.i)
         /\ \/ connecting_peer_list' = connecting_peer_list
            \/ connecting_peer_list'.add =
                 IF connecting_peer_list.add = "none" THEN "none" ELSE "torn"
         /\ phase' = [phase EXCEPT ![Listed[loop.i]] = "deleted"]
<1> DEFINE l == connecting_peer_list
           n == Len(peer_list)
           k == loop.i - n
<1>1. /\ l \in Objects(Peers)
      /\ l.count <= Len(l.memory)
      /\ peer_list \in Seq(Peers)
      /\ connecting \in Seq(Peers)
      /\ n \in Nat /\ l.count \in Nat
      /\ Len(connecting) = l.count
      /\ Len(Listed) = n + l.count
  BY ListedPlaces, ConnectingList DEF Types, TypeOK
<1>2. loop.i \in 1 .. Len(Listed)
  BY <1>1, ThreadFields DEF LoopDelete
<1>3. CASE loop.i <= n
  <2>1. /\ peer_list' = RemoveAt(peer_list, loop.i)
        /\ connecting_peer_list' = connecting_peer_list
    BY <1>3 DEF LoopDelete
  <2>2. loop.i \in 1 .. n
    BY <1>2, <1>3
  <2>3. RemoveAt(Listed, loop.i) = RemoveAt(peer_list, loop.i) \o connecting
    BY <1>1, <2>2, RemovedBefore DEF Listed
  <2>4. Listed' = RemoveAt(peer_list, loop.i) \o connecting
    BY <2>1 DEF Listed, connecting
  <2>5. QED
    BY <1>2, <2>1, <2>3, <2>4 DEF LoopDelete
<1>4. CASE loop.i > n
  <2>1. /\ peer_list' = peer_list
        /\ connecting_peer_list' = Deleted(l, k)
    BY <1>1, <1>2, <1>4 DEF LoopDelete
  <2>2. k \in 1 .. l.count /\ loop.i = n + k
    BY <1>1, <1>2, <1>4
  <2> HIDE DEF k
  <2>3. /\ connecting_peer_list'.add = IF l.add = "none" THEN "none" ELSE "torn"
        /\ connecting' = RemoveAt(connecting, k)
    BY <1>1, <2>1, <2>2, DeletedItems DEF connecting
  <2>4. RemoveAt(Listed, n + k) = peer_list \o RemoveAt(connecting, k)
    <3>1. k \in 1 .. Len(connecting)
      BY <1>1, <2>2
    <3>2. QED
      BY <1>1, <3>1, RemovedBehind DEF Listed
  <2>5. Listed' = peer_list \o RemoveAt(connecting, k)
    BY <2>1, <2>3 DEF Listed
  <2>6. QED
    BY <1>2, <2>2, <2>3, <2>4, <2>5 DEF LoopDelete
<1>5. QED
  BY <1>1, <1>2, <1>3, <1>4

(* cleanup() empties the lists. *)
LEMMA EndEffect ==
  ASSUME Types, LoopEnd
  PROVE  /\ Listed' = <<>>
         /\ connecting_peer_list'.add = connecting_peer_list.add
<1>1. /\ connecting_peer_list' = [connecting_peer_list EXCEPT !.count = 0]
      /\ peer_list' = <<>>
  BY DEF LoopEnd
<1>2. connecting' = <<>> /\ connecting_peer_list'.add = connecting_peer_list.add
  BY <1>1, ConnectingList, EmptiedItems DEF connecting
<1>3. QED
  BY <1>1, <1>2 DEF Listed

(* A peer that is connected goes from one list to the other, and the others *)
(* of a round leave the lists alone.                                        *)
LEMMA ManageConnectingEffect ==
  ASSUME Types, LoopManageConnecting
  PROVE  /\ loop.i \in 1 .. Len(connecting)
         /\ loop.i \in 1 .. connecting_peer_list.count
         /\ connecting[loop.i] = connecting_peer_list.memory[loop.i]
         /\ \/ UNCHANGED <<peer_list, connecting_peer_list>>
            \/ /\ connecting_peer_list' = Deleted(connecting_peer_list, loop.i)
               /\ peer_list' = Append(peer_list, connecting[loop.i])
               /\ connecting_peer_list'.add =
                    IF connecting_peer_list.add = "none" THEN "none" ELSE "torn"
<1>1. loop.i \in 1 .. Len(connecting) /\ Len(connecting) = connecting_peer_list.count
  BY ListedPlaces, ThreadFields DEF LoopManageConnecting
<1>2. connecting[loop.i] = connecting_peer_list.memory[loop.i]
  BY <1>1, ConnectingList, ItemsPlaces DEF connecting
<1>3. Deleted(connecting_peer_list, loop.i).add =
        IF connecting_peer_list.add = "none" THEN "none" ELSE "torn"
  BY <1>1, ConnectingList, DeletedItems
<1>4. QED
  BY <1>1, <1>2, <1>3 DEF LoopManageConnecting

(* The other steps leave the lists alone. *)
LEMMA ListsStay ==
  ASSUME [Next]_vars, ~BindStore, ~BindCount, ~LoopDelete, ~LoopManageConnecting, ~LoopEnd
  PROVE  UNCHANGED <<peer_list, connecting_peer_list>>
<1>1. CASE BindChoose \/ AddConnectionPeer \/ ClosePInfo \/ Stop \/ UNCHANGED vars
  BY <1>1
  DEF BindChoose, AddConnectionPeer, BindRead, BindWrite, BindPost, ClosePInfo,
      CloserRequest, CloserCount, CloserPost, Stop, lists, vars
<1>2. CASE Execute
  BY <1>2
  DEF Execute, LoopTop, LoopPurge, LoopPop, LoopPurged, LoopWatch, LoopUncount,
      LoopCollected, LoopSelect, LoopSelectFails, LoopCheck, LoopManage, LoopManaged,
      LoopAgain, LoopUndefined, lists
<1>3. QED
  BY <1>1, <1>2 DEF Next

(* Whatever is added is in S, and so is everything else. *)
LEMMA ListsHold ==
  ASSUME NEW S, Types, Storing, [Next]_vars,
         peer_list \in Seq(S), connecting_peer_list \in Objects(S),
         BindStore => bind.peer \in S
  PROVE  /\ peer_list' \in Seq(S)
         /\ connecting_peer_list' \in Objects(S)
         /\ connecting_peer_list'.count <= Len(connecting_peer_list'.memory)
<1> DEFINE l == connecting_peer_list
<1>1. /\ peer_list \in Seq(S)
      /\ l \in Objects(S)
      /\ l.count \in Nat
      /\ l.count <= Len(l.memory)
      /\ Len(l.memory) \in Nat
  BY ConnectingList, LenProperties DEF Objects
<1>2. CASE BindStore
  BY <1>1, <1>2, StoredItems DEF BindStore
<1>3. CASE BindCount
  <2>1. l.count < Len(l.memory)
    BY <1>3 DEF BindCount, Storing
  <2>2. QED
    BY <1>1, <1>3, <2>1, CountedItems DEF BindCount
<1>4. CASE LoopDelete
  <2>1. CASE loop.i <= Len(peer_list)
    <3>1. loop.i \in 1 .. Len(peer_list)
      BY <2>1, ListedPlaces, ThreadFields
    <3>2. RemoveAt(peer_list, loop.i) \in Seq(S)
      BY <1>1, <3>1, RemovedPlaces
    <3>3. QED
      BY <1>1, <1>4, <2>1, <3>2 DEF LoopDelete
  <2>2. CASE ~(loop.i <= Len(peer_list))
    <3>1. PICK k : k = loop.i - Len(peer_list)
      OBVIOUS
    <3>2. k \in 1 .. l.count
      BY <1>4, <2>2, <3>1, ListedPlaces, ThreadFields DEF LoopDelete
    <3>3. /\ Deleted(l, k) \in Objects(S)
          /\ Deleted(l, k).count = l.count - 1
          /\ Len(Deleted(l, k).memory) = Len(l.memory)
      BY <1>1, <3>2, DeletedItems
    <3>4. connecting_peer_list' = Deleted(l, k) /\ peer_list' = peer_list
      BY <1>4, <2>2, <3>1 DEF LoopDelete
    <3>5. QED
      BY <1>1, <3>3, <3>4
  <2>3. QED
    BY <2>1, <2>2
<1>5. CASE LoopManageConnecting
  <2>1. CASE UNCHANGED <<peer_list, connecting_peer_list>>
    BY <1>1, <2>1
  <2>2. CASE /\ connecting_peer_list' = Deleted(l, loop.i)
             /\ peer_list' = Append(peer_list, connecting[loop.i])
    <3>1. /\ loop.i \in 1 .. l.count
          /\ connecting[loop.i] = l.memory[loop.i]
      BY <1>5, ManageConnectingEffect
    <3>2. l.memory[loop.i] \in S
      <4>1. l.memory \in Seq(S) /\ loop.i \in 1 .. Len(l.memory)
        BY <1>1, <3>1 DEF Objects
      <4>2. QED
        BY <4>1, ElementOfSeq
    <3>3. peer_list' \in Seq(S)
      BY <1>1, <2>2, <3>1, <3>2, AppendProperties
    <3>4. /\ Deleted(l, loop.i) \in Objects(S)
          /\ Deleted(l, loop.i).count = l.count - 1
          /\ Len(Deleted(l, loop.i).memory) = Len(l.memory)
      BY <1>1, <3>1, DeletedItems
    <3>5. QED
      BY <1>1, <2>2, <3>3, <3>4
  <2>3. QED
    BY <1>5, <2>1, <2>2, ManageConnectingEffect
<1>6. CASE LoopEnd
  <2>1. /\ [l EXCEPT !.count = 0] \in Objects(S)
        /\ [l EXCEPT !.count = 0].memory = l.memory
        /\ [l EXCEPT !.count = 0].count = 0
    BY <1>1, EmptiedItems
  <2>2. <<>> \in Seq(S)
    OBVIOUS
  <2>3. connecting_peer_list' = [l EXCEPT !.count = 0] /\ peer_list' = <<>>
    BY <1>6 DEF LoopEnd
  <2>4. QED
    BY <1>1, <2>1, <2>2, <2>3
<1>7. QED
  BY <1>1, <1>2, <1>3, <1>4, <1>5, <1>6, ListsStay

-----------------------------------------------------------------------------
(* The phases, torn or not: only addConnectionPeer makes a peer, and no     *)
(* step unmakes one.                                                        *)

LEMMA ServedPhases ==
  ASSUME NEW f \in Phases
  PROVE  ServedTo(f) \subseteq Phases
<1>1. \A o \in Served(f) : o.phase \in Phases
  BY DEF Served, Outcome, Connecting, ClientFirst, ServerFirst, Flushing, Phases
<1>2. QED
  BY <1>1 DEF ServedTo

LEMMA ListedAreMade ==
  ASSUME Types, Made
  PROVE  ToSet(Listed) \subseteq MadePeers
<1>1. PICK S : S = MadePeers
  OBVIOUS
<1>2. connecting_peer_list \in Objects(S)
  <2>1. connecting_peer_list \in Objects(Peers) /\ connecting_peer_list.memory \in Seq(S)
    BY <1>1 DEF Types, Made
  <2>2. QED
    BY <2>1 DEF Objects
<1>3. peer_list \in Seq(S) /\ connecting \in Seq(S)
  BY <1>1, <1>2, ConnectingList, ItemsPlaces DEF Made, connecting
<1>4. ToSet(peer_list) \subseteq S /\ ToSet(connecting) \subseteq S
  BY <1>3, ListMembers
<1>5. QED
  BY <1>1, <1>4, ListedPlaces

(* A peer that the loop serves has a phase: it was made, and not deleted. *)
LEMMA WalkedPhases ==
  ASSUME Types, Made, ~UsesFreed
  PROVE  /\ LoopManage => /\ peer_list[loop.i] \in ToSet(Listed)
                          /\ phase[peer_list[loop.i]] \in Phases
         /\ LoopManageConnecting => /\ connecting[loop.i] \in ToSet(Listed)
                                    /\ phase[connecting[loop.i]] \in Phases
<1>1. \A p \in ToSet(Listed) \ Freed : phase[p] \in Phases
  <2>1. \A p \in ToSet(Listed) \ Freed : /\ p \in Peers
                                         /\ phase[p] # "none"
                                         /\ phase[p] # "deleted"
    BY ListedAreMade, ListedPlaces DEF MadePeers, Freed
  <2>2. phase \in [Peers -> AllPhases]
    BY DEF Types
  <2>3. QED
    BY <2>1, <2>2 DEF AllPhases
<1>2. ASSUME LoopManage
      PROVE  peer_list[loop.i] \in ToSet(Listed) \ Freed
  <2>1. loop.pc = "manage" /\ loop.i \in 1 .. Len(peer_list)
    BY <1>2, ListedPlaces, ThreadFields DEF LoopManage
  <2>2. Walked = peer_list
    BY <2>1 DEF Walked
  <2>3. peer_list[loop.i] \notin Freed
    BY <2>1, <2>2 DEF UsesFreed
  <2>4. QED
    BY <2>1, <2>3, AtPlace
<1>3. ASSUME LoopManageConnecting
      PROVE  connecting[loop.i] \in ToSet(Listed) \ Freed
  <2>1. loop.pc = "manageConnecting" /\ loop.i \in 1 .. Len(connecting)
    BY <1>3, ManageConnectingEffect DEF LoopManageConnecting
  <2>2. Walked = connecting
    BY <2>1 DEF Walked
  <2>3. connecting[loop.i] \notin Freed
    BY <2>1, <2>2 DEF UsesFreed
  <2>4. QED
    BY <2>1, <2>3, AtPlace
<1>4. QED
  BY <1>1, <1>2, <1>3

(* One peer in a list is served. *)
Serving ==
  /\ phase' \in [Peers -> AllPhases]
  /\ \A p \in Peers :
       \/ phase'[p] = phase[p]
       \/ p \in ToSet(Listed) /\ phase[p] \in Phases /\ phase'[p] \in Phases

LEMMA OneServed ==
  ASSUME Types, NEW p \in ToSet(Listed), phase[p] \in Phases, NEW f \in Phases,
         phase' = [phase EXCEPT ![p] = f]
  PROVE  Serving
<1>1. phase \in [Peers -> AllPhases] /\ ToSet(Listed) \subseteq Peers
  BY ListedPlaces DEF Types
<1>2. QED
  BY <1>1 DEF AllPhases, Serving

LEMMA NothingServed ==
  ASSUME Types, UNCHANGED phase
  PROVE  Serving
  BY DEF Types, Serving

LEMMA ManageServes ==
  ASSUME Types, Made, LoopManage \/ LoopManageConnecting
  PROVE  Serving
<1>1. CASE LoopManage
  <2>1. PICK p : p = peer_list[loop.i]
    OBVIOUS
  <2>2. p \in ToSet(Listed) /\ phase[p] \in Phases
    BY <1>1, <2>1, WalkedPhases DEF LoopManage
  <2>3. CASE p \in loop.ready
    <3>1. PICK f \in ServedTo(phase[p]) : phase' = [phase EXCEPT ![p] = f]
      BY <1>1, <2>1, <2>3 DEF LoopManage
    <3>2. f \in Phases
      BY <2>2, <3>1, ServedPhases
    <3>3. QED
      BY <2>2, <3>1, <3>2, OneServed
  <2>4. CASE p \notin loop.ready
    BY <1>1, <2>1, <2>4, NothingServed DEF LoopManage
  <2>5. QED
    BY <2>3, <2>4
<1>2. CASE LoopManageConnecting
  <2>1. PICK p : p = connecting[loop.i]
    OBVIOUS
  <2>2. p \in ToSet(Listed) /\ phase[p] \in Phases
    BY <1>2, <2>1, WalkedPhases DEF LoopManageConnecting
  <2>3. PICK f \in IF p \in loop.ready THEN ServedTo(phase[p]) ELSE {phase[p]} :
          phase' = [phase EXCEPT ![p] = f]
    BY <1>2, <2>1 DEF LoopManageConnecting
  <2>4. f \in Phases
    BY <2>2, <2>3, ServedPhases
  <2>5. QED
    BY <2>2, <2>3, <2>4, OneServed
<1>3. QED
  BY <1>1, <1>2

LEMMA CheckServes ==
  ASSUME Types, LoopCheck
  PROVE  Serving
<1>1. phase' \in [Peers -> AllPhases]
  BY DEF LoopCheck, AllPhases
<1>2. ASSUME NEW p \in Peers
      PROVE  \/ phase'[p] = phase[p]
             \/ p \in ToSet(Listed) /\ phase[p] \in Phases /\ phase'[p] \in Phases
  <2>1. CASE p \in ToSet(Listed) /\ phase[p] \in Phases
    <3>1. phase'[p] \in {phase[p]} \cup (ServedTo(phase[p]) \ {"open"})
      BY <2>1 DEF LoopCheck
    <3>2. QED
      BY <2>1, <3>1, ServedPhases
  <2>2. CASE ~(p \in ToSet(Listed) /\ phase[p] \in Phases)
    BY <2>2 DEF LoopCheck
  <2>3. QED
    BY <2>1, <2>2
<1>3. QED
  BY <1>1, <1>2 DEF Serving

(* A kick: of a peer that exists, unless the list is torn. *)
LEMMA PurgeEffect ==
  ASSUME Types, LoopPurge
  PROVE  /\ Listed[loop.i] \in ToSet(Listed)
         /\ UNCHANGED phase \/ phase' = [phase EXCEPT ![Listed[loop.i]] = "over"]
<1>1. loop.i \in 1 .. Len(Listed)
  BY ListedPlaces, ThreadFields DEF LoopPurge
<1>2. PICK p : p = Listed[loop.i]
  OBVIOUS
<1>3. p \in ToSet(Listed) /\ p \in Peers
  BY <1>1, <1>2, AtPlace, ListedPlaces
<1>4. CASE p = Last(Items(to_be_closed))
  <2>1. phase' = [phase EXCEPT ![p] = "over"]
    BY <1>2, <1>4 DEF LoopPurge, Kicked, Outcome
  <2>2. QED
    BY <1>2, <1>3, <2>1
<1>5. CASE p # Last(Items(to_be_closed))
  <2>1. phase' = [phase EXCEPT ![p] = phase[p]]
    BY <1>2, <1>5 DEF LoopPurge
  <2>2. phase \in [Peers -> AllPhases]
    BY DEF Types
  <2>3. phase' = phase
    BY <1>3, <2>1, <2>2
  <2>4. QED
    BY <1>2, <1>3, <2>3
<1>6. QED
  BY <1>4, <1>5

(* The other steps leave the phases alone. *)
LEMMA PhasesStay ==
  ASSUME [Next]_vars, ~BindRead, ~LoopPurge, ~LoopDelete, ~LoopCheck, ~LoopManage,
         ~LoopManageConnecting, ~LoopEnd
  PROVE  UNCHANGED phase
<1>1. CASE BindChoose \/ AddConnectionPeer \/ ClosePInfo \/ Stop \/ UNCHANGED vars
  BY <1>1
  DEF BindChoose, AddConnectionPeer, BindWrite, BindStore, BindCount, BindPost,
      ClosePInfo, CloserRequest, CloserCount, CloserPost, Stop, vars
<1>2. CASE Execute
  BY <1>2
  DEF Execute, LoopTop, LoopPop, LoopPurged, LoopWatch, LoopUncount, LoopCollected,
      LoopSelect, LoopSelectFails, LoopManaged, LoopAgain, LoopUndefined
<1>3. QED
  BY <1>1, <1>2 DEF Next

LEMMA PhasesGo ==
  ASSUME Types, Made, Chosen, [Next]_vars
  PROVE  /\ phase' \in [Peers -> AllPhases]
         /\ \A p \in Peers : phase[p] # "none" => phase'[p] # "none"
         /\ \A p \in Peers :
              phase[p] = "none" => phase'[p] = "none" \/ (BindRead /\ p = bind.peer)
<1>1. /\ phase \in [Peers -> AllPhases]
      /\ ToSet(Listed) \subseteq MadePeers
      /\ \A p \in MadePeers : p \in Peers /\ phase[p] # "none"
  BY ListedAreMade DEF Types, MadePeers
<1>2. CASE Serving
  BY <1>1, <1>2 DEF Serving, Phases
<1>3. CASE BindRead
  <2>1. bind.peer \in Peers /\ phase' = [phase EXCEPT ![bind.peer] = "connecting"]
    BY <1>3 DEF BindRead, Chosen
  <2>2. QED
    BY <1>1, <1>3, <2>1 DEF AllPhases, Phases
<1>4. CASE LoopPurge
  <2>1. CASE UNCHANGED phase
    BY <1>1, <2>1
  <2>2. PICK p : p = Listed[loop.i]
    OBVIOUS
  <2>3. CASE phase' = [phase EXCEPT ![p] = "over"]
    <3>1. p \in MadePeers
      BY <1>1, <1>4, <2>2, PurgeEffect
    <3>2. QED
      BY <1>1, <2>3, <3>1 DEF AllPhases, Phases
  <2>4. QED
    BY <1>4, <2>1, <2>2, <2>3, PurgeEffect
<1>5. CASE LoopDelete
  <2>1. PICK p : p = Listed[loop.i]
    OBVIOUS
  <2>2. p \in MadePeers /\ phase' = [phase EXCEPT ![p] = "deleted"]
    BY <1>1, <1>5, <2>1, DeleteEffect, AtPlace
  <2>3. QED
    BY <1>1, <2>2 DEF AllPhases
<1>6. CASE LoopEnd
  <2>1. phase' = [p \in Peers |-> IF p \in ToSet(Listed) THEN "deleted" ELSE phase[p]]
    BY <1>6 DEF LoopEnd
  <2>2. QED
    BY <1>1, <2>1 DEF AllPhases
<1>7. QED
  BY <1>2, <1>3, <1>4, <1>5, <1>6, PhasesStay, NothingServed, ManageServes, CheckServes

LEMMA MadeKept ==
  ASSUME Types, Made, Storing, Chosen, [Next]_vars
  PROVE  Made'
<1>1. PICK S : S = MadePeers
  OBVIOUS
<1>2. peer_list \in Seq(S) /\ connecting_peer_list \in Objects(S)
  <2>1. connecting_peer_list \in Objects(Peers) /\ connecting_peer_list.memory \in Seq(S)
    BY <1>1 DEF Types, Made
  <2>2. QED
    BY <1>1, <2>1 DEF Objects, Made
<1>3. BindStore => bind.peer \in S
  BY <1>1 DEF BindStore, Chosen, MadePeers
<1>4. peer_list' \in Seq(S) /\ connecting_peer_list' \in Objects(S)
  BY <1>2, <1>3, ListsHold
<1>5. PICK T : T = MadePeers'
  OBVIOUS
<1>6. S \subseteq T
  BY <1>1, <1>5, PhasesGo DEF MadePeers
<1>7. peer_list' \in Seq(S) /\ connecting_peer_list'.memory \in Seq(S)
  BY <1>4 DEF Objects
<1>8. peer_list' \in Seq(T) /\ connecting_peer_list'.memory \in Seq(T)
  BY <1>6, <1>7, MoreObjects
<1>9. QED
  BY <1>5, <1>8 DEF Made

-----------------------------------------------------------------------------
(***************************************************************************)
(* The lists while no add() was torn.  Most steps serve some of the peers  *)
(* in the lists, or none, and leave each of them in one list (Keeping);    *)
(* the others make a peer, store it, add it, or delete some.               *)
(***************************************************************************)

Keeping ==
  /\ Serving
  /\ Listed' \in Seq(Peers)
  /\ IsInjective(Listed')
  /\ ToSet(Listed') = ToSet(Listed)

LEMMA ListedPhases ==
  ASSUME Types, Sound, NEW p \in ToSet(Listed)
  PROVE  p \in Peers /\ phase[p] \in Phases
<1>1. phase \in [Peers -> AllPhases] /\ p \in Peers
  BY ListedPlaces DEF Types
<1>2. QED
  BY <1>1 DEF Sound, AllPhases

(* Nothing freed is used: the loop stays defined. *)
LEMMA NothingFreed ==
  ASSUME Types, Sound
  PROVE  ~UsesFreed
<1>1. Freed = {}
  BY ListedPhases DEF Freed, Phases
<1>2. QED
  BY <1>1 DEF UsesFreed, Sound

(* A peer that is connected goes from one list to the other. *)
LEMMA MovedLists ==
  ASSUME Types, Sound, NEW i \in 1 .. Len(connecting),
         connecting_peer_list' = Deleted(connecting_peer_list, i),
         peer_list' = Append(peer_list, connecting[i])
  PROVE  /\ Listed' \in Seq(Peers)
         /\ IsInjective(Listed')
         /\ ToSet(Listed') = ToSet(Listed)
<1> DEFINE l == connecting_peer_list
           p == connecting[i]
           c == RemoveAt(connecting, i)
<1>1. i \in 1 .. l.count
  BY ListedPlaces
<1>2. connecting' = c
  BY <1>1, ConnectingList, DeletedItems DEF connecting
<1>3. /\ peer_list \in Seq(Peers)
      /\ connecting \in Seq(Peers)
      /\ p \in Peers
  BY ListedPlaces, ElementOfSeq
<1>4. /\ IsInjective(peer_list)
      /\ IsInjective(connecting)
      /\ ToSet(peer_list) \cap ToSet(connecting) = {}
  BY <1>3, JoinedInjective DEF Sound, Listed
<1>5. p \in ToSet(connecting)
  BY <1>3, ListMembers
<1>6. /\ c \in Seq(Peers)
      /\ IsInjective(c)
      /\ ToSet(c) = ToSet(connecting) \ {p}
  BY <1>3, <1>4, RemovedPlaces, RemovedMembers
<1>7. /\ peer_list' \in Seq(Peers)
      /\ ToSet(peer_list') = ToSet(peer_list) \cup {p}
      /\ IsInjective(peer_list')
  BY <1>3, <1>4, <1>5, AppendProperties, AppendedMembers
<1>8. Listed' = peer_list' \o c
  BY <1>2 DEF Listed
<1> HIDE DEF c, p
<1>9. /\ Listed' \in Seq(Peers)
      /\ ToSet(Listed') = ToSet(peer_list') \cup ToSet(c)
      /\ IsInjective(Listed')
  <2> DEFINE q == peer_list'
  <2>1. q \in Seq(Peers) /\ c \in Seq(Peers)
    BY <1>6, <1>7
  <2>2. ToSet(q) \cap ToSet(c) = {}
    BY <1>4, <1>5, <1>6, <1>7
  <2>3. IsInjective(q) /\ IsInjective(c)
    BY <1>6, <1>7
  <2> HIDE DEF q
  <2>4. /\ q \o c \in Seq(Peers)
        /\ ToSet(q \o c) = ToSet(q) \cup ToSet(c)
        /\ IsInjective(q \o c)
    BY <2>1, <2>2, <2>3, JoinedMembers, JoinedInjective, ConcatProperties
  <2>5. QED
    BY <1>8, <2>4 DEF q
<1>10. ToSet(Listed') = ToSet(Listed)
  BY <1>5, <1>6, <1>7, <1>9, ListedPlaces
<1>11. QED
  BY <1>9, <1>10

LEMMA SameListed ==
  ASSUME Types, Sound, Listed' = Listed
  PROVE  /\ Listed' \in Seq(Peers)
         /\ IsInjective(Listed')
         /\ ToSet(Listed') = ToSet(Listed)
  BY ListedPlaces DEF Sound

LEMMA StepKeeps ==
  ASSUME Types, Made, Chosen, Sound, [Next]_vars,
         ~BindRead, ~BindCount, ~LoopDelete, ~LoopEnd
  PROVE  Keeping
<1>1. CASE LoopManageConnecting
  <2>1. Serving
    BY <1>1, ManageServes
  <2>2. /\ Listed' \in Seq(Peers)
        /\ IsInjective(Listed')
        /\ ToSet(Listed') = ToSet(Listed)
    BY <1>1, ManageConnectingEffect, MovedLists, SameListed, ListedStay
  <2>3. QED
    BY <2>1, <2>2 DEF Keeping
<1>2. CASE BindStore
  BY <1>2, StoreEffect, SameListed, NothingServed DEF BindStore, Keeping
<1>3. CASE ~LoopManageConnecting /\ ~BindStore
  <2>1. Listed' = Listed
    BY <1>3, ListsStay, ListedStay
  <2>2. CASE LoopPurge
    <3>1. PICK p : p = Listed[loop.i]
      OBVIOUS
    <3>2. p \in ToSet(Listed) /\ phase[p] \in Phases
      BY <2>2, <3>1, PurgeEffect, ListedPhases
    <3>3. UNCHANGED phase \/ phase' = [phase EXCEPT ![p] = "over"]
      BY <2>2, <3>1, PurgeEffect
    <3>4. "over" \in Phases
      BY DEF Phases
    <3>5. Serving
      BY <3>2, <3>3, <3>4, OneServed, NothingServed
    <3>6. QED
      BY <2>1, <3>5, SameListed DEF Keeping
  <2>3. CASE ~LoopPurge
    <3>1. Serving
      BY <1>3, <2>3, PhasesStay, NothingServed, ManageServes, CheckServes
    <3>2. QED
      BY <2>1, <3>1, SameListed DEF Keeping
  <2>4. QED
    BY <2>2, <2>3
<1>4. QED
  BY <1>1, <1>2, <1>3

(* A stored peer waits undisturbed, or the add() is torn. *)
LEMMA StoredWaits ==
  ASSUME Types, Chosen, Handing, [Next]_vars, ~Torn(connecting_peer_list)',
         ~BindStore, ~BindCount
  PROVE  /\ connecting_peer_list'.add = connecting_peer_list.add
         /\ bind.pc = "stored" => UNCHANGED connecting_peer_list
<1>1. /\ connecting_peer_list'.add # "torn"
      /\ connecting_peer_list.add = IF bind.pc = "stored" THEN "begun" ELSE "none"
  BY DEF Torn, Handing
<1>2. CASE LoopDelete
  BY <1>1, <1>2, DeleteEffect
<1>3. CASE LoopManageConnecting
  BY <1>1, <1>3, ManageConnectingEffect
<1>4. CASE LoopEnd
  <2>1. bind.pc # "stored"
    BY <1>4 DEF LoopEnd, Chosen
  <2>2. QED
    BY <1>4, <2>1, EndEffect
<1>5. QED
  BY <1>2, <1>3, <1>4, ListsStay

(* What the accept thread holds, from one place to the next. *)
LEMMA BindGoes ==
  ASSUME Types, [Next]_vars
  PROVE  \/ BindChoose
         \/ BindRead /\ bind'.pc = "counting" /\ bind'.peer = bind.peer
         \/ BindWrite /\ bind'.pc = "adding" /\ bind'.peer = bind.peer
         \/ BindStore /\ bind'.pc = "stored" /\ bind'.peer = bind.peer
         \/ BindCount /\ bind'.pc = "added" /\ bind'.peer = bind.peer
         \/ BindPost /\ bind'.pc = "idle" /\ bind'.peer = NoPeer
         \/ UNCHANGED bind /\ ~BindRead /\ ~BindStore /\ ~BindCount
<1>1. bind \in BindRecords
  BY ThreadFields
<1>2. CASE BindChoose \/ AddConnectionPeer
  BY <1>1, <1>2
  DEF AddConnectionPeer, BindRead, BindWrite, BindStore, BindCount, BindPost, BindRecords
<1>3. CASE ~(BindChoose \/ AddConnectionPeer)
  <2>1. bind' = bind
    BY <1>3
    DEF Next, ClosePInfo, CloserRequest, CloserCount, CloserPost, Stop, vars, Execute,
        LoopTop, LoopPurge, LoopPop, LoopPurged, LoopWatch, LoopDelete, LoopUncount,
        LoopCollected, LoopSelect, LoopSelectFails, LoopCheck, LoopManage, LoopManaged,
        LoopManageConnecting, LoopAgain, LoopEnd, LoopUndefined
  <2>2. ~BindRead /\ ~BindStore /\ ~BindCount
    BY <1>3 DEF AddConnectionPeer
  <2>3. QED
    BY <2>1, <2>2
<1>4. QED
  BY <1>2, <1>3

LEMMA ChosenKept ==
  ASSUME Types, Made, Chosen, [Next]_vars
  PROVE  Chosen'
<1>1. /\ bind.pc # "idle" => ~Stop
      /\ finish \in BOOLEAN
  BY DEF Stop, Types, TypeOK
<1>2. ~Stop => finish' = finish
  BY DEF Next, BindChoose, AddConnectionPeer, BindRead, BindWrite, BindStore, BindCount,
      BindPost, ClosePInfo, CloserRequest, CloserCount, CloserPost, vars, Execute,
      LoopTop, LoopPurge, LoopPop, LoopPurged, LoopWatch, LoopDelete, LoopUncount,
      LoopCollected, LoopSelect, LoopSelectFails, LoopCheck, LoopManage, LoopManaged,
      LoopManageConnecting, LoopAgain, LoopEnd, LoopUndefined
<1>3. CASE BindChoose
  <2>1. PICK p \in Peers : /\ phase[p] = "none"
                           /\ bind' = [bind EXCEPT !.pc = "connect", !.peer = p]
    BY <1>3 DEF BindChoose
  <2>2. bind'.pc = "connect" /\ bind'.peer = p /\ phase' = phase /\ ~finish'
    BY <1>3, <2>1, ThreadFields DEF BindChoose, BindRecords
  <2>3. QED
    BY <2>1, <2>2 DEF Chosen
<1>4. CASE BindRead /\ bind'.pc = "counting" /\ bind'.peer = bind.peer
  <2>1. /\ bind.peer \in Peers
        /\ ~finish /\ finish' = finish
        /\ phase' = [phase EXCEPT ![bind.peer] = "connecting"]
        /\ phase \in [Peers -> AllPhases]
    BY <1>4 DEF BindRead, Chosen, Types
  <2>2. QED
    BY <1>4, <2>1 DEF Chosen
<1>5. CASE /\ bind.pc \notin {"idle", "connect"}
           /\ bind'.pc \notin {"idle", "connect"}
           /\ bind'.peer = bind.peer
  <2>1. phase'[bind.peer] # "none" /\ bind.peer \in Peers /\ ~finish'
    BY <1>1, <1>2, <1>5, PhasesGo DEF Chosen
  <2>2. QED
    BY <1>5, <2>1 DEF Chosen
<1>6. CASE bind'.pc = "idle"
  BY <1>6 DEF Chosen
<1>7. CASE UNCHANGED bind /\ ~BindRead
  <2>1. CASE bind.pc = "connect"
    BY <1>1, <1>2, <1>7, <2>1, PhasesGo DEF Chosen
  <2>2. CASE bind.pc \notin {"idle", "connect"}
    BY <1>5, <1>7, <2>2
  <2>3. QED
    BY <1>6, <1>7, <2>1, <2>2
<1>8. QED
  BY <1>3, <1>4, <1>5, <1>6, <1>7, BindGoes
  DEF BindWrite, BindStore, BindCount, BindPost

(* Soundness, and what the hands hold. *)
LEMMA KeepingKeeps ==
  ASSUME Types, Made, Chosen, Sound, Handing, Followed, [Next]_vars, Keeping,
         ~Torn(connecting_peer_list)',
         ~BindRead, ~BindStore, ~BindCount
  PROVE  Sound' /\ Handing' /\ Followed'
<1>1. /\ \A p \in Peers :
           \/ phase'[p] = phase[p]
           \/ p \in ToSet(Listed) /\ phase[p] \in Phases /\ phase'[p] \in Phases
      /\ IsInjective(Listed')
      /\ ToSet(Listed') = ToSet(Listed)
      /\ ToSet(Listed) \subseteq Peers
  BY ListedPlaces DEF Keeping, Serving
<1>2. Sound'
  <2>1. \A p \in ToSet(Listed) : phase'[p] \notin {"none", "deleted"}
    BY <1>1 DEF Sound, Phases
  <2>2. QED
    BY <1>1, <2>1 DEF Sound
<1>3. /\ connecting_peer_list'.add = connecting_peer_list.add
      /\ bind.pc = "stored" => UNCHANGED connecting_peer_list
  BY StoredWaits
<1>4. CASE /\ ~InHand /\ ~InHand'
  <2>1. bind.pc # "stored" /\ bind'.pc # "stored"
    BY <1>4 DEF InHand
  <2>2. Handing'
    BY <1>3, <1>4, <2>1 DEF Handing
  <2>3. Followed'
    BY <1>1, <1>4 DEF Followed
  <2>4. QED
    BY <1>2, <2>2, <2>3
<1>5. CASE /\ InHand /\ InHand'
           /\ bind'.peer = bind.peer
           /\ bind'.pc = "stored" <=> bind.pc = "stored"
  <2>1. bind.peer \in Peers
    BY <1>5 DEF InHand, Chosen
  <2>2. phase'[bind.peer] = "connecting" /\ bind.peer \notin ToSet(Listed')
    BY <1>1, <1>5, <2>1 DEF Handing
  <2>3. Handing'
    BY <1>3, <1>5, <2>2 DEF Handing
  <2>4. Followed'
    BY <1>1, <1>5 DEF Followed
  <2>5. QED
    BY <1>2, <2>3, <2>4
<1>6. CASE BindChoose
  <2>1. bind'.pc = "connect" /\ bind.pc = "idle"
    BY <1>6, ThreadFields DEF BindChoose, BindRecords
  <2>2. QED
    BY <1>4, <2>1 DEF InHand
<1>7. CASE BindWrite /\ bind'.pc = "adding" /\ bind'.peer = bind.peer
  <2>1. bind.pc = "counting"
    BY <1>7 DEF BindWrite
  <2>2. QED
    BY <1>5, <1>7, <2>1 DEF InHand
<1>8. CASE BindPost /\ bind'.pc = "idle"
  <2>1. bind.pc = "added"
    BY <1>8 DEF BindPost
  <2>2. QED
    BY <1>4, <1>8, <2>1 DEF InHand
<1>9. CASE UNCHANGED bind
  BY <1>4, <1>5, <1>9 DEF InHand
<1>10. QED
  BY <1>6, <1>7, <1>8, <1>9, BindGoes

(* The peer is made, and is in the hands of the accept thread. *)
LEMMA ReadKeeps ==
  ASSUME Types, Chosen, Sound, Handing, Followed, BindRead
  PROVE  Sound' /\ Handing' /\ Followed'
<1> DEFINE p == bind.peer
<1>1. /\ p \in Peers
      /\ phase[p] = "none"
      /\ phase \in [Peers -> AllPhases]
      /\ phase' = [phase EXCEPT ![p] = "connecting"]
      /\ bind' = [bind EXCEPT !.pc = "counting", !.current = currentconnections]
      /\ bind.pc = "connect"
      /\ UNCHANGED <<peer_list, connecting_peer_list>>
  BY DEF Chosen, BindRead, Types, lists
<1>2. bind'.pc = "counting" /\ bind'.peer = p
  BY <1>1, ThreadFields DEF BindRecords
<1>3. Listed' = Listed
  BY <1>1, ListedStay
<1>4. p \notin ToSet(Listed) /\ ToSet(Listed) \subseteq Peers
  BY <1>1, ListedPlaces DEF Sound
<1>5. connecting_peer_list'.add = "none"
  BY <1>1 DEF Handing
<1> HIDE DEF p
<1>6. /\ phase'[p] = "connecting"
      /\ \A q \in Peers : q # p => phase'[q] = phase[q]
  BY <1>1
<1>7. Sound'
  BY <1>3, <1>4, <1>6 DEF Sound
<1>8. InHand' /\ ~InHand
  BY <1>1, <1>2 DEF InHand
<1>9. Handing'
  BY <1>2, <1>3, <1>4, <1>5, <1>6 DEF Handing
<1>10. Followed'
  BY <1>2, <1>3, <1>6, <1>8 DEF Followed
<1>11. QED
  BY <1>7, <1>9, <1>10

(* It is stored... *)
LEMMA StoreKeeps ==
  ASSUME Types, Chosen, Sound, Handing, Followed, BindStore
  PROVE  Sound' /\ Handing' /\ Followed'
<1>1. /\ bind.pc = "adding"
      /\ phase' = phase
      /\ bind' = [bind EXCEPT !.pc = "stored"]
  BY DEF BindStore
<1>2. bind'.pc = "stored" /\ bind'.peer = bind.peer /\ InHand /\ InHand'
  BY <1>1, ThreadFields DEF BindRecords, InHand
<1>3. /\ connecting_peer_list'.count = connecting_peer_list.count
      /\ connecting_peer_list'.memory[connecting_peer_list.count + 1] = bind.peer
      /\ connecting_peer_list'.add = "begun"
      /\ Listed' = Listed
  BY <1>1, StoreEffect DEF Handing
<1>4. QED
  BY <1>1, <1>2, <1>3 DEF Sound, Handing, Followed

(* ... and goes into the list. *)
LEMMA CountKeeps ==
  ASSUME Types, Storing, Chosen, Sound, Handing, Followed, BindCount
  PROVE  Sound' /\ Handing' /\ Followed'
<1>1. /\ bind.pc = "stored"
      /\ phase' = phase
      /\ bind' = [bind EXCEPT !.pc = "added"]
  BY DEF BindCount
<1>2. bind'.pc = "added" /\ bind'.peer = bind.peer /\ InHand /\ ~InHand'
  BY <1>1, ThreadFields DEF BindRecords, InHand
<1> DEFINE p == bind.peer
<1>3. /\ p \in Peers
      /\ Listed' = Append(Listed, p)
      /\ connecting_peer_list'.add = "none"
      /\ Listed \in Seq(Peers)
  BY <1>1, CountEffect, ListedPlaces DEF Handing
<1>4. phase[p] = "connecting" /\ p \notin ToSet(Listed)
  BY <1>2 DEF Handing
<1> HIDE DEF p
<1>5. IsInjective(Listed') /\ ToSet(Listed') = ToSet(Listed) \cup {p}
  BY <1>3, <1>4, AppendedMembers DEF Sound
<1>6. Sound'
  BY <1>1, <1>4, <1>5 DEF Sound
<1>7. Handing'
  BY <1>2, <1>3 DEF Handing
<1>8. Followed'
  BY <1>1, <1>2, <1>5 DEF Followed, p
<1>9. QED
  BY <1>6, <1>7, <1>8

(* The loop deletes one... *)
LEMMA DeleteKeeps ==
  ASSUME Types, Chosen, Sound, Handing, Followed, LoopDelete, [Next]_vars,
         ~Torn(connecting_peer_list)'
  PROVE  Sound' /\ Handing' /\ Followed'
<1>1. PICK p : p = Listed[loop.i]
  OBVIOUS
<1>2. /\ p \in Peers
      /\ p \in ToSet(Listed)
      /\ IsInjective(Listed')
      /\ ToSet(Listed') = ToSet(Listed) \ {p}
      /\ phase' = [phase EXCEPT ![p] = "deleted"]
  <2>1. /\ loop.i \in 1 .. Len(Listed)
        /\ Listed' = RemoveAt(Listed, loop.i)
        /\ phase' = [phase EXCEPT ![p] = "deleted"]
    BY <1>1, DeleteEffect
  <2>2. Listed \in Seq(Peers) /\ IsInjective(Listed)
    BY ListedPlaces DEF Sound
  <2>3. QED
    BY <1>1, <2>1, <2>2, RemovedMembers, AtPlace, ListedPlaces
<1>3. bind' = bind /\ phase \in [Peers -> AllPhases] /\ ToSet(Listed) \subseteq Peers
  BY ListedPlaces DEF LoopDelete, Types
<1>4. /\ phase'[p] = "deleted"
      /\ \A q \in Peers : q # p => phase'[q] = phase[q]
  BY <1>2, <1>3
<1>5. Sound'
  BY <1>2, <1>3, <1>4 DEF Sound
<1>6. InHand => bind.peer \in Peers /\ bind.peer # p
  BY <1>2 DEF Handing, InHand, Chosen
<1>7. /\ connecting_peer_list'.add = connecting_peer_list.add
      /\ bind.pc = "stored" => UNCHANGED connecting_peer_list
  <2>1. ~BindStore /\ ~BindCount
    BY <1>3, ThreadFields DEF BindStore, BindCount, BindRecords
  <2>2. QED
    BY <2>1, StoredWaits
<1>8. Handing'
  BY <1>2, <1>3, <1>4, <1>6, <1>7 DEF Handing, InHand
<1>9. Followed'
  BY <1>2, <1>3, <1>4 DEF Followed, InHand, Phases
<1>10. QED
  BY <1>5, <1>8, <1>9

(* ... or, in the end, all. *)
LEMMA EndKeeps ==
  ASSUME Types, Chosen, Sound, Handing, Followed, LoopEnd
  PROVE  Sound' /\ Handing' /\ Followed'
<1>1. /\ Listed' = <<>>
      /\ connecting_peer_list'.add = connecting_peer_list.add
      /\ bind' = bind /\ bind.pc = "idle"
      /\ phase' = [p \in Peers |-> IF p \in ToSet(Listed) THEN "deleted" ELSE phase[p]]
  BY EndEffect DEF LoopEnd, Chosen
<1>2. ToSet(Listed') = {} /\ IsInjective(Listed')
  BY <1>1 DEF ToSet, IsInjective
<1>3. Sound'
  BY <1>2 DEF Sound
<1>4. Handing'
  BY <1>1 DEF Handing, InHand
<1>5. Followed'
  BY <1>1 DEF Followed, InHand, Phases
<1>6. QED
  BY <1>3, <1>4, <1>5

(* A torn list stays torn. *)
LEMMA TornStays ==
  ASSUME Types, Storing, Chosen, [Next]_vars, Torn(connecting_peer_list)
  PROVE  Torn(connecting_peer_list)'
<1>1. BindStore \/ BindCount => Torn(connecting_peer_list)'
  BY StoreEffect, CountEffect DEF Torn
<1>2. LoopDelete \/ LoopManageConnecting \/ LoopEnd => Torn(connecting_peer_list)'
  BY DeleteEffect, ManageConnectingEffect, EndEffect DEF Torn
<1>3. QED
  BY <1>1, <1>2, ListsStay DEF Torn

LEMMA UntornKept ==
  ASSUME Types, Made, Storing, Chosen, Untorn, [Next]_vars
  PROVE  Torn(connecting_peer_list)' \/ (Sound' /\ Handing' /\ Followed')
<1> SUFFICES ASSUME ~Torn(connecting_peer_list)'
             PROVE  Sound' /\ Handing' /\ Followed'
  OBVIOUS
<1>1. Sound /\ Handing /\ Followed
  BY DEF Untorn
<1>2. CASE BindRead \/ BindStore \/ BindCount
  BY <1>1, <1>2, ReadKeeps, StoreKeeps, CountKeeps
<1>3. CASE LoopDelete \/ LoopEnd
  BY <1>1, <1>3, DeleteKeeps, EndKeeps
<1>4. CASE ~BindRead /\ ~BindStore /\ ~BindCount /\ ~LoopDelete /\ ~LoopEnd
  <2>1. Keeping
    BY <1>1, <1>4, StepKeeps
  <2>2. QED
    BY <1>1, <1>4, <2>1, KeepingKeeps
<1>5. QED
  BY <1>2, <1>3, <1>4

-----------------------------------------------------------------------------
(* What an add() will count. *)

(* The threads and what they change of the close requests. *)
LEMMA RequestsStay ==
  ASSUME [Next]_vars, ~CloserRequest, ~CloserCount, ~LoopPop, ~LoopEnd
  PROVE  UNCHANGED to_be_closed
<1>1. CASE BindChoose \/ AddConnectionPeer \/ ClosePInfo \/ Stop \/ UNCHANGED vars
  BY <1>1
  DEF BindChoose, AddConnectionPeer, BindRead, BindWrite, BindStore, BindCount, BindPost,
      ClosePInfo, CloserRequest, CloserCount, CloserPost, Stop, lists, vars
<1>2. CASE Execute
  BY <1>2
  DEF Execute, LoopTop, LoopPurge, LoopPop, LoopPurged, LoopWatch, LoopDelete,
      LoopUncount, LoopCollected, LoopSelect, LoopSelectFails, LoopCheck, LoopManage,
      LoopManaged, LoopManageConnecting, LoopAgain, LoopUndefined, lists
<1>3. QED
  BY <1>1, <1>2 DEF Next

LEMMA CloserStays ==
  ASSUME [Next]_vars, ~ClosePInfo
  PROVE  UNCHANGED closer
  BY DEF Next, BindChoose, AddConnectionPeer, BindRead, BindWrite, BindStore, BindCount,
      BindPost, ClosePInfo, CloserRequest, CloserCount, CloserPost, Stop, vars, Execute,
      LoopTop, LoopPurge, LoopPop, LoopPurged, LoopWatch, LoopDelete, LoopUncount,
      LoopCollected, LoopSelect, LoopSelectFails, LoopCheck, LoopManage, LoopManaged,
      LoopManageConnecting, LoopAgain, LoopEnd, LoopUndefined

(* The requests, and whether one is stored. *)
LEMMA RequestsGo ==
  ASSUME Types, Storing, [Next]_vars
  PROVE  /\ to_be_closed' \in Objects(Peers)
         /\ to_be_closed'.count <= Len(to_be_closed'.memory)
         /\ closer'.pc = "stored" =>
              to_be_closed'.count < Len(to_be_closed'.memory)
<1> DEFINE l == to_be_closed
<1>1. /\ l \in Objects(Peers)
      /\ l.count \in Nat
      /\ l.count <= Len(l.memory)
      /\ Len(l.memory) \in Nat
      /\ l.memory \in Seq(Peers)
      /\ closer \in CloserRecords
      /\ closer.pc = "stored" => l.count < Len(l.memory)
  BY LenProperties DEF Types, TypeOK, Objects, Storing
<1>2. CASE CloserRequest
  <2>1. PICK p \in Peers : l' = Stored(l, p)
    BY <1>2 DEF CloserRequest
  <2>2. PICK m : m = Stored(l, p)
    OBVIOUS
  <2>3. m \in Objects(Peers) /\ m.count = l.count /\ l.count < Len(m.memory)
    BY <1>1, <2>2, StoredItems
  <2>4. QED
    BY <1>1, <2>1, <2>2, <2>3
<1>3. CASE CloserCount
  <2>1. l.count < Len(l.memory) /\ l' = Counted(l)
    BY <1>1, <1>3 DEF CloserCount
  <2>2. closer'.pc = "added"
    BY <1>1, <1>3 DEF CloserCount, CloserRecords
  <2>3. PICK m : m = Counted(l)
    OBVIOUS
  <2>4. m \in Objects(Peers) /\ m.memory = l.memory /\ m.count <= Len(l.memory)
    BY <1>1, <2>1, <2>3, CountedItems
  <2>5. QED
    BY <1>1, <2>1, <2>2, <2>3, <2>4
<1>4. CASE LoopPop
  <2>1. /\ l.count \in 1 .. l.count
        /\ l' = Deleted(l, l.count)
        /\ closer' = closer
    BY <1>1, <1>4 DEF LoopPop
  <2>2. PICK m : m = Deleted(l, l.count)
    OBVIOUS
  <2>3. /\ m \in Objects(Peers)
        /\ m.count = l.count - 1
        /\ Len(m.memory) = Len(l.memory)
    BY <1>1, <2>1, <2>2, DeletedItems
  <2>4. QED
    BY <1>1, <2>1, <2>2, <2>3
<1>5. CASE LoopEnd
  <2>1. l' = [l EXCEPT !.count = 0] /\ closer' = closer
    BY <1>5 DEF LoopEnd
  <2>2. PICK m : m = [l EXCEPT !.count = 0]
    OBVIOUS
  <2>3. m \in Objects(Peers) /\ m.memory = l.memory /\ m.count = 0
    BY <1>1, <2>2, EmptiedItems
  <2>4. QED
    BY <1>1, <2>1, <2>2, <2>3
<1>6. CASE CloserPost
  <2>1. l' = l
    BY <1>6 DEF CloserPost, lists
  <2>2. closer'.pc = "idle"
    BY <1>1, <1>6 DEF CloserPost, CloserRecords
  <2>3. QED
    BY <1>1, <2>1, <2>2
<1>7. CASE ~ClosePInfo /\ ~LoopPop /\ ~LoopEnd
  <2>1. l' = l /\ closer' = closer
    BY <1>7, RequestsStay, CloserStays DEF ClosePInfo
  <2>2. QED
    BY <1>1, <2>1
<1>8. QED
  BY <1>2, <1>3, <1>4, <1>5, <1>6, <1>7 DEF ClosePInfo

(* What is stored behind the connecting peers stays there until it counts. *)
LEMMA HandGoes ==
  ASSUME Types, Storing, Chosen, [Next]_vars
  PROVE  bind'.pc = "stored" =>
           connecting_peer_list'.count < Len(connecting_peer_list'.memory)
<1> DEFINE l == connecting_peer_list
<1>1. /\ l \in Objects(Peers)
      /\ l.count \in Nat
      /\ l.count <= Len(l.memory)
      /\ Len(l.memory) \in Nat
      /\ bind.pc = "stored" => l.count < Len(l.memory)
  BY ConnectingList, LenProperties DEF Objects, Storing
<1>2. CASE BindStore
  BY <1>1, <1>2, StoreEffect
<1>3. CASE BindChoose
  BY <1>3, ThreadFields DEF BindChoose, BindRecords
<1>4. CASE bind'.pc \in {"counting", "adding", "added", "idle"}
  BY <1>4
<1>5. CASE UNCHANGED bind /\ ~BindStore /\ ~BindCount
  <2>1. CASE LoopDelete
    <3>1. CASE loop.i <= Len(peer_list)
      BY <1>1, <1>5, <2>1, <3>1 DEF LoopDelete
    <3>2. CASE ~(loop.i <= Len(peer_list))
      <4>1. PICK k : k = loop.i - Len(peer_list)
        OBVIOUS
      <4>2. k \in 1 .. l.count
        BY <2>1, <3>2, <4>1, ListedPlaces, ThreadFields DEF LoopDelete
      <4>3. Deleted(l, k).count = l.count - 1 /\ Len(Deleted(l, k).memory) = Len(l.memory)
        BY <1>1, <4>2, DeletedItems
      <4>4. l' = Deleted(l, k)
        BY <2>1, <3>2, <4>1 DEF LoopDelete
      <4>5. QED
        BY <1>1, <1>5, <4>3, <4>4
    <3>3. QED
      BY <3>1, <3>2
  <2>2. CASE LoopManageConnecting
    <3>1. loop.i \in 1 .. l.count
      BY <2>2, ManageConnectingEffect
    <3>2. /\ Deleted(l, loop.i).count = l.count - 1
          /\ Len(Deleted(l, loop.i).memory) = Len(l.memory)
      BY <1>1, <3>1, DeletedItems
    <3>3. QED
      BY <1>1, <1>5, <2>2, <3>2, ManageConnectingEffect
  <2>3. CASE LoopEnd
    BY <1>5, <2>3 DEF LoopEnd, Chosen
  <2>4. QED
    BY <1>1, <1>5, <2>1, <2>2, <2>3, ListsStay
<1>6. QED
  BY <1>2, <1>3, <1>4, <1>5, BindGoes

LEMMA StoringKept ==
  ASSUME Types, Storing, Chosen, [Next]_vars
  PROVE  Storing'
  BY RequestsGo, HandGoes DEF Storing
-----------------------------------------------------------------------------
(* The threads: the records, and what they count. *)
ThreadTypes ==
  /\ currentconnections \in Int
  /\ finish \in BOOLEAN
  /\ pipe \in 0 .. PipeSize
  /\ loop \in LoopRecords
  /\ bind \in BindRecords
  /\ closer \in CloserRecords

LEMMA TypesOfBind ==
  ASSUME Types, BindChoose \/ AddConnectionPeer
  PROVE  ThreadTypes'
<1>1. ThreadTypes
  BY DEF Types, TypeOK, ThreadTypes
<1>2. bind \in BindRecords /\ bind.current \in Int /\ currentconnections \in Int
  BY <1>1, ThreadFields DEF ThreadTypes
<1>3. /\ {"idle", "connect", "counting", "adding", "stored", "added"} \subseteq BindPlaces
      /\ Peers \subseteq PeerOrNone /\ NoPeer \in PeerOrNone
  BY DEF BindPlaces, PeerOrNone
<1>4. CASE BindChoose
  <2>1. PICK p \in Peers : bind' = [bind EXCEPT !.pc = "connect", !.peer = p]
    BY <1>4 DEF BindChoose
  <2> DEFINE b == [bind EXCEPT !.pc = "connect"]
  <2>2. b \in BindRecords /\ bind' = [b EXCEPT !.peer = p]
    BY <1>2, <1>3, <2>1, BindFields
  <2> HIDE DEF b
  <2>3. bind' \in BindRecords
    BY <1>3, <2>2, BindFields
  <2>4. QED
    BY <1>1, <1>4, <2>3 DEF BindChoose, ThreadTypes, lists
<1>5. CASE BindRead
  <2> DEFINE b == [bind EXCEPT !.pc = "counting"]
  <2>1. b \in BindRecords /\ bind' = [b EXCEPT !.current = currentconnections]
    BY <1>2, <1>3, <1>5, BindFields DEF BindRead
  <2> HIDE DEF b
  <2>2. bind' \in BindRecords
    BY <1>2, <2>1, BindFields
  <2>3. QED
    BY <1>1, <1>5, <2>2 DEF BindRead, ThreadTypes, lists
<1>6. CASE BindWrite
  <2>1. bind' \in BindRecords /\ currentconnections' \in Int
    BY <1>2, <1>3, <1>6, BindFields DEF BindWrite
  <2>2. QED
    BY <1>1, <1>6, <2>1 DEF BindWrite, ThreadTypes, lists
<1>7. CASE BindStore
  <2>1. bind' \in BindRecords
    BY <1>2, <1>3, <1>7, BindFields DEF BindStore
  <2>2. QED
    BY <1>1, <1>7, <2>1 DEF BindStore, ThreadTypes
<1>8. CASE BindCount
  <2>1. bind' \in BindRecords
    BY <1>2, <1>3, <1>8, BindFields DEF BindCount
  <2>2. QED
    BY <1>1, <1>8, <2>1 DEF BindCount, ThreadTypes
<1>9. CASE BindPost
  <2> DEFINE b == [bind EXCEPT !.pc = "idle"]
             c == [b EXCEPT !.peer = NoPeer]
  <2>1. b \in BindRecords /\ bind' = [c EXCEPT !.current = 0]
    BY <1>2, <1>3, <1>9, BindFields DEF BindPost
  <2> HIDE DEF b
  <2>2. c \in BindRecords
    BY <1>3, <2>1, BindFields
  <2> HIDE DEF c
  <2>3. bind' \in BindRecords
    BY <2>1, <2>2, BindFields
  <2>4. pipe' \in 0 .. PipeSize
    BY <1>1, <1>9, ManagerAssumption DEF BindPost, ThreadTypes
  <2>5. QED
    BY <1>1, <1>9, <2>3, <2>4 DEF BindPost, ThreadTypes, lists
<1>10. QED
  BY <1>4, <1>5, <1>6, <1>7, <1>8, <1>9 DEF AddConnectionPeer

LEMMA TypesOfCloser ==
  ASSUME Types, ClosePInfo \/ Stop \/ UNCHANGED vars
  PROVE  ThreadTypes'
<1>1. ThreadTypes
  BY DEF Types, TypeOK, ThreadTypes
<1>2. CASE CloserRequest
  <2>1. closer.requests + 1 \in 0 .. MaxRequests
    BY <1>1, <1>2, ManagerAssumption DEF CloserRequest, ThreadTypes, CloserRecords
  <2>2. closer' \in CloserRecords
    BY <1>2, <2>1 DEF CloserRequest, CloserRecords
  <2>3. QED
    BY <1>1, <1>2, <2>2 DEF CloserRequest, ThreadTypes
<1>3. CASE CloserPost
  BY <1>1, <1>3, ManagerAssumption DEF CloserPost, ThreadTypes, CloserRecords, lists
<1>4. CASE Stop
  BY <1>1, <1>4, ManagerAssumption DEF Stop, ThreadTypes, lists
<1>5. CASE UNCHANGED vars
  BY <1>1, <1>5 DEF vars, ThreadTypes, lists
<1>6. CASE CloserCount
  BY <1>1, <1>6 DEF CloserCount, ThreadTypes, CloserRecords
<1>7. QED
  BY <1>2, <1>3, <1>4, <1>5, <1>6 DEF ClosePInfo

LEMMA TypesOfLoop ==
  ASSUME Types, Execute
  PROVE  ThreadTypes'
<1>1. ThreadTypes
  BY DEF Types, TypeOK, ThreadTypes
<1>2. /\ \A pc \in LoopPlaces : Goto(pc) \in LoopRecords
      /\ Advance \in LoopRecords
      /\ Advance.watched = loop.watched
      /\ loop \in LoopRecords
      /\ loop.watched \subseteq Peers
  BY ThreadFields, LoopGoes, LoopAdvances
<1>3. /\ {"top", "purge", "collect", "uncount", "select", "read", "manage",
           "manageConnecting", "done", "undefined"} \subseteq LoopPlaces
  BY DEF LoopPlaces
<1>4. CASE LoopTop
  <2> DEFINE l == Goto("purge")
             m == [l EXCEPT !.watched = {}]
  <2>1. l \in LoopRecords /\ loop' = [m EXCEPT !.ready = {}]
    BY <1>2, <1>3, <1>4 DEF LoopTop
  <2> HIDE DEF l
  <2>2. m \in LoopRecords
    BY <2>1, LoopFields
  <2> HIDE DEF m
  <2>3. loop' \in LoopRecords
    BY <2>1, <2>2, LoopFields
  <2>4. QED
    BY <1>1, <1>4, <2>3 DEF LoopTop, ThreadTypes, lists
<1>5. CASE LoopPurge \/ LoopManage \/ LoopPurged \/ LoopManaged \/ LoopAgain
           \/ LoopCollected \/ LoopSelectFails \/ LoopUndefined
  <2>1. loop' \in LoopRecords
    BY <1>2, <1>3, <1>5
    DEF LoopPurge, LoopManage, LoopPurged, LoopManaged, LoopAgain, LoopCollected,
        LoopSelectFails, LoopUndefined
  <2>2. UNCHANGED <<lists, currentconnections, finish, pipe, bind, closer>>
    BY <1>5
    DEF LoopPurge, LoopManage, LoopPurged, LoopManaged, LoopAgain, LoopCollected,
        LoopSelectFails, LoopUndefined
  <2>3. QED
    BY <1>1, <2>1, <2>2 DEF ThreadTypes, lists
<1>6. CASE LoopPop
  BY <1>1, <1>2, <1>3, <1>6 DEF LoopPop, ThreadTypes
<1>7. CASE LoopWatch
  <2> DEFINE l == Advance
             w == loop.watched \cup {Listed[loop.i]}
  <2>1. loop.i \in 1 .. Len(Listed)
    <3>1. Len(Listed) \in Nat /\ loop.i \in Nat \ {0}
      BY ListedPlaces, ThreadFields
    <3>2. QED
      BY <1>7, <3>1 DEF LoopWatch
  <2>2. w \in SUBSET Peers
    BY <1>2, <2>1, ListedPlaces, ElementOfSeq
  <2>3. l \in LoopRecords /\ loop' = [l EXCEPT !.watched = w]
    BY <1>2, <1>7 DEF LoopWatch
  <2> HIDE DEF l, w
  <2>4. loop' \in LoopRecords
    BY <2>2, <2>3, LoopFields
  <2>5. QED
    BY <1>1, <1>7, <2>4 DEF LoopWatch, ThreadTypes, lists
<1>8. CASE LoopDelete
  <2> DEFINE l == [loop EXCEPT !.pc = "uncount"]
  <2>1. l \in LoopRecords /\ loop' = [l EXCEPT !.current = currentconnections]
    BY <1>2, <1>3, <1>8, LoopFields DEF LoopDelete
  <2> HIDE DEF l
  <2>2. loop' \in LoopRecords
    BY <1>1, <2>1, LoopFields DEF ThreadTypes
  <2>3. QED
    BY <1>1, <1>8, <2>2 DEF LoopDelete, ThreadTypes
<1>9. CASE LoopUncount
  <2> DEFINE l == [loop EXCEPT !.pc = "collect"]
  <2>1. l \in LoopRecords /\ loop' = [l EXCEPT !.current = 0]
    BY <1>2, <1>3, <1>9, LoopFields DEF LoopUncount
  <2> HIDE DEF l
  <2>2. loop' \in LoopRecords
    BY <2>1, LoopFields
  <2>3. currentconnections' \in Int
    <3>1. loop.current \in Int
      BY ThreadFields
    <3>2. QED
      BY <1>9, <3>1 DEF LoopUncount
  <2>4. QED
    BY <1>1, <1>9, <2>2, <2>3 DEF LoopUncount, ThreadTypes, lists
<1>10. CASE LoopSelect
  <2>1. PICK ready \in SUBSET loop.watched :
          loop' = [Goto("manage") EXCEPT !.ready = ready]
    BY <1>10 DEF LoopSelect
  <2>2. ready \in SUBSET Peers
    BY <1>2
  <2> DEFINE l == Goto("manage")
  <2>3. l \in LoopRecords
    BY <1>2, <1>3
  <2> HIDE DEF l
  <2>4. loop' \in LoopRecords
    BY <2>1, <2>2, <2>3, LoopFields DEF l
  <2>5. pipe' \in 0 .. PipeSize
    BY <1>1, <1>10, ManagerAssumption DEF LoopSelect, ThreadTypes
  <2>6. QED
    BY <1>1, <1>10, <2>4, <2>5 DEF LoopSelect, ThreadTypes, lists
<1>11. CASE LoopCheck
  <2>1. pipe' \in 0 .. PipeSize
    BY <1>1, <1>11, ManagerAssumption DEF LoopCheck, ThreadTypes
  <2>2. loop' \in LoopRecords
    BY <1>2, <1>3, <1>11 DEF LoopCheck
  <2>3. QED
    BY <1>1, <1>11, <2>1, <2>2 DEF LoopCheck, ThreadTypes, lists
<1>12. CASE LoopManageConnecting
  <2>1. loop' \in LoopRecords
    BY <1>2, <1>12 DEF LoopManageConnecting
  <2>2. QED
    BY <1>1, <1>12, <2>1 DEF LoopManageConnecting, ThreadTypes
<1>13. CASE LoopEnd
  <2>1. loop' \in LoopRecords
    BY <1>2, <1>3, <1>13 DEF LoopEnd
  <2>2. QED
    BY <1>1, <1>13, <2>1 DEF LoopEnd, ThreadTypes
<1>14. QED
  BY <1>4, <1>5, <1>6, <1>7, <1>8, <1>9, <1>10, <1>11, <1>12, <1>13 DEF Execute

LEMMA TypesKept ==
  ASSUME Types, Made, Storing, Chosen, [Next]_vars
  PROVE  Types'
<1>1. ThreadTypes'
  BY TypesOfBind, TypesOfCloser, TypesOfLoop DEF Next
<1>2. /\ peer_list' \in Seq(Peers)
      /\ connecting_peer_list' \in Objects(Peers)
      /\ connecting_peer_list'.count <= Len(connecting_peer_list'.memory)
  <2>1. peer_list \in Seq(Peers) /\ (BindStore => bind.peer \in Peers)
    BY StoreEffect DEF Types, TypeOK
  <2>2. QED
    BY <2>1, ListsHold, ConnectingList
<1>3. to_be_closed' \in Objects(Peers) /\ to_be_closed'.count <= Len(to_be_closed'.memory)
  BY RequestsGo
<1>4. phase' \in [Peers -> AllPhases]
  BY PhasesGo
<1>5. {connecting_peer_list', to_be_closed'} \subseteq ObjectLists
  BY <1>2, <1>3 DEF Objects, ObjectLists
<1>6. QED
  BY <1>1, <1>2, <1>3, <1>4, <1>5
  DEF Types, TypeOK, ThreadTypes, AllPhases, LoopPlaces, BindPlaces, LoopRecords,
      BindRecords, CloserRecords

-----------------------------------------------------------------------------
(* What the walks have passed, and the bytes in the pipe. *)

(* Where the loop goes. *)
LEMMA LoopReaches ==
  ASSUME loop \in LoopRecords
  PROVE  /\ LoopTop => loop'.pc = "purge"
         /\ LoopPurge \/ LoopPop => loop'.pc = "purge"
         /\ LoopWatch \/ LoopUncount => loop'.pc = "collect"
         /\ LoopDelete => loop'.pc = "uncount"
         /\ LoopSelect => loop'.pc = "manage"
         /\ LoopSelectFails => loop'.pc \in {"top", "read"}
         /\ LoopCheck \/ LoopAgain => loop'.pc = "top"
         /\ LoopManage => loop'.pc = "manage"
         /\ LoopManaged \/ LoopManageConnecting => loop'.pc = "manageConnecting"
         /\ LoopEnd => loop'.pc = "done"
         /\ LoopUndefined => loop'.pc = "undefined"
<1>1. /\ \A pc \in LoopPlaces : Goto(pc) \in LoopRecords /\ Goto(pc).pc = pc
      /\ Advance \in LoopRecords
      /\ Advance.pc = loop.pc
  BY LoopGoes, LoopAdvances
<1>2. {"top", "purge", "collect", "uncount", "select", "read", "manage",
       "manageConnecting", "done", "undefined"} \subseteq LoopPlaces
  BY DEF LoopPlaces
<1>3. \A l \in LoopRecords : \A s :
        /\ [l EXCEPT !.ready = s].pc = l.pc
        /\ [l EXCEPT !.watched = s].pc = l.pc
        /\ [l EXCEPT !.watched = {}, !.ready = {}].pc = l.pc
  BY DEF LoopRecords
<1>4. LoopTop => loop'.pc = "purge"
  BY <1>1, <1>2, <1>3 DEF LoopTop
<1>5. LoopPurge \/ LoopPop => loop'.pc = "purge"
  BY <1>1, <1>2 DEF LoopPurge, LoopPop
<1>6. LoopWatch => loop'.pc = "collect"
  BY <1>1, <1>3 DEF LoopWatch
<1>7. LoopUncount => loop'.pc = "collect"
  BY DEF LoopUncount, LoopRecords
<1>8. LoopDelete => loop'.pc = "uncount"
  BY DEF LoopDelete, LoopRecords
<1>9. LoopSelect => loop'.pc = "manage"
  BY <1>1, <1>2, <1>3 DEF LoopSelect
<1>10. LoopSelectFails => loop'.pc \in {"top", "read"}
  BY <1>1, <1>2 DEF LoopSelectFails
<1>11. LoopCheck \/ LoopAgain => loop'.pc = "top"
  BY <1>1, <1>2 DEF LoopCheck, LoopAgain
<1>12. LoopManage => loop'.pc = "manage"
  BY <1>1 DEF LoopManage
<1>13. LoopManaged \/ LoopManageConnecting => loop'.pc = "manageConnecting"
  BY <1>1, <1>2 DEF LoopManaged, LoopManageConnecting
<1>14. LoopEnd => loop'.pc = "done"
  BY <1>1, <1>2 DEF LoopEnd
<1>15. LoopUndefined => loop'.pc = "undefined"
  BY <1>1, <1>2 DEF LoopUndefined
<1>16. QED
  BY <1>4, <1>5, <1>6, <1>7, <1>8, <1>9, <1>10, <1>11, <1>12, <1>13, <1>14, <1>15

(* The loop stays defined while no add() was torn. *)
LEMMA LoopDefined ==
  ASSUME Types, Untorn, [Next]_vars
  PROVE  loop'.pc # "undefined"
<1>1. loop \in LoopRecords /\ loop.pc # "undefined" /\ ~LoopUndefined
  BY ThreadFields, NothingFreed DEF Untorn, LoopUndefined
<1>2. CASE LoopCollected \/ LoopPurged
  BY <1>1, <1>2, LoopGoes DEF LoopCollected, LoopPurged, LoopPlaces
<1>3. CASE Execute /\ ~LoopCollected /\ ~LoopPurged
  BY <1>1, <1>3, LoopReaches DEF Execute
<1>4. CASE ~Execute
  BY <1>1, <1>4
  DEF Next, BindChoose, AddConnectionPeer, BindRead, BindWrite, BindStore, BindCount,
      BindPost, ClosePInfo, CloserRequest, CloserCount, CloserPost, Stop, vars
<1>5. QED
  BY <1>2, <1>3, <1>4

(* What its walk has passed. *)
LEMMA PassedKept ==
  ASSUME Types, Storing, Chosen, Passed, [Next]_vars
  PROVE  Passed'
<1>1. Types /\ Passed
  OBVIOUS
<1>2. Listed \in Seq(Peers) /\ Len(Listed) \in Nat /\ loop.i \in Nat \ {0}
  BY <1>1, ListedPlaces, LenProperties DEF Types, LoopRecords, BindRecords
<1>3. CASE BindCount
  <2>1. PICK p \in Peers : Listed' = Append(Listed, p)
    BY <1>3, CountEffect
  <2>2. /\ \A j \in 1 .. Len(Listed) : Listed'[j] = Listed[j]
        /\ Len(Listed') = Len(Listed) + 1
    BY <1>2, <2>1, AppendProperties
  <2>3. loop' = loop
    BY <1>3 DEF BindCount
  <2>4. QED
    BY <1>1, <1>2, <2>2, <2>3 DEF Passed
<1>4. CASE LoopDelete
  <2>1. loop.i \in 1 .. Len(Listed) /\ Listed' = RemoveAt(Listed, loop.i)
    BY <1>1, <1>4, DeleteEffect
  <2>2. /\ Len(Listed') = Len(Listed) - 1
        /\ \A j \in 1 .. loop.i - 1 : Listed'[j] = Listed[j]
    <3> DEFINE items == Listed
    <3>1. items \in Seq(Peers) /\ loop.i \in 1 .. Len(items) /\ Len(items) \in Nat
      BY <1>2, <2>1
    <3> HIDE DEF items
    <3>2. /\ Len(RemoveAt(items, loop.i)) = Len(items) - 1
          /\ \A j \in 1 .. Len(items) - 1 :
               RemoveAt(items, loop.i)[j] =
                 IF j < loop.i THEN items[j] ELSE items[j + 1]
      BY <3>1, RemovedPlaces
    <3>3. \A j \in 1 .. loop.i - 1 : j \in 1 .. Len(items) - 1 /\ j < loop.i
      BY <3>1
    <3>4. QED
      BY <2>1, <3>2, <3>3 DEF items
  <2>3. loop'.i = loop.i /\ loop'.watched = loop.watched /\ loop.pc = "collect"
    BY <1>1, <1>4 DEF LoopDelete, Types, LoopRecords, BindRecords
  <2>4. \A j \in 1 .. loop.i - 1 : j <= Len(Listed') /\ Listed'[j] \in loop.watched
    BY <1>1, <1>2, <2>1, <2>2, <2>3 DEF Passed
  <2>5. QED
    BY <2>3, <2>4 DEF Passed
<1>5. CASE LoopWatch
  <2>1. Listed' = Listed
    BY <1>5, ListedStay DEF LoopWatch, lists
  <2>2. /\ loop.pc = "collect"
        /\ loop.i <= Len(Listed)
        /\ loop'.i = loop.i + 1
        /\ loop'.watched = loop.watched \cup {Listed[loop.i]}
    BY <1>1, <1>5 DEF LoopWatch, Advance, Types, LoopRecords, BindRecords
  <2>3. \A j \in 1 .. loop.i : j <= Len(Listed) /\ Listed[j] \in loop'.watched
    BY <1>1, <1>2, <2>2 DEF Passed
  <2>4. QED
    BY <1>2, <2>1, <2>2, <2>3 DEF Passed
<1>6. CASE LoopUncount
  <2>1. Listed' = Listed
    BY <1>6, ListedStay DEF LoopUncount, lists
  <2>2. loop'.i = loop.i /\ loop'.watched = loop.watched /\ loop.pc = "uncount"
    BY <1>1, <1>6 DEF LoopUncount, Types, LoopRecords, BindRecords
  <2>3. QED
    BY <1>1, <2>1, <2>2 DEF Passed
<1>7. CASE LoopPurged
  <2>1. loop'.i = 1
    BY <1>1, <1>7 DEF LoopPurged, Goto, Types, LoopRecords, BindRecords
  <2>2. QED
    BY <2>1 DEF Passed
<1>8. CASE BindChoose \/ (AddConnectionPeer /\ ~BindCount) \/ ClosePInfo \/ Stop
           \/ UNCHANGED vars
  <2>1. /\ loop' = loop
        /\ BindStore \/ UNCHANGED <<peer_list, connecting_peer_list>>
    BY <1>8
    DEF BindChoose, AddConnectionPeer, BindRead, BindWrite, BindStore, BindPost,
        ClosePInfo, CloserRequest, CloserCount, CloserPost, Stop, lists, vars
  <2>2. Listed' = Listed
    BY <2>1, ListedStay, StoreEffect
  <2>3. QED
    BY <1>1, <2>1, <2>2 DEF Passed
<1>9. CASE Execute /\ ~LoopDelete /\ ~LoopWatch /\ ~LoopUncount /\ ~LoopPurged
  <2>1. CASE LoopCollected
    <3>1. loop'.pc \in {"top", "select"}
      BY <1>1, <2>1, LoopGoes, ThreadFields DEF LoopCollected, LoopPlaces
    <3>2. QED
      BY <3>1 DEF Passed
  <2>2. CASE ~LoopCollected
    <3>1. loop'.pc \notin {"collect", "uncount"}
      BY <1>1, <1>9, <2>2, LoopReaches, ThreadFields DEF Execute
    <3>2. QED
      BY <3>1 DEF Passed
  <2>3. QED
    BY <2>1, <2>2
<1>10. QED
  BY <1>3, <1>4, <1>5, <1>6, <1>7, <1>8, <1>9 DEF Next

LEMMA RequestedKept ==
  ASSUME Types, Requested, [Next]_vars
  PROVE  Requested'
<1>1. /\ loop \in LoopRecords /\ pipe \in Nat /\ PipeSize \in Nat
      /\ to_be_closed \in Objects(Peers)
      /\ to_be_closed.count \in Nat
      /\ to_be_closed.count <= Len(to_be_closed.memory)
      /\ closer \in CloserRecords
  BY ManagerAssumption DEF Types, TypeOK, Objects
<1>2. CASE CloserRequest
  <2>1. PICK p \in Peers : to_be_closed' = Stored(to_be_closed, p)
    BY <1>2 DEF CloserRequest
  <2>2. to_be_closed'.count = to_be_closed.count
    BY <1>1, <2>1, StoredItems
  <2>3. closer.pc = "idle" /\ UNCHANGED <<loop, pipe>>
    BY <1>2 DEF CloserRequest
  <2>4. QED
    BY <2>2, <2>3 DEF Requested
<1>3. CASE CloserCount
  <2>1. closer'.pc = "added"
    BY <1>1, <1>3 DEF CloserCount, CloserRecords
  <2>2. QED
    BY <2>1 DEF Requested
<1>4. CASE CloserPost \/ Stop \/ BindPost
  <2>1. pipe' > 0
    BY <1>1, <1>4 DEF CloserPost, Stop, BindPost
  <2>2. QED
    BY <2>1 DEF Requested
<1>5. CASE BindChoose \/ (AddConnectionPeer /\ ~BindPost) \/ UNCHANGED vars
  <2>1. UNCHANGED <<to_be_closed, pipe, loop, closer>>
    BY <1>5
    DEF BindChoose, AddConnectionPeer, BindRead, BindWrite, BindStore, BindCount, lists,
        vars
  <2>2. QED
    BY <2>1 DEF Requested
<1>6. CASE LoopPurged
  <2>1. to_be_closed'.count = 0
    BY <1>6 DEF LoopPurged, lists
  <2>2. QED
    BY <2>1 DEF Requested
<1>7. CASE LoopWatch \/ LoopDelete \/ LoopUncount \/ LoopCollected
  <2>1. /\ loop.pc \in {"collect", "uncount"}
        /\ UNCHANGED <<to_be_closed, pipe, closer>>
    BY <1>7 DEF LoopWatch, LoopDelete, LoopUncount, LoopCollected, lists
  <2>2. QED
    BY <2>1 DEF Requested
<1>8. CASE LoopTop \/ LoopPurge \/ LoopPop \/ LoopSelect \/ LoopSelectFails \/ LoopCheck
           \/ LoopManage \/ LoopManaged \/ LoopManageConnecting \/ LoopAgain \/ LoopEnd
           \/ LoopUndefined
  <2>1. loop'.pc \in {"purge", "top", "read", "manage", "manageConnecting", "done",
                      "undefined"}
    BY <1>1, <1>8, LoopReaches
  <2>2. QED
    BY <2>1 DEF Requested
<1>9. QED
  BY <1>2, <1>3, <1>4, <1>5, <1>6, <1>7, <1>8
  DEF Next, ClosePInfo, Execute, AddConnectionPeer

LEMMA WokenKept ==
  ASSUME Types, Chosen, Passed, Woken, [Next]_vars
  PROVE  Woken'
<1>1. /\ loop \in LoopRecords /\ bind \in BindRecords /\ pipe \in Nat /\ PipeSize \in Nat
      /\ Types /\ Woken /\ Passed
  BY ManagerAssumption DEF Types, TypeOK
<1>2. CASE CloserPost \/ Stop \/ BindPost
  <2>1. pipe' > 0
    BY <1>1, <1>2 DEF CloserPost, Stop, BindPost
  <2>2. QED
    BY <2>1 DEF Woken
<1>3. CASE BindCount
  <2>1. bind' = [bind EXCEPT !.pc = "added"] /\ UNCHANGED <<finish, pipe, loop>>
    BY <1>3 DEF BindCount
  <2>2. bind'.pc = "added"
    BY <1>1, <2>1 DEF BindRecords
  <2>3. QED
    BY <1>1, <2>1, <2>2 DEF Woken
<1>4. CASE BindChoose \/ BindRead \/ BindWrite \/ BindStore \/ CloserRequest \/ CloserCount
           \/ UNCHANGED vars
  <2>1. UNCHANGED <<finish, pipe, loop>>
    BY <1>4
    DEF BindChoose, BindRead, BindWrite, BindStore, CloserRequest, CloserCount, lists, vars
  <2>2. Listed' = Listed
    <3>1. ~BindStore => UNCHANGED <<peer_list, connecting_peer_list>>
      BY <1>4 DEF BindChoose, BindRead, BindWrite, CloserRequest, CloserCount, lists, vars
    <3>2. QED
      BY <3>1, ListedStay, StoreEffect
  <2>3. bind.pc = "added" => bind'.pc = "added"
    BY <1>4
    DEF BindChoose, BindRead, BindWrite, BindStore, CloserRequest, CloserCount, lists, vars
  <2>4. QED
    BY <1>1, <2>1, <2>2, <2>3 DEF Woken
<1>5. CASE LoopCollected
  <2>1. /\ loop.pc = "collect"
        /\ loop.i > Len(Listed)
        /\ loop' = Goto(IF finish THEN "top" ELSE "select")
        /\ finish' = finish
        /\ Listed' = Listed
    BY <1>5, ListedStay DEF LoopCollected, lists
  <2>2. CASE finish
    <3>1. loop'.pc = "top"
      BY <1>1, <2>1, <2>2, LoopGoes DEF LoopPlaces
    <3>2. QED
      BY <3>1 DEF Woken
  <2>3. CASE ~finish
    <3>1. loop'.watched = loop.watched
      BY <1>1, <2>1, <2>3, LoopGoes DEF LoopPlaces
    <3>2. ToSet(Listed) \subseteq loop.watched
      <4>1. /\ Listed \in Seq(Peers) /\ Len(Listed) \in Nat /\ loop.i \in Nat \ {0}
            /\ ToSet(Listed) = {Listed[j] : j \in 1 .. Len(Listed)}
        BY <1>1, ListedPlaces, ListMembers, LenProperties, ThreadFields
      <4>2. \A j \in 1 .. Len(Listed) : j \in 1 .. loop.i - 1
        BY <2>1, <4>1
      <4>3. QED
        BY <1>1, <2>1, <4>1, <4>2 DEF Passed
    <3>3. QED
      BY <2>1, <2>3, <3>1, <3>2 DEF Woken
  <2>4. QED
    BY <2>2, <2>3
<1>6. CASE Execute /\ ~LoopCollected
  <2>1. loop'.pc # "select"
    <3>1. LoopPurged => loop'.pc = "collect"
      BY <1>1, LoopGoes DEF LoopPurged, LoopPlaces
    <3>2. QED
      BY <1>1, <1>6, <3>1, LoopReaches DEF Execute
  <2>2. QED
    BY <2>1 DEF Woken
<1>7. QED
  BY <1>2, <1>3, <1>4, <1>5, <1>6 DEF Next, ClosePInfo, AddConnectionPeer

-----------------------------------------------------------------------------
LEMMA Initially ==
  Init => Inv
<1> SUFFICES ASSUME Init
             PROVE  Inv
  OBVIOUS
<1>1. /\ peer_list = <<>>
      /\ connecting_peer_list = EmptyList
      /\ to_be_closed = EmptyList
      /\ phase = [p \in Peers |-> "none"]
  BY DEF Init
<1>2. /\ EmptyList \in Objects(Peers)
      /\ EmptyList.memory = <<>>
      /\ EmptyList.count = 0
      /\ EmptyList.add = "none"
      /\ Len(EmptyList.memory) = 0
  BY DEF EmptyList, Objects
<1>3. Listed = <<>>
  <2>1. connecting = <<>>
    <3>1. <<>> \in Seq(Peers)
      OBVIOUS
    <3>2. connecting = SubSeq(<<>>, 1, 0)
      BY <1>1, <1>2 DEF connecting, Items
    <3>3. QED
      BY <3>1, <3>2, SubSeqEmpty
  <2>2. QED
    BY <1>1, <2>1 DEF Listed
<1>4. Types
  <2>1. /\ loop \in LoopRecords
        /\ loop.pc = "top" /\ loop.watched = {} /\ loop.ready = {}
    BY DEF Init, LoopRecords, LoopPlaces
  <2>2. bind \in BindRecords /\ bind.pc = "idle" /\ bind.peer = NoPeer
    BY DEF Init, BindRecords, BindPlaces, PeerOrNone
  <2>3. closer \in CloserRecords /\ closer.pc = "idle" /\ closer.requests = 0
    BY ManagerAssumption DEF Init, CloserRecords
  <2>4. /\ peer_list \in Seq(Peers)
        /\ {connecting_peer_list, to_be_closed} \subseteq ObjectLists
        /\ connecting_peer_list.count <= Len(connecting_peer_list.memory)
        /\ to_be_closed.count <= Len(to_be_closed.memory)
    BY <1>1, <1>2 DEF Objects, ObjectLists
  <2>5. /\ currentconnections \in Int
        /\ finish \in BOOLEAN
        /\ pipe \in 0 .. PipeSize
        /\ phase \in [Peers -> Phases \cup {"none", "deleted"}]
    <3>1. currentconnections = 0 /\ pipe = 0
      BY DEF Init
    <3>2. pipe \in 0 .. PipeSize
      BY <3>1, ManagerAssumption
    <3>3. phase \in [Peers -> Phases \cup {"none", "deleted"}]
      BY <1>1
    <3>4. finish \in BOOLEAN
      BY ZenonT(20) DEF Init
    <3>5. currentconnections \in Int
      BY <3>1
    <3>6. QED
      BY <3>2, <3>3, <3>4, <3>5
  <2>6. TypeOK
    BY <2>1, <2>2, <2>3, <2>4, <2>5, ManagerAssumption DEF TypeOK, PeerOrNone
  <2>7. QED
    BY <1>1, <1>2, <2>1, <2>2, <2>3, <2>5, <2>6 DEF Types, AllPhases
<1>5. Sound
  BY <1>3 DEF Sound, ToSet, IsInjective
<1>6. /\ bind.pc = "idle" /\ closer.pc = "idle" /\ loop.pc = "top"
      /\ connecting_peer_list.add = "none"
  BY <1>1, <1>2 DEF Init
<1>7. Untorn
  <2>1. Followed
    BY <1>1 DEF Followed, Phases
  <2>2. Handing
    BY <1>6 DEF Handing, InHand
  <2>3. QED
    BY <1>5, <1>6, <2>1, <2>2 DEF Untorn
<1>8. Made
  <2>1. <<>> \in Seq(MadePeers)
    OBVIOUS
  <2>2. QED
    BY <1>1, <1>2, <2>1 DEF Made
<1>9. Storing /\ Chosen /\ Passed /\ Requested /\ Woken
  BY <1>6 DEF Storing, Chosen, Passed, Requested, Woken
<1>10. QED
  BY <1>4, <1>7, <1>8, <1>9 DEF Inv

LEMMA Inductive ==
  Inv /\ [Next]_vars => Inv'
<1> SUFFICES ASSUME Inv, [Next]_vars
             PROVE  Inv'
  OBVIOUS
<1>1. Types' /\ Made' /\ Storing' /\ Chosen'
  BY TypesKept, MadeKept, StoringKept, ChosenKept DEF Inv
<1>2. Passed' /\ Requested' /\ Woken'
  BY PassedKept, RequestedKept, WokenKept DEF Inv
<1>3. (Torn(connecting_peer_list) \/ Untorn)'
  <2>1. CASE Torn(connecting_peer_list)
    BY <2>1, TornStays DEF Inv
  <2>2. CASE Untorn
    BY <2>2, UntornKept, LoopDefined DEF Inv, Untorn
  <2>3. QED
    BY <2>1, <2>2 DEF Inv
<1>4. QED
  BY <1>1, <1>2, <1>3 DEF Inv

LEMMA Invariance ==
  Spec => []Inv
<1>1. Init => Inv
  BY Initially
<1>2. Inv /\ [Next]_vars => Inv'
  BY Inductive
<1>3. QED
  BY <1>1, <1>2, PTL DEF Spec

(* A peer is in one list, once, the lists hold none that was deleted, and   *)
(* the loop serves and deletes no freed memory, whatever the accept thread  *)
(* adds and the loop moves and deletes between two of its steps, until a    *)
(* del() comes between the two steps of an add()                            *)
(* (ThreadedConnectionManager::execute and addConnectionPeer).              *)
THEOREM ListsAreAlwaysSound == Spec => []ListsAreSound
<1>1. Inv => ListsAreSound
  BY DEF Inv, Types, Untorn, ListsAreSound
<1>2. QED
  BY <1>1, Invariance, PTL

(* A peer that exists is in a list or in the hands of the accept thread     *)
(* until a del() tears an add(): manageConnectingPeer, the deletion and     *)
(* cleanup() forget none.                                                   *)
THEOREM NothingEverLeaks == Spec => []NothingLeaks
<1>1. Inv => NothingLeaks
  BY DEF Inv, Untorn, Followed, Existing, Kept, NothingLeaks
<1>2. QED
  BY <1>1, Invariance, PTL

(* The loop is never in select() over a listed peer it does not watch, a    *)
(* close request or the end, with no byte in the control pipe and none on   *)
(* its way, whatever the lists have become.                                 *)
THEOREM NoWakeupIsLost == Spec => []NoLostWakeup
<1>1. Inv => NoLostWakeup
  BY DEF Inv, Requested, Woken, NoLostWakeup
<1>2. QED
  BY <1>1, Invariance, PTL
=============================================================================
