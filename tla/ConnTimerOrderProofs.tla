------------------------ MODULE ConnTimerOrderProofs ------------------------
(***************************************************************************)
(* Proofs about ConnTimer for a worker without upstream connections (no    *)
(* location has "pass") whose table was never full: the sweep leaves no    *)
(* connection that is due, and the heap with its sift loops implements the *)
(* abstract timer ExpiryQueue.                                             *)
(*                                                                         *)
(* The heap is not ordered by active_time: sy_connection_expire in a late  *)
(* handler may raise the time of a connection and still only sifts it up.  *)
(* What is invariant is the order by Key, which does not tell expired      *)
(* connections apart.                                                      *)
(*                                                                         *)
(* When the table has room for every connection, no registration is ever   *)
(* refused; that is here too, and holds with upstream connections.         *)
(***************************************************************************)
EXTENDS ConnTimerProofs, WellFoundedInduction, NaturalsInduction, FiniteSetTheorems

-------------------------------------------------------------------------------
(* Heap order of an array of numbers, and what the sift loops do to it.    *)

Child(p, i) == i \in {L(p), R(p)}

HeapOrd(K, n) == \A p, i \in 1 .. n : Child(p, i) => K[p] <= K[i]

\* What replaces a hole between p and i must lie between them.
Bridge(K, n, h) ==
    \A p, i \in 1 .. n : Child(p, h) /\ Child(h, i) => K[p] <= K[i]

UpOrd(K, n, h) ==
    /\ \A p, i \in 1 .. n : Child(p, i) /\ i # h => K[p] <= K[i]
    /\ Bridge(K, n, h)

DownOrd(K, n, h) ==
    /\ \A p, i \in 1 .. n : Child(p, i) /\ p # h => K[p] <= K[i]
    /\ Bridge(K, n, h)

Swap(K, i, j) == [K EXCEPT ![i] = K[j], ![j] = K[i]]

\* Every position but the root has one parent; a parent is below its children.
LEMMA ChildOf ==
    ASSUME NEW p \in Nat \ {0}, NEW q \in Nat \ {0}, NEW i \in Nat, Child(p, i)
    PROVE  /\ p < i /\ i > 1
           /\ Child(q, i) => p = q
           /\ p = P(i)
  BY SMT DEF Child, L, R, P

LEMMA PullUpOrder ==
    ASSUME NEW n \in Nat, NEW K \in [1 .. n -> Int], NEW h \in 1 .. n,
           NEW q \in 1 .. n, Child(q, h), UpOrd(K, n, h), K[h] <= K[q]
    PROVE  UpOrd(Swap(K, h, q), n, q)
<1> DEFINE M == Swap(K, h, q)
<1>1. \A j \in 1 .. n : M[j] = IF j = h THEN K[q] ELSE IF j = q THEN K[h] ELSE K[j]
  <2>1. q # h
    BY ChildOf
  <2> QED
    BY <2>1 DEF Swap
<1>2. \A p, i \in 1 .. n : Child(p, i) => p < i /\ (Child(q, i) => p = q)
  BY ChildOf
<1>3. \A p, i \in 1 .. n : Child(p, i) /\ i # q => M[p] <= M[i]
  <2> SUFFICES ASSUME NEW p \in 1 .. n, NEW i \in 1 .. n, Child(p, i), i # q
               PROVE  M[p] <= M[i]
    OBVIOUS
  <2>1. CASE i = h
    BY <1>1, <1>2, <2>1
  <2>2. CASE i # h /\ p = q
    BY <1>1, <1>2, <2>2 DEF UpOrd
  <2>3. CASE i # h /\ p = h
    BY <1>1, <1>2, <2>3 DEF UpOrd, Bridge
  <2>4. CASE i # h /\ p # q /\ p # h
    BY <1>1, <2>4 DEF UpOrd
  <2> QED
    BY <2>1, <2>2, <2>3, <2>4
<1>4. Bridge(M, n, q)
  <2> SUFFICES ASSUME NEW p \in 1 .. n, NEW i \in 1 .. n, Child(p, q), Child(q, i)
               PROVE  M[p] <= M[i]
    BY DEF Bridge
  <2>1. p < q /\ q < h /\ q < i
    BY <1>2
  <2>2. K[p] <= K[q]
    BY <2>1 DEF UpOrd
  <2>3. CASE i = h
    BY <1>1, <2>1, <2>2, <2>3
  <2>4. CASE i # h
    <3>1. K[q] <= K[i]
      BY <2>4 DEF UpOrd
    <3> QED
      BY <1>1, <2>1, <2>2, <2>4, <3>1
  <2> QED
    BY <2>3, <2>4
<1> QED
  BY <1>3, <1>4 DEF UpOrd

LEMMA PullDownOrder ==
    ASSUME NEW n \in Nat, NEW K \in [1 .. n -> Int], NEW h \in 1 .. n,
           NEW d \in 1 .. n, Child(h, d), DownOrd(K, n, h), K[d] <= K[h],
           \A i \in 1 .. n : Child(h, i) => K[d] <= K[i]
    PROVE  DownOrd(Swap(K, h, d), n, d)
<1> DEFINE M == Swap(K, h, d)
<1>1. \A j \in 1 .. n : M[j] = IF j = h THEN K[d] ELSE IF j = d THEN K[h] ELSE K[j]
  <2>1. d # h
    BY ChildOf
  <2> QED
    BY <2>1 DEF Swap
<1>2. \A p, i \in 1 .. n : Child(p, i) => p < i /\ (Child(h, i) => p = h)
  BY ChildOf
<1>3. \A p, i \in 1 .. n : Child(p, i) /\ p # d => M[p] <= M[i]
  <2> SUFFICES ASSUME NEW p \in 1 .. n, NEW i \in 1 .. n, Child(p, i), p # d
               PROVE  M[p] <= M[i]
    OBVIOUS
  <2>1. CASE p = h
    BY <1>1, <1>2, <2>1
  <2>2. CASE i = h
    BY <1>1, <1>2, <2>2 DEF DownOrd, Bridge
  <2>3. CASE p # h /\ i # h
    BY <1>1, <1>2, <2>3 DEF DownOrd
  <2> QED
    BY <2>1, <2>2, <2>3
<1>4. Bridge(M, n, d)
  <2> SUFFICES ASSUME NEW p \in 1 .. n, NEW i \in 1 .. n, Child(p, d), Child(d, i)
               PROVE  M[p] <= M[i]
    BY DEF Bridge
  <2>1. p = h /\ h < d /\ d < i
    BY <1>2
  <2>2. K[d] <= K[i]
    BY <2>1 DEF DownOrd
  <2> QED
    BY <1>1, <2>1, <2>2
<1> QED
  BY <1>3, <1>4 DEF DownOrd

LEMMA PlaceUpOrder ==
    ASSUME NEW n \in Nat, NEW K \in [1 .. n -> Int], NEW h \in 1 .. n,
           UpOrd(K, n, h), \A p \in 1 .. n : Child(p, h) => K[p] <= K[h]
    PROVE  HeapOrd(K, n)
  BY DEF UpOrd, HeapOrd

LEMMA PlaceDownOrder ==
    ASSUME NEW n \in Nat, NEW K \in [1 .. n -> Int], NEW h \in Nat,
           DownOrd(K, n, h), \A i \in 1 .. n : h \in 1 .. n /\ Child(h, i) => K[h] <= K[i]
    PROVE  HeapOrd(K, n)
  BY DEF DownOrd, HeapOrd

\* A new number in one position of an ordered heap.
LEMMA ChangeOrder ==
    ASSUME NEW n \in Nat, NEW K \in [1 .. n -> Int], HeapOrd(K, n), NEW h \in 1 .. n,
           NEW M \in [1 .. n -> Int], \A j \in 1 .. n : j # h => M[j] = K[j]
    PROVE  /\ M[h] >= K[h] => DownOrd(M, n, h)
           /\ M[h] <= K[h] => UpOrd(M, n, h)
<1>1. Bridge(M, n, h)
  <2> SUFFICES ASSUME NEW p \in 1 .. n, NEW i \in 1 .. n, Child(p, h), Child(h, i)
               PROVE  M[p] <= M[i]
    BY DEF Bridge
  <2>1. p < h /\ h < i
    BY ChildOf
  <2>2. K[p] <= K[h] /\ K[h] <= K[i]
    BY DEF HeapOrd
  <2> QED
    BY <2>1, <2>2
<1>2. \A p, i \in 1 .. n : Child(p, i) => p < i /\ K[p] <= K[i]
  BY ChildOf DEF HeapOrd
<1>3. ASSUME M[h] >= K[h] PROVE DownOrd(M, n, h)
  <2>1. \A p, i \in 1 .. n : Child(p, i) /\ p # h => M[p] <= M[i]
    BY <1>2, <1>3
  <2> QED
    BY <1>1, <2>1 DEF DownOrd
<1>4. ASSUME M[h] <= K[h] PROVE UpOrd(M, n, h)
  <2>1. \A p, i \in 1 .. n : Child(p, i) /\ i # h => M[p] <= M[i]
    BY <1>2, <1>4
  <2> QED
    BY <1>1, <2>1 DEF UpOrd
<1> QED
  BY <1>3, <1>4

LEMMA AppendOrder ==
    ASSUME NEW n \in Nat, NEW K \in [1 .. n -> Int], HeapOrd(K, n),
           NEW M \in [1 .. n + 1 -> Int], \A j \in 1 .. n : M[j] = K[j]
    PROVE  UpOrd(M, n + 1, n + 1)
<1>1. \A p, i \in 1 .. n + 1 : Child(p, i) => p < i
  BY ChildOf
<1> QED
  BY <1>1 DEF UpOrd, Bridge, HeapOrd

\* The last number of a heap goes to the root, or is dropped.
LEMMA RemoveOrder ==
    ASSUME NEW n \in Nat, NEW K \in [1 .. n -> Int], HeapOrd(K, n), n > 1,
           NEW M \in [1 .. n - 1 -> Int]
    PROVE  /\ (\A j \in 2 .. n - 1 : M[j] = K[j]) => DownOrd(M, n - 1, 1)
           /\ (\A j \in 1 .. n - 1 : M[j] = K[j]) => DownOrd(M, n - 1, n)
<1>1. \A p, i \in 1 .. n : Child(p, i) => p < i /\ i > 1
  BY ChildOf
<1>2. \A p, i \in 1 .. n - 1 : Child(p, i) => K[p] <= K[i] /\ p < i
  BY <1>1 DEF HeapOrd
<1>3. ASSUME \A j \in 2 .. n - 1 : M[j] = K[j] PROVE DownOrd(M, n - 1, 1)
  BY <1>1, <1>2, <1>3 DEF DownOrd, Bridge
<1>4. ASSUME \A j \in 1 .. n - 1 : M[j] = K[j] PROVE DownOrd(M, n - 1, n)
  <2>1. \A i \in 1 .. n - 1 : ~Child(n, i)
    BY ChildOf
  <2> QED
    BY <1>2, <1>4, <2>1 DEF DownOrd, Bridge
<1> QED
  BY <1>3, <1>4

\* Raising everything below a bound to the bound keeps the order.
LEMMA ClampOrder ==
    ASSUME NEW n \in Nat, NEW K \in [1 .. n -> Int], HeapOrd(K, n), NEW t \in Int,
           NEW M \in [1 .. n -> Int], \A j \in 1 .. n : M[j] = Max2(K[j], t)
    PROVE  HeapOrd(M, n)
  BY DEF HeapOrd, Max2

\* A set of numbers that is not empty has a least one.
LEMMA LeastNumber ==
    ASSUME NEW S \in SUBSET Nat, S # {}
    PROVE  \E m \in S : \A j \in S : m <= j
<1>1. PICK m \in S : \A j \in S : <<j, m>> \notin OpToRel(<, Nat)
  BY WFMin, NatLessThanWellFounded
<1>2. \A j \in S : ~(j < m)
  BY <1>1, Zenon DEF OpToRel
<1> QED
  BY <1>2

\* The root of an ordered heap is its least element: a least position with
\* something smaller would have a parent with something smaller.
LEMMA RootIsLeast ==
    ASSUME NEW n \in Nat, NEW K \in [1 .. n -> Int], HeapOrd(K, n)
    PROVE  \A i \in 1 .. n : K[1] <= K[i]
<1> DEFINE Bad == {i \in 1 .. n : ~(K[1] <= K[i])}
<1> SUFFICES ASSUME Bad # {} PROVE FALSE
  OBVIOUS
<1>1. PICK m \in Bad : \A j \in Bad : m <= j
  <2>1. Bad \in SUBSET Nat
    OBVIOUS
  <2> QED
    BY <2>1, LeastNumber
<1>2. m \in 1 .. n /\ m # 1
  OBVIOUS
<1>3. P(m) \in 1 .. n /\ Child(P(m), m) /\ P(m) < m
  BY <1>2, SMT DEF Child, L, R, P
<1>4. K[P(m)] <= K[m]
  BY <1>2, <1>3 DEF HeapOrd
<1>5. P(m) \in Bad
  BY <1>2, <1>3, <1>4
<1> QED
  BY <1>1, <1>2, <1>3, <1>5

-------------------------------------------------------------------------------
(* The heap of the timer is ordered by Key.                                *)

Keys == [i \in 1 .. heap_size |-> Key(Cell(i))]

\* Only a connection that epoll refused is closed by a pending call, and it is
\* still the last one of the heap: the newest connection does not rise.
Dropping ==
    then # Nothing =>
      /\ then.op = "close" /\ phase # "sweep" /\ pc # "down"
      /\ pc = "up" => cur = then.conn /\ k = heap_size /\ active_time[cur] = now
      /\ pc = "ready" => connections[heap_size] = then.conn /\ heap_size > 0

OrderInv ==
    ~refused =>
      /\ \A c \in live : active_time[c] <= now
      /\ pc = "ready" => HeapOrd(Keys, heap_size)
      /\ pc = "up" => UpOrd(Keys, heap_size, k)
      /\ pc = "down" => DownOrd(Keys, heap_size, k)
      /\ Dropping

LEMMA KeyType ==
    ASSUME TypeInv, NEW c \in Conn
    PROVE  Key(c) \in Int /\ Key(c) >= active_time[c] /\ Key(c) >= now - Timeout - 1
  BY ClockAssumption DEF TypeInv, Types, Key, Max2

\* Key does not reverse the order of active_time.
LEMMA KeyMonotone ==
    ASSUME TypeInv, NEW c \in Conn, NEW d \in Conn, active_time[c] <= active_time[d]
    PROVE  Key(c) <= Key(d)
  BY ClockAssumption DEF TypeInv, Types, Key, Max2

LEMMA KeysType ==
    ASSUME TypeInv, Exact
    PROVE  Keys \in [1 .. heap_size -> Int]
<1>1. \A i \in 1 .. heap_size : Cell(i) \in Conn
  BY DEF Exact, TypeInv, Types
<1> QED
  BY <1>1, KeyType DEF Keys

LEMMA OrderInit == Init => OrderInv
  BY DEF Init, OrderInv, HeapOrd, Dropping

\* One iteration of a sift loop.
LEMMA PullKeys ==
    ASSUME TypeInv, Exact, HoleOK, pc # "ready", k \in 1 .. heap_size,
           NEW i \in 1 .. heap_size, i # k, Pull(i), Sifting
    PROVE  Keys' = Swap(Keys, k, i) /\ k' = i /\ heap_size' = heap_size
<1>1. \A j \in 1 .. heap_size :
         connections'[j] = IF j = k THEN connections[i] ELSE connections[j]
  BY HeapTypes DEF Pull, TypeInv, Types
<1>2. \A j \in 1 .. heap_size :
         Cell(j)' = IF j = k THEN Cell(i) ELSE IF j = i THEN Cell(k) ELSE Cell(j)
  BY <1>1 DEF Pull, Cell
<1>3. \A j \in 1 .. heap_size : Key(Cell(j))' =
         IF j = k THEN Key(Cell(i)) ELSE IF j = i THEN Key(Cell(k)) ELSE Key(Cell(j))
  BY <1>2 DEF Key, Sifting
<1> QED
  BY <1>3 DEF Keys, Swap, Pull, Sifting

LEMMA PlaceKeys ==
    ASSUME TypeInv, Exact, pc # "ready", Place, Sifting
    PROVE  Keys' = Keys /\ heap_size' = heap_size
<1>1. \A j \in 1 .. heap_size : Cell(j)' = Cell(j)
  BY HeapTypes DEF Place, Cell, TypeInv, Types
<1>2. \A j \in 1 .. heap_size : Key(Cell(j))' = Key(Cell(j))
  BY <1>1 DEF Key, Sifting
<1> QED
  BY <1>2 DEF Keys, Sifting

LEMMA ShiftUpOrder ==
    ASSUME TypeInv, Exact, HoleOK, OrderInv, ~refused, ShiftUp
    PROVE  OrderInv'
<1>1. /\ pc = "up" /\ k \in 1 .. heap_size /\ cur \in Conn /\ Cell(k) = cur
      /\ heap_size \in Nat /\ UpOrd(Keys, heap_size, k) /\ Keys \in [1 .. heap_size -> Int]
      /\ Keys[k] = Key(cur)
      /\ \A c \in live : active_time[c] <= now
      /\ live \subseteq Conn /\ active_time \in [Conn -> Int] /\ now \in Nat
  BY HeapTypes, KeysType
  DEF ShiftUp, HoleOK, TypeInv, HeapFilled, OrderInv, Cell, Types, Keys
<1>2. \A p \in 1 .. heap_size : Child(p, k) => p = P(k) /\ p # k
  BY <1>1, ChildOf
<1>3. CASE ParentIsLater /\ Pull(P(k))
  <2>1. P(k) \in 1 .. heap_size /\ P(k) # k /\ Child(P(k), k)
    <3>1. k \in Nat /\ k <= heap_size /\ P(k) > 0
      BY <1>1, <1>3 DEF ParentIsLater
    <3>2. P(k) \in Nat /\ P(k) < k /\ Child(P(k), k)
      BY <3>1, ParentBelow DEF Child
    <3> QED
      BY <1>1, <3>1, <3>2
  <2>2. Keys[P(k)] = Key(connections[P(k)]) /\ connections[P(k)] \in live
    BY <1>1, <2>1 DEF Keys, Cell, Exact
  <2>3. Keys[k] <= Keys[P(k)]
    BY <1>1, <1>3, <2>2, KeyMonotone DEF ParentIsLater
  <2>4. UpOrd(Keys', heap_size', k') /\ pc' = "up"
    BY <1>1, <1>3, <2>1, <2>3, PullKeys, PullUpOrder DEF ShiftUp, Pull
  <2>5. then = Nothing
    <3> SUFFICES ASSUME then # Nothing PROVE FALSE
      OBVIOUS
    <3>1. active_time[cur] = now
      BY <1>1 DEF OrderInv, Dropping
    <3> QED
      BY <1>1, <1>3, <2>2, <3>1 DEF ParentIsLater
  <2> QED
    BY <1>1, <2>4, <2>5 DEF OrderInv, Dropping, ShiftUp, Sifting
<1>4. CASE ~ParentIsLater /\ Place
  <2>1. \A p \in 1 .. heap_size : Child(p, k) => Keys[p] <= Keys[k]
    <3> SUFFICES ASSUME NEW p \in 1 .. heap_size, Child(p, k)
                 PROVE  Keys[p] <= Keys[k]
      OBVIOUS
    <3>1. p = P(k) /\ p # k /\ p > 0
      BY <1>1, <1>2
    <3>2. Keys[p] = Key(connections[p]) /\ connections[p] \in Conn
      BY <1>1, <3>1 DEF Keys, Cell, Exact
    <3>3. active_time[connections[p]] <= active_time[cur]
      BY <1>1, <1>4, <3>1, <3>2 DEF ParentIsLater
    <3> QED
      BY <1>1, <3>2, <3>3, KeyMonotone
  <2>2. HeapOrd(Keys', heap_size') /\ pc' = "ready"
    BY <1>1, <1>4, <2>1, PlaceKeys, PlaceUpOrder DEF ShiftUp, Place
  <2>3. then # Nothing => connections'[heap_size] = then.conn /\ heap_size > 0
    BY <1>1, <1>4, HeapTypes DEF OrderInv, Dropping, Place, TypeInv, Types
  <2> QED
    BY <1>1, <2>2, <2>3 DEF OrderInv, Dropping, ShiftUp, Sifting
<1> QED
  BY <1>3, <1>4 DEF ShiftUp

LEMMA ShiftDownOrder ==
    ASSUME TypeInv, Exact, HoleOK, OrderInv, ~refused, ShiftDown
    PROVE  OrderInv'
<1>1. /\ pc = "down" /\ k \in Nat /\ k >= 1 /\ cur \in Conn
      /\ heap_size \in Nat /\ DownOrd(Keys, heap_size, k)
      /\ Keys \in [1 .. heap_size -> Int]
      /\ k \in 1 .. heap_size => Keys[k] = Key(cur)
      /\ then = Nothing
      /\ live \subseteq Conn /\ active_time \in [Conn -> Int]
  BY HeapTypes, KeysType
  DEF ShiftDown, HoleOK, TypeInv, HeapFilled, OrderInv, Cell, Types, Keys, Dropping
<1>2. \A i \in 1 .. heap_size : Child(k, i) =>
         /\ i # k /\ (i = L(k) \/ i = R(k))
         /\ Keys[i] = Key(connections[i]) /\ connections[i] \in Conn
  <2>1. \A i \in 1 .. heap_size : Child(k, i) => i # k
    BY <1>1, ChildOf
  <2> QED
    BY <1>1, <2>1 DEF Child, Keys, Cell, Exact
<1>3. /\ Kid \in Nat /\ Child(k, Kid) /\ Kid > k
      /\ \A i \in 1 .. heap_size : Child(k, i) =>
            /\ Kid \in 1 .. heap_size
            /\ active_time[connections[Kid]] <= active_time[connections[i]]
  <2>1. Kid \in Nat /\ Child(k, Kid) /\ Kid > k
    BY <1>1 DEF Kid, Child, L, R
  <2>2. ASSUME NEW i \in 1 .. heap_size, Child(k, i)
        PROVE  /\ Kid \in 1 .. heap_size
               /\ active_time[connections[Kid]] <= active_time[connections[i]]
    <3>1. L(k) \in 1 .. heap_size /\ Child(k, L(k)) /\ Child(k, R(k))
      BY <1>1, <2>2 DEF Child, L, R
    <3>2. /\ active_time[connections[i]] \in Int
          /\ active_time[connections[L(k)]] \in Int
      BY <1>1, <1>2, <2>2, <3>1
    <3>3. CASE R(k) <= heap_size
      <4>1. R(k) \in 1 .. heap_size
        BY <1>1, <3>3 DEF L, R
      <4>2. active_time[connections[R(k)]] \in Int
        BY <1>1, <1>2, <3>1, <4>1
      <4> QED
        BY <1>2, <2>2, <3>1, <3>2, <3>3, <4>1, <4>2 DEF Kid
    <3>4. CASE ~(R(k) <= heap_size)
      <4>1. Kid = L(k) /\ i = L(k)
        BY <1>2, <2>2, <3>4 DEF Kid
      <4> QED
        BY <3>1, <3>2, <4>1
    <3> QED
      BY <3>3, <3>4
  <2> QED
    BY <2>1, <2>2
<1>4. CASE KidIsNotLater /\ Pull(Kid)
  <2>1. Kid \in 1 .. heap_size /\ k \in 1 .. heap_size
    BY <1>1, <1>3, <1>4 DEF KidIsNotLater
  <2>2. Keys[Kid] <= Keys[k]
    BY <1>1, <1>2, <1>3, <1>4, <2>1, KeyMonotone DEF KidIsNotLater
  <2>3. \A i \in 1 .. heap_size : Child(k, i) => Keys[Kid] <= Keys[i]
    BY <1>2, <1>3, <2>1, KeyMonotone
  <2>4. Keys' = Swap(Keys, k, Kid) /\ k' = Kid /\ heap_size' = heap_size
    BY <1>1, <1>3, <1>4, <2>1, PullKeys DEF ShiftDown
  <2>5. DownOrd(Swap(Keys, k, Kid), heap_size, Kid)
    BY <1>1, <1>3, <2>1, <2>2, <2>3, PullDownOrder
  <2>6. DownOrd(Keys', heap_size', k') /\ pc' = "down"
    BY <1>1, <1>4, <2>4, <2>5 DEF Pull
  <2> QED
    BY <1>1, <2>6 DEF OrderInv, Dropping, ShiftDown, Sifting
<1>5. CASE ~KidIsNotLater /\ Place
  <2>1. \A i \in 1 .. heap_size : k \in 1 .. heap_size /\ Child(k, i) => Keys[k] <= Keys[i]
    <3> SUFFICES ASSUME NEW i \in 1 .. heap_size, k \in 1 .. heap_size, Child(k, i)
                 PROVE  Keys[k] <= Keys[i]
      OBVIOUS
    <3>1. /\ connections[Kid] \in Conn /\ connections[i] \in Conn
          /\ active_time[connections[Kid]] <= active_time[connections[i]]
      BY <1>2, <1>3
    <3>2. active_time[cur] <= active_time[connections[i]]
      BY <1>1, <1>3, <1>5, <3>1 DEF KidIsNotLater
    <3> QED
      BY <1>1, <1>2, <3>1, <3>2, KeyMonotone
  <2>2. HeapOrd(Keys', heap_size') /\ pc' = "ready"
    BY <1>1, <1>5, <2>1, PlaceKeys, PlaceDownOrder DEF ShiftDown, Place
  <2> QED
    BY <1>1, <2>2 DEF OrderInv, Dropping, ShiftDown, Sifting
<1> QED
  BY <1>4, <1>5 DEF ShiftDown

LEMMA OpenOrder ==
    ASSUME TypeInv, Exact, OrderInv, ~refused, NEW c \in Conn,
           NEW watched \in BOOLEAN, Open(c, watched), Exact'
    PROVE  OrderInv'
<1>1. /\ pc = "ready" /\ phase # "sweep" /\ c \notin live
      /\ heap_size \in Nat /\ heap_size' = heap_size + 1 /\ heap_size + 1 \in Index
      /\ connections' = [connections EXCEPT ![heap_size + 1] = c]
      /\ active_time' = [active_time EXCEPT ![c] = now] /\ now' = now
      /\ live' = live \cup {c} /\ live \subseteq Conn
      /\ pc' = "up" /\ k' = heap_size + 1 /\ cur' = c
      /\ phase' = phase /\ refused' = refused
      /\ then' = IF watched THEN Nothing ELSE Call("close", c)
      /\ HeapOrd(Keys, heap_size) /\ \A d \in live : active_time[d] <= now
  BY HeapTypes, SizeAssumption
  DEF Open, MayOpen, Ready, ShiftUpFrom, OrderInv, TypeInv, Types, Index
<1>2. /\ \A j \in 1 .. heap_size : connections[j] \in live
      /\ \A j \in 1 .. heap_size : connections'[j] = connections[j]
  <2>1. \A j \in 1 .. heap_size : j \in Index /\ j # heap_size + 1
    BY <1>1, HeapTypes
  <2> QED
    BY <1>1, <2>1 DEF Exact, Cell, TypeInv, Types
<1>3. \A d \in live : Key(d)' = Key(d) /\ active_time'[d] = active_time[d]
  BY <1>1 DEF Key, TypeInv, Types
<1>4. active_time'[c] = now
  BY <1>1 DEF TypeInv, Types
<1>5. \A j \in 1 .. heap_size : Cell(j)' = Cell(j) /\ Cell(j) \in live
  BY <1>1, <1>2 DEF Cell
<1>6. \A j \in 1 .. heap_size : Key(Cell(j))' = Key(Cell(j))
  BY <1>3, <1>5 DEF Key
<1>7. Keys \in [1 .. heap_size -> Int] /\ \A j \in 1 .. heap_size : Keys'[j] = Keys[j]
  BY <1>1, <1>6, KeysType DEF Keys
<1>8. Keys' \in [1 .. heap_size + 1 -> Int]
  <2>1. active_time' \in [Conn -> Int] /\ now' \in Int
    BY <1>1 DEF TypeInv, Types
  <2>2. \A j \in 1 .. heap_size' : Cell(j)' \in Conn
    BY <1>1 DEF Exact
  <2>3. \A j \in 1 .. heap_size' : Key(Cell(j))' \in Int
    BY <2>1, <2>2, ClockAssumption DEF Key, Max2
  <2> QED
    BY <1>1, <2>3 DEF Keys
<1>9. UpOrd(Keys', heap_size', k')
  BY <1>1, <1>7, <1>8, AppendOrder
<1>10. Dropping'
  BY <1>1, <1>4 DEF Dropping, Call
<1>11. \A d \in live' : active_time'[d] <= now'
  BY <1>1, <1>3, <1>4 DEF TypeInv, Types
<1> QED
  BY <1>1, <1>9, <1>10, <1>11 DEF OrderInv

LEMMA TouchOrder ==
    ASSUME Back = {}, TypeInv, Exact, OrderInv, ~refused, pc = "ready", NEW c \in live,
           Activate(c) \/ Expire(c),
           UNCHANGED <<heapVars, live, uc, owner, now, refused>>
    PROVE  OrderInv'
<1>1. /\ k' = heap_idx[c] /\ heap_idx[c] \in 1 .. heap_size /\ cur' = c
      /\ connections[heap_idx[c]] = c
      /\ c \in Conn /\ live \subseteq Conn /\ heap_size \in Nat
      /\ \A j \in 1 .. heap_size : connections[j] \in live /\ heap_idx[connections[j]] = j
      /\ HeapOrd(Keys, heap_size) /\ \A d \in live : active_time[d] <= now
      /\ Keys \in [1 .. heap_size -> Int] /\ Keys[heap_idx[c]] = Key(c)
      /\ now \in Nat /\ active_time \in [Conn -> Int]
  BY IndexOfLive, HeapTypes, KeysType
  DEF Activate, Expire, ShiftUpFrom, ShiftDownFrom, Exact, Cell, OrderInv, TypeInv,
      Types, Keys
<1>2. then' = Nothing
  BY <1>1 DEF Activate, Expire, Cascade, TypeInv, Types
<1>3. \A j \in 1 .. heap_size : Cell(j)' = connections[j] /\ Cell(j) = connections[j]
  BY <1>1 DEF Cell, heapVars
<1>4. /\ \A d \in Conn : d # c => active_time'[d] = active_time[d]
      /\ \/ pc' = "down" /\ active_time'[c] = now
         \/ pc' = "up" /\ active_time'[c] = now - Timeout - 1
  BY <1>1 DEF Activate, Expire, ShiftUpFrom, ShiftDownFrom
<1>5. /\ Key(c)' \in Int
      /\ pc' = "down" => Key(c)' >= Key(c)
      /\ pc' = "up" => Key(c)' <= Key(c)
  BY <1>1, <1>4, ClockAssumption DEF Key, Max2
<1>6. \A j \in 1 .. heap_size : j # heap_idx[c] => Key(Cell(j))' = Key(Cell(j))
  BY <1>1, <1>3, <1>4 DEF Key
<1>7. Key(Cell(heap_idx[c]))' = Key(c)'
  BY <1>1, <1>3 DEF Key, heapVars
<1>8. /\ Keys' \in [1 .. heap_size -> Int]
      /\ \A j \in 1 .. heap_size : j # heap_idx[c] => Keys'[j] = Keys[j]
      /\ Keys'[heap_idx[c]] = Key(c)'
  <2>1. heap_size' = heap_size /\ heap_idx' = heap_idx
    BY DEF heapVars
  <2> QED
    BY <1>1, <1>5, <1>6, <1>7, <2>1 DEF Keys
<1>9. /\ pc' = "down" => DownOrd(Keys', heap_size', k')
      /\ pc' = "up" => UpOrd(Keys', heap_size', k')
  BY <1>1, <1>5, <1>8, ChangeOrder DEF heapVars
<1>10. \A d \in live' : active_time'[d] <= now'
  BY <1>1, <1>4, ClockAssumption
<1> QED
  BY <1>2, <1>4, <1>9, <1>10 DEF OrderInv, Dropping

LEMMA CloseOrder ==
    ASSUME Back = {}, TypeInv, Exact, OrderInv, ~refused, pc = "ready", NEW c \in live,
           heap_idx[c] \in {1, heap_size}, Close(c), Exact',
           UNCHANGED <<now, phase, ev, refused>>
    PROVE  OrderInv' /\ then' = Nothing
<1>1. /\ live' = live \ {c} /\ live \subseteq Conn
      /\ active_time' = active_time
      /\ heap_size \in Nat /\ heap_size' = heap_size - 1 /\ heap_size > 0
      /\ HeapOrd(Keys, heap_size) /\ \A d \in live : active_time[d] <= now
      /\ Keys \in [1 .. heap_size -> Int]
      /\ heap_idx[c] \in 1 .. heap_size
  BY HeapTypes, KeysType, IndexOfLive DEF Close, Unregister, TypeInv, Types, OrderInv
<1>2. then' = Nothing
  BY <1>1 DEF Close, TypeInv, Types, Conn
<1>3. /\ \A j \in 1 .. heap_size' :
            Cell(j)' = IF j = heap_idx[c] THEN connections[heap_size] ELSE connections[j]
      /\ \/ pc' = "ready" /\ heap_size = 1
         \/ pc' = "down" /\ k' = heap_idx[c] /\ heap_size > 1
  BY UnregisterExact DEF Close
<1>4. \A j \in 1 .. heap_size' : j # heap_idx[c] => Key(Cell(j))' = Key(Cell(j))
  BY <1>1, <1>3 DEF Key, Cell
<1>5. /\ Keys' \in [1 .. heap_size' -> Int]
      /\ \A j \in 1 .. heap_size' : j # heap_idx[c] => Keys'[j] = Keys[j]
  <2>1. active_time' \in [Conn -> Int] /\ now' \in Int
    BY <1>1 DEF TypeInv, Types
  <2>a. \A j \in 1 .. heap_size' : Cell(j)' \in Conn
    BY <1>1 DEF Exact
  <2>b. \A j \in 1 .. heap_size' : Key(Cell(j))' \in Int
    BY <2>1, <2>a, ClockAssumption DEF Key, Max2
  <2>2. Keys' \in [1 .. heap_size' -> Int]
    BY <2>b DEF Keys
  <2>3. \A j \in 1 .. heap_size' : j \in 1 .. heap_size
    BY <1>1
  <2> QED
    BY <1>1, <1>4, <2>2, <2>3 DEF Keys
<1>6. CASE pc' = "ready"
  <2>1. HeapOrd(Keys', heap_size')
    BY <1>1, <1>3, <1>6 DEF HeapOrd
  <2> QED
    BY <1>1, <1>2, <1>6, <2>1 DEF OrderInv, Dropping
<1>7. CASE pc' = "down"
  <2>1. heap_size > 1 /\ k' = heap_idx[c] /\ heap_size' = heap_size - 1
    BY <1>1, <1>3, <1>7
  <2>2. CASE heap_idx[c] = 1
    <3>1. \A j \in 2 .. heap_size - 1 : Keys'[j] = Keys[j]
      BY <1>1, <1>5, <2>2
    <3> QED
      BY <1>1, <1>5, <2>1, <2>2, <3>1, RemoveOrder, <1>2, <1>7 DEF OrderInv, Dropping
  <2>3. CASE heap_idx[c] = heap_size
    <3>1. \A j \in 1 .. heap_size - 1 : Keys'[j] = Keys[j]
      BY <1>1, <1>5, <2>3
    <3> QED
      BY <1>1, <1>5, <2>1, <2>3, <3>1, RemoveOrder, <1>2, <1>7 DEF OrderInv, Dropping
  <2> QED
    BY <2>2, <2>3
<1> QED
  BY <1>2, <1>3, <1>6, <1>7

\* The clock moves: what expires with it becomes equal.
LEMMA TickOrder ==
    ASSUME TypeInv, Exact, OrderInv, ~refused, Tick
    PROVE  OrderInv'
<1>1. /\ pc = "ready" /\ now' = now + 1 /\ now \in Nat
      /\ active_time \in [Conn -> Int] /\ live \subseteq Conn
      /\ heap_size \in Nat /\ heap_size' = heap_size
      /\ HeapOrd(Keys, heap_size) /\ Keys \in [1 .. heap_size -> Int]
      /\ UNCHANGED <<connections, active_time, pc, live>>
  BY HeapTypes, KeysType DEF Tick, heapVars, OrderInv, TypeInv, Types
<1>2. \A j \in 1 .. heap_size :
         Cell(j)' = connections[j] /\ Cell(j) = connections[j] /\ connections[j] \in Conn
  BY <1>1 DEF Cell, Exact
<1>4. \A j \in 1 .. heap_size : Key(Cell(j))' = Key(connections[j])'
  BY <1>1, <1>2 DEF Key
<1>5. \A j \in 1 .. heap_size :
         Key(connections[j])' = Max2(Keys[j], now - Timeout) /\ Key(connections[j])' \in Int
  <2>1. now' - Timeout - 1 = now - Timeout
    BY <1>1, ClockAssumption
  <2>2. \A j \in 1 .. heap_size :
           Key(connections[j])' = Max2(active_time[connections[j]], now - Timeout)
    BY <1>1, <2>1 DEF Key
  <2>3. \A j \in 1 .. heap_size : Keys[j] = Max2(active_time[connections[j]], now - Timeout - 1)
    BY <1>2 DEF Keys, Key
  <2> QED
    BY <1>1, <1>2, <2>2, <2>3, ClockAssumption DEF Max2
<1>6. /\ Keys' \in [1 .. heap_size -> Int]
      /\ \A j \in 1 .. heap_size : Keys'[j] = Max2(Keys[j], now - Timeout)
  BY <1>1, <1>4, <1>5 DEF Keys
<1>7. HeapOrd(Keys', heap_size')
  <2>1. now - Timeout \in Int
    BY <1>1, ClockAssumption
  <2> QED
    BY <1>1, <1>6, <2>1, ClampOrder
<1>8. \A c \in live' : active_time'[c] <= now'
  BY <1>1 DEF OrderInv
<1> QED
  BY <1>1, <1>7, <1>8 DEF OrderInv, Dropping, Tick, heapVars

LEMMA OrderStep ==
    ASSUME Back = {}
    PROVE  TypeInv /\ IndexInv /\ OrderInv /\ [Next]_vars => OrderInv'
<1> SUFFICES ASSUME TypeInv, IndexInv, OrderInv, [Next]_vars, ~refused'
             PROVE  OrderInv'
  BY DEF OrderInv
<1>1. CASE UNCHANGED vars
  BY <1>1 DEF vars, OrderInv, Dropping, HeapOrd, UpOrd, DownOrd, Bridge, Keys, Key, Cell
<1>2. CASE Next
  <2>1. ~refused
    BY <1>2 DEF Next, Open, OpenRefused, BeginEvent, EndEvent, PendingActivate,
                PendingExpire, PendingClose, ShiftUp, ShiftDown, Sifting,
                BeginSweep, SweepClose, EndSweep, Tick, Aborts, ClosedTwice, Ends
  <2>2. Exact /\ HoleOK /\ LinksLive /\ Paired
    BY <2>1 DEF IndexInv
  <2>3. Exact'
    BY IndexStep DEF IndexInv
  <2>4. Dropping
    BY <2>1 DEF OrderInv
  <2>5. ASSUME NEW c \in Conn, NEW watched \in BOOLEAN, Open(c, watched)
        PROVE  OrderInv'
    BY <2>1, <2>2, <2>3, <2>5, OpenOrder
  <2>6. ASSUME NEW c \in Conn, OpenRefused(c) PROVE FALSE
    BY <2>6 DEF OpenRefused
  <2>7. ASSUME UNCHANGED <<heapVars, active_time, live, now, pc, k, cur, then, refused>>,
               phase' = "sweep" => then = Nothing
        PROVE  OrderInv'
    <3>1. Keys' = Keys
      BY <2>7 DEF heapVars, Keys, Key, Cell
    <3>2. HeapOrd(Keys, heap_size)' = HeapOrd(Keys, heap_size)
      BY <2>7, <3>1 DEF heapVars, HeapOrd
    <3>3. UpOrd(Keys, heap_size, k)' = UpOrd(Keys, heap_size, k)
      BY <2>7, <3>1 DEF heapVars, UpOrd, Bridge
    <3>4. DownOrd(Keys, heap_size, k)' = DownOrd(Keys, heap_size, k)
      BY <2>7, <3>1 DEF heapVars, DownOrd, Bridge
    <3>5. Dropping'
      BY <2>4, <2>7 DEF heapVars, Dropping
    <3> QED
      BY <2>1, <2>7, <3>2, <3>3, <3>4, <3>5 DEF OrderInv
  <2>8. ASSUME NEW c \in Conn, BeginEvent(c) PROVE OrderInv'
    BY <2>7, <2>8 DEF BeginEvent, Ready
  <2>9. CASE EndEvent
    BY <2>1, <2>2, <2>9, TouchOrder DEF EndEvent, Ready, LinksLive
  <2>10. CASE PendingActivate \/ PendingExpire
    BY <2>4, <2>10 DEF PendingActivate, PendingExpire, Dropping, Nothing
  <2>11. CASE PendingClose
    <3>1. /\ then.conn \in live /\ pc = "ready" /\ then # Nothing
          /\ connections[heap_size] = then.conn /\ heap_size > 0
      BY <2>2, <2>4, <2>11 DEF PendingClose, LinksLive, Dropping, Nothing
    <3>2. heap_idx[then.conn] = heap_size
      BY <2>2, <3>1, HeapTypes DEF Exact, Cell
    <3> QED
      BY <2>1, <2>2, <2>3, <2>11, <3>1, <3>2, CloseOrder DEF PendingClose
  <2>12. CASE ShiftUp
    BY <2>1, <2>2, <2>12, ShiftUpOrder
  <2>13. CASE ShiftDown
    BY <2>1, <2>2, <2>13, ShiftDownOrder
  <2>14. CASE BeginSweep
    BY <2>7, <2>14 DEF BeginSweep, Ready
  <2>15. CASE SweepClose
    <3>1. pc = "ready" /\ connections[1] \in live /\ heap_idx[connections[1]] = 1
      BY <2>2, <2>15, HeapTypes DEF SweepClose, Ready, RootIsDue, Exact, Cell
    <3> QED
      BY <2>1, <2>2, <2>3, <2>15, <3>1, CloseOrder DEF SweepClose
  <2>16. CASE EndSweep
    BY <2>7, <2>16 DEF EndSweep, Ready
  <2>17. CASE Tick
    BY <2>1, <2>2, <2>17, TickOrder
  <2>18. ASSUME NEW c \in Conn, Aborts(c) \/ ClosedTwice(c) PROVE FALSE
    BY <2>1, <2>18, CloseIsOfLive
  <2> QED
    BY <1>2, <2>5, <2>6, <2>8, <2>9, <2>10, <2>11, <2>12, <2>13, <2>14, <2>15,
       <2>16, <2>17, <2>18 DEF Next
<1> QED
  BY <1>1, <1>2

TimerInv == TypeInv /\ IndexInv /\ OrderInv

LEMMA OrderAlways ==
    ASSUME Back = {}
    PROVE  Spec => []TimerInv
<1>1. Init => TimerInv
  BY TypeInit, IndexInit, OrderInit DEF TimerInv
<1>2. TimerInv /\ [Next]_vars => TimerInv'
  BY TypeStep, IndexStep, OrderStep DEF TimerInv
<1> QED
  BY <1>1, <1>2, PTL DEF Spec

-------------------------------------------------------------------------------
(* What the order is for.                                                  *)

\* In a heap at rest the parent of a connection is never younger, as far as the
\* sweep can tell: raising active_time of a connection that expires late without
\* sifting it down does no harm.
THEOREM ExpiryOrder ==
    ASSUME Back = {}
    PROVE  Spec => []ClampedHeapOrder
<1>1. TimerInv => ClampedHeapOrder
  <2> SUFFICES ASSUME TimerInv, ~refused, pc = "ready",
                      NEW p \in 1 .. heap_size, NEW i \in 1 .. heap_size,
                      i \in {L(p), R(p)}
               PROVE  Key(connections[p]) <= Key(connections[i])
    BY DEF ClampedHeapOrder
  <2>1. HeapOrd(Keys, heap_size)
    BY DEF TimerInv, OrderInv
  <2>2. Keys[p] <= Keys[i]
    BY <2>1 DEF HeapOrd, Child
  <2> QED
    BY <2>2 DEF Keys, Cell
<1> QED
  BY <1>1, OrderAlways, PTL

\* If the root is not due, nothing is.
LEMMA RootDecides ==
    ASSUME TimerInv, ~refused, pc = "ready", ~RootIsDue, NEW c \in live
    PROVE  now < active_time[c] + Timeout
<1>1. /\ Exact /\ HeapOrd(Keys, heap_size) /\ TypeInv
      /\ heap_size \in Nat /\ now \in Nat /\ active_time \in [Conn -> Int]
      /\ live \subseteq Conn /\ Keys \in [1 .. heap_size -> Int]
  BY HeapTypes, KeysType DEF TimerInv, OrderInv, IndexInv, TypeInv, Types
<1>2. PICK i \in 1 .. heap_size : connections[i] = c
  BY <1>1 DEF Exact, Cell
<1>3. 1 \in 1 .. heap_size /\ heap_size > 0
  BY <1>1, <1>2
<1>4. connections[1] \in Conn /\ c \in Conn
  BY <1>1, <1>3 DEF Exact, Cell
<1>5. now < active_time[connections[1]] + Timeout
  BY <1>1, <1>3, <1>4, ClockAssumption DEF RootIsDue
<1>6. Keys[1] <= Keys[i]
  BY <1>1, <1>2, RootIsLeast
<1>7. Keys[1] = Key(connections[1]) /\ Keys[i] = Key(c)
  BY <1>2, <1>3 DEF Keys, Cell
<1> QED
  BY <1>1, <1>4, <1>5, <1>6, <1>7, ClockAssumption DEF Key, Max2

\* When a sweep ends, no open connection is due.
THEOREM SweepIsComplete ==
    ASSUME Back = {}
    PROVE  Spec => []SweptClean
<1>1. TimerInv => SweptClean
  BY RootDecides DEF SweptClean, Ready
<1> QED
  BY <1>1, OrderAlways, PTL

-------------------------------------------------------------------------------
(* A full heap holds MaxConnection different live connections.             *)

LEMMA FullHeap ==
    ASSUME TypeInv, Exact, pc = "ready", heap_size = MaxConnection,
           IsFiniteSet(Conn), NEW c \in Conn, c \notin live
    PROVE  MaxConnection < Cardinality(Conn)
<1> DEFINE f == [i \in 1 .. MaxConnection |-> connections[i]]
<1>1. /\ MaxConnection \in Nat /\ live \subseteq Conn
      /\ \A i \in 1 .. MaxConnection :
            connections[i] \in live /\ heap_idx[connections[i]] = i
  BY SizeAssumption DEF TypeInv, Types, Exact, Cell
<1>2. f \in [1 .. MaxConnection -> Conn \ {c}]
  BY <1>1
<1>3. \A x, y \in 1 .. MaxConnection : f[x] = f[y] => x = y
  BY <1>1
<1>4. /\ IsFiniteSet(Conn \ {c}) /\ Cardinality(Conn) \in Nat
      /\ Cardinality(Conn \ {c}) = Cardinality(Conn) - 1
  BY FS_RemoveElement, FS_CardinalityType
<1>5. IsFiniteSet(1 .. MaxConnection) /\ Cardinality(1 .. MaxConnection) = MaxConnection
  BY <1>1, SizeAssumption, FS_Interval
<1>6. ~(Cardinality(Conn \ {c}) < Cardinality(1 .. MaxConnection))
  <2> SUFFICES ASSUME Cardinality(Conn \ {c}) < Cardinality(1 .. MaxConnection)
               PROVE  FALSE
    OBVIOUS
  <2> HIDE DEF f
  <2>1. \E x, y \in 1 .. MaxConnection : x # y /\ f[x] = f[y]
    BY <1>2, <1>4, <1>5, FS_PigeonHole
  <2> QED
    BY <1>3, <2>1
<1> QED
  BY <1>1, <1>4, <1>5, <1>6

LEMMA RoomStep ==
    ASSUME IsFiniteSet(Conn), Cardinality(Conn) <= MaxConnection
    PROVE  TypeInv /\ IndexInv /\ ~refused /\ [Next]_vars => ~refused'
<1> SUFFICES ASSUME TypeInv, IndexInv, ~refused, [Next]_vars PROVE ~refused'
  OBVIOUS
<1>1. ASSUME NEW c \in Conn, OpenRefused(c) PROVE FALSE
  <2>1. heap_size = MaxConnection /\ pc = "ready" /\ c \notin live
    BY <1>1, HeapTypes, SizeAssumption DEF OpenRefused, MayOpen, Ready
  <2>2. MaxConnection < Cardinality(Conn)
    BY <1>1, <2>1, FullHeap DEF IndexInv
  <2> QED
    BY <2>2, SizeAssumption, FS_CardinalityType
<1> QED
  BY <1>1 DEF Next, vars, Open, BeginEvent, EndEvent, PendingActivate,
              PendingExpire, PendingClose, ShiftUp, ShiftDown, Sifting,
              BeginSweep, SweepClose, EndSweep, Tick, Aborts, ClosedTwice, Ends

\* With no more connections than MAX_CONNECTION, sy_connection_register never
\* fails: every close gives its place in the heap back.
THEOREM RoomForAll ==
    ASSUME IsFiniteSet(Conn), Cardinality(Conn) <= MaxConnection
    PROVE  Spec => []NeverRefused
<1>1. Init => ~refused
  BY DEF Init
<1>2. (TypeInv /\ IndexInv) /\ ~refused /\ [Next]_vars => ~refused'
  BY RoomStep
<1> QED
  BY <1>1, <1>2, IndexAlways, PTL DEF Spec, NeverRefused

-------------------------------------------------------------------------------
(* The refinement.                                                         *)

LEMMA TimerInit == Init => Timer!Init
  BY ClockAssumption DEF Init, Timer!Init, opened, Nothing

LEMMA TimerStep ==
    ASSUME Back = {}, TimerInv, ~refused, ~refused', [Next]_vars
    PROVE  [Timer!Next]_(Timer!vars)
<1>1. /\ TypeInv /\ Exact /\ HoleOK /\ LinksLive /\ Dropping /\ OrderInv
      /\ live \subseteq Conn /\ now \in Nat /\ active_time \in [Conn -> Int]
  BY DEF TimerInv, IndexInv, OrderInv, TypeInv, Types
<1>2. Exact'
  BY IndexStep DEF TimerInv, IndexInv
<1>3. CASE UNCHANGED vars
  BY <1>3 DEF vars, Timer!vars, opened
<1>4. ASSUME NEW c \in Conn, Open(c, TRUE) PROVE Timer!Add(c)
  BY <1>4 DEF Open, MayOpen, Ready, Nothing, Timer!Add, opened
<1>5. ASSUME NEW c \in Conn, Open(c, FALSE) PROVE Timer!AddFails(c)
  BY <1>5 DEF Open, MayOpen, Ready, Nothing, Call, Timer!AddFails, opened
<1>6. ASSUME NEW c \in Conn, OpenRefused(c) PROVE FALSE
  BY <1>6 DEF OpenRefused
<1>7. ASSUME NEW c \in Conn, BeginEvent(c) PROVE Timer!BeginEvent(c)
  BY <1>1, <1>7, ClockAssumption
  DEF BeginEvent, IsExpired, Ready, Nothing, Timer!BeginEvent, opened
<1>8. CASE EndEvent
  <2>1. ev \in Conn /\ then = Nothing /\ phase = "handler"
    BY <1>1, <1>8 DEF EndEvent, Ready, LinksLive
  <2>2. then' = Nothing
    BY <1>8, <2>1 DEF EndEvent, Activate, Expire, Cascade, TimerInv, TypeInv, Types
  <2>3. opened' = opened
    BY <1>8, <2>1, <2>2 DEF EndEvent, opened, Nothing
  <2>4. Timer!EndEvent(ev)
    BY <1>8, <2>1, <2>3 DEF EndEvent, Activate, Expire, Timer!EndEvent
  <2> QED
    BY <2>1, <2>4 DEF Timer!Next
<1>9. CASE PendingActivate \/ PendingExpire
  BY <1>1, <1>9 DEF PendingActivate, PendingExpire, Dropping, Nothing
<1>10. CASE PendingClose
  <2>1. /\ then.conn \in live /\ pc = "ready" /\ then # Nothing /\ phase # "sweep"
        /\ connections[heap_size] = then.conn /\ heap_size > 0
    BY <1>1, <1>10 DEF PendingClose, LinksLive, Dropping, Nothing
  <2>2. heap_idx[then.conn] = heap_size
    BY <1>1, <2>1, HeapTypes DEF Exact, Cell
  <2>3. then' = Nothing
    BY <1>1, <1>2, <1>10, <2>1, <2>2, CloseOrder DEF PendingClose
  <2>4. UNCHANGED Timer!vars
    BY <1>10, <2>1, <2>3 DEF PendingClose, Close, Timer!vars, opened, Nothing
  <2> QED
    BY <2>4
<1>11. CASE ShiftUp \/ ShiftDown
  BY <1>11 DEF ShiftUp, ShiftDown, Sifting, Timer!vars, opened
<1>12. CASE BeginSweep
  <2>1. Timer!BeginSweep
    BY <1>12 DEF BeginSweep, Ready, Nothing, Timer!BeginSweep, opened
  <2> QED
    BY <2>1 DEF Timer!Next
<1>13. CASE SweepClose
  <2>1. /\ pc = "ready" /\ connections[1] \in live /\ heap_idx[connections[1]] = 1
        /\ phase = "sweep" /\ then = Nothing
    BY <1>1, <1>13, HeapTypes DEF SweepClose, Ready, RootIsDue, Exact, Cell
  <2>2. then' = Nothing
    BY <1>1, <1>2, <1>13, <2>1, CloseOrder DEF SweepClose
  <2>3. Timer!Close(connections[1])
    BY <1>13, <2>1, <2>2
    DEF SweepClose, Close, RootIsDue, Timer!Close, Timer!Due, opened, Nothing
  <2> QED
    BY <1>1, <2>1, <2>3 DEF Timer!Next
<1>14. CASE EndSweep
  <2>1. \A c \in live : now < active_time[c] + Timeout
    BY <1>14, RootDecides DEF EndSweep, Ready
  <2>2. Timer!EndSweep
    BY <1>1, <1>14, <2>1, ClockAssumption
    DEF EndSweep, Ready, Nothing, Timer!EndSweep, Timer!Due, opened
  <2> QED
    BY <2>2 DEF Timer!Next
<1>15. CASE Tick
  <2>1. Timer!Tick
    BY <1>15 DEF Tick, Timer!Tick, opened
  <2> QED
    BY <2>1 DEF Timer!Next
<1>16. ASSUME NEW c \in Conn, Aborts(c) \/ ClosedTwice(c) PROVE FALSE
  BY <1>16, CloseIsOfLive DEF TimerInv
<1> QED
  BY <1>3, <1>4, <1>5, <1>6, <1>7, <1>8, <1>9, <1>10, <1>11, <1>12, <1>13, <1>14,
     <1>15, <1>16 DEF Next, Timer!Next

\* Heap, indices and sift loops implement the timer that the event loop relies on:
\* a sweep closes only connections that are due and ends when none is left.
THEOREM TimerRefined ==
    ASSUME Back = {}, IsFiniteSet(Conn), Cardinality(Conn) <= MaxConnection
    PROVE  Spec => TimerSpec
<1>1. TimerInv /\ ~refused /\ [Next]_vars => ~refused'
  BY RoomStep DEF TimerInv
<1>2. TimerInv /\ ~refused /\ [Next]_vars => [Timer!Next]_(Timer!vars)
  BY <1>1, TimerStep
<1>3. Init => ~refused
  BY DEF Init
<1> QED
  BY <1>1, <1>2, <1>3, TimerInit, OrderAlways, PTL DEF Spec, TimerSpec, Timer!Spec
==============================================================================
