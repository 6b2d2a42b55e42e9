---------------------------------- MODULE Pool ----------------------------------
(***************************************************************************)
(* base/mempool.c: objects of one size, cut from chunks and handed out      *)
(* from a free list that runs through the free objects themselves.  An      *)
(* address is a chunk and an offset in it, counted in pointers, the size of *)
(* a link of the free list.  malloc(3) does not fail here.                  *)
(*                                                                          *)
(* A pool starts here as sy_pool_clear leaves it, with no chunk, which is   *)
(* what server.c:93-94 ask sy_pool_init for.  As written sy_pool_init does  *)
(* not give it: assert(nchunks != 0) stops the worker (mempool.c:27), and   *)
(* without assertions pool->cur is read from a vector with no element       *)
(* (line 45).  Its loop over nchunks is therefore never entered, and is     *)
(* left out.                                                                *)
(***************************************************************************)
EXTENDS Integers, Sequences, TLAPS

CONSTANTS Size,      \* the size of an object
          ChunkSize  \* objects per chunk

\* pool->width
Width == IF Size > 1 THEN Size ELSE 1

\* sy_pool_clear: pool->cur with all it links to, the vector of chunks, pool->nallocated
EmptyPool == [cur |-> <<>>, chunks |-> [size |-> 0, capacity |-> 0], nallocated |-> 0]

\* sy_vector_push: realloc(3) has room for the element before the size counts it.
VectorPush(v) ==
    [size |-> v.size + 1,
     capacity |-> IF v.size + 1 > v.capacity THEN v.capacity * 2 + 1 ELSE v.capacity]

\* Mutation of Cut: chunks cut at the width of a link, as sy_pool_init cuts its own.
CutForLinks(k) == [i \in 1 .. ChunkSize |-> [chunk |-> k, at |-> i - 1]]

\* sy_chunk_init: chunk k, every object linked to the next one.
Cut(k) == [i \in 1 .. ChunkSize |-> [chunk |-> k, at |-> (i - 1) * Width]]

\* The pool with an object at hand: a new chunk only when the list has come to its end.
Ready(p) == IF p.cur = <<>>
            THEN [p EXCEPT !.cur = Cut(p.chunks.size + 1), !.chunks = VectorPush(@)]
            ELSE p

\* What sy_pool_alloc returns, and the pool it leaves.
Next(p) == Head(Ready(p).cur)
Alloc(p) == [cur |-> Tail(Ready(p).cur), chunks |-> Ready(p).chunks,
             nallocated |-> p.nallocated + 1]

\* Mutation of Free: the object put in front of the list loses the rest of it.
FreeUnlinked(p, x) == [cur |-> <<x>>, chunks |-> p.chunks, nallocated |-> p.nallocated - 1]

\* sy_pool_free: the object freed last is the next one to be handed out.
Free(p, x) == [cur |-> <<x>> \o p.cur, chunks |-> p.chunks, nallocated |-> p.nallocated - 1]

-------------------------------------------------------------------------------
(* What a pool promises about the set used of its objects in use.          *)

Address == [chunk : Nat \ {0}, at : Nat]
IsPool(p) == /\ p \in [cur : Seq(Address), chunks : [size : Nat, capacity : Nat], nallocated : Int]
             /\ p.chunks.size <= p.chunks.capacity

Cuts(p) == {[chunk |-> k, at |-> (i - 1) * Width] : k \in 1 .. p.chunks.size, i \in 1 .. ChunkSize}
Listed(p) == {p.cur[i] : i \in 1 .. Len(p.cur)}

\* No object is lost, none is on the list twice, none is both free and in use.
Exact(p, used) ==
    /\ Listed(p) \cup used = Cuts(p)
    /\ Listed(p) \cap used = {}
    /\ \A i, j \in 1 .. Len(p.cur) : p.cur[i] = p.cur[j] => i = j

\* Objects in use neither overlap nor reach past the end of their chunk, and every chunk
\* is remembered in memory that is there.
Apart(p, used) ==
    /\ \A x \in used : 0 <= x.at /\ x.at + Size <= Width * ChunkSize
    /\ \A x, y \in used :
          x # y /\ x.chunk = y.chunk => x.at + Size <= y.at \/ y.at + Size <= x.at
    /\ p.chunks.size <= p.chunks.capacity

-------------------------------------------------------------------------------
(* Alloc and Free keep the promise, for every size of object and of chunk. *)

\* Slots of a chunk do not overlap: the offsets of an earlier and a later one.
LEMMA Multiples ==
    ASSUME NEW w \in Nat \ {0}, NEW i \in Nat, NEW j \in Nat, i < j
    PROVE  /\ i * w \in Nat
           /\ i * w + w <= j * w
<1>1. \A a \in Nat : a * w \in Nat
  OBVIOUS
<1>2. (j - i - 1) * w \in Nat
  BY <1>1
<1>3. (j - i - 1) * w = j * w - i * w - w
  OBVIOUS
<1> QED BY <1>1, <1>2, <1>3

\* A chunk is cut into addresses of its own, each once.
LEMMA CutIsNew ==
    ASSUME Size \in Nat \ {0}, ChunkSize \in Nat \ {0}, NEW k \in Nat \ {0}
    PROVE  /\ Width \in Nat \ {0}
           /\ Cut(k) \in Seq(Address)
           /\ Len(Cut(k)) = ChunkSize
           /\ \A i \in 1 .. ChunkSize : Cut(k)[i] = [chunk |-> k, at |-> (i - 1) * Width]
           /\ \A i, j \in 1 .. ChunkSize : Cut(k)[i] = Cut(k)[j] => i = j
<1>1. Width \in Nat \ {0}
  BY DEF Width
<1>2. \A i \in 1 .. ChunkSize : (i - 1) * Width \in Nat
  BY <1>1
<1>3. Cut(k) \in [1 .. ChunkSize -> Address]
  BY <1>2 DEF Cut, Address
<1>4. Cut(k) \in Seq(Address) /\ Len(Cut(k)) = ChunkSize
  BY <1>3
<1>5. ASSUME NEW i \in 1 .. ChunkSize, NEW j \in 1 .. ChunkSize, Cut(k)[i] = Cut(k)[j]
      PROVE  i = j
  <2>1. (i - 1) * Width = (j - 1) * Width
    BY <1>5 DEF Cut
  <2>2. ~(i - 1 < j - 1) /\ ~(j - 1 < i - 1)
    BY <1>1, <2>1, Multiples
  <2> QED BY <2>2
<1> QED BY <1>1, <1>4, <1>5 DEF Cut

\* The pool at the start of sy_pool_alloc has an object at hand, a new chunk if need be.
LEMMA ReadyExact ==
    ASSUME Size \in Nat \ {0}, ChunkSize \in Nat \ {0},
           NEW p, NEW used, IsPool(p), Exact(p, used)
    PROVE  /\ IsPool(Ready(p)) /\ Exact(Ready(p), used)
           /\ Ready(p).cur # <<>> /\ Ready(p).nallocated = p.nallocated
<1>1. CASE p.cur # <<>>
  BY <1>1 DEF Ready
<1>2. CASE p.cur = <<>>
  <2> DEFINE k == p.chunks.size + 1
             q == [p EXCEPT !.cur = Cut(k), !.chunks = VectorPush(@)]
  <2>1. k \in Nat \ {0} /\ Ready(p) = q
    BY <1>2 DEF Ready, IsPool
  <2>2. q.cur = Cut(k) /\ q.chunks.size = k /\ q.nallocated = p.nallocated
    BY DEF IsPool, VectorPush
  <2>3. VectorPush(p.chunks) \in [size : Nat, capacity : Nat]
        /\ VectorPush(p.chunks).size <= VectorPush(p.chunks).capacity
    BY DEF IsPool, VectorPush
  <2>4. IsPool(q)
    BY <2>1, <2>3, CutIsNew DEF IsPool
  <2>5. used = Cuts(p)
    <3>1. Listed(p) = {}
      BY <1>2 DEF Listed
    <3> QED BY <3>1 DEF Exact
  <2>6. Listed(q) = {[chunk |-> k, at |-> (i - 1) * Width] : i \in 1 .. ChunkSize}
    <3>1. /\ Len(q.cur) = ChunkSize
          /\ \A i \in 1 .. ChunkSize : q.cur[i] = [chunk |-> k, at |-> (i - 1) * Width]
      BY <2>1, <2>2, CutIsNew
    <3> HIDE DEF k, q
    <3> QED BY <3>1 DEF Listed
  <2>7. Cuts(q) = Cuts(p) \cup Listed(q)
    <3>1. 1 .. k = (1 .. p.chunks.size) \cup {k}
      BY DEF IsPool
    <3> HIDE DEF k
    <3> QED BY <2>2, <2>6, <3>1 DEF Cuts
  <2>8. Cuts(p) \cap Listed(q) = {}
    BY <2>6 DEF Cuts, IsPool
  <2>9. \A i, j \in 1 .. Len(q.cur) : q.cur[i] = q.cur[j] => i = j
    BY <2>1, <2>2, CutIsNew
  <2>10. q.cur # <<>>
    BY <2>1, <2>2, CutIsNew
  <2> QED BY <2>1, <2>2, <2>4, <2>5, <2>7, <2>8, <2>9, <2>10 DEF Exact
<1> QED BY <1>1, <1>2

\* sy_pool_alloc hands out an object that is not in use.
LEMMA AllocExact ==
    ASSUME Size \in Nat \ {0}, ChunkSize \in Nat \ {0},
           NEW p, NEW used, IsPool(p), Exact(p, used)
    PROVE  /\ Next(p) \in Address \ used
           /\ IsPool(Alloc(p)) /\ Exact(Alloc(p), used \cup {Next(p)})
           /\ Alloc(p).nallocated = p.nallocated + 1
<1> DEFINE q == Ready(p)
           s == q.cur
<1>1. IsPool(q) /\ Exact(q, used) /\ s # <<>> /\ q.nallocated = p.nallocated
  BY ReadyExact
<1> HIDE DEF q
<1>2. s \in Seq(Address) /\ Len(s) \in Nat \ {0}
  BY <1>1 DEF IsPool
<1>3. /\ Tail(s) \in Seq(Address) /\ Len(Tail(s)) = Len(s) - 1
      /\ \A i \in 1 .. Len(Tail(s)) : Tail(s)[i] = s[i + 1]
      /\ Head(s) = s[1]
  BY <1>2
<1>4. /\ Alloc(p) = [cur |-> Tail(s), chunks |-> q.chunks, nallocated |-> p.nallocated + 1]
      /\ Next(p) = s[1]
  BY <1>3 DEF Alloc, Next, q
<1>5. /\ Alloc(p).cur = Tail(s) /\ Alloc(p).chunks = q.chunks
      /\ Alloc(p).nallocated = p.nallocated + 1 /\ IsPool(Alloc(p))
  <2> DEFINE t == Tail(s)
             n == p.nallocated + 1
  <2>1. t \in Seq(Address) /\ n \in Int
    BY <1>3 DEF IsPool
  <2>2. q.chunks \in [size : Nat, capacity : Nat] /\ q.chunks.size <= q.chunks.capacity
    BY <1>1 DEF IsPool
  <2>3. Alloc(p) = [cur |-> t, chunks |-> q.chunks, nallocated |-> n]
    BY <1>4
  <2> HIDE DEF t, n, s
  <2>4. IsPool(Alloc(p))
    BY <2>1, <2>2, <2>3 DEF IsPool
  <2>5. Alloc(p).cur = t /\ Alloc(p).chunks = q.chunks /\ Alloc(p).nallocated = n
    BY <2>3
  <2> QED BY <2>4, <2>5 DEF t, n
<1>6. s[1] \in Listed(q) /\ s[1] \in Address
  BY <1>2 DEF Listed
<1>7. Listed(Alloc(p)) = Listed(q) \ {s[1]}
  <2>1. \A i \in 2 .. Len(s) : s[i] # s[1]
    BY <1>1, <1>2 DEF Exact
  <2>2. Listed(Alloc(p)) = {s[i] : i \in 2 .. Len(s)}
    <3>1. \A i \in 2 .. Len(s) : i - 1 \in 1 .. Len(Tail(s)) /\ Tail(s)[i - 1] = s[i]
      BY <1>2, <1>3
    <3>2. \A i \in 1 .. Len(Tail(s)) : i + 1 \in 2 .. Len(s)
      BY <1>2, <1>3
    <3> QED BY <1>3, <1>5, <3>1, <3>2 DEF Listed
  <2>3. 1 .. Len(s) = {1} \cup (2 .. Len(s))
    BY <1>2
  <2> QED BY <2>1, <2>2, <2>3 DEF Listed
<1>8. \A i, j \in 1 .. Len(Tail(s)) : Tail(s)[i] = Tail(s)[j] => i = j
  BY <1>1, <1>2, <1>3 DEF Exact
<1>9. Cuts(Alloc(p)) = Cuts(q)
  BY <1>5 DEF Cuts
<1>10. Exact(Alloc(p), used \cup {s[1]})
  BY <1>1, <1>5, <1>6, <1>7, <1>8, <1>9 DEF Exact
<1> QED BY <1>1, <1>4, <1>5, <1>6, <1>10 DEF Exact

\* sy_pool_free of an object in use.
LEMMA FreeExact ==
    ASSUME NEW p, NEW used, IsPool(p), Exact(p, used), NEW x \in used \cap Address
    PROVE  /\ IsPool(Free(p, x)) /\ Exact(Free(p, x), used \ {x})
           /\ Free(p, x).nallocated = p.nallocated - 1
<1> DEFINE s == p.cur
           t == <<x>> \o s
<1>1. s \in Seq(Address) /\ Len(s) \in Nat
  BY DEF IsPool
<1>2. /\ t \in Seq(Address) /\ Len(t) = Len(s) + 1
      /\ t[1] = x /\ \A i \in 1 .. Len(s) : t[i + 1] = s[i]
  BY <1>1
<1>3. \A i \in 2 .. Len(t) : i - 1 \in 1 .. Len(s) /\ t[i] = s[i - 1]
  BY <1>1, <1>2
<1>4. /\ Free(p, x).cur = t /\ Free(p, x).chunks = p.chunks
      /\ Free(p, x).nallocated = p.nallocated - 1 /\ IsPool(Free(p, x))
  <2> DEFINE n == p.nallocated - 1
  <2>1. t \in Seq(Address) /\ n \in Int
    BY <1>2 DEF IsPool
  <2>2. p.chunks \in [size : Nat, capacity : Nat] /\ p.chunks.size <= p.chunks.capacity
    BY DEF IsPool
  <2>3. Free(p, x) = [cur |-> t, chunks |-> p.chunks, nallocated |-> n]
    BY DEF Free
  <2> HIDE DEF t, n
  <2>4. IsPool(Free(p, x))
    BY <2>1, <2>2, <2>3 DEF IsPool
  <2>5. Free(p, x).cur = t /\ Free(p, x).chunks = p.chunks /\ Free(p, x).nallocated = n
    BY <2>3
  <2> QED BY <2>4, <2>5 DEF n
<1> HIDE DEF t
<1>5. Listed(Free(p, x)) = Listed(p) \cup {x}
  <2>1. 1 .. Len(t) = {1} \cup (2 .. Len(t))
    BY <1>1, <1>2
  <2>2. \A i \in 1 .. Len(s) : i + 1 \in 2 .. Len(t)
    BY <1>1, <1>2
  <2>3. Listed(Free(p, x)) = {t[i] : i \in 1 .. Len(t)}
    BY <1>4 DEF Listed
  <2>4. {t[i] : i \in 2 .. Len(t)} = Listed(p)
    <3>1. \A i \in 2 .. Len(t) : t[i] \in Listed(p)
      BY <1>3 DEF Listed
    <3>2. \A i \in 1 .. Len(s) : s[i] \in {t[j] : j \in 2 .. Len(t)}
      BY <1>2, <2>2
    <3> QED BY <3>1, <3>2 DEF Listed
  <2> QED BY <1>2, <2>1, <2>3, <2>4
<1>6. x \notin Listed(p)
  BY DEF Exact
<1>7. \A i, j \in 1 .. Len(t) : t[i] = t[j] => i = j
  <2>1. \A i \in 2 .. Len(t) : t[i] # x
    BY <1>3, <1>6 DEF Listed
  <2>2. ASSUME NEW i \in 2 .. Len(t), NEW j \in 2 .. Len(t), t[i] = t[j]
        PROVE  i = j
    <3>1. i - 1 \in 1 .. Len(s) /\ j - 1 \in 1 .. Len(s) /\ s[i - 1] = s[j - 1]
      BY <1>3, <2>2
    <3>2. i - 1 = j - 1
      BY <3>1 DEF Exact
    <3> QED BY <3>2
  <2> QED BY <1>1, <1>2, <2>1, <2>2
<1>8. Cuts(Free(p, x)) = Cuts(p)
  BY <1>4 DEF Cuts
<1> QED BY <1>4, <1>5, <1>6, <1>7, <1>8 DEF Exact

\* Objects in use do not overlap.
LEMMA ExactApart ==
    ASSUME Size \in Nat \ {0}, ChunkSize \in Nat \ {0},
           NEW p, NEW used, IsPool(p), Exact(p, used)
    PROVE  Apart(p, used)
<1>1. Width \in Nat /\ Size <= Width /\ Width # 0
  BY DEF Width
<1>2. ASSUME NEW x \in used
      PROVE  \E i \in 1 .. ChunkSize : x.at = (i - 1) * Width /\ x = [chunk |-> x.chunk, at |-> x.at]
  BY <1>2 DEF Exact, Cuts
<1>3. ASSUME NEW x \in used
      PROVE  0 <= x.at /\ x.at + Size <= Width * ChunkSize
  <2>1. PICK i \in 1 .. ChunkSize : x.at = (i - 1) * Width
    BY <1>2
  <2>2. (i - 1) * Width \in Nat /\ (i - 1) * Width + Width <= ChunkSize * Width
    BY <1>1, Multiples
  <2>3. ChunkSize * Width = Width * ChunkSize /\ Width * ChunkSize \in Nat
    BY <1>1
  <2> QED BY <1>1, <2>1, <2>2, <2>3
<1>4. ASSUME NEW x \in used, NEW y \in used, x # y, x.chunk = y.chunk
      PROVE  x.at + Size <= y.at \/ y.at + Size <= x.at
  <2>1. PICK i \in 1 .. ChunkSize : x.at = (i - 1) * Width /\ x = [chunk |-> x.chunk, at |-> x.at]
    BY <1>2
  <2>2. PICK j \in 1 .. ChunkSize : y.at = (j - 1) * Width /\ y = [chunk |-> y.chunk, at |-> y.at]
    BY <1>2
  <2>3. i # j
    BY <1>4, <2>1, <2>2
  <2>4. CASE i < j
    <3>1. (i - 1) * Width \in Nat /\ (i - 1) * Width + Width <= (j - 1) * Width
      BY <1>1, <2>4, Multiples
    <3>2. (j - 1) * Width \in Nat
      BY <1>1
    <3> QED BY <1>1, <2>1, <2>2, <3>1, <3>2
  <2>5. CASE j < i
    <3>1. (j - 1) * Width \in Nat /\ (j - 1) * Width + Width <= (i - 1) * Width
      BY <1>1, <2>5, Multiples
    <3>2. (i - 1) * Width \in Nat
      BY <1>1
    <3> QED BY <1>1, <2>1, <2>2, <3>1, <3>2
  <2> QED BY <2>3, <2>4, <2>5
<1> QED BY <1>3, <1>4 DEF Apart, IsPool
=================================================================================
