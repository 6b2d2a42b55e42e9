---------------------------- MODULE ResourcesProofs ----------------------------
(***************************************************************************)
(* Proofs about Resources, for every number of descriptors, every size of a *)
(* struct and every number of objects in a chunk.                           *)
(*                                                                          *)
(* The inductive invariant is Good.  Held says how the connections, their   *)
(* requests and the open descriptors belong together: a request and its     *)
(* connections name each other, a request whose line is unread has neither  *)
(* an upstream nor a file, and no number of a descriptor stands twice.  The *)
(* rest of Good says that each pool holds exactly the structs in use, which *)
(* is where the lemmas of Pool enter.  Each operator that takes a worker    *)
(* and returns one has a lemma that it keeps Good, so a handler that        *)
(* composes them keeps it too; a second row of lemmas says which            *)
(* descriptors each of them may lose, and a third what a connection adrift  *)
(* goes on holding.                                                         *)
(***************************************************************************)
EXTENDS Resources, FiniteSetTheorems, WellFoundedInduction, TLAPS

Address == C!Address
Connection == [fd : Int, side : {"front", "back"}, r : Address]
Request == [c : Address, uc : Address \cup {NULL}, resource_fd : Int,
            stage : {"line", "begun", "over"}]

\* What connects connections conns, their requests reqs and the descriptors open.
Shape(open, conns, reqs) ==
    /\ open \subseteq 1 .. MaxFd
    /\ DOMAIN conns \subseteq Address /\ conns \in [DOMAIN conns -> Connection]
    /\ DOMAIN reqs \subseteq Address /\ reqs \in [DOMAIN reqs -> Request]

\* A connection is the one or the other of its request, and of no other request.
ConnPaired(conns, reqs, c) ==
    /\ conns[c].r \in DOMAIN reqs
    /\ conns[c].side = "front" => reqs[conns[c].r].c = c
    /\ conns[c].side = "back" => reqs[conns[c].r].uc = c

\* A request has its front, an upstream that is its own if any, and nothing before its line.
ReqPaired(conns, reqs, r) ==
    /\ reqs[r].c \in DOMAIN conns /\ conns[reqs[r].c].side = "front"
    /\ conns[reqs[r].c].r = r
    /\ reqs[r].uc # NULL => /\ reqs[r].uc \in DOMAIN conns
                            /\ conns[reqs[r].uc].side = "back"
                            /\ conns[reqs[r].uc].r = r
    /\ reqs[r].stage = "line" => reqs[r].uc = NULL /\ reqs[r].resource_fd = -1

Pairs(conns, reqs) == /\ \A c \in DOMAIN conns : ConnPaired(conns, reqs, c)
                      /\ \A r \in DOMAIN reqs : ReqPaired(conns, reqs, r)

\* Every number in a field is open, and in no other field.
Numbers(open, conns, reqs) ==
    /\ \A c \in DOMAIN conns : conns[c].fd \in open
    /\ \A c, d \in DOMAIN conns : conns[c].fd = conns[d].fd => c = d
    /\ \A r \in DOMAIN reqs : reqs[r].resource_fd # -1 =>
          /\ reqs[r].resource_fd \in open
          /\ \A c \in DOMAIN conns : conns[c].fd # reqs[r].resource_fd
          /\ \A s \in DOMAIN reqs : reqs[s].resource_fd = reqs[r].resource_fd => s = r

Held(open, conns, reqs) ==
    Shape(open, conns, reqs) /\ Pairs(conns, reqs) /\ Numbers(open, conns, reqs)

\* A pool that holds what is in use, and nothing else.
ConnsPooled(p, used) == /\ C!IsPool(p) /\ C!Exact(p, used)
                        /\ IsFiniteSet(used) /\ p.nallocated = Cardinality(used)
ReqsPooled(p, used) == /\ Q!IsPool(p) /\ Q!Exact(p, used)
                       /\ IsFiniteSet(used) /\ p.nallocated = Cardinality(used)

\* The inductive invariant.
Good(w) == /\ Held(w.open, w.connections, w.requests)
           /\ ConnsPooled(w.connection_pool, DOMAIN w.connections)
           /\ ReqsPooled(w.request_pool, DOMAIN w.requests)
           /\ w = [open |-> w.open, connections |-> w.connections, requests |-> w.requests,
                   connection_pool |-> w.connection_pool, request_pool |-> w.request_pool]

-------------------------------------------------------------------------------

\* A set of naturals with a member has a least one.
LEMMA Least ==
    ASSUME NEW T, T \subseteq Nat, T # {}
    PROVE  \E x \in T : \A y \in T : x <= y
<1>1. PICK x \in T : \A y \in T : <<y, x>> \notin OpToRel(<, Nat)
  BY WFMin, NatLessThanWellFounded, Zenon
<1>2. \A y \in T : ~(y < x)
  BY <1>1, Zenon DEF OpToRel
<1> QED BY <1>2

\* The kernel returns a number that was not open (the lowest such).
LEMMA FdFree ==
    ASSUME NEW w, w.open \subseteq 1 .. MaxFd, CanOpen(w)
    PROVE  Fd(w) \in (1 .. MaxFd) \ w.open
<1> DEFINE T == (1 .. MaxFd) \ w.open
<1>1. T \subseteq Nat
  BY SizeAssumption
<1>2. T # {}
  BY Zenon DEF CanOpen
<1> HIDE DEF T
<1>3. \E x \in T : \A y \in T : x <= y
  BY <1>1, <1>2, Least
<1>4. Fd(w) = CHOOSE d \in T : \A e \in T : d <= e
  BY DEF Fd, T
<1> QED BY <1>3, <1>4 DEF T

\* What taking x out of the domain of f leaves.
LEMMA WithoutIs ==
    ASSUME NEW f, NEW x
    PROVE  /\ DOMAIN Without(f, x) = DOMAIN f \ {x}
           /\ \A y \in DOMAIN f : y # x => Without(f, x)[y] = f[y]
           /\ Without(f, x) = [y \in DOMAIN f \ {x} |-> Without(f, x)[y]]
  BY DEF Without

\* NULL is the address of no object.
LEMMA NullIsNone == NULL \notin Address
  BY DEF NULL, Address, C!Address

\* sy_pool_alloc returns a connection that was not in use (mempool.c:50-67).
LEMMA ConnAlloc ==
    ASSUME NEW p, NEW used, ConnsPooled(p, used)
    PROVE  /\ C!Next(p) \in Address \ used
           /\ ConnsPooled(C!Alloc(p), used \cup {C!Next(p)})
<1>1. /\ C!Next(p) \in Address \ used
      /\ C!IsPool(C!Alloc(p)) /\ C!Exact(C!Alloc(p), used \cup {C!Next(p)})
      /\ C!Alloc(p).nallocated = p.nallocated + 1
  BY SizeAssumption, C!AllocExact DEF ConnsPooled, Address
<1>2. /\ IsFiniteSet(used \cup {C!Next(p)})
      /\ Cardinality(used \cup {C!Next(p)}) = Cardinality(used) + 1
  BY <1>1, FS_AddElement DEF ConnsPooled
<1> QED BY <1>1, <1>2 DEF ConnsPooled

\* sy_pool_free takes back a connection that was in use (mempool.c:79-86).
LEMMA ConnFree ==
    ASSUME NEW p, NEW used, ConnsPooled(p, used), NEW x \in used \cap Address
    PROVE  ConnsPooled(C!Free(p, x), used \ {x})
<1>1. /\ C!IsPool(C!Free(p, x)) /\ C!Exact(C!Free(p, x), used \ {x})
      /\ C!Free(p, x).nallocated = p.nallocated - 1
  BY SizeAssumption, C!FreeExact DEF ConnsPooled, Address
<1>2. IsFiniteSet(used \ {x}) /\ Cardinality(used \ {x}) = Cardinality(used) - 1
  BY FS_RemoveElement DEF ConnsPooled
<1> QED BY <1>1, <1>2 DEF ConnsPooled

\* sy_pool_alloc returns a request that was not in use (mempool.c:50-67).
LEMMA ReqAlloc ==
    ASSUME NEW p, NEW used, ReqsPooled(p, used)
    PROVE  /\ Q!Next(p) \in Address \ used
           /\ ReqsPooled(Q!Alloc(p), used \cup {Q!Next(p)})
<1>1. /\ Q!Next(p) \in Address \ used
      /\ Q!IsPool(Q!Alloc(p)) /\ Q!Exact(Q!Alloc(p), used \cup {Q!Next(p)})
      /\ Q!Alloc(p).nallocated = p.nallocated + 1
  BY SizeAssumption, Q!AllocExact DEF ReqsPooled, Address, C!Address, Q!Address
<1>2. /\ IsFiniteSet(used \cup {Q!Next(p)})
      /\ Cardinality(used \cup {Q!Next(p)}) = Cardinality(used) + 1
  BY <1>1, FS_AddElement DEF ReqsPooled
<1> QED BY <1>1, <1>2 DEF ReqsPooled

\* sy_pool_free takes back a request that was in use (mempool.c:79-86).
LEMMA ReqFree ==
    ASSUME NEW p, NEW used, ReqsPooled(p, used), NEW x \in used \cap Address
    PROVE  ReqsPooled(Q!Free(p, x), used \ {x})
<1>1. /\ Q!IsPool(Q!Free(p, x)) /\ Q!Exact(Q!Free(p, x), used \ {x})
      /\ Q!Free(p, x).nallocated = p.nallocated - 1
  BY SizeAssumption, Q!FreeExact DEF ReqsPooled, Address, C!Address, Q!Address
<1>2. IsFiniteSet(used \ {x}) /\ Cardinality(used \ {x}) = Cardinality(used) - 1
  BY FS_RemoveElement DEF ReqsPooled
<1> QED BY <1>1, <1>2 DEF ReqsPooled

-------------------------------------------------------------------------------

\* A client connection with a descriptor that was not open and a fresh request keeps
\* what belongs together together (sy_open_connection).
LEMMA OpenFrontHeld ==
    ASSUME NEW open, NEW conns, NEW reqs, Held(open, conns, reqs),
           NEW fd \in (1 .. MaxFd) \ open, NEW c \in Address \ DOMAIN conns,
           NEW r \in Address \ DOMAIN reqs
    PROVE  Held(open \cup {fd}, Put(conns, c, [fd |-> fd, side |-> "front", r |-> r]),
                Put(reqs, r, Fresh(c)))
<1> DEFINE x == [fd |-> fd, side |-> "front", r |-> r]
           k == Put(conns, c, x)
           q == Put(reqs, r, Fresh(c))
<1>0. c \notin DOMAIN conns /\ r \notin DOMAIN reqs
  OBVIOUS
<1>1. x \in Connection /\ x.fd = fd /\ x.side = "front" /\ x.r = r
  BY SizeAssumption DEF Connection
<1> HIDE DEF x
<1>2. /\ Fresh(c) \in Request /\ Fresh(c).c = c /\ Fresh(c).uc = NULL
      /\ Fresh(c).resource_fd = -1
  BY DEF Fresh, Request
<1>3. /\ DOMAIN k = DOMAIN conns \cup {c} /\ k[c] = x /\ \A y \in DOMAIN conns : k[y] = conns[y]
      /\ k = [y \in DOMAIN conns \cup {c} |-> k[y]]
  BY <1>0 DEF Put
<1>4. /\ DOMAIN q = DOMAIN reqs \cup {r} /\ q[r] = Fresh(c) /\ \A y \in DOMAIN reqs : q[y] = reqs[y]
      /\ q = [y \in DOMAIN reqs \cup {r} |-> q[y]]
  BY <1>0 DEF Put
<1> HIDE DEF k, q
<1>5. Shape(open \cup {fd}, k, q)
  <2>1. k \in [DOMAIN k -> Connection]
    BY <1>1, <1>3 DEF Held, Shape
  <2>2. q \in [DOMAIN q -> Request]
    BY <1>2, <1>4 DEF Held, Shape
  <2> QED BY <1>3, <1>4, <2>1, <2>2 DEF Held, Shape
<1>6. Pairs(k, q)
  <2>1. ASSUME NEW d \in DOMAIN k PROVE ConnPaired(k, q, d)
    BY <1>1, <1>2, <1>3, <1>4, <2>1 DEF Held, Pairs, ConnPaired, ReqPaired
  <2>2. ASSUME NEW s \in DOMAIN q PROVE ReqPaired(k, q, s)
    BY <1>1, <1>2, <1>3, <1>4, <2>2, NullIsNone DEF Held, Pairs, ConnPaired, ReqPaired
  <2> QED BY <2>1, <2>2 DEF Pairs
<1>7. Numbers(open \cup {fd}, k, q)
  BY <1>1, <1>2, <1>3, <1>4, SizeAssumption DEF Held, Numbers
<1> QED BY <1>5, <1>6, <1>7 DEF Held, k, q, x

\* So does an upstream connection of a request that has none (sy_uwsgi_open_connection).
LEMMA OpenBackHeld ==
    ASSUME NEW open, NEW conns, NEW reqs, Held(open, conns, reqs),
           NEW fd \in (1 .. MaxFd) \ open, NEW c \in Address \ DOMAIN conns,
           NEW r \in DOMAIN reqs, reqs[r].uc = NULL, reqs[r].stage # "line"
    PROVE  Held(open \cup {fd}, Put(conns, c, [fd |-> fd, side |-> "back", r |-> r]),
                [reqs EXCEPT ![r].uc = c])
<1> DEFINE x == [fd |-> fd, side |-> "back", r |-> r]
           k == Put(conns, c, x)
           y == [reqs[r] EXCEPT !.uc = c]
           q == [reqs EXCEPT ![r].uc = c]
<1>0. c \notin DOMAIN conns
  OBVIOUS
<1>1. x \in Connection /\ x.fd = fd /\ x.side = "back" /\ x.r = r
  BY SizeAssumption DEF Connection, Held, Shape
<1> HIDE DEF x
<1>2. /\ y \in Request /\ y.c = reqs[r].c /\ y.uc = c
      /\ y.resource_fd = reqs[r].resource_fd /\ y.stage = reqs[r].stage
  BY DEF Request, Held, Shape
<1>3. /\ DOMAIN k = DOMAIN conns \cup {c} /\ k[c] = x /\ \A z \in DOMAIN conns : k[z] = conns[z]
      /\ k = [z \in DOMAIN conns \cup {c} |-> k[z]]
  BY <1>0 DEF Put
<1>4. /\ DOMAIN q = DOMAIN reqs /\ q[r] = y /\ \A z \in DOMAIN reqs : z # r => q[z] = reqs[z]
      /\ q = [z \in DOMAIN reqs |-> q[z]]
  BY DEF Held, Shape
<1> HIDE DEF k, q, y
<1>5. Shape(open \cup {fd}, k, q)
  <2>1. k \in [DOMAIN k -> Connection]
    BY <1>1, <1>3 DEF Held, Shape
  <2>2. q \in [DOMAIN q -> Request]
    BY <1>2, <1>4 DEF Held, Shape
  <2> QED BY <1>3, <1>4, <2>1, <2>2 DEF Held, Shape
<1>6. Pairs(k, q)
  <2>1. ASSUME NEW d \in DOMAIN k PROVE ConnPaired(k, q, d)
    <3>1. CASE d = c
      BY <1>1, <1>2, <1>3, <1>4, <3>1 DEF ConnPaired
    <3>2. CASE d # c
      <4>1. d \in DOMAIN conns /\ k[d] = conns[d] /\ ConnPaired(conns, reqs, d)
        BY <1>3, <3>2 DEF Held, Pairs
      <4>2. conns[d].r = r => conns[d].side # "back"
        BY <4>1, NullIsNone DEF ConnPaired, Held, Shape
      <4> QED BY <1>2, <1>4, <4>1, <4>2 DEF ConnPaired
    <3> QED BY <3>1, <3>2
  <2>2. ASSUME NEW s \in DOMAIN q PROVE ReqPaired(k, q, s)
    BY <1>1, <1>2, <1>3, <1>4, <2>2, NullIsNone DEF Held, Pairs, ConnPaired, ReqPaired
  <2> QED BY <2>1, <2>2 DEF Pairs
<1>7. Numbers(open \cup {fd}, k, q)
  BY <1>1, <1>2, <1>3, <1>4, SizeAssumption DEF Held, Numbers
<1> QED BY <1>5, <1>6, <1>7 DEF Held, k, q, x

\* So does closing an upstream connection (sy_close_connection, connection.c:82-84).
LEMMA CloseBackHeld ==
    ASSUME NEW open, NEW conns, NEW reqs, Held(open, conns, reqs),
           NEW c \in DOMAIN conns, conns[c].side = "back"
    PROVE  Held(open \ {conns[c].fd}, Without(conns, c), [reqs EXCEPT ![conns[c].r].uc = NULL])
<1> DEFINE r == conns[c].r
           k == Without(conns, c)
           y == [reqs[r] EXCEPT !.uc = NULL]
           q == [reqs EXCEPT ![r].uc = NULL]
<1>1. r \in DOMAIN reqs /\ reqs[r].uc = c
  BY DEF Held, Pairs, ConnPaired, ReqPaired
<1>2. /\ y \in Request /\ y.c = reqs[r].c /\ y.uc = NULL
      /\ y.resource_fd = reqs[r].resource_fd /\ y.stage = reqs[r].stage
  BY <1>1 DEF Request, Held, Shape
<1>3. /\ DOMAIN k = DOMAIN conns \ {c} /\ \A z \in DOMAIN conns : z # c => k[z] = conns[z]
      /\ k = [z \in DOMAIN conns \ {c} |-> k[z]]
  BY WithoutIs
<1>4. /\ DOMAIN q = DOMAIN reqs /\ q[r] = y /\ \A z \in DOMAIN reqs : z # r => q[z] = reqs[z]
      /\ q = [z \in DOMAIN reqs |-> q[z]]
  BY <1>1 DEF Held, Shape
<1> HIDE DEF k, q, y
<1>5. Shape(open \ {conns[c].fd}, k, q)
  <2>1. k \in [DOMAIN k -> Connection]
    BY <1>3 DEF Held, Shape
  <2>2. q \in [DOMAIN q -> Request]
    BY <1>1, <1>2, <1>4 DEF Held, Shape
  <2> QED BY <1>3, <1>4, <2>1, <2>2 DEF Held, Shape
<1>6. Pairs(k, q)
  <2>1. ASSUME NEW d \in DOMAIN k PROVE ConnPaired(k, q, d)
    <3>1. d \in DOMAIN conns /\ d # c /\ k[d] = conns[d] /\ ConnPaired(conns, reqs, d)
      BY <1>3 DEF Held, Pairs
    <3>2. conns[d].r \in DOMAIN q /\ q[conns[d].r].c = reqs[conns[d].r].c
      BY <1>1, <1>2, <1>3, <1>4, <3>1 DEF ConnPaired
    <3>3. conns[d].side = "back" => q[conns[d].r].uc = d
      BY <1>1, <1>2, <1>3, <1>4, <3>1 DEF ConnPaired
    <3> QED BY <3>1, <3>2, <3>3 DEF ConnPaired
  <2>2. ASSUME NEW s \in DOMAIN q PROVE ReqPaired(k, q, s)
    <3>1. s \in DOMAIN reqs /\ ReqPaired(conns, reqs, s)
      BY <1>4 DEF Held, Pairs
    <3>2. /\ q[s].c = reqs[s].c /\ q[s].stage = reqs[s].stage
          /\ q[s].resource_fd = reqs[s].resource_fd
          /\ q[s].uc = NULL \/ (s # r /\ q[s].uc = reqs[s].uc)
      BY <1>2, <1>4, <3>1
    <3>3. reqs[s].c # c
      BY <3>1 DEF ReqPaired
    <3>4. k[reqs[s].c] = conns[reqs[s].c] /\ reqs[s].c \in DOMAIN k
      BY <1>3, <3>1, <3>3 DEF ReqPaired
    <3>5. ASSUME q[s].uc # NULL
          PROVE  /\ q[s].uc = reqs[s].uc /\ reqs[s].uc \in DOMAIN k
                 /\ k[reqs[s].uc] = conns[reqs[s].uc]
      BY <1>3, <3>1, <3>2, <3>5 DEF ReqPaired
    <3> QED BY <3>1, <3>2, <3>4, <3>5 DEF ReqPaired
  <2> QED BY <2>1, <2>2 DEF Pairs
<1>7. Numbers(open \ {conns[c].fd}, k, q)
  BY <1>1, <1>2, <1>3, <1>4 DEF Held, Numbers
<1> QED BY <1>5, <1>6, <1>7 DEF Held, k, q

\* So does closing a client connection that has no upstream any more
\* (sy_close_connection, connection.c:75-81, 84).
LEMMA CloseFrontHeld ==
    ASSUME NEW open, NEW conns, NEW reqs, Held(open, conns, reqs),
           NEW c \in DOMAIN conns, conns[c].side = "front", reqs[conns[c].r].uc = NULL
    PROVE  Held(open \ {conns[c].fd}, Without(conns, c), Without(reqs, conns[c].r))
<1> DEFINE r == conns[c].r
           k == Without(conns, c)
           q == Without(reqs, r)
<1>1. r \in DOMAIN reqs /\ reqs[r].c = c
  BY DEF Held, Pairs, ConnPaired, ReqPaired
<1>2. /\ DOMAIN k = DOMAIN conns \ {c} /\ \A z \in DOMAIN conns : z # c => k[z] = conns[z]
      /\ k = [z \in DOMAIN conns \ {c} |-> k[z]]
  BY WithoutIs
<1>3. /\ DOMAIN q = DOMAIN reqs \ {r} /\ \A z \in DOMAIN reqs : z # r => q[z] = reqs[z]
      /\ q = [z \in DOMAIN reqs \ {r} |-> q[z]]
  BY WithoutIs
<1>4. \A d \in DOMAIN conns : d # c => conns[d].r # r
  BY <1>1, NullIsNone DEF Held, Pairs, ConnPaired, ReqPaired, Shape, Connection
<1> HIDE DEF k, q
<1>5. Shape(open \ {conns[c].fd}, k, q)
  <2>1. k \in [DOMAIN k -> Connection]
    BY <1>2 DEF Held, Shape
  <2>2. q \in [DOMAIN q -> Request]
    BY <1>3 DEF Held, Shape
  <2> QED BY <1>2, <1>3, <2>1, <2>2 DEF Held, Shape
<1>6. Pairs(k, q)
  <2>1. ASSUME NEW d \in DOMAIN k PROVE ConnPaired(k, q, d)
    <3>1. d \in DOMAIN conns /\ d # c /\ k[d] = conns[d] /\ ConnPaired(conns, reqs, d)
      BY <1>2 DEF Held, Pairs
    <3>2. conns[d].r \in DOMAIN q /\ q[conns[d].r].c = reqs[conns[d].r].c
      BY <1>1, <1>2, <1>3, <1>4, <3>1 DEF ConnPaired
    <3>3. conns[d].side = "back" => q[conns[d].r].uc = d
      BY <1>1, <1>2, <1>3, <1>4, <3>1 DEF ConnPaired
    <3> QED BY <3>1, <3>2, <3>3 DEF ConnPaired
  <2>2. ASSUME NEW s \in DOMAIN q PROVE ReqPaired(k, q, s)
    <3>1. s \in DOMAIN reqs /\ s # r /\ q[s] = reqs[s] /\ ReqPaired(conns, reqs, s)
      BY <1>3 DEF Held, Pairs
    <3>2. reqs[s].c # c /\ reqs[s].uc # c
      BY <3>1, NullIsNone DEF ReqPaired, Held, Shape
    <3>3. /\ k[reqs[s].c] = conns[reqs[s].c]
          /\ reqs[s].uc # NULL => k[reqs[s].uc] = conns[reqs[s].uc]
      BY <1>2, <3>1, <3>2 DEF ReqPaired
    <3> QED BY <1>2, <3>1, <3>2, <3>3 DEF ReqPaired
  <2> QED BY <2>1, <2>2 DEF Pairs
<1>7. Numbers(open \ {conns[c].fd}, k, q)
  <2>1. \A d \in DOMAIN k : k[d].fd \in open \ {conns[c].fd}
    BY <1>2 DEF Held, Numbers
  <2>2. \A d, e \in DOMAIN k : k[d].fd = k[e].fd => d = e
    BY <1>2 DEF Held, Numbers
  <2>3. ASSUME NEW s \in DOMAIN q, q[s].resource_fd # -1
        PROVE  /\ q[s].resource_fd \in open \ {conns[c].fd}
               /\ \A d \in DOMAIN k : k[d].fd # q[s].resource_fd
               /\ \A t \in DOMAIN q : q[t].resource_fd = q[s].resource_fd => t = s
    <3>1. s \in DOMAIN reqs /\ q[s] = reqs[s]
      BY <1>3
    <3>2. /\ reqs[s].resource_fd \in open
          /\ \A d \in DOMAIN conns : conns[d].fd # reqs[s].resource_fd
          /\ \A u \in DOMAIN reqs : reqs[u].resource_fd = reqs[s].resource_fd => u = s
      BY <2>3, <3>1 DEF Held, Numbers
    <3> QED BY <1>2, <1>3, <3>1, <3>2
  <2> QED BY <2>1, <2>2, <2>3 DEF Numbers
<1> QED BY <1>5, <1>6, <1>7 DEF Held, k, q

\* So does a change of one request that keeps its connections, when the only descriptors
\* that close or open are the file it had and the file it has.
LEMMA RequestHeld ==
    ASSUME NEW open, NEW conns, NEW reqs, Held(open, conns, reqs),
           NEW r \in DOMAIN reqs, NEW x \in Request, x.c = reqs[r].c, x.uc = reqs[r].uc,
           x.stage = "line" => x.uc = NULL /\ x.resource_fd = -1,
           NEW now, now \subseteq 1 .. MaxFd, open \ {reqs[r].resource_fd} \subseteq now,
           x.resource_fd # -1 => /\ x.resource_fd \in now
                                 /\ x.resource_fd = reqs[r].resource_fd \/ x.resource_fd \notin open
    PROVE  Held(now, conns, [reqs EXCEPT ![r] = x])
<1> DEFINE q == [reqs EXCEPT ![r] = x]
<1>1. /\ DOMAIN q = DOMAIN reqs /\ q[r] = x /\ \A z \in DOMAIN reqs : z # r => q[z] = reqs[z]
      /\ q = [z \in DOMAIN reqs |-> q[z]]
  BY DEF Held, Shape
<1> HIDE DEF q
<1>2. Shape(now, conns, q)
  <2>1. q \in [DOMAIN q -> Request]
    BY <1>1 DEF Held, Shape
  <2> QED BY <1>1, <2>1 DEF Held, Shape
<1>3. Pairs(conns, q)
  BY <1>1 DEF Held, Pairs, ConnPaired, ReqPaired
<1>4. Numbers(now, conns, q)
  <2>1. \A d \in DOMAIN conns : conns[d].fd \in now
    <3>1. -1 \notin open
      BY SizeAssumption DEF Held, Shape
    <3> QED BY <3>1 DEF Held, Numbers
  <2> QED BY <1>1, <2>1 DEF Held, Numbers
<1> QED BY <1>2, <1>3, <1>4 DEF Held, q

-------------------------------------------------------------------------------

\* Good of a worker written field by field.
LEMMA RecordGood ==
    ASSUME NEW open, NEW conns, NEW reqs, NEW cp, NEW rp, Held(open, conns, reqs),
           ConnsPooled(cp, DOMAIN conns), ReqsPooled(rp, DOMAIN reqs)
    PROVE  Good([open |-> open, connections |-> conns, requests |-> reqs,
                 connection_pool |-> cp, request_pool |-> rp])
  BY DEF Good

\* sy_open_connection keeps Good, and the connection is there as a front.
LEMMA OpenFrontGood ==
    ASSUME NEW w, Good(w), CanOpen(w)
    PROVE  /\ Good(OpenFront(w))
           /\ C!Next(w.connection_pool) \in DOMAIN OpenFront(w).connections
           /\ OpenFront(w).connections[C!Next(w.connection_pool)].side = "front"
<1> DEFINE c == C!Next(w.connection_pool)
           r == Q!Next(w.request_pool)
           k == Put(w.connections, c, [fd |-> Fd(w), side |-> "front", r |-> r])
           q == Put(w.requests, r, Fresh(c))
<1>1. Fd(w) \in (1 .. MaxFd) \ w.open
  BY FdFree DEF Good, Held, Shape
<1>2. /\ c \in Address \ DOMAIN w.connections
      /\ ConnsPooled(C!Alloc(w.connection_pool), DOMAIN w.connections \cup {c})
  BY ConnAlloc DEF Good
<1>3. /\ r \in Address \ DOMAIN w.requests
      /\ ReqsPooled(Q!Alloc(w.request_pool), DOMAIN w.requests \cup {r})
  BY ReqAlloc DEF Good
<1> HIDE DEF c, r
<1>4. Held(w.open \cup {Fd(w)}, k, q)
  BY <1>1, <1>2, <1>3, OpenFrontHeld DEF Good
<1>5. DOMAIN k = DOMAIN w.connections \cup {c} /\ DOMAIN q = DOMAIN w.requests \cup {r}
      /\ c \in DOMAIN k /\ k[c].side = "front"
  BY DEF Put
<1> HIDE DEF k, q
<1>6. OpenFront(w) = [open |-> w.open \cup {Fd(w)}, connections |-> k, requests |-> q,
                      connection_pool |-> C!Alloc(w.connection_pool),
                      request_pool |-> Q!Alloc(w.request_pool)]
  BY DEF OpenFront, c, r, k, q
<1>7. Good(OpenFront(w))
  <2>1. Good([open |-> w.open \cup {Fd(w)}, connections |-> k, requests |-> q,
              connection_pool |-> C!Alloc(w.connection_pool),
              request_pool |-> Q!Alloc(w.request_pool)])
    BY <1>2, <1>3, <1>4, <1>5, RecordGood
  <2> QED BY <1>6, <2>1
<1>8. OpenFront(w).connections = k
  BY <1>6
<1> QED BY <1>5, <1>7, <1>8 DEF c

\* sy_uwsgi_open_connection keeps Good, and the connection is there as a back.
LEMMA OpenBackGood ==
    ASSUME NEW w, Good(w), CanOpen(w), NEW r \in DOMAIN w.requests,
           w.requests[r].uc = NULL, w.requests[r].stage # "line"
    PROVE  /\ Good(OpenBack(w, r))
           /\ C!Next(w.connection_pool) \in DOMAIN OpenBack(w, r).connections
           /\ OpenBack(w, r).connections[C!Next(w.connection_pool)].side = "back"
<1> DEFINE c == C!Next(w.connection_pool)
           k == Put(w.connections, c, [fd |-> Fd(w), side |-> "back", r |-> r])
           q == [w.requests EXCEPT ![r].uc = c]
<1>1. Fd(w) \in (1 .. MaxFd) \ w.open
  BY FdFree DEF Good, Held, Shape
<1>2. /\ c \in Address \ DOMAIN w.connections
      /\ ConnsPooled(C!Alloc(w.connection_pool), DOMAIN w.connections \cup {c})
  BY ConnAlloc DEF Good
<1> HIDE DEF c
<1>3. Held(w.open \cup {Fd(w)}, k, q)
  BY <1>1, <1>2, OpenBackHeld DEF Good
<1>4. DOMAIN k = DOMAIN w.connections \cup {c} /\ DOMAIN q = DOMAIN w.requests
      /\ c \in DOMAIN k /\ k[c].side = "back"
  BY DEF Put
<1> HIDE DEF k, q
<1>5. OpenBack(w, r) = [open |-> w.open \cup {Fd(w)}, connections |-> k, requests |-> q,
                        connection_pool |-> C!Alloc(w.connection_pool),
                        request_pool |-> w.request_pool]
  BY DEF OpenBack, c, k, q
<1>6. Good(OpenBack(w, r))
  BY <1>2, <1>3, <1>4, <1>5, RecordGood DEF Good
<1>7. OpenBack(w, r).connections = k
  BY <1>5
<1> QED BY <1>4, <1>6, <1>7 DEF c

\* Closing an upstream connection keeps Good.
LEMMA CloseBackGood ==
    ASSUME NEW w, Good(w), NEW c \in DOMAIN w.connections, w.connections[c].side = "back"
    PROVE  Good(CloseBack(w, c))
<1> DEFINE k == Without(w.connections, c)
           q == [w.requests EXCEPT ![w.connections[c].r].uc = NULL]
           fd == w.connections[c].fd
<1>1. Held(w.open \ {fd}, k, q)
  BY CloseBackHeld DEF Good
<1>2. c \in DOMAIN w.connections \cap Address
  BY DEF Good, Held, Shape
<1>3. ConnsPooled(C!Free(w.connection_pool, c), DOMAIN w.connections \ {c})
  BY <1>2, ConnFree DEF Good
<1>4. DOMAIN k = DOMAIN w.connections \ {c} /\ DOMAIN q = DOMAIN w.requests
  BY DEF Without
<1>5. CloseBack(w, c) = [open |-> w.open \ {fd}, connections |-> k, requests |-> q,
                         connection_pool |-> C!Free(w.connection_pool, c),
                         request_pool |-> w.request_pool]
  BY DEF CloseBack
<1> HIDE DEF k, q, fd
<1> QED BY <1>1, <1>3, <1>4, <1>5, RecordGood DEF Good

\* Closing a client connection keeps Good, its upstream closed in the middle of it.
LEMMA CloseFrontGood ==
    ASSUME NEW w, Good(w), NEW c \in DOMAIN w.connections, w.connections[c].side = "front"
    PROVE  Good(CloseFront(w, c))
<1> DEFINE r == w.connections[c].r
           v == CloseUpstream(w, r)
           fd == w.connections[c].fd
           k == Without(v.connections, c)
           q == Without(v.requests, r)
<1>1. /\ Good(v) /\ c \in DOMAIN v.connections /\ v.connections[c] = w.connections[c]
      /\ r \in DOMAIN v.requests /\ v.requests[r].uc = NULL
  <2>1. r \in DOMAIN w.requests /\ ReqPaired(w.connections, w.requests, r)
    BY DEF Good, Held, Pairs, ConnPaired
  <2>2. CASE w.requests[r].uc = NULL
    BY <2>1, <2>2 DEF CloseUpstream
  <2>3. CASE w.requests[r].uc # NULL
    <3> DEFINE b == w.requests[r].uc
    <3>1. b \in DOMAIN w.connections /\ w.connections[b].side = "back" /\ w.connections[b].r = r
      BY <2>1, <2>3 DEF ReqPaired
    <3>2. v = CloseBack(w, b)
      BY <2>3 DEF CloseUpstream
    <3> HIDE DEF v
    <3>3. /\ v.connections = Without(w.connections, b)
          /\ v.requests = [w.requests EXCEPT ![r].uc = NULL]
      BY <3>1, <3>2 DEF CloseBack
    <3>4. Good(v)
      BY <3>1, <3>2, CloseBackGood
    <3>5. c # b
      BY <3>1
    <3>6. c \in DOMAIN v.connections /\ v.connections[c] = w.connections[c]
      BY <3>3, <3>5 DEF Without
    <3>7. r \in DOMAIN v.requests /\ v.requests[r].uc = NULL
      <4>1. w.requests[r] \in Request
        BY <2>1 DEF Good, Held, Shape
      <4> QED BY <2>1, <3>3, <4>1 DEF Request
    <3> QED BY <3>4, <3>6, <3>7
  <2> QED BY <2>2, <2>3
<1>2. CloseFront(w, c) = [open |-> v.open \ {fd}, connections |-> k, requests |-> q,
                          connection_pool |-> C!Free(v.connection_pool, c),
                          request_pool |-> Q!Free(v.request_pool, r)]
  BY DEF CloseFront
<1> HIDE DEF v
<1>3. Held(v.open \ {fd}, k, q)
  BY <1>1, CloseFrontHeld DEF Good
<1>4. c \in DOMAIN v.connections \cap Address /\ r \in DOMAIN v.requests \cap Address
  BY <1>1 DEF Good, Held, Shape
<1>5. ConnsPooled(C!Free(v.connection_pool, c), DOMAIN v.connections \ {c})
  BY <1>1, <1>4, ConnFree DEF Good
<1>6. ReqsPooled(Q!Free(v.request_pool, r), DOMAIN v.requests \ {r})
  BY <1>1, <1>4, ReqFree DEF Good
<1>7. DOMAIN k = DOMAIN v.connections \ {c} /\ DOMAIN q = DOMAIN v.requests \ {r}
  BY DEF Without
<1> HIDE DEF k, q, fd, r
<1> QED BY <1>2, <1>3, <1>5, <1>6, <1>7, RecordGood

\* sy_close_connection keeps Good on either side.
LEMMA CloseGood ==
    ASSUME NEW w, Good(w), NEW c \in DOMAIN w.connections
    PROVE  Good(Close(w, c))
<1>1. w.connections[c].side \in {"front", "back"}
  BY DEF Good, Held, Shape, Connection
<1> QED BY <1>1, CloseFrontGood, CloseBackGood DEF Close

-------------------------------------------------------------------------------

\* Nothing but the connection itself goes when a connection without an upstream is closed.
LEMMA CloseAlone ==
    ASSUME NEW w, Good(w), NEW c \in DOMAIN w.connections,
           w.connections[c].side = "front" => w.requests[w.connections[c].r].uc = NULL
    PROVE  DOMAIN Close(w, c).connections = DOMAIN w.connections \ {c}
<1>1. CASE w.connections[c].side = "front"
  <2>1. Close(w, c).connections = Without(w.connections, c)
    BY <1>1 DEF Close, CloseFront, CloseUpstream
  <2> QED BY <2>1, WithoutIs
<1>2. CASE w.connections[c].side # "front"
  <2>1. Close(w, c).connections = Without(w.connections, c)
    BY <1>2 DEF Close, CloseBack
  <2> QED BY <2>1, WithoutIs
<1> QED BY <1>1, <1>2

\* The connections in the table are open.
InTable == heap \subseteq DOMAIN worker.connections

\* Opening the connection c, refused or not, keeps both parts of the invariant.
LEMMA EnteredGood ==
    ASSUME NEW w, Good(w), NEW c \in DOMAIN w.connections, heap \subseteq DOMAIN w.connections \ {c},
           w.connections[c].side = "front" => w.requests[w.connections[c].r].uc = NULL,
           Entered(w, c) \/ Refused(w, c)
    PROVE  Good(worker') /\ InTable'
<1>1. Good(Close(w, c)) /\ DOMAIN Close(w, c).connections = DOMAIN w.connections \ {c}
  BY CloseGood, CloseAlone
<1>2. \/ worker' = w /\ heap' = heap \cup {c}
      \/ worker' = Close(w, c) /\ heap' \subseteq heap
  BY DEF Entered, Refused
<1> QED BY <1>1, <1>2 DEF InTable

\* A handler changes the record of one request, and what is open.
With(w, now, r, x) ==
    [open |-> now, connections |-> w.connections, requests |-> [w.requests EXCEPT ![r] = x],
     connection_pool |-> w.connection_pool, request_pool |-> w.request_pool]

\* A handler that changes one request keeps Good, under the conditions of RequestHeld.
LEMMA WithGood ==
    ASSUME NEW w, Good(w), NEW r \in DOMAIN w.requests, NEW x \in Request,
           x.c = w.requests[r].c, x.uc = w.requests[r].uc,
           x.stage = "line" => x.uc = NULL /\ x.resource_fd = -1,
           NEW now, now \subseteq 1 .. MaxFd, w.open \ {w.requests[r].resource_fd} \subseteq now,
           x.resource_fd # -1 => /\ x.resource_fd \in now
                                 /\ \/ x.resource_fd = w.requests[r].resource_fd
                                    \/ x.resource_fd \notin w.open
    PROVE  Good(With(w, now, r, x))
<1> DEFINE q == [w.requests EXCEPT ![r] = x]
<1>1. Held(now, w.connections, q)
  BY RequestHeld DEF Good
<1>2. DOMAIN q = DOMAIN w.requests
  OBVIOUS
<1> HIDE DEF q
<1> QED BY <1>1, <1>2, RecordGood DEF Good, With, q

\* Begun changes the stage of one request only.
LEMMA BegunIs ==
    ASSUME NEW w, Good(w), NEW r \in DOMAIN w.requests
    PROVE  LET x == [w.requests[r] EXCEPT !.stage = "begun"]
           IN /\ x \in Request /\ x.c = w.requests[r].c /\ x.uc = w.requests[r].uc
              /\ x.resource_fd = w.requests[r].resource_fd /\ x.stage = "begun"
              /\ Begun(w, r) = With(w, w.open, r, x)
              /\ Begun(w, r).connections = w.connections
<1> DEFINE x == [w.requests[r] EXCEPT !.stage = "begun"]
<1>1. w.requests[r] \in Request
  BY DEF Good, Held, Shape
<1>2. /\ x \in Request /\ x.c = w.requests[r].c /\ x.uc = w.requests[r].uc
      /\ x.resource_fd = w.requests[r].resource_fd /\ x.stage = "begun"
  BY <1>1 DEF Request
<1>3. Begun(w, r) = With(w, w.open, r, x)
  BY DEF Good, Begun, With
<1>4. Begun(w, r).connections = w.connections
  BY DEF Begun, Good
<1> QED BY <1>2, <1>3, <1>4

\* A request whose line was unread has no upstream and no file when it has begun.
LEMMA BegunGood ==
    ASSUME NEW w, Good(w), NEW r \in DOMAIN w.requests, w.requests[r].stage = "line"
    PROVE  /\ Good(Begun(w, r)) /\ r \in DOMAIN Begun(w, r).requests
           /\ Begun(w, r).requests[r].uc = NULL /\ Begun(w, r).requests[r].resource_fd = -1
           /\ Begun(w, r).requests[r].stage = "begun"
           /\ Begun(w, r).open = w.open
<1> DEFINE x == [w.requests[r] EXCEPT !.stage = "begun"]
<1>2. /\ x \in Request /\ x.c = w.requests[r].c /\ x.uc = w.requests[r].uc
      /\ x.resource_fd = w.requests[r].resource_fd /\ x.stage = "begun"
      /\ Begun(w, r) = With(w, w.open, r, x)
  BY BegunIs
<1>3. w.requests[r].uc = NULL /\ w.requests[r].resource_fd = -1 /\ w.open \subseteq 1 .. MaxFd
  BY DEF Good, Held, Shape, Pairs, ReqPaired
<1> HIDE DEF x
<1>5. Good(With(w, w.open, r, x))
  BY <1>2, <1>3, WithGood
<1> QED BY <1>2, <1>3, <1>5 DEF With

\* A descriptor opened and named nowhere keeps Good.
LEMMA OpenedGood ==
    ASSUME NEW w, Good(w), CanOpen(w), NEW r \in DOMAIN w.requests
    PROVE  /\ Good(Opened(w)) /\ Opened(w).requests = w.requests
           /\ Opened(w).open = w.open \cup {Fd(w)}
<1> DEFINE x == w.requests[r]
<1>1. Fd(w) \in (1 .. MaxFd) \ w.open
  BY FdFree DEF Good, Held, Shape
<1>2. x \in Request /\ w.open \subseteq 1 .. MaxFd
  BY DEF Good, Held, Shape
<1>3. ReqPaired(w.connections, w.requests, r) /\ (x.resource_fd # -1 => x.resource_fd \in w.open)
  BY DEF Good, Held, Pairs, Numbers
<1>4. Opened(w) = With(w, w.open \cup {Fd(w)}, r, x)
  BY DEF Good, Opened, With, Held, Shape
<1>5. Good(With(w, w.open \cup {Fd(w)}, r, x))
  BY <1>1, <1>2, <1>3, WithGood DEF ReqPaired
<1>6. With(w, w.open \cup {Fd(w)}, r, x).requests = w.requests
  BY DEF With, Good, Held, Shape
<1> QED BY <1>4, <1>5, <1>6 DEF With

-------------------------------------------------------------------------------

\* A client connection that was just opened is new, and its request has no upstream.
LEMMA OpenFrontIs ==
    ASSUME NEW w, Good(w), CanOpen(w)
    PROVE  LET c == C!Next(w.connection_pool)
           IN /\ c \notin DOMAIN w.connections
              /\ DOMAIN OpenFront(w).connections = DOMAIN w.connections \cup {c}
              /\ OpenFront(w).requests[OpenFront(w).connections[c].r].uc = NULL
  BY ConnAlloc DEF Good, OpenFront, Put, Fresh

\* An upstream connection that was just opened is new.
LEMMA OpenBackIs ==
    ASSUME NEW w, Good(w), NEW r
    PROVE  LET c == C!Next(w.connection_pool)
           IN /\ c \notin DOMAIN w.connections
              /\ DOMAIN OpenBack(w, r).connections = DOMAIN w.connections \cup {c}
  BY ConnAlloc DEF Good, OpenBack, Put

\* sy_accept_connection keeps the invariant, refused or not.
LEMMA AcceptGood == ASSUME Good(worker), InTable, Accept PROVE Good(worker') /\ InTable'
<1> DEFINE w == OpenFront(worker)
           c == C!Next(worker.connection_pool)
<1>1. /\ Good(w) /\ c \in DOMAIN w.connections
      /\ c \notin DOMAIN worker.connections
      /\ DOMAIN w.connections = DOMAIN worker.connections \cup {c}
      /\ w.requests[w.connections[c].r].uc = NULL
  BY OpenFrontGood, OpenFrontIs DEF Accept
<1>2. Entered(w, c) \/ Refused(w, c)
  BY DEF Accept
<1> HIDE DEF w, c
<1> QED BY <1>1, <1>2, EnteredGood DEF InTable

\* A location with pass keeps the invariant, whether or not the upstream was reached.
LEMMA PassGood ==
    ASSUME Good(worker), InTable, NEW r \in DOMAIN worker.requests, Pass(r)
    PROVE  Good(worker') /\ InTable'
<1> DEFINE w == Begun(worker, r)
           v == OpenBack(w, r)
           c == C!Next(w.connection_pool)
<1>1. /\ Good(w) /\ r \in DOMAIN w.requests /\ w.requests[r].uc = NULL
      /\ w.requests[r].stage = "begun"
  BY BegunGood DEF Pass
<1>2. \/ worker' = w /\ heap' = heap
      \/ CanOpen(w) /\ worker' = Opened(w) /\ heap' = heap
      \/ CanOpen(w) /\ (Entered(v, c) \/ Refused(v, c))
  BY DEF Pass
<1>3. w.connections = worker.connections
  BY BegunIs
<1>4. CASE worker' = w /\ heap' = heap
  BY <1>1, <1>3, <1>4 DEF InTable
<1>5. CASE CanOpen(w) /\ worker' = Opened(w) /\ heap' = heap
  <2>1. Good(Opened(w)) /\ Opened(w).connections = w.connections
    BY <1>1, <1>5, OpenedGood DEF Opened, Good
  <2> QED BY <1>3, <1>5, <2>1 DEF InTable
<1>6. CASE CanOpen(w) /\ (Entered(v, c) \/ Refused(v, c))
  <2>1. Good(v) /\ c \in DOMAIN v.connections /\ v.connections[c].side = "back"
    BY <1>1, <1>6, OpenBackGood
  <2>2. c \notin DOMAIN w.connections /\ DOMAIN v.connections = DOMAIN w.connections \cup {c}
    BY <1>1, OpenBackIs
  <2> HIDE DEF v, w, c
  <2> QED BY <1>3, <1>6, <2>1, <2>2, EnteredGood DEF InTable
<1> QED BY <1>2, <1>4, <1>5, <1>6

\* The request takes a descriptor fd that was not open, and now is.
LEMMA FileGood ==
    ASSUME NEW w, Good(w), NEW r \in DOMAIN w.requests, w.requests[r].stage = "begun",
           w.requests[r].resource_fd = -1, NEW fd \in (1 .. MaxFd) \ w.open
    PROVE  Good(With(w, w.open \cup {fd}, r, [w.requests[r] EXCEPT !.resource_fd = fd]))
<1> DEFINE x == [w.requests[r] EXCEPT !.resource_fd = fd]
<1>1. w.requests[r] \in Request /\ fd \in Int /\ w.open \subseteq 1 .. MaxFd
  BY SizeAssumption DEF Good, Held, Shape
<1>2. /\ x \in Request /\ x.c = w.requests[r].c /\ x.uc = w.requests[r].uc
      /\ x.resource_fd = fd /\ x.stage = "begun"
  BY <1>1 DEF Request
<1> HIDE DEF x
<1> QED BY <1>1, <1>2, WithGood DEF x

\* A location of files gives the request one descriptor that was not open, or none.
LEMMA OpenIs ==
    ASSUME Good(worker), NEW r \in DOMAIN worker.requests, Open(r)
    PROVE  LET w == Begun(worker, r)
           IN \/ worker' = w
              \/ \E fd \in (1 .. MaxFd) \ w.open :
                    worker' = With(w, w.open \cup {fd}, r,
                                   [w.requests[r] EXCEPT !.resource_fd = fd])
<1> DEFINE w == Begun(worker, r)
           file == [Opened(w) EXCEPT !.requests[r].resource_fd = Fd(w)]
<1>1. /\ Good(w) /\ r \in DOMAIN w.requests /\ w.requests[r].resource_fd = -1
      /\ w.requests[r].stage = "begun"
  BY BegunGood DEF Open
<1>2. worker' \in {w} \cup IF ~CanOpen(w) THEN {} ELSE {file, IndexOf(w, r)}
  BY DEF Open
<1> HIDE DEF w, file
<1> DEFINE Filed(v) == \E fd \in (1 .. MaxFd) \ w.open :
              v = With(w, w.open \cup {fd}, r, [w.requests[r] EXCEPT !.resource_fd = fd])
<1>3. ASSUME CanOpen(w) PROVE Filed(file)
  <2>1. file = With(w, w.open \cup {Fd(w)}, r, [w.requests[r] EXCEPT !.resource_fd = Fd(w)])
    <3>1. Opened(w) = [open |-> w.open \cup {Fd(w)}, connections |-> w.connections,
                       requests |-> w.requests, connection_pool |-> w.connection_pool,
                       request_pool |-> w.request_pool]
      BY <1>1 DEF Good, Opened
    <3> QED BY <3>1 DEF With, file
  <2>2. Fd(w) \in (1 .. MaxFd) \ w.open
    BY <1>1, <1>3, FdFree DEF Good, Held, Shape
  <2> QED BY <2>1, <2>2
<1>4. ASSUME CanOpen(w) PROVE IndexOf(w, r) = w \/ Filed(IndexOf(w, r))
  <2> DEFINE v == Opened(w)
  <2>1. CASE CanOpen(v)
    <3>1. v.open = w.open \cup {Fd(w)} /\ v.open \subseteq 1 .. MaxFd
      BY <1>1, <1>4, OpenedGood DEF Good, Held, Shape
    <3>2. Fd(v) \in (1 .. MaxFd) \ v.open
      BY <2>1, <3>1, FdFree
    <3>3. Fd(v) \in (1 .. MaxFd) \ w.open
      BY <3>1, <3>2
    <3>4. IndexOf(w, r) = [w EXCEPT !.open = @ \cup {Fd(v)}, !.requests[r].resource_fd = Fd(v)]
      BY <2>1 DEF IndexOf
    <3> HIDE DEF v
    <3>5. IndexOf(w, r) = With(w, w.open \cup {Fd(v)}, r,
                               [w.requests[r] EXCEPT !.resource_fd = Fd(v)])
      BY <1>1, <3>4 DEF Good, With
    <3> QED BY <3>3, <3>5
  <2>2. CASE ~CanOpen(v)
    BY <2>2 DEF IndexOf
  <2> QED BY <2>1, <2>2
<1> QED BY <1>2, <1>3, <1>4 DEF w

\* A location of files keeps Good.
LEMMA OpenGood ==
    ASSUME Good(worker), NEW r \in DOMAIN worker.requests, Open(r)
    PROVE  Good(worker')
<1> DEFINE w == Begun(worker, r)
           Filed(fd) == With(w, w.open \cup {fd}, r, [w.requests[r] EXCEPT !.resource_fd = fd])
<1>1. /\ Good(w) /\ r \in DOMAIN w.requests /\ w.requests[r].resource_fd = -1
      /\ w.requests[r].stage = "begun"
  BY BegunGood DEF Open
<1>2. worker' = w \/ \E fd \in (1 .. MaxFd) \ w.open : worker' = Filed(fd)
  BY OpenIs
<1> HIDE DEF w
<1>3. \A fd \in (1 .. MaxFd) \ w.open : Good(Filed(fd))
  BY <1>1, FileGood
<1> HIDE DEF Filed
<1> QED BY <1>1, <1>2, <1>3

\* At the end of the response the file is closed and its number forgotten.
LEMMA SentIs ==
    ASSUME NEW w, Good(w), NEW r \in DOMAIN w.requests
    PROVE  Sent(w, r) = With(w, w.open \ {w.requests[r].resource_fd}, r,
                             [w.requests[r] EXCEPT !.resource_fd = -1])
<1> DEFINE now == w.open \ {w.requests[r].resource_fd}
           x == [w.requests[r] EXCEPT !.resource_fd = -1]
<1>1. Sent(w, r) = [w EXCEPT !.open = now, !.requests = [w.requests EXCEPT ![r] = x]]
  BY DEF Sent
<1> HIDE DEF now, x
<1>2. Sent(w, r) = With(w, now, r, x)
  BY <1>1 DEF Good, With
<1> QED BY <1>2 DEF now, x

\* The request r of w ends with the record x, which keeps its connection only.
LEMMA EndGood ==
    ASSUME NEW w, Good(w), NEW r \in DOMAIN w.requests, w.requests[r].uc = NULL,
           NEW x \in Request, x.c = w.requests[r].c, x.uc = NULL, x.resource_fd = -1
    PROVE  Good(With(w, w.open \ {w.requests[r].resource_fd}, r, x))
<1>1. w.open \subseteq 1 .. MaxFd
  BY DEF Good, Held, Shape
<1> QED BY <1>1, WithGood

\* A response that is done leaves its request with its connection only.
LEMMA RespondIs ==
    ASSUME Good(worker), NEW r \in DOMAIN worker.requests, Respond(r)
    PROVE  \E x \in Request :
              /\ worker.requests[r].uc = NULL
              /\ x.c = worker.requests[r].c /\ x.uc = NULL /\ x.resource_fd = -1
              /\ worker' = With(worker, worker.open \ {worker.requests[r].resource_fd}, r, x)
<1> DEFINE d == worker.requests[r].resource_fd
           y == worker.requests[r]
           x == [y EXCEPT !.resource_fd = -1]
           over == [x EXCEPT !.stage = "over"]
           w == Sent(worker, r)
<1>1. y \in Request /\ y.uc = NULL
  BY DEF Good, Held, Shape, Respond
<1>2. x \in Request /\ x.c = y.c /\ x.uc = NULL /\ x.resource_fd = -1
  <2> HIDE DEF y
  <2> QED BY <1>1 DEF Request
<1>3. over \in Request /\ over.c = y.c /\ over.uc = NULL /\ over.resource_fd = -1
  <2> HIDE DEF x
  <2> QED BY <1>2 DEF Request
<1>4. Fresh(y.c) \in Request /\ Fresh(y.c).c = y.c /\ Fresh(y.c).uc = NULL
      /\ Fresh(y.c).resource_fd = -1
  BY <1>1 DEF Request, Fresh
<1>5. w = With(worker, worker.open \ {d}, r, x)
  BY SentIs
<1>6. w.requests = [worker.requests EXCEPT ![r] = x] /\ w.requests[r] = x
      /\ w.open = worker.open \ {d} /\ w.connections = worker.connections
      /\ w.connection_pool = worker.connection_pool /\ w.request_pool = worker.request_pool
  BY <1>5 DEF With, Good, Held, Shape
<1>7. w = [open |-> w.open, connections |-> w.connections, requests |-> w.requests,
           connection_pool |-> w.connection_pool, request_pool |-> w.request_pool]
  BY <1>5 DEF With
<1> HIDE DEF w, x, y, d
<1>8. [w EXCEPT !.requests[r].stage = "over"] = With(worker, worker.open \ {d}, r, over)
  BY <1>6, <1>7 DEF With
<1>9. [w EXCEPT !.requests[r] = Fresh(@.c)] = With(worker, worker.open \ {d}, r, Fresh(y.c))
  BY <1>2, <1>6, <1>7 DEF With
<1>10. worker' \in {[w EXCEPT !.requests[r].stage = "over"], [w EXCEPT !.requests[r] = Fresh(@.c)]}
  BY DEF Respond, w
<1> HIDE DEF over
<1> QED BY <1>1, <1>3, <1>4, <1>8, <1>9, <1>10 DEF y, d

\* A response that is done keeps Good.
LEMMA RespondGood ==
    ASSUME Good(worker), NEW r \in DOMAIN worker.requests, Respond(r)
    PROVE  Good(worker')
<1> DEFINE After(x) == With(worker, worker.open \ {worker.requests[r].resource_fd}, r, x)
<1>1. PICK x \in Request : /\ worker.requests[r].uc = NULL
                          /\ x.c = worker.requests[r].c /\ x.uc = NULL /\ x.resource_fd = -1
                          /\ worker' = After(x)
  BY RespondIs
<1>2. Good(After(x))
  BY <1>1, EndGood
<1> HIDE DEF After
<1> QED BY <1>1, <1>2

\* A worker starts Good: nothing is open and the pools have no chunk.
LEMMA ResourcesInit == Init => Good(worker) /\ InTable
<1> SUFFICES ASSUME Init PROVE Good(worker) /\ InTable
  OBVIOUS
<1>1. Held({}, <<>>, <<>>)
  BY DEF Held, Shape, Pairs, Numbers
<1>2. DOMAIN <<>> = {} /\ IsFiniteSet({}) /\ Cardinality({}) = 0
  BY FS_EmptySet
<1>3. C!IsPool(C!EmptyPool) /\ C!Exact(C!EmptyPool, {})
  BY DEF C!IsPool, C!EmptyPool, C!Exact, C!Listed, C!Cuts
<1>4. Q!IsPool(Q!EmptyPool) /\ Q!Exact(Q!EmptyPool, {})
  BY DEF Q!IsPool, Q!EmptyPool, Q!Exact, Q!Listed, Q!Cuts
<1>5. C!EmptyPool.nallocated = 0 /\ Q!EmptyPool.nallocated = 0
  BY DEF C!EmptyPool, Q!EmptyPool
<1> QED BY <1>1, <1>2, <1>3, <1>4, <1>5, RecordGood DEF Init, InTable, ConnsPooled, ReqsPooled

\* Handlers of one request leave the connections as they are.
LEMMA OpenSame ==
    ASSUME Good(worker), NEW r \in DOMAIN worker.requests, Open(r)
    PROVE  worker'.connections = worker.connections
<1>1. Begun(worker, r).connections = worker.connections
  BY BegunIs
<1> QED BY <1>1, OpenIs DEF With

LEMMA RespondSame ==
    ASSUME Good(worker), NEW r \in DOMAIN worker.requests, Respond(r)
    PROVE  worker'.connections = worker.connections
  BY RespondIs DEF With

\* Every step keeps both parts of the invariant.
LEMMA ResourcesNext ==
    ASSUME Good(worker), InTable, [Next]_vars
    PROVE  Good(worker') /\ InTable'
<1>1. CASE Accept
  BY <1>1, AcceptGood
<1>2. ASSUME NEW r \in DOMAIN worker.requests, Pass(r)
      PROVE  Good(worker') /\ InTable'
  BY <1>2, PassGood
<1>3. ASSUME NEW r \in DOMAIN worker.requests, Open(r)
      PROVE  Good(worker') /\ InTable'
  <2>1. heap' = heap
    BY <1>3 DEF Open
  <2> QED BY <1>3, <2>1, OpenGood, OpenSame DEF InTable
<1>4. ASSUME NEW r \in DOMAIN worker.requests, Respond(r)
      PROVE  Good(worker') /\ InTable'
  <2>1. heap' = heap
    BY <1>4 DEF Respond
  <2> QED BY <1>4, <2>1, RespondGood, RespondSame DEF InTable
<1>5. ASSUME NEW c \in heap, Sweep(c)
      PROVE  Good(worker') /\ InTable'
  BY <1>5, CloseGood DEF Sweep, InTable
<1>6. CASE Stray
  BY <1>6 DEF Stray, InTable
<1>7. CASE UNCHANGED vars
  BY <1>7 DEF vars, InTable
<1> QED BY <1>1, <1>2, <1>3, <1>4, <1>5, <1>6, <1>7 DEF Next

\* They are an invariant.
LEMMA ResourcesAlways == Spec => [](Good(worker) /\ InTable)
<1>1. Good(worker) /\ InTable /\ [Next]_vars => (Good(worker) /\ InTable)'
  BY ResourcesNext
<1> QED BY <1>1, ResourcesInit, PTL DEF Spec

\* A number of a descriptor stands in one place only, and is open there: no connection
\* and no file is read, written or closed through a number the kernel has given to
\* another since (connection.c:75, request.c:234-235).
THEOREM NumbersAreDistinct == Spec => []DescriptorsDistinct
<1>1. Good(worker) => DescriptorsDistinct
  BY DEF Good, Held, Numbers, DescriptorsDistinct, Files, Sockets, Connections, Requests
<1> QED BY <1>1, ResourcesAlways, PTL

\* Every struct of the two pools is in use or on its free list, once, and nallocated is
\* how many are in use (mempool.c:50-67, 79-86).
THEOREM PoolsAreExact == Spec => []PoolsExact
<1>1. Good(worker) => PoolsExact
  BY DEF Good, ConnsPooled, ReqsPooled, PoolsExact, Connections, Requests
<1> QED BY <1>1, ResourcesAlways, PTL

\* Two structs in use never share memory, of connections and of requests
\* (mempool.c:12-17, 56).
THEOREM ObjectsAreApart == Spec => []ObjectsApart
<1>1. Good(worker) => ObjectsApart
  BY SizeAssumption, C!ExactApart, Q!ExactApart
     DEF Good, ConnsPooled, ReqsPooled, ObjectsApart, Connections, Requests
<1> QED BY <1>1, ResourcesAlways, PTL

-------------------------------------------------------------------------------

\* A lost descriptor is one that is open and stands nowhere.
LEMMA LostIs ==
    ASSUME NEW w, Good(w), NEW d
    PROVE  d \in Lost(w) <=> /\ d \in w.open
                             /\ \A c \in DOMAIN w.connections : w.connections[c].fd # d
                             /\ \A r \in DOMAIN w.requests : w.requests[r].resource_fd # d
<1>1. -1 \notin w.open
  BY SizeAssumption DEF Good, Held, Shape
<1> QED BY <1>1 DEF Lost, Files, Sockets, Connections, Requests

\* Opening a client connection loses nothing.
LEMMA OpenFrontLost ==
    ASSUME NEW w, Good(w), CanOpen(w)
    PROVE  Lost(OpenFront(w)) \subseteq Lost(w)
<1> DEFINE c == C!Next(w.connection_pool)
           r == Q!Next(w.request_pool)
           v == OpenFront(w)
<1>1. Good(v) /\ c \notin DOMAIN w.connections /\ r \notin DOMAIN w.requests
  BY OpenFrontGood, ConnAlloc, ReqAlloc DEF Good
<1>2. /\ v.open = w.open \cup {Fd(w)}
      /\ v.connections = Put(w.connections, c, [fd |-> Fd(w), side |-> "front", r |-> r])
      /\ v.requests = Put(w.requests, r, Fresh(c))
  BY DEF OpenFront
<1> HIDE DEF v, c, r
<1>3. /\ c \in DOMAIN v.connections /\ v.connections[c].fd = Fd(w)
      /\ \A x \in DOMAIN w.connections :
            x \in DOMAIN v.connections /\ v.connections[x] = w.connections[x]
      /\ \A x \in DOMAIN w.requests :
            x \in DOMAIN v.requests /\ v.requests[x] = w.requests[x]
  BY <1>1, <1>2 DEF Put
<1>4. ASSUME NEW d \in Lost(v) PROVE d \in Lost(w)
  <2>1. /\ d \in v.open /\ \A x \in DOMAIN v.connections : v.connections[x].fd # d
        /\ \A x \in DOMAIN v.requests : v.requests[x].resource_fd # d
    BY <1>1, LostIs
  <2>2. /\ d \in w.open /\ \A x \in DOMAIN w.connections : w.connections[x].fd # d
        /\ \A x \in DOMAIN w.requests : w.requests[x].resource_fd # d
    BY <1>2, <1>3, <2>1
  <2> QED BY <2>2, LostIs
<1> QED BY <1>4 DEF v

\* Opening an upstream connection loses nothing.
LEMMA OpenBackLost ==
    ASSUME NEW w, Good(w), CanOpen(w), NEW r \in DOMAIN w.requests,
           w.requests[r].uc = NULL, w.requests[r].stage # "line"
    PROVE  Lost(OpenBack(w, r)) \subseteq Lost(w)
<1> DEFINE c == C!Next(w.connection_pool)
           v == OpenBack(w, r)
<1>1. Good(v) /\ c \notin DOMAIN w.connections
  BY OpenBackGood, ConnAlloc DEF Good
<1>2. /\ v.open = w.open \cup {Fd(w)}
      /\ v.connections = Put(w.connections, c, [fd |-> Fd(w), side |-> "back", r |-> r])
      /\ v.requests = [w.requests EXCEPT ![r].uc = c]
  BY DEF OpenBack
<1>3. w.requests \in [DOMAIN w.requests -> Request]
  BY DEF Good, Held, Shape
<1> HIDE DEF v, c
<1>4. /\ c \in DOMAIN v.connections /\ v.connections[c].fd = Fd(w)
      /\ \A x \in DOMAIN w.connections :
            x \in DOMAIN v.connections /\ v.connections[x] = w.connections[x]
  BY <1>1, <1>2 DEF Put
<1>5. \A x \in DOMAIN w.requests :
         x \in DOMAIN v.requests /\ v.requests[x].resource_fd = w.requests[x].resource_fd
  BY <1>2, <1>3 DEF Request
<1>6. ASSUME NEW d \in Lost(v) PROVE d \in Lost(w)
  <2>1. /\ d \in v.open /\ \A x \in DOMAIN v.connections : v.connections[x].fd # d
        /\ \A x \in DOMAIN v.requests : v.requests[x].resource_fd # d
    BY <1>1, LostIs
  <2>2. /\ d \in w.open /\ \A x \in DOMAIN w.connections : w.connections[x].fd # d
        /\ \A x \in DOMAIN w.requests : w.requests[x].resource_fd # d
    BY <1>2, <1>4, <1>5, <2>1
  <2> QED BY <2>2, LostIs
<1> QED BY <1>6 DEF v

\* Closing an upstream connection loses nothing.
LEMMA CloseBackLost ==
    ASSUME NEW w, Good(w), NEW c \in DOMAIN w.connections, w.connections[c].side = "back"
    PROVE  Lost(CloseBack(w, c)) \subseteq Lost(w)
<1> DEFINE v == CloseBack(w, c)
           r == w.connections[c].r
<1>1. Good(v)
  BY CloseBackGood
<1>2. /\ v.open = w.open \ {w.connections[c].fd} /\ v.connections = Without(w.connections, c)
      /\ v.requests = [w.requests EXCEPT ![r].uc = NULL]
  BY DEF CloseBack
<1>3. w.requests \in [DOMAIN w.requests -> Request] /\ r \in DOMAIN w.requests
  BY DEF Good, Held, Shape, Pairs, ConnPaired
<1> HIDE DEF v, r
<1>4. \A x \in DOMAIN w.connections :
         x # c => x \in DOMAIN v.connections /\ v.connections[x] = w.connections[x]
  BY <1>2 DEF Without
<1>5. \A x \in DOMAIN w.requests :
         x \in DOMAIN v.requests /\ v.requests[x].resource_fd = w.requests[x].resource_fd
  BY <1>2, <1>3 DEF Request
<1>6. ASSUME NEW d \in Lost(v) PROVE d \in Lost(w)
  <2>1. /\ d \in v.open /\ \A x \in DOMAIN v.connections : v.connections[x].fd # d
        /\ \A x \in DOMAIN v.requests : v.requests[x].resource_fd # d
    BY <1>1, LostIs
  <2>2. /\ d \in w.open /\ \A x \in DOMAIN w.connections : w.connections[x].fd # d
        /\ \A x \in DOMAIN w.requests : w.requests[x].resource_fd # d
    BY <1>2, <1>4, <1>5, <2>1
  <2> QED BY <2>2, LostIs
<1> QED BY <1>6 DEF v

\* A front takes the file of its request with it, and that only.
LEMMA CloseFrontLost ==
    ASSUME NEW w, Good(w), NEW c \in DOMAIN w.connections, w.connections[c].side = "front",
           NEW d \in Lost(CloseFront(w, c)), d \notin Lost(w)
    PROVE  /\ w.connections[c].r \in DOMAIN w.requests \ DOMAIN CloseFront(w, c).requests
           /\ w.requests[w.connections[c].r].resource_fd = d
           /\ d \in w.open
<1> DEFINE r == w.connections[c].r
           v == CloseUpstream(w, r)
           u == CloseFront(w, c)
<1>1. r \in DOMAIN w.requests /\ ReqPaired(w.connections, w.requests, r)
      /\ w.requests \in [DOMAIN w.requests -> Request]
  BY DEF Good, Held, Shape, Pairs, ConnPaired
<1>2. /\ Good(v) /\ Lost(v) \subseteq Lost(w) /\ v.open \subseteq w.open
      /\ c \in DOMAIN v.connections /\ v.connections[c] = w.connections[c]
      /\ r \in DOMAIN v.requests /\ v.requests[r].resource_fd = w.requests[r].resource_fd
  <2>1. CASE w.requests[r].uc = NULL
    BY <1>1, <2>1 DEF CloseUpstream
  <2>2. CASE w.requests[r].uc # NULL
    <3> DEFINE b == w.requests[r].uc
    <3>1. b \in DOMAIN w.connections /\ w.connections[b].side = "back" /\ w.connections[b].r = r
      BY <1>1, <2>2 DEF ReqPaired
    <3>2. v = CloseBack(w, b)
      BY <2>2 DEF CloseUpstream
    <3> HIDE DEF v
    <3>3. /\ v.connections = Without(w.connections, b) /\ v.open = w.open \ {w.connections[b].fd}
          /\ v.requests = [w.requests EXCEPT ![r].uc = NULL]
      BY <3>1, <3>2 DEF CloseBack
    <3>4. Good(v) /\ Lost(v) \subseteq Lost(w)
      BY <3>1, <3>2, CloseBackGood, CloseBackLost
    <3>5. c # b
      BY <3>1
    <3>6. c \in DOMAIN v.connections /\ v.connections[c] = w.connections[c]
      BY <3>3, <3>5 DEF Without
    <3>7. r \in DOMAIN v.requests /\ v.requests[r].resource_fd = w.requests[r].resource_fd
      <4>1. w.requests[r] \in Request
        BY <1>1
      <4>2. v.requests[r] = [w.requests[r] EXCEPT !.uc = NULL] /\ r \in DOMAIN v.requests
        BY <1>1, <3>3
      <4> QED BY <4>1, <4>2 DEF Request
    <3> QED BY <3>3, <3>4, <3>6, <3>7
  <2> QED BY <2>1, <2>2
<1>3. /\ u.open = v.open \ {w.connections[c].fd} /\ u.connections = Without(v.connections, c)
      /\ u.requests = Without(v.requests, r)
  BY DEF CloseFront
<1>4. Good(u)
  BY CloseFrontGood
<1> HIDE DEF u, v, r
<1>5. /\ \A x \in DOMAIN v.connections :
            x # c => x \in DOMAIN u.connections /\ u.connections[x] = v.connections[x]
      /\ \A x \in DOMAIN v.requests :
            x # r => x \in DOMAIN u.requests /\ u.requests[x] = v.requests[x]
      /\ r \notin DOMAIN u.requests
  BY <1>3 DEF Without
<1>6. /\ d \in u.open /\ \A x \in DOMAIN u.connections : u.connections[x].fd # d
      /\ \A x \in DOMAIN u.requests : u.requests[x].resource_fd # d
  BY <1>4, LostIs DEF u
<1>7. d \in v.open /\ \A x \in DOMAIN v.connections : v.connections[x].fd # d
  BY <1>2, <1>3, <1>5, <1>6
<1>8. v.requests[r].resource_fd = d
  <2>1. d \notin Lost(v)
    BY <1>2
  <2>2. \E x \in DOMAIN v.requests : v.requests[x].resource_fd = d
    BY <1>2, <1>7, <2>1, LostIs
  <2> QED BY <1>5, <1>6, <2>2
<1> QED BY <1>1, <1>2, <1>5, <1>7, <1>8 DEF u, r

\* The number a request had is still named after, or is not open.
LEMMA WithLost ==
    ASSUME NEW w, Good(w), NEW r \in DOMAIN w.requests, NEW now, NEW x,
           Good(With(w, now, r, x)), NEW d \in Lost(With(w, now, r, x)), d \in w.open,
           w.requests[r].resource_fd \notin now \/ x.resource_fd = w.requests[r].resource_fd
    PROVE  d \in Lost(w)
<1> DEFINE v == With(w, now, r, x)
<1>1. v.open = now /\ v.connections = w.connections /\ v.requests = [w.requests EXCEPT ![r] = x]
  BY DEF With
<1>2. /\ v.requests[r] = x /\ DOMAIN v.requests = DOMAIN w.requests
      /\ \A s \in DOMAIN w.requests : s # r => v.requests[s] = w.requests[s]
  BY <1>1
<1> HIDE DEF v
<1>3. /\ d \in v.open /\ \A c \in DOMAIN v.connections : v.connections[c].fd # d
      /\ \A s \in DOMAIN v.requests : v.requests[s].resource_fd # d
  BY LostIs DEF v
<1>4. /\ \A c \in DOMAIN w.connections : w.connections[c].fd # d
      /\ \A s \in DOMAIN w.requests : w.requests[s].resource_fd # d
  BY <1>1, <1>2, <1>3
<1> QED BY <1>4, LostIs

\* Reading the request line loses nothing.
LEMMA BegunLost ==
    ASSUME NEW w, Good(w), NEW r \in DOMAIN w.requests, w.requests[r].stage = "line"
    PROVE  Lost(Begun(w, r)) \subseteq Lost(w)
<1> DEFINE x == [w.requests[r] EXCEPT !.stage = "begun"]
<1>1. x.resource_fd = w.requests[r].resource_fd /\ Begun(w, r) = With(w, w.open, r, x)
  BY BegunIs
<1>2. Good(Begun(w, r)) /\ Begun(w, r).open = w.open
  BY BegunGood
<1> HIDE DEF x
<1>3. ASSUME NEW d \in Lost(Begun(w, r)) PROVE d \in Lost(w)
  <2>1. d \in w.open
    BY <1>2, LostIs
  <2> QED BY <1>1, <1>2, <2>1, WithLost
<1> QED BY <1>3

\* A descriptor opened and named nowhere is the only one lost.
LEMMA OpenedLost ==
    ASSUME NEW w, Good(w), CanOpen(w), NEW r \in DOMAIN w.requests, NEW d \in Lost(Opened(w))
    PROVE  d \in Lost(w) \/ d = Fd(w)
<1> DEFINE v == Opened(w)
<1>1. Good(v) /\ v.open = w.open \cup {Fd(w)} /\ v.requests = w.requests
  BY OpenedGood
<1>2. v.connections = w.connections
  BY DEF Opened, Good
<1> HIDE DEF v
<1> QED BY <1>1, <1>2, LostIs DEF v

\* Accepting loses nothing, refused or not: a fresh request has no file.
LEMMA AcceptLost == ASSUME Good(worker), Accept PROVE Lost(worker') \subseteq Lost(worker)
<1> DEFINE c == C!Next(worker.connection_pool)
           r == Q!Next(worker.request_pool)
           w == OpenFront(worker)
<1>1. /\ Good(w) /\ Lost(w) \subseteq Lost(worker) /\ worker' \in {w, Close(w, c)}
      /\ c \in DOMAIN w.connections /\ w.connections[c].side = "front"
  BY OpenFrontGood, OpenFrontLost DEF Accept, Entered, Refused
<1>2. w.connections[c].r = r /\ w.requests[r].resource_fd = -1
  BY DEF OpenFront, Put, Fresh
<1>3. Close(w, c) = CloseFront(w, c)
  BY <1>1 DEF Close
<1> HIDE DEF w, c, r
<1>4. -1 \notin w.open
  BY <1>1, SizeAssumption DEF Good, Held, Shape
<1> QED BY <1>1, <1>2, <1>3, <1>4, CloseFrontLost

\* A location with pass loses the socket that was not connected (connection.c:46-49),
\* and nothing else.
LEMMA PassLost ==
    ASSUME Good(worker), NEW r \in DOMAIN worker.requests, Pass(r), NEW d \in Lost(worker')
    PROVE  d \in Lost(worker) \/ Unreached(d)
<1> DEFINE w == Begun(worker, r)
           c == C!Next(w.connection_pool)
<1>1. /\ Good(w) /\ r \in DOMAIN w.requests /\ w.requests[r].uc = NULL
      /\ w.requests[r].stage = "begun" /\ w.open = worker.open
      /\ Lost(w) \subseteq Lost(worker)
  BY BegunGood, BegunLost DEF Pass
<1>2. \/ worker' = w
      \/ CanOpen(w) /\ worker' \in {Opened(w), OpenBack(w, r), Close(OpenBack(w, r), c)}
  BY DEF Pass, Entered, Refused
<1>3. w.requests = [worker.requests EXCEPT ![r].stage = "begun"]
  BY BegunIs DEF With
<1> HIDE DEF w, c
<1>4. CASE worker' = w
  BY <1>1, <1>4
<1>5. CASE CanOpen(w) /\ worker' = Opened(w)
  <2>1. d \in Lost(w) \/ d = Fd(w)
    BY <1>1, <1>5, OpenedLost
  <2>2. worker'.requests = w.requests
    BY <1>1, <1>5, OpenedGood
  <2>3. Fd(w) \notin w.open
    BY <1>1, <1>5, FdFree DEF Good, Held, Shape
  <2> QED BY <1>1, <1>3, <2>1, <2>2, <2>3 DEF Unreached, Requests, Pass
<1>6. CASE CanOpen(w) /\ worker' = OpenBack(w, r)
  BY <1>1, <1>6, OpenBackLost
<1>7. CASE CanOpen(w) /\ worker' = Close(OpenBack(w, r), c)
  <2> DEFINE v == OpenBack(w, r)
  <2>1. /\ Good(v) /\ c \in DOMAIN v.connections /\ v.connections[c].side = "back"
        /\ Lost(v) \subseteq Lost(w)
    BY <1>1, <1>7, OpenBackGood, OpenBackLost DEF c
  <2> HIDE DEF v
  <2>2. worker' = CloseBack(v, c)
    BY <1>7, <2>1 DEF Close, v
  <2> QED BY <1>1, <2>1, <2>2, CloseBackLost
<1> QED BY <1>2, <1>4, <1>5, <1>6, <1>7

\* A location of files loses nothing: the directory is closed behind its index.
LEMMA OpenLost ==
    ASSUME Good(worker), NEW r \in DOMAIN worker.requests, Open(r)
    PROVE  Lost(worker') \subseteq Lost(worker)
<1> DEFINE w == Begun(worker, r)
<1>1. /\ Good(w) /\ r \in DOMAIN w.requests /\ w.requests[r].resource_fd = -1
      /\ w.requests[r].stage = "begun" /\ Lost(w) \subseteq Lost(worker)
  BY BegunGood, BegunLost DEF Open
<1>2. ASSUME NEW fd \in (1 .. MaxFd) \ w.open,
             worker' = With(w, w.open \cup {fd}, r, [w.requests[r] EXCEPT !.resource_fd = fd])
      PROVE  Lost(worker') \subseteq Lost(w)
  <2> HIDE DEF w
  <2> DEFINE x == [w.requests[r] EXCEPT !.resource_fd = fd]
             v == With(w, w.open \cup {fd}, r, x)
  <2>1. Good(v)
    BY <1>1, FileGood
  <2>2. w.requests[r] \in Request
    BY <1>1 DEF Good, Held, Shape
  <2>3. x.resource_fd = fd
    BY <2>2 DEF Request
  <2> HIDE DEF x
  <2>4. v.open = w.open \cup {fd} /\ r \in DOMAIN v.requests /\ v.requests[r] = x
    BY <1>1 DEF With
  <2>5. -1 \notin w.open \cup {fd}
    BY <1>1, SizeAssumption DEF Good, Held, Shape
  <2>6. ASSUME NEW d \in Lost(v) PROVE d \in Lost(w)
    <3>1. d \in w.open
      <4> HIDE DEF v
      <4> QED BY <2>1, <2>3, <2>4, LostIs
    <3> QED BY <1>1, <2>1, <2>5, <3>1, WithLost
  <2> QED BY <1>2, <2>6 DEF x
<1> QED BY <1>1, <1>2, OpenIs

\* A response that is done loses nothing.
LEMMA RespondLost ==
    ASSUME Good(worker), NEW r \in DOMAIN worker.requests, Respond(r)
    PROVE  Lost(worker') \subseteq Lost(worker)
<1> DEFINE now == worker.open \ {worker.requests[r].resource_fd}
<1>1. PICK x \in Request : worker' = With(worker, now, r, x)
  BY RespondIs
<1>2. Good(worker') /\ worker'.open = now
  BY <1>1, RespondGood DEF With
<1>3. ASSUME NEW d \in Lost(worker') PROVE d \in Lost(worker)
  <2>1. d \in worker.open
    BY <1>2, LostIs
  <2> QED BY <1>1, <1>2, <2>1, WithLost
<1> QED BY <1>3

-------------------------------------------------------------------------------
(* What a connection holds while it is open is held by it alone; so what is  *)
(* held out of the table comes from a connection that left it.               *)

\* What a connection holds depends on it and on the file of its request.
LEMMA HeldSame ==
    ASSUME NEW v, NEW w, NEW c, v.connections[c] = w.connections[c],
           w.connections[c].side = "front" =>
              v.requests[w.connections[c].r].resource_fd = w.requests[w.connections[c].r].resource_fd
    PROVE  HeldBy(v, c) = HeldBy(w, c)
  BY DEF HeldBy

\* Opening a client connection leaves the others what they hold.
LEMMA OpenFrontKeeps ==
    ASSUME NEW w, Good(w), CanOpen(w), NEW x \in DOMAIN w.connections
    PROVE  HeldBy(OpenFront(w), x) = HeldBy(w, x)
<1> DEFINE c == C!Next(w.connection_pool)
           r == Q!Next(w.request_pool)
           v == OpenFront(w)
<1>1. c \notin DOMAIN w.connections /\ r \notin DOMAIN w.requests
  BY ConnAlloc, ReqAlloc DEF Good
<1>2. /\ v.connections = Put(w.connections, c, [fd |-> Fd(w), side |-> "front", r |-> r])
      /\ v.requests = Put(w.requests, r, Fresh(c))
  BY DEF OpenFront
<1> HIDE DEF v, c, r
<1>3. v.connections[x] = w.connections[x] /\ w.connections[x].r \in DOMAIN w.requests
  BY <1>1, <1>2 DEF Put, Good, Held, Pairs, ConnPaired
<1>4. v.requests[w.connections[x].r] = w.requests[w.connections[x].r]
  BY <1>1, <1>2, <1>3 DEF Put
<1> QED BY <1>3, <1>4, HeldSame DEF v

\* So does opening an upstream connection.
LEMMA OpenBackKeeps ==
    ASSUME NEW w, Good(w), NEW r \in DOMAIN w.requests, NEW x \in DOMAIN w.connections
    PROVE  HeldBy(OpenBack(w, r), x) = HeldBy(w, x)
<1> DEFINE c == C!Next(w.connection_pool)
           v == OpenBack(w, r)
           s == w.connections[x].r
<1>1. c \notin DOMAIN w.connections
  BY ConnAlloc DEF Good
<1>2. /\ v.connections = Put(w.connections, c, [fd |-> Fd(w), side |-> "back", r |-> r])
      /\ v.requests = [w.requests EXCEPT ![r].uc = c]
  BY DEF OpenBack
<1>3. s \in DOMAIN w.requests /\ w.requests[s] \in Request
  BY DEF Good, Held, Shape, Pairs, ConnPaired
<1> HIDE DEF v, c
<1>4. v.connections[x] = w.connections[x]
  BY <1>1, <1>2 DEF Put
<1>5. v.requests[s].resource_fd = w.requests[s].resource_fd
  BY <1>2, <1>3 DEF Request
<1> QED BY <1>4, <1>5, HeldSame DEF v

\* So does closing an upstream connection.
LEMMA CloseBackKeeps ==
    ASSUME NEW w, Good(w), NEW c \in DOMAIN w.connections, w.connections[c].side = "back",
           NEW x \in DOMAIN CloseBack(w, c).connections
    PROVE  x \in DOMAIN w.connections \ {c} /\ HeldBy(CloseBack(w, c), x) = HeldBy(w, x)
<1> DEFINE v == CloseBack(w, c)
           r == w.connections[c].r
           s == w.connections[x].r
<1>1. v.connections = Without(w.connections, c) /\ v.requests = [w.requests EXCEPT ![r].uc = NULL]
  BY DEF CloseBack
<1>a. x \in DOMAIN v.connections
  OBVIOUS
<1> HIDE DEF v
<1>2. x \in DOMAIN w.connections \ {c} /\ v.connections[x] = w.connections[x]
  BY <1>1, <1>a DEF Without
<1>3. s \in DOMAIN w.requests /\ w.requests[s] \in Request
  BY <1>2 DEF Good, Held, Shape, Pairs, ConnPaired
<1>4. v.requests[s].resource_fd = w.requests[s].resource_fd
  BY <1>1, <1>3 DEF Request
<1> QED BY <1>2, <1>4, HeldSame DEF v

\* So does closing a client connection, with its upstream or without.
LEMMA CloseFrontKeeps ==
    ASSUME NEW w, Good(w), NEW c \in DOMAIN w.connections, w.connections[c].side = "front",
           NEW x \in DOMAIN CloseFront(w, c).connections
    PROVE  x \in DOMAIN w.connections \ {c} /\ HeldBy(CloseFront(w, c), x) = HeldBy(w, x)
<1> DEFINE r == w.connections[c].r
           v == CloseUpstream(w, r)
           u == CloseFront(w, c)
<1>1. u.connections = Without(v.connections, c) /\ u.requests = Without(v.requests, r)
  BY DEF CloseFront
<1>a. x \in DOMAIN u.connections
  OBVIOUS
<1>2. x \in DOMAIN v.connections \ {c} /\ u.connections[x] = v.connections[x]
  <2> HIDE DEF u, v
  <2> QED BY <1>1, <1>a DEF Without
<1>3. r \in DOMAIN w.requests /\ ReqPaired(w.connections, w.requests, r)
  BY DEF Good, Held, Pairs, ConnPaired
<1>4. /\ x \in DOMAIN w.connections /\ v.connections[x] = w.connections[x]
      /\ HeldBy(v, x) = HeldBy(w, x) /\ Good(v)
  <2>1. CASE w.requests[r].uc = NULL
    BY <1>2, <2>1 DEF CloseUpstream
  <2>2. CASE w.requests[r].uc # NULL
    <3> DEFINE b == w.requests[r].uc
    <3>1. b \in DOMAIN w.connections /\ w.connections[b].side = "back"
      BY <1>3, <2>2 DEF ReqPaired
    <3>2. v = CloseBack(w, b)
      BY <2>2 DEF CloseUpstream
    <3> HIDE DEF v
    <3>3. v.connections = Without(w.connections, b)
      BY <3>2 DEF CloseBack
    <3>4. x \in DOMAIN w.connections /\ v.connections[x] = w.connections[x]
      <4> HIDE DEF b, u
      <4> QED BY <1>2, <3>3 DEF Without
    <3>5. Good(v) /\ HeldBy(v, x) = HeldBy(w, x)
      BY <1>2, <3>1, <3>2, CloseBackGood, CloseBackKeeps
    <3> QED BY <3>4, <3>5
  <2> QED BY <2>1, <2>2
<1> HIDE DEF u, v
<1>5. CASE w.connections[x].side # "front"
  BY <1>2, <1>4, <1>5, HeldSame DEF u
<1>6. CASE w.connections[x].side = "front"
  <2>1. w.connections[x].r # r
    BY <1>2, <1>4, <1>6 DEF Good, Held, Pairs, ConnPaired, r
  <2>2. w.connections[x].r \in DOMAIN v.requests
    BY <1>2, <1>4 DEF Good, Held, Pairs, ConnPaired
  <2>3. u.requests[w.connections[x].r] = v.requests[w.connections[x].r]
    <3> DEFINE s == w.connections[x].r
    <3>1. s \in DOMAIN v.requests \ {r}
      BY <2>1, <2>2
    <3>2. u.requests = [y \in DOMAIN v.requests \ {r} |-> v.requests[y]]
      BY <1>1 DEF Without
    <3>3. u.requests[s] = v.requests[s]
      <4> HIDE DEF s, r
      <4> QED BY <3>1, <3>2
    <3> QED BY <3>3
  <2>4. HeldBy(u, x) = HeldBy(v, x)
    BY <1>2, <1>4, <2>3, HeldSame
  <2> QED BY <1>2, <1>4, <2>4 DEF u
<1> QED BY <1>5, <1>6

\* sy_close_connection leaves the others what they hold, on either side.
LEMMA CloseKeeps ==
    ASSUME NEW w, Good(w), NEW c \in DOMAIN w.connections,
           NEW x \in DOMAIN Close(w, c).connections
    PROVE  x \in DOMAIN w.connections \ {c} /\ HeldBy(Close(w, c), x) = HeldBy(w, x)
<1>1. w.connections[c].side \in {"front", "back"}
  BY DEF Good, Held, Shape, Connection
<1> QED BY <1>1, CloseFrontKeeps, CloseBackKeeps DEF Close

\* A connection out of the table was there before and holds what it held; if it has just
\* left the table, the table was full.
Stays(c) == /\ c \in DOMAIN worker.connections
            /\ HeldBy(worker', c) = HeldBy(worker, c)
            /\ c \in heap => Cardinality(heap) = MaxConnection

\* A connection c opened last leaves the others as they were, refused or not.
LEMMA EnteredStays ==
    ASSUME NEW w, Good(w), NEW c \in DOMAIN w.connections,
           DOMAIN w.connections = DOMAIN worker.connections \cup {c},
           \A x \in DOMAIN worker.connections : HeldBy(w, x) = HeldBy(worker, x),
           Entered(w, c) \/ Refused(w, c),
           NEW x \in DOMAIN worker'.connections \ heap'
    PROVE  Stays(x)
<1>1. CASE worker' = w
  <2>1. heap' = heap \cup {c} \/ worker' = Close(w, c)
    BY DEF Entered, Refused
  <2>2. x # c /\ (x \in heap => Cardinality(heap) = MaxConnection)
    BY <1>1, <2>1, CloseKeeps DEF Entered, Refused
  <2> QED BY <1>1, <2>2 DEF Stays
<1>2. CASE worker' = Close(w, c)
  <2>1. x \in DOMAIN w.connections \ {c} /\ HeldBy(worker', x) = HeldBy(w, x)
    BY <1>2, CloseKeeps
  <2>2. x \in heap => Cardinality(heap) = MaxConnection
    BY DEF Entered, Refused
  <2> QED BY <2>1, <2>2 DEF Stays
<1> QED BY <1>1, <1>2 DEF Entered, Refused

\* Accepting takes a connection out of a full table only.
LEMMA AcceptStays ==
    ASSUME Good(worker), Accept, NEW x \in DOMAIN worker'.connections \ heap'
    PROVE  Stays(x)
<1> DEFINE w == OpenFront(worker)
           c == C!Next(worker.connection_pool)
<1>1. CanOpen(worker) /\ (Entered(w, c) \/ Refused(w, c))
  BY DEF Accept
<1>2. Good(w) /\ c \in DOMAIN w.connections /\ DOMAIN w.connections = DOMAIN worker.connections \cup {c}
  BY <1>1, OpenFrontGood, OpenFrontIs
<1>3. \A y \in DOMAIN worker.connections : HeldBy(w, y) = HeldBy(worker, y)
  BY <1>1, OpenFrontKeeps
<1> HIDE DEF w, c
<1> QED BY <1>1, <1>2, <1>3, EnteredStays

\* A change of the request r leaves the connections of other requests what they hold.
LEMMA WithStays ==
    ASSUME NEW now, NEW r, NEW y, worker' = With(worker, now, r, y), heap' = heap, ~Astray(r),
           NEW x \in DOMAIN worker'.connections \ heap'
    PROVE  Stays(x)
<1>1. worker'.connections = worker.connections /\ worker'.requests = [worker.requests EXCEPT ![r] = y]
  BY DEF With
<1>2. x \in Adrift
  BY <1>1 DEF Adrift
<1>3. worker.connections[x].r # r
  BY <1>2 DEF Astray
<1>4. worker'.requests[worker.connections[x].r] = worker.requests[worker.connections[x].r]
  BY <1>1, <1>3
<1>5. HeldBy(worker', x) = HeldBy(worker, x)
  BY <1>1, <1>4 DEF HeldBy
<1> QED BY <1>1, <1>5 DEF Stays

\* A location with pass takes a connection out of a full table only.
LEMMA PassStays ==
    ASSUME Good(worker), NEW r \in DOMAIN worker.requests, Pass(r),
           NEW x \in DOMAIN worker'.connections \ heap'
    PROVE  Stays(x)
<1> DEFINE w == Begun(worker, r)
           v == OpenBack(w, r)
           c == C!Next(w.connection_pool)
           y == [worker.requests[r] EXCEPT !.stage = "begun"]
<1>1. /\ Good(w) /\ r \in DOMAIN w.requests /\ w.requests[r].uc = NULL
      /\ w.requests[r].stage = "begun" /\ w.open = worker.open
  BY BegunGood DEF Pass
<1>2. /\ w.connections = worker.connections /\ w = With(worker, worker.open, r, y)
      /\ y.resource_fd = worker.requests[r].resource_fd
  BY BegunIs
<1>3. ~Astray(r)
  BY DEF Pass
<1>4. \/ worker' = w /\ heap' = heap
      \/ CanOpen(w) /\ worker' = Opened(w) /\ heap' = heap
      \/ CanOpen(w) /\ (Entered(v, c) \/ Refused(v, c))
  BY DEF Pass
<1> HIDE DEF y
<1>5. CASE worker' = w /\ heap' = heap
  BY <1>2, <1>3, <1>5, WithStays
<1>6. CASE CanOpen(w) /\ worker' = Opened(w) /\ heap' = heap
  <2>1. Opened(w) = With(worker, Opened(w).open, r, y)
    BY <1>2 DEF Opened, With
  <2> QED BY <1>3, <1>6, <2>1, WithStays
<1>7. CASE CanOpen(w) /\ (Entered(v, c) \/ Refused(v, c))
  <2>1. Good(v) /\ c \in DOMAIN v.connections
    BY <1>1, <1>7, OpenBackGood
  <2>2. DOMAIN v.connections = DOMAIN w.connections \cup {c}
    BY <1>1, OpenBackIs
  <2>3. ASSUME NEW z \in DOMAIN worker.connections PROVE HeldBy(v, z) = HeldBy(worker, z)
    <3>1. HeldBy(v, z) = HeldBy(w, z)
      BY <1>1, <1>2, OpenBackKeeps
    <3>2. w.requests = [worker.requests EXCEPT ![r] = y]
      BY <1>2 DEF With
    <3>3. worker.connections[z].r \in DOMAIN worker.requests
      BY DEF Good, Held, Pairs, ConnPaired
    <3> HIDE DEF w, v
    <3>4. w.requests[worker.connections[z].r].resource_fd
             = worker.requests[worker.connections[z].r].resource_fd
      BY <1>2, <3>2, <3>3
    <3> QED BY <1>2, <3>1, <3>4, HeldSame
  <2> HIDE DEF v, w, c
  <2> QED BY <1>2, <1>7, <2>1, <2>2, <2>3, EnteredStays
<1> QED BY <1>4, <1>5, <1>6, <1>7

\* No other step takes a connection out of the table and leaves it open.
LEMMA OthersStay ==
    ASSUME Good(worker), InTable, NEW x \in DOMAIN worker'.connections \ heap',
           \/ \E r \in DOMAIN worker.requests : Open(r) \/ Respond(r)
           \/ \E c \in heap : Sweep(c)
           \/ Stray
    PROVE  Stays(x)
<1>1. ASSUME NEW r \in DOMAIN worker.requests, Open(r) PROVE Stays(x)
  <2> DEFINE w == Begun(worker, r)
             y == [worker.requests[r] EXCEPT !.stage = "begun"]
  <2>1. heap' = heap /\ ~Astray(r)
    BY <1>1 DEF Open
  <2>2. w = With(worker, worker.open, r, y)
    BY BegunIs
  <2>3. \/ worker' = w
        \/ \E fd \in (1 .. MaxFd) \ w.open :
              worker' = With(w, w.open \cup {fd}, r, [w.requests[r] EXCEPT !.resource_fd = fd])
    BY <1>1, OpenIs
  <2> HIDE DEF w, y
  <2>4. \E now, z : worker' = With(worker, now, r, z)
    BY <2>2, <2>3 DEF With
  <2> QED BY <2>1, <2>4, WithStays
<1>2. ASSUME NEW r \in DOMAIN worker.requests, Respond(r) PROVE Stays(x)
  <2>1. heap' = heap /\ ~Astray(r)
    BY <1>2 DEF Respond
  <2>2. \E now, z : worker' = With(worker, now, r, z)
    BY <1>2, RespondIs
  <2> QED BY <2>1, <2>2, WithStays
<1>3. ASSUME NEW c \in heap, Sweep(c) PROVE Stays(x)
  <2>1. x \in DOMAIN worker.connections /\ HeldBy(worker', x) = HeldBy(worker, x)
    BY <1>3, CloseKeeps DEF Sweep, InTable
  <2>2. x \notin heap
    BY <1>3 DEF Sweep
  <2> QED BY <2>1, <2>2 DEF Stays
<1>4. CASE Stray
  BY <1>4 DEF Stray, Stays, HeldBy
<1> QED BY <1>1, <1>2, <1>3, <1>4

\* What a connection that stays holds out of the table is not new there, or it has just
\* been dropped.
LEMMA StaysHeld ==
    ASSUME Good(worker), Good(worker'), NEW x \in DOMAIN worker'.connections \ heap', Stays(x),
           NEW d \in worker'.open, d \in HeldBy(worker', x)
    PROVE  d \in Unswept(worker, heap) \/ Dropped(d)
<1>1. d \in HeldBy(worker, x) /\ x \in DOMAIN worker.connections
  BY DEF Stays
<1>2. d # -1
  BY SizeAssumption DEF Good, Held, Shape
<1>3. d \in worker.open
  <2>1. worker.connections[x].r \in DOMAIN worker.requests /\ worker.connections[x].fd \in worker.open
    BY <1>1 DEF Good, Held, Pairs, ConnPaired, Numbers
  <2>2. \A r \in DOMAIN worker.requests :
           worker.requests[r].resource_fd # -1 => worker.requests[r].resource_fd \in worker.open
    BY DEF Good, Held, Numbers
  <2> QED BY <1>1, <1>2, <2>1, <2>2 DEF HeldBy
<1>4. CASE x \in heap
  BY <1>1, <1>4 DEF Stays, Dropped, Connections
<1>5. CASE x \notin heap
  BY <1>1, <1>3, <1>5 DEF Unswept, Connections
<1> QED BY <1>4, <1>5

\* A descriptor is left open for good by three steps only: by a request whose upstream
\* could not be reached (connection.c:46-49), by a client connection that closes with a
\* file half sent (connection.c:80), and by a full table that refuses a connection
\* (connection.c:22-25, 57-60, 172), whose close puts another out of the table.
THEOREM LeaksAreThree == Spec => NoOtherLeak
<1> DEFINE Only == /\ \A d \in Lost(worker') : d \in Lost(worker) \/ Unreached(d) \/ HalfSent(d)
                   /\ \A d \in Unswept(worker', heap') : d \in Unswept(worker, heap) \/ Dropped(d)
<1>1. ASSUME Good(worker), InTable, Next, NEW d \in Lost(worker')
      PROVE  d \in Lost(worker) \/ Unreached(d) \/ HalfSent(d)
  <2>1. ASSUME NEW c \in heap, Sweep(c)
        PROVE  d \in Lost(worker) \/ HalfSent(d)
    <3>1. c \in DOMAIN worker.connections /\ worker.connections[c].side \in {"front", "back"}
      BY <1>1 DEF Good, Held, Shape, Connection, InTable
    <3> QED BY <1>1, <2>1, <3>1, CloseBackLost, CloseFrontLost DEF Sweep, Close, HalfSent, Requests
  <2>2. CASE Stray
    BY <1>1, <2>2 DEF Stray
  <2> QED BY <1>1, <2>1, <2>2, AcceptLost, PassLost, OpenLost, RespondLost DEF Next
<1>2. ASSUME Good(worker), InTable, Next, NEW d \in Unswept(worker', heap')
      PROVE  d \in Unswept(worker, heap) \/ Dropped(d)
  <2>1. Good(worker')
    BY <1>2, ResourcesNext
  <2>2. PICK x \in DOMAIN worker'.connections \ heap' : d \in worker'.open /\ d \in HeldBy(worker', x)
    BY <1>2 DEF Unswept, Connections
  <2>3. Stays(x)
    BY <1>2, AcceptStays, PassStays, OthersStay DEF Next
  <2> QED BY <1>2, <2>1, <2>2, <2>3, StaysHeld
<1>3. Good(worker) /\ InTable /\ [Next]_vars => [Only]_vars
  BY <1>1, <1>2
<1> QED BY <1>3, ResourcesAlways, PTL DEF Spec, NoOtherLeak

-------------------------------------------------------------------------------

\* Every connection has an open descriptor of its own, so there are no more of them.
LEMMA NoMoreThanOpen ==
    ASSUME NEW w, Good(w), CanOpen(w)
    PROVE  Cardinality(DOMAIN w.connections) < MaxFd
<1> DEFINE S == DOMAIN w.connections
           f == [c \in S |-> w.connections[c].fd]
<1>1. IsFiniteSet(1 .. MaxFd) /\ Cardinality(1 .. MaxFd) = MaxFd
  BY SizeAssumption, FS_Interval
<1>2. w.open \subseteq 1 .. MaxFd /\ w.open # 1 .. MaxFd
  BY DEF Good, Held, Shape, CanOpen
<1>3. IsFiniteSet(w.open) /\ Cardinality(w.open) \in Nat /\ Cardinality(w.open) < MaxFd
  BY <1>1, <1>2, FS_Subset, FS_CardinalityType
<1>4. f \in [S -> w.open] /\ \A a, b \in S : f[a] = f[b] => a = b
  BY DEF Good, Held, Numbers
<1>5. IsFiniteSet(S) /\ Cardinality(S) \in Nat
  BY FS_CardinalityType DEF Good, ConnsPooled
<1> HIDE DEF S, f
<1>6. f \in Injection(S, w.open)
  BY <1>4 DEF Injection, IsInjective
<1>7. Cardinality(S) <= Cardinality(w.open)
  <2> DEFINE O == w.open
  <2>1. IsFiniteSet(O) /\ f \in Injection(S, O)
    BY <1>3, <1>6
  <2> HIDE DEF O
  <2>2. Cardinality(S) <= Cardinality(O)
    BY <2>1, FS_Injection
  <2> QED BY <2>2 DEF O
<1> QED BY <1>3, <1>5, <1>7, SizeAssumption DEF S

\* With room in the table for as many connections as there can be descriptors, no
\* connection is ever adrift and the sweep finds each of them; the code sets the limits
\* the other way round (server.c:86, connection.c:3).
THEOREM RoomForAll == MaxFd <= MaxConnection => (Spec => []NoneAdrift)
<1> SUFFICES ASSUME MaxFd <= MaxConnection PROVE Spec => []NoneAdrift
  OBVIOUS
<1>1. Init => NoneAdrift
  BY DEF Init, NoneAdrift, Connections
<1>2. ASSUME Good(worker), InTable, NoneAdrift, [Next]_vars PROVE NoneAdrift'
  <2>1. ASSUME NEW w, Good(w), NEW c, c \notin DOMAIN worker.connections,
               Cardinality(DOMAIN worker.connections) < MaxFd,
               DOMAIN w.connections = DOMAIN worker.connections \cup {c},
               w.connections[c].side = "front" => w.requests[w.connections[c].r].uc = NULL,
               Entered(w, c) \/ Refused(w, c)
        PROVE  NoneAdrift'
    <3>1. Cardinality(heap) \in Nat /\ MaxConnection \in Nat /\ MaxFd \in Nat
      BY <1>2, SizeAssumption, FS_CardinalityType DEF NoneAdrift, Connections, Good, ConnsPooled
    <3>2. Cardinality(heap) # MaxConnection
      BY <1>2, <2>1, <3>1 DEF NoneAdrift, Connections
    <3>3. DOMAIN Close(w, c).connections = DOMAIN w.connections \ {c}
      BY <2>1, CloseAlone
    <3> QED BY <1>2, <2>1, <3>2, <3>3 DEF Entered, Refused, NoneAdrift, Connections
  <2>2. CASE Accept
    <3> DEFINE w == OpenFront(worker)
               c == C!Next(worker.connection_pool)
    <3>1. CanOpen(worker) /\ (Entered(w, c) \/ Refused(w, c))
      BY <2>2 DEF Accept
    <3>2. Good(w) /\ c \notin DOMAIN worker.connections
          /\ DOMAIN w.connections = DOMAIN worker.connections \cup {c}
          /\ w.requests[w.connections[c].r].uc = NULL
      BY <1>2, <3>1, OpenFrontGood, OpenFrontIs
    <3>3. Cardinality(DOMAIN worker.connections) < MaxFd
      BY <1>2, <3>1, NoMoreThanOpen
    <3> HIDE DEF w, c
    <3> QED BY <2>1, <3>1, <3>2, <3>3
  <2>3. ASSUME NEW r \in DOMAIN worker.requests, Pass(r) PROVE NoneAdrift'
    <3> DEFINE w == Begun(worker, r)
               v == OpenBack(w, r)
               c == C!Next(w.connection_pool)
    <3>1. \/ worker' = w /\ heap' = heap /\ broken' = broken
          \/ worker' = Opened(w) /\ heap' = heap /\ broken' = broken
          \/ CanOpen(w) /\ (Entered(v, c) \/ Refused(v, c))
      BY <2>3 DEF Pass
    <3>2. /\ Good(w) /\ w.connections = worker.connections /\ r \in DOMAIN w.requests
          /\ w.requests[r].uc = NULL /\ w.requests[r].stage # "line"
      BY <1>2, <2>3, BegunIs, BegunGood DEF Pass
    <3>3. Opened(w).connections = w.connections
      BY <3>2 DEF Opened, Good
    <3>4. CASE worker'.connections = w.connections /\ heap' = heap /\ broken' = broken
      BY <1>2, <3>2, <3>4 DEF NoneAdrift, Connections
    <3>5. CASE CanOpen(w) /\ (Entered(v, c) \/ Refused(v, c))
      <4>1. Good(v) /\ v.connections[c].side = "back"
        BY <3>2, <3>5, OpenBackGood
      <4>2. c \notin DOMAIN w.connections /\ DOMAIN v.connections = DOMAIN w.connections \cup {c}
        BY <3>2, OpenBackIs
      <4>3. Cardinality(DOMAIN w.connections) < MaxFd
        BY <3>2, <3>5, NoMoreThanOpen
      <4> HIDE DEF v, w, c
      <4> QED BY <2>1, <3>2, <3>5, <4>1, <4>2, <4>3
    <3> QED BY <3>1, <3>3, <3>4, <3>5
  <2>4. ASSUME NEW r \in DOMAIN worker.requests, Open(r) PROVE NoneAdrift'
    <3>1. heap' = heap /\ broken' = broken
      BY <2>4 DEF Open
    <3> QED BY <1>2, <2>4, <3>1, OpenSame DEF NoneAdrift, Connections
  <2>5. ASSUME NEW r \in DOMAIN worker.requests, Respond(r) PROVE NoneAdrift'
    <3>1. heap' = heap /\ broken' = broken
      BY <2>5 DEF Respond
    <3> QED BY <1>2, <2>5, <3>1, RespondSame DEF NoneAdrift, Connections
  <2>6. ASSUME NEW c \in heap, Sweep(c) PROVE NoneAdrift'
    <3>1. c \in DOMAIN worker.connections
      BY <1>2 DEF InTable
    <3>2. DOMAIN worker'.connections \subseteq DOMAIN worker.connections
      BY <1>2, <2>6, <3>1, CloseKeeps DEF Sweep
    <3> QED BY <1>2, <2>6, <3>2 DEF Sweep, NoneAdrift, Connections
  <2>7. CASE Stray
    BY <1>2, <2>7 DEF Stray, Adrift, NoneAdrift, Connections
  <2>8. CASE UNCHANGED vars
    BY <1>2, <2>8 DEF vars, NoneAdrift, Connections
  <2> QED BY <1>2, <2>2, <2>3, <2>4, <2>5, <2>6, <2>7, <2>8 DEF Next
<1>3. Good(worker) /\ InTable /\ NoneAdrift /\ [Next]_vars => NoneAdrift'
  BY <1>2
<1> QED BY <1>1, <1>3, ResourcesAlways, PTL DEF Spec

================================================================================
