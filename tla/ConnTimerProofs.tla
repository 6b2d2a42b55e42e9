--------------------------- MODULE ConnTimerProofs ---------------------------
(***************************************************************************)
(* Proofs about ConnTimer: its type invariant; and that, as long as no     *)
(* registration is refused, the heap holds exactly the live connections,   *)
(* each where its heap_idx says, and requests and upstream connections     *)
(* name each other.                                                        *)
(***************************************************************************)
EXTENDS ConnTimer, TLAPS

-------------------------------------------------------------------------------
(* The inductive invariants.                                               *)

\* heap_idx points at a cell that was written, or the connection is still on its
\* way into the heap.
Placed(c) == \/ heap_idx[c] \in Index /\ connections[heap_idx[c]] \in Conn
             \/ pc = "up" /\ c = cur

\* The array fills from the bottom and no cell is ever emptied.
HeapFilled ==
    /\ \A i \in Index : \A j \in 1 .. i :
          connections[i] \in Conn => connections[j] \in Conn
    /\ heap_size > 0 => connections[heap_size] \in Conn
    /\ pc # "ready" => cur \in Conn /\ connections[k] \in Conn

\* What the code follows is never NULL.
RefsPlaced ==
    /\ \A c \in live : Placed(c)
    /\ \A f \in Front : uc[f] # NULL => Placed(uc[f])
    /\ then.op # "none" => then.conn \in Conn /\ Placed(then.conn)
    /\ then.op = "none" => then = Nothing
    /\ phase = "handler" => ev \in Conn /\ Placed(ev)
    /\ \A i \in Index : connections[i] \in Conn => Placed(connections[i])
    /\ pc # "ready" => Placed(cur)

\* Inductive even after a refused registration.
TypeInv == Types /\ HeapFilled /\ RefsPlaced

-------------------------------------------------------------------------------
(* Arithmetic of the heap positions.                                       *)

\* The parent of a position of the array is in the array, below it.
LEMMA ParentBelow ==
    ASSUME NEW i \in Nat
    PROVE  /\ P(i) \in Nat
           /\ P(i) <= i
           /\ P(i) > 0 => P(i) < i
           /\ i = L(P(i)) \/ i = R(P(i))
  BY SMT DEF P, L, R

\* So is a child that the sift loop looks at.
LEMMA KidInHeap ==
    ASSUME NEW i \in Nat
    PROVE  L(i) \in Nat /\ R(i) \in Nat
  BY SMT DEF L, R

-------------------------------------------------------------------------------
(* Type correctness.                                                       *)

LEMMA TypeInit == Init => TypeInv
<1> SUFFICES ASSUME Init PROVE TypeInv
  OBVIOUS
<1>1. Types
  <2>a. 0 \in Index
    BY SizeAssumption DEF Index
  <2>b. FreshIdx \subseteq Int
    BY IdxAssumption
  <2>1. heap_idx \in [Conn -> Int] /\ heap_size \in Index /\ k \in Index
    BY <2>a, <2>b DEF Init
  <2>2. active_time \in [Conn -> Int] /\ now \in Nat
    BY ClockAssumption DEF Init
  <2>3. then \in [op : {"none", "activate", "expire", "close"},
                  conn : Conn \cup {NULL}]
    BY DEF Init, Nothing
  <2> QED
    BY <2>1, <2>2, <2>3 DEF Init, Types
<1>2. \A i \in Index : connections[i] \notin Conn
  BY SlotAssumption DEF Init, Conn
<1> QED
  BY <1>1, <1>2 DEF Init, TypeInv, HeapFilled, RefsPlaced, Nothing

\* One iteration of a sift loop that pulls a connection over the hole.
LEMMA PullType ==
    ASSUME TypeInv, pc # "ready", NEW i \in Index, connections[i] \in Conn,
           Pull(i), Sifting
    PROVE  TypeInv'
<1> USE DEF Pull, Sifting
<1>1. k \in Index /\ cur \in Conn /\ connections[k] \in Conn
  BY DEF TypeInv, HeapFilled, Types
<1>a. Index \subseteq Int
  BY SizeAssumption DEF Index
<1>2. Types'
  BY <1>1, <1>a DEF TypeInv, Types
<1>3. \A j \in Index : connections'[j] \in Conn <=> connections[j] \in Conn
  BY <1>1 DEF TypeInv, Types
<1>4. \A c \in Conn : Placed(c) => Placed(c)'
  <2> SUFFICES ASSUME NEW c \in Conn, Placed(c) PROVE Placed(c)'
    OBVIOUS
  <2>1. heap_idx'[c] = IF c = connections[i] THEN k ELSE heap_idx[c]
    BY DEF TypeInv, Types
  <2> QED
    BY <1>1, <1>3, <2>1 DEF Placed
<1>5. HeapFilled'
  BY <1>1, <1>3 DEF TypeInv, HeapFilled, Types, Index
<1>6. RefsPlaced'
  <2>1. /\ \A j \in Index : connections'[j] \in Conn => Placed(connections[j])'
        /\ pc' # "ready" => Placed(cur)'
    BY <1>1, <1>4 DEF TypeInv, RefsPlaced, Types
  <2> QED
    BY <1>4, <2>1 DEF TypeInv, RefsPlaced, Types, Conn
<1> QED
  BY <1>2, <1>5, <1>6 DEF TypeInv

\* The end of a sift loop.
LEMMA PlaceType ==
    ASSUME TypeInv, pc # "ready", Place, Sifting
    PROVE  TypeInv'
<1> USE DEF Place, Sifting
<1>1. k \in Index /\ cur \in Conn /\ connections[k] \in Conn
  BY DEF TypeInv, HeapFilled, Types
<1>2. Types'
  BY <1>1, SizeAssumption DEF TypeInv, Types, Index
<1>3. \A j \in Index : connections'[j] \in Conn <=> connections[j] \in Conn
  BY <1>1 DEF TypeInv, Types
<1>4. \A c \in Conn : Placed(c) => Placed(c)'
  <2> SUFFICES ASSUME NEW c \in Conn, Placed(c) PROVE Placed(c)'
    OBVIOUS
  <2>1. heap_idx'[c] = IF c = cur THEN k ELSE heap_idx[c]
    BY DEF TypeInv, Types
  <2> QED
    BY <1>1, <1>3, <2>1 DEF Placed
<1>5. HeapFilled'
  BY <1>1, <1>3 DEF TypeInv, HeapFilled, Types, Index
<1>6. RefsPlaced'
  <2>1. /\ \A j \in Index : connections'[j] \in Conn => Placed(connections[j])'
        /\ pc' # "ready" => Placed(cur)'
    BY <1>1, <1>4 DEF TypeInv, RefsPlaced, Types
  <2> QED
    BY <1>4, <2>1 DEF TypeInv, RefsPlaced, Types, Conn
<1> QED
  BY <1>2, <1>5, <1>6 DEF TypeInv

\* sy_connection_unregister, also when heap_idx is not the position of c.
LEMMA UnregisterType ==
    ASSUME TypeInv, pc = "ready", NEW c \in Conn, Unregister(c),
           heap_idx[c] \in Index,
           connections[heap_idx[c]] \in Conn \/ heap_idx[c] = 0
    PROVE  /\ connections' \in [Index -> Conn \cup {NULL}]
           /\ heap_idx' \in [Conn -> Int]
           /\ heap_size' \in Index
           /\ pc' \in {"ready", "down"} /\ k' \in Index /\ cur' \in Conn \cup {NULL}
           /\ HeapFilled'
           /\ \A d \in Conn : Placed(d) => Placed(d)'
           /\ \A j \in Index : connections'[j] \in Conn => Placed(connections[j])'
           /\ pc' # "ready" => Placed(cur)'
<1> DEFINE i == heap_idx[c]
           last == connections[heap_size]
<1>1. /\ i \in Index /\ (connections[i] \in Conn \/ i = 0)
      /\ last \in Conn
      /\ heap_size \in 1 .. MaxConnection
  BY DEF TypeInv, Types, HeapFilled, Unregister, Index
<1>2. /\ connections' = [connections EXCEPT ![i] = last]
      /\ heap_idx' = [heap_idx EXCEPT ![last] = i]
      /\ heap_size' = heap_size - 1
  BY DEF Unregister
<1>3. heap_idx'[c] = i /\ connections'[i] = last
  BY <1>1, <1>2 DEF TypeInv, Types
<1>4. \/ pc' = "down" /\ k' = i /\ cur' = last
      \/ UNCHANGED <<pc, k, cur>>
  BY <1>3 DEF Unregister, ShiftDownFrom
<1>5. \A j \in Index :
         /\ connections[j] \in Conn => connections'[j] \in Conn
         /\ connections'[j] \in Conn => connections[j] \in Conn \/ j = 0
  BY <1>1, <1>2 DEF TypeInv, Types
<1>6. /\ connections' \in [Index -> Conn \cup {NULL}]
      /\ heap_idx' \in [Conn -> Int]
      /\ heap_size' \in Index
  <2>1. heap_size' \in Index
    BY <1>1, <1>2, SizeAssumption DEF Index
  <2> QED
    BY <1>1, <1>2, <2>1 DEF TypeInv, Types
<1>7. pc' \in {"ready", "down"} /\ k' \in Index /\ cur' \in Conn \cup {NULL}
  BY <1>1, <1>4 DEF TypeInv, Types
<1>8. HeapFilled'
  <2>1. heap_size' > 0 => connections'[heap_size'] \in Conn
    BY <1>1, <1>2, <1>5 DEF TypeInv, HeapFilled, Index
  <2>2. pc' # "ready" => cur' \in Conn /\ connections'[k'] \in Conn
    BY <1>1, <1>3, <1>4
  <2>3. \A m \in Index : \A j \in 1 .. m : m # 0 /\ j \in Index
    BY SizeAssumption DEF Index
  <2> QED
    BY <1>5, <2>1, <2>2, <2>3 DEF TypeInv, HeapFilled
<1>9. \A d \in Conn : Placed(d) => Placed(d)'
  <2> SUFFICES ASSUME NEW d \in Conn, Placed(d) PROVE Placed(d)'
    OBVIOUS
  <2>1. heap_idx'[d] = IF d = last THEN i ELSE heap_idx[d]
    BY <1>2 DEF TypeInv, Types
  <2>2. heap_idx[d] \in Index /\ connections[heap_idx[d]] \in Conn
    BY DEF Placed
  <2> QED
    BY <1>1, <1>3, <1>5, <2>1, <2>2 DEF Placed
<1>10. \A j \in Index : connections'[j] \in Conn => Placed(connections[j])'
  BY <1>1, <1>2, <1>9 DEF TypeInv, Types, RefsPlaced, HeapFilled, Index
<1>11. pc' # "ready" => Placed(cur)'
  BY <1>1, <1>3, <1>4, <1>10
<1> QED
  BY <1>6, <1>7, <1>8, <1>9, <1>10, <1>11

\* sy_close_connection.
LEMMA CloseType ==
    ASSUME TypeInv, pc = "ready", NEW c \in Conn, Placed(c), Close(c),
           UNCHANGED <<now, batch, phase, ev, refused>>
    PROVE  TypeInv'
<1>1. heap_idx[c] \in Index /\ connections[heap_idx[c]] \in Conn
  BY DEF Placed
<1>2. /\ connections' \in [Index -> Conn \cup {NULL}]
      /\ heap_idx' \in [Conn -> Int]
      /\ heap_size' \in Index
      /\ pc' \in {"ready", "down"} /\ k' \in Index /\ cur' \in Conn \cup {NULL}
      /\ HeapFilled'
      /\ \A d \in Conn : Placed(d) => Placed(d)'
      /\ \A j \in Index : connections'[j] \in Conn => Placed(connections[j])'
      /\ pc' # "ready" => Placed(cur)'
  BY <1>1, UnregisterType DEF Close
<1>3. /\ live' = live \ {c}
      /\ active_time' = active_time
  BY DEF Close
<1>4. /\ uc' \in [Front -> Back \cup {NULL}]
      /\ owner' \in [Back -> Front \cup {NULL}]
      /\ \A f \in Front : uc'[f] # NULL => uc[f] # NULL /\ uc'[f] = uc[f]
  <2>1. CASE c \in Front
    BY <2>1 DEF Close, TypeInv, Types
  <2>2. CASE c \notin Front
    BY <2>2 DEF Close, TypeInv, Types, Conn
  <2> QED
    BY <2>1, <2>2
<1>5. \/ then' = Nothing
      \/ c \in Front /\ uc[c] # NULL /\ then' = Call("close", uc[c])
  BY DEF Close
<1>6. Types'
  <2>1. then' \in [op : {"none", "activate", "expire", "close"},
                   conn : Conn \cup {NULL}]
    BY <1>5 DEF TypeInv, Types, Nothing, Call, Conn
  <2> QED
    BY <1>2, <1>3, <1>4, <2>1 DEF TypeInv, Types
<1>7. RefsPlaced'
  <2>1. \A f \in Front : uc[f] # NULL => uc[f] \in Conn /\ Placed(uc[f])
    BY DEF TypeInv, Types, RefsPlaced, Conn
  <2>2. then'.op # "none" => then'.conn \in Conn /\ Placed(then.conn)'
    BY <1>2, <1>5, <2>1 DEF Nothing, Call
  <2>3. then'.op = "none" => then' = Nothing
    BY <1>5 DEF Nothing, Call
  <2>4. \A d \in live' : Placed(d)'
    BY <1>2, <1>3 DEF TypeInv, Types, RefsPlaced
  <2>5. \A f \in Front : uc'[f] # NULL => Placed(uc[f])'
    BY <1>2, <1>4, <2>1
  <2>6. phase' = "handler" => ev' \in Conn /\ Placed(ev)'
    BY <1>2 DEF TypeInv, RefsPlaced
  <2> QED
    BY <1>2, <2>2, <2>3, <2>4, <2>5, <2>6 DEF RefsPlaced
<1> QED
  BY <1>2, <1>6, <1>7 DEF TypeInv

\* sy_open_connection and sy_uwsgi_open_connection.
LEMMA OpenType ==
    ASSUME TypeInv, NEW c \in Conn, NEW watched \in BOOLEAN, Open(c, watched)
    PROVE  TypeInv'
<1>1. /\ pc = "ready" /\ then = Nothing
      /\ heap_size + 1 \in Index
  BY SizeAssumption DEF Open, MayOpen, Ready, TypeInv, Types, Index
<1>2. /\ connections' = [connections EXCEPT ![heap_size + 1] = c]
      /\ active_time' = [active_time EXCEPT ![c] = now]
      /\ heap_size' = heap_size + 1
      /\ pc' = "up" /\ k' = heap_size + 1 /\ cur' = c
      /\ live' = live \cup {c}
      /\ UNCHANGED <<heap_idx, now, batch, phase, ev, refused>>
  BY DEF Open, ShiftUpFrom
<1>3. /\ uc' \in [Front -> Back \cup {NULL}]
      /\ owner' \in [Back -> Front \cup {NULL}]
      /\ \A f \in Front : uc'[f] # NULL => uc'[f] \in {uc[f], c}
  <2>1. CASE c \in Front
    BY <2>1 DEF Open, Attach, TypeInv, Types
  <2>2. CASE c \notin Front
    <3>1. c \in Back /\ ev \in Front
      BY <2>2 DEF Open, MayOpen, Conn
    <3> QED
      BY <2>2, <3>1 DEF Open, Attach, TypeInv, Types
  <2> QED
    BY <2>1, <2>2
<1>4. then' \in {Nothing, Call("close", c)}
  BY DEF Open
<1>5. Types'
  <2>1. then' \in [op : {"none", "activate", "expire", "close"},
                   conn : Conn \cup {NULL}]
    BY <1>4 DEF Nothing, Call
  <2>2. active_time' \in [Conn -> Int]
    BY <1>2 DEF TypeInv, Types
  <2> QED
    BY <1>1, <1>2, <1>3, <2>1, <2>2 DEF TypeInv, Types
<1>6. \A j \in Index :
         /\ connections[j] \in Conn => connections'[j] \in Conn
         /\ connections'[j] \in Conn => connections[j] \in Conn \/ j = heap_size + 1
  BY <1>2 DEF TypeInv, Types
<1>7. HeapFilled'
  <2>1. \A j \in 1 .. heap_size : j \in Index /\ connections[j] \in Conn
    <3>1. heap_size \in Nat /\ heap_size <= MaxConnection
      BY SizeAssumption DEF TypeInv, Types, Index
    <3>2. \A j \in 1 .. heap_size : j \in Index /\ heap_size > 0
      BY <3>1, SizeAssumption DEF Index
    <3> QED
      BY <3>2 DEF TypeInv, Types, HeapFilled
  <2>2. connections'[heap_size + 1] \in Conn
    BY <1>1, <1>2 DEF TypeInv, Types
  <2>3. \A m \in Index : \A j \in 1 .. m :
            connections'[m] \in Conn => connections'[j] \in Conn
    <3> SUFFICES ASSUME NEW m \in Index, NEW j \in 1 .. m, connections'[m] \in Conn
                 PROVE  connections'[j] \in Conn
      OBVIOUS
    <3>1. j \in Index
      BY SizeAssumption DEF Index
    <3>2. CASE connections[m] \in Conn
      BY <1>6, <3>1, <3>2 DEF TypeInv, HeapFilled
    <3>3. CASE m = heap_size + 1
      <4>1. heap_size \in Nat
        BY <1>1 DEF TypeInv, Types, Index
      <4>2. j = heap_size + 1 \/ j \in 1 .. heap_size
        BY <3>3, <4>1
      <4> QED
        BY <1>6, <2>1, <2>2, <4>2
    <3> QED
      BY <1>6, <3>2, <3>3
  <2> QED
    BY <1>2, <2>2, <2>3 DEF HeapFilled
<1>8. Placed(c)'
  BY <1>2 DEF Placed
<1>9. \A d \in Conn : Placed(d) => Placed(d)'
  BY <1>1, <1>2, <1>6 DEF Placed, TypeInv, Types
<1>10. RefsPlaced'
  <2>1. \A f \in Front : uc[f] # NULL => uc[f] \in Conn /\ Placed(uc[f])
    BY DEF TypeInv, Types, RefsPlaced, Conn
  <2>2. then'.op # "none" => then'.conn \in Conn /\ Placed(then.conn)'
    BY <1>4, <1>8 DEF Nothing, Call
  <2>3. then'.op = "none" => then' = Nothing
    BY <1>4 DEF Nothing, Call
  <2>4. \A d \in live' : Placed(d)'
    BY <1>2, <1>8, <1>9 DEF TypeInv, Types, RefsPlaced
  <2>5. \A f \in Front : uc'[f] # NULL => Placed(uc[f])'
    BY <1>3, <1>8, <1>9, <2>1
  <2>6. phase' = "handler" => ev' \in Conn /\ Placed(ev)'
    BY <1>2, <1>9 DEF TypeInv, RefsPlaced
  <2>7. \A j \in Index : connections'[j] \in Conn => Placed(connections[j])'
    BY <1>1, <1>2, <1>6, <1>8, <1>9 DEF TypeInv, Types, RefsPlaced
  <2> QED
    BY <1>2, <1>8, <2>2, <2>3, <2>4, <2>5, <2>6, <2>7 DEF RefsPlaced
<1> QED
  BY <1>5, <1>7, <1>10 DEF TypeInv

\* The close that follows a refused registration.
LEMMA OpenRefusedType ==
    ASSUME TypeInv, NEW c \in Conn, OpenRefused(c)
    PROVE  TypeInv'
<1>1. pc = "ready" /\ then = Nothing
  BY DEF OpenRefused, MayOpen, Ready
<1>3. active_time' \in [Conn -> Int]
  BY DEF OpenRefused, TypeInv, Types
<1>b. CASE heap_idx[c] \notin Index
  BY <1>3, <1>b DEF OpenRefused, TypeInv, Types, HeapFilled, RefsPlaced, Placed, heapVars
<1>c. SUFFICES ASSUME heap_idx[c] \in Index PROVE TypeInv'
  BY <1>b
<1>a. connections[heap_idx[c]] \in Conn \/ heap_idx[c] = 0
  <2>1. heap_size = MaxConnection /\ MaxConnection \in Index
    BY SizeAssumption DEF OpenRefused, TypeInv, Types, Index
  <2>2. heap_idx[c] \in 1 .. MaxConnection \/ heap_idx[c] = 0
    BY <1>c, SizeAssumption DEF Index
  <2> QED
    BY <2>1, <2>2, SizeAssumption DEF TypeInv, HeapFilled
<1>2. /\ connections' \in [Index -> Conn \cup {NULL}]
      /\ heap_idx' \in [Conn -> Int]
      /\ heap_size' \in Index
      /\ pc' \in {"ready", "down"} /\ k' \in Index /\ cur' \in Conn \cup {NULL}
      /\ HeapFilled'
      /\ \A d \in Conn : Placed(d) => Placed(d)'
      /\ \A j \in Index : connections'[j] \in Conn => Placed(connections[j])'
      /\ pc' # "ready" => Placed(cur)'
  BY <1>1, <1>a, <1>c, UnregisterType DEF OpenRefused
<1>4. Types'
  BY <1>2, <1>3, <1>c DEF OpenRefused, TypeInv, Types
<1>5. RefsPlaced'
  BY <1>1, <1>2, <1>c DEF OpenRefused, TypeInv, Types, RefsPlaced, Conn
<1> QED
  BY <1>2, <1>4, <1>5 DEF TypeInv

\* sy_connection_activate and sy_connection_expire.
LEMMA TouchType ==
    ASSUME TypeInv, pc = "ready", NEW c \in Conn, Placed(c),
           Activate(c) \/ Expire(c),
           UNCHANGED <<heapVars, live, uc, owner, now, batch, refused>>,
           UNCHANGED <<phase, ev>> \/ (phase' = "loop" /\ ev' = NULL)
    PROVE  TypeInv'
<1>1. /\ pc' \in {"up", "down"} /\ k' \in Index
      /\ cur' \in Conn /\ connections[k'] \in Conn
  BY DEF Activate, Expire, ShiftUpFrom, ShiftDownFrom, Placed, TypeInv, Types
<1>2. active_time' \in [Conn -> Int]
  BY ClockAssumption DEF Activate, Expire, TypeInv, Types
<1>3. \/ then' = Nothing
      \/ \E op \in {"activate", "expire"} :
            c \in Front /\ uc[c] # NULL /\ then' = Call(op, uc[c])
  BY DEF Activate, Expire, Cascade
<1>4. Types'
  <2>1. then' \in [op : {"none", "activate", "expire", "close"},
                   conn : Conn \cup {NULL}]
    BY <1>3 DEF TypeInv, Types, Nothing, Call, Conn
  <2> QED
    BY <1>1, <1>2, <2>1 DEF heapVars, TypeInv, Types
<1>5. \A d \in Conn : Placed(d) => Placed(d)'
  BY DEF Placed, heapVars
<1>6. HeapFilled'
  BY <1>1 DEF TypeInv, HeapFilled, heapVars
<1>7. RefsPlaced'
  <2>1. \A f \in Front : uc[f] # NULL => uc[f] \in Conn /\ Placed(uc[f])
    BY DEF TypeInv, Types, RefsPlaced, Conn
  <2>2. then'.op # "none" => then'.conn \in Conn /\ Placed(then.conn)'
    BY <1>3, <1>5, <2>1 DEF Nothing, Call
  <2>3. then'.op = "none" => then' = Nothing
    BY <1>3 DEF Nothing, Call
  <2>4. \A d \in live' : Placed(d)'
    BY <1>5 DEF TypeInv, Types, RefsPlaced
  <2>5. \A f \in Front : uc'[f] # NULL => Placed(uc[f])'
    BY <1>5, <2>1
  <2>6. phase' = "handler" => ev' \in Conn /\ Placed(ev)'
    BY <1>5 DEF TypeInv, RefsPlaced
  <2>7. \A j \in Index : connections'[j] \in Conn => Placed(connections[j])'
    BY <1>5 DEF heapVars, TypeInv, RefsPlaced
  <2>8. Placed(cur)'
    <3>1. \E j \in Index : cur' = connections[j] /\ connections[j] \in Conn
      BY DEF Activate, Expire, ShiftUpFrom, ShiftDownFrom, Placed, TypeInv, Types
    <3> QED
      BY <1>5, <3>1 DEF TypeInv, RefsPlaced
  <2> QED
    BY <2>2, <2>3, <2>4, <2>5, <2>6, <2>7, <2>8 DEF RefsPlaced
<1> QED
  BY <1>4, <1>6, <1>7 DEF TypeInv

LEMMA TypeStep == TypeInv /\ [Next]_vars => TypeInv'
<1> SUFFICES ASSUME TypeInv, [Next]_vars PROVE TypeInv'
  OBVIOUS
<1>1. ASSUME NEW c \in Conn, Open(c, TRUE) PROVE TypeInv'
  BY <1>1, OpenType
<1>2. ASSUME NEW c \in Conn, Open(c, FALSE) PROVE TypeInv'
  BY <1>2, OpenType
<1>3. ASSUME NEW c \in Conn, OpenRefused(c) PROVE TypeInv'
  BY <1>3, OpenRefusedType
<1>4. ASSUME NEW c \in Conn, BeginEvent(c) PROVE TypeInv'
  BY <1>4 DEF BeginEvent, heapVars, TypeInv, Types, HeapFilled, RefsPlaced, Placed
<1>5. CASE EndEvent
  <2>1. pc = "ready" /\ ev \in Conn /\ Placed(ev)
    BY <1>5 DEF EndEvent, Ready, TypeInv, RefsPlaced
  <2> QED
    BY <1>5, <2>1, TouchType DEF EndEvent
<1>6. CASE PendingActivate
  <2>1. pc = "ready" /\ then.conn \in Conn /\ Placed(then.conn)
    BY <1>6 DEF PendingActivate, TypeInv, RefsPlaced
  <2> QED
    BY <1>6, <2>1, TouchType DEF PendingActivate
<1>7. CASE PendingExpire
  <2>1. pc = "ready" /\ then.conn \in Conn /\ Placed(then.conn)
    BY <1>7 DEF PendingExpire, TypeInv, RefsPlaced
  <2> QED
    BY <1>7, <2>1, TouchType DEF PendingExpire
<1>8. CASE PendingClose
  <2>1. pc = "ready" /\ then.conn \in Conn /\ Placed(then.conn)
    BY <1>8 DEF PendingClose, TypeInv, RefsPlaced
  <2> QED
    BY <1>8, <2>1, CloseType DEF PendingClose
<1>9. CASE ShiftUp
  <2>1. CASE ParentIsLater /\ Pull(P(k))
    <3>1. k \in Nat /\ k \in Index /\ connections[k] \in Conn
      BY <1>9, SizeAssumption DEF ShiftUp, TypeInv, Types, HeapFilled, Index
    <3>2. P(k) \in 1 .. k /\ P(k) \in Index
      BY <2>1, <3>1, ParentBelow, SizeAssumption DEF ParentIsLater, Index
    <3>3. connections[P(k)] \in Conn
      BY <3>1, <3>2 DEF TypeInv, HeapFilled
    <3> QED
      BY <1>9, <2>1, <3>2, <3>3, PullType DEF ShiftUp
  <2> QED
    BY <1>9, <2>1, PlaceType DEF ShiftUp
<1>10. CASE ShiftDown
  <2>1. CASE KidIsNotLater /\ Pull(Kid)
    <3>1. k \in Nat /\ k \in Index /\ connections[k] \in Conn /\ heap_size \in Nat
      BY <1>10, SizeAssumption DEF ShiftDown, TypeInv, Types, HeapFilled, Index
    <3>2. Kid \in Nat /\ Kid <= heap_size /\ (Kid = 0 => k = 0)
      BY <2>1, <3>1 DEF KidIsNotLater, Kid, L, R
    <3>3. Kid \in Index
      BY <3>1, <3>2, SizeAssumption DEF TypeInv, Types, Index
    <3>4. connections[Kid] \in Conn
      <4>1. CASE Kid = 0
        BY <3>1, <3>2, <4>1
      <4>2. CASE Kid \in 1 .. heap_size
        BY <3>1, <4>2 DEF TypeInv, Types, HeapFilled
      <4> QED
        BY <3>1, <3>2, <4>1, <4>2
    <3> QED
      BY <1>10, <2>1, <3>3, <3>4, PullType DEF ShiftDown
  <2> QED
    BY <1>10, <2>1, PlaceType DEF ShiftDown
<1>11. CASE BeginSweep
  BY <1>11 DEF BeginSweep, heapVars, TypeInv, Types, HeapFilled, RefsPlaced, Placed
<1>12. CASE SweepClose
  <2>1. pc = "ready" /\ connections[1] \in Conn
    BY <1>12, SizeAssumption
    DEF SweepClose, Ready, RootIsDue, TypeInv, Types, HeapFilled, Index
  <2>2. Placed(connections[1])
    BY <2>1, SizeAssumption DEF TypeInv, RefsPlaced, Index
  <2> QED
    BY <1>12, <2>1, <2>2, CloseType DEF SweepClose
<1>13. CASE EndSweep
  BY <1>13 DEF EndSweep, heapVars, TypeInv, Types, HeapFilled, RefsPlaced, Placed
<1>14. CASE Tick
  <2>1. now' \in Nat
    BY <1>14 DEF Tick, TypeInv, Types
  <2> QED
    BY <1>14, <2>1 DEF Tick, heapVars, TypeInv, Types, HeapFilled, RefsPlaced, Placed
<1>16. ASSUME NEW c \in Conn, Aborts(c) \/ ClosedTwice(c) PROVE TypeInv'
  BY <1>16 DEF Aborts, ClosedTwice, Ends, Nothing, heapVars, TypeInv, Types, HeapFilled,
               RefsPlaced, Placed
<1>15. CASE UNCHANGED vars
  BY <1>15 DEF vars, TypeInv, Types, HeapFilled, RefsPlaced, Placed
<1> QED
  BY <1>1, <1>2, <1>3, <1>4, <1>5, <1>6, <1>7, <1>8, <1>9, <1>10, <1>11, <1>12,
     <1>13, <1>14, <1>15, <1>16 DEF Next

\* In every reachable state, for any number of connections, any table size and
\* whatever malloc left in heap_idx, the variables have their types, and the
\* heap_idx of an open connection is a position of connections[], also after a
\* refused registration.  (The refused one itself may have any: if that is outside
\* the array, phase is "wild".)
THEOREM TypeCorrect == Spec => []TypeOK
<1>1. Spec => []TypeInv
  BY TypeInit, TypeStep, PTL DEF Spec
<1>2. TypeInv => TypeOK
  BY DEF TypeInv, TypeOK, RefsPlaced, Placed
<1> QED
  BY <1>1, <1>2, PTL

-------------------------------------------------------------------------------
(* The index and the pairing.                                              *)

\* The heap with its hole filled holds the live connections and no others.
Exact ==
    /\ \A i \in 1 .. heap_size : Cell(i) \in live
    /\ \A i \in 1 .. heap_size :
          ~(pc # "ready" /\ i = k) => heap_idx[Cell(i)] = i
    /\ \A c \in live : \E i \in 1 .. heap_size : Cell(i) = c

\* The hole of a running sift loop: inside the heap, where the connection that is
\* carried is missing; or just behind it, when the last connection was removed.
HoleOK ==
    pc # "ready" =>
      \/ /\ k \in 1 .. heap_size
         /\ \A i \in 1 .. heap_size : i # k => connections[i] # cur
      \/ pc = "down" /\ k = heap_size + 1 /\ cur \notin live

\* The connections that are named by a pending call, a running handler or a
\* request are live.
LinksLive ==
    /\ then.op # "none" => then.conn \in live
    /\ phase = "handler" => ev \in live
    /\ phase = "handler" /\ then.op = "close" =>
          then.conn # ev /\ then.conn \in Back
    /\ \A f \in Front : uc[f] # NULL => uc[f] \in live /\ owner[uc[f]] = f

\* A live upstream is the one its request names, unless it is about to be closed;
\* no two have the same request; the request of a closed connection names one
\* only until that is closed too.
Paired ==
    /\ \A b \in Back :
          b \in live /\ ~(then.op = "close" /\ then.conn = b) =>
             owner[b] \in Front /\ uc[owner[b]] = b
    /\ \A b, d \in Back : b \in live /\ d \in live /\ owner[b] = owner[d] => b = d
    /\ \A f \in Front : f \notin live /\ uc[f] # NULL => then = Call("close", uc[f])

IndexInv == ~refused => /\ Exact /\ HoleOK /\ LinksLive /\ Paired
                        /\ phase \notin {"aborted", "wild"}

\* What the sift loops rely on.
LEMMA HeapTypes ==
    ASSUME TypeInv
    PROVE  /\ heap_size \in Nat /\ heap_size <= MaxConnection /\ k \in Nat
           /\ 1 .. heap_size \subseteq Index /\ Index \subseteq Nat
  BY SizeAssumption DEF TypeInv, Types, Index

\* In a heap at rest, heap_idx is the position of a live connection.
LEMMA IndexOfLive ==
    ASSUME TypeInv, Exact, pc = "ready", NEW c \in live
    PROVE  heap_idx[c] \in 1 .. heap_size /\ connections[heap_idx[c]] = c
  BY DEF Exact, Cell

LEMMA IndexInit == Init => IndexInv
<1> SUFFICES ASSUME Init PROVE IndexInv
  OBVIOUS
<1>1. heap_size = 0 /\ 1 .. heap_size = {}
  BY DEF Init
<1> QED
  BY <1>1 DEF Init, IndexInv, Exact, HoleOK, LinksLive, Paired, Nothing

\* Pulling a connection of the heap over the hole.
LEMMA PullExact ==
    ASSUME TypeInv, Exact, HoleOK, pc # "ready", k \in 1 .. heap_size,
           NEW i \in 1 .. heap_size, i # k, Pull(i), UNCHANGED <<heap_size, live>>
    PROVE  Exact' /\ HoleOK'
<1>1. /\ connections' = [connections EXCEPT ![k] = connections[i]]
      /\ heap_idx' = [heap_idx EXCEPT ![connections[i]] = k]
      /\ k' = i /\ pc' = pc /\ cur' = cur
  BY DEF Pull
<1>2. /\ \A j \in 1 .. heap_size : j \in Index
      /\ \A j \in 1 .. heap_size : j # k => connections[j] \in live
      /\ live \subseteq Conn /\ cur \in live
      /\ \A j \in 1 .. heap_size : j # k => connections[j] # cur
  BY HeapTypes DEF TypeInv, Types, Exact, HoleOK, Cell
<1>3. \A j \in 1 .. heap_size :
         connections'[j] = IF j = k THEN connections[i] ELSE connections[j]
  BY <1>1, <1>2 DEF TypeInv, Types
<1>4. \A c \in Conn : heap_idx'[c] = IF c = connections[i] THEN k ELSE heap_idx[c]
  BY <1>1, <1>2 DEF TypeInv, Types
<1>5. \A j \in 1 .. heap_size : j # k => heap_idx[connections[j]] = j
  BY DEF Exact, Cell
<1>6. HoleOK'
  BY <1>1, <1>2, <1>3 DEF HoleOK
<1>7. \A j \in 1 .. heap_size : Cell(j)' \in live
  BY <1>1, <1>2, <1>3 DEF Cell
<1>8. \A j \in 1 .. heap_size : j # i => heap_idx'[Cell(j)'] = j
  BY <1>1, <1>2, <1>3, <1>4, <1>5 DEF Cell
<1>9. \A c \in live : \E j \in 1 .. heap_size : Cell(j)' = c
  <2> SUFFICES ASSUME NEW c \in live PROVE \E j \in 1 .. heap_size : Cell(j)' = c
    OBVIOUS
  <2>1. PICK j \in 1 .. heap_size : Cell(j) = c
    BY DEF Exact
  <2>2. CASE j = k
    BY <1>1, <2>1, <2>2 DEF Cell
  <2>3. CASE j = i
    BY <1>1, <1>3, <2>1, <2>3 DEF Cell
  <2>4. CASE j # i /\ j # k
    BY <1>1, <1>3, <2>1, <2>4 DEF Cell
  <2> QED
    BY <2>2, <2>3, <2>4
<1> QED
  BY <1>1, <1>6, <1>7, <1>8, <1>9 DEF Exact

\* Putting the carried connection down.
LEMMA PlaceExact ==
    ASSUME TypeInv, Exact, HoleOK, pc # "ready", Place, UNCHANGED <<heap_size, live>>
    PROVE  Exact' /\ HoleOK'
<1>1. /\ connections' = [connections EXCEPT ![k] = cur]
      /\ heap_idx' = [heap_idx EXCEPT ![cur] = k]
      /\ pc' = "ready"
  BY DEF Place
<1>2. /\ \A j \in 1 .. heap_size : j \in Index
      /\ \A j \in 1 .. heap_size : j # k => connections[j] \in live /\ connections[j] # cur
      /\ live \subseteq Conn /\ cur \in Conn
  BY HeapTypes DEF TypeInv, Types, HeapFilled, Exact, HoleOK, Cell
<1>3. \A j \in 1 .. heap_size :
         connections'[j] = IF j = k THEN cur ELSE connections[j]
  BY <1>1, <1>2 DEF TypeInv, Types
<1>4. \A j \in 1 .. heap_size : Cell(j)' = Cell(j)
  BY <1>1, <1>3 DEF Cell
<1>5. \A c \in Conn : heap_idx'[c] = IF c = cur THEN k ELSE heap_idx[c]
  BY <1>1, <1>2 DEF TypeInv, Types
<1>6. \A j \in 1 .. heap_size : heap_idx'[Cell(j)] = j
  BY <1>2, <1>5 DEF Exact, Cell
<1> QED
  BY <1>1, <1>4, <1>6 DEF Exact, HoleOK

\* sy_connection_unregister of a live connection.
LEMMA UnregisterExact ==
    ASSUME TypeInv, Exact, pc = "ready", NEW c \in live, Unregister(c),
           live' = live \ {c}
    PROVE  /\ Exact' /\ HoleOK'
           /\ \A j \in 1 .. heap_size' :
                 Cell(j)' = IF j = heap_idx[c] THEN connections[heap_size]
                                               ELSE connections[j]
           /\ \/ pc' = "ready" /\ heap_size = 1
              \/ pc' = "down" /\ k' = heap_idx[c] /\ heap_size > 1
<1> DEFINE i == heap_idx[c]
           last == connections[heap_size]
<1>1. /\ i \in 1 .. heap_size /\ connections[i] = c
      /\ \A j \in 1 .. heap_size : j \in Index
      /\ \A j \in 1 .. heap_size : connections[j] \in live /\ heap_idx[connections[j]] = j
      /\ \A d \in live : \E j \in 1 .. heap_size : connections[j] = d
      /\ live \subseteq Conn /\ heap_size \in 1 .. heap_size
  BY IndexOfLive, HeapTypes DEF TypeInv, Types, Exact, Cell, Unregister
<1>2. /\ connections' = [connections EXCEPT ![i] = last]
      /\ heap_idx' = [heap_idx EXCEPT ![last] = i]
      /\ heap_size' = heap_size - 1
  BY DEF Unregister
<1>3. /\ \A j \in 1 .. heap_size :
            connections'[j] = IF j = i THEN last ELSE connections[j]
      /\ \A d \in Conn : heap_idx'[d] = IF d = last THEN i ELSE heap_idx[d]
  BY <1>1, <1>2 DEF TypeInv, Types
<1>4. /\ heap_idx'[c] = i /\ connections'[i] = last
      /\ \A j \in 1 .. heap_size' : j \in 1 .. heap_size
      /\ \A j \in 1 .. heap_size : j \in 1 .. heap_size' \/ j = heap_size
  BY <1>1, <1>2, <1>3, HeapTypes
<1>5. \/ pc' = "ready" /\ heap_size = 1
      \/ pc' = "down" /\ k' = i /\ cur' = last /\ heap_size > 1
  BY <1>1, <1>4 DEF Unregister, ShiftDownFrom
<1>6. \A j \in 1 .. heap_size' : Cell(j)' = IF j = i THEN last ELSE connections[j]
  BY <1>3, <1>4, <1>5 DEF Cell
<1>7. \A j \in 1 .. heap_size' : Cell(j)' \in live'
  <2> SUFFICES ASSUME NEW j \in 1 .. heap_size' PROVE Cell(j)' \in live \ {c}
    OBVIOUS
  <2>1. j \in 1 .. heap_size /\ j # heap_size
    BY <1>2, <1>4, HeapTypes
  <2> QED
    BY <1>1, <1>6, <2>1
<1>8. \A j \in 1 .. heap_size' :
         ~(pc' # "ready" /\ j = k') => heap_idx'[Cell(j)'] = j
  <2> SUFFICES ASSUME NEW j \in 1 .. heap_size', ~(pc' # "ready" /\ j = k')
               PROVE  heap_idx'[Cell(j)'] = j
    OBVIOUS
  <2>1. j \in 1 .. heap_size /\ j # heap_size
    BY <1>2, <1>4, HeapTypes
  <2>2. j # i
    BY <1>1, <1>2, <1>5, HeapTypes
  <2>3. Cell(j)' = connections[j] /\ connections[j] # last
    BY <1>1, <1>6, <2>1, <2>2
  <2> QED
    BY <1>1, <1>3, <2>1, <2>3
<1>9. \A d \in live' : \E j \in 1 .. heap_size' : Cell(j)' = d
  <2> SUFFICES ASSUME NEW d \in live, d # c
               PROVE  \E j \in 1 .. heap_size' : Cell(j)' = d
    OBVIOUS
  <2>1. PICK j \in 1 .. heap_size : connections[j] = d
    BY <1>1
  <2>2. CASE j = heap_size
    <3>1. i # j /\ i \in 1 .. heap_size'
      BY <1>1, <1>4, <2>1, <2>2
    <3> QED
      BY <1>6, <2>1, <2>2, <3>1
  <2>3. CASE j # heap_size
    <3>1. j # i /\ j \in 1 .. heap_size'
      BY <1>1, <1>4, <2>1, <2>3
    <3> QED
      BY <1>6, <2>1, <3>1
  <2> QED
    BY <2>2, <2>3
<1>10. HoleOK'
  <2> SUFFICES ASSUME pc' # "ready" PROVE HoleOK'
    BY DEF HoleOK
  <2>1. pc' = "down" /\ k' = i /\ cur' = last
    BY <1>5
  <2>2. CASE i = heap_size
    <3>1. k' = heap_size' + 1 /\ cur' = c
      BY <1>1, <1>2, <2>1, <2>2, HeapTypes
    <3> QED
      BY <2>1, <3>1 DEF HoleOK
  <2>3. CASE i # heap_size
    <3>1. k' \in 1 .. heap_size'
      BY <1>1, <1>4, <2>1, <2>3
    <3>2. \A j \in 1 .. heap_size' : j # i => connections'[j] # last
      BY <1>1, <1>2, <1>3, <1>4, HeapTypes
    <3> QED
      BY <2>1, <3>1, <3>2 DEF HoleOK
  <2> QED
    BY <2>2, <2>3
<1> QED
  BY <1>5, <1>6, <1>7, <1>8, <1>9, <1>10 DEF Exact

\* sy_close_connection of a live connection.
LEMMA CloseIndex ==
    ASSUME TypeInv, Exact, LinksLive, Paired, pc = "ready", NEW c \in live,
           then = Nothing \/ then = Call("close", c),
           phase = "handler" => c # ev /\ c \in Back,
           Close(c), UNCHANGED <<now, batch, phase, ev, refused>>
    PROVE  Exact' /\ HoleOK' /\ LinksLive' /\ Paired'
<1>1. Exact' /\ HoleOK'
  BY UnregisterExact DEF Close
<1>2. /\ live' = live \ {c} /\ live \subseteq Conn
      /\ uc \in [Front -> Back \cup {NULL}] /\ owner \in [Back -> Front \cup {NULL}]
  BY DEF Close, TypeInv, Types
<1>3. CASE c \in Front
  <2>1. /\ uc' = uc /\ owner' = owner
        /\ then' = IF uc[c] # NULL THEN Call("close", uc[c]) ELSE Nothing
    BY <1>3 DEF Close
  <2>2. \A f \in Front : uc[f] # c
    BY <1>2, <1>3, SlotAssumption
  <2>3. LinksLive'
    BY <1>2, <1>3, <2>1, <2>2, SlotAssumption DEF LinksLive, Call, Nothing
  <2>4. \A b \in Back : b # c /\ ~(then.op = "close" /\ then.conn = b)
    BY <1>3, SlotAssumption DEF Call, Nothing
  <2>5. \A f \in Front : f \notin live => uc[f] = NULL
    BY <2>2 DEF Paired, Call, Nothing
  <2>6. Paired'
    BY <1>2, <2>1, <2>4, <2>5 DEF Paired
  <2> QED
    BY <1>1, <2>3, <2>6
<1>4. CASE c \notin Front
  <2>1. /\ c \in Back
        /\ then' = Nothing
        /\ uc' = [uc EXCEPT ![owner[c]] = NULL]
        /\ owner' = [owner EXCEPT ![c] = NULL]
    BY <1>2, <1>4 DEF Close, Conn
  <2>2. /\ \A f \in Front : uc'[f] = IF f = owner[c] THEN NULL ELSE uc[f]
        /\ \A b \in Back : owner'[b] = IF b = c THEN NULL ELSE owner[b]
    BY <1>2, <2>1
  <2>3. \A f \in Front : uc'[f] # NULL => uc[f] # c /\ uc[f] \in Back
    BY <1>2, <2>2 DEF LinksLive
  <2>4. LinksLive'
    BY <1>2, <2>1, <2>2, <2>3 DEF LinksLive, Nothing
  <2>5. \A b \in Back : b \in live' => ~(then.op = "close" /\ then.conn = b)
    BY <1>2 DEF Call, Nothing
  <2>6. \A b \in Back : b \in live' =>
           owner'[b] \in Front /\ uc'[owner'[b]] = b
    BY <1>2, <2>1, <2>2, <2>5 DEF Paired
  <2>7. \A f \in Front : f \notin live' => uc'[f] = NULL
    BY <1>2, <1>4, <2>2, <2>3 DEF Paired, Call, Nothing
  <2>8. \A b, d \in Back : b \in live' /\ d \in live' /\ owner'[b] = owner'[d] => b = d
    BY <1>2, <2>2 DEF Paired
  <2>9. Paired'
    BY <2>6, <2>7, <2>8 DEF Paired
  <2> QED
    BY <1>1, <2>4, <2>9
<1> QED
  BY <1>3, <1>4

\* A new connection behind the last one of the heap.
LEMMA OpenExact ==
    ASSUME TypeInv, Exact, NEW c \in Conn, NEW watched \in BOOLEAN, Open(c, watched)
    PROVE  Exact' /\ HoleOK'
<1>1. /\ pc = "ready" /\ c \notin live
      /\ heap_size' = heap_size + 1 /\ heap_size + 1 \in Index
      /\ connections' = [connections EXCEPT ![heap_size + 1] = c]
      /\ heap_idx' = heap_idx /\ live' = live \cup {c}
      /\ pc' = "up" /\ k' = heap_size + 1 /\ cur' = c
  BY HeapTypes, SizeAssumption DEF Open, MayOpen, Ready, ShiftUpFrom, Index
<1>2. /\ \A j \in 1 .. heap_size : j \in Index /\ j # heap_size + 1
      /\ \A j \in 1 .. heap_size' : j \in 1 .. heap_size \/ j = heap_size + 1
      /\ heap_size + 1 \in 1 .. heap_size'
      /\ 1 .. heap_size \subseteq 1 .. heap_size'
  BY <1>1, HeapTypes
<1>3. \A j \in 1 .. heap_size : connections'[j] = connections[j]
  BY <1>1, <1>2 DEF TypeInv, Types
<1>4. \A j \in 1 .. heap_size : Cell(j)' = connections[j] /\ Cell(j) = connections[j]
  BY <1>1, <1>2, <1>3 DEF Cell
<1>5. \A j \in 1 .. heap_size' : j = heap_size + 1 => Cell(j)' = c
  BY <1>1 DEF Cell
<1>6. \A j \in 1 .. heap_size : connections[j] \in live /\ heap_idx[connections[j]] = j
  BY <1>1, <1>4 DEF Exact
<1>7. Exact'
  <2>1. \A j \in 1 .. heap_size' : Cell(j)' \in live'
    BY <1>1, <1>2, <1>4, <1>5, <1>6
  <2>2. \A j \in 1 .. heap_size' : j # k' => heap_idx'[Cell(j)'] = j
    BY <1>1, <1>2, <1>4, <1>6
  <2>3. \A d \in live' : \E j \in 1 .. heap_size' : Cell(j)' = d
    BY <1>1, <1>2, <1>4, <1>5 DEF Exact
  <2> QED
    BY <1>1, <2>1, <2>2, <2>3 DEF Exact
<1>8. HoleOK'
  BY <1>1, <1>2, <1>3, <1>6 DEF HoleOK
<1> QED
  BY <1>7, <1>8

LEMMA OpenLinks ==
    ASSUME TypeInv, LinksLive, Paired, NEW c \in Conn, NEW watched \in BOOLEAN,
           Open(c, watched)
    PROVE  LinksLive' /\ Paired'
<1>1. /\ then = Nothing /\ c \notin live
      /\ live' = live \cup {c}
      /\ then' = IF watched THEN Nothing ELSE Call("close", c)
      /\ UNCHANGED <<phase, ev>>
      /\ uc \in [Front -> Back \cup {NULL}] /\ owner \in [Back -> Front \cup {NULL}]
      /\ Attach(c, watched)
  BY DEF Open, MayOpen, Ready, TypeInv, Types
<1>2. \A f \in Front : f \notin live => uc[f] = NULL
  BY <1>1 DEF Paired, Call, Nothing
<1>3. \A b \in Back : b \in live => owner[b] \in Front /\ uc[owner[b]] = b
  BY <1>1 DEF Paired, Nothing
<1>4. CASE c \in Front
  <2>1. uc' = uc /\ owner' = owner /\ phase # "handler"
    BY <1>1, <1>2, <1>4, SlotAssumption DEF Attach, Open, MayOpen
  <2>2. LinksLive'
    BY <1>1, <2>1 DEF LinksLive, Call, Nothing
  <2>3. Paired'
    BY <1>1, <1>2, <1>3, <1>4, <2>1, SlotAssumption DEF Paired
  <2> QED
    BY <2>2, <2>3
<1>5. CASE c \notin Front
  <2>1. /\ c \in Back /\ ev \in Front /\ ev \in live /\ ev # c /\ uc[ev] = NULL
        /\ c # NULL
    BY <1>1, <1>5, SlotAssumption DEF Open, MayOpen, Conn, LinksLive
  <2>2. /\ \A b \in Back : owner'[b] = IF b = c THEN ev ELSE owner[b]
        /\ \A f \in Front : uc'[f] = IF f = ev /\ watched THEN c ELSE uc[f]
    BY <1>1, <1>5, <2>1 DEF Attach
  <2>3. \A f \in Front : uc[f] # NULL => uc[f] \in Back /\ uc[f] # c
    BY <1>1 DEF LinksLive
  <2>4. LinksLive'
    BY <1>1, <2>1, <2>2, <2>3 DEF LinksLive, Call, Nothing
  <2>5. \A b \in Back : b \in live => b # c /\ owner[b] # ev /\ b # NULL
    BY <1>1, <1>3, <2>1, SlotAssumption
  <2>6. \A b \in Back :
           b \in live' /\ ~(then'.op = "close" /\ then'.conn = b) =>
              owner'[b] \in Front /\ uc'[owner'[b]] = b
    <3> SUFFICES ASSUME NEW b \in Back, b \in live',
                        ~(then'.op = "close" /\ then'.conn = b)
                 PROVE  owner'[b] \in Front /\ uc'[owner'[b]] = b
      OBVIOUS
    <3>1. CASE b = c
      <4>1. watched
        BY <1>1, <3>1 DEF Call
      <4> QED
        BY <2>1, <2>2, <3>1, <4>1
    <3>2. CASE b # c
      BY <1>1, <1>3, <2>2, <2>5, <3>2
    <3> QED
      BY <3>1, <3>2
  <2>7. \A b, d \in Back : b \in live' /\ d \in live' /\ owner'[b] = owner'[d] => b = d
    BY <1>1, <2>2, <2>5 DEF Paired
  <2>8. \A f \in Front : f \notin live' => uc'[f] = NULL
    BY <1>1, <1>2, <2>1, <2>2
  <2>9. Paired'
    BY <2>6, <2>7, <2>8 DEF Paired
  <2> QED
    BY <2>4, <2>9
<1> QED
  BY <1>4, <1>5

\* sy_connection_activate and sy_connection_expire of a live connection.
LEMMA TouchIndex ==
    ASSUME TypeInv, Exact, LinksLive, Paired, pc = "ready", NEW c \in live,
           then.op # "close", Activate(c) \/ Expire(c),
           UNCHANGED <<heapVars, live, uc, owner, now, batch, refused>>,
           UNCHANGED <<phase, ev>> \/ (phase' = "loop" /\ ev' = NULL)
    PROVE  Exact' /\ HoleOK' /\ LinksLive' /\ Paired'
<1>1. /\ pc' \in {"up", "down"} /\ k' = heap_idx[c] /\ cur' = c
      /\ k' \in 1 .. heap_size /\ connections[k'] = c
  BY IndexOfLive DEF Activate, Expire, ShiftUpFrom, ShiftDownFrom
<1>2. /\ \/ then' = Nothing
         \/ \E op \in {"activate", "expire"} :
               c \in Front /\ uc[c] # NULL /\ then' = Call(op, uc[c])
      /\ then'.op # "close"
  BY DEF Activate, Expire, Cascade, Call, Nothing
<1>3. \A j \in 1 .. heap_size : Cell(j)' = Cell(j)
  BY <1>1 DEF Cell, heapVars
<1>4. Exact'
  BY <1>1, <1>3 DEF Exact, Cell, heapVars
<1>5. HoleOK'
  BY <1>1 DEF HoleOK, Exact, Cell, heapVars
<1>6. LinksLive'
  BY <1>2 DEF LinksLive, Call, Nothing
<1>7. Paired'
  BY <1>2 DEF Paired, Call
<1> QED
  BY <1>4, <1>5, <1>6, <1>7

-------------------------------------------------------------------------------
\* Before a refusal, what is closed is live, and the heap is not empty.
LEMMA CloseIsOfLive ==
    ASSUME TypeInv, IndexInv, ~refused, NEW c \in Conn, Aborts(c) \/ ClosedTwice(c)
    PROVE  FALSE
<1> USE DEF IndexInv
<1>1. Closing(c)
  BY DEF Aborts, ClosedTwice
<1>2. CASE pc = "ready" /\ then = Call("close", c)
  <2>1. c \in live
    BY <1>2 DEF LinksLive, Call
  <2>2. heap_size # 0
    BY <2>1 DEF Exact
  <2> QED
    BY <2>1, <2>2 DEF Aborts, ClosedTwice
<1>3. CASE Ready /\ RootIsDue /\ c = connections[1]
  <2>1. c \in live /\ heap_size > 0
    BY <1>3, HeapTypes DEF Ready, RootIsDue, Exact, Cell
  <2> QED
    BY <2>1, HeapTypes DEF Aborts, ClosedTwice
<1> QED
  BY <1>1, <1>2, <1>3 DEF Closing

LEMMA IndexStep == TypeInv /\ IndexInv /\ [Next]_vars => IndexInv'
<1> SUFFICES ASSUME TypeInv, IndexInv, [Next]_vars, ~refused'
             PROVE  /\ Exact' /\ HoleOK' /\ LinksLive' /\ Paired'
                    /\ phase' \notin {"aborted", "wild"}
  BY DEF IndexInv
<1>1. CASE UNCHANGED vars
  BY <1>1 DEF vars, IndexInv, Exact, HoleOK, LinksLive, Paired, Cell
<1>2. CASE Next
  <2>1. ~refused
    BY <1>2 DEF Next, Open, OpenRefused, BeginEvent, EndEvent, PendingActivate,
                PendingExpire, PendingClose, ShiftUp, ShiftDown, Sifting,
                BeginSweep, SweepClose, EndSweep, Tick, Aborts, ClosedTwice, Ends
  <2> USE <2>1 DEF IndexInv
  <2>a. ASSUME NEW c \in Conn, Aborts(c) \/ ClosedTwice(c) PROVE FALSE
    BY <2>a, CloseIsOfLive
  <2>b. phase' \notin {"aborted", "wild"}
    BY <1>2, <2>a DEF Next, Open, OpenRefused, BeginEvent, EndEvent, PendingActivate,
                PendingExpire, PendingClose, ShiftUp, ShiftDown, Sifting,
                BeginSweep, SweepClose, EndSweep, Tick
  <2>2. ASSUME NEW c \in Conn, NEW watched \in BOOLEAN, Open(c, watched)
        PROVE  Exact' /\ HoleOK' /\ LinksLive' /\ Paired'
    BY <2>2, OpenExact, OpenLinks
  <2>3. ASSUME NEW c \in Conn, OpenRefused(c) PROVE FALSE
    BY <2>3 DEF OpenRefused
  <2>4. ASSUME NEW c \in Conn, BeginEvent(c)
        PROVE  Exact' /\ HoleOK' /\ LinksLive' /\ Paired'
    BY <2>4 DEF BeginEvent, Ready, Nothing, heapVars, Exact, HoleOK, LinksLive,
                Paired, Cell
  <2>5. CASE EndEvent
    BY <2>5, TouchIndex DEF EndEvent, Ready, Nothing, LinksLive
  <2>6. CASE PendingActivate
    BY <2>6, TouchIndex DEF PendingActivate, LinksLive
  <2>7. CASE PendingExpire
    BY <2>7, TouchIndex DEF PendingExpire, LinksLive
  <2>8. CASE PendingClose
    <3>1. then = Call("close", then.conn) /\ then.conn \in live
      BY <2>8 DEF PendingClose, TypeInv, Types, LinksLive, Call
    <3>2. phase = "handler" => then.conn # ev /\ then.conn \in Back
      BY <2>8 DEF PendingClose, LinksLive
    <3> QED
      BY <2>8, <3>1, <3>2, CloseIndex DEF PendingClose
  <2>9. CASE ShiftUp
    <3>1. k \in 1 .. heap_size /\ pc # "ready"
      BY <2>9 DEF ShiftUp, HoleOK
    <3>2. CASE ParentIsLater /\ Pull(P(k))
      <4>1. P(k) \in 1 .. heap_size /\ P(k) # k
        BY <3>1, <3>2, HeapTypes, ParentBelow DEF ParentIsLater
      <4>2. Exact' /\ HoleOK'
        BY <2>9, <3>1, <3>2, <4>1, PullExact DEF Sifting, ShiftUp
      <4> QED
        BY <2>9, <4>2 DEF ShiftUp, Sifting, LinksLive, Paired
    <3>3. CASE Place
      <4>1. Exact' /\ HoleOK'
        BY <2>9, <3>1, <3>3, PlaceExact DEF Sifting, ShiftUp
      <4> QED
        BY <2>9, <4>1 DEF ShiftUp, Sifting, LinksLive, Paired
    <3> QED
      BY <2>9, <3>2, <3>3 DEF ShiftUp
  <2>10. CASE ShiftDown
    <3>1. pc # "ready"
      BY <2>10 DEF ShiftDown
    <3>2. CASE KidIsNotLater /\ Pull(Kid)
      <4>1. k \in Nat /\ k >= 1 /\ heap_size \in Nat
        BY <3>1, HeapTypes DEF HoleOK
      <4>2. Kid \in 1 .. heap_size /\ k < Kid
        BY <3>2, <4>1 DEF KidIsNotLater, Kid, L, R
      <4>3. k \in 1 .. heap_size
        BY <4>1, <4>2
      <4>4. Exact' /\ HoleOK'
        BY <2>10, <3>1, <3>2, <4>1, <4>2, <4>3, PullExact DEF Sifting, ShiftDown
      <4> QED
        BY <2>10, <4>4 DEF ShiftDown, Sifting, LinksLive, Paired
    <3>3. CASE Place
      <4>1. Exact' /\ HoleOK'
        BY <2>10, <3>1, <3>3, PlaceExact DEF Sifting, ShiftDown
      <4> QED
        BY <2>10, <4>1 DEF ShiftDown, Sifting, LinksLive, Paired
    <3> QED
      BY <2>10, <3>2, <3>3 DEF ShiftDown
  <2>11. CASE BeginSweep
    BY <2>11 DEF BeginSweep, heapVars, Exact, HoleOK, LinksLive, Paired, Cell
  <2>12. CASE SweepClose
    <3>1. /\ pc = "ready" /\ then = Nothing /\ phase = "sweep"
          /\ connections[1] \in live
      BY <2>12, HeapTypes DEF SweepClose, Ready, RootIsDue, Exact, Cell
    <3> QED
      BY <2>12, <3>1, CloseIndex DEF SweepClose
  <2>13. CASE EndSweep
    BY <2>13 DEF EndSweep, heapVars, Exact, HoleOK, LinksLive, Paired, Cell
  <2>14. CASE Tick
    BY <2>14 DEF Tick, heapVars, Exact, HoleOK, LinksLive, Paired, Cell
  <2> QED
    BY <1>2, <2>2, <2>3, <2>4, <2>5, <2>6, <2>7, <2>8, <2>9, <2>10, <2>11, <2>12,
       <2>13, <2>14, <2>a, <2>b DEF Next
<1> QED
  BY <1>1, <1>2

\* The heap and its index in one invariant of the specification.
LEMMA IndexAlways == Spec => [](TypeInv /\ IndexInv)
<1>1. Init => TypeInv /\ IndexInv
  BY TypeInit, IndexInit
<1>2. TypeInv /\ IndexInv /\ [Next]_vars => (TypeInv /\ IndexInv)'
  BY TypeStep, IndexStep
<1> QED
  BY <1>1, <1>2, PTL DEF Spec

\* Until a registration is refused, the heap holds each live connection exactly
\* once, at the position its heap_idx says: every activate, expire and close
\* starts from the right cell, whatever the order of the calls and the cascades.
THEOREM IndexIsExact == Spec => []IndexExact
<1>1. TypeInv /\ IndexInv => IndexExact
  BY DEF IndexInv, IndexExact, Exact
<1> QED
  BY <1>1, IndexAlways, PTL

\* Until a registration is refused, r->uc and c->r of an upstream always name
\* each other, except while a close cascades: no dangling r->uc is followed and
\* no upstream outlives its request.
THEOREM UpstreamsArePaired == Spec => []PairedUpstream
<1>1. TypeInv /\ IndexInv => PairedUpstream
  <2> SUFFICES ASSUME TypeInv, IndexInv, ~refused, then.op # "close",
                      NEW f \in Front, NEW b \in Back
               PROVE  uc[f] = b <=> (b \in live /\ owner[b] = f)
    BY DEF PairedUpstream
  <2>1. b # NULL
    BY SlotAssumption
  <2>2. uc[f] = b => b \in live /\ owner[b] = f
    BY <2>1 DEF IndexInv, LinksLive
  <2>3. b \in live /\ owner[b] = f => uc[f] = b
    BY DEF IndexInv, Paired
  <2> QED
    BY <2>2, <2>3
<1> QED
  BY <1>1, IndexAlways, PTL
==============================================================================
