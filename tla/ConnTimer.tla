------------------------------ MODULE ConnTimer ------------------------------
(***************************************************************************)
(* The connection table and the expiry timer of one worker process         *)
(* (connection.c): a binary heap of the open connections ordered by        *)
(* active_time, with the position of each connection kept in its heap_idx. *)
(*                                                                         *)
(* The worker is one thread, so an operation is not interleaved with       *)
(* another; it is cut into steps where the code reads the clock (the       *)
(* cascade from a front connection to its upstream) and, so that the heap  *)
(* can be reasoned about, at every iteration of the two sift loops.        *)
(*                                                                         *)
(* The event loop of server.c is here only as the caller: it opens         *)
(* connections, runs a handler for a connection that is not expired, and   *)
(* sweeps.  What the handlers do is chosen freely.                         *)
(*                                                                         *)
(* A refused registration corrupts the table (OpenRefused).  The model     *)
(* goes on until the program ends in an assertion (phase "aborted"), or    *)
(* until nothing can be said of its memory (phase "wild": a write outside  *)
(* connections[], or a struct given back twice).                           *)
(***************************************************************************)
EXTENDS Integers

CONSTANTS Front,          \* memory slots for client connections
          Back,           \* memory slots for upstream connections; {} when no
                          \* location of the configuration has "pass"
          NULL,
          MaxConnection,  \* MAX_CONNECTION
          Timeout,        \* server_cfg.timeout
          FreshIdx,       \* what heap_idx may hold in memory never used before: any
                          \* integer, the pool takes it from malloc
          MaxNow          \* bound on the clock of the checked instances

ASSUME SlotAssumption == Front \cap Back = {} /\ NULL \notin Front \cup Back
ASSUME SizeAssumption == MaxConnection \in Nat \ {0}
ASSUME IdxAssumption == FreshIdx \subseteq Int
ASSUME ClockAssumption == Timeout \in Nat /\ MaxNow \in Nat

Conn == Front \cup Back
Index == 0 .. MaxConnection

VARIABLES connections,  \* the heap array; cell 0 is outside the heap
          heap_size,
          heap_idx,     \* c->heap_idx
          active_time,  \* c->active_time
          live,         \* connections returned by an open and not yet closed
          uc,           \* c->r->uc of a front connection
          owner,        \* c->r of a back connection, named by its front
          now,          \* time(NULL)
          batch,        \* the connections epoll_wait may have put into events[]
          phase,        \* "loop", "handler", "sweep", or "aborted", "wild"
          ev,           \* the connection whose handler runs, or NULL
          pc,           \* "ready", or "up" / "down" inside a sift loop
          k, cur,       \* the locals k and c of the sift loops
          then,         \* the call on a second connection still to be made
          refused       \* a registration was refused (history)

heapVars == <<connections, heap_size, heap_idx>>
vars == <<connections, heap_size, heap_idx, active_time, live, uc, owner, now,
          batch, phase, ev, pc, k, cur, then, refused>>

Nothing == [op |-> "none", conn |-> NULL]
Call(op, c) == [op |-> op, conn |-> c]

P(i) == i \div 2
L(i) == i * 2
R(i) == L(i) + 1

Ready == pc = "ready" /\ then = Nothing

IsExpired(c) == active_time[c] + Timeout < now

-------------------------------------------------------------------------------
Init == /\ connections = [i \in Index |-> NULL]
        /\ heap_size = 0
        /\ heap_idx \in [Conn -> FreshIdx]
        /\ now = Timeout + 1
        /\ active_time = [c \in Conn |-> 0]
        /\ live = {}
        /\ uc = [c \in Front |-> NULL]
        /\ owner = [c \in Back |-> NULL]
        /\ batch = {}
        /\ phase = "loop"
        /\ ev = NULL
        /\ pc = "ready"
        /\ k = 0
        /\ cur = NULL
        /\ then = Nothing
        /\ refused = FALSE

-------------------------------------------------------------------------------
(* The sift loops: entry, one iteration, exit.                             *)

ShiftUpFrom(i, c) == pc' = "up" /\ k' = i /\ cur' = c
ShiftDownFrom(i, c) == pc' = "down" /\ k' = i /\ cur' = c

Place == /\ connections' = [connections EXCEPT ![k] = cur]
         /\ heap_idx' = [heap_idx EXCEPT ![cur] = k]
         /\ pc' = "ready"
         /\ k' = 0
         /\ cur' = NULL

\* Mutation of Pull: the connection that moves keeps its old heap_idx.
PullKeepsIndex(i) == /\ connections' = [connections EXCEPT ![k] = connections[i]]
                     /\ k' = i
                     /\ UNCHANGED <<heap_idx, pc, cur>>

\* The child (or parent) in cell i moves into the hole at k, the hole to i.
Pull(i) == /\ connections' = [connections EXCEPT ![k] = connections[i]]
           /\ heap_idx' = [heap_idx EXCEPT ![connections[i]] = k]
           /\ k' = i
           /\ UNCHANGED <<pc, cur>>

Sifting == UNCHANGED <<heap_size, active_time, live, uc, owner, now, batch,
                       phase, ev, then, refused>>

ParentIsLater ==
    P(k) > 0 /\ active_time[cur] < active_time[connections[P(k)]]

ShiftUp == /\ pc = "up"
           /\ \/ ParentIsLater /\ Pull(P(k))
              \/ ~ParentIsLater /\ Place
           /\ Sifting

\* Mutation of Kid: the left child, whatever the right one is.
LeftKid == L(k)

\* The right child only if it is strictly older than the left one.
Kid == IF /\ R(k) <= heap_size
          /\ active_time[connections[R(k)]] < active_time[connections[L(k)]]
       THEN R(k)
       ELSE L(k)

\* A tie moves the connection down.
KidIsNotLater == /\ Kid <= heap_size
                 /\ active_time[connections[Kid]] <= active_time[cur]

ShiftDown == /\ pc = "down"
             /\ \/ KidIsNotLater /\ Pull(Kid)
                \/ ~KidIsNotLater /\ Place
             /\ Sifting

-------------------------------------------------------------------------------
(* sy_connection_unregister: the last connection of the heap goes to the   *)
(* cell of c and is sifted down from there.  Cells above heap_size keep    *)
(* what they held.  Its assertion, heap_size > 0, is in Aborts.            *)

\* Mutation of Unregister: heap_size is decremented before the last one is read.
UnregisterLate(c) ==
    LET i == heap_idx[c]
        last == connections[heap_size - 1]
    IN  /\ heap_size > 0
        /\ connections' = [connections EXCEPT ![i] = last]
        /\ heap_idx' = [heap_idx EXCEPT ![last] = i]
        /\ heap_size' = heap_size - 1
        /\ IF heap_size > 1 THEN ShiftDownFrom(i, last) ELSE UNCHANGED <<pc, k, cur>>

Unregister(c) ==
    LET i == heap_idx[c]
        last == connections[heap_size]
    IN  /\ heap_size > 0
        /\ connections' = [connections EXCEPT ![i] = last]
        /\ heap_idx' = [heap_idx EXCEPT ![last] = i]
        /\ heap_size' = heap_size - 1
        /\ IF heap_size > 1
           THEN ShiftDownFrom(heap_idx'[c], connections'[heap_idx'[c]])
           ELSE UNCHANGED <<pc, k, cur>>

\* Mutation of Close: the request of an upstream connection is not told.
CloseKeepsUpstream(c) ==
    /\ Unregister(c)
    /\ live' = live \ {c}
    /\ then' = IF c \in Front /\ uc[c] # NULL THEN Call("close", uc[c]) ELSE Nothing
    /\ UNCHANGED <<uc, owner, active_time>>

\* sy_close_connection; a front's upstream is closed by a second call.
Close(c) ==
    /\ Unregister(c)
    /\ live' = live \ {c}
    /\ IF c \in Front
       THEN /\ then' = IF uc[c] # NULL THEN Call("close", uc[c]) ELSE Nothing
            /\ UNCHANGED <<uc, owner>>
       ELSE /\ then' = Nothing
            /\ uc' = [uc EXCEPT ![owner[c]] = NULL]
            /\ owner' = [owner EXCEPT ![c] = NULL]
    /\ UNCHANGED active_time

-------------------------------------------------------------------------------
(* Opening: sy_open_connection from the accept loop, and                   *)
(* sy_uwsgi_open_connection from the handler of a front connection.        *)
(* "watched" is whether epoll_ctl takes the descriptor.                    *)

MayOpen(c) == /\ Ready
              /\ c \notin live
              /\ \/ c \in Front /\ phase = "loop"
                 \/ /\ c \in Back /\ phase = "handler"
                    /\ ev \in Front /\ uc[ev] = NULL

\* c->r of the new connection, and r->uc once the call has returned.
Attach(c, ok) ==
    IF c \in Front
    THEN uc' = [uc EXCEPT ![c] = NULL] /\ UNCHANGED owner
    ELSE /\ owner' = [owner EXCEPT ![c] = ev]
         /\ uc' = IF ok THEN [uc EXCEPT ![ev] = c] ELSE uc

\* Mutation of Open: the limit is looked at before the increment.
OpenPastEnd(c, watched) ==
    /\ MayOpen(c)
    /\ heap_size <= MaxConnection
    /\ active_time' = [active_time EXCEPT ![c] = now]
    /\ connections' = [connections EXCEPT ![heap_size + 1] = c]
    /\ heap_size' = heap_size + 1
    /\ ShiftUpFrom(heap_size + 1, c)
    /\ live' = live \cup {c}
    /\ Attach(c, watched)
    /\ then' = IF watched THEN Nothing ELSE Call("close", c)
    /\ UNCHANGED <<heap_idx, now, batch, phase, ev, refused>>

Open(c, watched) ==
    /\ MayOpen(c)
    /\ heap_size + 1 <= MaxConnection
    /\ active_time' = [active_time EXCEPT ![c] = now]
    /\ connections' = [connections EXCEPT ![heap_size + 1] = c]
    /\ heap_size' = heap_size + 1
    /\ ShiftUpFrom(heap_size + 1, c)
    /\ live' = live \cup {c}
    /\ Attach(c, watched)
    /\ then' = IF watched THEN Nothing ELSE Call("close", c)
    /\ UNCHANGED <<heap_idx, now, batch, phase, ev, refused>>

\* Mutation of OpenRefused: the last cell is never used.
RefuseEarly(c) ==
    /\ MayOpen(c)
    /\ heap_size + 1 >= MaxConnection
    /\ active_time' = [active_time EXCEPT ![c] = now]
    /\ Unregister(c)
    /\ refused' = TRUE
    /\ UNCHANGED <<live, uc, owner, now, batch, phase, ev, then>>

\* The heap is full: the connection was not registered, and it is closed,
\* unregistering whatever its heap_idx points at: the index of an earlier life
\* of the struct, or what malloc left there, which may be outside the array.
\* (r->uc = NULL changes nothing for a refused upstream: the handler that opens
\* one had none.)
OpenRefused(c) ==
    /\ MayOpen(c)
    /\ heap_size + 1 > MaxConnection
    /\ active_time' = [active_time EXCEPT ![c] = now]
    /\ refused' = TRUE
    /\ \/ heap_idx[c] \in Index /\ Unregister(c) /\ UNCHANGED phase
       \/ /\ heap_idx[c] \notin Index
          /\ phase' = "wild"
          /\ UNCHANGED <<heapVars, pc, k, cur>>
    /\ UNCHANGED <<live, uc, owner, now, batch, ev, then>>

-------------------------------------------------------------------------------
(* The event loop as far as the timer sees it.                             *)

\* Both the EPOLLIN and the EPOLLOUT half of an event ask this first.
BeginEvent(c) ==
    /\ Ready
    /\ phase = "loop"
    /\ c \in batch \cap live
    /\ ~IsExpired(c)
    /\ phase' = "handler"
    /\ ev' = c
    /\ UNCHANGED <<heapVars, active_time, live, uc, owner, now, batch, pc, k,
                   cur, then, refused>>

Cascade(op, c) == IF c \in Front /\ uc[c] # NULL THEN Call(op, uc[c]) ELSE Nothing

Activate(c) ==
    /\ active_time' = [active_time EXCEPT ![c] = now]
    /\ ShiftDownFrom(heap_idx[c], connections[heap_idx[c]])
    /\ then' = Cascade("activate", c)

\* Mutation of Expire: the heap is restored in the wrong direction.
ExpireDown(c) ==
    /\ active_time' = [active_time EXCEPT ![c] = now - Timeout - 1]
    /\ ShiftDownFrom(heap_idx[c], connections[heap_idx[c]])
    /\ then' = Cascade("expire", c)

Expire(c) ==
    /\ active_time' = [active_time EXCEPT ![c] = now - Timeout - 1]
    /\ ShiftUpFrom(heap_idx[c], connections[heap_idx[c]])
    /\ then' = Cascade("expire", c)

EndEvent ==
    /\ Ready
    /\ phase = "handler"
    /\ Activate(ev) \/ Expire(ev)
    /\ phase' = "loop"
    /\ ev' = NULL
    /\ UNCHANGED <<heapVars, live, uc, owner, now, batch, refused>>

\* The second half of a call that cascades from a connection to another.
PendingActivate ==
    /\ pc = "ready"
    /\ then.op = "activate"
    /\ Activate(then.conn)
    /\ UNCHANGED <<heapVars, live, uc, owner, now, batch, phase, ev, refused>>

PendingExpire ==
    /\ pc = "ready"
    /\ then.op = "expire"
    /\ Expire(then.conn)
    /\ UNCHANGED <<heapVars, live, uc, owner, now, batch, phase, ev, refused>>

PendingClose ==
    /\ pc = "ready"
    /\ then.op = "close"
    /\ then.conn \in live
    /\ Close(then.conn)
    /\ UNCHANGED <<now, batch, phase, ev, refused>>

-------------------------------------------------------------------------------
(* sy_connection_sweep, at the end of every batch of events.               *)

BeginSweep ==
    /\ Ready
    /\ phase = "loop"
    /\ phase' = "sweep"
    /\ UNCHANGED <<heapVars, active_time, live, uc, owner, now, batch, ev, pc, k,
                   cur, then, refused>>

\* Mutation of RootIsDue: the comparison of sy_connection_is_expired.
RootIsExpired == heap_size > 0 /\ IsExpired(connections[1])

\* ">=" here, "<" in sy_connection_is_expired: at equality a connection is
\* closed without having been expired.
RootIsDue ==
    heap_size > 0 /\ now >= active_time[connections[1]] + Timeout

SweepClose ==
    /\ Ready
    /\ phase = "sweep"
    /\ RootIsDue
    /\ connections[1] \in live
    /\ Close(connections[1])
    /\ UNCHANGED <<now, batch, phase, ev, refused>>

\* The next epoll_wait reports some of the connections that are open by now.
EndSweep ==
    /\ Ready
    /\ phase = "sweep"
    /\ ~RootIsDue
    /\ phase' = "loop"
    /\ batch' = live
    /\ UNCHANGED <<heapVars, active_time, live, uc, owner, now, ev, pc, k, cur,
                   then, refused>>

\* time(NULL) moves on between any two calls that read it.
Tick == /\ pc = "ready"
        /\ now < MaxNow
        /\ now' = now + 1
        /\ UNCHANGED <<heapVars, active_time, live, uc, owner, batch, phase, ev,
                       pc, k, cur, then, refused>>

-------------------------------------------------------------------------------
(* What a corrupt table leads to.                                          *)

\* The connection that sy_close_connection is called for next.
Closing(c) == \/ pc = "ready" /\ then = Call("close", c)
              \/ Ready /\ phase = "sweep" /\ RootIsDue /\ c = connections[1]

Ends(p) == /\ phase' = p
           /\ then' = Nothing
           /\ UNCHANGED <<heapVars, active_time, live, uc, owner, now, batch, ev,
                          pc, k, cur, refused>>

\* assert(heap_size > 0) of sy_connection_unregister.
Aborts(c) == Closing(c) /\ heap_size = 0 /\ Ends("aborted")

\* A connection is closed that was closed before: its descriptor and its struct
\* are someone else's, or are given back twice.
ClosedTwice(c) == Closing(c) /\ heap_size > 0 /\ c \notin live /\ Ends("wild")

Next == \/ \E c \in Conn : \/ Open(c, TRUE)
                           \/ Open(c, FALSE)
                           \/ OpenRefused(c)
                           \/ BeginEvent(c)
                           \/ Aborts(c) \/ ClosedTwice(c)
        \/ EndEvent
        \/ PendingActivate \/ PendingExpire \/ PendingClose
        \/ ShiftUp \/ ShiftDown
        \/ BeginSweep \/ SweepClose \/ EndSweep
        \/ Tick

Spec == Init /\ [][Next]_vars

-------------------------------------------------------------------------------
(* Properties.                                                             *)

Types ==
    /\ connections \in [Index -> Conn \cup {NULL}]
    /\ heap_size \in Index
    /\ heap_idx \in [Conn -> Int]
    /\ active_time \in [Conn -> Int]
    /\ live \subseteq Conn
    /\ uc \in [Front -> Back \cup {NULL}]
    /\ owner \in [Back -> Front \cup {NULL}]
    /\ now \in Nat
    /\ batch \subseteq Conn
    /\ phase \in {"loop", "handler", "sweep", "aborted", "wild"}
    /\ ev \in Conn \cup {NULL}
    /\ pc \in {"ready", "up", "down"}
    /\ k \in Index
    /\ cur \in Conn \cup {NULL}
    /\ then \in [op : {"none", "activate", "expire", "close"},
                 conn : Conn \cup {NULL}]
    /\ refused \in BOOLEAN

\* Besides the types: the heap_idx of an open connection is a position of the
\* array, after a refused registration too; before the first sift has set it, it
\* may be anything, and so it stays in a struct that was refused.
TypeOK == Types /\ \A c \in live : c # cur => heap_idx[c] \in Index

\* The array with the connection a sift loop carries put back into the hole.
Cell(i) == IF pc # "ready" /\ i = k THEN cur ELSE connections[i]

\* Outside the hole, the heap holds exactly the live connections, each at the
\* position its heap_idx says: what sy_connection_activate, expire and
\* unregister rely on when they start from c->heap_idx.  So no close runs into the
\* assertion of an empty heap, and none is of a connection closed before.
IndexExact ==
    ~refused =>
      /\ phase \notin {"aborted", "wild"}
      /\ \A i \in 1 .. heap_size : Cell(i) \in live
      /\ \A i \in 1 .. heap_size :
            ~(pc # "ready" /\ i = k) => heap_idx[Cell(i)] = i
      /\ \A c \in live : \E i \in 1 .. heap_size : Cell(i) = c

\* An upstream connection and the request it serves name each other, except
\* while one of the two is being closed: the cascades of activate, expire and
\* close follow r->uc, and the close of an upstream writes through c->r.
PairedUpstream ==
    ~refused /\ then.op # "close" =>
      \A f \in Front, b \in Back :
          uc[f] = b <=> (b \in live /\ owner[b] = f)

Max2(a, b) == IF a < b THEN b ELSE a

\* active_time as far as the sweep can tell: everything expired is alike.
Key(c) == Max2(active_time[c], now - Timeout - 1)

ClampedHeapOrder ==
    ~refused /\ pc = "ready" =>
      \A p, i \in 1 .. heap_size :
          i \in {L(p), R(p)} => Key(connections[p]) <= Key(connections[i])

\* When a sweep ends, no open connection is due: "expire" relies on it to have
\* the connection closed ("sweep later").
SweptClean ==
    ~refused /\ phase = "sweep" /\ Ready /\ ~RootIsDue =>
      \A c \in live : now < active_time[c] + Timeout

\* A table with room for every connection there can be is never full: closing
\* gives every slot back.
NeverRefused == ~refused

\* What assert(heap_size > 0) of sy_connection_unregister says: whatever is closed,
\* there is a connection in the heap.  It does not hold once a registration was
\* refused.
HeapNotEmpty == phase # "aborted"

-------------------------------------------------------------------------------
(* The abstract timer; what epoll refuses was never open.                  *)

opened == IF then.op = "close" /\ phase # "sweep" THEN live \ {then.conn} ELSE live

Timer == INSTANCE ExpiryQueue WITH live <- opened
TimerSpec == Timer!Spec

===============================================================================
