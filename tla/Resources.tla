------------------------------- MODULE Resources -------------------------------
(***************************************************************************)
(* What a worker holds while it serves: connection and request structs from *)
(* two pools, and descriptors of the kernel, of which it gets the lowest    *)
(* free one.  Worker and ConnTimer leave both out; here the order of events *)
(* is left out in return: any connection may be due in any sweep, and a     *)
(* request goes on whenever its fields allow it.                            *)
(*                                                                          *)
(* Of the table of connections only the set is kept: heap is what cells 1   *)
(* to heap_size hold.  A full table refuses a connection, and closing the   *)
(* refused one takes another out of the table, which goes adrift: it is     *)
(* open, and no sweep will find it.  ConnTimer has the cells; here the      *)
(* first call that reads a heap_idx that is no cell of its own ends the     *)
(* behaviour, with broken.                                                  *)
(*                                                                          *)
(* The operators take the worker before a call and return the worker after  *)
(* it, so that a handler is their composition.                              *)
(***************************************************************************)
EXTENDS Integers, FiniteSets, Sequences

CONSTANTS MaxFd,        \* RLIMIT_NOFILE, less what the worker opened when it started
          ChunkSize,    \* objects per chunk of both pools
          ConnSize, RequestSize,  \* sizeof(sy_connection_t), sizeof(sy_request_t)
          MaxConnection \* MAX_CONNECTION

ASSUME SizeAssumption ==
    /\ MaxFd \in Nat /\ ChunkSize \in Nat \ {0}
    /\ ConnSize \in Nat \ {0} /\ RequestSize \in Nat \ {0}
    /\ MaxConnection \in Nat \ {0}

\* An address that no chunk has.
NULL == [chunk |-> 0, at |-> 0]

C == INSTANCE Pool WITH Size <- ConnSize
Q == INSTANCE Pool WITH Size <- RequestSize

VARIABLES worker, \* open: the descriptors in use; connections, requests: the structs in use,
                  \* by address; connection_pool, request_pool
          heap,   \* the connections in the table
          broken  \* the table has been written through a heap_idx that is no cell of its own

vars == <<worker, heap, broken>>

Put(f, x, v) == [y \in DOMAIN f \cup {x} |-> IF y = x THEN v ELSE f[y]]
Without(f, x) == [y \in DOMAIN f \ {x} |-> f[y]]

Init == /\ worker = [open |-> {}, connections |-> <<>>, requests |-> <<>>,
                     connection_pool |-> C!EmptyPool, request_pool |-> Q!EmptyPool]
        /\ heap = {} /\ broken = FALSE

\* The descriptor a call of the kernel returns; none is left when CanOpen is false.
CanOpen(w) == w.open # 1 .. MaxFd
Fd(w) == CHOOSE d \in (1 .. MaxFd) \ w.open : \A e \in (1 .. MaxFd) \ w.open : d <= e
Opened(w) == [w EXCEPT !.open = @ \cup {Fd(w)}]

\* sy_request_init, for a request of connection c: its request line comes next.
Fresh(c) == [c |-> c, uc |-> NULL, resource_fd |-> -1, stage |-> "line"]

\* sy_open_connection, before it may be refused, with the descriptor accept(2) returned.
OpenFront(w) ==
    LET c == C!Next(w.connection_pool)
        r == Q!Next(w.request_pool)
    IN [open |-> w.open \cup {Fd(w)},
        connections |-> Put(w.connections, c, [fd |-> Fd(w), side |-> "front", r |-> r]),
        requests |-> Put(w.requests, r, Fresh(c)),
        connection_pool |-> C!Alloc(w.connection_pool),
        request_pool |-> Q!Alloc(w.request_pool)]

\* sy_uwsgi_open_connection from the connected socket on, and r->uc = its result.
OpenBack(w, r) ==
    LET c == C!Next(w.connection_pool)
    IN [open |-> w.open \cup {Fd(w)},
        connections |-> Put(w.connections, c, [fd |-> Fd(w), side |-> "back", r |-> r]),
        requests |-> [w.requests EXCEPT ![r].uc = c],
        connection_pool |-> C!Alloc(w.connection_pool),
        request_pool |-> w.request_pool]

\* sy_close_connection of an upstream connection.
CloseBack(w, c) ==
    [open |-> w.open \ {w.connections[c].fd},
     connections |-> Without(w.connections, c),
     requests |-> [w.requests EXCEPT ![w.connections[c].r].uc = NULL],
     connection_pool |-> C!Free(w.connection_pool, c),
     request_pool |-> w.request_pool]

\* The upstream of a front is closed in the middle of the front's own closing.
CloseUpstream(w, r) ==
    IF w.requests[r].uc = NULL THEN w ELSE CloseBack(w, w.requests[r].uc)

\* sy_close_connection of a client connection; it does not look at resource_fd.
CloseFront(w, c) ==
    LET r == w.connections[c].r
        v == CloseUpstream(w, r)
    IN [open |-> v.open \ {w.connections[c].fd},
        connections |-> Without(v.connections, c),
        requests |-> Without(v.requests, r),
        connection_pool |-> C!Free(v.connection_pool, c),
        request_pool |-> Q!Free(v.request_pool, r)]

\* sy_close_connection
Close(w, c) == IF w.connections[c].side = "front" THEN CloseFront(w, c) ELSE CloseBack(w, c)

-------------------------------------------------------------------------------

\* The connection c, opened last, finds room in the table; epoll_ctl may still refuse it,
\* and then it is closed as any other.
Entered(w, c) == /\ Cardinality(heap) < MaxConnection
                 /\ \/ worker' = w /\ heap' = heap \cup {c}
                    \/ worker' = Close(w, c) /\ heap' = heap
                 /\ broken' = broken

\* The table is full.  sy_close_connection takes c out of a table it never came into: the
\* cell its heap_idx names, whatever malloc or an earlier use of the struct left there,
\* gives up the connection d it holds.  Index 0 may also make sy_heap_shift_down run for
\* ever, and an index outside the array writes anywhere.
Refused(w, c) == /\ Cardinality(heap) = MaxConnection
                 /\ worker' = Close(w, c)
                 /\ \/ \E d \in heap : heap' = heap \ {d} /\ broken' = broken
                    \/ heap' = heap /\ broken' = TRUE

\* sy_accept_connection, one turn of its loop.  It ends where no descriptor is left.
Accept == /\ CanOpen(worker)
          /\ LET w == OpenFront(worker)
                 c == C!Next(worker.connection_pool)
             IN Entered(w, c) \/ Refused(w, c)

\* The connections that no sweep will find, and the requests of which one is adrift: the
\* front of the request or its upstream.
Adrift == DOMAIN worker.connections \ heap
Astray(r) == \E c \in Adrift : worker.connections[c].r = r

\* sy_request_handle_uri is reached once for every request.
Begun(w, r) == [w EXCEPT !.requests[r].stage = "begun"]

\* A location with pass: there may be no socket, no connection, or no place for it.
Pass(r) ==
    /\ worker.requests[r].stage = "line" /\ ~Astray(r)
    /\ LET w == Begun(worker, r)
           v == OpenBack(w, r)
           c == C!Next(w.connection_pool)
       IN \/ worker' \in {w} \cup (IF CanOpen(w) THEN {Opened(w)} ELSE {}) /\ UNCHANGED <<heap, broken>>
          \/ CanOpen(w) /\ (Entered(v, c) \/ Refused(v, c))

\* Mutation of IndexOf: the directory stays open.
IndexOfKept(w, r) ==
    LET v == Opened(w)
    IN IF CanOpen(v) THEN [Opened(v) EXCEPT !.requests[r].resource_fd = Fd(v)] ELSE w

\* openat(fd, "index.html") where fd is a directory, which is closed after it.
IndexOf(w, r) ==
    LET v == Opened(w)
    IN IF CanOpen(v) THEN [w EXCEPT !.open = @ \cup {Fd(v)}, !.requests[r].resource_fd = Fd(v)]
       ELSE w

\* A location of files: a file, a directory with an index, or an error page.
Open(r) ==
    /\ worker.requests[r].stage = "line" /\ ~Astray(r)
    /\ LET w == Begun(worker, r)
       IN worker' \in {w} \cup IF ~CanOpen(w) THEN {}
                               ELSE {[Opened(w) EXCEPT !.requests[r].resource_fd = Fd(w)],
                                     IndexOf(w, r)}
    /\ UNCHANGED <<heap, broken>>

\* Mutation of Sent: the request keeps the number of the file it has closed.
SentKeeps(w, r) == [w EXCEPT !.open = @ \ {w.requests[r].resource_fd}]

\* sy_send_response_file at the end of the file; without a file there is only the buffer.
Sent(w, r) == [w EXCEPT !.open = @ \ {w.requests[r].resource_fd},
                        !.requests[r].resource_fd = -1]

\* sy_handle_response with the response done: sy_request_clear, or nothing more until the
\* connection is closed.  keep_alive is set behind the request line only, and a request
\* with an upstream is not done.
Respond(r) ==
    /\ worker.requests[r].uc = NULL
    /\ worker.requests[r].stage # "over" /\ ~Astray(r)
    /\ LET w == Sent(worker, r)
       IN worker' \in {[w EXCEPT !.requests[r].stage = "over"]} \cup
                      IF worker.requests[r].stage = "line" THEN {}
                      ELSE {[w EXCEPT !.requests[r] = Fresh(@.c)]}
    /\ UNCHANGED <<heap, broken>>

\* sy_connection_sweep closes a connection that is due; its upstream, if any, is in the
\* table too.
Sweep(c) == /\ worker.connections[c].side = "front" => ~Astray(worker.connections[c].r)
            /\ worker' = Close(worker, c)
            /\ heap' = heap \cap DOMAIN worker'.connections
            /\ UNCHANGED broken

\* An event of a connection adrift, or of its front, or the close of its front: it is
\* activated, expired or closed by the heap_idx of a cell that is another's.
Stray == Adrift # {} /\ broken' = TRUE /\ UNCHANGED <<worker, heap>>

Next == /\ ~broken
        /\ \/ Accept
           \/ \E r \in DOMAIN worker.requests : Pass(r) \/ Open(r) \/ Respond(r)
           \/ \E c \in heap : Sweep(c)
           \/ Stray

Spec == Init /\ [][Next]_vars

-------------------------------------------------------------------------------

Connections(w) == DOMAIN w.connections
Requests(w) == DOMAIN w.requests
Files(w) == {w.requests[r].resource_fd : r \in Requests(w)} \ {-1}
Sockets(w) == {w.connections[c].fd : c \in Connections(w)}

\* A number of a descriptor stands in one place only and is open there: nothing is sent to
\* a client, read from an upstream or taken for a file through a number the kernel has
\* given to another since (connection.c:75, request.c:234-235).
DescriptorsDistinct ==
    /\ Files(worker) \cup Sockets(worker) \subseteq worker.open
    /\ Files(worker) \cap Sockets(worker) = {}
    /\ \A c, d \in Connections(worker) :
          worker.connections[c].fd = worker.connections[d].fd => c = d
    /\ \A r, s \in Requests(worker) :
          worker.requests[r].resource_fd = worker.requests[s].resource_fd
             => r = s \/ worker.requests[r].resource_fd = -1

\* However connections come and go, with their upstreams closed before, with or after
\* them or never opened: every struct of the two pools is in use or on the free list,
\* once, and nallocated is how many are in use (mempool.c:50-67, 79-86).
PoolsExact ==
    /\ C!Exact(worker.connection_pool, Connections(worker))
    /\ Q!Exact(worker.request_pool, Requests(worker))
    /\ worker.connection_pool.nallocated = Cardinality(Connections(worker))
    /\ worker.request_pool.nallocated = Cardinality(Requests(worker))

\* Two structs in use never share memory (mempool.c:12-17, 56).
ObjectsApart ==
    /\ C!Apart(worker.connection_pool, Connections(worker))
    /\ Q!Apart(worker.request_pool, Requests(worker))

\* A descriptor is left open for good, because nothing names it or because no sweep will
\* find the connection that does, by three steps only: a request whose upstream could not
\* be reached (connection.c:46-49), a client connection that closes with a file half sent
\* (connection.c:80), and a connection that goes adrift when a full table refuses another
\* (connection.c:22-25, 57-60, 172).
HeldBy(w, c) ==
    {w.connections[c].fd} \cup
    IF w.connections[c].side = "front" THEN {w.requests[w.connections[c].r].resource_fd} ELSE {}
Lost(w) == w.open \ (Files(w) \cup Sockets(w))
Unswept(w, h) == w.open \cap UNION {HeldBy(w, c) : c \in Connections(w) \ h}
Unreached(d) == /\ d \notin worker.open
                /\ \E r \in Requests(worker) :
                      /\ worker.requests[r].stage = "line"
                      /\ worker'.requests = [worker.requests EXCEPT ![r].stage = "begun"]
HalfSent(d) == \E r \in Requests(worker) \ Requests(worker') : worker.requests[r].resource_fd = d
Dropped(d) == /\ Cardinality(heap) = MaxConnection
              /\ \E c \in heap \ heap' : c \in Connections(worker') /\ d \in HeldBy(worker, c)
NoOtherLeak == [][/\ \A d \in Lost(worker') : d \in Lost(worker) \/ Unreached(d) \/ HalfSent(d)
                  /\ \A d \in Unswept(worker', heap') : d \in Unswept(worker, heap) \/ Dropped(d)]_vars

\* Every open connection is in the table, where the sweep finds it.
NoneAdrift == ~broken /\ heap = Connections(worker)
=================================================================================
