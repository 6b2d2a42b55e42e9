-------------------------------- MODULE Worker --------------------------------
(***************************************************************************)
(* One worker process: the event loop of server.c with the handlers of     *)
(* request.c and response.c, the interest each connection registers with   *)
(* epoll, and the timer of connection.c.                                   *)
(*                                                                         *)
(* The timer is ExpiryQueue with the time since a connection was last      *)
(* active in place of time stamps (they say the same as long as nothing    *)
(* but differences is looked at), so that the clock needs no bound.  A     *)
(* request lives and dies with its front connection, r->c, and is named by *)
(* it.  The text of requests and pages is reduced to what the handlers     *)
(* tell apart; one step receives at most one piece of a request, because   *)
(* the parsers keep their state between pieces.                            *)
(***************************************************************************)
EXTENDS Integers

CONSTANTS Front, Back,   \* slots for client and upstream connections
          NULL,
          Timeout,       \* server_cfg.timeout
          Recognised,    \* the headers sy_map_get finds in header_map
          RbCap, SbCap,  \* BUF_SIZE, in pieces of a request and in pages
          FileSize       \* a resource, in what one sendfile takes

Header == {"close", "coding", "unknown_coding", "length", "bad_length"}

ASSUME SlotAssumption == Front \cap Back = {} /\ NULL \notin Front \cup Back
ASSUME HeaderAssumption == Recognised \subseteq Header
ASSUME BoundAssumption ==
    Timeout \in Nat /\ RbCap \in Nat \ {0} /\ SbCap \in Nat \ {0} /\ FileSize \in Nat

Conn == Front \cup Back
Bit == {"in", "out"}

VARIABLES live,     \* open connections
          idle,     \* time since active_time, no more than Timeout + 1
          uc,       \* r->uc
          owner,    \* c->r of an upstream connection
          req,      \* the request of a front connection, with r->c->event.events
          passing,  \* whether an upstream connection has EPOLLOUT; it has EPOLLIN
          hungup,   \* the peer has closed: what is left to receive is the end
          batch,    \* events[]: what of it is still to be handled
          turn,     \* the connection whose EPOLLIN half was just handled
          phase,    \* "wait", "batch", "sweep", or "aborted"
          fault     \* what the worker died of: an assertion, a pointer; or "none"

vars == <<live, idle, uc, owner, req, passing, hungup, batch, turn, phase, fault>>
linkVars == <<live, uc, owner>>
loopVars == <<batch, turn, phase, fault>>

\* sy_request_init.
Fresh == [on |-> {"in"},          \* r->c->event.events
          in |-> "line",          \* in_handler
          state |-> "line",       \* r->state: an RL_ or an HL_ state
          out |-> "buffer",       \* out_handler
          keep_alive |-> FALSE,
          body_done |-> FALSE,
          coding |-> "identity",  \* t_encoding
          body |-> FALSE,         \* content_length > 0
          file |-> FALSE,         \* resource_fd # -1
          left |-> 0,             \* of the file, still to be sent
          rb |-> 0,               \* pieces received since rb was cleared
          sb |-> 0,               \* pages appended since sb was cleared
          sent |-> 0,             \* half pages of them sent
          replies |-> 0]          \* replies begun by this request (history)

On(c) == IF c \in Front THEN req[c].on
         ELSE {"in"} \cup IF passing[c] THEN {"out"} ELSE {}

IsExpired(c) == idle[c] > Timeout
IsDue(c) == idle[c] >= Timeout

Init == /\ live = {}
        /\ idle = [c \in Conn |-> 0]
        /\ uc = [f \in Front |-> NULL]
        /\ owner = [b \in Back |-> NULL]
        /\ req = [f \in Front |-> Fresh]
        /\ passing = [b \in Back |-> FALSE]
        /\ hungup = [c \in Conn |-> FALSE]
        /\ batch = [c \in Conn |-> {}]
        /\ turn = NULL
        /\ phase = "wait"
        /\ fault = "none"

-------------------------------------------------------------------------------
(* What the handlers have in common.                                       *)

\* The next half of the event of c: EPOLLIN before EPOLLOUT.
Take(c, bit) ==
    /\ phase = "batch"
    /\ turn \in {NULL, c}
    /\ bit \in batch[c]
    /\ bit = "out" => "in" \notin batch[c]
    /\ batch' = [batch EXCEPT ![c] = @ \ {bit}]
    /\ turn' = IF bit = "in" /\ "out" \in batch[c] THEN c ELSE NULL

\* Mutation of Begin: is_expired is not asked.
BeginExpired(c, bit) == Take(c, bit)

Begin(c, bit) == Take(c, bit) /\ ~IsExpired(c)

\* Back in main: activate or expire, for the upstream of a front as well.
Touch(c, t) ==
    idle' = [d \in Conn |->
               IF d = c \/ (c \in Front /\ uc'[c] = d) THEN t ELSE idle[d]]
Activate(c) == Touch(c, 0) /\ UNCHANGED <<phase, fault>>
Expire(c) == Touch(c, Timeout + 1) /\ UNCHANGED <<phase, fault>>

Abort(what) ==
    /\ phase' = "aborted"
    /\ fault' = what
    /\ UNCHANGED <<linkVars, idle, req, passing, hungup>>

\* Mutation of Append: EPOLLIN stays on.
AppendListening(r, n) == [r EXCEPT !.sb = @ + n, !.replies = IF @ + n < 2 THEN @ + n ELSE 2,
                                   !.on = @ \cup {"out"}, !.body_done = TRUE]

\* n replies go to the end of sb.  More than two are not told apart.
Append(r, n) == [r EXCEPT !.sb = @ + n,
                          !.replies = IF @ + n < 2 THEN @ + n ELSE 2,
                          !.on = {"out"}, !.body_done = TRUE]

\* sy_response_build_err, n times.
ErrPages(r, n) == [Append(r, n) EXCEPT !.keep_alive = FALSE]

\* Mutation of Full: no limit.
NeverFull(r) == FALSE

Full(r) == r.sb >= SbCap

\* A handler that ends with the request r of f, having appended a page to it.
Reply(f, r) == /\ req' = [req EXCEPT ![f] = r]
               /\ UNCHANGED <<linkVars, passing, hungup>>
               /\ Activate(f)

BuildErr(f, r) == IF Full(r) THEN Abort("append") ELSE Reply(f, ErrPages(r, 1))

-------------------------------------------------------------------------------
(* sy_handle_request: EPOLLIN on a front connection.                       *)

\* sy_request_handle_request_line; "part" is text that completes nothing, "port" the
\* line of a URI with a host and a port, whose port.data is NULL + 1: atoi reads it.
LinePiece == {"part", "bad", "port", "error", "file", "pass"}

RequestLine(f, r, piece) ==
    LET line(keep) == [r EXCEPT !.state = "header", !.in = "headers",
                                !.keep_alive = keep]
    IN  \/ r.state = "header" /\ Abort("request_line")
        \/ /\ r.state = "line"
           /\ \/ piece = "part" /\ Reply(f, r)
              \/ piece = "bad" /\ BuildErr(f, r)
              \/ piece = "port" /\ Abort("pointer")
              \* 404 or 403; 505 comes before in_handler is set
              \/ piece = "error" /\ \E h \in {"line", "headers"} :
                    BuildErr(f, [line(FALSE) EXCEPT !.in = h])
              \/ /\ piece = "file"
                 /\ \E keep \in BOOLEAN :
                       Reply(f, [line(keep) EXCEPT !.file = TRUE, !.left = FileSize])
              \/ piece = "pass" /\ BuildErr(f, line(FALSE))
              \/ /\ piece = "pass"
                 /\ \E b \in Back \ live, keep \in BOOLEAN :
                       /\ live' = live \cup {b}
                       /\ uc' = [uc EXCEPT ![f] = b]
                       /\ owner' = [owner EXCEPT ![b] = f]
                       /\ req' = [req EXCEPT ![f] = line(keep)]
                       /\ UNCHANGED <<passing, hungup>>
                       /\ Activate(f)

\* The end of sy_request_handle_body when the request is complete.  sy_response_build
\* looks for the type of the file: where the path ends in an entry without a dot, the
\* name it looks for is at NULL + 1.
BodyDone(f, r) ==
    LET q == [r EXCEPT !.on = @ \ {"in"}, !.body_done = TRUE, !.in = "line"]
    IN  IF uc[f] = NULL
        THEN IF Full(r) THEN Abort("append")
             ELSE Abort("pointer") \/ Reply(f, [Append(q, 1) EXCEPT !.rb = 0])
        ELSE /\ req' = [req EXCEPT ![f] = q]
             /\ passing' = [passing EXCEPT ![uc[f]] = TRUE]
             /\ UNCHANGED <<linkVars, hungup>>
             /\ Activate(f)

\* ... and when it is not.
BodyAgain(f, r) ==
    IF uc[f] = NULL
    THEN Abort("null_upstream")
    ELSE /\ req' = [req EXCEPT ![f] = [r EXCEPT !.on = @ \ {"in"}, !.in = "body"]]
         /\ passing' = [passing EXCEPT ![uc[f]] = TRUE]
         /\ UNCHANGED <<linkVars, hungup>>
         /\ Activate(f)

EndOfHeaders(f, r) ==
    \/ r.coding # "identity" /\ Abort("coding")
    \/ r.coding = "identity" /\ r.body /\ BodyAgain(f, r)
    \/ r.coding = "identity" /\ ~r.body /\ BodyDone(f, r)

\* Headers that get an error page: the handler goes on with what was received, and
\* that may be more of them, and the end.  body_done keeps the body from its handler.
BadHeaders(f, r) ==
    \E n \in 1 .. RbCap, h \in {"headers", "body"} :
       IF r.sb + n > SbCap THEN Abort("append")
       ELSE Reply(f, [ErrPages(r, n) EXCEPT !.in = h])

\* sy_request_handle_headers: a header that is not recognised is a "part".
HeaderPiece == {"part", "end"} \cup Recognised

Headers(f, r, piece) ==
    \/ piece = "part" /\ Reply(f, r)
    \/ piece = "close" /\ Reply(f, [r EXCEPT !.keep_alive = FALSE])
    \/ piece = "coding" /\ Reply(f, [r EXCEPT !.coding = "other"])
    \/ piece = "length" /\ Reply(f, [r EXCEPT !.body = TRUE])
    \/ piece \in {"unknown_coding", "bad_length"} /\ BadHeaders(f, r)
    \/ piece = "end" /\ EndOfHeaders(f, r)

HangUp(c) == hungup' = [hungup EXCEPT ![c] = TRUE]

HandleRequest(f) ==
    LET r == [req[f] EXCEPT !.rb = @ + 1]
    IN  /\ Begin(f, "in")
        \* rb is full: nothing is received, and the parser finds nothing new
        /\ \/ req[f].rb >= RbCap /\ Reply(f, req[f])
           \* the client has closed, or recv fails: what came with it is dropped
           \/ /\ req[f].rb < RbCap
              /\ HangUp(f)
              /\ UNCHANGED <<linkVars, req, passing>>
              /\ Expire(f)
           \/ /\ req[f].rb < RbCap /\ ~hungup[f]
              /\ \/ r.in = "line" /\ \E p \in LinePiece : RequestLine(f, r, p)
                 \/ r.in = "headers" /\ \E p \in HeaderPiece : Headers(f, r, p)
                 \/ r.in = "body" /\ (BodyAgain(f, r) \/ BodyDone(f, r))

-------------------------------------------------------------------------------
(* sy_handle_response: EPOLLOUT on a front connection.                     *)

\* Mutation of ResponseDone: the next request finds the parser where this left it.
ResponseDoneKeepsState(f, r) ==
    /\ UNCHANGED <<linkVars, passing, hungup>>
    /\ IF r.keep_alive
       THEN req' = [req EXCEPT ![f] = [Fresh EXCEPT !.state = r.state]] /\ Activate(f)
       ELSE req' = [req EXCEPT ![f] = r] /\ Expire(f)

\* response_done, and not keep_alive: the handler returns ERROR.
ResponseDone(f, r) ==
    /\ UNCHANGED <<linkVars, passing, hungup>>
    /\ IF r.keep_alive
       THEN req' = [req EXCEPT ![f] = Fresh] /\ Activate(f)
       ELSE req' = [req EXCEPT ![f] = r] /\ Expire(f)

\* A send or sendfile fails.
Broken(f, r) == /\ req' = [req EXCEPT ![f] = r]
                /\ UNCHANGED <<linkVars, passing, hungup>>
                /\ Expire(f)

\* sy_send_response_file, called with a socket that takes something or with one
\* that the page before the file may have filled.
SendFile(f, r, took) ==
    IF uc[f] # NULL THEN Abort("file_upstream")
    ELSE \/ Broken(f, r)
         \/ \E n \in 0 .. r.left :
               n > 0 /\ (took => n < r.left) /\ Reply(f, [r EXCEPT !.left = n])
         \/ ResponseDone(f, [r EXCEPT !.file = FALSE, !.left = 0])

\* Mutations of SendBuffer: b->begin does not advance; r->uc is not asked for.
SendBufferAgain(f, r) ==
    \/ r.sb > 0 /\ Broken(f, r)
    \/ Reply(f, r)
    \/ ResponseDone(f, [r EXCEPT !.sb = 0, !.sent = 0, !.on = @ \ {"out"}])

SendBufferAlone(f, r) ==
    \/ r.sb > 0 /\ Broken(f, r)
    \/ \E n \in r.sent + 1 .. 2 * r.sb - 1 : Reply(f, [r EXCEPT !.sent = n])
    \/ LET q == [r EXCEPT !.sb = 0, !.sent = 0]
       IN  \/ r.file /\ SendFile(f, [q EXCEPT !.out = "file"], FALSE)
           \/ ~r.file /\ ResponseDone(f, [q EXCEPT !.on = @ \ {"out"}])

\* sy_send_response_buffer; what follows it in the same call if it returns OK.
SendBuffer(f, r) ==
    \/ r.sb > 0 /\ Broken(f, r)
    \/ \E n \in r.sent + 1 .. 2 * r.sb - 1 : Reply(f, [r EXCEPT !.sent = n])
    \/ LET q == [r EXCEPT !.sb = 0, !.sent = 0]
       IN  \/ uc[f] # NULL /\ Reply(f, q)
           \/ uc[f] = NULL /\ r.file /\ SendFile(f, [q EXCEPT !.out = "file"], FALSE)
           \/ /\ uc[f] = NULL /\ ~r.file
              /\ ResponseDone(f, [q EXCEPT !.on = @ \ {"out"}])

HandleResponse(f) ==
    /\ Begin(f, "out")
    /\ \/ req[f].out = "buffer" /\ SendBuffer(f, req[f])
       \/ req[f].out = "file" /\ SendFile(f, req[f], TRUE)

-------------------------------------------------------------------------------
(* The upstream side.                                                      *)

\* The 503 page for the request of b, whose connection is to be closed.
UpstreamFails(b) ==
    LET f == owner[b]
    IN  IF Full(req[f]) THEN Abort("append")
        ELSE /\ req' = [req EXCEPT ![f] = ErrPages(req[f], 1)]
             /\ UNCHANGED <<linkVars, passing, hungup>>
             /\ Expire(b)

\* sy_handle_upstream: EPOLLIN on an upstream connection.
HandleUpstream(b) ==
    LET f == owner[b]
        r == req[f]
        answer(n) == /\ req' = [req EXCEPT ![f].sb = n, ![f].on = @ \cup {"out"}]
                     /\ UNCHANGED <<linkVars, passing, hungup>>
                     /\ Activate(b)
    IN  /\ Begin(b, "in")
        /\ \/ Full(r) /\ answer(r.sb)
           \/ ~Full(r) /\ ~hungup[b] /\ \E n \in r.sb + 1 .. SbCap : answer(n)
           \* the end, with or without data: nobody is told of the data
           \/ /\ ~Full(r)
              /\ \E n \in r.sb .. (IF hungup[b] THEN r.sb ELSE SbCap - 1) :
                    req' = [req EXCEPT ![f].sb = n]
              /\ HangUp(b)
              /\ UNCHANGED <<linkVars, passing>>
              /\ Expire(b)
           \/ ~Full(r) /\ ~hungup[b] /\ UpstreamFails(b)

\* sy_handle_pass: EPOLLOUT on an upstream connection.
HandlePass(b) ==
    LET f == owner[b]
    IN  /\ Begin(b, "out")
        /\ \/ /\ req' = [req EXCEPT ![f].rb = 0, ![f].on = @ \cup {"in"}]
              /\ passing' = [passing EXCEPT ![b] = FALSE]
              /\ UNCHANGED <<linkVars, hungup>>
              /\ Activate(b)
           \/ UNCHANGED <<linkVars, req, passing, hungup>> /\ Activate(b)
           \/ UpstreamFails(b)

-------------------------------------------------------------------------------
(* main: the event loop.                                                   *)

\* epoll_wait.  A socket whose peer has closed stays readable.
Wait ==
    /\ phase = "wait"
    /\ phase' = "batch"
    /\ batch' \in [Conn -> SUBSET Bit]
    /\ \A c \in Conn : /\ batch'[c] \subseteq IF c \in live THEN On(c) ELSE {}
                       /\ c \in live /\ hungup[c] /\ "in" \in On(c) => "in" \in batch'[c]
    /\ UNCHANGED <<linkVars, idle, req, passing, hungup, turn, fault>>

\* sy_accept_connection takes a client (where it fails, nothing is left of it).
Accept(f) ==
    /\ phase = "batch" /\ turn = NULL
    /\ f \notin live
    /\ live' = live \cup {f}
    /\ idle' = [idle EXCEPT ![f] = 0]
    /\ req' = [req EXCEPT ![f] = Fresh]
    /\ UNCHANGED <<uc, owner, passing, hungup, loopVars>>

\* An expired connection is not handled.
Skip(c) == /\ \E bit \in Bit : Take(c, bit)
           /\ IsExpired(c)
           /\ UNCHANGED <<linkVars, idle, req, passing, hungup, phase, fault>>

EndBatch == /\ phase = "batch"
            /\ \A c \in Conn : batch[c] = {}
            /\ phase' = "sweep"
            /\ UNCHANGED <<linkVars, idle, req, passing, hungup, batch, turn, fault>>

\* Mutation of Close: the upstream of a front connection stays open.
CloseAlone(c) ==
    /\ live' = live \ {c}
    /\ uc' = [f \in Front |-> IF f = c \/ uc[f] = c THEN NULL ELSE uc[f]]
    /\ owner' = [b \in Back |-> IF b = c THEN NULL ELSE owner[b]]
    /\ req' = [f \in Front |-> IF f = c THEN Fresh ELSE req[f]]
    /\ passing' = [b \in Back |-> b # c /\ passing[b]]
    /\ hungup' = [hungup EXCEPT ![c] = FALSE]
    /\ idle' = [idle EXCEPT ![c] = 0]

\* sy_close_connection, with the upstream of a front.  The structs go back to
\* their pools; what they held is forgotten here because opening writes it anew.
Close(c) ==
    LET gone == {c} \cup IF c \in Front /\ uc[c] # NULL THEN {uc[c]} ELSE {}
    IN  /\ live' = live \ gone
        /\ uc' = [f \in Front |-> IF f \in gone \/ uc[f] \in gone THEN NULL ELSE uc[f]]
        /\ owner' = [b \in Back |-> IF b \in gone THEN NULL ELSE owner[b]]
        /\ req' = [f \in Front |-> IF f \in gone THEN Fresh ELSE req[f]]
        /\ passing' = [b \in Back |-> b \notin gone /\ passing[b]]
        /\ hungup' = [d \in Conn |-> d \notin gone /\ hungup[d]]
        /\ idle' = [d \in Conn |-> IF d \in gone THEN 0 ELSE idle[d]]

\* Mutation of SweepClose: "==" for ">=".
SweepCloseOnTime(c) == /\ phase = "sweep"
                       /\ c \in live
                       /\ idle[c] = Timeout
                       /\ Close(c)
                       /\ UNCHANGED loopVars

SweepClose(c) == /\ phase = "sweep"
                 /\ c \in live
                 /\ IsDue(c)
                 /\ Close(c)
                 /\ UNCHANGED loopVars

\* sy_connection_sweep stops at the first root that is not due.  Without upstream
\* connections nothing is due then; with them the heap may hide what is due.
EndSweep == /\ phase = "sweep"
            /\ \/ \A c \in live : ~IsDue(c)
               \/ Back # {} /\ \E c \in live : ~IsDue(c)
            /\ phase' = "wait"
            /\ UNCHANGED <<linkVars, idle, req, passing, hungup, batch, turn, fault>>

Tick == /\ phase # "aborted"
        /\ idle' = [c \in Conn |-> IF c \in live /\ ~IsExpired(c) THEN idle[c] + 1
                                                                  ELSE idle[c]]
        /\ UNCHANGED <<linkVars, req, passing, hungup, loopVars>>

Handle == \/ \E f \in Front : HandleRequest(f) \/ HandleResponse(f)
          \/ \E b \in Back : HandleUpstream(b) \/ HandlePass(b)
          \/ \E c \in Conn : Skip(c)

Loop == Wait \/ Handle \/ EndBatch \/ (\E c \in Conn : SweepClose(c)) \/ EndSweep

Next == Loop \/ (\E f \in Front : Accept(f)) \/ Tick

\* The loop runs as long as it can, time passes; a sweep that could close a
\* connection again and again does so once.
Fairness == /\ WF_vars(Loop)
            /\ WF_vars(Tick)
            /\ \A c \in Conn : SF_vars(SweepClose(c))

Spec == Init /\ [][Next]_vars
FairSpec == Spec /\ Fairness

-------------------------------------------------------------------------------
(* Properties.                                                             *)

TypeOK ==
    /\ live \subseteq Conn
    /\ idle \in [Conn -> 0 .. Timeout + 1]
    /\ uc \in [Front -> Back \cup {NULL}]
    /\ owner \in [Back -> Front \cup {NULL}]
    /\ req \in [Front -> [on : SUBSET Bit, in : {"line", "headers", "body"},
                          state : {"line", "header"}, out : {"buffer", "file"},
                          keep_alive : BOOLEAN, body_done : BOOLEAN,
                          coding : {"identity", "other"}, body : BOOLEAN,
                          file : BOOLEAN, left : 0 .. FileSize, rb : 0 .. RbCap,
                          sb : 0 .. SbCap, sent : 0 .. 2 * SbCap,
                          replies : 0 .. 2]]
    /\ passing \in [Back -> BOOLEAN]
    /\ hungup \in [Conn -> BOOLEAN]
    /\ batch \in [Conn -> SUBSET Bit]
    /\ turn \in Conn \cup {NULL}
    /\ phase \in {"wait", "batch", "sweep", "aborted"}
    /\ fault \in {"none", "append", "request_line", "null_upstream", "coding",
                  "file_upstream", "pointer"}

\* events[] holds pointers to connections, r->uc and c->r point at each other: none
\* of them dangles, because connections are closed only after a batch.
NothingDangles ==
    /\ \A c \in Conn : batch[c] # {} => c \in live
    /\ \A f \in Front : uc[f] # NULL => f \in live /\ uc[f] \in live /\ owner[uc[f]] = f
    /\ \A b \in Back : b \in live => owner[b] \in live /\ uc[owner[b]] = b

\* A request is served by a file or by an upstream connection, never by both: what
\* assert(!r->uc) in sy_send_response_file says.
FileOrUpstream ==
    \A f \in Front : req[f].file \/ req[f].out = "file" => uc[f] = NULL

\* Without upstream connections, a request is answered once, and until the answer
\* is out the client is not listened to.
HalfDuplex ==
    \A f \in live \cap Front : ~IsExpired(f) =>
       /\ req[f].replies <= 1
       /\ req[f].on = IF req[f].replies = 1 THEN {"out"} ELSE {"in"}
       /\ req[f].body_done <=> req[f].replies = 1

\* No assertion of the handlers fails, and no r->uc is followed that is NULL.  Two
\* pointers of the URI are NULL + 1 when they are followed: the worker dies of these.
NoAbort == fault \in {"none", "pointer"}

Clears(f) == /\ f \in live \cap live'
             /\ req[f].in # "line" \/ req[f].body_done
             /\ req'[f] = Fresh

\* sy_request_clear keeps r->uc: there is none to keep, or the next request of the
\* client would be answered by the upstream of this one.
ClearedAlone == [][\A f \in Front : Clears(f) => uc[f] = NULL /\ uc'[f] = NULL]_vars

\* What is expired is closed by a sweep before its client is served again.
ExpiredForGood ==
    [][\A f \in live \cap Front :
          IsExpired(f) /\ f \in live' => IsExpired(f)' /\ req'[f].sent = req[f].sent]_vars

\* Every expired client connection is closed, unless the worker dies.
ExpiredIsClosed ==
    \A f \in Front :
       f \in live /\ IsExpired(f) ~> f \notin live \/ phase = "aborted"

\* A client that asked for something is answered, or its connection is closed, unless
\* the worker dies.
Answered ==
    \A f \in Front : f \in live /\ req[f].body_done
                        ~> f \notin live \/ ~req[f].body_done \/ phase = "aborted"

\* A client connection that waits for nothing any more is closed.
DeafIsClosed ==
    \A f \in Front : f \in live /\ req[f].on = {} /\ uc[f] = NULL ~> f \notin live

\* An upstream connection is closed once its peer has closed it.
UpstreamIsClosed ==
    \A b \in Back : b \in live /\ hungup[b] ~> b \notin live \/ phase = "aborted"

\* What assert(false) in sy_parse_request_line says: the parser is only called when
\* a request may begin.
RequestMayBegin == fault # "request_line"

===============================================================================
