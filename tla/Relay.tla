--------------------------------- MODULE Relay ---------------------------------
(***************************************************************************)
(* One proxied request, byte by byte: what a client sends goes through the *)
(* receive buffer to the upstream, what the upstream answers through the   *)
(* send buffer to the client.  Worker counts pieces and pages; here the    *)
(* bytes are numbered, and the buffers have the begin, the end and the     *)
(* limit of base/buffer.h.                                                 *)
(*                                                                         *)
(* The first byte of a request is its request line, the bytes up to        *)
(* msg.head are its headers, msg.length bytes of body follow.  A page      *)
(* (sy_response_build, sy_response_build_err) is one byte, with number 0.  *)
(* The exchange is over when the client connection is closed or ready for  *)
(* another request.  A connection may be idle for too long in any sweep.   *)
(***************************************************************************)
EXTENDS Integers, Sequences, SequencesExt, FiniteSetsExt

CONSTANTS Buf,        \* BUF_SIZE
          Heads, Bodies, Replies   \* the lengths of the messages

ASSUME SizeAssumption ==
    /\ Buf \in Nat \ {0} /\ Heads \subseteq Nat \ {0}
    /\ Bodies \subseteq Nat /\ Replies \subseteq Nat

VARIABLES msg,       \* the messages of this exchange; found: content_length is recognised
          client, upstream, \* a peer: bytes written, bytes taken by recv, how it has closed
          stage,     \* in_handler; "done" is the request line of a next request
          counted,   \* r->body_received
          rb, sb,    \* the buffers: bytes from data to end, and begin
          on,        \* r->c->event.events
          pon,       \* EPOLLOUT of the upstream connection, which always has EPOLLIN
          uc,        \* r->uc is there
          expired,   \* connections expired by a handler
          batch,     \* the halves of events[] still to be handled, in order
          phase,     \* "wait", "batch", or "aborted"
          passed,    \* what the upstream was given
          delivered, \* what the client was given of the upstream's answer, pages apart
          over

vars == <<msg, client, upstream, stage, counted, rb, sb, on, pon, uc, expired, batch, phase,
          passed, delivered, over>>
peerVars == <<msg, client, upstream>>
requestVars == <<stage, counted, on, pon, uc>>
outVars == <<passed, delivered, over>>

Empty == [data |-> <<>>, begin |-> 0]
Peer == [wrote |-> 0, taken |-> 0, closed |-> "no"]

Init == /\ msg \in [head : Heads, length : Bodies, reply : Replies, found : BOOLEAN]
        /\ client = Peer /\ upstream = Peer
        /\ stage = "line" /\ counted = 0
        /\ rb = Empty /\ sb = Empty
        /\ on = {"in"} /\ pon = FALSE /\ uc = FALSE
        /\ expired = {} /\ batch = <<>> /\ phase = "wait"
        /\ passed = <<>> /\ delivered = <<>> /\ over = FALSE

-------------------------------------------------------------------------------
(* base/buffer.c, over one call of a handler.                              *)

Rest(b) == SubSeq(b.data, b.begin + 1, Len(b.data))
Margin(b) == Buf - Len(b.data)

\* sy_buffer_recv: how many bytes it takes, and what it returns.  It does not ask for
\* more when the buffer is full, and does not see the end then.
Taken(b, p) == IF p.closed = "reset" THEN 0 ELSE Min({p.wrote - p.taken, Margin(b)})
Received(b, p) ==
    CASE Taken(b, p) = Margin(b) \/ p.closed = "no" -> "AGAIN"
      [] Taken(b, p) # Margin(b) /\ p.closed = "end" -> "OK"
      [] OTHER -> "ERROR"
Filled(b, p) == [b EXCEPT !.data = @ \o [i \in 1 .. Taken(b, p) |-> p.taken + i]]
Took(b, p) == [p EXCEPT !.taken = @ + Taken(b, p)]

\* Mutations of Sent: begin stays where it is; the buffer is cleared after a partial send.
SentAgain(b, n) == IF n = Len(Rest(b)) THEN Empty ELSE b
SentForgets(b, n) == IF n > 0 THEN Empty ELSE b

\* sy_buffer_send, having sent n bytes: at the end of the bytes the buffer is cleared.
Sent(b, n) == IF n = Len(Rest(b)) THEN Empty ELSE [b EXCEPT !.begin = @ + n]

\* A page is appended in pieces, and every piece asserts that there is room for some of
\* it: a page fits an empty buffer, and may not fit another.
MayNotFit(b) == b.data # <<>>
Paged(b) == [b EXCEPT !.data = Append(@, 0)]

\* The bytes of s that belong to no page.
Unpaged(s) ==
    LET kept[i \in 0 .. Len(s)] ==
            IF i = 0 THEN <<>>
            ELSE IF s[i] = 0 THEN kept[i - 1] ELSE Append(kept[i - 1], s[i])
    IN  kept[Len(s)]

-------------------------------------------------------------------------------
(* The event loop: a handler is called with the next half of an event.     *)

Begin(c, bit) == /\ phase = "batch"
                 /\ batch # <<>> /\ Head(batch) = <<c, bit>>
                 /\ c \notin expired
                 /\ batch' = Tail(batch)

\* sy_connection_activate and sy_connection_expire, with the upstream of the front.
Activate(c) == /\ expired' = IF c = "front" /\ uc' THEN {} ELSE expired \ {c}
               /\ UNCHANGED phase
Expire(c) == /\ expired' = expired \cup {c} \cup IF c = "front" /\ uc' THEN {"back"} ELSE {}
             /\ UNCHANGED phase

Abort == phase' = "aborted" /\ UNCHANGED expired

\* Mutations of the two below: the interest is not registered.
EnableInNot == on
EnableOutNot == on

\* sy_connection_enable_in and sy_connection_enable_out.
EnableIn == on \cup {"in"}
EnableOut == on \cup {"out"}

-------------------------------------------------------------------------------
(* sy_handle_request: EPOLLIN of the client.                               *)

\* The buffer with the parser at its end.
AtEnd(b) == [b EXCEPT !.begin = Len(b.data)]

\* Mutation of Rewound: the body is passed without its headers.
RewoundNot(b) == b

\* b->begin = b->data: what is passed on begins with the request line.
Rewound(b) == [b EXCEPT !.begin = 0]

\* A page where there is no upstream; b is left in rb.
Answer(b, next) ==
    \/ MayNotFit(sb) /\ UNCHANGED <<stage, counted, on, pon, rb, sb>> /\ Abort
    \/ /\ Margin(sb) > 0
       /\ stage' = next
       /\ sb' = Paged(sb)
       /\ rb' = b
       /\ on' = {"out"}
       /\ UNCHANGED <<counted, pon>>
       /\ Activate("front")

\* sy_request_handle_body, with the rest of b for body.  What is not whole and
\* has no upstream any more follows NULL.
Body(b) ==
    LET length == IF msg.found THEN msg.length ELSE -1
        total == IF length <= 0 THEN counted ELSE counted + Len(Rest(b))
    IN  \/ /\ uc'
           /\ counted' = total
           /\ stage' = IF length <= 0 \/ total >= length THEN "done" ELSE "body"
           /\ on' = on \ {"in"}
           /\ rb' = Rewound(b)
           /\ pon' = TRUE
           /\ UNCHANGED sb
           /\ Activate("front")
        \/ /\ ~uc' /\ (length <= 0 \/ total >= length)
           /\ Answer(Empty, "done")
        \/ /\ ~uc' /\ length > 0 /\ total < length
           /\ UNCHANGED <<stage, counted, on, pon, rb, sb>>
           /\ Abort

\* Mutation of Headers: the headers are counted with the body.
HeadersCounted(b) ==
    IF Len(b.data) < msg.head
    THEN stage' = "headers" /\ rb' = AtEnd(b) /\ UNCHANGED <<counted, on, pon, sb>>
           /\ Activate("front")
    ELSE Body(Rewound(b))

\* sy_request_handle_headers, and the body as far as it came with them.
Headers(b) ==
    IF Len(b.data) < msg.head
    THEN /\ stage' = "headers"
         /\ rb' = AtEnd(b)
         /\ UNCHANGED <<counted, on, pon, sb>>
         /\ Activate("front")
    ELSE Body([b EXCEPT !.begin = msg.head])

\* sy_request_handle_request_line: the upstream is opened, or there is a page in its place.
RequestLine(b) ==
    \/ b.data = <<>> /\ rb' = b /\ UNCHANGED <<requestVars, sb>> /\ Activate("front")
    \/ b.data # <<>> /\ uc' = TRUE /\ Headers(b)
    \/ b.data # <<>> /\ uc' = FALSE /\ Answer([b EXCEPT !.begin = 1], "headers")

\* The next request line, which is only parsed without assert(false) when nothing is there.
NextLine(b) ==
    /\ rb' = b
    /\ UNCHANGED <<requestVars, sb>>
    /\ IF Rest(b) # <<>> THEN Abort ELSE Activate("front")

HandleRequest ==
    LET b == Filled(rb, client)
    IN  /\ Begin("front", "in")
        /\ client' = Took(rb, client)
        /\ UNCHANGED <<msg, upstream, outVars>>
        /\ \/ /\ Received(rb, client) # "AGAIN"
              /\ rb' = b
              /\ UNCHANGED <<requestVars, sb>>
              /\ Expire("front")
           \/ /\ Received(rb, client) = "AGAIN"
              /\ \/ stage = "line" /\ RequestLine(b)
                 \/ stage = "headers" /\ UNCHANGED uc /\ Headers(b)
                 \/ stage = "body" /\ UNCHANGED uc /\ Body(b)
                 \/ stage = "done" /\ NextLine(b)

-------------------------------------------------------------------------------
(* The other three halves.                                                 *)

\* sy_send_response_buffer, of which n bytes are sent: EPOLLOUT of the client.
HandleResponse(n) ==
    /\ Begin("front", "out")
    /\ n \in 0 .. Len(Rest(sb))
    /\ delivered' = delivered \o Unpaged(SubSeq(Rest(sb), 1, n))
    /\ sb' = Sent(sb, n)
    /\ over' = (sb' = Empty /\ ~uc)
    /\ on' = IF over' THEN on \ {"out"} ELSE on
    /\ UNCHANGED <<peerVars, stage, counted, rb, pon, uc, passed>>
    /\ Activate("front")

ResponseFails ==
    /\ Begin("front", "out")
    /\ client.closed # "no" /\ Rest(sb) # <<>>
    /\ UNCHANGED <<peerVars, requestVars, rb, sb, outVars>>
    /\ Expire("front")

\* The 503 page of sy_handle_upstream and sy_handle_pass.
UpstreamFails ==
    \/ MayNotFit(sb) /\ UNCHANGED <<requestVars, sb>> /\ Abort
    \/ /\ Margin(sb) > 0
       /\ sb' = Paged(sb)
       /\ on' = {"out"}
       /\ UNCHANGED <<stage, counted, pon, uc>>
       /\ Expire("back")

\* sy_handle_upstream: EPOLLIN of the upstream.
HandleUpstream ==
    /\ Begin("back", "in")
    /\ upstream' = Took(sb, upstream)
    /\ UNCHANGED <<msg, client, rb, outVars>>
    /\ CASE Received(sb, upstream) = "AGAIN" ->
              /\ sb' = Filled(sb, upstream)
              /\ on' = EnableOut
              /\ UNCHANGED <<stage, counted, pon, uc>>
              /\ Activate("back")
         [] Received(sb, upstream) = "OK" ->
              /\ sb' = Filled(sb, upstream)
              /\ UNCHANGED requestVars
              /\ Expire("back")
         [] OTHER -> UpstreamFails

\* sy_handle_pass, of which n bytes are sent: EPOLLOUT of the upstream.
HandlePass(n) ==
    /\ Begin("back", "out")
    /\ n \in 0 .. Len(Rest(rb))
    /\ passed' = passed \o SubSeq(Rest(rb), 1, n)
    /\ rb' = Sent(rb, n)
    /\ IF rb' = Empty THEN on' = EnableIn /\ pon' = FALSE ELSE UNCHANGED <<on, pon>>
    /\ UNCHANGED <<peerVars, stage, counted, sb, uc, delivered, over>>
    /\ Activate("back")

PassFails ==
    /\ Begin("back", "out")
    /\ upstream.closed # "no" /\ Rest(rb) # <<>>
    /\ UNCHANGED <<peerVars, rb, outVars>>
    /\ UpstreamFails

-------------------------------------------------------------------------------
(* main.                                                                   *)

Readable(p) == p.wrote > p.taken \/ p.closed # "no"

Halves(c, input, output) == (IF input THEN <<<<c, "in">>>> ELSE <<>>)
                              \o (IF output THEN <<<<c, "out">>>> ELSE <<>>)

\* epoll_wait, when the connections w have room for output.
Wait(w) ==
    /\ phase = "wait" /\ ~over
    /\ phase' = "batch"
    /\ LET f == Halves("front", "in" \in on /\ Readable(client), "out" \in on /\ "front" \in w)
           b == Halves("back", uc /\ Readable(upstream), uc /\ pon /\ "back" \in w)
       IN  batch' \in {f \o b, b \o f}
    /\ UNCHANGED <<peerVars, requestVars, rb, sb, expired, outVars>>

Skip == /\ phase = "batch" /\ batch # <<>> /\ Head(batch)[1] \in expired
        /\ batch' = Tail(batch)
        /\ UNCHANGED <<peerVars, requestVars, rb, sb, expired, phase, outVars>>

\* sy_connection_sweep: what was expired, and what was idle for too long.

\* Connections that were expired or idle for too long are closed, as many as the sweep
\* finds at the root of the heap before one that is not.
Sweep == /\ phase = "batch" /\ batch = <<>>
         /\ phase' = "wait"
         /\ \E gone \in SUBSET {"front", "back"} :
              /\ uc' = (uc /\ gone = {})
              /\ pon' = (pon /\ gone = {})
              /\ over' = (over \/ "front" \in gone)
              /\ expired' = expired \ (gone \cup IF uc' THEN {} ELSE {"back"})
         /\ UNCHANGED <<peerVars, stage, counted, on, rb, sb, batch, passed, delivered>>

-------------------------------------------------------------------------------
(* The peers.                                                              *)

ClientWrites == /\ client.closed = "no" /\ client.wrote < msg.head + msg.length
                /\ client' = [client EXCEPT !.wrote = @ + 1]
                /\ UNCHANGED upstream

UpstreamWrites == /\ uc /\ upstream.closed = "no" /\ upstream.wrote < msg.reply
                  /\ upstream' = [upstream EXCEPT !.wrote = @ + 1]
                  /\ UNCHANGED client

\* A reset takes what was not received yet with it.
Closes == \E how \in {"end", "reset"} :
            \/ client.closed = "no" /\ client' = [client EXCEPT !.closed = how]
                 /\ UNCHANGED upstream
            \/ uc /\ upstream.closed = "no" /\ upstream' = [upstream EXCEPT !.closed = how]
                 /\ UNCHANGED client

Peers == /\ ~over /\ phase # "aborted"
         /\ ClientWrites \/ UpstreamWrites \/ Closes
         /\ UNCHANGED <<msg, requestVars, rb, sb, expired, batch, phase, outVars>>

Sends == \E n \in 0 .. Buf : HandleResponse(n)
Passes == \E n \in 0 .. Buf : HandlePass(n)

Loop == (\E w \in SUBSET {"front", "back"} : Wait(w))
          \/ HandleRequest \/ Sends \/ ResponseFails \/ HandleUpstream \/ Passes \/ PassFails
          \/ Skip \/ Sweep

Next == Loop \/ Peers

\* The loop goes on; a peer that is sent to has room again and again, and takes something.
Fairness == /\ WF_vars(Loop)
            /\ SF_vars(Wait({"front", "back"}))
            /\ SF_vars(\E n \in 1 .. Buf : HandleResponse(n))
            /\ SF_vars(\E n \in 1 .. Buf : HandlePass(n))

Spec == Init /\ [][Next]_vars
FairSpec == Spec /\ Fairness

-------------------------------------------------------------------------------
(* Properties.                                                             *)

\* Each peer is given the bytes of the other in order, none twice, none left out (the
\* pages of the server itself apart), and nothing after the exchange is over.
S == INSTANCE Stream
StreamSpec == S!Spec

Bytes(n) == [i \in 1 .. n |-> i]

\* No byte is forgotten: while the upstream is there, what the client sent and recv took
\* was passed on or is in the receive buffer, once.
RequestKept ==
    (uc /\ "front" \notin expired /\ phase # "aborted") =>
      passed \o (IF stage \in {"body", "done"} THEN Rest(rb) ELSE rb.data) = Bytes(client.taken)

\* The same the other way: what the upstream sent is delivered or waits in the send
\* buffer, even when the upstream is gone.
ReplyKept == delivered \o Unpaged(Rest(sb)) = Bytes(upstream.taken)

\* The body is counted once, whatever part of it came with the headers, and a request is
\* done when all of it was received.
BodyCounted ==
    (uc /\ msg.found /\ msg.length > 0 /\ stage \in {"body", "done"} /\ "front" \notin expired) =>
      /\ counted = client.taken - msg.head
      /\ stage = "done" <=> counted >= msg.length

\* A request is passed on whole, one whose headers fit the buffer and whose length is
\* recognised, if the upstream stays.
PassedWhole ==
    (/\ client.wrote = msg.head + msg.length
     /\ msg.head <= Buf /\ (msg.found \/ msg.length = 0))
      ~> \/ Len(passed) = msg.head + msg.length
         \/ client.closed # "no" \/ upstream.closed # "no"
         \/ over \/ phase = "aborted" \/ (stage # "line" /\ ~uc)

\* What the upstream has written reaches the client, if both stay.
DeliveredWhole ==
    (uc /\ upstream.wrote = msg.reply)
      ~> \/ Len(delivered) = msg.reply
         \/ client.closed # "no" \/ upstream.closed # "no"
         \/ over \/ phase = "aborted" \/ ~uc
===============================================================================
