----------------------------- MODULE WorkerProofs -----------------------------
(***************************************************************************)
(* Proofs about Worker, for any number of connections, any timeout and any  *)
(* sizes of the buffers.  WInv, the inductive invariant, is the types, the  *)
(* pointers, and what a request may have: a request whose line has not been *)
(* read has neither a file nor an upstream.  Every call of a handler is one *)
(* of two steps, Serves or Connects, and only these two are shown to keep   *)
(* WInv.  LocalInv adds what holds without upstreams.                       *)
(***************************************************************************)
EXTENDS Worker, TLAPS

Request == [on : SUBSET Bit, in : {"line", "headers", "body"},
            state : {"line", "header"}, out : {"buffer", "file"},
            keep_alive : BOOLEAN, body_done : BOOLEAN,
            coding : {"identity", "other"}, body : BOOLEAN,
            file : BOOLEAN, left : 0 .. FileSize, rb : 0 .. RbCap,
            sb : 0 .. SbCap, sent : 0 .. 2 * SbCap,
            replies : 0 .. 2]
Fault == {"none", "append", "request_line", "null_upstream", "coding", "file_upstream",
          "pointer"}

\* A request that may still get an upstream has neither file nor upstream, and one that
\* has a file gets none.
Good(f, r) ==
    /\ r \in Request
    /\ r.state = "line" => uc[f] = NULL /\ ~r.file /\ r.out = "buffer"
    /\ r.file \/ r.out = "file" => uc[f] = NULL

\* The inductive invariant.
WInv ==
    /\ TypeOK
    /\ NothingDangles
    /\ phase \in {"wait", "sweep"} => \A c \in Conn : batch[c] = {}
    /\ \A f \in Front : Good(f, req[f])

\* A handler has left the request of f as r, and the links as they were.
Serves(f, r) ==
    /\ req' = [req EXCEPT ![f] = r]
    /\ UNCHANGED linkVars
    /\ idle' \in [Conn -> 0 .. Timeout + 1]
    /\ passing' \in [Back -> BOOLEAN]
    /\ hungup' \in [Conn -> BOOLEAN]
    /\ phase' \in {"batch", "aborted"}
    /\ fault' \in Fault
    /\ \A g \in Front : IsExpired(g) => idle'[g] = idle[g]
    /\ IsExpired(f) => r.sent = req[f].sent

\* ... and RequestLine, where it gives the request an upstream.
Connects(f) ==
    \E b \in Back \ live, q \in Request :
       /\ q.state = "header" /\ ~q.file /\ q.out = "buffer"
       /\ uc[f] = NULL
       /\ live' = live \cup {b}
       /\ uc' = [uc EXCEPT ![f] = b]
       /\ owner' = [owner EXCEPT ![b] = f]
       /\ req' = [req EXCEPT ![f] = q]
       /\ UNCHANGED <<passing, hungup, fault>>
       /\ idle' \in [Conn -> 0 .. Timeout + 1]
       /\ ~IsExpired(f) /\ \A g \in Front : IsExpired(g) => idle'[g] = idle[g]
       /\ phase' = "batch"

\* A handler has been called, for the request of f.
Handled(f) == \/ \E q \in Request : Good(f, q) /\ Serves(f, q)
              \/ Connects(f)

-------------------------------------------------------------------------------
\* A request begins well, if nothing of the one before is left.
LEMMA FreshGood == ASSUME NEW f \in Front, uc[f] = NULL PROVE Good(f, Fresh)
  BY BoundAssumption DEF Good, Request, Fresh, Bit

LEMMA WorkerInit == Init => WInv
<1> SUFFICES ASSUME Init PROVE WInv
  OBVIOUS
<1>1. \A f \in Front : Good(f, req[f])
  BY FreshGood DEF Init
<1>2. TypeOK
  <2>1. req \in [Front -> Request]
    BY <1>1 DEF Init, Good
  <2> QED BY <2>1, BoundAssumption DEF Init, TypeOK, Request, Conn
<1>3. NothingDangles
  BY DEF Init, NothingDangles
<1> QED BY <1>1, <1>2, <1>3 DEF WInv, Init

\* The types, with the names this module has for them.
LEMMA Typed ==
    ASSUME WInv
    PROVE  /\ live \subseteq Conn /\ idle \in [Conn -> 0 .. Timeout + 1]
           /\ uc \in [Front -> Back \cup {NULL}] /\ owner \in [Back -> Front \cup {NULL}]
           /\ req \in [Front -> Request] /\ passing \in [Back -> BOOLEAN]
           /\ hungup \in [Conn -> BOOLEAN] /\ batch \in [Conn -> SUBSET Bit]
           /\ turn \in Conn \cup {NULL} /\ phase \in {"wait", "batch", "sweep", "aborted"}
           /\ fault \in Fault
           /\ Front \cap Back = {} /\ NULL \notin Conn
           /\ Timeout \in Nat /\ RbCap \in Nat \ {0} /\ SbCap \in Nat \ {0} /\ FileSize \in Nat
  BY SlotAssumption, BoundAssumption DEF WInv, TypeOK, Request, Fault, Conn

\* Half an event is taken from a batch that loses nothing else and gains nothing.
LEMMA TakeOK ==
    ASSUME WInv, NEW c \in Conn, NEW bit \in Bit, Take(c, bit)
    PROVE  /\ c \in live /\ phase = "batch" /\ bit \in batch[c]
           /\ batch' \in [Conn -> SUBSET Bit] /\ \A d \in Conn : batch'[d] \subseteq batch[d]
           /\ turn' \in Conn \cup {NULL}
<1>1. batch' \in [Conn -> SUBSET Bit] /\ \A d \in Conn : batch'[d] \subseteq batch[d]
  BY Typed DEF Take
<1> QED BY <1>1, Typed DEF Take, WInv, NothingDangles

\* activate and expire touch no other client connection.
LEMMA TouchOK ==
    ASSUME WInv, NEW c \in Conn, NEW t \in 0 .. Timeout + 1, Touch(c, t),
           uc' \in [Front -> Back \cup {NULL}]
    PROVE  /\ idle' \in [Conn -> 0 .. Timeout + 1]
           /\ \A g \in Front : g # c => idle'[g] = idle[g]
<1>1. idle' \in [Conn -> 0 .. Timeout + 1]
  BY Typed DEF Touch
<1>2. \A g \in Front : g \in Conn /\ g \notin Back /\ g # NULL
  BY Typed DEF Conn
<1> QED BY <1>1, <1>2 DEF Touch

\* WInv is kept by the handlers that leave the links alone, and by the one that does not.
LEMMA ServesInv ==
    ASSUME WInv, NEW f \in Front, NEW r, Good(f, r), Serves(f, r),
           NEW c \in Conn, NEW bit \in Bit, Take(c, bit)
    PROVE  WInv'
<1>1. req' \in [Front -> Request]
  BY Typed DEF Serves, Good
<1>2. TypeOK'
  BY <1>1, Typed, TakeOK DEF TypeOK, Serves, linkVars, Request, Fault
<1>3. NothingDangles'
  BY Typed, TakeOK DEF Serves, linkVars, NothingDangles, WInv
<1>4. \A g \in Front : Good(g, req[g])'
  BY Typed DEF Serves, linkVars, Good, WInv
<1>5. phase' \notin {"wait", "sweep"}
  BY DEF Serves
<1> QED BY <1>2, <1>3, <1>4, <1>5 DEF WInv

LEMMA ConnectsInv ==
    ASSUME WInv, NEW f \in Front, Connects(f), NEW bit \in Bit, Take(f, bit)
    PROVE  WInv'
<1>1. PICK b \in Back \ live, q \in Request :
         /\ q.state = "header" /\ ~q.file /\ q.out = "buffer"
         /\ live' = live \cup {b}
         /\ uc' = [uc EXCEPT ![f] = b]
         /\ owner' = [owner EXCEPT ![b] = f]
         /\ req' = [req EXCEPT ![f] = q]
         /\ UNCHANGED <<passing, hungup, fault>>
  BY DEF Connects
<1>2. /\ idle' \in [Conn -> 0 .. Timeout + 1] /\ phase' = "batch" /\ uc[f] = NULL
      /\ f \in Conn /\ f \in live
  BY TakeOK DEF Connects, Conn
<1>3. live' \subseteq Conn /\ owner' \in [Back -> Front \cup {NULL}]
      /\ req' \in [Front -> Request] /\ uc' \in [Front -> Back \cup {NULL}]
  BY <1>1, Typed DEF Conn
<1>4. TypeOK'
  BY <1>1, <1>2, <1>3, Typed, TakeOK DEF TypeOK, Request, Fault
<1>5. NothingDangles'
  <2>1. \A c \in Conn : batch'[c] # {} => c \in live'
    BY <1>1, <1>2, TakeOK, Typed DEF WInv, NothingDangles
  <2>2. \A g \in Front : uc'[g] # NULL => g \in live' /\ uc'[g] \in live' /\ owner'[uc'[g]] = g
    BY <1>1, <1>2, Typed DEF WInv, NothingDangles, Conn
  <2>3. \A d \in Back : d \in live' => owner'[d] \in live' /\ uc'[owner'[d]] = d
    BY <1>1, <1>2, Typed DEF WInv, NothingDangles, Conn
  <2> QED BY <2>1, <2>2, <2>3 DEF NothingDangles
<1>6. \A g \in Front : Good(g, req[g])'
  <2>1. Good(f, req[f])'
    BY <1>1, Typed DEF Good
  <2>2. \A g \in Front \ {f} : req'[g] = req[g] /\ uc'[g] = uc[g]
    BY <1>1, Typed
  <2> QED BY <2>1, <2>2 DEF WInv, Good
<1> QED BY <1>2, <1>4, <1>5, <1>6 DEF WInv

-------------------------------------------------------------------------------
\* The ways a handler ends: activate, expire, an assertion.
LEMMA ReplyServes ==
    ASSUME WInv, NEW f \in Front, NEW r, Good(f, r), Reply(f, r), phase = "batch", ~IsExpired(f)
    PROVE  Serves(f, r)
<1>1. f \in Conn /\ 0 \in 0 .. Timeout + 1
  BY Typed DEF Conn
<1>2. uc' \in [Front -> Back \cup {NULL}]
  BY Typed DEF Reply, linkVars
<1>3. /\ idle' \in [Conn -> 0 .. Timeout + 1]
      /\ \A g \in Front : g # f => idle'[g] = idle[g]
  BY <1>1, <1>2, TouchOK DEF Reply, Activate
<1> QED BY <1>3, Typed DEF Reply, Activate, Serves

LEMMA ExpireServes ==
    ASSUME WInv, NEW f \in Front, NEW r, Good(f, r), phase = "batch", ~IsExpired(f),
           req' = [req EXCEPT ![f] = r], UNCHANGED linkVars, passing' = passing,
           hungup' \in [Conn -> BOOLEAN], Expire(f)
    PROVE  Serves(f, r)
<1>1. f \in Conn /\ Timeout + 1 \in 0 .. Timeout + 1
  BY Typed DEF Conn
<1>2. uc' \in [Front -> Back \cup {NULL}]
  BY Typed DEF linkVars
<1>3. /\ idle' \in [Conn -> 0 .. Timeout + 1]
      /\ \A g \in Front : g # f => idle'[g] = idle[g]
  BY <1>1, <1>2, TouchOK DEF Expire
<1> QED BY <1>3, Typed DEF Expire, Serves

LEMMA AbortServes ==
    ASSUME WInv, NEW f \in Front, NEW what \in Fault, Abort(what)
    PROVE  Good(f, req[f]) /\ Serves(f, req[f])
<1>1. Good(f, req[f])
  BY DEF WInv
<1>2. req' = [req EXCEPT ![f] = req[f]]
  BY Typed DEF Abort
<1> QED BY <1>1, <1>2, Typed DEF Abort, Serves, linkVars

\* A page is appended where there is room.
LEMMA ErrPagesGood ==
    ASSUME NEW f \in Front, NEW r, Good(f, r), NEW n \in Nat, r.sb + n \in 0 .. SbCap
    PROVE  /\ Good(f, Append(r, n)) /\ Append(r, n).sent = r.sent
           /\ Good(f, ErrPages(r, n)) /\ ErrPages(r, n).sent = r.sent
<1> DEFINE m == IF r.replies + n < 2 THEN r.replies + n ELSE 2
<1>1. Append(r, n) \in Request
  <2>1. m \in 0 .. 2 /\ {"out"} \in SUBSET Bit /\ r \in Request
    BY DEF Good, Request, Bit
  <2>2. Append(r, n) = [r EXCEPT !.sb = r.sb + n, !.replies = m, !.on = {"out"}, !.body_done = TRUE]
    BY DEF Append
  <2> HIDE DEF m
  <2> QED BY <2>1, <2>2 DEF Request
<1>2. ErrPages(r, n) \in Request
  BY <1>1 DEF ErrPages, Request
<1>3. /\ Append(r, n).state = r.state /\ Append(r, n).file = r.file
      /\ Append(r, n).out = r.out /\ Append(r, n).sent = r.sent
  BY DEF Good, Append, Request
<1>4. /\ ErrPages(r, n).state = r.state /\ ErrPages(r, n).file = r.file
      /\ ErrPages(r, n).out = r.out /\ ErrPages(r, n).sent = r.sent
  BY <1>1, <1>3 DEF ErrPages, Request
<1> QED BY <1>1, <1>2, <1>3, <1>4 DEF Good

LEMMA BuildErrServes ==
    ASSUME WInv, NEW f \in Front, NEW r, Good(f, r), BuildErr(f, r), phase = "batch", ~IsExpired(f)
    PROVE  \E q \in Request : Good(f, q) /\ Serves(f, q)
<1>1. CASE Full(r)
  BY <1>1, AbortServes DEF BuildErr, Fault, Good
<1>2. CASE ~Full(r)
  <2>1. r.sb + 1 \in 0 .. SbCap
    BY <1>2, Typed DEF Full, Good, Request
  <2>2. Good(f, ErrPages(r, 1))
    BY <2>1, ErrPagesGood
  <2> QED BY <1>2, <2>2, ReplyServes DEF BuildErr, Good
<1> QED BY <1>1, <1>2

-------------------------------------------------------------------------------
\* sy_request_handle_request_line
LEMMA RequestLineHandled ==
    ASSUME WInv, NEW f \in Front, NEW r, Good(f, r), NEW piece \in LinePiece,
           Begin(f, "in"), RequestLine(f, r, piece)
    PROVE  Handled(f)
<1>1. f \in Conn /\ "in" \in Bit /\ Take(f, "in") /\ ~IsExpired(f) /\ phase = "batch"
  BY Typed, TakeOK DEF Begin, Conn, Bit
<1> DEFINE line(keep) == [r EXCEPT !.state = "header", !.in = "headers", !.keep_alive = keep]
<1>2. ASSUME NEW keep \in BOOLEAN, NEW h \in {"line", "headers"}, r.state = "line"
      PROVE  /\ Good(f, [line(keep) EXCEPT !.in = h])
             /\ Good(f, [line(keep) EXCEPT !.file = TRUE, !.left = FileSize])
             /\ Good(f, line(keep))
             /\ line(keep).state = "header" /\ ~line(keep).file /\ line(keep).out = "buffer"
  <2>1. r \in Request /\ uc[f] = NULL /\ ~r.file /\ r.out = "buffer"
    BY <1>2 DEF Good
  <2>2. /\ line(keep) \in Request /\ line(keep).state = "header"
        /\ line(keep).file = r.file /\ line(keep).out = r.out
    BY <2>1 DEF Request
  <2> HIDE DEF line
  <2>3. FileSize \in 0 .. FileSize
    BY Typed
  <2>4. [line(keep) EXCEPT !.in = h] \in Request
    BY <2>2 DEF Request
  <2>5. [line(keep) EXCEPT !.file = TRUE, !.left = FileSize] \in Request
    BY <2>2, <2>3 DEF Request
  <2> QED BY <2>1, <2>2, <2>4, <2>5 DEF Good
<1> HIDE DEF line
<1>3. ASSUME NEW q, Good(f, q), Reply(f, q) \/ BuildErr(f, q)
      PROVE  Handled(f)
  BY <1>1, <1>3, ReplyServes, BuildErrServes DEF Handled, Good
<1>4. CASE r.state = "header" /\ Abort("request_line")
  BY <1>1, <1>4, AbortServes DEF Fault, Handled, Good
<1>5. CASE r.state = "line" /\ piece = "part" /\ Reply(f, r)
  BY <1>3, <1>5
<1>6. CASE r.state = "line" /\ piece = "bad" /\ BuildErr(f, r)
  BY <1>3, <1>6
<1>11. CASE r.state = "line" /\ piece = "port" /\ Abort("pointer")
  BY <1>1, <1>11, AbortServes DEF Fault, Handled, Good
<1>7. CASE r.state = "line" /\ \E h \in {"line", "headers"} :
                    BuildErr(f, [line(FALSE) EXCEPT !.in = h])
  BY <1>2, <1>3, <1>7
<1>8. CASE r.state = "line" /\ \E keep \in BOOLEAN :
                       Reply(f, [line(keep) EXCEPT !.file = TRUE, !.left = FileSize])
  BY <1>2, <1>3, <1>8
<1>9. CASE r.state = "line" /\ BuildErr(f, line(FALSE))
  BY <1>2, <1>3, <1>9
<1>10. ASSUME r.state = "line", NEW b \in Back \ live, NEW keep \in BOOLEAN,
                        live' = live \cup {b},
                        uc' = [uc EXCEPT ![f] = b],
                        owner' = [owner EXCEPT ![b] = f],
                        req' = [req EXCEPT ![f] = line(keep)],
                        UNCHANGED <<passing, hungup>>,
                        Activate(f)
       PROVE  Handled(f)
  <2> DEFINE q == line(keep)
  <2>1. Good(f, q) /\ q.state = "header" /\ ~q.file /\ q.out = "buffer"
    BY <1>2, <1>10
  <2> HIDE DEF q
  <2>2. uc[f] = NULL
    BY <1>10 DEF Good
  <2>3. /\ idle' \in [Conn -> 0 .. Timeout + 1]
        /\ \A g \in Front : g # f => idle'[g] = idle[g]
    <3>1. uc' \in [Front -> Back \cup {NULL}] /\ 0 \in 0 .. Timeout + 1
      BY <1>10, Typed
    <3> QED BY <3>1, <1>1, <1>10, TouchOK DEF Activate
  <2> QED BY <1>1, <1>10, <2>1, <2>2, <2>3 DEF Handled, Connects, Activate, Good, q
<1> QED BY <1>4, <1>5, <1>6, <1>7, <1>8, <1>9, <1>10, <1>11 DEF RequestLine, LinePiece, line

\* sy_request_handle_body
LEMMA BodyServes ==
    ASSUME WInv, NEW f \in Front, NEW r, Good(f, r), phase = "batch", ~IsExpired(f),
           BodyDone(f, r) \/ BodyAgain(f, r)
    PROVE  \E q \in Request : Good(f, q) /\ Serves(f, q)
<1> DEFINE q == [r EXCEPT !.on = @ \ {"in"}, !.body_done = TRUE, !.in = "line"]
           p == [r EXCEPT !.on = @ \ {"in"}, !.in = "body"]
<1>1. Good(f, q) /\ Good(f, p) /\ q.sb = r.sb
  <2>1. r \in Request /\ r.on \ {"in"} \in SUBSET Bit
    BY DEF Good, Request
  <2>2. /\ q \in Request /\ q.state = r.state /\ q.file = r.file /\ q.out = r.out
        /\ q.sb = r.sb
    BY <2>1 DEF Request
  <2>3. p \in Request /\ p.state = r.state /\ p.file = r.file /\ p.out = r.out
    BY <2>1 DEF Request
  <2> QED BY <2>2, <2>3 DEF Good
<1> HIDE DEF q, p
<1>2. ASSUME NEW x, Good(f, x), req' = [req EXCEPT ![f] = x],
             uc[f] # NULL, passing' = [passing EXCEPT ![uc[f]] = TRUE],
             UNCHANGED <<linkVars, hungup>>, Activate(f)
      PROVE  Serves(f, x)
  <2>1. f \in Conn /\ 0 \in 0 .. Timeout + 1 /\ uc' \in [Front -> Back \cup {NULL}]
    BY <1>2, Typed DEF Conn, linkVars
  <2>2. /\ idle' \in [Conn -> 0 .. Timeout + 1]
        /\ \A g \in Front : g # f => idle'[g] = idle[g]
    BY <2>1, <1>2, TouchOK DEF Activate
  <2> QED BY <1>2, <2>2, Typed DEF Activate, Serves
<1>3. CASE BodyAgain(f, r)
  <2>1. CASE uc[f] = NULL
    BY <1>3, <2>1, AbortServes DEF BodyAgain, Fault, Good
  <2>2. CASE uc[f] # NULL
    BY <1>1, <1>2, <1>3, <2>2 DEF BodyAgain, p, Good
  <2> QED BY <2>1, <2>2
<1>4. CASE BodyDone(f, r)
  <2>1. CASE uc[f] = NULL /\ Full(r)
    BY <1>4, <2>1, AbortServes DEF BodyDone, Fault, Good
  <2>4. CASE Abort("pointer")
    BY <2>4, AbortServes DEF Fault, Good
  <2>2. CASE uc[f] = NULL /\ ~Full(r) /\ ~Abort("pointer")
    <3> DEFINE x == [Append(q, 1) EXCEPT !.rb = 0]
    <3>1. q.sb + 1 \in 0 .. SbCap
      BY <1>1, <2>2, Typed DEF Full, Good, Request
    <3>2. Good(f, Append(q, 1))
      BY <1>1, <3>1, ErrPagesGood
    <3>3. Good(f, x)
      BY <3>2, Typed DEF Good, Request
    <3>4. Reply(f, x)
      BY <1>4, <2>2 DEF BodyDone, q
    <3> HIDE DEF x
    <3> QED BY <3>3, <3>4, ReplyServes DEF Good
  <2>3. CASE uc[f] # NULL
    BY <1>1, <1>2, <1>4, <2>3 DEF BodyDone, q, Good
  <2> QED BY <2>1, <2>2, <2>3, <2>4
<1> QED BY <1>3, <1>4

\* sy_request_handle_headers
LEMMA HeadersServes ==
    ASSUME WInv, NEW f \in Front, NEW r, Good(f, r), phase = "batch", ~IsExpired(f),
           NEW piece \in HeaderPiece, Headers(f, r, piece)
    PROVE  \E q \in Request : Good(f, q) /\ Serves(f, q)
<1>1. CASE Reply(f, r)
  BY <1>1, ReplyServes DEF Good
<1>2. CASE Reply(f, [r EXCEPT !.keep_alive = FALSE])
  <2> DEFINE q == [r EXCEPT !.keep_alive = FALSE]
  <2>1. Good(f, q)
    BY DEF Good, Request
  <2> HIDE DEF q
  <2> QED BY <1>2, <2>1, ReplyServes DEF Good, q
<1>3. CASE Reply(f, [r EXCEPT !.coding = "other"])
  <2> DEFINE q == [r EXCEPT !.coding = "other"]
  <2>1. Good(f, q)
    BY DEF Good, Request
  <2> HIDE DEF q
  <2> QED BY <1>3, <2>1, ReplyServes DEF Good, q
<1>4. CASE Reply(f, [r EXCEPT !.body = TRUE])
  <2> DEFINE q == [r EXCEPT !.body = TRUE]
  <2>1. Good(f, q)
    BY DEF Good, Request
  <2> HIDE DEF q
  <2> QED BY <1>4, <2>1, ReplyServes DEF Good, q
<1>5. CASE BadHeaders(f, r)
  <2>1. PICK n \in 1 .. RbCap, h \in {"headers", "body"} :
          IF r.sb + n > SbCap THEN Abort("append")
          ELSE Reply(f, [ErrPages(r, n) EXCEPT !.in = h])
    BY <1>5 DEF BadHeaders
  <2>2. CASE r.sb + n > SbCap
    BY <2>1, <2>2, AbortServes DEF Fault, Good
  <2>3. CASE ~(r.sb + n > SbCap)
    <3> DEFINE q == [ErrPages(r, n) EXCEPT !.in = h]
    <3>1. r.sb + n \in 0 .. SbCap /\ n \in Nat
      BY <2>3, Typed DEF Good, Request
    <3>2. Good(f, ErrPages(r, n))
      BY <3>1, ErrPagesGood
    <3>3. Good(f, q)
      BY <3>2 DEF Good, Request
    <3>4. Reply(f, q)
      BY <2>1, <2>3
    <3> HIDE DEF q
    <3> QED BY <3>3, <3>4, ReplyServes DEF Good
  <2> QED BY <2>2, <2>3
<1>6. CASE EndOfHeaders(f, r)
  BY <1>6, AbortServes, BodyServes DEF EndOfHeaders, Fault, Good
<1> QED BY <1>1, <1>2, <1>3, <1>4, <1>5, <1>6 DEF Headers


\* sy_handle_request
LEMMA HandleRequestHandled ==
    ASSUME WInv, NEW f \in Front, HandleRequest(f)
    PROVE  Handled(f)
<1> DEFINE r == [req[f] EXCEPT !.rb = @ + 1]
<1>1. f \in Conn /\ "in" \in Bit /\ Take(f, "in") /\ ~IsExpired(f) /\ phase = "batch"
      /\ Good(f, req[f]) /\ Begin(f, "in")
  BY Typed, TakeOK DEF HandleRequest, Begin, Conn, Bit, WInv
<1>2. CASE Reply(f, req[f])
  BY <1>1, <1>2, ReplyServes DEF Handled, Good
<1>3. CASE HangUp(f) /\ UNCHANGED <<linkVars, req, passing>> /\ Expire(f)
  <2>1. req' = [req EXCEPT ![f] = req[f]] /\ hungup' \in [Conn -> BOOLEAN]
    BY <1>3, Typed DEF HangUp
  <2>2. Serves(f, req[f])
    BY <1>1, <1>3, <2>1, ExpireServes
  <2> QED BY <1>1, <2>2 DEF Handled, Good
<1>4. CASE /\ req[f].rb < RbCap
           /\ \/ r.in = "line" /\ \E p \in LinePiece : RequestLine(f, r, p)
              \/ r.in = "headers" /\ \E p \in HeaderPiece : Headers(f, r, p)
              \/ r.in = "body" /\ (BodyAgain(f, r) \/ BodyDone(f, r))
  <2>1. Good(f, r)
    <3>1. req[f] \in Request /\ req[f].rb + 1 \in 0 .. RbCap
      BY <1>1, <1>4, Typed DEF Good, Request
    <3>2. /\ r \in Request /\ r.state = req[f].state /\ r.file = req[f].file
          /\ r.out = req[f].out
      BY <3>1 DEF Request
    <3> QED BY <1>1, <3>2 DEF Good
  <2> HIDE DEF r
  <2> QED BY <1>1, <1>4, <2>1, RequestLineHandled, HeadersServes, BodyServes DEF Handled
<1> QED BY <1>2, <1>3, <1>4 DEF HandleRequest

-------------------------------------------------------------------------------
LEMMA ResponseDoneServes ==
    ASSUME WInv, NEW f \in Front, NEW r, Good(f, r), uc[f] = NULL,
           phase = "batch", ~IsExpired(f), ResponseDone(f, r)
    PROVE  \E q \in Request : Good(f, q) /\ Serves(f, q)
<1>1. CASE r.keep_alive
  <2>1. Good(f, Fresh) /\ Reply(f, Fresh)
    BY <1>1, FreshGood DEF ResponseDone, Reply
  <2> QED BY <2>1, ReplyServes DEF Good
<1>2. CASE ~r.keep_alive
  BY <1>2, ExpireServes, Typed DEF ResponseDone, Good
<1> QED BY <1>1, <1>2

\* sy_send_response_file
LEMMA SendFileServes ==
    ASSUME WInv, NEW f \in Front, NEW r, Good(f, r), NEW took \in BOOLEAN,
           phase = "batch", ~IsExpired(f), SendFile(f, r, took)
    PROVE  \E q \in Request : Good(f, q) /\ Serves(f, q)
<1>1. CASE uc[f] # NULL
  BY <1>1, AbortServes DEF SendFile, Fault, Good
<1>2. CASE Broken(f, r)
  BY <1>2, ExpireServes, Typed DEF Broken, Good
<1>3. ASSUME NEW n \in 0 .. r.left, Reply(f, [r EXCEPT !.left = n])
      PROVE  \E q \in Request : Good(f, q) /\ Serves(f, q)
  <2> DEFINE q == [r EXCEPT !.left = n]
  <2>1. r \in Request /\ n \in 0 .. FileSize
    BY Typed DEF Good, Request
  <2>2. q \in Request /\ q.state = r.state /\ q.file = r.file /\ q.out = r.out
    BY <2>1 DEF Request
  <2> HIDE DEF q
  <2>3. Good(f, q)
    BY <2>2 DEF Good
  <2> QED BY <1>3, <2>3, ReplyServes DEF q, Good
<1>4. CASE uc[f] = NULL /\ ResponseDone(f, [r EXCEPT !.file = FALSE, !.left = 0])
  <2> DEFINE q == [r EXCEPT !.file = FALSE, !.left = 0]
  <2>1. r \in Request /\ 0 \in 0 .. FileSize
    BY Typed DEF Good, Request
  <2>2. q \in Request /\ q.state = r.state /\ ~q.file /\ q.out = r.out
    BY <2>1 DEF Request
  <2> HIDE DEF q
  <2>3. Good(f, q)
    BY <2>2 DEF Good
  <2> QED BY <1>4, <2>3, ResponseDoneServes DEF q
<1> QED BY <1>1, <1>2, <1>3, <1>4 DEF SendFile

\* sy_handle_response
LEMMA HandleResponseServes ==
    ASSUME WInv, NEW f \in Front, HandleResponse(f)
    PROVE  \E q \in Request : Good(f, q) /\ Serves(f, q)
<1> DEFINE r == req[f]
           q == [r EXCEPT !.sb = 0, !.sent = 0]
<1>1. /\ ~IsExpired(f) /\ phase = "batch" /\ Good(f, r) /\ r \in Request
  BY Typed, TakeOK DEF HandleResponse, Begin, Conn, Bit, WInv, Good
<1> HIDE DEF r
<1>2. CASE SendFile(f, r, TRUE)
  BY <1>1, <1>2, SendFileServes
<1>3. CASE Broken(f, r)
  BY <1>1, <1>3, ExpireServes, Typed DEF Broken
<1>4. ASSUME NEW n \in r.sent + 1 .. 2 * r.sb - 1, Reply(f, [r EXCEPT !.sent = n])
      PROVE  \E p \in Request : Good(f, p) /\ Serves(f, p)
  <2> DEFINE p == [r EXCEPT !.sent = n]
  <2>1. n \in 0 .. 2 * SbCap
    BY <1>1, Typed DEF Request
  <2>2. p \in Request /\ p.state = r.state /\ p.file = r.file /\ p.out = r.out
    BY <1>1, <2>1 DEF Request
  <2> HIDE DEF p
  <2>3. Good(f, p)
    BY <1>1, <2>2 DEF Good
  <2> QED BY <1>1, <1>4, <2>2, <2>3, ReplyServes DEF p
<1>5. Good(f, q) /\ q \in Request /\ q.state = r.state
  <2>1. 0 \in 0 .. SbCap /\ 0 \in 0 .. 2 * SbCap
    BY Typed
  <2>2. q \in Request /\ q.state = r.state /\ q.file = r.file /\ q.out = r.out
    BY <1>1, <2>1 DEF Request
  <2> QED BY <1>1, <2>2 DEF Good
<1> HIDE DEF q
<1>6. CASE Reply(f, q)
  BY <1>1, <1>5, <1>6, ReplyServes
<1>7. CASE uc[f] = NULL /\ r.file /\ SendFile(f, [q EXCEPT !.out = "file"], FALSE)
  <2> DEFINE p == [q EXCEPT !.out = "file"]
  <2>1. p \in Request /\ p.state = r.state /\ p.file = q.file
    BY <1>5 DEF Request
  <2>2. r.state # "line"
    BY <1>1, <1>7 DEF Good
  <2> HIDE DEF p
  <2>3. Good(f, p)
    BY <1>7, <2>1, <2>2 DEF Good
  <2> QED BY <1>1, <1>7, <2>3, SendFileServes DEF p
<1>8. CASE uc[f] = NULL /\ ResponseDone(f, [q EXCEPT !.on = @ \ {"out"}])
  <2> DEFINE p == [q EXCEPT !.on = @ \ {"out"}]
  <2>1. q.on \ {"out"} \in SUBSET Bit
    BY <1>5 DEF Request
  <2>2. p \in Request /\ p.state = q.state /\ p.file = q.file /\ p.out = q.out
    BY <1>5, <2>1 DEF Request
  <2> HIDE DEF p
  <2>3. Good(f, p)
    BY <1>5, <2>2 DEF Good
  <2> QED BY <1>1, <1>8, <2>3, ResponseDoneServes DEF p
<1> QED BY <1>2, <1>3, <1>4, <1>6, <1>7, <1>8 DEF HandleResponse, SendBuffer, r, q

-------------------------------------------------------------------------------
\* The upstream handlers write to the request of their front and touch their own time.
LEMMA UpstreamTouches ==
    ASSUME WInv, NEW b \in Back, NEW r, Good(owner[b], r), owner[b] \in Front,
           req' = [req EXCEPT ![owner[b]] = r], UNCHANGED linkVars,
           r.sent = req[owner[b]].sent, phase = "batch",
           passing' \in [Back -> BOOLEAN], hungup' \in [Conn -> BOOLEAN],
           Activate(b) \/ Expire(b)
    PROVE  \E q \in Request : Good(owner[b], q) /\ Serves(owner[b], q)
<1>1. /\ b \in Conn /\ 0 \in 0 .. Timeout + 1 /\ Timeout + 1 \in 0 .. Timeout + 1
      /\ uc' \in [Front -> Back \cup {NULL}] /\ \A g \in Front : g # b
  BY Typed DEF Conn, linkVars
<1>2. /\ idle' \in [Conn -> 0 .. Timeout + 1]
      /\ \A g \in Front : idle'[g] = idle[g]
  BY <1>1, TouchOK DEF Activate, Expire
<1> QED BY <1>2, Typed DEF Activate, Expire, Serves, Good

LEMMA UpstreamFailsServes ==
    ASSUME WInv, NEW b \in Back, owner[b] \in Front, phase = "batch", UpstreamFails(b)
    PROVE  \E q \in Request : Good(owner[b], q) /\ Serves(owner[b], q)
<1> DEFINE f == owner[b]
           r == req[f]
<1>1. Good(f, r) /\ r \in Request
  BY Typed DEF WInv
<1>2. CASE Full(r)
  BY <1>2, AbortServes, Typed DEF UpstreamFails, Fault
<1>3. CASE ~Full(r)
  <2>1. r.sb + 1 \in 0 .. SbCap
    BY <1>1, <1>3, Typed DEF Full, Request
  <2>2. Good(f, ErrPages(r, 1)) /\ ErrPages(r, 1).sent = r.sent
    BY <1>1, <2>1, ErrPagesGood
  <2> QED BY <1>3, <2>2, UpstreamTouches, Typed DEF UpstreamFails
<1> QED BY <1>2, <1>3

\* sy_handle_upstream
LEMMA HandleUpstreamServes ==
    ASSUME WInv, NEW b \in Back, HandleUpstream(b)
    PROVE  owner[b] \in Front /\ \E q \in Request : Good(owner[b], q) /\ Serves(owner[b], q)
<1> DEFINE f == owner[b]
           r == req[f]
<1>1. f \in Front /\ phase = "batch"
  BY Typed, TakeOK DEF HandleUpstream, Begin, Conn, Bit, WInv, NothingDangles
<1>2. Good(f, r) /\ r \in Request
  BY <1>1, Typed DEF WInv
<1>3. ASSUME NEW q \in Request, q.state = r.state, q.file = r.file, q.out = r.out,
             q.sent = r.sent, UNCHANGED <<linkVars, passing>>,
             hungup' \in [Conn -> BOOLEAN], Activate(b) \/ Expire(b),
             req' = [req EXCEPT ![f] = q]
      PROVE  \E p \in Request : Good(f, p) /\ Serves(f, p)
  <2>1. Good(f, q)
    BY <1>2, <1>3 DEF Good
  <2> QED BY <1>1, <1>3, <2>1, UpstreamTouches, Typed
<1>4. ASSUME NEW n \in 0 .. SbCap, UNCHANGED <<linkVars, passing, hungup>>, Activate(b),
             req' = [req EXCEPT ![f].sb = n, ![f].on = @ \cup {"out"}]
      PROVE  \E q \in Request : Good(f, q) /\ Serves(f, q)
  <2> DEFINE q == [r EXCEPT !.sb = n, !.on = @ \cup {"out"}]
  <2>1. r.on \cup {"out"} \in SUBSET Bit
    BY <1>2 DEF Request, Bit
  <2>2. q \in Request /\ q.state = r.state /\ q.file = r.file /\ q.out = r.out /\ q.sent = r.sent
    BY <1>2, <2>1 DEF Request
  <2>3. req' = [req EXCEPT ![f] = q]
    BY <1>1, <1>4, Typed
  <2> HIDE DEF q
  <2> QED BY <1>3, <1>4, <2>2, <2>3, Typed
<1>5. ASSUME NEW n \in 0 .. SbCap, UNCHANGED <<linkVars, passing>>, HangUp(b), Expire(b),
             req' = [req EXCEPT ![f].sb = n]
      PROVE  \E q \in Request : Good(f, q) /\ Serves(f, q)
  <2> DEFINE q == [r EXCEPT !.sb = n]
  <2>1. hungup' \in [Conn -> BOOLEAN]
    BY <1>5, Typed DEF HangUp
  <2>2. q \in Request /\ q.state = r.state /\ q.file = r.file /\ q.out = r.out /\ q.sent = r.sent
    BY <1>2 DEF Request
  <2>3. req' = [req EXCEPT ![f] = q]
    BY <1>1, <1>5, Typed
  <2> HIDE DEF q
  <2> QED BY <1>3, <1>5, <2>1, <2>2, <2>3
<1>6. r.sb \in 0 .. SbCap /\ r.sb + 1 .. SbCap \subseteq 0 .. SbCap
      /\ r.sb .. (IF hungup[b] THEN r.sb ELSE SbCap - 1) \subseteq 0 .. SbCap
  BY <1>2, Typed DEF Request
<1>7. CASE UpstreamFails(b)
  BY <1>1, <1>7, UpstreamFailsServes
<1> QED BY <1>1, <1>4, <1>5, <1>6, <1>7 DEF HandleUpstream

\* sy_handle_pass
LEMMA HandlePassServes ==
    ASSUME WInv, NEW b \in Back, HandlePass(b)
    PROVE  owner[b] \in Front /\ \E q \in Request : Good(owner[b], q) /\ Serves(owner[b], q)
<1> DEFINE f == owner[b]
           r == req[f]
<1>1. f \in Front /\ phase = "batch"
  BY Typed, TakeOK DEF HandlePass, Begin, Conn, Bit, WInv, NothingDangles
<1>2. Good(f, r) /\ r \in Request
  BY <1>1, Typed DEF WInv
<1>3. CASE /\ req' = [req EXCEPT ![f].rb = 0, ![f].on = @ \cup {"in"}]
           /\ passing' = [passing EXCEPT ![b] = FALSE]
           /\ UNCHANGED <<linkVars, hungup>>
           /\ Activate(b)
  <2> DEFINE q == [r EXCEPT !.rb = 0, !.on = @ \cup {"in"}]
  <2>1. r.on \cup {"in"} \in SUBSET Bit /\ 0 \in 0 .. RbCap
    BY <1>2, Typed DEF Request, Bit
  <2>2. q \in Request /\ q.state = r.state /\ q.file = r.file /\ q.out = r.out /\ q.sent = r.sent
    BY <1>2, <2>1 DEF Request
  <2>3. req' = [req EXCEPT ![f] = q] /\ passing' \in [Back -> BOOLEAN]
    BY <1>1, <1>3, Typed
  <2> HIDE DEF q
  <2>4. Good(f, q)
    BY <1>2, <2>2 DEF Good
  <2> QED BY <1>1, <1>3, <2>2, <2>3, <2>4, UpstreamTouches, Typed
<1>4. CASE UNCHANGED <<linkVars, req, passing, hungup>> /\ Activate(b)
  <2>1. req' = [req EXCEPT ![f] = r]
    BY <1>4, Typed
  <2> QED BY <1>1, <1>2, <1>4, <2>1, UpstreamTouches, Typed
<1>5. CASE UpstreamFails(b)
  BY <1>1, <1>5, UpstreamFailsServes
<1> QED BY <1>1, <1>3, <1>4, <1>5 DEF HandlePass

\* Whatever handler is called, it is one of these two.
HandlerCalled == \/ \E f \in Front : HandleRequest(f) \/ HandleResponse(f)
                 \/ \E b \in Back : HandleUpstream(b) \/ HandlePass(b)

LEMMA HandlerHandled ==
    ASSUME WInv, HandlerCalled
    PROVE  \E f \in Front, c \in Conn, bit \in Bit :
              Take(c, bit) /\ Handled(f) /\ (Connects(f) => c = f)
<1>1. ASSUME NEW f \in Front, HandleRequest(f) \/ HandleResponse(f)
      PROVE  Handled(f) /\ \E bit \in Bit : Take(f, bit)
  BY <1>1, HandleResponseServes, HandleRequestHandled
     DEF HandleRequest, HandleResponse, Begin, Bit, Handled
<1>2. ASSUME NEW b \in Back, HandleUpstream(b) \/ HandlePass(b)
      PROVE  /\ owner[b] \in Front /\ \E q \in Request : Good(owner[b], q) /\ Serves(owner[b], q)
             /\ \E bit \in Bit : Take(b, bit)
  BY <1>2, HandleUpstreamServes, HandlePassServes DEF HandleUpstream, HandlePass, Begin, Bit
<1>3. \A f \in Front : \A q : Serves(f, q) => ~Connects(f)
  <2> SUFFICES ASSUME NEW f \in Front, NEW q, Serves(f, q), Connects(f) PROVE FALSE
    OBVIOUS
  <2> QED BY DEF Serves, Connects, linkVars
<1>4. \A c \in Front \cup Back : c \in Conn
  BY DEF Conn
<1> QED BY <1>1, <1>2, <1>3, <1>4 DEF HandlerCalled, Handled

LEMMA HandlerInv == ASSUME WInv, HandlerCalled PROVE WInv'
  BY HandlerHandled, ServesInv, ConnectsInv DEF Handled

-------------------------------------------------------------------------------
\* The event loop itself.
LEMMA WaitInv == WInv /\ Wait => WInv'
<1> SUFFICES ASSUME WInv, Wait PROVE WInv'
  OBVIOUS
<1>1. TypeOK'
  BY Typed DEF Wait, TypeOK, Request, Fault, linkVars
<1>2. NothingDangles'
  BY DEF Wait, NothingDangles, WInv, linkVars
<1>3. \A g \in Front : Good(g, req[g])'
  BY DEF Wait, linkVars, Good, WInv
<1> QED BY <1>1, <1>2, <1>3 DEF WInv, Wait

LEMMA AcceptInv == ASSUME WInv, NEW f \in Front, Accept(f) PROVE WInv'
<1>1. uc[f] = NULL
  BY DEF WInv, NothingDangles, Accept
<1>2. Good(f, Fresh)
  BY <1>1, FreshGood
<1>3. req' \in [Front -> Request] /\ idle' \in [Conn -> 0 .. Timeout + 1] /\ f \in Conn
  BY <1>2, Typed DEF Accept, Good, Conn
<1>4. TypeOK'
  BY <1>3, Typed DEF Accept, TypeOK, Request, Fault, loopVars
<1>5. NothingDangles'
  BY Typed DEF Accept, NothingDangles, WInv, loopVars
<1>6. \A g \in Front : Good(g, req[g])'
  <2>1. Good(f, req[f])'
    BY <1>2, Typed DEF Accept, Good
  <2>2. \A g \in Front \ {f} : req'[g] = req[g] /\ uc'[g] = uc[g]
    BY Typed DEF Accept
  <2> QED BY <2>1, <2>2 DEF WInv, Good
<1> QED BY <1>4, <1>5, <1>6 DEF WInv, Accept, loopVars

LEMMA SkipInv == ASSUME WInv, NEW c \in Conn, Skip(c) PROVE WInv'
<1>1. /\ phase = "batch" /\ batch' \in [Conn -> SUBSET Bit] /\ turn' \in Conn \cup {NULL}
      /\ \A d \in Conn : batch'[d] \subseteq batch[d]
  BY TakeOK DEF Skip
<1>2. TypeOK'
  BY <1>1, Typed DEF Skip, TypeOK, Request, Fault, linkVars
<1>3. NothingDangles'
  BY <1>1 DEF Skip, NothingDangles, WInv, linkVars
<1>4. \A g \in Front : Good(g, req[g])'
  BY DEF Skip, linkVars, Good, WInv
<1> QED BY <1>1, <1>2, <1>3, <1>4 DEF WInv, Skip

LEMMA EndBatchInv == WInv /\ (EndBatch \/ EndSweep) => WInv'
<1> SUFFICES ASSUME WInv, EndBatch \/ EndSweep PROVE WInv'
  OBVIOUS
<1>1. TypeOK'
  BY Typed DEF EndBatch, EndSweep, TypeOK, Request, Fault, linkVars
<1>2. NothingDangles'
  BY DEF EndBatch, EndSweep, NothingDangles, WInv, linkVars
<1>3. \A g \in Front : Good(g, req[g])'
  BY DEF EndBatch, EndSweep, linkVars, Good, WInv
<1> QED BY <1>1, <1>2, <1>3 DEF WInv, EndBatch, EndSweep

LEMMA TickInv == WInv /\ Tick => WInv'
<1> SUFFICES ASSUME WInv, Tick PROVE WInv'
  OBVIOUS
<1>1. idle' \in [Conn -> 0 .. Timeout + 1]
  BY Typed DEF Tick, IsExpired
<1>2. TypeOK'
  BY <1>1, Typed DEF Tick, TypeOK, Request, Fault, linkVars, loopVars
<1>3. NothingDangles'
  BY DEF Tick, NothingDangles, WInv, linkVars, loopVars
<1>4. \A g \in Front : Good(g, req[g])'
  BY DEF Tick, linkVars, Good, WInv
<1> QED BY <1>2, <1>3, <1>4 DEF WInv, Tick, loopVars

\* sy_close_connection takes the upstream of a front with it.
LEMMA SweepCloseInv == ASSUME WInv, NEW c \in Conn, SweepClose(c) PROVE WInv'
<1> DEFINE gone == {c} \cup IF c \in Front /\ uc[c] # NULL THEN {uc[c]} ELSE {}
<1>1. /\ live' = live \ gone
      /\ uc' = [f \in Front |-> IF f \in gone \/ uc[f] \in gone THEN NULL ELSE uc[f]]
      /\ owner' = [b \in Back |-> IF b \in gone THEN NULL ELSE owner[b]]
      /\ req' = [f \in Front |-> IF f \in gone THEN Fresh ELSE req[f]]
      /\ passing' = [b \in Back |-> b \notin gone /\ passing[b]]
      /\ hungup' = [d \in Conn |-> d \notin gone /\ hungup[d]]
      /\ idle' = [d \in Conn |-> IF d \in gone THEN 0 ELSE idle[d]]
      /\ UNCHANGED loopVars /\ phase = "sweep" /\ c \in live
  BY DEF SweepClose, Close
<1>2. \A d \in Conn : batch[d] = {}
  BY <1>1 DEF WInv
<1>3. /\ gone \subseteq Conn /\ NULL \notin gone /\ c \in gone
      /\ \A f \in Front : f \in gone => f = c /\ (uc[f] # NULL => uc[f] \in gone)
      /\ \A b \in Back : b \in gone => b = c \/ (c \in Front /\ b = uc[c])
  BY Typed DEF Conn
<1>4. \A f \in Front : Good(f, req[f])'
  <2>1. ASSUME NEW f \in Front, f \in gone PROVE Good(f, req[f])'
    <3>1. uc'[f] = NULL /\ req'[f] = Fresh
      BY <1>1, <2>1
    <3>2. Fresh \in Request /\ ~Fresh.file /\ Fresh.out = "buffer"
      BY BoundAssumption DEF Request, Fresh, Bit
    <3> QED BY <3>1, <3>2 DEF Good
  <2>2. ASSUME NEW f \in Front, f \notin gone PROVE Good(f, req[f])'
    <3>1. (uc'[f] = NULL \/ uc'[f] = uc[f]) /\ req'[f] = req[f] /\ Good(f, req[f])
      BY <1>1, <2>2 DEF WInv
    <3> QED BY <3>1 DEF Good
  <2> QED BY <2>1, <2>2
<1>5. TypeOK'
  <2>1. req' \in [Front -> Request]
    BY <1>1, <1>4 DEF Good
  <2>2. /\ idle' \in [Conn -> 0 .. Timeout + 1]
        /\ passing' \in [Back -> BOOLEAN] /\ hungup' \in [Conn -> BOOLEAN]
    BY <1>1, Typed
  <2>3. /\ live' \subseteq Conn /\ uc' \in [Front -> Back \cup {NULL}]
        /\ owner' \in [Back -> Front \cup {NULL}]
    BY <1>1, Typed
  <2> QED BY <1>1, <2>1, <2>2, <2>3, Typed DEF TypeOK, Request, Fault, loopVars
<1>6. NothingDangles'
  <2> HIDE DEF gone
  <2>1. \A d \in Conn : batch'[d] # {} => d \in live'
    BY <1>1, <1>2 DEF loopVars
  <2>2. \A f \in Front : uc'[f] # NULL => f \in live' /\ uc'[f] \in live' /\ owner'[uc'[f]] = f
    BY <1>1, <1>3, Typed DEF WInv, NothingDangles
  <2>3. \A b \in Back : b \in live' => owner'[b] \in live' /\ uc'[owner'[b]] = b
    <3> SUFFICES ASSUME NEW b \in Back, b \in live'
                 PROVE  owner'[b] \in live' /\ uc'[owner'[b]] = b
      OBVIOUS
    <3>1. /\ b \in live /\ b \notin gone /\ owner'[b] = owner[b]
          /\ owner[b] \in Front /\ owner[b] \in live /\ uc[owner[b]] = b
      BY <1>1, Typed DEF WInv, NothingDangles, Conn
    <3>2. owner[b] \notin gone
      BY <1>3, <3>1, Typed DEF Conn
    <3> QED BY <1>1, <3>1, <3>2
  <2> QED BY <2>1, <2>2, <2>3 DEF NothingDangles
<1>7. phase' = "sweep" /\ \A d \in Conn : batch'[d] = {}
  BY <1>1, <1>2 DEF loopVars
<1> QED BY <1>4, <1>5, <1>6, <1>7 DEF WInv

LEMMA WorkerNext == WInv /\ [Next]_vars => WInv'
<1> SUFFICES ASSUME WInv, [Next]_vars PROVE WInv'
  OBVIOUS
<1>1. CASE UNCHANGED vars
  <2>1. TypeOK' /\ NothingDangles'
    BY <1>1 DEF vars, TypeOK, NothingDangles, WInv
  <2>2. \A g \in Front : Good(g, req[g])'
    BY <1>1 DEF vars, Good, WInv
  <2> QED BY <1>1, <2>1, <2>2 DEF vars, WInv
<1> QED BY <1>1, HandlerInv, WaitInv, AcceptInv, SkipInv, EndBatchInv, TickInv, SweepCloseInv
        DEF Next, Loop, Handle, HandlerCalled

\* Every field keeps its type, and the counters of the buffers stay within them
\* (buffer.c:12-31, request.c:202-264).
THEOREM WorkerTypes == Spec => []TypeOK
<1>1. WInv => TypeOK
  BY DEF WInv
<1> QED BY <1>1, WorkerInit, WorkerNext, PTL DEF Spec

\* No event of a batch is of a closed connection, and a request and its upstream point
\* at each other as long as either is open (connection.c:72-85).
THEOREM WorkerPointers == Spec => []NothingDangles
<1>1. WInv => NothingDangles
  BY DEF WInv
<1> QED BY <1>1, WorkerInit, WorkerNext, PTL DEF Spec

\* assert(!r->uc) in sy_send_response_file never fails (request.c:227).
THEOREM OneSource == Spec => []FileOrUpstream
<1>1. WInv => FileOrUpstream
  BY DEF WInv, Good, FileOrUpstream
<1> QED BY <1>1, WorkerInit, WorkerNext, PTL DEF Spec

\* Only closing takes an upstream from a request, and then leaves the rest of it.
LEMMA UpstreamLeft ==
    ASSUME WInv, [Next]_vars, NEW f \in Front, f \in live, f \in live'
    PROVE  uc'[f] = NULL => uc[f] = NULL \/ req'[f] = req[f]
<1>1. CASE HandlerCalled
  <2>1. PICK g \in Front : Handled(g)
    BY <1>1, HandlerHandled
  <2>2. ASSUME Connects(g), uc'[f] = NULL PROVE uc[f] = NULL
    BY <2>2, Typed DEF Connects, Conn
  <2>3. ASSUME NEW q, Serves(g, q), uc'[f] = NULL PROVE uc[f] = NULL
    BY <2>3 DEF Serves, linkVars
  <2> QED BY <2>1, <2>2, <2>3 DEF Handled
<1>2. CASE \E g \in Front : Accept(g)
  BY <1>2 DEF Accept
<1>3. CASE \E c \in Conn : SweepClose(c)
  BY <1>3, Typed DEF SweepClose, Close
<1>4. CASE Wait \/ EndBatch \/ EndSweep \/ Tick \/ UNCHANGED vars \/ \E c \in Conn : Skip(c)
  BY <1>4 DEF Wait, EndBatch, EndSweep, Tick, Skip, linkVars, vars
<1> QED BY <1>1, <1>2, <1>3, <1>4 DEF Next, Loop, Handle, HandlerCalled

\* sy_request_clear never leaves an upstream to the next request of a client.
THEOREM NoUpstreamLeft == Spec => ClearedAlone
<1>1. ASSUME WInv, WInv', [Next]_vars
      PROVE  [\A f \in Front : Clears(f) => uc[f] = NULL /\ uc'[f] = NULL]_vars
  <2> SUFFICES ASSUME NEW f \in Front, Clears(f) PROVE uc[f] = NULL /\ uc'[f] = NULL
    OBVIOUS
  <2>1. req'[f] = Fresh /\ Fresh.state = "line"
    BY DEF Clears, Fresh
  <2>2. uc'[f] = NULL
    BY <1>1, <2>1 DEF WInv, Good
  <2>3. req[f] = Fresh => uc[f] = NULL
    BY <1>1, <2>1 DEF WInv, Good
  <2> QED BY <1>1, <2>1, <2>2, <2>3, UpstreamLeft DEF Clears
<1> QED BY <1>1, WorkerInit, WorkerNext, PTL DEF Spec, ClearedAlone

\* Nothing is sent to a client whose connection is expired, until a sweep has closed it.
THEOREM ExpiredStays == Spec => ExpiredForGood
<1>1. ASSUME WInv, [Next]_vars
      PROVE  [\A f \in live \cap Front :
                 IsExpired(f) /\ f \in live' => IsExpired(f)' /\ req'[f].sent = req[f].sent]_vars
  <2> SUFFICES ASSUME NEW f \in live \cap Front, IsExpired(f), f \in live'
               PROVE  idle'[f] = idle[f] /\ req'[f].sent = req[f].sent
    BY DEF IsExpired
  <2>1. CASE HandlerCalled
    <3>1. PICK g \in Front : Handled(g)
      BY <1>1, <2>1, HandlerHandled
    <3>2. CASE Connects(g)
      BY <1>1, <3>2, Typed DEF Connects
    <3>3. ASSUME NEW q, Serves(g, q) PROVE idle'[f] = idle[f] /\ req'[f].sent = req[f].sent
      BY <1>1, <3>3, Typed DEF Serves
    <3> QED BY <3>1, <3>2, <3>3 DEF Handled
  <2>2. CASE \E g \in Front : Accept(g)
    BY <1>1, <2>2, Typed DEF Accept
  <2>3. CASE \E c \in Conn : SweepClose(c)
    BY <1>1, <2>3, Typed DEF SweepClose, Close, Conn
  <2>4. CASE Tick
    BY <1>1, <2>4, Typed DEF Tick, IsExpired, Conn
  <2>5. CASE Wait \/ EndBatch \/ EndSweep \/ UNCHANGED vars \/ \E c \in Conn : Skip(c)
    BY <2>5 DEF Wait, EndBatch, EndSweep, Skip, vars
  <2> QED BY <1>1, <2>1, <2>2, <2>3, <2>4, <2>5 DEF Next, Loop, Handle, HandlerCalled
<1> QED BY <1>1, WorkerInit, WorkerNext, PTL DEF Spec, ExpiredForGood

-------------------------------------------------------------------------------
(* Without upstreams, and with no header recognised, as the code is written. *)

\* A request is listened to before its reply and written to after it, never both.
Duplex(r) ==
    /\ r.replies <= 1
    /\ r.on = IF r.replies = 1 THEN {"out"} ELSE {"in"}
    /\ r.body_done <=> r.replies = 1
    /\ r.replies = 0 => r.sb = 0 /\ (r.in = "line" => r.state = "line")
    /\ r.coding = "identity" /\ ~r.body /\ r.in # "body"

Served(f) == f \in live /\ ~IsExpired(f)

LocalInv == /\ NoAbort
            /\ \A f \in Front : Served(f) => Duplex(req[f]) /\ batch[f] \subseteq req[f].on

\* A handler of f ends so.
Leaves(f, r) ==
    /\ req' = [req EXCEPT ![f] = r]
    /\ r \in Request
    /\ live' = live /\ fault' \in {fault, "pointer"}
    /\ \A g \in Front : g # f => idle'[g] = idle[g]
    /\ Duplex(r) \/ idle'[f] = Timeout + 1

LEMMA AppendDuplex ==
    ASSUME NEW r \in Request, r.replies = 0, r.coding = "identity", ~r.body, r.in # "body"
    PROVE  /\ Duplex(Append(r, 1)) /\ Append(r, 1).replies = 1
           /\ Duplex(ErrPages(r, 1)) /\ ErrPages(r, 1).replies = 1
  BY DEF Duplex, Append, ErrPages, Request

LEMMA ReplyLeaves ==
    ASSUME WInv, NEW f \in Front, NEW r \in Request, Duplex(r), Reply(f, r)
    PROVE  Leaves(f, r)
<1>1. f \in Conn /\ 0 \in 0 .. Timeout + 1 /\ uc' \in [Front -> Back \cup {NULL}]
  BY Typed DEF Conn, Reply, linkVars
<1>2. \A g \in Front : g # f => idle'[g] = idle[g]
  BY <1>1, TouchOK DEF Reply, Activate
<1>3. idle'[f] = 0
  BY <1>1 DEF Reply, Activate, Touch
<1> QED BY <1>2, <1>3 DEF Leaves, Reply, Activate, linkVars

LEMMA ExpireLeaves ==
    ASSUME WInv, NEW f \in Front, NEW r \in Request, req' = [req EXCEPT ![f] = r],
           UNCHANGED linkVars, Expire(f)
    PROVE  Leaves(f, r)
<1>1. f \in Conn /\ Timeout + 1 \in 0 .. Timeout + 1 /\ uc' \in [Front -> Back \cup {NULL}]
  BY Typed DEF Conn, linkVars
<1>2. \A g \in Front : g # f => idle'[g] = idle[g]
  BY <1>1, TouchOK DEF Expire
<1>3. idle'[f] = Timeout + 1
  BY <1>1 DEF Expire, Touch
<1> QED BY <1>2, <1>3 DEF Leaves, Expire, linkVars

\* The worker follows NULL + 1.
LEMMA PointerLeaves ==
    ASSUME WInv, NEW f \in Front, Duplex(req[f]), Abort("pointer")
    PROVE  req[f] \in Request /\ Leaves(f, req[f])
<1>1. req' = [req EXCEPT ![f] = req[f]] /\ req[f] \in Request
  BY Typed DEF Abort
<1> QED BY <1>1 DEF Leaves, Abort, linkVars

LEMMA BuildErrLeaves ==
    ASSUME WInv, NEW f \in Front, NEW r \in Request, r.replies = 0, r.sb = 0,
           r.coding = "identity", ~r.body, r.in # "body", Good(f, r), BuildErr(f, r)
    PROVE  \E q \in Request : Leaves(f, q) /\ q.replies = 1
<1>1. ~Full(r) /\ r.sb + 1 \in 0 .. SbCap
  BY Typed DEF Full
<1>2. ErrPages(r, 1) \in Request
  BY <1>1, ErrPagesGood DEF Good
<1> QED BY <1>1, <1>2, AppendDuplex, ReplyLeaves DEF BuildErr

\* A request without its answer, in the handler that has received a piece of it.
LEMMA HandleRequestLeaves ==
    ASSUME WInv, Back = {}, Recognised = {}, NEW f \in Front, HandleRequest(f),
           Duplex(req[f]), req[f].replies = 0
    PROVE  \E q \in Request : Leaves(f, q)
<1> DEFINE r == [req[f] EXCEPT !.rb = @ + 1]
<1>1. req[f] \in Request /\ Good(f, req[f]) /\ uc[f] = NULL
  BY Typed DEF WInv
<1>2. CASE Reply(f, req[f])
  BY <1>1, <1>2, ReplyLeaves
<1>3. CASE HangUp(f) /\ UNCHANGED <<linkVars, req, passing>> /\ Expire(f)
  <2>1. req' = [req EXCEPT ![f] = req[f]]
    BY <1>3, Typed
  <2> QED BY <1>1, <1>3, <2>1, ExpireLeaves
<1>4. ASSUME req[f].rb < RbCap
      PROVE  /\ r \in Request /\ Good(f, r) /\ Duplex(r) /\ r.replies = 0 /\ r.rb # 0
             /\ r.sb = 0 /\ r.state = req[f].state /\ r.in = req[f].in
             /\ r.coding = "identity" /\ ~r.body
  <2>1. req[f].rb + 1 \in 0 .. RbCap /\ req[f].rb + 1 # 0
    BY <1>1, <1>4, Typed DEF Request
  <2>2. /\ r \in Request /\ r.replies = 0 /\ r.on = req[f].on /\ r.body_done = req[f].body_done
        /\ r.sb = req[f].sb /\ r.state = req[f].state /\ r.in = req[f].in
        /\ r.coding = req[f].coding /\ r.body = req[f].body /\ r.rb = req[f].rb + 1
        /\ r.file = req[f].file /\ r.out = req[f].out
    BY <1>1, <2>1 DEF Request
  <2> HIDE DEF r
  <2> QED BY <1>1, <2>1, <2>2 DEF Duplex, Good
<1> HIDE DEF r
<1>5. ASSUME req[f].rb < RbCap, r.in = "line", NEW p \in LinePiece, RequestLine(f, r, p)
      PROVE  \E q \in Request : Leaves(f, q)
  <2> DEFINE line(keep) == [r EXCEPT !.state = "header", !.in = "headers", !.keep_alive = keep]
             error(h) == [line(FALSE) EXCEPT !.in = h]
             served(keep) == [line(keep) EXCEPT !.file = TRUE, !.left = FileSize]
  <2>1. r.state = "line"
    BY <1>4, <1>5 DEF Duplex
  <2>2. ASSUME NEW keep \in BOOLEAN
        PROVE  /\ line(keep) \in Request /\ line(keep).in = "headers"
               /\ line(keep).replies = 0 /\ line(keep).on = r.on /\ line(keep).sb = 0
               /\ line(keep).coding = "identity" /\ ~line(keep).body
               /\ line(keep).body_done = r.body_done /\ Good(f, line(keep))
    BY <1>4, <1>5, <2>1 DEF Request, Good
  <2> HIDE DEF line
  <2>3. ASSUME NEW h \in {"line", "headers"}
        PROVE  /\ error(h) \in Request /\ error(h).in = h /\ error(h).replies = 0
               /\ error(h).sb = 0 /\ error(h).coding = "identity" /\ ~error(h).body
               /\ Good(f, error(h))
    BY <2>2 DEF Request, Good
  <2>4. ASSUME NEW keep \in BOOLEAN
        PROVE  served(keep) \in Request /\ served(keep).in = "headers" /\ Duplex(served(keep))
    <3>1. FileSize \in 0 .. FileSize
      BY Typed
    <3> DEFINE l == line(keep)
    <3>2. /\ l \in Request /\ l.in = "headers" /\ l.replies = 0 /\ l.on = r.on /\ l.sb = 0
          /\ l.coding = "identity" /\ ~l.body /\ l.body_done = r.body_done
      BY <2>2
    <3> HIDE DEF l
    <3>3. /\ served(keep) \in Request /\ served(keep).in = "headers"
          /\ served(keep).replies = 0 /\ served(keep).on = r.on /\ served(keep).sb = 0
          /\ served(keep).coding = "identity" /\ ~served(keep).body
          /\ served(keep).body_done = r.body_done
      BY <3>1, <3>2 DEF Request, l
    <3> HIDE DEF served
    <3> QED BY <1>4, <1>5, <3>3 DEF Duplex
  <2> HIDE DEF error, served
  <2>5. ASSUME NEW q \in Request, q.replies = 0, q.sb = 0, q.coding = "identity", ~q.body,
               q.in # "body", Good(f, q), BuildErr(f, q)
        PROVE  \E x \in Request : Leaves(f, x)
    BY <2>1, <2>5, BuildErrLeaves
  <2>6. CASE p = "part" /\ Reply(f, r)
    BY <1>4, <1>5, <2>1, <2>6, ReplyLeaves
  <2>7. CASE p = "bad" /\ BuildErr(f, r)
    BY <1>4, <1>5, <2>5, <2>7
  <2>8. CASE \E h \in {"line", "headers"} : BuildErr(f, error(h))
    BY <2>3, <2>5, <2>8
  <2>9. CASE \E keep \in BOOLEAN : Reply(f, served(keep))
    BY <2>1, <2>4, <2>9, ReplyLeaves
  <2>10. CASE BuildErr(f, line(FALSE))
    BY <2>2, <2>5, <2>10
  <2>11. CASE Abort("pointer")
    BY <2>11, PointerLeaves
  <2> QED BY <1>5, <2>1, <2>6, <2>7, <2>8, <2>9, <2>10, <2>11
          DEF RequestLine, LinePiece, line, error, served
<1>6. ASSUME req[f].rb < RbCap, r.in = "headers", NEW p \in HeaderPiece, Headers(f, r, p)
      PROVE  \E q \in Request : Leaves(f, q)
  <2>1. p \in {"part", "end"}
    BY DEF HeaderPiece
  <2>2. CASE p = "part"
    BY <1>4, <1>6, <2>1, <2>2, ReplyLeaves DEF Headers
  <2>3. CASE p = "end"
    <3> DEFINE q == [r EXCEPT !.on = @ \ {"in"}, !.body_done = TRUE, !.in = "line"]
               x == [Append(q, 1) EXCEPT !.rb = 0]
    <3>1. r.on \ {"in"} \in SUBSET Bit
      BY <1>4, <1>6 DEF Request
    <3>2. /\ q \in Request /\ q.replies = 0 /\ q.coding = "identity" /\ ~q.body
          /\ q.in = "line" /\ q.sb = 0 /\ q.state = r.state /\ q.file = r.file /\ q.out = r.out
      BY <1>4, <1>6, <3>1 DEF Request
    <3> HIDE DEF q
    <3>3. Good(f, q) /\ ~Full(r) /\ q.sb + 1 \in 0 .. SbCap
      BY <1>4, <1>6, <3>2, Typed DEF Good, Full
    <3>4. Append(q, 1) \in Request
      BY <3>3, ErrPagesGood DEF Good
    <3>5. Duplex(Append(q, 1)) /\ Append(q, 1).replies = 1
      BY <3>2, AppendDuplex
    <3>6. x \in Request /\ Duplex(x) /\ x.replies = 1
      <4>1. 0 \in 0 .. RbCap
        BY Typed
      <4> DEFINE y == Append(q, 1)
      <4>2. /\ x \in Request /\ x.replies = y.replies /\ x.on = y.on
            /\ x.body_done = y.body_done /\ x.coding = y.coding /\ x.body = y.body /\ x.in = y.in
        BY <3>4, <4>1 DEF Request
      <4> HIDE DEF x, y
      <4> QED BY <3>5, <4>2 DEF Duplex, y
    <3>7. Reply(f, x) \/ Abort("pointer")
      BY <1>1, <1>4, <1>6, <2>3, <3>3 DEF Headers, EndOfHeaders, BodyDone, q
    <3> HIDE DEF x
    <3> QED BY <2>1, <3>6, <3>7, ReplyLeaves, PointerLeaves
  <2> QED BY <2>1, <2>2, <2>3
<1> QED BY <1>2, <1>3, <1>4, <1>5, <1>6 DEF HandleRequest, Duplex, r

LEMMA FreshDuplex == Fresh \in Request /\ Duplex(Fresh)
  BY BoundAssumption DEF Fresh, Request, Bit, Duplex

LEMMA ResponseDoneLeaves ==
    ASSUME WInv, NEW f \in Front, NEW r \in Request, ResponseDone(f, r)
    PROVE  \E q \in Request : Leaves(f, q)
<1>1. CASE r.keep_alive
  BY <1>1, FreshDuplex, ReplyLeaves DEF ResponseDone, Reply
<1>2. CASE ~r.keep_alive
  BY <1>2, ExpireLeaves DEF ResponseDone
<1> QED BY <1>1, <1>2

LEMMA SendFileLeaves ==
    ASSUME WInv, NEW f \in Front, uc[f] = NULL, NEW r \in Request, Duplex(r), NEW took \in BOOLEAN,
           SendFile(f, r, took)
    PROVE  \E q \in Request : Leaves(f, q)
<1>1. CASE Broken(f, r)
  BY <1>1, ExpireLeaves DEF Broken
<1>2. ASSUME NEW n \in 0 .. r.left, Reply(f, [r EXCEPT !.left = n])
      PROVE  \E q \in Request : Leaves(f, q)
  <2> DEFINE q == [r EXCEPT !.left = n]
  <2>1. n \in 0 .. FileSize
    BY Typed DEF Request
  <2>2. /\ q \in Request /\ q.replies = r.replies /\ q.on = r.on /\ q.body_done = r.body_done
        /\ q.sb = r.sb /\ q.state = r.state /\ q.in = r.in /\ q.coding = r.coding /\ q.body = r.body
    BY <2>1 DEF Request
  <2> HIDE DEF q
  <2>3. Duplex(q)
    BY <2>2 DEF Duplex
  <2> QED BY <1>2, <2>2, <2>3, ReplyLeaves DEF q
<1>3. CASE ResponseDone(f, [r EXCEPT !.file = FALSE, !.left = 0])
  <2>1. 0 \in 0 .. FileSize
    BY Typed
  <2>2. [r EXCEPT !.file = FALSE, !.left = 0] \in Request
    BY <2>1 DEF Request
  <2> QED BY <1>3, <2>2, ResponseDoneLeaves
<1> QED BY <1>1, <1>2, <1>3 DEF SendFile

\* A request with its answer, in the handler that sends it.
LEMMA HandleResponseLeaves ==
    ASSUME WInv, Back = {}, NEW f \in Front, HandleResponse(f),
           Duplex(req[f]), req[f].replies = 1
    PROVE  \E q \in Request : Leaves(f, q)
<1> DEFINE r == req[f]
           q == [r EXCEPT !.sb = 0, !.sent = 0]
           p == [q EXCEPT !.out = "file"]
<1>1. r \in Request /\ uc[f] = NULL /\ Duplex(r) /\ r.replies = 1
  BY Typed
<1> HIDE DEF r
<1>2. CASE SendFile(f, r, TRUE)
  BY <1>1, <1>2, SendFileLeaves
<1>3. CASE Broken(f, r)
  BY <1>1, <1>3, ExpireLeaves DEF Broken
<1>4. ASSUME NEW n \in r.sent + 1 .. 2 * r.sb - 1, Reply(f, [r EXCEPT !.sent = n])
      PROVE  \E x \in Request : Leaves(f, x)
  <2> DEFINE x == [r EXCEPT !.sent = n]
  <2>1. n \in 0 .. 2 * SbCap
    BY <1>1, Typed DEF Request
  <2>2. /\ x \in Request /\ x.replies = r.replies /\ x.on = r.on /\ x.body_done = r.body_done
        /\ x.in = r.in /\ x.coding = r.coding /\ x.body = r.body
    BY <1>1, <2>1 DEF Request
  <2> HIDE DEF x
  <2>3. Duplex(x)
    BY <1>1, <2>2 DEF Duplex
  <2> QED BY <1>4, <2>2, <2>3, ReplyLeaves DEF x
<1>5. q \in Request
  <2>1. 0 \in 0 .. SbCap /\ 0 \in 0 .. 2 * SbCap
    BY Typed
  <2> QED BY <1>1, <2>1 DEF Request
<1>6. CASE SendFile(f, p, FALSE)
  <2>1. /\ p \in Request /\ p.replies = r.replies /\ p.on = r.on /\ p.body_done = r.body_done
        /\ p.in = r.in /\ p.coding = r.coding /\ p.body = r.body
    BY <1>1, <1>5 DEF Request
  <2> HIDE DEF p
  <2>2. Duplex(p)
    BY <1>1, <2>1 DEF Duplex
  <2> QED BY <1>1, <1>6, <2>1, <2>2, SendFileLeaves
<1>7. CASE ResponseDone(f, [q EXCEPT !.on = @ \ {"out"}])
  <2> HIDE DEF q
  <2>1. q.on \ {"out"} \in SUBSET Bit
    BY <1>5 DEF Request
  <2>2. [q EXCEPT !.on = @ \ {"out"}] \in Request
    BY <1>5, <2>1 DEF Request
  <2> QED BY <1>7, <2>2, ResponseDoneLeaves
<1> QED BY <1>1, <1>2, <1>3, <1>4, <1>6, <1>7 DEF HandleResponse, SendBuffer, r

\* One call of a handler: of which half, and what it leaves.
LEMMA LocalHandler ==
    ASSUME WInv, LocalInv, Back = {}, Recognised = {}, HandlerCalled
    PROVE  \E f \in Front, bit \in Bit :
              /\ Take(f, bit) /\ batch[f] = {bit} /\ Served(f)
              /\ \E q \in Request : Leaves(f, q)
<1>1. ASSUME NEW f \in Front, NEW bit \in Bit, Begin(f, bit)
      PROVE  /\ Take(f, bit) /\ batch[f] = {bit} /\ Served(f) /\ Duplex(req[f])
             /\ req[f].replies = IF bit = "in" THEN 0 ELSE 1
  <2>1. Take(f, bit) /\ ~IsExpired(f) /\ f \in Conn
    BY <1>1 DEF Begin, Conn
  <2>2. Served(f) /\ bit \in batch[f]
    BY <2>1, TakeOK DEF Served
  <2>3. Duplex(req[f]) /\ batch[f] \subseteq req[f].on /\ req[f] \in Request
    BY <2>2, Typed DEF LocalInv
  <2> QED BY <2>1, <2>2, <2>3 DEF Duplex, Bit, Request
<1>2. ASSUME NEW f \in Front, HandleRequest(f)
      PROVE  Begin(f, "in") /\ "in" \in Bit
  BY <1>2 DEF HandleRequest, Bit
<1>3. ASSUME NEW f \in Front, HandleResponse(f)
      PROVE  Begin(f, "out") /\ "out" \in Bit
  BY <1>3 DEF HandleResponse, Bit
<1> QED BY <1>1, <1>2, <1>3, HandleRequestLeaves, HandleResponseLeaves DEF HandlerCalled

LEMMA LocalNext ==
    ASSUME WInv, LocalInv, Back = {}, Recognised = {}, [Next]_vars
    PROVE  LocalInv'
<1>1. CASE HandlerCalled
  <2>1. PICK f \in Front, bit \in Bit, q \in Request :
           Take(f, bit) /\ batch[f] = {bit} /\ Leaves(f, q)
    BY <1>1, LocalHandler
  <2>2. /\ batch'[f] = {} /\ \A g \in Front : g # f => batch'[g] = batch[g]
    BY <2>1, Typed DEF Take, Conn
  <2>3. ASSUME NEW g \in Front, Served(g)'
        PROVE  Duplex(req[g])' /\ batch'[g] \subseteq req'[g].on
    <3>1. CASE g = f
      <4>1. Duplex(q) /\ req'[f] = q
        BY <2>1, <2>3, <3>1, Typed DEF Leaves, Served, IsExpired
      <4> QED BY <2>2, <3>1, <4>1
    <3>2. CASE g # f
      BY <2>1, <2>2, <2>3, <3>2, Typed DEF Leaves, Served, IsExpired, LocalInv
    <3> QED BY <3>1, <3>2
  <2> QED BY <2>1, <2>3 DEF LocalInv, NoAbort, Leaves
<1>2. CASE \E f \in Front : Accept(f)
  <2>1. PICK f \in Front : Accept(f)
    BY <1>2
  <2>2. batch[f] = {} /\ req'[f] = Fresh
    BY <2>1, Typed DEF WInv, NothingDangles, Accept, Conn
  <2>3. ASSUME NEW g \in Front, Served(g)'
        PROVE  Duplex(req[g])' /\ batch'[g] \subseteq req'[g].on
    <3>1. CASE g = f
      BY <2>1, <2>2, <3>1, FreshDuplex DEF Accept, loopVars
    <3>2. CASE g # f
      BY <2>1, <2>3, <3>2, Typed DEF Accept, loopVars, LocalInv, Served, IsExpired, Conn
    <3> QED BY <3>1, <3>2
  <2> QED BY <2>1, <2>3 DEF LocalInv, NoAbort, Accept, loopVars
<1>3. CASE \E c \in Conn : SweepClose(c)
  <2>1. PICK c \in Conn : SweepClose(c)
    BY <1>3
  <2>2. \A g \in Front : Served(g)' => Served(g) /\ req'[g] = req[g]
    BY <2>1, Typed DEF SweepClose, Close, Served, IsExpired, Conn
  <2> QED BY <2>1, <2>2 DEF LocalInv, NoAbort, SweepClose, loopVars
<1>4. CASE Tick
  <2>1. \A g \in Front : Served(g)' => Served(g)
    BY <1>4, Typed DEF Tick, Served, IsExpired, Conn, linkVars
  <2> QED BY <1>4, <2>1 DEF LocalInv, NoAbort, Tick, loopVars, linkVars
<1>5. CASE Wait
  BY <1>5, Typed DEF Wait, LocalInv, NoAbort, Served, IsExpired, linkVars, On, Conn
<1>6. CASE EndBatch \/ EndSweep \/ UNCHANGED vars
  BY <1>6 DEF EndBatch, EndSweep, LocalInv, NoAbort, Served, IsExpired, linkVars, vars
<1>7. CASE \E c \in Conn : Skip(c)
  <2>1. PICK c \in Conn : Skip(c)
    BY <1>7
  <2>2. \A g \in Front : batch'[g] \subseteq batch[g]
    BY <2>1, TakeOK DEF Skip, Conn
  <2> QED BY <2>1, <2>2 DEF Skip, LocalInv, NoAbort, Served, IsExpired, linkVars
<1> QED BY <1>1, <1>2, <1>3, <1>4, <1>5, <1>6, <1>7 DEF Next, Loop, Handle, HandlerCalled

LEMMA LocalAlways ==
    ASSUME Back = {}, Recognised = {}
    PROVE  Spec => [](WInv /\ LocalInv)
<1>1. Init => LocalInv
  BY DEF Init, LocalInv, NoAbort, Served
<1> QED BY <1>1, WorkerInit, WorkerNext, LocalNext, PTL DEF Spec

\* Without upstreams a request gets one answer, and its client is either listened to or
\* answered.
THEOREM OneAnswer ==
    ASSUME Back = {}, Recognised = {}
    PROVE  Spec => []HalfDuplex
<1>1. WInv /\ LocalInv => HalfDuplex
  BY Typed DEF LocalInv, Duplex, HalfDuplex, Served, Request
<1> QED BY <1>1, LocalAlways, PTL

\* Without upstreams and with no header recognised, no assertion of the handlers fails and
\* no NULL r->uc is followed, whatever clients send and in any order.
THEOREM NeverAborts ==
    ASSUME Back = {}, Recognised = {}
    PROVE  Spec => []NoAbort
<1>1. LocalInv => NoAbort
  BY DEF LocalInv
<1> QED BY <1>1, LocalAlways, PTL

================================================================================
