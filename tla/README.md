# SyServer in TLA+

A TLA+ model of SyServer, a small HTTP server with one event loop per worker
process, static files, and reverse proxying; the configurations that
model-check it with TLC; and theorems about it that TLAPS proves. Paths are
relative to `src/`, the directory of the sources, unless they begin with it;
line numbers are those of the files there.

The code is modelled as it reads. It does not build at this revision (several
calls lack the `sy_` prefix their definitions have, a few headers are empty, some
statements are unfinished): where a name differs only by that prefix the two are
taken to be the same.

## 1. The system

| Component | State | Operations | Source |
|---|---|---|---|
| master process | the pid file, `server_cfg.workers`, `nworker` | start, check and save the pid, fork, wait, restart, `-s stop`, SIGINT | `server.c:7-162` |
| event loop | `events[]`, epoll interest of each connection | wait, dispatch EPOLLIN then EPOLLOUT, accept, sweep | `server.c:176-204`, `server.h:280-314` |
| connection table and timer | `connections[]` (a binary heap), `heap_size`, `heap_idx`, `active_time` | open, close, register, unregister, activate, expire, is_expired, sweep | `connection.c` |
| request handling | `sy_request_t`: parser state, handler pointers, flags, `rb`, `sb`, `uc`, `resource_fd` | init, clear, request line, URI, headers, body | `request.c:77-507` |
| responses | `sb`, `resource_fd`, `keep_alive`, `body_done` | build, build_err, send buffer, send file | `response.c`, `request.c:202-264` |
| upstream proxying | the connection `r->uc`, `c->r` back | open, pass, receive, close from either side | `connection.c:36-70`, `request.c:152-200` |
| HTTP parser | `r->state`, `uri.state`, strings into `rb` | request line, URI, header line, body | `httpparse.c` |
| header and mime maps | two static tables | init, get, put, hash, compare | `base/map.c`, `base/string.c`, `request.c:24-84`, `response.c:190-224` |
| memory pools | free list, chunks, `nallocated` | alloc, free | `base/mempool.c`, `base/vector.c` |
| buffers | `begin`, `end`, `limit` | recv, send, append, clear | `base/buffer.[ch]` |
| descriptors | the process's open files | accept, socket, openat, close | `connection.c`, `request.c`, `server.c` |
| configuration | `server_cfg` | load | `config.c` |
| list, queue | containers | | `base/list.*`, `base/queue.*` |

How they interact. The master forks workers; each runs one event loop and shares
nothing with the others but the port and the pid file. A worker is one thread:
`main` calls a handler for each half of each event, and turns its result into
`sy_connection_activate` or `sy_connection_expire`. Handlers change the epoll
interest of their connection and of the other connection of the request
(`r->c`, `r->uc`): that is how the two sides of a proxied request start and stop
each other. Nothing is closed in a handler; a connection is marked expired and
the sweep after the batch closes it, so that the pointers in `events[]` stay
valid. The request handler calls the parser, which keeps its state between
pieces of input, and dispatches through `in_handler` and `out_handler`.
Connections and requests come from two pools; descriptors from the kernel, which
gives out the lowest number that is free, often one just closed.

What is hard here, and hardly reachable by a test: the order of events in a
batch, and of batches; a client or an upstream that closes, stops reading or
stops sending at any point; the timer, whose heap is repaired in one direction
only; a connection table, a receive buffer, a send buffer or a descriptor table
that is full; positions in a text that an automaton records on the way; workers
and master dying between any two steps; a stop that every process of a server
handles in its own time. `PROJECT.json` lists these hazards line by line.

What makes each part correct:

* timer: `heap_idx` names the cell a connection is in; without upstreams the heap
  order is good enough for the sweep to find what is due; no cell is lost; a
  request and its upstream point at each other;
* event loop: no event of a closed connection is handled; an expired connection
  is not served again and is closed;
* requests: one answer per request; nothing of a request is left for the next one
  on the connection; no assertion fails;
* upstreams: a request has a file or an upstream; an upstream that is finished
  is closed; a front that waits for nothing is closed; each peer gets the bytes
  of the other, once and in order;
* parser: the strings it records are the parts of the text; a path that leaves
  its root is cut; the end of the headers is an empty line;
* resources: no struct is lost, shared or handed out twice; no number of a
  descriptor outlives the descriptor;
* master: one server at a time; a dead worker is replaced; a stop ends all.

## 2. Modules

| Module | What it is |
|---|---|
| `ConnTimer` | the heap of `connection.c`, step by step, with the event loop as its caller |
| `ExpiryQueue` | what the timer promises: a set of connections with times, and a sweep that leaves nothing due |
| `Worker` | the event loop with the handlers, over the promise of the timer |
| `Relay` | one proxied request, byte by byte through the two buffers |
| `Stream` | what the proxy promises to the two peers of a request |
| `HttpParse` | the automata of `httpparse.c`, one character a step, with the two maps |
| `StringMap` | `base/map.c` as operators on tables |
| `Pool` | `base/mempool.c` as operators on a pool, with lemmas about them |
| `Resources` | connections, requests and files of a worker over two pools and the kernel's descriptors |
| `Master` | several starts of the program, their pid file, workers and signals |
| `MCConnTimer`, `MCWorker`, `MCHttpParse`, `MCMaster` | instances for TLC |
| `ConnTimerProofs` | type correctness of `ConnTimer`, the index and the pairing |
| `ConnTimerOrderProofs` | the order of the heap, the sweep, no refusals, and `ConnTimer` implements `ExpiryQueue` |
| `WorkerProofs` | the safety of `Worker`, with and without upstreams |
| `RelayProofs` | the bytes of both directions, and `Relay` implements `Stream` |
| `HttpParseProofs` | what the parser and the maps compute, for lines and tables of any length |
| `ResourcesProofs` | the pools and the descriptors |
| `MasterProofs` | types, and the pid file of `Master` |

A worker is looked at in five ways, each keeping what the others leave out.
`ConnTimer` has the heap and chooses freely what handlers do; `Worker` has the
handlers and keeps of the timer the time each connection has been idle.
`TimerRefined` below is why that is enough when there are no upstreams; with them
`Worker` lets a sweep end early, because the heap may then hide what is due.
`Relay` has the bytes that `Worker` counts, for one request; `HttpParse` has the
text whose outcome `Worker` chooses; `Resources` has the structs and descriptors
that both leave out, and leaves out the order of events.

### ConnTimer

`connections`, `heap_size`, `heap_idx`, `active_time` are the variables and
fields of the code; `live` are the connections an open returned; `uc` and
`owner` are `c->r->uc` and `c->r`. The two sift loops are cut at every
iteration (`pc`, `k`, `cur` are their locals, `ShiftUp` and `ShiftDown` one
iteration or the exit), and the cascade from a front to its upstream is a
pending call (`then`), because the code reads the clock again there: `Tick` may
come between. Each operation that changes the heap is one action that ends by
starting a sift. `batch` is what `epoll_wait` may have put into `events[]`: an
event is of a connection that was open by then.

A refused connection is where the heap goes wrong. Its `heap_idx` is what memory
holds: the position of an earlier life of the struct, or, in memory never used
before, whatever `malloc` left (`FreshIdx`, any integers). `OpenRefused` follows
it. Within the array, the last connection is written into that cell and another
one is out of the table; the model goes on, with `connections`, `heap_idx` and
`live` as the code would have them, through sifts from the wrong cells, until a
close meets an empty heap (`phase = "aborted"`) or a connection is closed a
second time. Outside the array, the write goes anywhere (`phase = "wild"`), and
nothing is claimed of such a worker, nor of one that frees twice. Index 0 is a
position of the array: a sift down from it pulls the root into cell 0, or loops
for ever (`L(0)` is 0), which here is a step that changes nothing. After a
refusal (`refused`) only `TypeOK` is claimed.

With upstreams, an upstream closed with its front leaves the middle of the heap,
and the connection put in its place is only sifted down (`connection.c:176`). The
order of the heap is then not claimed, nor that a sweep leaves nothing due.

### Worker

`req[f]` is the request of front connection `f`: its `on` is `c->event.events`;
`in`, `out` and `state` are the handler pointers and `r->state`; `rb` and `sb`
count pieces received and pages appended since the buffer was cleared, up to
`RbCap` and `SbCap`; `sent` counts half pages. `batch[c]` is the event of `c`
still to be handled, `turn` the connection between its two halves.
`HandleRequest`, `HandleResponse`, `HandleUpstream` and `HandlePass` are one call
each from the event loop and include everything up to `activate` or `expire`. What
the code decides by text is a choice: what a line says, which header it is,
whether a location has `pass`, how much a `send` takes.

Abstractions: one receive brings at most one piece of a request (the parsers
keep state, so a request in one segment is the same pieces in a row; a body
that ends with its headers is the choice between `BodyDone` and `BodyAgain`
coming later); time does not pass within a handler; `connect` succeeds or
fails at once; the table is never full (that is in `ConnTimer`). `Recognised`
is what `sy_map_get` finds: nothing as the code is written
(`NoHeaderIsFound` of `HttpParse` is where that comes from), everything as
intended. An assertion that fails, or a NULL that is followed, ends the worker:
`phase = "aborted"`, and `fault` says which. `"pointer"` are the two strings at
NULL + 1 that a URI leaves behind: `atoi` reads the port of one with a host and a
port (`request.c:295-296`, `httpparse.c:373, 380`), and `sy_map_get` the extension
of a path whose last entry has no dot (`response.c:258`). Which URI it is, is the
client's choice; `NoAbort` is about every other fault.

### Relay and Stream

The bytes of the request and of the reply are numbered, and `rb` and `sb` hold
them with their `begin`; `limit` is `Buf`. The first byte of a request is its
request line, the bytes up to `msg.head` its headers; `msg.found` is whether its
Content-Length is recognised, so both readings of the header map are there
(`BodyCounted` is about the first, which the code as written never takes). A
page of the server is one byte, number 0. A handler is one action, from the
`recv` to `activate` or `expire`, as in `Worker`; the batch is a sequence here,
because the two connections of the one request come in either order. The
location always has `pass`; a connection may be idle for too long in any sweep,
and an expired one may be left by it (it sits below the root of the heap), which
is more than the timer does; a page that is appended to a buffer with something
in it may not fit and fail `assert(margin > 0)` half way (`base/buffer.c:54`); the
exchange is over with the client
connection or at the next request. A peer may end (what it sent is still read)
or reset (what was not read is lost) at any time.

`Stream` promises that `passed` and `delivered` only ever grow by the next bytes
of the other side, and not at all after `over`. `StreamSpec` says that `Relay`
implements it, with its own variables of these names; that the bytes are the
ones `recv` took, none forgotten, are the invariants `RequestKept` and
`ReplyKept`.

### HttpParse and StringMap

A character stands for its class: one or two members of each set of characters
that some `case` tells from others. The moves of an automaton are a table
(`UriMoves`, `VersionMoves`, `HeaderMoves`); what a character does besides is
written once for each field (`AbsPath`, `Extension`, `Query`, `Entries`,
`Name`, `Value`, ...), so that a field's cases through all states stand in one place.
A string is a position in the line and a length. `NULL` is position 0 and the
line begins at 2, so that "one past NULL", which the code does form, is visibly
not in it. Where the input is cut into segments plays no role: `line` grows by
a character a step, and the fields are all that is kept between two steps, as
between two calls. `zero` is the zero that `sy_request_handle_uri` writes behind
the path of a file. `Method` keeps that `sy_parse_method` may or may not know the
name. The properties read the text without the automata: `UriText`, `Path`,
`QueryStart`, `LastEntry`, `Climbs`, `WellFormed`. For header lines they do not
even take `line`, which the automaton cuts and rewrites, but `raw`: the
characters as they were sent, from one LF to the next. `behind` says that the
line before was a bare name (`X` and its LF), because there the code and the text
part: `httpparse.c:670` treats the LF as one more character of a line to ignore,
so that the next line, an empty one included, is swallowed with it, although the
comment at 721 has a single LF accepted. `HeaderRead` and `EmptyLineIsEmpty`
claim that this is the only way to lose a header or the end of the headers.

What is not claimed of paths: one that begins with two slashes is handed on as it
stands (`PathRead`), and `openat` takes what follows the first for an absolute
path; and a climbing path with an entry without a dot, such as `/a/../../etc`,
is not always cut, since that entry counts twice (`ClimbIsCut` asks for a dot in
every name).

`StringMap` has the hash, which reads the length a string claims, and the
comparison, which reads on to a zero; both walk one key. `HashRange` is 2^20
in place of 2^32, because TLC's integers end at 2^31; with at most three buckets
the keys meet in them either way, and the theorems do not depend on the hash but
on its being a function of the text and the length.
Recursion is written as functions (`hash`, `map`), so that it can be proved about.

### Pool and Resources

`Pool` has the free list as a sequence of addresses, an address being a chunk and
an offset. It starts as `sy_pool_clear` leaves it, without a chunk, which is what
`server.c:93-94` ask for. As written they do not get it: `sy_pool_init` asserts
that it is asked for at least one (`base/mempool.c:27`), and without assertions
would go on to read the first of none (45-46). The model is of a worker that has
come past this. `Resources` composes two
pools with the open descriptors of the process, of which a call gets the lowest
free. An operator such as `OpenFront` or `CloseBack` takes the worker and returns
it as the call leaves it, and an action is the handler's composition of them.
The order of events is left out: any connection of the table may be due in any
sweep, epoll may refuse any connection, a request goes on whenever its fields
allow. `malloc` does not fail.

Of the table only the set `heap` is kept. A full one refuses (`Refused`): the
refused connection is closed, and another one goes out of the table with it,
whichever the stale `heap_idx` names. That one is `Adrift`, open and never swept.
The next call that sifts, or closes, from the `heap_idx` of a connection adrift
starts in a cell that is another's; so does a refusal whose `heap_idx` is no cell
in use. There the behaviour ends, with `broken`: what the code does next to the
table, including a second close and free of the same connection, is not claimed
(`ConnTimer` follows it further).

### Master

A start of the program is a process group, a daemon's or a shell job's. `master`
is where `main` is, `worker[m][w]` what the `w`th fork of `m` does, `sigint` the
processes with a pending signal. Saving the pid is two steps, the `fopen` that
empties the file and the `fclose` that writes it, and two writers may leave a
mixture. `-s stop` reads and kills in one step. The debug mode, which does not
fork and does not use the pid file, is left out.

## 3. Runs

| Run | Instance | Shows |
|---|---|---|
| `timer_static` | 3 fronts, table of 3, 3 clock values | `IndexExact`, `ClampedHeapOrder`, `SweptClean`, `NeverRefused`, and the refinement `TimerSpec` |
| `timer_proxy` | 2 fronts, 2 upstreams, table of 3, a `heap_idx` of 0, 1 or 9 in fresh memory, 2 clock values | `TypeOK`, `IndexExact`, `PairedUpstream`, with refusals |
| `worker_local` | 2 fronts, no upstream, headers as written | `NoAbort`, `HalfDuplex`, `ExpiredIsClosed`, `Answered` |
| `worker_proxy` | 1 front, 1 upstream, headers as intended | `TypeOK`, `NothingDangles`, `FileOrUpstream`, `ClearedAlone`, `ExpiredForGood`, `DeafIsClosed` |
| `parse` | paths to 8 characters, header lines to 6 | `PathRead`, `ClimbIsCut`, `QueryRead`, `ExtensionRead`, `MimeFound`, `HeaderRead`, `EmptyLineIsEmpty`, `NoHeaderIsFound` |
| `relay` | buffers of 2, heads of 1 and 3, bodies of 0 and 2, a reply of 2 | `RequestKept`, `ReplyKept`, `BodyCounted`, the refinement `StreamSpec`, `PassedWhole`, `DeliveredWhole` |
| `resources` | 4 descriptors, a table of 2, chunks of 2, structs of 2 and 3 pointers | `DescriptorsDistinct`, `PoolsExact`, `ObjectsApart`, `NoOtherLeak` |
| `master` | 2 starts of 2 workers | `TypeOK`, `HoldsTheFile`, `StopStops` |
| `x_unregistered` | 2 fronts, 2 upstreams, table of 3, a `heap_idx` of 3 in fresh memory | `assert(heap_size > 0)` of `sy_connection_unregister` is reached |
| `x_request_line` | 1 front, 1 upstream | `assert(false)` of the request line parser is reached |
| `x_upstream_kept` | 1 front, 1 upstream | an upstream its peer has closed is kept open forever |
| `x_two_servers` | 3 starts of 2 workers | a late stop handler lets a second server in |

The bounds.

* Timer: three connections are the least with two children of a root, so both
  branches of `Kid` and a tie occur; table 3 for up to four connections makes
  refusals happen; the clock starts at `Timeout + 1` (so that an expired time
  stamp is not negative) and one tick makes a connection due, two make it expired
  without a call of expire. `FreshIdx` has the cell outside the heap, one inside
  it and an index outside the array; a struct used before brings the others.
* Worker: `RbCap` and `SbCap` of two or three let a buffer fill in the middle of a
  request or a response; a file of one more `sendfile` has a middle and an end.
* Parser: `MaxPath` = 8 has room for three entries with dots, for leaving the root
  and coming back, for a file behind a directory with an extension, and for a
  query with another question mark; behind a scheme and a host `MaxHostPath` = 4
  is enough to show that positions are counted from the path's own start.
  `MaxHeader` = 6 has a name, a colon, spaces on both sides of a value and its
  end. The other versions and the headers are tried behind the shortest request
  line only, since nothing of the line is read there.
* Relay: with `Buf` = 2, a head of 1 fits and one of 3 does not; a body of 2 comes
  with the headers, partly or after them, and does not fit behind the headers; a
  reply of 2 fills the send buffer, after which a page finds no room.
* Resources: four descriptors are two proxied clients, or one with a file while it
  has none for an index; a table of two is full with any two connections, so that
  a third is refused and puts one adrift; chunks of two objects make a second
  chunk and a list through both. All is reached between an empty worker and one
  that has lost every descriptor.
* Master: two workers are the least with one left behind; three starts are
  stopped, intruding and intruded upon.

Deadlock is checked in `timer_static`, where the code never stops. It is not in
`timer_proxy`, where a refusal may end the program in `assert(heap_size > 0)` or
in a write outside the array; nor in `worker_local`, where a URI may end the
worker (`fault = "pointer"`); nor in `worker_proxy` and `relay`, where an
assertion may end the process and an exchange is over at its end; nor in `parse`,
where the instance offers nothing behind most request lines; nor in `resources`,
where a worker whose descriptors are all lost can do nothing any more and a
behaviour ends with `broken`; nor in `master`, which is over when every process
is.

Fairness. In `Worker` the loop runs whenever it can (it is one thread and every
call in it returns: descriptors are nonblocking, except the `connect` to an
upstream, which is taken to return) and the clock moves on (weak fairness). A
sweep that could close a connection again and again does so once (strong
fairness): without upstreams this follows from `SweepIsComplete`; with them it is
an assumption about the heap, and liveness with upstreams (`DeafIsClosed`) rests
on it. Clients and upstreams owe nothing there. A socket whose peer has closed is
always reported readable. The counterexample of `x_upstream_kept` is a fair loop
under the same assumptions. In `Relay` the loop runs too, and a peer that is sent
to has room again and again and takes at least a byte when it is sent to again and
again: a peer that never reads is never served, and no server could. The peers
need not write, and the two liveness properties begin where they have written all.
In `Master` only the delivery of signals is fair.

## 4. Proofs

All are for every value of the constants, under the named assumptions of the
modules.

* `TypeCorrect` (`ConnTimerProofs`): `Spec => []TypeOK`, whatever integers fresh
  memory holds, also after a refusal. Beside the types it says that the `heap_idx`
  of an open connection is a position of the array: what activate, expire and
  close follow. Inductive with `HeapFilled` (cells fill from below and keep what
  they held) and `RefsPlaced` (what the code follows has a cell). A refused
  connection is never open, and one whose `heap_idx` is outside the array ends in
  `"wild"`.
* `IndexIsExact`, `UpstreamsArePaired` (`ConnTimerProofs`): the hole of a sift
  loop is the only position where `heap_idx` and the array may differ, and the
  connection that belongs there is the one the loop carries.
* `ExpiryOrder`, `SweepIsComplete` (`ConnTimerOrderProofs`), for `Back = {}`. The
  array is *not* a heap by `active_time`: `unregister` sifts down only. It is one
  by `Key`, the time with everything expired counted alike: without upstreams
  `expire` is the only way to get a time that is not the clock's, a moved
  connection can be older than its new parent only when both are expired, and
  while a sift is under way the hole's parent is no later than the hole's
  children. By induction along the parents (`RootDecides`) the root decides
  whether anything is due.
* `RoomForAll` (`ConnTimerOrderProofs`): if the table has as many cells as there
  are connection structs, no registration is refused; the live connections are as
  many as the cells in use.
* `TimerRefined`: `Spec => TimerSpec` under both conditions: every step of the
  heap is a step of `ExpiryQueue` or changes nothing it sees.
* `WorkerTypes`, `WorkerPointers`, `OneSource`, `NoUpstreamLeft`, `ExpiredStays`
  (`WorkerProofs`), for any number of clients and upstreams and any recognised
  headers. The invariant `WInv` adds to the types and the pointers that the batch
  is empty outside the dispatch (so a sweep frees nothing that an event points at)
  and `Good`: a request whose line is unread has neither a file nor an upstream,
  and one with a file has no upstream. Every one of the many ways through a
  handler is shown to be one of two steps, `Serves` (the request changes, the
  links do not) or `Connects` (the request line gave it an upstream), and only
  these two are carried through the invariant. `NoUpstreamLeft` and `ExpiredStays`
  are action properties from the same case split.
* `OneAnswer`, `NeverAborts` (`WorkerProofs`), for `Back = {}` and `Recognised =
  {}`, the code as it is written without upstreams. `LocalInv` adds that a client
  is listened to before its answer and written to after it, never both, and that
  nothing is in the send buffer before the answer; hence there is room for the
  page and no assertion fails; what may still end the worker is `"pointer"`.
  Neither condition can be dropped for `NoAbort`: with upstreams `x_request_line`
  refutes it, with recognised headers the missing upstream of `request.c:475`
  does.
* Lemmas of `Pool` (`AllocExact`, `FreeExact`, `ExactApart`): for every size of an
  object and of a chunk, `alloc` and `free` keep every object in use or on the
  list, once, and objects in use never overlap or leave their chunk.
* `NumbersAreDistinct`, `PoolsAreExact`, `ObjectsAreApart`, `LeaksAreThree`
  (`ResourcesProofs`), for any limit of descriptors, any table and any sizes,
  until the table is written through a foreign `heap_idx`. The invariant `Good`
  ties the connections, requests and descriptors together (`Held`: a connection
  and its request name each other, an unread request line has no upstream and no
  file, no number stands twice) and has each pool hold exactly the structs in use,
  where the lemmas of `Pool` come in. That the kernel gives out a number that is
  free rests on the least element of a set of naturals. The second half of the
  module says of each call which descriptors it may lose, and which connections it
  leaves in the table.
* `RoomForAll` (`ResourcesProofs`): with no more descriptors than cells of the
  table no connection is ever adrift. In the code it is the other way round, a
  limit of 65535 (`server.c:86-87`) against `MAX_CONNECTION` 8192.
* `MasterTypes`, `FileIsHeld` (`MasterProofs`): the invariant `Seated` says that
  the file names the start that is past its check, and is empty while one is
  between check and save. It breaks exactly when two starts overlap or a handler
  resets the file.

* `RequestKeptHolds`, `ReplyKeptHolds`, `BodyCountedHolds` (`RelayProofs`), for
  any `BUF_SIZE` and any lengths of head, body and reply. The three say nothing of
  the interests in events, and are not inductive without them. `IInv` adds
  `BatchInv` (no half of an event is left in the batch for a connection that is
  gone, none is there twice, and behind the client's output only the upstream
  follows), `StageInv` (a request line is read into an empty buffer with no
  upstream; an upstream that is written to is past the headers; and a client whose
  request waits for the upstream is not read, so that `recv` never appends to a
  buffer that is partly sent) and `Written` (the client writes one request). The
  reply is compared with what was delivered *without the pages* (`Unpaged`, a
  fold); that it distributes over concatenation is an induction along the
  sequence, done on sets of lengths with the well-founded order of the naturals
  (`UpTo`).
* `StreamRefined`: `Spec => StreamSpec`: every action is a step of `Stream` by a
  known piece of one direction, or changes neither direction; both directions
  stand still when the exchange is over, because `BatchInv` has then no half left.
* `HeaderReadHolds`, `EmptyLineIsEmptyHolds`, `NoHeaderIsFoundHolds`
  (`HttpParseProofs`), for lines of any length. `HeaderKept` proves the invariant
  `HeaderInv`: in each state of `parse_header_line`, where in the line the name
  ends, where the value begins, and that only spaces follow its recorded end; a
  line that is ignored is one that no header can be (`Broken`). `HeaderRead` asks
  in both directions, so the invariant must also say why a line was refused. The
  properties are about `raw`; `SentInv` says how `line` comes from it: the same
  with the name rewritten (`AsSent`), unless the automaton is ignoring what comes,
  and then why it does.
* `PathReadHolds`, `ClimbIsCutHolds`, `QueryReadHolds`, `ExtensionReadHolds`,
  `MimeFoundHolds` (`HttpParseProofs`), for URIs of any length. `UriKept` proves
  `UriInv`: the URI goes from `f` to before the next space (`UriAt`), and what was
  read of it (`Reads`, then `UriRead`) is known by the place of its path and its
  query. Inside the path (`PathGoesOn`) it says of the entry that is open what its
  text tells each state (`EntryRead`), and of the entries that are closed how
  `nentries` and `nddots` compare with the ordinary entries and the parents among
  them (`Tally`): `nentries` may be more than the entries, since one without a dot
  is counted twice, and that is enough for a path that never climbs; for one that
  does, every ordinary entry must have a dot, which is why `ClimbIsCut` asks for
  it. The second half translates this into the words of the properties, which find
  the same places with `Min` and `Max` in the whole text.
* The maps: `NameMapHolds` and `MimeMapHolds` say that after the rows of a table
  were put, every row is in the bucket of its key and nothing else is in the map,
  by induction over the rows. With distinct extensions a lookup by the whole key
  then gives the row's type; a lookup by a text that goes on to an LF finds none
  of the names.

The assumptions. `CharAssumption`: a character has a code. `TableAssumption`: a
map has a bucket (`HEADER_MAP_SIZE`, `MIME_MAP_SIZE`), the extensions of `mime_tb`
are distinct (`response.c:198-210`), and no name of `header_tb` has an LF in it
(`request.c:24-63`). `SizeAssumption` of `Relay`: `BUF_SIZE` and a head are at
least a byte. A table, a buffer and a message may otherwise be anything.

Only model-checked: liveness (`ExpiredIsClosed`, `Answered`, `DeafIsClosed`,
`PassedWhole`, `DeliveredWhole`, `StopStops`), which like ENABLED is out of the
prover's reach. Every invariant and every other action property of a passing run
is a theorem, some of them under the conditions named above: `ExpiryOrder`,
`SweepIsComplete` and the refinement of `ExpiryQueue` do not hold with upstreams
(section 2, ConnTimer), and `timer_proxy` therefore does not claim them.

## 5. Findings

* `x_unregistered`. A refused connection, which never came into the table, is
  unregistered as any other (`connection.c:22-25, 57-60`), through a `heap_idx`
  that nothing has set. In the trace it takes the upstream of another client out
  of the heap; a sweep closes both clients, and the close of that upstream finds
  the heap empty, which `assert(heap_size > 0)` (`connection.c:171`) excludes.
* `x_request_line`. `sy_handle_pass` listens again (`request.c:168`) while the
  parser is past the request line; what the client sends next ends the worker at
  `httpparse.c:256-258`.
* `x_upstream_kept`. The front's EPOLLOUT (`request.c:209-210`) activates the
  upstream that was expired earlier in the same batch.
* `x_two_servers`. Every worker resets the pid file when it handles a stop
  (`server.c:45`), which may be after the next server has saved its own.

Met on the way, with no run of their own.

In the event loop and the handlers: a request is cleared before all of it was
received when its upstream answers and closes early (`request.c:254-258`); a
body that is not whole and has no upstream follows a NULL (`request.c:475`); the
loop over headers goes on after an error page (`request.c:383`); a host with a port
in the URI, and a file without an extension, have the worker read address 1
(`request.c:296`, `response.c:258`); with upstreams a sweep may leave an expired
connection for a later one (`connection.c:176`).

In the master: the first restart of a worker writes through NULL, because
`sy_vector_at` past the end is NULL (`server.c:160-161`); a worker that exits
takes the master with it by `raise(SIGINT)`, which leaves the other workers and
the pid file (`server.c:150-151`); a stop before `signal` leaves the pid file.

In the parser and the maps: no header of `header_tb` is ever found, because the
comparison reads the name on past its colon (`request.c:377`, `NoHeaderIsFound`),
so that the host header, which by the comment at `request.c:443-444` is to be
active, never is, and a body is never waited for; the case of an entry falls
through to that of an extension (`httpparse.c:507-537`), so an entry without a dot
is counted twice against `..` and a path without an extension records one at NULL
+ 1; a query right behind an extension leaves the length of the path unset
(558-566); the extension of an entry `..a` begins one late (499); the start of the
port is never set; the length of the host is never set; a name that ends in LF
swallows the next line (670); an underscore in a name makes the line ignored.
`ClimbIsCut` and `ExtensionRead` are stated around these.

In the pools and descriptors: three steps lose a descriptor for good, a request
whose upstream cannot be reached (`connection.c:46-49`), a client connection
that closes with a file half sent (`connection.c:80`), and a refused connection
that puts another out of the table (172); when all are lost no
`accept` succeeds any more, while the listening socket stays readable.
`server.c:93` calls `sy_pool_init` with no chunks, which its assertion forbids
(`base/mempool.c:27`), and would go on to read the first of them (45-46); chunks
it did make would be cut at the width of a link (40).

## 6. Not modelled

* `config.c` sets constants and is unfinished; most options are not read.
* `base/list.*`: the only list, `r->accepts`, is initialised and never filled,
  because `sy_parse_header_accept` has no caller, nor have `sy_parse_header_host`
  and `sy_split_header_value`. `base/queue.*` has no user.
* The chunked body of `httpparse.c` is behind `assert(false)`; the branches of
  `sy_response_build` for 304 and 100 are never taken, since nothing sets these
  statuses. The wording of pages is left out.
* `uwsgi.c` and several headers are empty; `util.h` has macros and wording.
* `sy_startup` and `sy_add_listener` are calls of the kernel made once.
* Kernel objects (epoll, sockets, signals, fork) are modelled by how the code
  uses them and marked external in `PROJECT.json`.

## 7. Plan

1. Done: all modules of section 2, and the theorems of section 4.
2. What the code may still be asked: the version that `sy_parse_request_line`
   computes from its digits, and `Worker` over `Resources`, the order of events
   together with the descriptors, to bound how fast the three leaks empty a worker.
