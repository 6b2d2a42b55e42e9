----------------------------- MODULE ExpiryQueue -----------------------------
(***************************************************************************)
(* What the timer of connection.c promises to the event loop of server.c,  *)
(* without the heap: every open connection has the time it was last        *)
(* active; a handler's result touches it or expires it; the sweep closes   *)
(* connections that are due, and it ends only when none is left.           *)
(*                                                                         *)
(* ConnTimer implements this specification for the connections that the    *)
(* sweep finds at the root of its heap (see there).                        *)
(***************************************************************************)
EXTENDS Integers

CONSTANTS Conn,     \* connection structs (struct sy_connection)
          Timeout,  \* server_cfg.timeout, in ticks of time(NULL)
          MaxNow    \* bound on the clock of the checked instances

VARIABLES live,         \* the connections that are open
          active_time,  \* c->active_time
          now,          \* time(NULL)
          phase         \* "loop": between events, "handler": in a handler,
                        \* "sweep": in sy_connection_sweep

vars == <<live, active_time, now, phase>>

Due(c) == now >= active_time[c] + Timeout

Init == /\ live = {}
        /\ active_time \in [Conn -> Int]
        /\ now \in Nat
        /\ phase = "loop"

Add(c) == /\ phase \in {"loop", "handler"}
          /\ c \notin live
          /\ live' = live \cup {c}
          /\ active_time' = [active_time EXCEPT ![c] = now]
          /\ UNCHANGED <<now, phase>>

\* An add that fails (no room, or epoll does not take it) leaves the set alone.
AddFails(c) == /\ phase \in {"loop", "handler"}
               /\ c \notin live
               /\ active_time' = [active_time EXCEPT ![c] = now]
               /\ UNCHANGED <<live, now, phase>>

BeginEvent(c) == /\ phase = "loop"
                 /\ c \in live
                 /\ active_time[c] + Timeout >= now
                 /\ phase' = "handler"
                 /\ UNCHANGED <<live, active_time, now>>

\* A handler ends: the connection is touched, or it is expired.
EndEvent(c) == /\ phase = "handler"
               /\ phase' = "loop"
               /\ \E t \in {now, now - Timeout - 1} :
                     active_time' = [active_time EXCEPT ![c] = t]
               /\ UNCHANGED <<live, now>>

BeginSweep == /\ phase = "loop"
              /\ phase' = "sweep"
              /\ UNCHANGED <<live, active_time, now>>

Close(c) == /\ phase = "sweep"
            /\ c \in live
            /\ Due(c)
            /\ live' = live \ {c}
            /\ UNCHANGED <<active_time, now, phase>>

EndSweep == /\ phase = "sweep"
            /\ \A c \in live : ~Due(c)
            /\ phase' = "loop"
            /\ UNCHANGED <<live, active_time, now>>

Tick == /\ now < MaxNow
        /\ now' = now + 1
        /\ UNCHANGED <<live, active_time, phase>>

Next == \/ \E c \in Conn : \/ Add(c) \/ AddFails(c)
                           \/ BeginEvent(c) \/ EndEvent(c) \/ Close(c)
        \/ BeginSweep \/ EndSweep \/ Tick

Spec == Init /\ [][Next]_vars
==============================================================================
