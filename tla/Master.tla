-------------------------------- MODULE Master --------------------------------
(***************************************************************************)
(* syServer as the administrator sees it: main of server.c up to the event *)
(* loop, for several starts of the program on one machine, the pid file    *)
(* they share, the workers each of them forks, the SIGINT handler of the   *)
(* workers, and "syServer -s stop".                                        *)
(*                                                                         *)
(* A start leads a process group of its own: a daemon does (sy_daemon),    *)
(* and so does a job of an interactive shell.  The processes of the group  *)
(* of start m are the master, 0, and the workers in the order of fork.     *)
(* Process ids are not reused.                                             *)
(***************************************************************************)
EXTENDS Integers

CONSTANTS Start,    \* the runs of the program, each named by its process id
          Workers   \* server_cfg.workers.size

ASSUME StartAssumption == Start \cap {"0", "mixed"} = {}
ASSUME WorkersAssumption == Workers \in Nat \ {0}

\* main forks Workers times, and at most once more: see Restart.
Worker == 1 .. Workers + 1
Nobody == "0"       \* what an empty pid file reads as, too
Mixed == "mixed"    \* one number written over another: nobody's process id

VARIABLES pid_file,
          master,      \* [Start -> where it is in main, or "dead"]
          nworker,     \* [Start -> the variable of main]
          worker,      \* [Start -> [Worker -> where it is]]
          sigint,      \* [Start -> the processes with a pending SIGINT]
          overlapped,  \* two starts were between check and save (history)
          handled      \* a handler has reset the pid file (history)

vars == <<pid_file, master, nworker, worker, sigint, overlapped, handled>>
history == <<overlapped, handled>>

Init == /\ pid_file = Nobody
        /\ master = [m \in Start |-> "new"]
        /\ nworker = [m \in Start |-> 0]
        /\ worker = [m \in Start |-> [w \in Worker |-> "none"]]
        /\ sigint = [m \in Start |-> {}]
        /\ overlapped = FALSE
        /\ handled = FALSE

Running(m) == {w \in Worker : worker[m][w] \in {"starting", "serving", "handler"}}
Group(m) == Running(m) \cup IF master[m] \in {"new", "dead"} THEN {} ELSE {0}

\* fopen with "w" empties the file, fclose writes: over what others wrote since.  A
\* shorter number leaves the last digits of the longer one, and "0" is shorter.
Empty == pid_file' = Nobody
Write(pid) == pid_file' \in IF pid_file = Nobody THEN {pid}
                            ELSE {Mixed} \cup ({pid} \ {Nobody})

MasterAt(m, from, to) == master[m] = from /\ master' = [master EXCEPT ![m] = to]
WorkerAt(m, w, from, to) ==
    worker[m][w] = from /\ worker' = [worker EXCEPT ![m][w] = to]

\* A dead child is for its parent to wait for, or for init once the master is dead.
WorkerEnds(m, w, from, how) ==
    WorkerAt(m, w, from, IF master[m] = "dead" THEN "gone" ELSE how)
Reaped(ws) == [w \in Worker |-> IF ws[w] \in {"exited", "killed"} THEN "gone" ELSE ws[w]]
MasterEnds(m, from, ws) == /\ MasterAt(m, from, "dead")
                           /\ worker' = [worker EXCEPT ![m] = Reaped(ws)]
                           /\ sigint' = [sigint EXCEPT ![m] = @ \ {0}]

-------------------------------------------------------------------------------
(* The master.                                                             *)

\* sy_config_load, which may fail, and the check: sy_get_pid() != 0, "syServer has
\* already been running...".
Check(m) == /\ \/ pid_file = Nobody /\ MasterAt(m, "new", "save")
               \/ MasterAt(m, "new", "dead")
            /\ overlapped' = \/ overlapped
                             \/ /\ master'[m] = "save"
                                /\ \E n \in Start : master[n] \in {"save", "write"}
            /\ UNCHANGED <<pid_file, nworker, worker, sigint, handled>>

OpenPidFile(m) == /\ MasterAt(m, "save", "write")
                  /\ Empty
                  /\ UNCHANGED <<nworker, worker, sigint, history>>

SavePid(m) == /\ MasterAt(m, "write", "loop")
              /\ Write(m)
              /\ UNCHANGED <<nworker, worker, sigint, history>>

\* The kernel does not fork a process with a signal pending, so that a child does
\* not miss what its group got.
Forked(m) == /\ 0 \notin sigint[m]
             /\ nworker' = [nworker EXCEPT ![m] = @ + 1]
             /\ UNCHANGED <<pid_file, history>>
WithChild(m) == [worker[m] EXCEPT ![nworker[m] + 1] = "starting"]

\* Mutation of Fork: one worker too many.
ForkPastEnd(m) == /\ nworker[m] <= Workers
                  /\ MasterAt(m, "loop", "loop")
                  /\ Forked(m)
                  /\ worker' = [worker EXCEPT ![m] = WithChild(m)]
                  /\ UNCHANGED sigint

Fork(m) == /\ nworker[m] < Workers
           /\ MasterAt(m, "loop", "loop")
           /\ Forked(m)
           /\ worker' = [worker EXCEPT ![m] = WithChild(m)]
           /\ UNCHANGED sigint

\* Mutation of Wait: the pid file is reset before the master goes.
WaitResets(m) ==
    /\ nworker[m] >= Workers
    /\ \E w \in Worker :
          \/ /\ worker[m][w] = "exited"
             /\ MasterEnds(m, "loop", worker[m])
             /\ Empty
          \/ /\ WorkerAt(m, w, "killed", "gone")
             /\ MasterAt(m, "loop", "restart")
             /\ UNCHANGED <<pid_file, sigint>>
    /\ UNCHANGED <<nworker, history>>

\* wait(): for a worker that exited raise(SIGINT), which only the workers handle.
Wait(m) ==
    /\ nworker[m] >= Workers
    /\ \E w \in Worker :
          \/ worker[m][w] = "exited" /\ MasterEnds(m, "loop", worker[m])
          \/ /\ WorkerAt(m, w, "killed", "gone")
             /\ MasterAt(m, "loop", "restart")
             /\ UNCHANGED sigint
    /\ UNCHANGED <<pid_file, nworker, history>>

\* The worker is forked again, and the parent stores its pid through the NULL that
\* sy_vector_at returns for an index past the end.
Restart(m) == Forked(m) /\ MasterEnds(m, "restart", WithChild(m))

\* The master dies of a SIGINT (SIG_DFL), or of something else at any time, as
\* where fork fails (abort).
MasterDies(m) == /\ 0 \in Group(m)
                 /\ MasterEnds(m, master[m], worker[m])
                 /\ UNCHANGED <<pid_file, nworker, history>>

-------------------------------------------------------------------------------
(* A worker.                                                               *)

\* sy_startup.  Only with several workers is the port shared (SO_REUSEPORT).
Startup(m, w) ==
    /\ \/ /\ Workers > 1 \/ \A n \in Start, v \in Worker :
                               worker[n][v] \notin {"serving", "handler"}
          /\ WorkerAt(m, w, "starting", "serving")
          /\ UNCHANGED sigint
       \/ /\ WorkerEnds(m, w, "starting", "exited")
          /\ sigint' = [sigint EXCEPT ![m] = @ \ {w}]
    /\ UNCHANGED <<pid_file, master, nworker, history>>

\* An assertion, a bad pointer, kill -9.
Crash(m, w) == /\ \E s \in {"starting", "serving", "handler"} : WorkerEnds(m, w, s, "killed")
               /\ sigint' = [sigint EXCEPT ![m] = @ \ {w}]
               /\ UNCHANGED <<pid_file, master, nworker, history>>

\* SIGINT before signal(SIGINT, sy_sig_int).
Interrupt(m, w) == /\ w \in sigint[m]
                   /\ WorkerEnds(m, w, "starting", "killed")
                   /\ sigint' = [sigint EXCEPT ![m] = @ \ {w}]
                   /\ UNCHANGED <<pid_file, master, nworker, history>>

\* sy_sig_int, up to the fopen of sy_save_pid(0).
Handler(m, w) == /\ w \in sigint[m]
                 /\ WorkerAt(m, w, "serving", "handler")
                 /\ sigint' = [sigint EXCEPT ![m] = @ \ {w}]
                 /\ Empty
                 /\ handled' = TRUE
                 /\ UNCHANGED <<master, nworker, overlapped>>

\* Mutation of HandlerEnds: nothing ends the worker.
HandlerReturns(m, w) == /\ WorkerAt(m, w, "handler", "serving")
                        /\ Write(Nobody)
                        /\ UNCHANGED <<master, nworker, sigint, history>>

\* The rest of it: kill(-getpid()) finds no group, a worker does not lead one.
HandlerEnds(m, w) == /\ WorkerEnds(m, w, "handler", "killed")
                     /\ Write(Nobody)
                     /\ sigint' = [sigint EXCEPT ![m] = @ \ {w}]
                     /\ UNCHANGED <<master, nworker, history>>

-------------------------------------------------------------------------------
(* syServer -s stop: kill(-get_pid(), SIGINT).  The kill follows the read *)
(* at once.  Of a number that is nobody's none of these processes hears.    *)

Stop == /\ sigint' = [m \in Start |-> IF m = pid_file THEN Group(m) ELSE sigint[m]]
        /\ UNCHANGED <<pid_file, master, nworker, worker, history>>

MasterStep(m) == \/ Check(m) \/ OpenPidFile(m) \/ SavePid(m)
                 \/ Fork(m) \/ Wait(m) \/ Restart(m)

Signalled(m) == \/ 0 \in sigint[m] /\ MasterDies(m)
                \/ \E w \in Worker : Interrupt(m, w) \/ Handler(m, w) \/ HandlerEnds(m, w)

WorkerStep(m, w) == Startup(m, w) \/ Crash(m, w)

Next == \/ \E m \in Start : \/ MasterStep(m) \/ MasterDies(m) \/ Signalled(m)
                            \/ \E w \in Worker : WorkerStep(m, w)
        \/ Stop

\* The kernel delivers signals, and a process in a handler runs on.
Fairness == \A m \in Start : WF_vars(Signalled(m))

Spec == Init /\ [][Next]_vars /\ Fairness

-------------------------------------------------------------------------------
(* Properties.                                                             *)

TypeOK ==
    /\ pid_file \in Start \cup {Nobody, Mixed}
    /\ master \in [Start -> {"new", "save", "write", "loop", "restart", "dead"}]
    /\ nworker \in [Start -> 0 .. Workers + 1]
    /\ worker \in [Start -> [Worker -> {"none", "starting", "serving", "handler",
                                        "exited", "killed", "gone"}]]
    /\ sigint \in [Start -> SUBSET ({0} \cup Worker)]
    /\ overlapped \in BOOLEAN
    /\ handled \in BOOLEAN

\* A server that nobody has stopped.
Serves(m) == \E w \in Worker \ sigint[m] : worker[m][w] = "serving"

\* No two servers run at a time, unless two were started in the same moment: what
\* the check of the pid file is for ("syServer has already been running...").
OneServer ==
    ~overlapped => \A m, n \in Start : Serves(m) /\ Serves(n) => m = n

\* As long as nobody stops it, a server keeps others from starting, whatever dies
\* of it: its pid file outlives the master, as its workers do.
HoldsTheFile ==
    ~overlapped /\ ~handled =>
      \A m \in Start : Running(m) # {} => pid_file = m

\* What a stop reached comes to its end, all of it.
StopStops == \A m \in Start : sigint[m] # {} ~> Group(m) = {}

===============================================================================
