----------------------------- MODULE MasterProofs -----------------------------
(***************************************************************************)
(* Proofs about Master: its type invariant, and that the pid file keeps a  *)
(* second server out as long as nobody stops the first, for any number of  *)
(* starts and workers, whichever of their processes die.                   *)
(***************************************************************************)
EXTENDS Master, TLAPS

\* The fork that main cannot store the process id of is its last.
ForkRoom == \A m \in Start : master[m] # "dead" => nworker[m] <= Workers

WorkerState == {"none", "starting", "serving", "handler", "exited", "killed", "gone"}
Alive == {"starting", "serving"}
Saving == {"save", "write"}

\* The pid file names the start that is past its check, and the file is empty while
\* a start is between check and save.
Seated ==
    /\ \A m \in Start : master[m] \in {"loop", "restart"} => pid_file = m
    /\ \A m \in Start, w \in Worker : worker[m][w] \in Alive => pid_file = m
    /\ \A m \in Start : master[m] \in Saving => pid_file = Nobody
    /\ \A m, n \in Start : master[m] \in Saving /\ master[n] \in Saving => m = n
    /\ \A m \in Start, w \in Worker : worker[m][w] # "handler"

Quiet == ~overlapped /\ ~handled

MasterInv == TypeOK /\ ForkRoom /\ (Quiet => Seated)

-------------------------------------------------------------------------------
LEMMA MasterInit == Init => MasterInv
<1> SUFFICES ASSUME Init PROVE MasterInv
  OBVIOUS
<1>1. TypeOK
  <2>1. nworker \in [Start -> 0 .. Workers + 1]
    BY WorkersAssumption, SMT DEF Init
  <2>2. worker \in [Start -> [Worker -> WorkerState]]
    BY DEF Init, WorkerState
  <2> QED
    BY <2>1, <2>2 DEF Init, TypeOK, WorkerState
<1>2. ForkRoom
  BY WorkersAssumption, SMT DEF Init, ForkRoom
<1>3. Seated
  BY DEF Init, Seated, Alive, Saving
<1> QED
  BY <1>1, <1>2, <1>3 DEF MasterInv

LEMMA NobodyIsNoStart == Nobody \notin Start /\ Mixed \notin Start
  BY StartAssumption DEF Nobody, Mixed

\* What has died is not alive.
LEMMA ReapedTyped ==
    ASSUME NEW ws \in [Worker -> WorkerState]
    PROVE  /\ Reaped(ws) \in [Worker -> WorkerState]
           /\ \A w \in Worker : Reaped(ws)[w] \in Alive \cup {"handler"}
                                   => Reaped(ws)[w] = ws[w]
  BY DEF Reaped, Alive, WorkerState

\* The child is in the table and the rest of it is as it was.
LEMMA WithChildTyped ==
    ASSUME TypeOK, NEW m \in Start, nworker[m] <= Workers
    PROVE  /\ WithChild(m) \in [Worker -> WorkerState]
           /\ \A w \in Worker : WithChild(m)[w] # "starting" => WithChild(m)[w] = worker[m][w]
           /\ nworker[m] + 1 \in 0 .. Workers + 1
  BY WorkersAssumption, SMT DEF TypeOK, WithChild, Worker, WorkerState

\* One worker of one start moves.
LEMMA WorkerAtTyped ==
    ASSUME TypeOK, NEW m \in Start, NEW w \in Worker, NEW from, NEW to \in WorkerState,
           WorkerAt(m, w, from, to)
    PROVE  /\ worker' \in [Start -> [Worker -> WorkerState]]
           /\ \A n \in Start \ {m} : worker'[n] = worker[n]
           /\ \A v \in Worker \ {w} : worker'[m][v] = worker[m][v]
           /\ worker[m][w] = from /\ worker'[m][w] = to
<1>1. worker \in [Start -> [Worker -> WorkerState]]
  BY DEF TypeOK, WorkerState
<1>2. worker' = [worker EXCEPT ![m] = [worker[m] EXCEPT ![w] = to]]
  BY DEF WorkerAt
<1>3. [worker[m] EXCEPT ![w] = to] \in [Worker -> WorkerState]
  BY <1>1
<1> QED
  BY <1>1, <1>2, <1>3 DEF WorkerAt

-------------------------------------------------------------------------------
LEMMA CheckStep ==
    ASSUME MasterInv, NEW m \in Start, Check(m)
    PROVE  MasterInv'
<1>1. TypeOK'
  BY SMT DEF MasterInv, TypeOK, Check, MasterAt
<1>2. ForkRoom'
  BY SMT DEF MasterInv, TypeOK, ForkRoom, Check, MasterAt
<1>3. Quiet' => Seated'
  <2> SUFFICES ASSUME Quiet' PROVE Seated'
    OBVIOUS
  <2>1. Quiet /\ Seated
    BY DEF MasterInv, Quiet, Check
  <2>2. CASE pid_file = Nobody /\ MasterAt(m, "new", "save")
    <3>1. \A n \in Start : master[n] \notin Saving
      BY <2>2 DEF Quiet, Check, MasterAt, MasterInv, TypeOK, Saving
    <3> QED
      BY <2>1, <2>2, <3>1, SMT
         DEF Seated, Check, MasterAt, MasterInv, TypeOK, Saving, Alive
  <2>3. CASE MasterAt(m, "new", "dead")
    BY <2>1, <2>3, SMT DEF Seated, Check, MasterAt, MasterInv, TypeOK, Saving, Alive
  <2> QED
    BY <2>2, <2>3 DEF Check
<1> QED
  BY <1>1, <1>2, <1>3 DEF MasterInv

LEMMA SaveStep ==
    ASSUME MasterInv, NEW m \in Start, OpenPidFile(m) \/ SavePid(m)
    PROVE  MasterInv'
<1>1. TypeOK'
  BY SMT DEF MasterInv, TypeOK, OpenPidFile, SavePid, MasterAt, Empty, Write, history
<1>2. ForkRoom'
  BY SMT DEF MasterInv, TypeOK, ForkRoom, OpenPidFile, SavePid, MasterAt
<1>3. Quiet' => Seated'
  <2> SUFFICES ASSUME Quiet' PROVE Seated'
    OBVIOUS
  <2>1. Quiet /\ Seated
    BY DEF MasterInv, Quiet, OpenPidFile, SavePid, history
  <2>2. pid_file = Nobody /\ master[m] \in Saving
    BY <2>1 DEF Seated, OpenPidFile, SavePid, MasterAt, Saving
  <2>3. \A n \in Start : /\ master[n] \notin {"loop", "restart"}
                         /\ \A w \in Worker : worker[n][w] \notin Alive
                         /\ n # m => master[n] \notin Saving
    BY <2>1, <2>2, NobodyIsNoStart DEF Seated
  <2>4. CASE OpenPidFile(m)
    BY <2>1, <2>2, <2>3, <2>4, SMT
       DEF Seated, OpenPidFile, MasterAt, Empty, MasterInv, TypeOK, Saving, Alive
  <2>5. CASE SavePid(m)
    <3>1. pid_file' = m
      BY <2>2, <2>5 DEF SavePid, Write
    <3> QED
      BY <2>1, <2>2, <2>3, <2>5, <3>1, SMT
         DEF Seated, SavePid, MasterAt, MasterInv, TypeOK, Saving, Alive
  <2> QED
    BY <2>4, <2>5
<1> QED
  BY <1>1, <1>2, <1>3 DEF MasterInv

\* What a step of the master of m, or of a worker of it, does to the rest of the
\* state when it leaves the pid file alone and starts only children of a live master.
Local(m) ==
    /\ UNCHANGED <<pid_file, history>>
    /\ \A n \in Start \ {m} : master'[n] = master[n] /\ worker'[n] = worker[n]
    /\ \/ master'[m] \in {master[m], "dead"}
       \/ master[m] = "loop" /\ master'[m] = "restart"
    /\ \A w \in Worker :
          /\ worker'[m][w] = "handler" => worker[m][w] = "handler"
          /\ worker'[m][w] \in Alive =>
                worker[m][w] \in Alive \/ master[m] \in {"loop", "restart"}

LEMMA LocalStep ==
    ASSUME MasterInv, NEW m \in Start, Local(m)
    PROVE  Quiet' => Seated'
<1> SUFFICES ASSUME Quiet' PROVE Seated'
  OBVIOUS
<1>1. Quiet /\ Seated
  BY DEF MasterInv, Quiet, Local, history
<1>2. \A n \in Start : master'[n] \in Saving => master[n] \in Saving
  BY SMT DEF Local, Saving
<1>3. \A n \in Start : master'[n] \in {"loop", "restart"} => master[n] \in {"loop", "restart"}
  BY SMT DEF Local
<1>4. pid_file' = pid_file
  BY DEF Local
<1>5. \A n \in Start, w \in Worker :
         /\ worker'[n][w] # "handler"
         /\ worker'[n][w] \in Alive => pid_file = n
  BY <1>1 DEF Local, Seated
<1> QED
  BY <1>1, <1>2, <1>3, <1>4, <1>5 DEF Seated

-------------------------------------------------------------------------------
\* The master ends, with the table of workers ws.
LEMMA MasterEndsInv ==
    ASSUME MasterInv, NEW m \in Start, NEW from, NEW ws \in [Worker -> WorkerState],
           MasterEnds(m, from, ws),
           \A w \in Worker : \/ ws[w] = worker[m][w]
                             \/ ws[w] = "starting" /\ master[m] \in {"loop", "restart"},
           UNCHANGED <<pid_file, history>>,
           nworker' \in [Start -> 0 .. Workers + 1],
           \A n \in Start \ {m} : nworker'[n] = nworker[n]
    PROVE  MasterInv'
<1>1. /\ worker' \in [Start -> [Worker -> WorkerState]]
      /\ \A n \in Start \ {m} : worker'[n] = worker[n]
      /\ worker'[m] = Reaped(ws)
  BY ReapedTyped DEF MasterInv, TypeOK, MasterEnds, WorkerState
<1>2. /\ master' \in [Start -> {"new", "save", "write", "loop", "restart", "dead"}]
      /\ \A n \in Start \ {m} : master'[n] = master[n]
      /\ master'[m] = "dead"
  BY DEF MasterInv, TypeOK, MasterEnds, MasterAt
<1>3. sigint' \in [Start -> SUBSET ({0} \cup Worker)]
  BY DEF MasterInv, TypeOK, MasterEnds
<1>4. TypeOK'
  BY <1>1, <1>2, <1>3 DEF MasterInv, TypeOK, WorkerState, history
<1>5. ForkRoom'
  BY <1>2 DEF MasterInv, ForkRoom
<1>6. Local(m)
  <2>1. \A w \in Worker : worker'[m][w] \in Alive \cup {"handler"} => worker'[m][w] = ws[w]
    BY <1>1, ReapedTyped
  <2>2. \A w \in Worker :
          /\ worker'[m][w] = "handler" => worker[m][w] = "handler"
          /\ worker'[m][w] \in Alive =>
                worker[m][w] \in Alive \/ master[m] \in {"loop", "restart"}
    BY <2>1
  <2> QED
    BY <1>1, <1>2, <2>2 DEF Local, history
<1> QED
  BY <1>4, <1>5, <1>6, LocalStep DEF MasterInv

LEMMA ForkStep ==
    ASSUME MasterInv, NEW m \in Start, Fork(m)
    PROVE  MasterInv'
<1>1. nworker[m] <= Workers /\ nworker[m] \in Nat
  BY WorkersAssumption, SMT DEF MasterInv, TypeOK, Fork
<1>2. WithChild(m) \in [Worker -> WorkerState]
  BY <1>1, WithChildTyped DEF MasterInv
<1>3. TypeOK'
  BY <1>1, <1>2, WithChildTyped, SMT
     DEF MasterInv, TypeOK, Fork, Forked, MasterAt, history, WorkerState
<1>4. ForkRoom'
  BY <1>1, WorkersAssumption, SMT DEF MasterInv, TypeOK, ForkRoom, Fork, Forked, MasterAt
<1>5. Local(m)
  <2>1. /\ worker' = [worker EXCEPT ![m] = WithChild(m)]
        /\ master' = master /\ master[m] = "loop"
        /\ UNCHANGED <<pid_file, history>>
    BY DEF Fork, Forked, MasterAt, MasterInv, TypeOK
  <2>2. worker'[m] = WithChild(m) /\ \A n \in Start \ {m} : worker'[n] = worker[n]
    BY <2>1 DEF MasterInv, TypeOK
  <2>3. \A w \in Worker : worker'[m][w] # "starting" => worker'[m][w] = worker[m][w]
    BY <1>1, <2>2, WithChildTyped DEF MasterInv
  <2> QED
    BY <2>1, <2>2, <2>3 DEF Local, Alive, history
<1> QED
  BY <1>3, <1>4, <1>5, LocalStep DEF MasterInv

LEMMA RestartStep ==
    ASSUME MasterInv, NEW m \in Start, Restart(m)
    PROVE  MasterInv'
<1>1. nworker[m] <= Workers /\ nworker[m] \in Nat /\ master[m] = "restart"
  BY WorkersAssumption, SMT DEF MasterInv, TypeOK, ForkRoom, Restart, MasterEnds, MasterAt
<1>2. WithChild(m) \in [Worker -> WorkerState]
  BY <1>1, WithChildTyped DEF MasterInv
<1>3. \A w \in Worker :
         \/ WithChild(m)[w] = worker[m][w]
         \/ WithChild(m)[w] = "starting" /\ master[m] \in {"loop", "restart"}
  BY <1>1, WithChildTyped DEF MasterInv
<1>4. /\ nworker' \in [Start -> 0 .. Workers + 1]
      /\ \A n \in Start \ {m} : nworker'[n] = nworker[n]
  BY <1>1, WithChildTyped DEF MasterInv, TypeOK, Restart, Forked
<1> QED
  BY <1>2, <1>3, <1>4, MasterEndsInv DEF Restart, Forked

LEMMA MasterDiesStep ==
    ASSUME MasterInv, NEW m \in Start, MasterDies(m)
    PROVE  MasterInv'
<1>1. worker[m] \in [Worker -> WorkerState]
  BY DEF MasterInv, TypeOK, WorkerState
<1>2. nworker' \in [Start -> 0 .. Workers + 1] /\ nworker' = nworker
  BY DEF MasterInv, TypeOK, MasterDies
<1> QED
  BY <1>1, <1>2, MasterEndsInv DEF MasterDies, history

\* A worker moves to a state it does not leave, or starts to serve.
LEMMA WorkerMoves ==
    ASSUME MasterInv, NEW m \in Start, NEW w \in Worker, NEW from, NEW to \in WorkerState,
           WorkerAt(m, w, from, to),
           sigint' \in {sigint, [sigint EXCEPT ![m] = @ \ {w}]},
           UNCHANGED <<master, nworker>>
    PROVE  /\ ForkRoom'
           /\ pid_file' = pid_file /\ UNCHANGED history => TypeOK'
           /\ /\ pid_file' = pid_file /\ UNCHANGED history
              /\ to # "handler" /\ (to \in Alive => from \in Alive)
              => Local(m)
<1>1. /\ worker' \in [Start -> [Worker -> WorkerState]]
      /\ \A n \in Start \ {m} : worker'[n] = worker[n]
      /\ \A v \in Worker \ {w} : worker'[m][v] = worker[m][v]
      /\ worker[m][w] = from /\ worker'[m][w] = to
  BY WorkerAtTyped DEF MasterInv
<1>2. sigint' \in [Start -> SUBSET ({0} \cup Worker)]
  BY DEF MasterInv, TypeOK
<1>3. ForkRoom'
  BY DEF MasterInv, ForkRoom
<1>4. ASSUME pid_file' = pid_file, UNCHANGED history PROVE TypeOK'
  BY <1>1, <1>2, <1>4 DEF MasterInv, TypeOK, history, WorkerState
<1>5. ASSUME pid_file' = pid_file, UNCHANGED history, to # "handler",
             to \in Alive => from \in Alive
      PROVE  Local(m)
  <2>1. \A v \in Worker :
          /\ worker'[m][v] = "handler" => worker[m][v] = "handler"
          /\ worker'[m][v] \in Alive => worker[m][v] \in Alive
    BY <1>1, <1>5
  <2> QED
    BY <1>1, <1>5, <2>1 DEF Local, history
<1> QED
  BY <1>3, <1>4, <1>5

LEMMA WaitStep ==
    ASSUME MasterInv, NEW m \in Start, Wait(m)
    PROVE  MasterInv'
<1>1. PICK w \in Worker :
        \/ worker[m][w] = "exited" /\ MasterEnds(m, "loop", worker[m])
        \/ /\ WorkerAt(m, w, "killed", "gone")
           /\ MasterAt(m, "loop", "restart")
           /\ UNCHANGED sigint
  BY DEF Wait
<1>2. UNCHANGED <<pid_file, nworker, history>>
  BY DEF Wait
<1>3. CASE worker[m][w] = "exited" /\ MasterEnds(m, "loop", worker[m])
  <2>1. worker[m] \in [Worker -> WorkerState]
    BY DEF MasterInv, TypeOK, WorkerState
  <2>2. nworker' \in [Start -> 0 .. Workers + 1]
    BY <1>2 DEF MasterInv, TypeOK
  <2> QED
    BY <1>2, <1>3, <2>1, <2>2, MasterEndsInv DEF history
<1>4. CASE WorkerAt(m, w, "killed", "gone") /\ MasterAt(m, "loop", "restart")
              /\ UNCHANGED sigint
  <2>1. /\ worker' \in [Start -> [Worker -> WorkerState]]
        /\ \A n \in Start \ {m} : worker'[n] = worker[n]
        /\ \A v \in Worker \ {w} : worker'[m][v] = worker[m][v]
        /\ worker'[m][w] = "gone"
    BY <1>4, WorkerAtTyped DEF MasterInv, WorkerState
  <2>2. /\ master' \in [Start -> {"new", "save", "write", "loop", "restart", "dead"}]
        /\ \A n \in Start \ {m} : master'[n] = master[n]
        /\ master[m] = "loop" /\ master'[m] = "restart"
    BY <1>4 DEF MasterInv, TypeOK, MasterAt
  <2>3. TypeOK'
    BY <1>2, <1>4, <2>1, <2>2 DEF MasterInv, TypeOK, history, WorkerState
  <2>4. ForkRoom'
    BY <1>2, <2>2 DEF MasterInv, ForkRoom
  <2>5. Local(m)
    BY <1>2, <2>1, <2>2 DEF Local, Alive
  <2> QED
    BY <2>3, <2>4, <2>5, LocalStep DEF MasterInv
<1> QED
  BY <1>1, <1>3, <1>4

\* A worker starts, or ends on its own.
LEMMA WorkerLocalStep ==
    ASSUME MasterInv, NEW m \in Start, NEW w \in Worker,
           Startup(m, w) \/ Crash(m, w) \/ Interrupt(m, w)
    PROVE  MasterInv'
<1>1. PICK from \in Alive \cup {"handler"}, to \in {"serving", "gone", "exited", "killed"} :
        WorkerAt(m, w, from, to) /\ (to = "serving" => from = "starting")
  BY DEF Startup, Crash, Interrupt, WorkerEnds, Alive
<1>2. /\ UNCHANGED <<pid_file, master, nworker, history>>
      /\ sigint' \in {sigint, [sigint EXCEPT ![m] = @ \ {w}]}
  BY DEF Startup, Crash, Interrupt
<1>3. to \in WorkerState /\ to # "handler" /\ (to \in Alive => from \in Alive)
  BY <1>1 DEF WorkerState, Alive
<1> QED
  BY <1>1, <1>2, <1>3, WorkerMoves, LocalStep DEF MasterInv

\* A handler ends the quiet.
LEMMA HandlerStep ==
    ASSUME MasterInv, NEW m \in Start, NEW w \in Worker, Handler(m, w) \/ HandlerEnds(m, w)
    PROVE  MasterInv'
<1>1. PICK from \in WorkerState, to \in {"handler", "gone", "killed"} :
        WorkerAt(m, w, from, to)
  BY DEF Handler, HandlerEnds, WorkerEnds, WorkerState
<1>2. /\ UNCHANGED <<master, nworker>>
      /\ sigint' = [sigint EXCEPT ![m] = @ \ {w}]
  BY DEF Handler, HandlerEnds
<1>3. worker' \in [Start -> [Worker -> WorkerState]] /\ ForkRoom'
  <2>1. to \in WorkerState
    BY DEF WorkerState
  <2> QED
    BY <1>1, <1>2, <2>1, WorkerAtTyped, WorkerMoves DEF MasterInv
<1>4. TypeOK'
  <2>1. pid_file' \in {Nobody, Mixed}
    BY DEF Handler, HandlerEnds, Empty, Write
  <2>2. overlapped' \in BOOLEAN /\ handled' \in BOOLEAN
    BY DEF MasterInv, TypeOK, Handler, HandlerEnds, history
  <2>3. sigint' \in [Start -> SUBSET ({0} \cup Worker)]
    BY <1>2 DEF MasterInv, TypeOK
  <2> QED
    BY <1>2, <1>3, <2>1, <2>2, <2>3 DEF MasterInv, TypeOK, WorkerState
<1>5. ~Quiet'
  BY DEF MasterInv, Seated, Quiet, Handler, HandlerEnds, WorkerAt, WorkerEnds, history
<1> QED
  BY <1>3, <1>4, <1>5 DEF MasterInv

LEMMA StopStep ==
    ASSUME MasterInv, Stop
    PROVE  MasterInv'
<1>1. \A m \in Start : Group(m) \subseteq {0} \cup Worker
  BY DEF Group, Running
<1>2. TypeOK'
  BY <1>1, SMT DEF MasterInv, TypeOK, Stop, history
<1>3. ForkRoom' /\ (Quiet' => Seated')
  BY DEF MasterInv, ForkRoom, Quiet, Seated, Stop, history
<1> QED
  BY <1>2, <1>3 DEF MasterInv

LEMMA MasterStepInv == MasterInv /\ [Next]_vars => MasterInv'
<1> SUFFICES ASSUME MasterInv, [Next]_vars PROVE MasterInv'
  OBVIOUS
<1>1. ASSUME NEW m \in Start, MasterStep(m) PROVE MasterInv'
  BY <1>1, CheckStep, SaveStep, ForkStep, WaitStep, RestartStep DEF MasterStep
<1>2. ASSUME NEW m \in Start, MasterDies(m) PROVE MasterInv'
  BY <1>2, MasterDiesStep
<1>3. ASSUME NEW m \in Start, NEW w \in Worker, WorkerStep(m, w) PROVE MasterInv'
  BY <1>3, WorkerLocalStep DEF WorkerStep
<1>4. ASSUME NEW m \in Start, Signalled(m) PROVE MasterInv'
  BY <1>4, MasterDiesStep, WorkerLocalStep, HandlerStep DEF Signalled
<1>5. CASE Stop
  BY <1>5, StopStep
<1>6. CASE UNCHANGED vars
  BY <1>6 DEF vars, MasterInv, TypeOK, ForkRoom, Quiet, Seated
<1> QED
  BY <1>1, <1>2, <1>3, <1>4, <1>5, <1>6 DEF Next

LEMMA MasterAlways == Spec => []MasterInv
<1> QED
  BY MasterInit, MasterStepInv, PTL DEF Spec

-------------------------------------------------------------------------------
(* The theorems.                                                           *)

\* The variables of main keep their types; no start forks more than one worker past
\* the end of its table (the master does not survive the first, main in server.c).
THEOREM MasterTypes == Spec => []TypeOK
<1>1. MasterInv => TypeOK
  BY DEF MasterInv
<1> QED
  BY <1>1, MasterAlways, PTL

\* As long as no two starts passed the check at once and no worker handled a stop,
\* the pid file names every start of which a process is left: a later start is
\* refused, whatever died.
THEOREM FileIsHeld == Spec => []HoldsTheFile
<1>1. MasterInv => HoldsTheFile
  BY DEF MasterInv, Quiet, Seated, HoldsTheFile, Running, Alive
<1> QED
  BY <1>1, MasterAlways, PTL
===============================================================================
