----------------------------- MODULE IpcSupervisor -----------------------------
(***************************************************************************)
(* ipc::spawn, __on_signal, waitForSignal and workerWait                   *)
(* (libs/base/src/ipc.cpp): the parent that forks the workers, counts the  *)
(* ones that exited, passes a termination signal on and stops after them.  *)
(* A signal handler runs between any two steps of its process. Children    *)
(* that are merely stopped (SIGSTOP) are left out. Init, Next and Spec are *)
(* named after spawn: the module can be extended together with another.    *)
(***************************************************************************)
EXTENDS Integers, FiniteSets

CONSTANT Workers    \* the workers 1 .. nworkers

ASSUME WorkersAssumption == IsFiniteSet(Workers) /\ Workers # {}

VARIABLES
    phase,     \* each worker: none, forked, starting, working, zombie or reaped
    active,    \* Worker::active
    told,      \* workers whose sigReceived is set
    pending,   \* signals the kernel has not delivered to the parent yet
    sig,       \* the parent's sigReceived
    bytes,     \* bytes in signalNotif
    done,      \* the parent's count of exits
    at,        \* where the parent stands in spawn
    termSent,  \* history: a termination signal was sent to the parent
    missed     \* history: a signal was merged, late, overwritten, reset or not sent

spawnVars == <<phase, active, told, pending, sig, bytes, done, at, termSent, missed>>

workers == <<phase, active, told>>
signals == <<pending, sig, bytes, termSent>>

nworkers == Cardinality(Workers)
Live    == {w \in Workers : phase[w] \in {"forked", "starting", "working"}}
Dead    == {w \in Workers : phase[w] \in {"zombie", "reaped"}}
Zombies == {w \in Workers : phase[w] = "zombie"}

SpawnInit == /\ phase = [w \in Workers |-> "none"]
             /\ active = {} /\ told = {}
             /\ pending = {} /\ sig = "none" /\ bytes = 0
             /\ done = 0
             /\ at = "fork"
             /\ termSent = FALSE /\ missed = FALSE

----------------------------------------------------------------------------
(* The workers.                                                            *)

(* A worker asks to be told when the parent is gone, and init: the         *)
(* handlers are installed and the worker is active.                        *)
WorkerInit(w) ==
    /\ phase[w] = "forked"
    /\ phase' = [phase EXCEPT ![w] = "starting"]
    /\ active' = active \cup {w}
    /\ UNCHANGED <<told, signals, done, at, missed>>

(* sigReceived = 0, after init: a signal taken in between is forgotten.    *)
WorkerStart(w) ==
    /\ phase[w] = "starting"
    /\ phase' = [phase EXCEPT ![w] = "working"]
    /\ told' = told \ {w}
    /\ missed' = (missed \/ w \in told)
    /\ UNCHANGED <<active, signals, done, at>>

(* SIGCHLD is ignored until the parent has installed its handler, and one  *)
(* that is pending already stands for both. In the last loop SIGCHLD does  *)
(* not matter any more, nor without a parent that waits.                   *)
Dies(w) ==
    /\ phase' = [phase EXCEPT ![w] = "zombie"]
    /\ IF at \in {"fork", "init", "failed", "gone"}
       THEN missed' = (missed \/ at \in {"fork", "init"}) /\ UNCHANGED pending
       ELSE /\ pending' = pending \cup {"chld"}
            /\ missed' = (missed \/ (at # "quit" /\ "chld" \in pending))

(* The work loop ends after a signal and the process exits.                *)
Leave(w) == /\ phase[w] = "working" /\ w \in told
            /\ Dies(w)
            /\ UNCHANGED <<active, told, sig, bytes, termSent, done, at>>

(* Work that returns non-zero or throws, or a crash.                       *)
Fail(w) == /\ w \in Live
           /\ Dies(w)
           /\ UNCHANGED <<active, told, sig, bytes, termSent, done, at>>

----------------------------------------------------------------------------
(* Signals to the parent.                                                  *)

(* SIGTERM to the parent alone, or SIGINT to its process group: a worker   *)
(* without a handler dies of it.                                           *)
Terminate ==
    /\ ~ termSent /\ at \notin {"fork", "init", "failed", "gone", "stopped"}
    /\ termSent' = TRUE
    /\ \/ pending' = pending \cup {"term"} /\ UNCHANGED <<workers, missed>>
       \/ LET killed == {w \in Workers : phase[w] = "forked"}
          IN  /\ phase' = [w \in Workers |-> IF w \in killed THEN "zombie" ELSE phase[w]]
              /\ told' = told \cup (Live \ killed)
              /\ pending' = pending \cup {"term"} \cup {c \in {"chld"} : killed # {}}
              /\ missed' = (missed \/ Cardinality(killed) > 1
                                   \/ (killed # {} /\ "chld" \in pending))
              /\ UNCHANGED active
    /\ UNCHANGED <<sig, bytes, done, at>>

(* __on_signal in the parent: one signal is remembered, the last one.      *)
Deliver(s) ==
    /\ s \in pending /\ at # "stopped"
    /\ pending' = pending \ {s}
    /\ IF sig # s
       THEN sig' = s /\ bytes' = bytes + 1
       ELSE UNCHANGED <<sig, bytes>>
    /\ missed' = (missed \/ (at # "quit" /\ sig # "none"))
    /\ UNCHANGED <<workers, termSent, done, at>>

----------------------------------------------------------------------------
(* The parent. A step that tests sigReceived and a step that acts on it    *)
(* are separate.                                                           *)

Goto(l) == at' = l

(* The workers are forked one by one.                                      *)
Fork(w) == /\ at = "fork" /\ phase[w] = "none"
           /\ phase' = [phase EXCEPT ![w] = "forked"]
           /\ Goto(IF \E v \in Workers \ {w} : phase[v] = "none" THEN "fork" ELSE "init")
           /\ UNCHANGED <<active, told, signals, done, missed>>

(* A fork that fails ends spawn: the parent detaches from IPC and returns  *)
(* 0, as if all had gone well, without the workers it has forked.          *)
ForkFails == /\ at = "fork" /\ Goto("failed")
             /\ UNCHANGED <<workers, signals, done, missed>>

(* The program of a parent that has failed ends (external), and the        *)
(* workers get SIGHUP. One that has not asked for it yet is not told; one  *)
(* without a handler dies of it.                                           *)
ParentExits ==
    /\ at = "failed" /\ Goto("gone")
    /\ \E killed \in SUBSET {w \in Workers : phase[w] = "forked"} :
          /\ phase' = [w \in Workers |-> IF w \in killed THEN "zombie" ELSE phase[w]]
          /\ missed' = (missed \/ \E w \in Workers \ killed : phase[w] = "forked")
    /\ told' = told \cup {w \in Live : phase[w] # "forked"}
    /\ UNCHANGED <<active, signals, done>>

ParentInit == /\ at = "init" /\ Goto("pps")
              /\ UNCHANGED <<workers, signals, done, missed>>

(* sigReceived = pps(spid), when there is a post-spawn delegate.           *)
PostSpawn == /\ at = "pps" /\ Goto("test")
             /\ sig' \in {sig, "none"}
             /\ missed' = (missed \/ sig' # sig)
             /\ UNCHANGED <<workers, pending, bytes, termSent, done>>

Test == /\ at = "test"
        /\ Goto(IF sig = "none" THEN "reap" ELSE "act")
        /\ UNCHANGED <<workers, signals, done, missed>>

\* the exit is not counted
Count_forgets == /\ at = "act" /\ sig = "chld" /\ Goto("reset")
                 /\ UNCHANGED <<workers, signals, done, missed>>

(* sigReceived == SIGCHLD                                                  *)
Count == /\ at = "act" /\ sig = "chld" /\ Goto("reset")
         /\ done' = done + 1
         /\ UNCHANGED <<workers, signals, missed>>

(* Another signal: SIGTERM to the active workers, once. One that is not    *)
(* active yet, or died before it was, is neither told nor waited for.      *)
PassOn == /\ at = "act" /\ sig = "term" /\ Goto("quit")
          /\ told' = told \cup (active \cap Live)
          /\ missed' = (missed \/ (Live \cup Zombies) \ active # {})
          /\ UNCHANGED <<phase, active, signals, done>>

(* sigReceived = 0                                                         *)
Reset == /\ at = "reset" /\ Goto("reap")
         /\ sig' = "none"
         /\ missed' = (missed \/ sig = "term")
         /\ UNCHANGED <<workers, pending, bytes, termSent, done>>

(* workerWait: one child that exited is reaped.                            *)
Reaped(w) == /\ phase' = [phase EXCEPT ![w] = "reaped"]
             /\ active' = active \ {w}
             /\ UNCHANGED told

\* what it reaps is counted as well
Reap_counts ==
    /\ at = "reap"
    /\ IF done >= nworkers \/ (Live = {} /\ Zombies = {})
       THEN Goto("stopped") /\ UNCHANGED <<workers, done>>
       ELSE /\ Goto("wait")
            /\ IF Zombies = {} THEN UNCHANGED <<workers, done>>
               ELSE done' = done + 1 /\ \E w \in Zombies : Reaped(w)
    /\ UNCHANGED <<signals, missed>>

(* done >= nworkers || workerWait(false) == ECHILD                         *)
Reap ==
    /\ at = "reap"
    /\ IF done >= nworkers \/ (Live = {} /\ Zombies = {})
       THEN Goto("stopped") /\ UNCHANGED workers
       ELSE /\ Goto("wait")
            /\ IF Zombies = {} THEN UNCHANGED workers
                               ELSE \E w \in Zombies : Reaped(w)
    /\ missed' = (missed \/ "chld" \in pending)
    /\ UNCHANGED <<signals, done>>

WaitForSignal == /\ at = "wait" /\ bytes > 0 /\ Goto("test")
                 /\ bytes' = bytes - 1
                 /\ UNCHANGED <<workers, pending, sig, termSent, done, missed>>

(* The loop after PassOn: for an active worker, workerWait(true) blocks    *)
(* until any one exits. With no active worker and done < nworkers the loop *)
(* spins.                                                                  *)
QuitReap == /\ at = "quit" /\ active # {}
            /\ \E w \in Zombies : Reaped(w)
            /\ done' = done + 1
            /\ UNCHANGED <<signals, at, missed>>

QuitEnd == /\ at = "quit" /\ done >= nworkers /\ Goto("stopped")
           /\ UNCHANGED <<workers, signals, done, missed>>

Parent == \/ (\E w \in Workers : Fork(w)) \/ ParentExits \/ ParentInit \/ PostSpawn \/ Test \/ Count \/ PassOn \/ Reset
          \/ Reap \/ WaitForSignal \/ QuitReap \/ QuitEnd

SpawnNext == \/ \E w \in Workers : WorkerInit(w) \/ WorkerStart(w) \/ Leave(w) \/ Fail(w)
             \/ Terminate
             \/ \E s \in {"chld", "term"} : Deliver(s)
             \/ Parent \/ ForkFails

SpawnSpec == SpawnInit /\ [][SpawnNext]_spawnVars

(* Every process is scheduled, signals are delivered, and work returns     *)
(* after a signal. Nothing makes a fork or a worker fail or a user send a  *)
(* signal.                                                                 *)
FairSpawnSpec ==
    /\ SpawnSpec /\ WF_spawnVars(Parent)
    /\ \A s \in {"chld", "term"} : WF_spawnVars(Deliver(s))
    /\ \A w \in Workers : /\ WF_spawnVars(WorkerInit(w)) /\ WF_spawnVars(WorkerStart(w))
                          /\ WF_spawnVars(Leave(w))

----------------------------------------------------------------------------

SpawnTypeOK ==
    /\ phase \in [Workers -> {"none", "forked", "starting", "working", "zombie", "reaped"}]
    /\ active \subseteq {w \in Workers : phase[w] \in {"starting", "working", "zombie"}}
    /\ told \subseteq Workers /\ pending \subseteq {"chld", "term"}
    /\ sig \in {"none", "chld", "term"} /\ bytes \in Nat
    /\ done \in 0 .. nworkers
    /\ at \in {"fork", "failed", "gone", "init", "pps", "test", "act", "reset", "reap", "wait", "quit", "stopped"}

(* The parent stops after its workers: when its loop ends every worker     *)
(* process has exited, whatever signals were merged or lost. Only a spawn  *)
(* that could not fork them all ("failed") leaves workers behind.          *)
ParentStopsLast == at = "stopped" => Live = {}

(* The count never runs ahead of the exits: no exit is counted both when   *)
(* its SIGCHLD is taken and when its process is reaped.                    *)
CountsExits ==
    LET uncounted == sig = "chld" /\ at \in {"pps", "test", "act", "reap", "wait"}
    IN  done + (IF uncounted THEN 1 ELSE 0) <= Cardinality(Dead)

(* Exits are accounted for: the state is well-formed, the parent stops     *)
(* last and counts no exit twice.                                          *)
ExitsAccounted == SpawnTypeOK /\ ParentStopsLast /\ CountsExits

(* After a termination signal, or when all workers have exited, the parent *)
(* stops, and the workers of a spawn that failed exit after it: as long as *)
(* each signal is taken before the next one comes, and a signal to end     *)
(* finds every worker past the start of its work.                          *)
Ends == termSent \/ Dead = Workers
Orderly == ~ missed

StopsIfOrderly == []Orderly => /\ Ends ~> (at = "stopped")
                               /\ (at = "failed") ~> (Live = {})

(* "loop until a termination signal is received from all workers exited"   *)
(* (ipc.cpp).                                                              *)
LoopEnds == Ends ~> (at = "stopped")
==============================================================================
