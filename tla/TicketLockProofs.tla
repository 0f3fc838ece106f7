-------------------------- MODULE TicketLockProofs ---------------------------
(***************************************************************************)
(* What holds of suil::Lock for any number of callers, any width of the    *)
(* counters and any bound on the tickets that stays below the width of an  *)
(* int: no two callers inside, no overtaking, a lost ticket is final, and  *)
(* every step is a step of Mutex or stutters. The second half is about the *)
(* processes that share such locks, the workers of ipc::spawn, and their   *)
(* parent, for any number of workers: the parent stops after them, and its *)
(* count of exits never runs ahead of them.                                *)
(***************************************************************************)
EXTENDS TicketLock, IpcSupervisor, FiniteSetTheorems, TLAPS

States == {"idle", "spin", "late", "inside", "dead", "deadInside"}

(* Callers whose ticket still matters to others.                           *)
Queued == Waiting \cup Inside

(* The inductive invariant. MutualExclusion alone is not inductive: to     *)
(* rule out a second Grant one must know that the callers' tickets are     *)
(* distinct, that none is ahead of next, and that whoever is inside holds  *)
(* the very ticket that is served.                                         *)
IInv ==
    /\ TypeOK
    /\ \A p \in Queued : ticket[p] < next
    /\ \A p, q \in Queued : ticket[p] = ticket[q] => p = q
    /\ on => /\ serving <= next
             /\ \A p \in Queued : serving <= ticket[p]
             /\ \A p \in Inside : ticket[p] = serving

----------------------------------------------------------------------------

(* The value compared with serving is the ticket itself or, from half the  *)
(* range of an int on, a number no lock gets to serve.                     *)
LEMMA SignExtendSmall ==
    ASSUME NEW n \in 0 .. IntRange - 1, SignExtend(n) <= IntRange
    PROVE  SignExtend(n) = n
<1>1. n \in Int /\ IntRange \in Nat /\ CounterRange \in Nat /\ 0 < IntRange
    BY TicketAssumption
<1>2. n % IntRange = n
    BY <1>1, SMT
<1>3. CASE 2 * n < IntRange
    BY <1>2, <1>3 DEF SignExtend
<1>4. CASE ~ (2 * n < IntRange)
    <2>1. SignExtend(n) = CounterRange - IntRange + n
        BY <1>2, <1>4 DEF SignExtend
    <2>2. CounterRange - IntRange + n > IntRange
        BY <1>1, <1>4, TicketAssumption
    <2>. QED
        BY <1>1, <2>1, <2>2
<1>. QED
    BY <1>3, <1>4

(* The invariant holds at the start.                                       *)
LEMMA InitIInv == Init => IInv
    BY TicketAssumption DEF Init, IInv, TypeOK, Queued, Waiting, Inside

(* Whoever passes the loop's test with the lock on holds the ticket served. *)
LEMMA GrantServed ==
    ASSUME IInv, on, NEW p \in Procs, Grant(p)
    PROVE  ticket[p] = serving
<1>1. p \in Queued /\ SignExtend(ticket[p]) = serving
    BY DEF IInv, TypeOK, Grant, Queued, Waiting
<1>2. /\ ticket[p] \in Nat /\ ticket[p] < next /\ serving <= next
      /\ next \in Nat /\ next <= MaxTickets /\ serving \in Nat
    BY <1>1 DEF IInv, TypeOK
<1>3. ticket[p] \in 0 .. IntRange - 1 /\ serving <= IntRange
    BY <1>2, TicketAssumption
<1>. QED
    BY <1>1, <1>3, SignExtendSmall

(* Every step keeps it.                                                    *)
LEMMA NextIInv == IInv /\ [Next]_vars => IInv'
<1> SUFFICES ASSUME IInv, [Next]_vars PROVE IInv'
    OBVIOUS
<1> USE TicketAssumption
<1>1. ASSUME NEW p \in Procs, Request(p) PROVE IInv'
    BY <1>1 DEF IInv, TypeOK, Request, Queued, Waiting, Inside
<1>2. ASSUME NEW p \in Procs, Grant(p) PROVE IInv'
    <2>1. on => ticket[p] = serving
        BY <1>2, GrantServed
    <2>. QED
        BY <1>2, <2>1 DEF IInv, TypeOK, Grant, Queued, Waiting, Inside
<1>3. ASSUME NEW p \in Procs, Refuse(p) PROVE IInv'
    BY <1>3 DEF IInv, TypeOK, Refuse, Queued, Waiting, Inside
<1>4. ASSUME NEW p \in Procs, Yield(p) PROVE IInv'
    BY <1>4 DEF IInv, TypeOK, Yield, Queued, Waiting, Inside
<1>5. ASSUME NEW p \in Procs, GiveUp(p) PROVE IInv'
    BY <1>5 DEF IInv, TypeOK, GiveUp, Queued, Waiting, Inside
<1>6. ASSUME NEW p \in Procs, Unlock(p) PROVE IInv'
    <2>1. p \in Queued /\ p \in Inside /\ p \notin Queued'
        BY <1>6 DEF IInv, TypeOK, Unlock, Queued, Waiting, Inside
    <2>2. Queued' \subseteq Queued /\ Inside' \subseteq Inside
        BY <1>6 DEF IInv, TypeOK, Unlock, Queued, Waiting, Inside
    <2>3. TypeOK'
        BY <1>6 DEF IInv, TypeOK, Unlock
    <2>4. ASSUME on, NEW q \in Queued' PROVE serving + 1 <= ticket[q] /\ q \notin Inside'
        <3>1. q \in Queued /\ q # p /\ q \in Procs /\ p \in Procs
            BY <2>1, <2>2 DEF Queued, Waiting, Inside
        <3>2. ticket[q] # ticket[p] /\ ticket[p] = serving /\ serving <= ticket[q]
            BY <2>1, <2>4, <3>1 DEF IInv
        <3>3. ticket[q] \in Nat /\ serving \in Nat
            BY <3>1 DEF IInv, TypeOK
        <3>4. q \notin Inside
            BY <2>4, <3>2 DEF IInv
        <3>. QED
            BY <2>2, <3>2, <3>3, <3>4
    <2>5. ASSUME on PROVE serving + 1 <= next
        BY <2>1, <2>5 DEF IInv, TypeOK
    <2>. QED
        BY <1>6, <2>1, <2>2, <2>3, <2>4, <2>5 DEF IInv, Unlock, Queued
<1>7. ASSUME NEW p \in Procs, Die(p) PROVE IInv'
    BY <1>7 DEF IInv, TypeOK, Die, Queued, Waiting, Inside
<1>8. CASE CancelLock
    BY <1>8 DEF IInv, TypeOK, CancelLock, Queued, Waiting, Inside
<1>9. CASE UNCHANGED vars
    BY <1>9 DEF IInv, TypeOK, vars, Queued, Waiting, Inside
<1>. QED
    BY <1>1, <1>2, <1>3, <1>4, <1>5, <1>6, <1>7, <1>8, <1>9 DEF Next, Step

(* The inductive invariant holds: callers of spinLock hold distinct        *)
(* tickets that are still to be served, and the one inside holds the       *)
(* ticket that is served.                                                  *)
THEOREM Inductive == Spec => []IInv
<1>1. IInv /\ [Next]_vars => IInv'
    BY NextIInv
<1>. QED
    BY <1>1, InitIInv, PTL DEF Spec

(* The lock's words keep their types in every behaviour.                   *)
THEOREM TypeCorrect == Spec => []TypeOK
<1>1. IInv => TypeOK
    BY DEF IInv
<1>. QED
    BY <1>1, Inductive, PTL

(* Two callers inside would hold the same ticket.                          *)
LEMMA IInvExcludes == IInv => MutualExclusion
    BY DEF IInv, MutualExclusion, Queued

(* Two callers are never inside the lock at once, until Lock::cancel.      *)
THEOREM Exclusion == Spec => []MutualExclusion
    BY Inductive, IInvExcludes, PTL

----------------------------------------------------------------------------

(* Only Grant takes a caller inside, and only Unlock moves serving.        *)
LEMMA EntersByGrant ==
    ASSUME IInv, [Next]_vars, NEW p \in Procs, pc[p] # "inside", pc'[p] = "inside"
    PROVE  Grant(p)
<1>1. ASSUME NEW q \in Procs, Step(q) PROVE Grant(p)
    BY <1>1 DEF IInv, TypeOK, Step, Request, Grant, Refuse, Yield, GiveUp, Unlock, Die
<1>2. CASE CancelLock
    BY <1>2 DEF CancelLock
<1>3. CASE UNCHANGED vars
    BY <1>3 DEF vars
<1>. QED
    BY <1>1, <1>2, <1>3 DEF Next

(* Only unlock moves serving.                                              *)
LEMMA ServesByUnlock ==
    ASSUME [Next]_vars, serving' # serving
    PROVE  \E p \in Procs : Unlock(p)
<1>1. ASSUME NEW q \in Procs, Step(q) PROVE Unlock(q)
    BY <1>1 DEF Step, Request, Grant, Refuse, Yield, GiveUp, Unlock, Die
<1>2. CASE CancelLock
    BY <1>2 DEF CancelLock
<1>3. CASE UNCHANGED vars
    BY <1>3 DEF vars
<1>. QED
    BY <1>1, <1>2, <1>3 DEF Next

(* Callers enter in the order in which they drew their tickets.            *)
THEOREM Order == Spec => NoOvertaking
<1>1. ASSUME IInv, [Next]_vars, NEW p \in Procs, on, pc[p] = "spin", pc'[p] = "inside",
             NEW q \in Waiting
      PROVE  ticket[p] <= ticket[q]
    <2>1. ticket[p] = serving
        BY <1>1, EntersByGrant, GrantServed
    <2>. QED
        BY <1>1, <2>1 DEF IInv, Queued
<1>2. IInv /\ [Next]_vars
        => [\A p \in Procs : (on /\ pc[p] = "spin" /\ pc'[p] = "inside")
              => \A q \in Waiting : ticket[p] <= ticket[q]]_vars
    BY <1>1
<1>. QED
    BY <1>2, Inductive, PTL DEF Spec, NoOvertaking

(* Once a lost ticket comes up nobody is granted the lock again.           *)
THEOREM Stop == Spec => LostTicketStops
<1>1. ASSUME IInv, [Next]_vars, on, serving \in Lost, serving' # serving PROVE FALSE
    <2>1. PICK p \in Procs : Unlock(p)
        BY <1>1, ServesByUnlock
    <2>2. p \in Inside /\ pc[p] = "inside"
        BY <2>1 DEF Unlock, Inside
    <2>3. ticket[p] = serving
        BY <1>1, <2>2 DEF IInv
    <2>. QED
        BY <1>1, <2>2, <2>3 DEF Lost
<1>2. ASSUME IInv, [Next]_vars, on, serving \in Lost,
             NEW p \in Procs, pc'[p] = "inside", pc[p] # "inside"
      PROVE  FALSE
    <2>1. Grant(p)
        BY <1>2, EntersByGrant
    <2>2. ticket[p] = serving /\ pc[p] = "spin"
        BY <1>2, <2>1, GrantServed DEF Grant
    <2>. QED
        BY <1>2, <2>2 DEF Lost
<1>3. IInv /\ [Next]_vars
        => [(on /\ serving \in Lost)
              => serving' = serving
                 /\ \A p \in Procs : pc'[p] = "inside" => pc[p] = "inside"]_vars
    BY <1>1, <1>2
<1>. QED
    BY <1>3, Inductive, PTL DEF Spec, LostTicketStops

----------------------------------------------------------------------------

(* A new lock is an open mutex.                                            *)
LEMMA InitRefines == Init => Promise!MutexInit
    BY DEF Init, Promise!MutexInit, Inside

(* Every access to the words of the lock is a step of the mutex or none.   *)
LEMMA StepRefines ==
    IInv /\ [Next]_vars => [Promise!MutexNext]_(Promise!mutexVars)
<1> SUFFICES ASSUME IInv, [Next]_vars
             PROVE  [Promise!MutexNext]_(Promise!mutexVars)
    OBVIOUS
<1> USE DEF Promise!MutexNext, Promise!mutexVars
<1>1. ASSUME NEW p \in Procs, Grant(p) PROVE Promise!Enter(p) /\ UNCHANGED (~ on)
    <2>1. Inside' = Inside \cup {p} /\ p \notin Inside /\ on' = on
        BY <1>1 DEF IInv, TypeOK, Grant, Inside
    <2>2. on => Inside = {}
        <3>1. ASSUME on, NEW q \in Inside PROVE FALSE
            <4>1. ticket[p] = serving /\ ticket[q] = serving
                BY <1>1, <3>1, GrantServed DEF IInv
            <4>2. p \in Queued /\ q \in Queued
                BY <1>1 DEF Grant, Queued, Waiting
            <4>. QED
                BY <2>1, <4>1, <4>2 DEF IInv
        <3>. QED
            BY <3>1
    <2>. QED
        BY <2>1, <2>2 DEF Promise!Enter
<1>2. ASSUME NEW p \in Procs, Unlock(p) PROVE Promise!Leave(p) /\ UNCHANGED (~ on)
    BY <1>2 DEF IInv, TypeOK, Unlock, Inside, Promise!Leave
<1>3. ASSUME NEW p \in Procs,
             Request(p) \/ Refuse(p) \/ Yield(p) \/ GiveUp(p) \/ Die(p)
      PROVE  UNCHANGED <<Inside, ~ on>>
    BY <1>3 DEF IInv, TypeOK, Request, Refuse, Yield, GiveUp, Die, Inside
<1>4. CASE CancelLock
    BY <1>4 DEF CancelLock, Inside, Promise!Cancel
<1>5. CASE UNCHANGED vars
    BY <1>5 DEF vars, Inside
<1>. QED
    BY <1>1, <1>2, <1>3, <1>4, <1>5 DEF Next, Step

(* Every behaviour of the ticket lock is one that Mutex allows.            *)
THEOREM Refinement == Spec => ImplementsMutex
<1>. QED
    BY InitRefines, StepRefines, Inductive, PTL
    DEF Spec, ImplementsMutex, Promise!MutexSpec

----------------------------------------------------------------------------
(***************************************************************************)
(* ipc::spawn                                                              *)
(***************************************************************************)

Gone == {w \in Workers : phase[w] = "reaped"}

Phases == {"none", "forked", "starting", "working", "zombie", "reaped"}

(* The parent has no handler yet, or never will have.                      *)
Early == {"fork", "init", "failed", "gone"}

Loop == {"pps", "test", "act", "reset", "reap", "wait"}

(* A SIGCHLD that will be counted if nothing overwrites it, and one that   *)
(* the kernel holds back.                                                  *)
Uncounted == IF sig = "chld" /\ at # "reset" THEN 1 ELSE 0
Held      == IF "chld" \in pending THEN 1 ELSE 0

(* The inductive invariant. Each SIGCHLD on its way to the count stands    *)
(* for an exit of its own, and the loop reaps one process for each it has  *)
(* counted: without the second part the last loop, which counts what it    *)
(* reaps, could count an exit that a SIGCHLD has counted already.          *)
Counted ==
    /\ SpawnTypeOK
    /\ at \in Early => done = 0 /\ sig = "none" /\ pending = {}
    /\ at \in Loop => done + Uncounted + Held <= Cardinality(Dead)
    /\ at \in {"reset", "reap"} => done <= Cardinality(Gone) + 1
    /\ at \in {"pps", "test", "act", "wait", "quit"} => done <= Cardinality(Gone)
    /\ at = "stopped" => Live = {}
    /\ done <= Cardinality(Dead)

----------------------------------------------------------------------------
(* Cardinalities                                                           *)

(* Dead and Gone are finite sets, and whoever is reaped is dead.           *)
LEMMA Counts ==
    ASSUME phase \in [Workers -> Phases]
    PROVE  /\ IsFiniteSet(Dead) /\ IsFiniteSet(Gone) /\ nworkers \in Nat
           /\ Cardinality(Dead) \in Nat /\ Cardinality(Gone) \in Nat
           /\ Cardinality(Gone) <= Cardinality(Dead)
           /\ Cardinality(Dead) <= nworkers
           /\ Cardinality(Dead) = nworkers => Live = {}
           /\ Zombies = {} => Cardinality(Gone) = Cardinality(Dead)
<1>1. Gone \subseteq Dead /\ Dead \subseteq Workers
    BY DEF Gone, Dead, Live
<1>2. IsFiniteSet(Dead) /\ IsFiniteSet(Gone)
    BY <1>1, FS_Subset, WorkersAssumption
<1>3. nworkers \in Nat /\ Cardinality(Dead) \in Nat /\ Cardinality(Gone) \in Nat
    BY <1>2, FS_CardinalityType, WorkersAssumption DEF nworkers
<1>4. Cardinality(Gone) <= Cardinality(Dead)
    BY <1>1, <1>2, FS_Subset
<1>5. Cardinality(Dead) <= nworkers /\ (Cardinality(Dead) = nworkers => Dead = Workers)
    BY <1>1, FS_Subset, WorkersAssumption DEF nworkers
<1>6. Dead = Workers => Live = {}
    BY DEF Dead, Live
<1>7. Zombies = {} => Gone = Dead
    BY DEF Zombies, Gone, Dead, Live, Phases
<1>. QED
    BY <1>2, <1>3, <1>4, <1>5, <1>6, <1>7

(* A set that grows has a greater cardinality.                             *)
LEMMA Grows ==
    ASSUME NEW S, NEW T, IsFiniteSet(T), S \subseteq T
    PROVE  /\ Cardinality(S) <= Cardinality(T)
           /\ S # T => Cardinality(S) + 1 <= Cardinality(T)
<1>1. /\ IsFiniteSet(S) /\ Cardinality(S) <= Cardinality(T)
      /\ Cardinality(T) = Cardinality(S) => T = S
    BY FS_Subset
<1>2. Cardinality(S) \in Nat /\ Cardinality(T) \in Nat
    BY <1>1, FS_CardinalityType
<1>. QED
    BY <1>1, <1>2

----------------------------------------------------------------------------

(* The invariant holds at the start.                                       *)
LEMMA InitCounted == SpawnInit => Counted
<1> SUFFICES ASSUME SpawnInit PROVE Counted
    OBVIOUS
<1>1. phase \in [Workers -> Phases]
    BY DEF SpawnInit, Phases
<1>2. SpawnTypeOK
    BY <1>1, Counts DEF SpawnInit, SpawnTypeOK
<1>. QED
    BY <1>1, <1>2, Counts DEF SpawnInit, Counted, Loop, Early

(* Nobody revives: the sets of exited and of reaped processes only grow.   *)
LEMMA OnlyGrow ==
    ASSUME SpawnTypeOK, phase' \in [Workers -> Phases],
           \A w \in Workers : phase[w] = "zombie" => phase'[w] \in {"zombie", "reaped"},
           \A w \in Workers : phase[w] = "reaped" => phase'[w] = "reaped"
    PROVE  /\ Dead \subseteq Dead' /\ Gone \subseteq Gone'
           /\ Cardinality(Dead) <= Cardinality(Dead')
           /\ Cardinality(Gone) <= Cardinality(Gone')
           /\ Dead # Dead' => Cardinality(Dead) + 1 <= Cardinality(Dead')
           /\ Gone # Gone' => Cardinality(Gone) + 1 <= Cardinality(Gone')
           /\ Cardinality(Dead') \in Nat /\ Cardinality(Gone') \in Nat
           /\ Cardinality(Dead') <= nworkers
           /\ (\A w \in Workers : phase[w] = "none" => phase'[w] = "none") =>
                 (Live = {} => Live' = {})
<1>1. /\ Dead \subseteq Dead' /\ Gone \subseteq Gone'
      /\ (\A w \in Workers : phase[w] = "none" => phase'[w] = "none") =>
            (Live = {} => Live' = {})
    BY DEF Dead, Gone, Live, SpawnTypeOK, Phases
<1>2. Gone' \subseteq Workers /\ Dead' \subseteq Workers
    BY DEF Gone, Dead
<1>3. /\ IsFiniteSet(Dead') /\ IsFiniteSet(Gone') /\ Cardinality(Dead') <= nworkers
    BY <1>2, FS_Subset, WorkersAssumption DEF nworkers
<1>4. Cardinality(Dead') \in Nat /\ Cardinality(Gone') \in Nat
    BY <1>3, FS_CardinalityType
<1>. QED
    BY <1>1, <1>3, <1>4, Grows

(* A worker starts: nobody exits.                                          *)
LEMMA StartCounted ==
    ASSUME Counted, NEW w \in Workers, WorkerInit(w) \/ WorkerStart(w)
    PROVE  Counted'
<1>1. /\ phase' \in [Workers -> Phases] /\ SpawnTypeOK'
      /\ Dead' = Dead /\ Gone' = Gone /\ Live' = Live
    BY DEF Counted, SpawnTypeOK, Phases, WorkerInit, WorkerStart, signals, Dead, Gone, Live
<1>. QED
    BY <1>1 DEF Counted, WorkerInit, WorkerStart, signals, Uncounted, Held

(* A worker exits: one more is dead, and at most one more SIGCHLD is held. *)
LEMMA DiesCounted ==
    ASSUME Counted, NEW w \in Live, Dies(w),
           UNCHANGED <<active, told, sig, bytes, termSent, done, at>>
    PROVE  Counted'
<1>1. w \in Workers /\ phase' \in [Workers -> Phases]
    BY DEF Counted, SpawnTypeOK, Phases, Dies, Live
<1>2. Dead' # Dead /\ Gone' = Gone /\ w \notin Dead
    BY <1>1 DEF Counted, SpawnTypeOK, Dead, Live, Gone, Dies
<1>3. /\ Cardinality(Dead) + 1 <= Cardinality(Dead') /\ Cardinality(Dead') \in Nat
      /\ Cardinality(Dead') <= nworkers /\ (Live = {} => Live' = {})
    BY <1>1, <1>2, OnlyGrow DEF Counted, SpawnTypeOK, Phases, Dies, Live
<1>4. Cardinality(Dead) \in Nat /\ Cardinality(Gone) \in Nat /\ nworkers \in Nat
    BY Counts DEF Counted, SpawnTypeOK, Phases
<1>5. SpawnTypeOK'
    BY <1>1, <1>3, <1>4 DEF Counted, SpawnTypeOK, Phases, Dies, Live
<1>6. Held' <= Held + 1 /\ Held' \in 0 .. 1 /\ Held \in 0 .. 1 /\ Uncounted' = Uncounted
    BY DEF Held, Uncounted
<1>7. Uncounted \in 0 .. 1
    BY DEF Uncounted
<1>. QED
    BY <1>2, <1>3, <1>4, <1>5, <1>6, <1>7 DEF Counted, SpawnTypeOK, Loop, Early, Dies

(* SIGINT kills the workers without a handler: one SIGCHLD stands for all. *)
LEMMA TerminateCounted ==
    ASSUME Counted, Terminate
    PROVE  Counted'
<1>1. phase' \in [Workers -> Phases] /\ Gone' = Gone
    BY DEF Counted, SpawnTypeOK, Phases, Terminate, workers, Gone
<1>2. "chld" \in pending' => "chld" \in pending \/ Dead' # Dead
    BY DEF Counted, SpawnTypeOK, Terminate, workers, Dead, Live
<1>3. /\ Cardinality(Dead) <= Cardinality(Dead') /\ Cardinality(Dead') \in Nat
      /\ Dead # Dead' => Cardinality(Dead) + 1 <= Cardinality(Dead')
      /\ Cardinality(Dead') <= nworkers
    BY <1>1, OnlyGrow DEF Counted, SpawnTypeOK, Terminate, workers
<1>4. Cardinality(Dead) \in Nat /\ Cardinality(Gone) \in Nat /\ nworkers \in Nat
    BY Counts DEF Counted, SpawnTypeOK, Phases
<1>5. SpawnTypeOK'
    BY <1>1, <1>3, <1>4 DEF Counted, SpawnTypeOK, Phases, Terminate, workers, Live
<1>6. /\ Held' <= Held + (IF Dead' # Dead THEN 1 ELSE 0)
      /\ Held' \in 0 .. 1 /\ Held \in 0 .. 1
      /\ Uncounted' = Uncounted /\ Uncounted \in 0 .. 1
    BY <1>2 DEF Held, Uncounted, Terminate
<1>7. done' = done /\ at' = at /\ at \notin Early \cup {"stopped"}
    BY DEF Terminate, Early
<1>. QED
    BY <1>1, <1>3, <1>4, <1>5, <1>6, <1>7 DEF Counted, SpawnTypeOK, Loop, Early

(* What the kernel held back is on its way to the count, or merged.        *)
LEMMA DeliverCounted ==
    ASSUME Counted, NEW s \in {"chld", "term"}, Deliver(s)
    PROVE  Counted'
<1>1. SpawnTypeOK' /\ Dead' = Dead /\ Gone' = Gone /\ Live' = Live
    BY DEF Counted, SpawnTypeOK, Deliver, workers, Dead, Gone, Live
<1>2. Uncounted' + Held' <= Uncounted + Held
    BY DEF Deliver, Uncounted, Held
<1>3. {Uncounted, Held, Uncounted', Held'} \subseteq 0 .. 1
    BY DEF Uncounted, Held
<1>4. Cardinality(Dead) \in Nat /\ Cardinality(Gone) \in Nat
    BY Counts DEF Counted, SpawnTypeOK, Phases
<1>. QED
    BY <1>1, <1>2, <1>3, <1>4 DEF Counted, SpawnTypeOK, Deliver, Early

----------------------------------------------------------------------------
(* The parent                                                              *)

(* Steps in which nobody is reaped.                                        *)
LEMMA ParentCounted ==
    ASSUME Counted, \/ ParentInit \/ PostSpawn \/ Test \/ Count \/ PassOn \/ Reset
                 \/ WaitForSignal \/ QuitEnd \/ ForkFails
    PROVE  Counted'
<1>1. Dead' = Dead /\ Gone' = Gone /\ Live' = Live
    BY DEF ParentInit, PostSpawn, Test, Count, PassOn, Reset, WaitForSignal, QuitEnd, ForkFails,
           workers, Dead, Gone, Live
<1>2. /\ Cardinality(Dead) \in Nat /\ Cardinality(Gone) \in Nat /\ nworkers \in Nat
      /\ Cardinality(Gone) <= Cardinality(Dead)
      /\ Cardinality(Dead) <= nworkers /\ (Cardinality(Dead) = nworkers => Live = {})
    BY Counts DEF Counted, SpawnTypeOK, Phases
<1> USE <1>1, <1>2 DEF Counted, SpawnTypeOK, Goto, Loop, Early, Uncounted, Held
<1>3. CASE ParentInit
    BY <1>3 DEF ParentInit, workers, signals
<1>4. CASE PostSpawn
    BY <1>4 DEF PostSpawn, workers
<1>5. CASE Test
    BY <1>5 DEF Test, workers, signals
<1>6. CASE Count
    BY <1>6 DEF Count, workers, signals
<1>7. CASE PassOn
    BY <1>7 DEF PassOn, signals
<1>8. CASE Reset
    BY <1>8 DEF Reset, workers
<1>9. CASE WaitForSignal
    BY <1>9 DEF WaitForSignal, workers
<1>10. CASE QuitEnd
    BY <1>10 DEF QuitEnd, workers, signals
<1>11. CASE ForkFails
    BY <1>11 DEF ForkFails, workers, signals
<1>. QED
    BY <1>3, <1>4, <1>5, <1>6, <1>7, <1>8, <1>9, <1>10, <1>11

(* A worker is forked.                                                     *)
LEMMA ForkCounted ==
    ASSUME Counted, NEW w \in Workers, Fork(w)
    PROVE  Counted'
<1>1. /\ phase' = [phase EXCEPT ![w] = "forked"] /\ phase[w] = "none" /\ at = "fork"
      /\ at' \in {"fork", "init"} /\ UNCHANGED <<active, told, signals, done>>
    BY DEF Fork, Goto
<1>2. phase' \in [Workers -> Phases] /\ SpawnTypeOK'
    BY <1>1 DEF Counted, SpawnTypeOK, Phases, signals
<1>3. Dead' = Dead
    BY <1>1 DEF Counted, SpawnTypeOK, Dead
<1>. QED
    BY <1>1, <1>2, <1>3 DEF Counted, Early, Loop, signals

(* The parent is gone: workers without a handler may die.                  *)
LEMMA ExitCounted ==
    ASSUME Counted, ParentExits
    PROVE  Counted'
<1>1. /\ at = "failed" /\ at' = "gone" /\ UNCHANGED <<active, signals, done>>
      /\ told' = told \cup {w \in Live : phase[w] # "forked"}
    BY DEF ParentExits, Goto
<1>2. PICK killed \in SUBSET {w \in Workers : phase[w] = "forked"} :
          phase' = [w \in Workers |-> IF w \in killed THEN "zombie" ELSE phase[w]]
    BY DEF ParentExits
<1>3. phase' \in [Workers -> Phases] /\ SpawnTypeOK'
    BY <1>1, <1>2 DEF Counted, SpawnTypeOK, Phases, signals, Live
<1>4. Cardinality(Dead) <= Cardinality(Dead') /\ Cardinality(Dead') \in Nat
    BY <1>2, <1>3, OnlyGrow DEF Counted
<1>5. Cardinality(Dead) \in Nat /\ done = 0
    BY <1>1, Counts DEF Counted, SpawnTypeOK, Phases, Early
<1>. QED
    BY <1>1, <1>3, <1>4, <1>5 DEF Counted, Early, Loop, signals

(* A process is reaped: it was dead before, and it is counted as gone.     *)
LEMMA ReapedGone ==
    ASSUME Counted, NEW w \in Zombies, Reaped(w)
    PROVE  /\ phase' \in [Workers -> Phases]
           /\ active' \subseteq
                {v \in Workers : phase'[v] \in {"starting", "working", "zombie"}}
           /\ Dead' = Dead /\ Live' = Live
           /\ Cardinality(Gone) + 1 <= Cardinality(Gone')
           /\ Cardinality(Gone') \in Nat /\ Cardinality(Gone') <= Cardinality(Dead)
<1>1. w \in Workers /\ phase[w] = "zombie" /\ phase' = [phase EXCEPT ![w] = "reaped"]
    BY DEF Zombies, Reaped
<1>2. phase' \in [Workers -> Phases]
    BY <1>1 DEF Counted, SpawnTypeOK, Phases
<1>3. Dead' = Dead /\ Live' = Live /\ Gone' # Gone
    BY <1>1 DEF Counted, SpawnTypeOK, Dead, Live, Gone
<1>4. Cardinality(Gone) + 1 <= Cardinality(Gone') /\ Cardinality(Gone') \in Nat
    BY <1>1, <1>2, <1>3, OnlyGrow DEF Counted, SpawnTypeOK
<1>5. Gone' \subseteq Dead
    BY <1>3 DEF Gone, Dead, Live
<1>6. Cardinality(Gone') <= Cardinality(Dead)
    BY <1>5, Grows, Counts DEF Counted, SpawnTypeOK, Phases
<1>. QED
    BY <1>1, <1>2, <1>3, <1>4, <1>6 DEF Reaped, Counted, SpawnTypeOK

(* Reap keeps the invariant.                                               *)
LEMMA ReapCounted ==
    ASSUME Counted, Reap \/ QuitReap
    PROVE  Counted'
<1>1. /\ Cardinality(Dead) \in Nat /\ Cardinality(Gone) \in Nat /\ nworkers \in Nat
      /\ Cardinality(Gone) <= Cardinality(Dead)
      /\ Cardinality(Dead) <= nworkers /\ (Cardinality(Dead) = nworkers => Live = {})
      /\ Zombies = {} => Cardinality(Gone) = Cardinality(Dead)
    BY Counts DEF Counted, SpawnTypeOK, Phases
<1> USE <1>1 DEF Counted, SpawnTypeOK, Goto, Loop, Early, Uncounted, Held
<1>2. CASE Reap /\ UNCHANGED workers
    <2>1. Dead' = Dead /\ Gone' = Gone /\ Live' = Live
        BY <1>2 DEF workers, Dead, Gone, Live
    <2>2. CASE at' = "stopped"
        BY <1>2, <2>1, <2>2 DEF Reap, workers, signals
    <2>3. CASE at' = "wait"
        <3>1. Zombies = {}
            BY <1>2, <2>3 DEF Reap, Reaped, workers, Zombies
        <3>. QED
            BY <1>2, <2>1, <2>3, <3>1 DEF Reap, workers, signals
    <2>. QED
        BY <1>2, <2>2, <2>3 DEF Reap
<1>3. CASE Reap /\ \E w \in Zombies : Reaped(w)
    <2>1. PICK w \in Zombies : Reaped(w)
        BY <1>3
    <2>2. told' = told /\ at = "reap" /\ UNCHANGED <<signals, done>>
        BY <1>3, <2>1 DEF Reap, Reaped
    <2>3. at' = "wait"
        BY <1>3, <2>1 DEF Reap, Reaped, workers, Zombies
    <2>. QED
        BY <2>1, <2>2, <2>3, ReapedGone DEF signals, Phases
<1>4. CASE QuitReap
    <2>1. PICK w \in Zombies : Reaped(w)
        BY <1>4 DEF QuitReap
    <2>2. told' = told /\ at = "quit" /\ at' = at /\ done' = done + 1 /\ UNCHANGED signals
        BY <1>4, <2>1 DEF QuitReap, Reaped
    <2>3. done' <= Cardinality(Gone') /\ done' <= Cardinality(Dead') /\ done' \in 0 .. nworkers
        BY <2>1, <2>2, ReapedGone
    <2>. QED
        BY <2>1, <2>2, <2>3, ReapedGone DEF signals, Phases
<1>. QED
    BY <1>2, <1>3, <1>4 DEF Reap

(* Every step keeps it.                                                    *)
LEMMA NextCounted == Counted /\ [SpawnNext]_spawnVars => Counted'
<1> SUFFICES ASSUME Counted, [SpawnNext]_spawnVars PROVE Counted'
    OBVIOUS
<1>1. ASSUME NEW w \in Workers, Leave(w) \/ Fail(w) PROVE Counted'
    <2>1. w \in Live
        BY <1>1 DEF Leave, Fail, Live
    <2>. QED
        BY <1>1, <2>1, DiesCounted DEF Leave, Fail
<1>2. CASE UNCHANGED spawnVars
    BY <1>2 DEF Counted, SpawnTypeOK, spawnVars, Dead, Live, Gone, Uncounted, Held
<1>. QED
    BY <1>1, <1>2, StartCounted, TerminateCounted, DeliverCounted, ParentCounted, ReapCounted,
       ForkCounted, ExitCounted
    DEF SpawnNext, Parent

----------------------------------------------------------------------------

(* ipc::spawn: whatever signals are merged, overwritten or lost, the       *)
(* parent returns after its last worker and counts no exit twice.          *)
THEOREM Exits == SpawnSpec => []ExitsAccounted
<1>1. Counted => ExitsAccounted
    <2> SUFFICES ASSUME Counted PROVE ExitsAccounted
        OBVIOUS
    <2>1. SpawnTypeOK /\ ParentStopsLast
        BY DEF Counted, ParentStopsLast
    <2>2. Cardinality(Dead) \in Nat /\ done \in Nat
        BY Counts DEF Counted, SpawnTypeOK, Phases
    <2>3. CountsExits
        BY <2>2 DEF Counted, CountsExits, Loop, Uncounted, Held
    <2>. QED
        BY <2>1, <2>3 DEF ExitsAccounted
<1>. QED
    BY <1>1, InitCounted, NextCounted, PTL DEF SpawnSpec
==============================================================================
