-------------------------------- MODULE Mutex --------------------------------
(***************************************************************************)
(* What a suil::Lock (libs/base/include/suil/base/ipc.hpp) promises to the *)
(* code that takes it: at most one of the callers is inside at any time.   *)
(* A caller that dies inside stays inside: nobody else ever gets in.       *)
(* After Lock::cancel the promise is withdrawn and everyone may enter.     *)
(* The queueing discipline is left open; TicketLock implements it with     *)
(* tickets, and IpcPipe is built on this module alone.                     *)
(***************************************************************************)
CONSTANT Procs      \* the callers: coroutines of any of the worker processes

VARIABLES inside,   \* the callers that entered and did not leave
          open      \* Lock::cancel was called

mutexVars == <<inside, open>>

MutexInit == inside = {} /\ open = FALSE

Enter(p) == /\ p \notin inside
            /\ inside = {} \/ open
            /\ inside' = inside \cup {p}

Leave(p) == /\ p \in inside
            /\ inside' = inside \ {p}

Cancel == open' = TRUE

MutexNext == \/ Cancel /\ UNCHANGED inside
             \/ UNCHANGED open /\ \E p \in Procs : Enter(p) \/ Leave(p)

MutexSpec == MutexInit /\ [][MutexNext]_mutexVars
==============================================================================
