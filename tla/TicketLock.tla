----------------------------- MODULE TicketLock ------------------------------
(***************************************************************************)
(* suil::Lock: a ticket lock in shared memory, taken by coroutines of      *)
(* several forked worker processes (libs/base/include/suil/base/ipc.hpp).  *)
(* One action is one access to the shared words: the fetch-and-add that    *)
(* draws a ticket, one evaluation of the spin loop's condition, one look   *)
(* at the clock after a failed evaluation, the fetch-and-add that unlocks. *)
(***************************************************************************)
EXTENDS Integers, FiniteSets

CONSTANTS Procs,         \* the callers
          Timed,         \* those that call spinLock with tout > 0 (ipc::gather)
          MaxTickets,    \* bound: tickets drawn over the life of the lock
          IntRange,      \* 2^32 in the code: the values of the int ticket
          CounterRange   \* 2^64 in the code: the values of next and serving

ASSUME TicketAssumption ==
    /\ Timed \subseteq Procs
    /\ MaxTickets \in Nat
    /\ IntRange \in Nat \ {0}
    /\ CounterRange \in Nat
    /\ MaxTickets <= IntRange
    /\ 2 * IntRange <= CounterRange

VARIABLES next,      \* LockData::next
          serving,   \* LockData::serving
          on,        \* LockData::on
          pc,        \* where each caller stands
          ticket     \* what the caller's fetch-and-add returned

vars == <<next, serving, on, pc, ticket>>

----------------------------------------------------------------------------

(* Names with an underscore are faulty variants of the definition that     *)
(* follows them, kept to show that the properties below tell them apart.   *)

\* the ticket is kept in a narrower integer
SignExtend_narrow(n) ==
    LET low == n % IntRange
    IN  IF 4 * low < IntRange THEN low ELSE CounterRange - IntRange + low

(* The uint64 that is compared with serving: the fetched value, kept in an *)
(* int, and sign-extended when it is passed to the compare-and-swap.       *)
SignExtend(n) ==
    LET low == n % IntRange
    IN  IF 2 * low < IntRange THEN low ELSE CounterRange - IntRange + low

Init == /\ next = 0
        /\ serving = 0
        /\ on = TRUE
        /\ pc = [p \in Procs |-> "idle"]
        /\ ticket = [p \in Procs |-> 0]

(* spinLock: int ticket = fetch_and_add(next, 1)                           *)
Request(p) ==
    /\ pc[p] = "idle"
    /\ next < MaxTickets
    /\ ticket' = [ticket EXCEPT ![p] = next]
    /\ next' = next + 1
    /\ pc' = [pc EXCEPT ![p] = "spin"]
    /\ UNCHANGED <<serving, on>>

\* any ticket not yet passed is let in
Grant_notExact(p) ==
    /\ pc[p] = "spin"
    /\ on => SignExtend(ticket[p]) >= serving
    /\ pc' = [pc EXCEPT ![p] = "inside"]
    /\ UNCHANGED <<next, serving, on, ticket>>

(* The loop ends: the lock was cancelled, or this ticket is served.        *)
Grant(p) ==
    /\ pc[p] = "spin"
    /\ on => SignExtend(ticket[p]) = serving
    /\ pc' = [pc EXCEPT ![p] = "inside"]
    /\ UNCHANGED <<next, serving, on, ticket>>

(* The condition holds: the caller goes on to the deadline test.           *)
Refuse(p) ==
    /\ pc[p] = "spin"
    /\ on /\ SignExtend(ticket[p]) # serving
    /\ pc' = [pc EXCEPT ![p] = "late"]
    /\ UNCHANGED <<next, serving, on, ticket>>

(* yield() and once more around the loop.                                  *)
Yield(p) ==
    /\ pc[p] = "late"
    /\ pc' = [pc EXCEPT ![p] = "spin"]
    /\ UNCHANGED <<next, serving, on, ticket>>

\* serves the next ticket, as if the caller that gives up held the lock
GiveUp_unlocks(p) ==
    /\ pc[p] = "late" /\ p \in Timed
    /\ pc' = [pc EXCEPT ![p] = "idle"]
    /\ serving' = serving + 1
    /\ UNCHANGED <<next, on, ticket>>

\* the caller ignores the status and goes in
GiveUp_ignored(p) ==
    /\ pc[p] = "late" /\ p \in Timed
    /\ pc' = [pc EXCEPT ![p] = "inside"]
    /\ UNCHANGED <<next, serving, on, ticket>>

(* tout < mnow(): spinLock returns false; the ticket stays drawn.          *)
GiveUp(p) ==
    /\ pc[p] = "late"
    /\ p \in Timed
    /\ pc' = [pc EXCEPT ![p] = "idle"]
    /\ UNCHANGED <<next, serving, on, ticket>>

\* fetch_and_sub in place of fetch_and_add
Unlock_subtracts(p) ==
    /\ pc[p] = "inside"
    /\ serving' = serving - 1
    /\ pc' = [pc EXCEPT ![p] = "idle"]
    /\ UNCHANGED <<next, on, ticket>>

(* unlock: fetch_and_add(serving, 1)                                       *)
Unlock(p) ==
    /\ pc[p] = "inside"
    /\ serving' = serving + 1
    /\ pc' = [pc EXCEPT ![p] = "idle"]
    /\ UNCHANGED <<next, on, ticket>>

(* Lock::cancel                                                            *)
CancelLock ==
    /\ on
    /\ on' = FALSE
    /\ UNCHANGED <<next, serving, pc, ticket>>

(* The worker process of a caller exits; no destructor of the coroutine    *)
(* that holds or awaits the lock runs.                                     *)
Die(p) ==
    /\ pc[p] \in {"spin", "late", "inside"}
    /\ pc' = [pc EXCEPT ![p] = IF pc[p] = "inside" THEN "deadInside" ELSE "dead"]
    /\ UNCHANGED <<next, serving, on, ticket>>

Step(p) == \/ Request(p) \/ Grant(p) \/ Refuse(p) \/ Yield(p)
           \/ GiveUp(p) \/ Unlock(p) \/ Die(p)

Next == CancelLock \/ \E p \in Procs : Step(p)

Spec == Init /\ [][Next]_vars

(* The scheduler resumes every coroutine that yielded, and a caller inside *)
(* unlocks when its destructor runs; nothing makes a caller ask or die.    *)
FairSpec == Spec /\ \A p \in Procs :
                      /\ WF_vars(Grant(p))
                      /\ WF_vars(Refuse(p))
                      /\ WF_vars(Yield(p))
                      /\ WF_vars(Unlock(p))

----------------------------------------------------------------------------

Waiting == {p \in Procs : pc[p] \in {"spin", "late"}}
Inside  == {p \in Procs : pc[p] \in {"inside", "deadInside"}}

(* Tickets drawn that nobody alive holds or waits with, and not served:    *)
(* the lock stops for good when serving reaches one.                       *)
Lost == {n \in serving .. next - 1 :
           ~ \E p \in Procs : pc[p] \in {"spin", "late", "inside"} /\ ticket[p] = n}

TypeOK == /\ next \in 0 .. MaxTickets
          /\ serving \in Nat
          /\ on \in BOOLEAN
          /\ pc \in [Procs -> {"idle", "spin", "late", "inside", "dead", "deadInside"}]
          /\ ticket \in [Procs -> 0 .. MaxTickets]

(* Until the lock is cancelled at most one caller is inside, dead ones     *)
(* included: the mutual exclusion ipc::send and ipc::gather rely on.       *)
MutualExclusion == on => \A p, q \in Inside : p = q

(* spinLock serves callers in the order of their fetch-and-adds: nobody is *)
(* granted the lock while somebody still waits with an earlier ticket.     *)
NoOvertaking ==
    [][\A p \in Procs :
         (on /\ pc[p] = "spin" /\ pc'[p] = "inside")
            => \A q \in Waiting : ticket[p] <= ticket[q]]_vars

(* A waiter that gives up, or dies, keeps its place in the queue (spinLock *)
(* returns without unlock): once its ticket comes up, no caller is granted *)
(* the lock again, short of Lock::cancel.                                  *)
LostTicketStops ==
    [][(on /\ serving \in Lost)
          => serving' = serving /\ \A p \in Procs : pc'[p] = "inside" => pc[p] = "inside"]_vars

(* The converse: with no lost ticket, and fewer tickets than half the      *)
(* values of an int, every caller of spinLock is granted the lock.         *)
Undisturbed == Lost = {} /\ 2 * next <= IntRange

EveryTicketServed ==
    []Undisturbed => \A p \in Procs : (pc[p] = "spin") ~> (pc[p] = "inside")

(* The ticket lock implements the mutual exclusion promise of Mutex.       *)
Promise == INSTANCE Mutex WITH inside <- Inside, open <- ~on

ImplementsMutex == Promise!MutexSpec
==============================================================================
