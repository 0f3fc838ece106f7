----------------------------- MODULE Conditional -----------------------------
(***************************************************************************)
(* suil::Conditional and suil::Sync (libs/base/src/channel.cpp): coroutines *)
(* of one thread wait, and others notify one or all of them. `waiting`     *)
(* holds weak pointers to the unbuffered channels of the Sync objects. A   *)
(* coroutine runs until it blocks; `cpu` is the notifier in the middle of  *)
(* its loop, and nobody else runs until it is done or blocks in a send.    *)
(***************************************************************************)
EXTENDS Integers, Sequences, FiniteSets, SequencesExt

CONSTANTS Syncs,       \* one Sync per waiting coroutine, used for all its waits
          Timed,       \* waits with a timeout
          Notifiers,   \* coroutines that notify
          MaxWaiting   \* bound: entries of `waiting`

None == "none"

ASSUME ConditionalAssumption ==
    Timed \subseteq Syncs /\ MaxWaiting \in Nat /\ None \notin Notifiers

VARIABLES
    waiting,   \* Conditional::waiting
    state,     \* of each Sync: idle, blocked in wait, woken, dropped
    closed,    \* Syncs whose channel is in done mode (chdone)
    senders,   \* senders[s]: notifiers blocked in a send to s
    op,        \* what each notifier does: none, one (notifyOne), all, abort
    cpu,       \* the notifier that runs, or None
    older,     \* history: pairs of blocked Syncs, the one that came first in front
    panic      \* libmill has ended the process

vars == <<waiting, state, closed, senders, op, cpu, older, panic>>

Init == /\ waiting = <<>>
        /\ state = [s \in Syncs |-> "idle"]
        /\ closed = {}
        /\ senders = [s \in Syncs |-> <<>>]
        /\ op = [p \in Notifiers |-> None]
        /\ cpu = None
        /\ older = {}
        /\ panic = FALSE

Yielded      == cpu = None /\ ~ panic
Blocked      == {s \in Syncs : state[s] = "blocked"}
BlockedAt(p) == {s \in Syncs : p \in ToSet(senders[s])}

(* weak_ptr::lock: a blocked notifier holds the channel as well.           *)
Alive(s) == state[s] # "dropped" \/ senders[s] # <<>>

----------------------------------------------------------------------------

\* a waiter joins at the front
Wait_front(s) ==
    /\ Yielded /\ state[s] = "idle" /\ Len(waiting) < MaxWaiting
    /\ waiting' = <<s>> \o waiting
    /\ IF senders[s] # <<>>
       THEN senders' = [senders EXCEPT ![s] = Tail(@)] /\ UNCHANGED state
       ELSE /\ state' = [state EXCEPT ![s] = IF s \in closed THEN "idle" ELSE "blocked"]
            /\ UNCHANGED senders
    /\ older' = (older \cup {<<t, s>> : t \in Blocked}) \cap (Blocked' \X Blocked')
    /\ UNCHANGED <<closed, op, cpu, panic>>

(* wait: the entry is made first. A send that is blocked already, or a     *)
(* channel in done mode, is received at once and wait returns.             *)
Wait(s) ==
    /\ Yielded /\ state[s] = "idle" /\ Len(waiting) < MaxWaiting
    /\ waiting' = Append(waiting, s)
    /\ IF senders[s] # <<>>
       THEN senders' = [senders EXCEPT ![s] = Tail(@)] /\ UNCHANGED state
       ELSE /\ state' = [state EXCEPT ![s] = IF s \in closed THEN "idle" ELSE "blocked"]
            /\ UNCHANGED senders
    /\ older' = (older \cup {<<t, s>> : t \in Blocked}) \cap (Blocked' \X Blocked')
    /\ UNCHANGED <<closed, op, cpu, panic>>

(* wait returns with what was received.                                    *)
Return(s) ==
    /\ Yielded /\ state[s] = "woken"
    /\ state' = [state EXCEPT ![s] = "idle"]
    /\ UNCHANGED <<waiting, closed, senders, op, cpu, older, panic>>

\* takes the front entry off, its own or not
Timeout_popsFront(s) ==
    /\ Yielded /\ s \in Timed /\ state[s] = "blocked"
    /\ state' = [state EXCEPT ![s] = "idle"]
    /\ waiting' = Tail(waiting)
    /\ older' = older \cap (Blocked' \X Blocked')
    /\ UNCHANGED <<closed, senders, op, cpu, panic>>

(* The deadline of wait: it returns false and leaves its entry behind.     *)
Timeout(s) ==
    /\ Yielded /\ s \in Timed /\ state[s] = "blocked"
    /\ state' = [state EXCEPT ![s] = "idle"]
    /\ older' = older \cap (Blocked' \X Blocked')
    /\ UNCHANGED <<waiting, closed, senders, op, cpu, panic>>

(* ~Sync, between two waits.                                               *)
Drop(s) ==
    /\ Yielded /\ state[s] = "idle"
    /\ state' = [state EXCEPT ![s] = "dropped"]
    /\ UNCHANGED <<waiting, closed, senders, op, cpu, older, panic>>

----------------------------------------------------------------------------

(* notifyOne, notify(Activated) and notify(Abort) or ~Conditional.         *)
Notify(p, what) ==
    /\ Yielded /\ op[p] = None
    /\ op' = [op EXCEPT ![p] = what]
    /\ cpu' = p
    /\ UNCHANGED <<waiting, state, closed, senders, older, panic>>

(* The loop of notify ends with an empty list; notifyOne looks once.       *)
Finish(p) ==
    /\ cpu = p /\ waiting = <<>> /\ ~ panic
    /\ op' = [op EXCEPT ![p] = None]
    /\ cpu' = None
    /\ UNCHANGED <<waiting, state, closed, senders, older, panic>>

\* notify stops after the first entry too
Continue_stops(p) == op' = [op EXCEPT ![p] = None] /\ cpu' = None

(* The loop of notify goes on after an entry, notifyOne does not.          *)
Continue(p) == IF op[p] = "one"
               THEN op' = [op EXCEPT ![p] = None] /\ cpu' = None
               ELSE UNCHANGED <<op, cpu>>

(* An entry whose Sync is gone: notifyOne returns false.                   *)
PopExpired(p) ==
    /\ cpu = p /\ waiting # <<>> /\ ~ panic
    /\ ~ Alive(Head(waiting))
    /\ waiting' = Tail(waiting)
    /\ Continue(p)
    /\ UNCHANGED <<state, closed, senders, older, panic>>

(* chs: a blocked receiver is woken; without one the notifier blocks; on a *)
(* channel in done mode libmill panics.                                    *)
PopSend(p) ==
    /\ cpu = p /\ waiting # <<>> /\ ~ panic
    /\ op[p] \in {"one", "all"} /\ Alive(Head(waiting))
    /\ waiting' = Tail(waiting)
    /\ LET s == Head(waiting)
       IN  \/ /\ s \in closed
              /\ panic' = TRUE /\ UNCHANGED <<state, senders, op, cpu>>
           \/ /\ s \notin closed /\ state[s] = "blocked"
              /\ state' = [state EXCEPT ![s] = "woken"]
              /\ Continue(p)
              /\ UNCHANGED <<senders, panic>>
           \/ /\ s \notin closed /\ state[s] # "blocked"
              /\ senders' = [senders EXCEPT ![s] = Append(@, p)]
              /\ cpu' = None
              /\ UNCHANGED <<state, op, panic>>
    /\ older' = older \cap (Blocked' \X Blocked')
    /\ UNCHANGED closed

(* chdone: the channel is in done mode for good and a blocked receiver is  *)
(* woken; a second chdone, or one while a sender is blocked, panics.       *)
PopAbort(p) ==
    /\ cpu = p /\ waiting # <<>> /\ ~ panic
    /\ op[p] = "abort" /\ Alive(Head(waiting))
    /\ waiting' = Tail(waiting)
    /\ LET s == Head(waiting)
       IN  IF s \in closed \/ senders[s] # <<>>
           THEN panic' = TRUE /\ UNCHANGED <<state, closed>>
           ELSE /\ closed' = closed \cup {s}
                /\ state' = [state EXCEPT ![s] = IF @ = "blocked" THEN "woken" ELSE @]
                /\ UNCHANGED panic
    /\ older' = older \cap (Blocked' \X Blocked')
    /\ UNCHANGED <<senders, op, cpu>>

(* A send that blocked was received: the notifier goes on.                 *)
Resume(p) ==
    /\ Yielded /\ op[p] # None /\ BlockedAt(p) = {}
    /\ IF op[p] = "one" THEN op' = [op EXCEPT ![p] = None] /\ UNCHANGED cpu
                        ELSE cpu' = p /\ UNCHANGED op
    /\ UNCHANGED <<waiting, state, closed, senders, older, panic>>

Run(p) == Finish(p) \/ PopExpired(p) \/ PopSend(p) \/ PopAbort(p)

Next == \/ \E s \in Syncs : Wait(s) \/ Return(s) \/ Timeout(s) \/ Drop(s)
        \/ \E p \in Notifiers :
             \/ \E what \in {"one", "all", "abort"} : Notify(p, what)
             \/ Run(p) \/ Resume(p)

Spec == Init /\ [][Next]_vars

(* A running coroutine goes on and a ready one gets its turn.              *)
FairSpec == /\ Spec
            /\ \A p \in Notifiers : WF_vars(Run(p)) /\ SF_vars(Resume(p))
            /\ \A s \in Syncs : SF_vars(Return(s))

----------------------------------------------------------------------------

TypeOK == /\ waiting \in Seq(Syncs) /\ Len(waiting) <= MaxWaiting
          /\ state \in [Syncs -> {"idle", "blocked", "woken", "dropped"}]
          /\ closed \subseteq Syncs
          /\ cpu \in Notifiers \cup {None} /\ panic \in BOOLEAN
          /\ \A p \in Notifiers : Cardinality(BlockedAt(p)) <= 1
          /\ cpu # None => op[cpu] # None /\ BlockedAt(cpu) = {}

(* No waiter is forgotten: whoever is blocked in wait has an entry that a  *)
(* later notification reaches.                                             *)
NoForgottenWaiter ==
    \A s \in Syncs : state[s] = "blocked" => s \in ToSet(waiting)

(* A notifier blocks only at a Sync that waits with a timeout: the others  *)
(* are there to receive, or their channel is done.                         *)
OnlyStaleBlocks ==
    \A s \in Syncs \ Timed : (s \notin closed => senders[s] = <<>>)

(* The list of waiters can be relied on: the state is well-formed, whoever *)
(* is blocked is on the list, and going through it blocks a notifier at    *)
(* stale entries only.                                                     *)
WaitersReachable == TypeOK /\ NoForgottenWaiter /\ OnlyStaleBlocks

(* Waits are woken in the order they began, stale entries aside.           *)
OldestFirst ==
    [][\A s, t \in Syncs \ (Timed \cup closed) :
         (/\ state[s] = "blocked" /\ state'[s] = "woken"
          /\ state[t] = "blocked" /\ state'[t] = "blocked")
         => <<s, t>> \in older]_vars

(* notify wakes every waiter, as long as no wait timed out before.         *)
Listed(s) == Cardinality({i \in DOMAIN waiting : waiting[i] = s})
NoStale   == /\ ~ panic
             /\ \A s \in Syncs : Listed(s) = (IF state[s] = "blocked" THEN 1 ELSE 0)

NotifyWakes ==
    []NoStale => \A p \in Notifiers, s \in Syncs :
        (cpu = p /\ op[p] # "one" /\ state[s] = "blocked") ~> (state[s] # "blocked")

(* channel.cpp: "waiter still active", where the send is done.             *)
WaiterStillActive ==
    \A p \in Notifiers :
        (cpu = p /\ op[p] \in {"one", "all"} /\ waiting # <<>> /\ Alive(Head(waiting)))
            => state[Head(waiting)] = "blocked"
==============================================================================
