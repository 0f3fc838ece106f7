------------------------------- MODULE IpcPipe -------------------------------
(***************************************************************************)
(* ipc::send and ipc::receiveMessage (libs/base/src/ipc.cpp): how several  *)
(* worker processes write framed messages into the pipe of one worker, and *)
(* how that worker's asyncReceive coroutine takes them out again. A message *)
(* is a header and the chunks of its body; each is written and read by one *)
(* system call, and other processes run between any two of them. The       *)
(* destination's lock (Worker::lock) is used through its promise, Mutex.   *)
(***************************************************************************)
EXTENDS Integers, Sequences, FiniteSets, SequencesExt

CONSTANTS Senders,    \* coroutines that call ipc::send for this destination
          Kinds,      \* message ids
          Chunks,     \* Chunks[k]: PIPE_BUF chunks in the body of a k message
          PipeCap,    \* bound: units the kernel buffers before EAGAIN
          MaxSends    \* MaxSends[s]: bound, calls of send by s

ASSUME IpcPipeAssumption ==
    /\ Chunks \in [Kinds -> Nat]
    /\ PipeCap \in Nat \ {0}
    /\ MaxSends \in [Senders -> Nat]

VARIABLES
    handled,   \* Worker::mask: ids the destination has a handler for
    inside,    \* senders that hold the destination's lock
    pc,        \* where each sender stands in ipc::send
    out,       \* the message each sender is sending: its kind and number
    written,   \* units of it already written
    pipe,      \* units in the pipe
    reading,   \* the header receiveMessage has read, or NoHeader
    body,      \* the body units read since
    inbox,     \* messages handed to a handler, in order
    aligned,   \* FALSE once a header was dropped and its body left behind
    open       \* the destination's process still has the reading end

vars == <<handled, inside, pc, out, written, pipe, reading, body, inbox,
          aligned, open>>

sender   == <<inside, pc, out, written>>
receiver == <<reading, body, inbox, aligned>>

(* The lock is never cancelled: Lock::cancel has no caller.                *)
DestinationLock == INSTANCE Mutex WITH Procs <- Senders, open <- FALSE

----------------------------------------------------------------------------

NoHeader == [kind |-> "none", left |-> 0]
Unit(s, i) == [from |-> s, kind |-> out[s].kind, n |-> out[s].n, i |-> i]

Init == /\ handled = Kinds
        /\ inside = {}
        /\ pc = [s \in Senders |-> "idle"]
        /\ out = [s \in Senders |-> [kind |-> "none", n |-> 0]]
        /\ written = [s \in Senders |-> 0]
        /\ pipe = <<>>
        /\ reading = NoHeader
        /\ body = <<>>
        /\ inbox = <<>>
        /\ aligned = TRUE
        /\ open = TRUE

(* send: the destination handles the message; else ENOTSUP and no change.  *)
Send(s, k) ==
    /\ pc[s] = "idle"
    /\ k \in handled /\ out[s].n < MaxSends[s]
    /\ out' = [out EXCEPT ![s] = [kind |-> k, n |-> out[s].n + 1]]
    /\ written' = [written EXCEPT ![s] = 0]
    /\ pc' = [pc EXCEPT ![s] = "lock"]
    /\ UNCHANGED <<handled, inside, pipe, receiver, open>>

\* writes without waiting for the lock
AcquireLock_skips(s) ==
    /\ pc[s] = "lock"
    /\ inside' = inside \cup {s}
    /\ pc' = [pc EXCEPT ![s] = "write"]
    /\ UNCHANGED <<handled, out, written, pipe, receiver, open>>

(* Lock l(wrk.lock)                                                        *)
AcquireLock(s) ==
    /\ pc[s] = "lock"
    /\ DestinationLock!Enter(s)
    /\ pc' = [pc EXCEPT ![s] = "write"]
    /\ UNCHANGED <<handled, out, written, pipe, receiver, open>>

\* one chunk too many, past the end of the payload
Write_oneMore(s) ==
    /\ pc[s] = "write" /\ open
    /\ written[s] <= Chunks[out[s].kind] + 1
    /\ Len(pipe) < PipeCap
    /\ pipe' = Append(pipe, Unit(s, written[s]))
    /\ written' = [written EXCEPT ![s] = @ + 1]
    /\ UNCHANGED <<handled, inside, pc, out, receiver, open>>

\* resumes with the header when the body finds the pipe full
Write_restarts(s) ==
    /\ pc[s] = "write" /\ open
    /\ written[s] <= Chunks[out[s].kind]
    /\ IF Len(pipe) < PipeCap
       THEN pipe' = Append(pipe, Unit(s, written[s])) /\ written' = [written EXCEPT ![s] = @ + 1]
       ELSE written[s] > 0 /\ written' = [written EXCEPT ![s] = 0] /\ UNCHANGED pipe
    /\ UNCHANGED <<handled, inside, pc, out, receiver, open>>

(* write() of the header (unit 0), then of each chunk of the body. EAGAIN, *)
(* a full pipe, waits and tries the same unit again.                       *)
Write(s) ==
    /\ pc[s] = "write" /\ open
    /\ written[s] <= Chunks[out[s].kind]
    /\ Len(pipe) < PipeCap
    /\ pipe' = Append(pipe, Unit(s, written[s]))
    /\ written' = [written EXCEPT ![s] = @ + 1]
    /\ UNCHANGED <<handled, inside, pc, out, receiver, open>>

\* an early return of the failed write skips the unlock
Return_keepsLock(s) ==
    /\ pc[s] = "write"
    /\ written[s] > Chunks[out[s].kind] \/ ~ open
    /\ IF open THEN DestinationLock!Leave(s) ELSE UNCHANGED inside
    /\ pc' = [pc EXCEPT ![s] = "idle"]
    /\ UNCHANGED <<handled, out, written, pipe, receiver, open>>

(* send returns, tsent or -1 (EPIPE, FDW_ERR); ~Lock unlocks on each path. *)
Return(s) ==
    /\ pc[s] = "write"
    /\ written[s] > Chunks[out[s].kind] \/ ~ open
    /\ DestinationLock!Leave(s)
    /\ pc' = [pc EXCEPT ![s] = "idle"]
    /\ UNCHANGED <<handled, out, written, pipe, receiver, open>>

(* The sender's process exits in the middle of send: the lock stays taken. *)
SenderExits(s) ==
    /\ pc[s] \in {"lock", "write"}
    /\ pc' = [pc EXCEPT ![s] = "exited"]
    /\ UNCHANGED <<handled, inside, out, written, pipe, receiver, open>>

----------------------------------------------------------------------------

(* invokeHandler: the handler is looked up once the body is complete. One  *)
(* that was unregistered meanwhile is an empty function: its call throws,  *)
(* and the message is gone.                                                *)
HandOver(hdr, units) ==
    inbox' = IF hdr.kind \in handled
             THEN Append(inbox, [hdr |-> hdr, body |-> units])
             ELSE inbox

(* What the next bytes mean as a header: the header they are or, when the  *)
(* reader is out of step and they belong to a body, any header at all.     *)
HeadersIn(u) ==
    IF u.i = 0 THEN {[kind |-> u.kind, left |-> Chunks[u.kind], from |-> u.from, n |-> u.n]}
               ELSE {[kind |-> k, left |-> Chunks[k], from |-> u.from, n |-> 0] : k \in Kinds}

(* receiveMessage drops a header that has no handler and does not read the *)
(* body that follows it.                                                   *)
ReadHeader ==
    /\ open /\ reading = NoHeader /\ pipe # <<>>
    /\ pipe' = Tail(pipe)
    /\ \E hdr \in HeadersIn(Head(pipe)) :
         \/ /\ hdr.kind \notin handled
            /\ aligned' = (aligned /\ hdr.left = 0)
            /\ UNCHANGED <<reading, body, inbox>>
         \/ /\ hdr.kind \in handled /\ hdr.left = 0
            /\ HandOver(hdr, <<>>)
            /\ UNCHANGED <<reading, body, aligned>>
         \/ /\ hdr.kind \in handled /\ hdr.left > 0
            /\ reading' = hdr /\ body' = <<>>
            /\ UNCHANGED <<inbox, aligned>>
    /\ UNCHANGED <<handled, sender, open>>

\* always asks the pipe for a whole buffer, past the end of the message
ReadBody_overreads ==
    /\ open /\ reading # NoHeader /\ pipe # <<>>
    /\ LET all == body \o pipe
       IN  /\ pipe' = <<>>
           /\ IF Len(all) >= reading.left
              THEN HandOver(reading, all) /\ reading' = NoHeader /\ body' = <<>>
              ELSE body' = all /\ UNCHANGED <<reading, inbox>>
    /\ UNCHANGED <<handled, sender, aligned, open>>

ReadBody ==
    /\ open /\ reading # NoHeader /\ pipe # <<>>
    /\ pipe' = Tail(pipe)
    /\ LET all == Append(body, Head(pipe))
       IN  IF Len(all) = reading.left
           THEN HandOver(reading, all) /\ reading' = NoHeader /\ body' = <<>>
           ELSE body' = all /\ UNCHANGED <<reading, inbox>>
    /\ UNCHANGED <<handled, sender, aligned, open>>

(* registerHandler and unRegisterHandler, by the destination or the parent *)
Register(k)   == k \notin handled /\ handled' = handled \cup {k}
                 /\ UNCHANGED <<sender, pipe, receiver, open>>
Unregister(k) == k \in handled /\ handled' = handled \ {k}
                 /\ UNCHANGED <<sender, pipe, receiver, open>>

(* The destination's process exits: writers get EPIPE from now on.         *)
ReceiverExits ==
    /\ open /\ open' = FALSE
    /\ UNCHANGED <<handled, sender, pipe, receiver>>

----------------------------------------------------------------------------

Next == \/ \E s \in Senders :
             \/ \E k \in Kinds : Send(s, k)
             \/ AcquireLock(s) \/ Write(s) \/ Return(s) \/ SenderExits(s)
        \/ ReadHeader \/ ReadBody \/ ReceiverExits
        \/ \E k \in Kinds : Register(k) \/ Unregister(k)

Spec == Init /\ [][Next]_vars

(* Senders and the receiver are resumed when their descriptor is ready;    *)
(* the ticket lock grants in the order of the requests (NoOvertaking of    *)
(* TicketLock), hence the strong fairness of AcquireLock.                  *)
FairSpec == /\ Spec
            /\ WF_vars(ReadHeader) /\ WF_vars(ReadBody)
            /\ \A s \in Senders : /\ SF_vars(AcquireLock(s))
                                  /\ WF_vars(Write(s)) /\ WF_vars(Return(s))

----------------------------------------------------------------------------

UnitType == [from : Senders, kind : Kinds, n : Nat \ {0}, i : Nat]

TypeOK ==
    /\ handled \subseteq Kinds /\ inside \subseteq Senders
    /\ pc \in [Senders -> {"idle", "lock", "write", "exited"}]
    /\ \A s \in Senders : written[s] <= 1 + (IF out[s].n = 0 THEN 0 ELSE Chunks[out[s].kind])
    /\ pipe \in Seq(UnitType) /\ Len(pipe) <= PipeCap
    /\ body \in Seq(UnitType) /\ Len(body) <= reading.left
    /\ aligned \in BOOLEAN /\ open \in BOOLEAN

(* A message is handed to its handler with exactly the body its sender     *)
(* wrote after the header, whatever other senders wrote meanwhile, as long *)
(* as no header was dropped for want of a handler.                         *)
BodiesIntact ==
    aligned => \A m \in ToSet(inbox) :
        m.body = [i \in 1 .. Chunks[m.hdr.kind] |->
                    [from |-> m.hdr.from, kind |-> m.hdr.kind, n |-> m.hdr.n, i |-> i]]

(* Messages of one sender reach the handlers in the order of the calls of  *)
(* send, none of them twice.                                               *)
SenderOrder ==
    aligned => \A i, j \in DOMAIN inbox :
        (i < j /\ inbox[i].hdr.from = inbox[j].hdr.from)
            => inbox[i].hdr.n < inbox[j].hdr.n

(* Only the last message in the pipe may be incomplete, and then its       *)
(* sender, alive or not, holds the lock: a sender that failed or exited    *)
(* half way lets no other message follow the fragment.                     *)
FragmentIsLast ==
    open => \A j \in DOMAIN pipe :
        LET u == pipe[j]
            complete == \/ u.i = Chunks[u.kind]
                        \/ j < Len(pipe) /\ pipe[j + 1] = [u EXCEPT !.i = u.i + 1]
        IN  complete \/ (j = Len(pipe) /\ u.from \in inside)

(* Every call of send returns, even to a full pipe or to a process that    *)
(* exits meanwhile, unless a sender exits while it holds the lock.         *)
Exited == {s \in Senders : pc[s] = "exited"}

SendReturns ==
    [](Exited = {}) => \A s \in Senders : (pc[s] = "lock") ~> (pc[s] = "idle")
==============================================================================
