------------------------------ MODULE IpcGather ------------------------------
(***************************************************************************)
(* ipc::get and ipc::gather, the handler of GET_RESPONSE messages and      *)
(* ipc::sendGetResponse (libs/base/src/ipc.cpp), with the Channel that the *)
(* caller waits on (libs/base/include/suil/base/channel.hpp). Messages are *)
(* whole and may overtake one another: each is sent by a coroutine of its  *)
(* own, and IpcPipe shows that it arrives in one piece. The broadcast of a *)
(* gather is a coroutine too: go() suspends it at every worker it asks.    *)
(***************************************************************************)
EXTENDS Integers, Sequences, FiniteSets, SequencesExt

CONSTANTS Workers,    \* the worker processes
          Requests,   \* calls of get and gather
          Owner,      \* Owner[r]: the worker that makes the call
          Target,     \* Target[r]: the worker a get asks, or Everyone
          Everyone,   \* a gather
          Timed,      \* the calls with tout > 0
          Late,       \* the workers that are still starting
          Addresses,  \* where the allocator may place a channel
          MaxExits    \* bound: worker processes that exit

ASSUME IpcGatherAssumption ==
    /\ IsFiniteSet(Workers) /\ Workers \subseteq Nat
    /\ Owner \in [Requests -> Workers]
    /\ Target \in [Requests -> Workers \cup {Everyone}]
    /\ Everyone \notin Workers
    /\ \A r \in Requests : Target[r] # Owner[r]
    /\ Timed \subseteq Requests /\ Late \subseteq Workers /\ MaxExits \in Nat

VARIABLES
    handlers,   \* workers with the get handler; the parent may register it for all
    stage,      \* the processes: forked, active, counted, exited, reaped
    nactive,    \* IPCInfo::nactive
    pc,         \* the calls: idle, locked, waiting, returned, timedOut, failed, gone
    clock,      \* a call's deadline: far, within 50 ms ("near"), or past
    chan,       \* the address of the call's channel; kept once it is freed
    need,       \* values operator| still waits for, -1 without a limit
    taken,      \* values received from the channel
    data,       \* inflightGets[handle]: the answers stored for the call
    untested,   \* the workers that the loop of asyncBroadcast has not come to
    asked,      \* history: the workers the request went to
    awaited,    \* history: the workers that the number of answers counts on
    net,        \* messages under way
    sendbuf,    \* each worker's static SEND_BUF: the payload in it
    blocked,    \* requests whose answer waits inside ipc::send
    lockLost,   \* a ticket of SHM_GATHER_LOCK was abandoned (TicketLock)
    clobbered   \* history: SEND_BUF was refilled while a send was using it

vars == <<handlers, stage, nactive, pc, clock, chan, need, taken, data, untested, asked,
          awaited, net, sendbuf, blocked, lockLost, clobbered>>

asking    == <<untested, asked, awaited>>
caller    == <<pc, clock, chan, need, taken, data, asking, lockLost>>
responder == <<sendbuf, blocked, clobbered>>
processes == <<handlers, stage, nactive>>

----------------------------------------------------------------------------

(* Worker::active is set before the worker is counted and starts to read   *)
(* its pipe, and cleared when the parent reaps it.                         *)
running == {w \in Workers : stage[w] = "counted"}
active  == {w \in Workers : stage[w] \in {"active", "counted", "exited"}}
uncounted == {w \in Workers : stage[w] = "active"}
gone    == {w \in Workers : stage[w] \in {"exited", "reaped"}}

None == "none"
Empty == [req |-> None, addr |-> None]
Payload(m)  == [req |-> m.req, addr |-> m.addr]
Ask(r, t, a) == [type |-> "ask", slot |-> <<r, t>>, to |-> t, by |-> Owner[r],
                 req |-> r, addr |-> a]

(* The calls of a worker that have a channel and an entry of inflightGets. *)
Live(w) == {r \in Requests : pc[r] \in {"locked", "waiting"} /\ Owner[r] = w}

\* whatever call waits, as if there were one at a time
Inflight_any(w, a) == Live(w)

(* The entry of inflightGets of a worker for an address.                   *)
Inflight(w, a) == {r \in Live(w) : chan[r] = a}

(* An address is taken while the channel lives; others may be reused.      *)
Free(w) == Addresses \ {chan[r] : r \in Live(w)}

(* hasMessageHandler for the get message.                                  *)
Reachable(w) == (handlers \cap active) \ {w}

Init ==
    /\ handlers \in SUBSET Workers
    /\ stage = [w \in Workers |-> IF w \in Late THEN "forked" ELSE "counted"]
    /\ nactive = Cardinality(Workers \ Late)
    /\ pc = [r \in Requests |-> "idle"]
    /\ clock = [r \in Requests |-> "far"]
    /\ chan = [r \in Requests |-> None]
    /\ need = [r \in Requests |-> 0]
    /\ taken = [r \in Requests |-> 0]
    /\ data = [r \in Requests |-> <<>>]
    /\ untested = [r \in Requests |-> {}]
    /\ asked = [r \in Requests |-> {}] /\ awaited = [r \in Requests |-> {}]
    /\ net = {}
    /\ sendbuf = [w \in Workers |-> Empty]
    /\ blocked = {}
    /\ lockLost = FALSE /\ clobbered = FALSE

(* Channel::operator()(n)                                                  *)
WaitFor(n) == IF n <= 0 THEN -1 ELSE n

(* The caller makes a channel and enters it in inflightGets.               *)
Open(r) == /\ pc[r] = "idle" /\ Owner[r] \in running
           /\ \E a \in Free(Owner[r]) : chan' = [chan EXCEPT ![r] = a]

(* The request, with the channel's address, goes to the workers of `to`.   *)
Send(r, to, a) == /\ net' = net \cup {Ask(r, t, a) : t \in to \ gone}
                  /\ asked' = [asked EXCEPT ![r] = @ \cup to]

(* get: the result of ipc::send is not looked at; one answer is awaited.   *)
Get(r) ==
    /\ Target[r] # Everyone
    /\ Open(r) /\ Send(r, {Target[r]} \cap Reachable(Owner[r]), chan'[r])
    /\ need' = [need EXCEPT ![r] = 1] /\ awaited' = [awaited EXCEPT ![r] = {Target[r]}]
    /\ pc' = [pc EXCEPT ![r] = "waiting"]
    /\ UNCHANGED <<processes, clock, taken, data, untested, responder, lockLost>>

(* gather: spinLock, the channel, and go(asyncBroadcast).                  *)
Gather(r) ==
    /\ Target[r] = Everyone
    /\ ~ lockLost /\ \A q \in Requests : pc[q] # "locked"
    /\ Open(r)
    /\ untested' = [untested EXCEPT ![r] = Workers \ {Owner[r]}]
    /\ pc' = [pc EXCEPT ![r] = "locked"]
    /\ UNCHANGED <<processes, clock, need, taken, data, asked, awaited, net, responder, lockLost>>

(* The loop of asyncBroadcast comes to its next worker, and asks it if it  *)
(* is active and has the handler: go(asyncSend) suspends the loop. It is   *)
(* the gather that runs next, after the first worker that is asked; the    *)
(* rest of the loop runs while the gather waits, and to its end if that    *)
(* has returned.                                                           *)
Test(r) ==
    /\ Owner[r] \in running /\ pc[r] = "locked" => asked[r] = {}
    /\ \E w \in untested[r] :
         /\ \A u \in untested[r] : w <= u
         /\ untested' = [untested EXCEPT ![r] = @ \ {w}]
         /\ Send(r, {w} \cap Reachable(Owner[r]), chan[r])
    /\ UNCHANGED <<processes, pc, clock, chan, need, taken, data, awaited, responder, lockLost>>

(* gather: broadcast has returned, because its coroutine was suspended or  *)
(* is through; spinUnlock, and nactive is read.                            *)
CountFor(r, n) ==
    /\ pc[r] = "locked" /\ Owner[r] \in running
    /\ asked[r] # {} \/ untested[r] = {}
    /\ need' = [need EXCEPT ![r] = n]
    /\ awaited' = [awaited EXCEPT ![r] = running \ {Owner[r]}]
    /\ pc' = [pc EXCEPT ![r] = "waiting"]
    /\ UNCHANGED <<processes, clock, chan, taken, data, untested, asked, net, responder, lockLost>>

\* one answer short
CountWorkers_oneShort(r) == CountFor(r, WaitFor(nactive - 2))

(* gather waits for the answers of the other workers of nactive.           *)
CountWorkers(r) == CountFor(r, WaitFor(nactive - 1))

(* gather: spinLock timed out; nothing was sent, the ticket is abandoned.  *)
GatherGivesUp(r) ==
    /\ pc[r] = "idle" /\ Owner[r] \in running
    /\ Target[r] = Everyone /\ r \in Timed
    /\ pc' = [pc EXCEPT ![r] = "failed"]
    /\ lockLost' = TRUE
    /\ UNCHANGED <<processes, clock, chan, need, taken, data, asking, net, responder>>

----------------------------------------------------------------------------

Answer(w, m, payload) ==
    IF m.by \in running
    THEN {[type |-> "answer", slot |-> m.slot, to |-> m.by, by |-> w,
           req |-> payload.req, addr |-> payload.addr]}
    ELSE {}

(* sendGetResponse fills SEND_BUF from the token and calls ipc::send. With *)
(* the destination's lock free and room in its pipe, that returns without  *)
(* a suspension; else the handler's coroutine waits, and the receive loop  *)
(* goes on with the next message. A send does not overtake one that waits  *)
(* for the same lock (NoOvertaking of TicketLock).                         *)
HandleAsk(w, m) ==
    /\ m \in net /\ m.type = "ask" /\ m.to = w /\ w \in running
    /\ sendbuf' = [sendbuf EXCEPT ![w] = Payload(m)]
    /\ clobbered' = (clobbered \/ \E b \in blocked : b.to = w)
    /\ \/ /\ \A b \in blocked : b.to = w => b.by # m.by
          /\ net' = (net \ {m}) \cup Answer(w, m, Payload(m)) /\ UNCHANGED blocked
       \/ net' = net \ {m} /\ blocked' = blocked \cup {m}
    /\ UNCHANGED <<processes, caller>>

(* The send that waited writes what SEND_BUF holds by now.                 *)
ResumeSend(w, m) ==
    /\ m \in blocked /\ m.to = w /\ w \in running
    /\ net' = net \cup Answer(w, m, sendbuf[w])
    /\ blocked' = blocked \ {m}
    /\ UNCHANGED <<processes, caller, sendbuf, clobbered>>

\* without the deadline test
HandleAnswer_anyTime(w, m) ==
    /\ m \in net /\ m.type = "answer" /\ m.to = w /\ w \in running
    /\ net' = net \ {m}
    /\ data' = [r \in Requests |->
                  IF r \in Inflight(w, m.addr)
                  THEN Append(data[r], [req |-> m.req, by |-> m.by]) ELSE data[r]]
    /\ UNCHANGED <<processes, pc, clock, chan, need, taken, asking, lockLost, responder>>

(* The GET_RESPONSE handler: an answer whose deadline is 50 ms away or     *)
(* less is dropped, and so is one whose channel has no entry. The channel  *)
(* buffers 16 values: chs does not wait for the caller.                    *)
HandleAnswer(w, m) ==
    /\ m \in net /\ m.type = "answer" /\ m.to = w /\ w \in running
    /\ net' = net \ {m}
    /\ data' = [r \in Requests |->
                  IF r \in Inflight(w, m.addr) /\ clock[m.req] = "far"
                  THEN Append(data[r], [req |-> m.req, by |-> m.by])
                  ELSE data[r]]
    /\ UNCHANGED <<processes, pc, clock, chan, need, taken, asking, lockLost, responder>>

----------------------------------------------------------------------------

\* waits for one value too many
Collect_oneMore(r) ==
    /\ pc[r] = "waiting" /\ Owner[r] \in running
    /\ taken[r] < Len(data[r])
    /\ taken' = [taken EXCEPT ![r] = @ + 1]
    /\ need' = [need EXCEPT ![r] = @ - 1]
    /\ pc' = [pc EXCEPT ![r] = IF need[r] = 0 THEN "returned" ELSE @]
    /\ UNCHANGED <<processes, clock, chan, data, asking, net, responder, lockLost>>

(* operator| and operator>>: one value is received; the call returns with  *)
(* the last one it needs.                                                  *)
Collect(r) ==
    /\ pc[r] = "waiting" /\ Owner[r] \in running
    /\ taken[r] < Len(data[r])
    /\ taken' = [taken EXCEPT ![r] = @ + 1]
    /\ need' = [need EXCEPT ![r] = @ - 1]
    /\ pc' = [pc EXCEPT ![r] = IF need[r] = 1 THEN "returned" ELSE @]
    /\ UNCHANGED <<processes, clock, chan, data, asking, net, responder, lockLost>>

(* Time passes.                                                            *)
Tick(r) ==
    /\ r \in Timed /\ pc[r] \in {"locked", "waiting", "returned"} /\ clock[r] # "past"
    /\ clock' = [clock EXCEPT ![r] = IF @ = "far" THEN "near" ELSE "past"]
    /\ UNCHANGED <<processes, pc, chan, need, taken, data, asking, net, responder,
                   lockLost>>

(* The deadline clause of choose fires: what was collected is returned. A   *)
(* value that waits in the channel is taken before.                        *)
TimeOut(r) ==
    /\ pc[r] = "waiting" /\ Owner[r] \in running
    /\ clock[r] = "past" /\ taken[r] = Len(data[r])
    /\ pc' = [pc EXCEPT ![r] = "timedOut"]
    /\ UNCHANGED <<processes, clock, chan, need, taken, data, asking, net, responder,
                   lockLost>>

(* The end of init: the worker is active, then counted, then it starts to  *)
(* receive.                                                                *)
Activate(w) == /\ stage[w] = "forked"
               /\ stage' = [stage EXCEPT ![w] = "active"]
               /\ UNCHANGED <<handlers, nactive, caller, net, responder>>

BeCounted(w) == /\ stage[w] = "active"
                /\ stage' = [stage EXCEPT ![w] = "counted"]
                /\ nactive' = nactive + 1
                /\ UNCHANGED <<handlers, caller, net, responder>>

(* A worker leaves its work loop, which takes it off nactive, or is killed *)
(* and stays counted. Its calls, their broadcasts and the messages to it   *)
(* are gone; the gather lock stays taken if it held it. It stays active    *)
(* until the parent's workerWait.                                          *)
Exit(w) ==
    /\ w \in running /\ Cardinality(gone) < MaxExits
    /\ stage' = [stage EXCEPT ![w] = "exited"]
    /\ nactive' \in {nactive, nactive - 1}
    /\ pc' = [r \in Requests |-> IF Owner[r] = w THEN "gone" ELSE pc[r]]
    /\ lockLost' = (lockLost \/ \E r \in Live(w) : pc[r] = "locked")
    /\ net' = {m \in net : m.to # w}
    /\ blocked' = {m \in blocked : m.to # w}
    /\ UNCHANGED <<handlers, clock, chan, need, taken, data, asking, sendbuf, clobbered>>

\* the parent takes it off nactive once more
Reap_counts(w) ==
    /\ stage[w] = "exited"
    /\ stage' = [stage EXCEPT ![w] = "reaped"] /\ nactive' = nactive - 1
    /\ UNCHANGED <<handlers, caller, net, responder>>

(* workerWait of the parent.                                               *)
Reap(w) ==
    /\ stage[w] = "exited"
    /\ stage' = [stage EXCEPT ![w] = "reaped"]
    /\ UNCHANGED <<handlers, nactive, caller, net, responder>>

Next == \/ \E r \in Requests : \/ Get(r) \/ Gather(r) \/ GatherGivesUp(r)
                               \/ Test(r) \/ CountWorkers(r) \/ Collect(r) \/ Tick(r) \/ TimeOut(r)
        \/ \E w \in Workers : Activate(w) \/ BeCounted(w) \/ Exit(w) \/ Reap(w)
        \/ \E w \in Workers, m \in net : HandleAsk(w, m) \/ HandleAnswer(w, m)
        \/ \E w \in Workers, m \in blocked : ResumeSend(w, m)

Spec == Init /\ [][Next]_vars

(* Messages arrive, blocked sends get their turn (SendReturns of IpcPipe), *)
(* callers are resumed and the clock runs.                                 *)
FairSpec == /\ Spec
            /\ \A r \in Requests : /\ WF_vars(Test(r)) /\ WF_vars(CountWorkers(r))
                                  /\ WF_vars(Collect(r)) /\ WF_vars(Tick(r)) /\ WF_vars(TimeOut(r))
            /\ \A w \in Workers :
                 /\ WF_vars(BeCounted(w))
                 /\ WF_vars(\E m \in net : HandleAsk(w, m))
                 /\ WF_vars(\E m \in net : HandleAnswer(w, m))
                 /\ WF_vars(\E m \in blocked : ResumeSend(w, m))

----------------------------------------------------------------------------

TypeOK ==
    /\ handlers \subseteq Workers
    /\ stage \in [Workers -> {"forked", "active", "counted", "exited", "reaped"}]
    /\ nactive \in Cardinality(running) .. Cardinality(Workers)
    /\ pc \in [Requests -> {"idle", "locked", "waiting", "returned", "timedOut", "failed",
                            "gone"}]
    /\ clock \in [Requests -> {"far", "near", "past"}]
    /\ chan \in [Requests -> Addresses \cup {None}]
    /\ \A r \in Requests : taken[r] <= Len(data[r]) /\ need[r] <= nactive + MaxExits
    /\ asked \in [Requests -> SUBSET Workers] /\ awaited \in [Requests -> SUBSET Workers]
    /\ \A r \in Requests : untested[r] \subseteq Workers \ (asked[r] \cup {Owner[r]})
    /\ \A m \in net \cup blocked : m.to \in running \cup uncounted

Finished(r) == pc[r] \in {"returned", "timedOut", "failed", "gone"}
Values(r)   == ToSet(data[r])

(* A call never stores the answer to another call that is still waiting,   *)
(* in this worker or in another one: unless SEND_BUF was refilled while a  *)
(* send was using it, a foreign answer is one that was still under way     *)
(* when its own call ended and its channel's address was used again.       *)
NoCrossTalk ==
    ~ clobbered => \A r \in Requests : \A d \in Values(r) :
        d.req = r \/ (Finished(d.req) /\ chan[d.req] = chan[r])

(* No worker's answer is counted twice for one call.                       *)
NoDoubleCount ==
    ~ clobbered => \A r \in Requests : \A i, j \in DOMAIN data[r] :
        data[r][i] = data[r][j] => i = j

(* The answers stored for a call are its own, one for each worker.         *)
AnswersBelong == NoCrossTalk /\ NoDoubleCount

(* An answer to a call that timed out is never stored, not even for a call *)
(* whose channel was given the same address meanwhile.                     *)
NoAnswerAfterTimeout ==
    [][\A r \in Requests : Len(data'[r]) > Len(data[r])
          => pc[Last(data'[r]).req] # "timedOut"]_vars

Undisturbed == ~ clobbered /\ gone = {}

(* Every worker that a call asks is one that it counts on. It is not so    *)
(* when a worker becomes active but is not counted before the call reads   *)
(* nactive; the call may have asked it, or may ask it later on.            *)
AskedAreCounted ==
    \A r \in Requests : pc[r] # "locked" => asked[r] \subseteq awaited[r]

(* A call that returns in time has the answer of every worker that it      *)
(* asked, and has asked it by then, if no worker exited, SEND_BUF was not  *)
(* shared and every worker that this call or another one asked had been    *)
(* counted when it read nactive, wherever its broadcast was by then.       *)
AllAnswered(r) == asked[r] \subseteq {d.by : d \in Values(r)}

GatherComplete ==
    (Undisturbed /\ AskedAreCounted)
        => \A r \in Requests : pc[r] = "returned" => AllAnswered(r)

(* Every call returns when as many workers were asked as are waited for,   *)
(* and at least one. In particular a gather without other active workers   *)
(* waits for ever (WaitFor), and so does one past a worker that is active  *)
(* and has no handler.                                                     *)
CallsReturn ==
    []Undisturbed => \A r \in Requests :
        (pc[r] = "waiting" /\ need[r] + taken[r] = Cardinality(asked[r])) ~> (pc[r] # "waiting")

(* ipc.cpp: "wait for the response from all workers".                      *)
WaitsForAllWorkers ==
    gone = {} => \A r \in Requests : pc[r] = "returned" => AllAnswered(r)
==============================================================================
