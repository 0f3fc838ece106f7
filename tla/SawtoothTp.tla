----------------------------- MODULE SawtoothTp ------------------------------
(***************************************************************************)
(* The transaction processor of libs/sawtooth: TransactionProcessor        *)
(* (src/tp.cpp), the Dispatcher and its coroutines (src/dispatcher.cpp),   *)
(* streams and futures (src/stream.cpp, src/message.cpp), and the monitor  *)
(* of the server socket (libs/network/src/zmq/monitor.cpp). All of it runs *)
(* as coroutines of one thread that switch where they wait.                *)
(*                                                                         *)
(* ZeroMQ and the validator are external. A link that breaks loses what is *)
(* on the wire, in both directions; what waits in the queues of the        *)
(* sockets survives. A validator that loses its processor forgets the      *)
(* registrations and sends unanswered transactions again, later, under a   *)
(* new correlation id. Exit signals are left out.                          *)
(***************************************************************************)
EXTENDS Integers, Sequences, FiniteSets, SequencesExt, FiniteSetsExt

CONSTANTS Txns,       \* transactions of the validator
          Handlers,   \* number of handlers (families) to register
          MaxFaults,  \* bound: times the link breaks
          MaxRequests \* bound: process requests and pings of the validator

(* The transactions have names of their own among the correlation ids.     *)
ASSUME SawtoothAssumption == /\ Handlers \in Nat \ {0}
                             /\ {MaxFaults, MaxRequests} \subseteq Nat
                             /\ Txns \cap {"tp", "ping", "none"} = {}

VARIABLES
    main,        \* TransactionProcessor::run: where it is and what it waits for
    monitor,     \* the coroutine of the monitor, the same
    connected,   \* mIsSeverConnected
    events,      \* events the monitor has not read
    counter,     \* Stream::CorrelationCounter
    onAir,       \* mOnAirMessages: the futures without an answer
    got,         \* answers set in futures
    sendQ,       \* send_queue, for each stream in order
    out,         \* messages the server socket has to send
    inbox,       \* messages it has received
    requestQ,    \* request_queue
    awake,       \* receiveMessages does not wait for the descriptor of the socket
    readable,    \* the descriptor is readable
    link,        \* the link to the validator
    back,        \* what the validator has sent and has not arrived
    registered,  \* handlers the validator knows
    pending,     \* transactions it has sent on this link, not answered
    answered,    \* transactions whose response it has got
    faults,      \* times the link broke
    requests,    \* process requests and pings it has sent
    missed,      \* history: the link came up before the monitor listened
    lost,        \* history: the correlation ids of what broken links lost
    asked,       \* history: process requests in the order they arrived
    replies      \* history: process responses in the order they were sent

local  == <<main, monitor, connected, events>>
futures == <<counter, onAir, got>>
socket == <<awake, readable>>
peer   == <<link, registered, pending, answered, faults, requests, missed, lost>>
history == <<asked, replies>>
vars   == <<local, futures, sendQ, out, inbox, requestQ, socket, back, peer, history>>

None == <<"none", 0>>
Message(type, cid, arg) == [type |-> type, cid |-> cid, arg |-> arg]
At(where, cid, arg) == [at |-> where, cid |-> cid, arg |-> arg]

Init ==
    /\ main = At("start", None, None) /\ monitor = At("idle", None, 0)
    /\ connected = FALSE /\ events = <<>>
    /\ counter = 0 /\ onAir = {} /\ got = {}
    /\ sendQ = [s \in {"resp", "state"} |-> <<>>]
    /\ out = <<>> /\ inbox = <<>> /\ requestQ = <<>> /\ back = <<>>
    /\ awake = FALSE /\ readable = FALSE
    /\ link = "down" /\ registered = {} /\ pending = {} /\ answered = {}
    /\ faults = 0 /\ requests = 0 /\ missed = FALSE /\ lost = {}
    /\ asked = <<>> /\ replies = <<>>

Running == main.at \notin {"start", "unregister"}   \* the coroutines of the dispatcher run

----------------------------------------------------------------------------
(* Stream::asyncSend: a new future is registered, then its request sent.   *)
NewCid == <<"tp", counter + 1>>

AsyncSend(stream, type, arg) ==
    /\ counter' = counter + 1
    /\ onAir' = onAir \cup {NewCid}
    /\ sendQ' = [sendQ EXCEPT ![stream] = Append(@, Message(type, NewCid, arg))]
    /\ UNCHANGED got

(* getMessage: the future has its answer.                                  *)
Answer(cid) == CHOOSE m \in got : m.cid = cid
HasAnswer(cid) == \E m \in got : m.cid = cid

(* The future goes out of scope.                                           *)
Taken(cid) == /\ got' = got \ {Answer(cid)}
              /\ UNCHANGED <<counter, onAir>>

----------------------------------------------------------------------------
(* TransactionProcessor::run                                               *)

Connect == /\ main.at = "start"
           /\ main' = At("connected", None, None)
           /\ UNCHANGED <<monitor, connected, events, futures, sendQ, out, inbox, requestQ,
                          socket, back, peer, history>>

(* zmq_connect fails: the exception leads to unRegisterAll, which waits    *)
(* for an answer; the coroutines that send and receive were not started.   *)
ConnectFails == /\ main.at = "start"
                /\ AsyncSend("resp", "unregister", 0)
                /\ main' = At("unregister", NewCid, None)
                /\ UNCHANGED <<monitor, connected, events, out, inbox, requestQ,
                               socket, back, peer, history>>

(* SocketMonitor::start and initConnectionMonitor: from here on events are *)
(* seen.                                                                   *)
StartMonitor == /\ main.at = "connected"
                /\ main' = At("idle", None, None)
                /\ UNCHANGED <<monitor, connected, events, futures, sendQ, out, inbox, requestQ,
                               socket, back, peer, history>>

(* It returns FALSE, which nobody looks at: run goes on without a monitor. *)
MonitorFails == /\ main.at = "connected"
                /\ main' = At("idle", None, None)
                /\ monitor' = At("off", None, 0)
                /\ UNCHANGED <<connected, events, futures, sendQ, out, inbox, requestQ,
                               socket, back, peer, history>>

(* sendResponse, with the correlation id of the request.                   *)
Respond(cid) ==
    /\ sendQ' = [sendQ EXCEPT !["resp"] = Append(@, Message("response", cid, 0))]
    /\ replies' = Append(replies, cid)
    /\ main' = At("idle", None, None)

\* a request that fails gets no response
HandleRequest_silent ==
    /\ main.at = "idle" /\ requestQ # <<>>
    /\ requestQ' = Tail(requestQ)
    /\ UNCHANGED <<local, futures, sendQ, out, inbox, socket, back, peer, history>>

(* handleRequest, when apply needs no state, throws, or has no handler.    *)
HandleRequest == /\ main.at = "idle" /\ requestQ # <<>>
                 /\ Respond(Head(requestQ).cid)
                 /\ requestQ' = Tail(requestQ)
                 /\ UNCHANGED <<monitor, connected, events, futures, out, inbox, socket,
                                back, peer, asked>>

(* ... when apply asks for state, once: the rest waits for the answer.     *)
AskState == /\ main.at = "idle" /\ requestQ # <<>>
            /\ AsyncSend("state", "state", 0)
            /\ main' = At("apply", NewCid, Head(requestQ).cid)
            /\ requestQ' = Tail(requestQ)
            /\ UNCHANGED <<monitor, connected, events, out, inbox, socket, back, peer, history>>

GetState == /\ main.at = "apply" /\ HasAnswer(main.cid)
            /\ Taken(main.cid)
            /\ Respond(main.arg)
            /\ UNCHANGED <<monitor, connected, events, out, inbox, requestQ, socket,
                           back, peer, asked>>

----------------------------------------------------------------------------
(* The monitor: registerAll waits for every answer in its coroutine.       *)

Register(h) == /\ AsyncSend("resp", "register", h)
               /\ monitor' = At("registering", NewCid, h)

\* the loss of the link is not noted
OnEvent_noreset ==
    /\ monitor.at = "idle" /\ events # <<>>
    /\ events' = Tail(events)
    /\ IF Head(events) = "CONNECTED" /\ ~connected
       THEN Register(1) /\ UNCHANGED connected
       ELSE UNCHANGED <<connected, monitor, futures, sendQ>>
    /\ UNCHANGED <<main, out, inbox, requestQ, socket, back, peer, history>>

OnEvent ==
    /\ monitor.at = "idle" /\ events # <<>>
    /\ events' = Tail(events)
    /\ IF Head(events) = "CONNECTED" /\ ~connected
       THEN Register(1) /\ UNCHANGED connected
       ELSE /\ connected' = (Head(events) = "CONNECTED")
            /\ UNCHANGED <<monitor, futures, sendQ>>
    /\ UNCHANGED <<main, out, inbox, requestQ, socket, back, peer, history>>

(* The next handler, or the end of registerAll.                            *)
Registered ==
    /\ monitor.at = "registering" /\ HasAnswer(monitor.cid)
    /\ Answer(monitor.cid).arg = "ok"
    /\ IF monitor.arg < Handlers
       THEN /\ counter' = counter + 1
            /\ onAir' = onAir \cup {NewCid}
            /\ got' = got \ {Answer(monitor.cid)}
            /\ sendQ' = [sendQ EXCEPT !["resp"] =
                            Append(@, Message("register", NewCid, monitor.arg + 1))]
            /\ monitor' = At("registering", NewCid, monitor.arg + 1)
            /\ UNCHANGED connected
       ELSE /\ Taken(monitor.cid)
            /\ monitor' = At("idle", None, 0)
            /\ connected' = TRUE
            /\ UNCHANGED sendQ
    /\ UNCHANGED <<main, events, out, inbox, requestQ, socket, back, peer, history>>

(* A registration is refused: nothing catches the exception.               *)
RegisterRefused ==
    /\ monitor.at = "registering" /\ HasAnswer(monitor.cid)
    /\ Answer(monitor.cid).arg = "refused"
    /\ Taken(monitor.cid)
    /\ monitor' = At("crashed", None, 0)
    /\ UNCHANGED <<main, connected, events, sendQ, out, inbox, requestQ, socket, back, peer,
                   history>>

(* waitForEvents cannot receive: it ends, and its socket is closed.        *)
WaitFails ==
    /\ main.at \in {"idle", "apply"} /\ monitor.at = "idle"
    /\ monitor' = At("off", None, 0)
    /\ events' = <<>>
    /\ UNCHANGED <<main, connected, futures, sendQ, out, inbox, requestQ, socket, back, peer,
                   history>>

----------------------------------------------------------------------------
(* Dispatcher::sendMessages. zmq_connect has succeeded, so isConnected is  *)
(* true whatever became of the link. Sending on the socket may take note   *)
(* of what has arrived: the descriptor is then no longer readable, though  *)
(* nobody has read.                                                        *)

MayConsume == readable' \in {readable, FALSE}

SendMessages(s) ==
    /\ Running /\ sendQ[s] # <<>>
    /\ sendQ' = [sendQ EXCEPT ![s] = Tail(@)]
    /\ out' = Append(out, Head(sendQ[s]))
    /\ MayConsume
    /\ UNCHANGED <<local, futures, inbox, requestQ, awake, back, peer, history>>

(* Dispatcher::receiveMessages reads until the socket is empty, then it    *)
(* waits for the descriptor.                                               *)
Wake == /\ ~awake /\ readable
        /\ awake' = TRUE /\ readable' = FALSE
        /\ UNCHANGED <<local, futures, sendQ, out, inbox, requestQ, back, peer, history>>

\* an answer is matched with whatever waits
SetMessage_any(m) ==
    IF onAir = {} THEN UNCHANGED futures
    ELSE LET cid == CHOOSE c \in onAir : TRUE
         IN  /\ onAir' = onAir \ {cid} /\ got' = got \cup {[m EXCEPT !.cid = cid]}
             /\ UNCHANGED counter

(* OnAirMessage::setMessage and erase, if the correlation id is known.     *)
SetMessage(m) ==
    IF m.cid \in onAir
    THEN onAir' = onAir \ {m.cid} /\ got' = got \cup {m} /\ UNCHANGED counter
    ELSE UNCHANGED futures

\* process requests go to the front
Forward_front(m) == <<m>> \o requestQ
Forward(m) == Append(requestQ, m)

ReceiveMessages ==
    /\ Running /\ awake /\ inbox # <<>>
    /\ inbox' = Tail(inbox)
    /\ awake' = (Tail(inbox) # <<>>)
    /\ LET m == Head(inbox)
       IN  \/ /\ m.type = "process"
              /\ requestQ' = Forward(m)
              /\ UNCHANGED <<out, readable, futures>>
           \/ /\ m.type = "ping"
              /\ out' = Append(out, Message("pong", m.cid, 0))
              /\ MayConsume
              /\ UNCHANGED <<requestQ, futures>>
           \/ /\ m.type = "answer"
              /\ SetMessage(m)
              /\ UNCHANGED <<requestQ, out, readable>>
    /\ UNCHANGED <<local, sendQ, back, peer, history>>

----------------------------------------------------------------------------
(* The link. Events are seen as long as the monitor runs. A message that   *)
(* arrives makes the descriptor readable if the receiver found the socket  *)
(* empty before.                                                           *)

Observed(event) == events' = IF main.at = "connected" \/ monitor.at = "off"
                             THEN events ELSE Append(events, event)

LinkUp == /\ link = "down" /\ Running
          /\ link' = "up"
          /\ Observed("CONNECTED")
          /\ missed' = (main.at = "connected")
          /\ UNCHANGED <<main, monitor, connected, futures, sendQ, out, inbox, requestQ, socket,
                         back, registered, pending, answered, faults, requests, lost,
                         history>>

LinkDown == /\ link = "up" /\ faults < MaxFaults
            /\ link' = "down" /\ faults' = faults + 1
            /\ Observed("DISCONNECTED")
            /\ \E k \in 0 .. Len(out) :
                  /\ out' = SubSeq(out, k + 1, Len(out))
                  /\ lost' = lost \cup {m.cid : m \in ToSet(SubSeq(out, 1, k) \o back)}
            /\ back' = <<>>
            /\ registered' = {} /\ pending' = {}
            /\ UNCHANGED <<main, monitor, connected, futures, sendQ, inbox, requestQ, socket,
                           answered, requests, missed, history>>

Arrive == /\ link = "up" /\ back # <<>>
          /\ back' = Tail(back)
          /\ inbox' = Append(inbox, Head(back))
          /\ readable' = (readable \/ (~awake /\ inbox = <<>>))
          /\ asked' = IF Head(back).type = "process" THEN Append(asked, Head(back).cid) ELSE asked
          /\ UNCHANGED <<local, futures, sendQ, out, requestQ, awake, peer, replies>>

----------------------------------------------------------------------------
(* The validator.                                                          *)

Serve == /\ link = "up" /\ out # <<>>
         /\ out' = Tail(out)
         /\ LET m == Head(out)
            IN  \/ /\ m.type = "register"
                   /\ registered' = registered \cup {m.arg}
                   /\ back' = Append(back, Message("answer", m.cid, "ok"))
                   /\ UNCHANGED <<pending, answered>>
                \/ /\ m.type = "register"
                   /\ back' = Append(back, Message("answer", m.cid, "refused"))
                   /\ UNCHANGED <<registered, pending, answered>>
                \/ /\ m.type = "state"
                   /\ back' = Append(back, Message("answer", m.cid, "ok"))
                   /\ UNCHANGED <<registered, pending, answered>>
                \/ /\ m.type = "response"
                   /\ pending' = pending \ {m.cid}
                   /\ answered' = IF m.cid \in pending THEN answered \cup {m.cid[1]} ELSE answered
                   /\ UNCHANGED <<registered, back>>
                \/ m.type = "pong" /\ UNCHANGED <<registered, pending, answered, back>>
         /\ UNCHANGED <<local, futures, sendQ, inbox, requestQ, socket, link, faults, requests,
                        missed, lost, history>>

Submit(t) == /\ link = "up" /\ registered # {}
             /\ requests < MaxRequests /\ requests' = requests + 1
             /\ t \notin answered /\ <<t, faults>> \notin pending
             /\ pending' = pending \cup {<<t, faults>>}
             /\ back' = Append(back, Message("process", <<t, faults>>, 0))
             /\ UNCHANGED <<local, futures, sendQ, out, inbox, requestQ, socket, link,
                            registered, answered, faults, missed, lost, history>>

Ping == /\ link = "up" /\ requests < MaxRequests
        /\ requests' = requests + 1
        /\ back' = Append(back, Message("ping", <<"ping", requests>>, 0))
        /\ UNCHANGED <<local, futures, sendQ, out, inbox, requestQ, socket, link,
                       registered, pending, answered, faults, missed, lost, history>>
----------------------------------------------------------------------------
(* What happens as long as there is something to do. The validator submits *)
(* transactions and pings when it likes.                                   *)
Progress ==
    \/ StartMonitor \/ HandleRequest \/ AskState \/ GetState
    \/ OnEvent \/ Registered \/ RegisterRefused
    \/ \E s \in DOMAIN sendQ : SendMessages(s)
    \/ Wake \/ ReceiveMessages
    \/ LinkUp \/ Arrive \/ Serve

Next == \/ monitor.at # "crashed" /\ Progress
        \/ Connect \/ ConnectFails \/ MonitorFails \/ WaitFails \/ LinkDown \/ Ping
        \/ \E t \in Txns : Submit(t)

Spec == Init /\ [][Next]_vars

(* Coroutines that can run are run, the link comes up again, and a         *)
(* validator answers what it gets.                                         *)
FairSpec == Spec /\ WF_vars(monitor.at # "crashed" /\ Progress)

----------------------------------------------------------------------------
(* Properties                                                              *)

Cids == {<<"tp", n>> : n \in 1 .. counter}
Attempts == {<<t, f>> : t \in Txns, f \in 0 .. MaxFaults}

TypeOK ==
    /\ main.at \in {"start", "connected", "unregister", "idle", "apply"}
    /\ main.cid \in Cids \cup {None} /\ main.arg \in Attempts \cup {None}
    /\ monitor.at \in {"idle", "registering", "crashed", "off"} /\ monitor.cid \in Cids \cup {None}
    /\ monitor.arg \in 0 .. Handlers
    /\ {connected, awake, readable, missed} \subseteq BOOLEAN
    /\ onAir \subseteq Cids /\ {m.cid : m \in got} \subseteq Cids
    /\ registered \subseteq 1 .. Handlers
    /\ pending \subseteq Attempts /\ answered \subseteq Txns

(* How many copies of what has this correlation id there are in queues.    *)
Queues == [resp |-> sendQ["resp"], state |-> sendQ["state"], out |-> out, back |-> back,
           inbox |-> inbox, request |-> requestQ]

Places(Q, cid) ==
    UNION {{<<n, i>> : i \in {k \in DOMAIN Q[n] : Q[n][k].cid = cid}} : n \in DOMAIN Q}

Copies(cid) == Cardinality(Places(Queues, cid))

(* Requests and answers are neither dropped nor doubled on their way       *)
(* through the queues and coroutines: a future that waits has one copy of  *)
(* its request or answer somewhere, unless a link broke with it on the     *)
(* wire; a transaction that the validator waits for is in one queue or is  *)
(* the one being applied; and the coroutines wait for futures that are on  *)
(* air or have their own answer. The state is well-formed.                 *)
NothingVanishes ==
    /\ TypeOK
    /\ \A cid \in onAir : cid \notin lost => Copies(cid) = 1
    /\ \A a \in pending : Copies(a) + (IF main.arg = a THEN 1 ELSE 0) = 1
    /\ \A c \in {main.cid, monitor.cid} \ {None} :
          c \in onAir \/ \E m \in got : m.cid = c

(* Process requests are answered in the order in which they arrived, each  *)
(* once and with its own correlation id, whatever became of the link in    *)
(* between.                                                                *)
RepliesInOrder == IsPrefix(replies, asked)

(* The receiver waits for a descriptor that will not become readable while *)
(* there is something to read: a send on the same socket took the signal   *)
(* (receiveop.cpp waits for the descriptor without asking ZeroMQ again).   *)
Deaf == ~awake /\ ~readable /\ inbox # <<>>

Broken == monitor.at = "crashed" \/ Deaf \/ lost # {}

(* A transaction that the validator submits is answered or given up by it, *)
(* unless a break of the link hit a message on the wire, the receiver has  *)
(* gone deaf or the processor has crashed.                                 *)
SubmittedIsAnswered ==
    \A t \in Txns : (\E a \in pending : a[1] = t) ~> (Broken \/ ~\E a \in pending : a[1] = t)

(* The processor registers all of its handlers whenever the link comes up, *)
(* the first time and again after every break, under the same exceptions   *)
(* and one more: nobody listens, as the link came up before the monitor    *)
(* did, or the monitor could not be started or could not receive.          *)
RegistersAgain ==
    link = "up" ~> (Broken \/ missed \/ monitor.at = "off" \/ link = "down"
                       \/ registered = 1 .. Handlers)
==============================================================================
