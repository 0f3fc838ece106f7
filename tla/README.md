# A verification of suil

suil is a C++ framework: libmill coroutines (cooperative, one thread per
process), worker processes forked from a parent that talk through shared memory
and pipes, and on top of them network servers, database clients, an HTTP server,
RPC and a Sawtooth SDK. This directory holds TLA+ models of its core, the TLC
configurations that check them, and TLAPS proofs of their safety for every size. `PROJECT.json` lists the components, the runs, the source lines
behind every definition, the faulty variants that the properties tell apart, the
hazards and the theorems.

    tlc -config IpcPipe.cfg MC_IpcPipe.tla     # a run
    tlapm TicketLockProofs.tla                 # the proofs

## Inventory

All paths are below `src/libs`.

| Part | State | Operations | What is hard | What makes it correct |
|---|---|---|---|---|
| `Lock` (`base/.../ipc.hpp`) | `LockData`: next, serving, on, in shared memory | spinLock with a timeout, unlock, cancel | callers in several processes, timeouts, processes that die, integer widths | exclusion, order, everyone is served |
| Messages (`base/src/ipc.cpp` 450-790) | a pipe and a lock per worker, the handler table | send, asyncSend, broadcast, receiveMessage, registration | a message is several writes; full pipes; exits half way; handlers that come and go | messages arrive whole, once, in order; sends return |
| get and gather (790-976) | inflightGets, SHM_GATHER_LOCK, a static buffer | get, gather, sendGetResponse, the response handler | late answers, reused addresses, suspended sends, workers that start or exit | answers reach their own call; calls return complete |
| Parent and workers (100-450, 730-756) | worker table, `sigReceived`, signalNotif, count of exits | spawn, init, signal handler, waitForSignal, workerWait | signals merge and overwrite one another | the parent stops, and stops last |
| `Channel`, `Sync`, `Conditional` (`base/src/channel.cpp`) | a list of weak pointers to channels | wait, notify, notifyOne, abort | timeouts against notifications, a notifier that blocks in its loop | nobody forgotten, order, no wake-up lost |
| PostgreSQL pool and transactions (`database`) | idle handles with expiry, a cleaner coroutine | connection, free, cleanup, statements, begin, commit, rollback | clients run while the cleaner yields or sleeps; the server's limit | one owner, no open transaction in the pool, idle handles expire |
| SMTP session (`network/src/smtp`) | Session: state, sender, recipients, last bytes | the commands, AUTH, DATA | any segmentation of the data, commands in any order | authentication before mail, the message stored as sent |
| Redis client and pool (`database`) | clients, idle handles, a cleaner | connect, request, transactions | as PostgreSQL | as PostgreSQL |
| net::Server, sockets, ZeroMQ (`network`) | accept loop, sockets, a monitor | accept, handle, send, receive | a descriptor that signals once, shared by two coroutines | every connection handled; nothing left unread |
| HTTP connection (`http/src/server`) | parser, request, response, keep-alive | read, route, answer, offload of bodies, upgrade | any segmentation, pipelining, chunked bodies, errors in a handler | requests handled as sent, one answer each, in order; framing kept; the connection ends |
| HTTP file server | cache, garbage cache, collector | load, reload, serve, collect | a reload under waiting requests; files in flight | no file used after it is closed; garbage ends |
| WebSocket | sockets by endpoint, a mutex each | handshake, frames, broadcast | broadcasts from other workers, close against send | frames are not interleaved; close is answered |
| Router, trie, rules | the rules, the trie | add, optimize, find | parameters that overlap, precedence, parameters shared by the search | the first rule that matches, with its parameters, or none |
| Middlewares, JWT, sessions, forms | one record per request | before, after | order of the chain | before and after pair up |
| HTTP client | a session's headers | request | none concurrent | the response belongs to the request |
| JSON-RPC, suil RPC | ids of calls | call, handle | answers to the wrong call | the id matches |
| Sawtooth: dispatcher, streams, processor | futures by correlation id, queues, a connection monitor | run, registerAll, apply, sendMessages, receiveMessages | coroutines that wait for each other's messages, a link that breaks, a wake-up that is lost | each request answered once and in order; registered whenever the link is up |
| base utilities: JSON, strings, buffers, files, encodings, logging | local | pure or plain I/O | parsers | results |

Interactions. `ipc::send` takes the destination's `Lock` around its writes, and
`gather` takes `SHM_GATHER_LOCK` around its broadcast; `get` and `gather` are
messages whose answers are messages, and wait on a `Channel`. The HTTP and RPC
servers run one coroutine per connection in each worker and share nothing between
workers but what goes through ipc (WebSocket broadcasts). `Conditional` is the
wait of the file server (reload, collector) and of the futures of the Sawtooth streams.
A connection asks the router, the router the trie; middlewares run around the handler. The
Sawtooth processor, its dispatcher and its streams talk through inproc ZeroMQ sockets, and to
the validator through one more. The middlewares take
connections out of the database pools for the time of a request.

## Modules

| Module | Code | Role |
|---|---|---|
| `Mutex` | what a `Lock` promises | abstract specification |
| `TicketLock` | `ipc.hpp`, `Lock` | one action per access to shared memory; refines `Mutex` |
| `TicketLockProofs`, and a module `...Proofs` for each of `IpcPipe`, `IpcGather`, `Conditional`, `PgPool`, `SmtpSession`, `HttpConnection`, `SawtoothTp` | | the inductive invariant, the lemmas and the theorems about the module; `TicketLockProofs` has those of `IpcSupervisor` too |
| `IpcPipe`, `MC_IpcPipe` | send, receiveMessage, handlers | several senders, one destination; uses `Mutex` for its lock |
| `IpcGather`, `MC_IpcGather` | get, gather, sendGetResponse, response handler | on whole messages, as `IpcPipe` shows they arrive |
| `IpcSupervisor` | spawn, init, signals, workerWait | the parent and its children |
| `Conditional` | `channel.cpp` | waiters and notifiers of one thread |
| `PgPool` | `pgsql.cpp`, `pgsql.hpp` | pool, cleaner, statements, transactions |
| `SmtpSession`, `MC_SmtpSession` | `smtp/context.cpp`, `protocol.cpp`, `session.cpp` | one session of the server |
| `RoutesTrie` | `trie.cpp`, `router.cpp` | operators: building, optimizing and searching the trie; a reference matcher |
| `HttpExchange` | what a connection promises its client | abstract specification |
| `HttpConnection`, `MC_HttpConnection` | `connection.cpp`, `connection.hpp`, `request.cpp`, `response.cpp`, `parser.cpp` | one connection, composed with `RoutesTrie`; refines `HttpExchange` |
| `SawtoothTp` | `tp.cpp`, `dispatcher.cpp`, `stream.cpp`, `message.cpp`, `gstate.cpp`, `zmq/monitor.cpp`, `receiveop.cpp` | the transaction processor, its coroutines, the link and the validator |

Definitions whose name has a suffix after an underscore (`Grant_notExact`) are not
part of the models: each is a faulty variant of the definition right after it, with
the mistake in the comment above, and there is one per property that shows that
the property would find it. `PROJECT.json` pairs them.

**State and actions.** In `TicketLock` the variables are the words of `LockData` and
the ticket and program counter of each caller; `Grant`, `Refuse`, `Yield` and
`GiveUp` are one turn of the spin loop, cut at the compare-and-swap and at the
clock. `SignExtend` is the conversion of the `int` ticket to the 64-bit operand of
the compare. In `IpcPipe` a unit is what one `write` puts into the pipe: the header,
or up to PIPE_BUF bytes of the body; EAGAIN is the guard on the room, EPIPE
is `open`. In `IpcGather` a gather takes four kinds of steps, because its broadcast is a
coroutine that every `go()` suspends: `Gather` takes the lock and makes the channel, each `Test` is one
turn of the loop in `asyncBroadcast`, `CountWorkers` leaves the lock and reads `nactive`, and `Collect`
takes one answer. libmill resumes coroutines in order, so that the gather goes on after the first
worker that is asked, and the turns for the others (`untested`) fall anywhere after that, also
after the gather has returned; workers start, are counted and exit in between. A value that is
sent to the channel of a call does not block its handler: the channel buffers 16 (a value beyond
them would wait in its handler's coroutine and is counted as in the channel). A send that suspends in
the answering worker is `blocked` and reads `sendbuf` when it is resumed. In `IpcSupervisor` each test of
`sigReceived` and each action on it are separate steps, because the signal handler runs
between any two instructions; a fork that fails (`ForkFails`) ends spawn, and children that have not come to
`prctl` when the parent exits are not told (`missed`). In `Conditional` and `PgPool` an action runs from one
suspension of a coroutine to the next; in `Conditional` `cpu` marks a
notifier in the middle of its loop, in which nobody else runs. In `PgPool`
the iterator that the pruning loop keeps over its yield stays at the front of the deque,
as it does with libstdc++; `lost` are the connections that `open` made and did not close when it
could not make them non-blocking; `async` is chosen once: an asynchronous statement is sent by one action
and ends in `Answer` or `Fails`, between which others run, and a synchronous one is one action, since it
stops the thread. `dirty` is what the server may still have open, from when BEGIN is sent to when
COMMIT or ROLLBACK is answered or the session is reset; a reset gets its slot of the server back. In `SmtpSession` an action is one turn of
`startSession`; a handler of the application that accepts, refuses or throws is a
disjunction. `received` is what was read of a message and `stored` what is in its file: `Store` may
keep any part of a read, and none when the file could not be opened. In `IpcGather` the `stage` of a worker is its process: `active` is set before it is
counted in `nactive` and starts to read its pipe. In `HttpConnection` a unit of the stream is
what the parser has a callback for: the request line, the rest of the headers, a byte of the
body, a chunk's size line, the last chunk; `ReceiveHeaders` takes any number of units that have
been sent, `ReceiveBody` exactly as many as the code asks for. `OnHead` opens the file of an offloaded
body with what it held before (`setting.old`), because it is neither truncated nor ever removed, and where workers
share the directory (`setting.shared`) `ForeignWrite` is a write of another one with the same
count. `HandleRequest` finds the route; then middlewares and handler make calls on the response in any order
(`AddBody`, `AddChunk`, `ClearContent`, `Merge`, `SetLength`) until `FillEnds` or `FillFails`.
`size` (`_chunksSize`) and the chunks are separate, since `clearContent` drops the one and not the other. The file is
written and read as one array of bytes: what the library that writes it may still hold back when it is
mapped (`offload.cpp:56` does not flush) is not in the repository. A node of
the trie is named by the path to it, so that `gather`, which renumbers nodes, changes nothing. The
vector of parameters that all calls of `find` share is the pair `whole`, `moved` of what a call
returns: `Update` says what is lost once an alternative has moved it out. In `SawtoothTp` the monitor may fail to start or to go on (`monitor.at` is "off"). An action is a step of one
coroutine between two waits, of the ZeroMQ link, or of the validator; a future that has
its answer is in `got`. In `Conditional` the history `older` says which of two waits began
first. Only a history variable (marked so in its declaration)
has no counterpart in the code.

## Runs

| Run | Shows | Bounds |
|---|---|---|
| `ticket_lock` | exclusion, order, refinement of `Mutex`; everyone is served unless a ticket was abandoned or the int overflows; an abandoned ticket stops the lock | 3 callers, one with a timeout; 5 tickets with an 8-valued int, so the last ticket is past half the range |
| `ipc_pipe` | messages arrive whole, in each sender's order, and a fragment is the last thing in the pipe; sends return | 2 senders, 3 messages, with no body and with 2 chunks, a pipe of 2 units: every message with a body blocks half way |
| `ipc_gather` | answers reach their own call, once; late ones are dropped; a gather that returns is complete if those it asked were counted; calls return | 3 workers, a gather with and a get without a timeout by the same worker, 2 channel addresses, 1 worker that is starting, 1 exit; any subset of workers has the handler |
| `ipc_gather_all` (violation) | a gather that returns without the answer of a worker | as above with all workers up, the get has the timeout |
| `ipc_supervisor` | the parent stops last, counts no exit twice, and stops if no two signals collide; the workers of a spawn that failed exit | 3 workers, one termination signal |
| `ipc_supervisor_loop` (violation) | without that condition the parent may never stop | 2 workers |
| `conditional` | no waiter forgotten, order, who may block a notifier; notify wakes all if nobody timed out | 3 waiters, one with a timeout, 2 notifiers, 3 entries |
| `conditional_stale` (violation) | a notification goes to a waiter that is gone | as above |
| `pg_pool` | one owner, no open transaction pooled, idle time bounded from both sides, idle handles end | both modes; 3 clients, 2 connections, so that the limit is met; batches of 2, keep-alive 4, sleep 3, horizon 1 |
| `smtp_session` | authentication before mail, message read as sent and stored as read unless a write failed, its end found, envelope kept | 2 messages out of 3 bodies, reads of any length, 2 recipients |
| `http_connection` | requests are handled as they were sent, with all of a body that is in memory, by the first rule that matches; the body is asked for exactly; answers are framed and implement `HttpExchange`; the connection ends | streams of 1 to 3 requests out of 11 kinds, pipelined or not; 145 URLs against 2 tables of 6 and 7 rules, and 2 tables that are refused; reads of up to 5 units and 2 body bytes, bodies of up to 6 around limits of 3 and 5; responses of up to 2 units of content in the body and in the chunks; an offload file that is new, or holds an older body, shorter or longer, shared or not |
| `sawtooth_tp` | nothing vanishes or doubles; responses in the order of the requests; submitted transactions are answered; handlers are registered again after a break while the monitor runs | 2 transactions, 2 handlers, 1 break of the link, 2 requests of the validator (process or ping), correlation ids and queues unbounded |

Why the bounds are enough. The lock's tickets only matter by their order and their
distance to `serving`. For safety the bounds do not matter: the proofs are without them.
For liveness, two senders
are the least that interleave, and a third would only wait as the second does; a
pipe of two units is shorter than a message, so each full-pipe case is met. Answers cross with two
calls of one worker, which share the worker's `inflightGets` and the answering worker's
buffer; two addresses are one that is reused and one that is not. For a gather and its broadcast three workers are two to ask, so that the answers are counted between them,
one of which may be starting or exit. Three workers
are needed for a signal to be merged while another is under way. A
third waiter is needed to see a stale entry in front of two live ones. In
`PgPool` the ratios between the times are those of the code (keepAlive >= 3000 >
500 + 5) and time is relative, so that no run of the clock is cut off; `Oldest` keeps
the time left of a handle finite below the value that `IdleBounded` excludes. The
bodies of `MC_SmtpSession` are the messages whose bytes look like the terminator. An HTTP request
of up to six units is cut at every place by reads of one to five; two requests are enough for
one to be left over in a read, and a third to see what follows it. The tables of routes have
parameters of every type at the same place, paths that are the start of others, a base, a file
server and a disabled rule; the URLs are all combinations of segments that several of
those types match. One break of the Sawtooth link can hit each of the messages of a
registration and of a transaction, and lets the second transaction follow the break.

### Disagreements with the code's own words

* `sendGetResponse` uses one static buffer over a suspension of `ipc::send`
  (`ipc.cpp:905`): a gather can return without the answer of a worker, against the
  comment at `ipc.cpp:870`.
* The parent's last loop (`ipc.cpp:413`) counts active workers only, so it need not
  end, against the comment at `ipc.cpp:399`.
* `Conditional::wait` leaves its entry behind on a timeout (`channel.cpp:42-50`), so
  that "waiter still active" (`channel.cpp:60`, `79`) is not so.

Other oddities are part of the models and of the hazards: a ticket
abandoned by `spinLock` stops the gather lock for good (`GatherGivesUp` sets `lockLost`);
recipients of one SMTP message stay for the next; an SMTP session whose reads are all
shorter than five bytes never sees the end of a message; RSET leaves a session that
expects recipients without a sender; a worker that is asked by a gather before it is counted, or after the gather has read
`nactive`, answers once too often, so that the gather can return without another answer (`AskedAreCounted`
excepts it); the guarded open, writes and close of a message's file may fail and the message is answered with 250
(`context.cpp:310`, `319`; `lost`); a `PgSqlTransaction` that a failed statement made invalid runs further
statements outside of any transaction (`Statement` has no guard on `valid`), and without `autoCommit` one
that is neither committed nor rolled back is left open in the pool (`NoDirtyReuse` is checked with `autoCommit`, the default). In the HTTP server, a URL that matches a rule with a trailing slash but
for the slash dereferences a null rule (`"crashed"`); a chunked body that is not all in the read
of the headers makes `receiveBody` receive 0 bytes for ever (`"spins"`); pipelined requests
are dropped but for the last one of a read, and the body of a dropped one ends up in front of
the next URL; parameters are missing when an earlier alternative of the search reached the end of the
URL; the Content-Length of an error counts chunks that are not sent, and so does that of a response whose
handler cleared it; a Content-Length set by a handler is not compared with the content; an answer
to HEAD has a body. A handler cannot get a body that was offloaded to a file: `onMessageComplete`
takes `hasBody` from a count that is 0 by then (`request.cpp:589`), so that `readBody` never maps the file
(`BodyOf`). The file of an offloaded body keeps the tail of an earlier body, and two workers may
write to one. A connection to PostgreSQL that cannot be made non-blocking is never closed. In the Sawtooth
processor, a monitor that does not start or stops is not missed: nothing registers the handlers any more; a future whose message was on the wire when the link broke is waited for without a
deadline; `receiveMessages` may sleep with messages to read (`Deaf`); a refused registration
ends the process; a failed connect leads to a wait for coroutines that were never started. The
properties name each of these as an exception and say that there is no other.

## Fairness

Safety properties are checked and proved without it. For liveness: libmill resumes
each coroutine that yielded or whose descriptor or timer is ready (weak fairness of the
actions that continue one); a lock or a channel serves its queue in order, so somebody
who queues is not passed over for ever (strong fairness of `AcquireLock`,
`Resume` and `Return`; the order is `NoOvertaking` for the lock); the kernel schedules
processes, delivers signals, and time passes. Nothing is assumed of the environment:
no fairness makes a caller ask, a process die, a user send a signal or a client free a
connection. In `HttpConnection` only the deadlines of reads and writes are fair, and that
handlers return: the client may stall for ever. In `SawtoothTp` the coroutines together are
fair, the link comes up again and a validator answers what reaches it; it need not submit
anything. TLC evaluates the fairness of a handler on `phase` alone (`HandlerEnds`), which is
enabled exactly when `HandleRequest` is. Conditions on the past that a liveness property needs are in the
property as `[]Undisturbed`, `[](Exited = {})`, `[]Orderly` and `[]NoStale`: they name the
disturbances under which the code promises nothing, each of which is itself reached in the run.

## Proofs

A run shows a property on its small instance; a theorem shows it for every value of the
constants that the module's ASSUME admits. Every safety invariant, every action property and
every refinement that a run checks is a theorem. In each module the
argument is the same: the inductive invariant `IInv`, a conjunction of named parts, holds at
the start (`InitIInv`) and is kept by every step (`NextIInv`, from one lemma per action);
the theorems follow from it. Each `IInv` holds on the instance of its run as well. For
`IpcSupervisor`, which `TicketLockProofs` extends next to `TicketLock` (hence the names
`SpawnInit`, `SpawnSpec` and `at` in it), it is called `Counted`.

| Module | Theorems and the properties they state | Proved for |
|---|---|---|
| `TicketLockProofs` | `Inductive`, `TypeCorrect` (`TypeOK`), `Exclusion` (`MutualExclusion`), `Order` (`NoOvertaking`), `Stop` (`LostTicketStops`), `Refinement` (`ImplementsMutex`) | any callers, any of them with timeouts; tickets within the int, counters at least twice as wide |
| `TicketLockProofs`, on `IpcSupervisor` | `Exits` (`ExitsAccounted`) | any finite set of workers |
| `IpcPipeProofs` | `StateIsTyped` (`TypeOK`), `BodiesAreIntact` (`BodiesIntact`), `SendersAreOrdered` (`SenderOrder`), `NothingFollowsAFragment` (`FragmentIsLast`) | any senders, kinds and numbers of chunks, numbers of messages, a pipe of any capacity |
| `IpcGatherProofs` | `StateIsTyped` (`TypeOK`), `AnswersDoBelong` (`AnswersBelong`), `GatherIsComplete` (`GatherComplete`), `NoneAfterTimeout` (`NoAnswerAfterTimeout`) | any finite set of workers, any calls, addresses and exits |
| `ConditionalProofs` | `WaitersAreReachable` (`WaitersReachable`), `OldestIsFirst` (`OldestFirst`) | any waiters, any of them with timeouts, any notifiers, a list of any length |
| `PgPoolProofs` | `PoolIsSound` (`PoolSound`), `NoneClosedEarly` (`NotClosedEarly`), `NoTransactionLeft` (`NoDirtyReuse`, if `AutoCommit`) | any clients, connections and batches; times in the order of the code's |
| `SmtpSessionProofs` | `MessagesAreFramed` (`MessageFramed`), `AuthenticatedBeforeMail` (`AuthBeforeMail`), `EnvelopeIsKept` (`EnvelopeKept`) | any addresses, any dot-stuffed bodies over any alphabet, reads of any length, any numbers of messages and recipients |
| `HttpConnectionProofs` | `StateIsTyped` (`TypeOK`), `RequestsAreIntact` (`RequestIntact`), `BodiesEnd` (`BodyWithinRequest`), `ResponsesAreFramed` (`FramingKept`), `RequestsAreRouted` (`RouteIsLeast`), `Refinement` (`ImplementsExchange`) | any routes that can be built and any URLs, any streams of requests with bodies of any length, reads and limits of any size |
| `SawtoothTpProofs` | `NothingDoesVanish` (`NothingVanishes`), `RepliesAreInOrder` (`RepliesInOrder`) | any transactions, handlers, requests and breaks of the link |

**The inductive invariants, and why they are needed.**

`TicketLock`. `MutualExclusion` is not inductive: a second caller must be kept from passing
the loop's test. `IInv` adds what keeps it out: the tickets of those who wait or are inside
are distinct and below `next`, none is below `serving`, and whoever is inside
holds the ticket `serving`. Callers that gave up or died while waiting are not
among them, so a lost ticket needs no special case. The lemma `SignExtendSmall`
reduces the comparison of the sign-extended ticket with `serving` to equality of
tickets; `GrantServed` lifts it to the action. `Order` and `Stop` follow
from `IInv` and from the fact that only `Grant` lets somebody in and only `Unlock` moves
`serving`. `Refinement` maps `inside` to those inside, dead ones included, and `open`
to a cancelled lock.

`IpcPipe`. That a body is intact when it is delivered depends on everything still in the
pipe. `Stream` says that the pipe holds whole messages one after the other and that only the
holder of the lock is in the middle of one (`Latest`: its last unit is the end of the pipe);
`InStep` says that the unit the reader expects is the one that comes next, also across an empty
pipe; `Ordered` that headers still to come are later than those that were read. All of it
holds as long as `aligned` does: a header dropped for want of a handler puts the reader out
of step. Of the lock only what `Mutex` promises is used (`Locking`), which is what
`Refinement` shows of the `Lock`.

`IpcGather`. Completeness is a matter of counting. `Enough` says that a call waits for no fewer
values than there are workers it counts on (`awaited`, those running when it read `nactive`, which
`Counts` relates to `nactive`); with `AskedAreCounted` it returns only with as many answers as that, each of
another worker that it asked, so that it has come to all of them, wherever its broadcast was when it
read the number. `Messages` (one message under way for each worker that was asked, which
says whose request it answers) and `Answers` (what is stored was asked for and is no longer
under way) keep one answer from being counted twice, and `Pure` says that all answers of a call are
its own as long as nothing disturbs it. Each part says what it needs:
that SEND_BUF was not refilled, that no worker exited, that nobody was asked who was not counted.

`IpcSupervisor`. A SIGCHLD that is on its way to the count stands for an exit of its own
(`done + Uncounted + Held` is at most the number of the dead), and the loop has reaped a process
for each that it counted; without the second part the last loop, which counts what it reaps, could
count an exit again.

`Conditional`. Whoever waits without a timeout has exactly one entry (`Listing`), entries are in the
order in which the waits began (`Sorted`, over the history `older`), whoever is blocked has no
sender waiting at its channel (`Receiving`), and a notifier is blocked in one send at most
(`Sending`). The order survives a notifier that is suspended in its loop because entries are only
taken at the front.

`PgPool`. `Owned` says without cardinalities that each connection is in one place, `lost` being one of them. `Timely` says
that the deque is sorted by expiry and that the cleaner wakes before the front is late: this is
where the assumption MinSleep > Horizon + Slack is needed (3000 > 500 + 5 in the code). `NoTransactionLeft` needs `AutoCommit`: without it a transaction that is neither
committed nor rolled back goes back to the pool, as the code has it.

`SmtpSession`. The window of the last five bytes is not cleared between messages, so `Framed`
speaks of `Seen`, the data received with the end of the message before in front: the window holds its last
bytes (`IsLast`), whether or not they were stored. Hence the assumption on the bodies: in CR LF, the body and the terminator, the
terminator occurs at the end only, which is what dot stuffing by the client guarantees.

`HttpConnection`. What a handler is given depends on where in the stream each read ended.
`Parsed` says it, of the parser and the number of units read: `Known` that its flags fit its
state, `Turn` that requests are begun in the order of the stream (and by a client that waits,
one by one), `Place` at which unit of the request it is and that the body so far is what it has in the
stage, or in the file over what that held (`Over`) if no other worker wrote there. `Place` is void once there is an error, which is answered and ends the
connection. A read that drops whole requests leaves a body in the stage, which is the exception of
`RequestIntact`. `Phases` ties the loop to the flags: the body is read when there is more of it, the
handler called when there is not. `Sound` says that the sizes of a response are those of its content as long as there is no error and no handler
has taken chunks back or set the length; `Answered` says that what was answered so far was framed, or is one of those
exceptions or the answer to HEAD; hence an error whose length is wrong is the last answer. The stream is laid out by a recursive function over the
requests (`Row`: which unit is at which place), and a read is one over its units, of which `Parsed`
is an invariant. Both are inductions: `AllNats`, from the well-foundedness of `<`, states the one
they need as a fact on sets of numbers. `Refinement` maps the answers to the numbers of their
requests and `open` to the phases that go on; `Turn` is what makes an answer that of the
next request, or of a later one.

`RoutesTrie`. `RequestsAreRouted` needs of the connection only that its trie is that of its rules
(`Routed`); the rest is about `Find`. A node found by the search stands for `EndsOf`, the nodes below
it whose paths match the URL. What `find` tries at a node (`Alternatives`) splits that set:
each alternative leads to one node at most and further into the URL (`AlternativesLead`), no end is
behind two of them, and each end with an index is behind one (`AlternativesSplit`). The last holds because
`optimize` merges children only as long as all of them are simple, and so
passes no node with an index or a parameter (`FragmentsLead`). `FoundIn` says what a call may return for a set of
ends: the least of their indices, and the end of that path's parameters, all of them when it is the only one.
`UpdateFinds` shows that `Update` keeps it, `UpdatesFind` that the list of alternatives does, by induction on the list,
and `SearchFinds` that `Search` does, by induction on what is left of the URL. Two paths may
share index 1, those that lost their trailing slash, so that the least may be more than one;
all other indices are of one path.

`SawtoothTp`. `UnderWay` says that no correlation id is twice in the six queues and that
what is waited for is in one of them; new ids are new by `Issued`. `InOrder` splits `asked` into what
was replied to, is being applied, waits in `requestQ`, and is in `inbox` between other messages
(`Follows`: an increasing function to the places of the requests in it).

**Assumptions.** Those of the modules, which TLC evaluates in every run: besides the ranges of
numbers, that sets which are counted are finite, that the paths of rules are not empty, that a request without Content-Length or
chunks has no body, and that the value for nothing (`None`) and
the correlation ids of the processor are not names of connections, notifiers or
transactions. No theorem assumes fairness: `Spec` is without it and `FairSpec`, which implies it, is
what the runs with liveness properties check.

**Only model-checked.** All liveness properties, which are out of the prover's reach, as is
everything with ENABLED. The three runs that end in a
violation.

## Not modelled, and why

See `components` in `PROJECT.json` for each part. Much of the repository's volume is not
this program's logic: the generated HTTP parser (`http/src/llhttp`, a quarter of all
lines; the order of its callbacks is in `HttpConnection`), vendored headers, the JSON and mustache implementations, generators and examples.
Encodings, parsers, templates and logging are sequential and best tested; sockets are I/O; ORM and
generators produce text. In modelled parts these are left out: a child
that is stopped by SIGSTOP, a post-spawn delegate that returns a signal of its own, the
destruction of a `PgSqlDb` under its cleaner and a pool without expiry, a deque whose iterators do not survive the cleaner's yield, SMTP commands that only
reply (and HELP, whose handler calls itself), the lifetime of stack buffers, what the individual
HTTP middlewares do, cookies, forms and query strings, floating point rounding in routes, and
the exit signal of the Sawtooth processor, which waits in signal context.

## Plan

Written so far: `Mutex`, `TicketLock`, the modules that use the lock
(`IpcPipe`, `IpcGather`), `IpcSupervisor`, `Conditional`, `PgPool`, `SmtpSession`, then
`RoutesTrie` and `HttpConnection` with `HttpExchange`, and `SawtoothTp`; and the proofs of the
safety of all of them.

1. Proofs: what a call of `get` or `gather` promises as an abstract specification that
   `IpcGather` implements, so that its users need not read it; the same for `Conditional`.
2. `FileCache`: the file server's cache, reload, waiters and collector, on top of what
   `Conditional` promises. Properties: a file that is served is open, garbage is collected,
   the accounted size is the size of what is cached. Bounds: 2 files, 3 requests.
3. The Redis pool next to `PgPool`, a client for `SmtpSession`, WebSocket broadcasts over
   `IpcPipe`.
