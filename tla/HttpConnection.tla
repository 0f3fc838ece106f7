--------------------------- MODULE HttpConnection ----------------------------
(***************************************************************************)
(* A connection of the HTTP server: ConnectionImpl                         *)
(* (libs/http/src/server/connection.cpp) reads a request, lets the router, *)
(* the middlewares and the handler of the route fill a response and sends  *)
(* it; the request is an HttpParser (libs/http/src/parser.cpp,             *)
(* libs/http/src/server/request.cpp) around the vendored llhttp. The       *)
(* client is external: it sends the units of its stream in order, and it   *)
(* may stall or go away at any time.                                       *)
(*                                                                         *)
(* A request is [url, method, body, coding, close, upgrade, bad]; coding   *)
(* is "none", "length" or "chunked" (one chunk). A body has no unit in it  *)
(* that the parser could take for something else: one byte is one unit.    *)
(***************************************************************************)
EXTENDS RoutesTrie

CONSTANTS
    Settings,         \* what a connection may meet: [table, stream, pipelined, disk, old, shared]
    MaxRequests,      \* the most requests of a stream
    HeaderRead,       \* the most units one read of the headers returns
    BodyRead,         \* the most bytes one read of the body asks for
    MaxBodyLen,       \* config.maxBodyLen
    DiskOffloadMin,   \* config.diskOffloadMin
    MaxContent        \* bound: what handlers and middlewares add to a response

Message == [url : Seq(STRING), method : STRING, body : Seq(STRING),
            coding : {"none", "length", "chunked"},
            close : BOOLEAN, upgrade : BOOLEAN, bad : BOOLEAN]

(* internalAddRule looks at the last character of a path.                  *)
Rules == [path : Seq(STRING) \ {<<>>}, methods : SUBSET STRING, enabled : BOOLEAN]

ASSUME HttpAssumption ==
    /\ \A s \in Settings :
          /\ s.stream \in Seq(Message) /\ Len(s.stream) <= MaxRequests
          /\ \A i \in DOMAIN s.stream :
                s.stream[i].coding = "none" => s.stream[i].body = <<>>
          /\ s.pipelined \in BOOLEAN /\ s.shared \in BOOLEAN
          /\ s.old \in Seq(STRING)
          /\ s.table.base \in Seq(STRING)
          /\ s.table.rules \in Seq(Rules)
    /\ MaxRequests \in Nat
    /\ {HeaderRead, BodyRead, MaxContent} \subseteq Nat \ {0}
    /\ {MaxBodyLen, DiskOffloadMin} \subseteq Nat

VARIABLES
    setting,   \* the routes, the stream, the client and the disk of this connection
    trie,      \* Router::_trie
    phase,     \* where ConnectionImpl::start is
    fed,       \* units of the stream read so far
    req,       \* the request and its parser
    resp,      \* the response
    answers    \* history: the responses written in full

vars == <<setting, trie, phase, fed, req, resp, answers>>

----------------------------------------------------------------------------
(* The stream of the client.                                               *)

Unit(i, part, text) == [req |-> i, part |-> part, text |-> text]

UnitsOf(stream, i) ==
    LET r    == stream[i]
        data == [k \in DOMAIN r.body |-> Unit(i, "data", r.body[k])]
    IN  <<Unit(i, "line", "none"), Unit(i, "head", "none")>> \o
        (IF r.coding # "chunked" THEN data
         ELSE (IF data = <<>> THEN data ELSE <<Unit(i, "size", "none")>> \o data)
              \o <<Unit(i, "last", "none")>>)

(* The units of the first i requests, and of all of them.                  *)
UnitsTo(stream) ==
    LET to[i \in 0 .. Len(stream)] ==
            IF i = 0 THEN <<>> ELSE to[i - 1] \o UnitsOf(stream, i)
    IN  to

Units(stream) == UnitsTo(stream)[Len(stream)]

(* The places in the stream of the units that have been sent and not been  *)
(* read, and the n units that come next.                                   *)
Sent == LET all == Units(setting.stream)
        IN  {k \in fed + 1 .. Len(all) :
                setting.pipelined \/ all[k].req <= Len(answers) + 1}

Coming(k) == SubSeq(Units(setting.stream), fed + 1, fed + k)

Request(i) == setting.stream[i]

----------------------------------------------------------------------------
(* HttpParser and Request. "at" is what llhttp expects next, "left" the    *)
(* bytes it expects of the body or of the chunk (content_length). The      *)
(* stage is the buffer shared by the URL, the headers and the body.        *)

NewRequest == [cur |-> 0, at |-> "line", url |-> <<>>, stage |-> <<>>, hdr |-> FALSE,
               done |-> FALSE, left |-> 0, offload |-> FALSE, file |-> <<>>,
               foreign |-> FALSE, err |-> "none", paused |-> FALSE]

\* the stage is left alone
Clear_stage(q) == [q EXCEPT !.hdr = FALSE, !.done = FALSE, !.url = <<>>,
                            !.offload = FALSE, !.file = <<>>, !.foreign = FALSE]

\* nothing is cleared
Clear_none(q) == q

(* Request::clear closes the file, which stays on the disk.                *)
Clear(q) == [q EXCEPT !.hdr = FALSE, !.done = FALSE, !.url = <<>>, !.stage = <<>>,
                      !.offload = FALSE, !.file = <<>>, !.foreign = FALSE]

(* onUrl: the query string is cut off.                                     *)
PathOf(url) == LET marks == {i \in DOMAIN url : url[i] = "?"}
               IN  IF marks = {} THEN url ELSE SubSeq(url, 1, Min(marks) - 1)

(* on_message_begin clears the request but for the stage, to which on_url  *)
(* appends and which on_url_complete takes out.                            *)
OnLine(q, u) ==
    [Clear(q) EXCEPT !.cur = u.req, !.at = "head",
                     !.url = PathOf(q.stage \o Request(u.req).url)]

(* on_msg_complete; after the message of an upgrade llhttp pauses and the  *)
(* rest of the read is dropped.                                            *)
Complete(q) == [q EXCEPT !.done = TRUE, !.at = "line", !.left = 0,
                         !.paused = Request(q.cur).upgrade]

\* the whole Content-Length is asked for once the headers are there
OnData_whole(q, u) ==
    LET next == [q EXCEPT !.file  = IF q.offload THEN Append(@, u.text) ELSE @,
                          !.stage = IF q.offload THEN @ ELSE Append(@, u.text)]
    IN  IF Len(next.file \o next.stage) = Len(Request(q.cur).body) THEN Complete(next) ELSE next

(* onHeadersComplete: limits are for bodies that have a Content-Length.    *)
(* The file of an offloaded body is opened with what it holds: the number  *)
(* in its name starts at 0 in every process, and no file is ever truncated *)
(* or removed.                                                             *)
OnHead(q) ==
    LET r     == Request(q.cur)
        len   == IF r.coding = "length" THEN Len(r.body) ELSE 0
        spill == len > DiskOffloadMin
    IN  IF r.bad THEN [q EXCEPT !.err = "BadRequest"]
        ELSE IF len > MaxBodyLen THEN [q EXCEPT !.err = "RequestEntityTooLarge"]
        ELSE IF spill /\ setting.disk = "open fails" THEN [q EXCEPT !.err = "InternalError"]
        ELSE IF r.coding = "chunked" THEN [q EXCEPT !.hdr = TRUE, !.at = "chunk", !.left = 0]
        ELSE IF len = 0 THEN Complete([q EXCEPT !.hdr = TRUE])
        ELSE [q EXCEPT !.hdr = TRUE, !.at = "data", !.left = len, !.offload = spill,
                            !.file = IF spill THEN setting.old ELSE <<>>]

(* A byte written to a file at place i, at its end at the furthest.        *)
Overwrite(file, i, byte) ==
    IF i <= Len(file) THEN [file EXCEPT ![i] = byte] ELSE Append(file, byte)

(* A body written from the start of a file: the rest of the file stays.    *)
Over(body, file) == body \o SubSeq(file, Len(body) + 1, Len(file))

(* onBodyPart: the file is written from its start.                         *)
OnData(q, u) ==
    LET place == Len(Request(q.cur).body) - q.left + 1
        next == [q EXCEPT !.left = @ - 1,
                          !.file  = IF q.offload THEN Overwrite(@, place, u.text) ELSE @,
                          !.stage = IF q.offload THEN @ ELSE Append(@, u.text)]
    IN  IF q.offload /\ setting.disk = "write fails" THEN [q EXCEPT !.err = "BadRequest"]
        ELSE IF q.left > 1 THEN next
        ELSE IF Request(q.cur).coding = "chunked" THEN [next EXCEPT !.at = "chunk"]
        ELSE Complete(next)

FeedUnit(q, u) ==
    IF q.err # "none" \/ q.paused THEN q
    ELSE CASE u.part = "line" /\ q.at = "line"  -> OnLine(q, u)
           [] u.part = "head" /\ q.at = "head"  -> OnHead(q)
           [] u.part = "data" /\ q.at = "data"  -> OnData(q, u)
           [] u.part = "size" /\ q.at = "chunk" ->
                 [q EXCEPT !.at = "data", !.left = Len(Request(q.cur).body)]
           [] u.part = "last" /\ q.at = "chunk" -> Complete(q)
           [] OTHER                             -> [q EXCEPT !.err = "BadRequest"]

(* HttpParser::feed; the parser is resumed after an upgrade.               *)
Feed(q, units) ==
    LET after[k \in 0 .. Len(units)] ==
            IF k = 0 THEN q ELSE FeedUnit(after[k - 1], units[k])
    IN  [after[Len(units)] EXCEPT !.paused = FALSE]

(* What a handler can get of the body: readBody tells from hasBody, which  *)
(* onMessageComplete takes from the content_length that is left; body and  *)
(* toJson see of the file what readBody has mapped of it.                  *)
ReadBody(q) == IF q.left = 0 THEN <<>> ELSE IF q.offload THEN q.file ELSE q.stage

BodyOf(q) == IF q.offload THEN ReadBody(q) ELSE q.stage

----------------------------------------------------------------------------
(* Responses: the units of content in the body and in the chunks. "size"   *)
(* is Response::_chunksSize, which has its own life, "length" the header   *)
(* Content-Length that a handler has set.                                  *)

NoLength == -1

NoResponse == [status |-> "Ok", body |-> 0, chunks |-> 0, size |-> 0, length |-> NoLength,
               err |-> FALSE, touched |-> FALSE]

Failure(status, body) == [NoResponse EXCEPT !.status = status, !.body = body, !.err = TRUE]

\* the error is not recorded
HttpError_kept(r, status) == [r EXCEPT !.status = status, !.body = 1, !.chunks = 0]

(* The response r when handleRequest ends in an HttpError: the chunks go,  *)
(* their size and the headers stay, the text of the status is the body.    *)
HttpError(r, status) ==
    [r EXCEPT !.status = status, !.body = 1, !.chunks = 0, !.err = TRUE]

(* ... and when it ends in any other exception.                            *)
Unhandled(r) ==
    [r EXCEPT !.status = "InternalError", !.body = 0, !.chunks = 0, !.err = TRUE]

NumParams(path) == Len(SelectSeq(path, IsParam))

(* Router::handle: a handler is not reached by a method its rule does not  *)
(* have, nor when parameters are missing (IndexOutOfBounds).               *)
Reached(route) ==
    LET rule == setting.table.rules[route.index - 1]
    IN  /\ Request(req.cur).method \in rule.methods \cup {"GET"}
        /\ Len(route.params) >= NumParams(rule.path)

----------------------------------------------------------------------------
(* ConnectionImpl::start                                                   *)

(* The rules are added and validated before the server listens.            *)
Init == /\ setting \in Settings
        /\ IF CanBuild(setting.table.rules)
           THEN phase = "headers" /\ trie = Trie(setting.table.rules)
           ELSE phase = "refused" /\ trie = Trie(<<>>)
        /\ fed = 0
        /\ req = NewRequest /\ resp = NoResponse /\ answers = <<>>

(* The answer to a request that cannot be read.                            *)
Refuse(status) == /\ phase' = "send"
                  /\ resp' = Failure(status, IF status = "BadRequest" THEN 0 ELSE 1)

(* Another worker has opened the file of this body under the same name,    *)
(* and writes a byte of its own to it.                                     *)
ForeignWrite ==
    /\ setting.shared /\ req.offload /\ phase \in {"body", "handle", "fill"}
    /\ \E i \in 1 .. Min({Len(req.file) + 1, MaxBodyLen}) :
          req' = [req EXCEPT !.file = Overwrite(@, i, "other"), !.foreign = TRUE]
    /\ UNCHANGED <<setting, trie, phase, fed, resp, answers>>

(* receiveHeaders: one read, whatever it holds.                            *)
ReceiveHeaders ==
    /\ phase = "headers"
    /\ \E k \in 1 .. HeaderRead :
          LET q == Feed(req, Coming(k))
          IN  /\ fed + k \in Sent
              /\ fed' = fed + k
              /\ req' = q
              /\ IF q.err # "none" THEN Refuse(q.err)
                 ELSE /\ phase' = IF ~q.hdr THEN "headers" ELSE IF q.done THEN "handle" ELSE "body"
                      /\ UNCHANGED resp
    /\ UNCHANGED <<setting, trie, answers>>

(* receiveBody asks for exactly what is left of the body, or of the chunk  *)
(* that the read of the headers ended in.                                  *)
ReceiveBody ==
    /\ phase = "body" /\ req.left > 0
    /\ LET k == Min({BodyRead, req.left})
           q == Feed(req, Coming(k))
       IN  /\ fed + k \in Sent
           /\ fed' = fed + k
           /\ req' = q
           /\ IF q.err # "none" THEN Refuse(q.err)
              ELSE /\ phase' = IF q.done THEN "handle" ELSE "body"
                   /\ UNCHANGED resp
    /\ UNCHANGED <<setting, trie, answers>>

(* With nothing left of a chunk, the loop receives 0 bytes over and over,  *)
(* which neither waits nor fails.                                          *)
ReceiveNothing ==
    /\ phase = "body" /\ req.left = 0
    /\ phase' = "spins"
    /\ UNCHANGED <<setting, trie, fed, req, resp, answers>>

Reading == phase = "headers" \/ (phase = "body" /\ req.left > 0)

\* the body is read without a deadline
ReceiveEnds_body == /\ phase = "headers"
                    /\ phase' = "closed"
                    /\ UNCHANGED <<setting, trie, fed, req, resp, answers>>

(* A read that times out, or finds that the client is gone (the socket is  *)
(* closed), ends the connection without an answer.                         *)
ReceiveEnds == /\ Reading
               /\ phase' = "closed"
               /\ UNCHANGED <<setting, trie, fed, req, resp, answers>>

(* A read that fails otherwise is answered.                                *)
ReceiveFails == /\ Reading
                /\ Refuse("InternalError")
                /\ UNCHANGED <<setting, trie, fed, req, answers>>

(* handleRequest: the route is looked up.                                  *)
FoundRoute == RouteOf(setting.table, trie, req.url)

HandleRequest ==
    /\ phase = "handle"
    /\ CASE FoundRoute.ends = "NotFound" ->
                phase' = "send" /\ resp' = HttpError(NoResponse, "NotFound")
         [] FoundRoute.ends = "Crash"    -> phase' = "crashed" /\ UNCHANGED resp
         [] FoundRoute.ends = "Rule"     -> phase' = "fill" /\ resp' = NoResponse
    /\ UNCHANGED <<setting, trie, fed, req, answers>>

(* Then the middlewares, the handler and again the middlewares fill the    *)
(* response, by any of these calls in any order.                           *)
Fill(r) == /\ phase = "fill" /\ resp' = r
           /\ UNCHANGED <<setting, trie, phase, fed, req, answers>>

(* Text is appended to the body.                                           *)
AddBody == resp.body < MaxContent /\ Fill([resp EXCEPT !.body = @ + 1])

(* Response::chunk; append and end turn the body into a chunk before it.   *)
AddChunk ==
    \E moved \in {0, resp.body} :
        /\ resp.size + moved < MaxContent
        /\ Fill([resp EXCEPT !.body = @ - moved, !.chunks = @ + moved + 1,
                             !.size = @ + moved + 1])

(* clearContent, and clear, which drops the headers too: the chunks go,    *)
(* their size stays.                                                       *)
ClearContent ==
    \E kept \in {resp.length, NoLength} :
        Fill([resp EXCEPT !.body = 0, !.chunks = 0, !.length = kept,
                          !.touched = @ \/ resp.chunks > 0])

\* the size is not taken over
Merge_keepsSize == \E body, chunks \in 0 .. 1 :
                       Fill([resp EXCEPT !.body = body, !.chunks = chunks])

(* merge: a handler returns its response.                                  *)
Merge == \E body, chunks \in 0 .. 1 :
            Fill([resp EXCEPT !.body = body, !.chunks = chunks, !.size = chunks])

(* A header keeps the value it was given first.                            *)
SetLength == /\ resp.length = NoLength
             /\ \E length \in 0 .. MaxContent :
                   Fill([resp EXCEPT !.length = length, !.touched = TRUE])

(* The response is complete, or an upgrade by the handler.                 *)
FillEnds ==
    /\ phase = "fill" /\ phase' = "send"
    /\ \/ resp' = [resp EXCEPT !.status = "Ok"]
       \/ /\ Request(req.cur).upgrade /\ Reached(FoundRoute)
          /\ resp' = [resp EXCEPT !.status = "SwitchingProtocols"]
    /\ UNCHANGED <<setting, trie, fed, req, answers>>

(* A handler that is not reached, or a handler or a middleware that        *)
(* throws. The exceptions of a handler become HttpErrors in the router.    *)
FillFails ==
    /\ phase = "fill" /\ phase' = "send"
    /\ \/ \E status \in {"NotFound", "InternalError"} : resp' = HttpError(resp, status)
       \/ resp' = Unhandled(resp)
    /\ UNCHANGED <<setting, trie, fed, req, answers>>

(* sendResponse and the rest of the loop. The answer is for the request    *)
(* that has been begun; 0 if there is none.                                *)
Asked == IF req.hdr \/ req.at = "head" THEN req.cur ELSE 0

AskedHead == Asked # 0 /\ Request(Asked).method = "HEAD"

Declared == IF resp.length # NoLength THEN resp.length ELSE resp.body + resp.size
Written  == resp.body + resp.chunks

(* The client takes for the response what belongs to it: nothing follows   *)
(* the headers of the answer to HEAD.                                      *)
Framed == Written = IF AskedHead THEN 0 ELSE Declared

SendResponse ==
    /\ phase = "send"
    /\ answers' = Append(answers, [req |-> Asked, err |-> resp.err, touched |-> resp.touched,
                                   head |-> AskedHead, framed |-> Framed])
    /\ phase' = IF resp.status = "SwitchingProtocols" THEN "upgraded"
                ELSE IF resp.err \/ Request(req.cur).close THEN "closed"
                ELSE "headers"
    /\ req' = Clear(req)
    /\ resp' = NoResponse
    /\ UNCHANGED <<setting, trie, fed>>

(* The client is gone, or does not read in time: the response is cleared,  *)
(* its status too, so the handler of an upgrade is not called.             *)
SendFails == /\ phase = "send"
             /\ phase' = "closed"
             /\ UNCHANGED <<setting, trie, fed, req, resp, answers>>

(* The new protocol has the socket until it ends.                          *)
UpgradeEnds == /\ phase = "upgraded"
               /\ phase' = "closed"
               /\ UNCHANGED <<setting, trie, fed, req, resp, answers>>

Next == \/ ReceiveHeaders \/ ReceiveBody \/ ReceiveNothing \/ ReceiveEnds
        \/ ReceiveFails \/ ForeignWrite \/ HandleRequest
        \/ AddBody \/ AddChunk \/ ClearContent \/ Merge \/ SetLength \/ FillEnds \/ FillFails
        \/ SendResponse \/ SendFails \/ UpgradeEnds

(* Every read and every write has a deadline, the loop that receives       *)
(* nothing does not wait, and handlers return or throw. Nothing is assumed *)
(* of the client.                                                          *)
HandlerEnds == \/ phase = "handle" /\ phase' \in {"fill", "send", "crashed"}
               \/ phase = "fill" /\ phase' = "send"

Fairness == /\ WF_vars(ReceiveEnds) /\ WF_vars(ReceiveNothing)
            /\ WF_vars(SendFails)   /\ WF_phase(HandlerEnds)

Spec == Init /\ [][Next]_vars /\ Fairness
----------------------------------------------------------------------------
(* Properties                                                              *)

Ended == {"closed", "refused", "crashed", "spins", "upgraded"}

TypeOK ==
    /\ phase \in Ended \cup {"headers", "body", "handle", "fill", "send"}
    /\ fed \in 0 .. Len(Units(setting.stream))
    /\ req.cur \in 0 .. Len(setting.stream)
    /\ req.at \in {"line", "head", "data", "chunk"} /\ req.left \in Nat
    /\ {req.hdr, req.done, req.offload, req.foreign, req.paused} \subseteq BOOLEAN
    /\ resp.status \in {"Ok", "SwitchingProtocols", "BadRequest", "NotFound", "InternalError",
                       "RequestEntityTooLarge"}
    /\ {resp.body, resp.size} \subseteq Nat /\ resp.chunks \in 0 .. resp.size
    /\ resp.length \in Nat \cup {NoLength}
    /\ {resp.err, resp.touched} \subseteq BOOLEAN
    /\ \A i \in DOMAIN answers : answers[i].req \in 0 .. Len(setting.stream)

(* A request that is handled is the one that was sent, however its units   *)
(* were spread over the reads. Its body is all in the stage, or all in the *)
(* file, where the rest of what the file held before follows a body that   *)
(* is shorter; only another worker that has the same file can change it.   *)
(* The handler can get all of a body in the stage and nothing of one in    *)
(* the file: it is never mapped.                                           *)
(* Its URL is exact, but from a client that does not wait: what is left in *)
(* the stage of a request that was dropped, its body, comes in front of    *)
(* the URL (parser.cpp clears no stage between two messages of one read).  *)
RequestIntact ==
    phase \in {"handle", "fill"} =>
        LET r == Request(req.cur)
            leftovers == {<<>>} \cup {setting.stream[i].body : i \in 1 .. req.cur - 1}
        IN  /\ IF ~req.offload THEN req.stage = r.body
               ELSE req.foreign \/ req.file = Over(r.body, setting.old)
            /\ req.foreign => setting.shared
            /\ BodyOf(req) = IF req.offload THEN <<>> ELSE r.body
            /\ \/ req.url = PathOf(r.url)
               \/ setting.pipelined /\ \E b \in leftovers : req.url = PathOf(b \o r.url)

(* receiveBody never asks for more than the client sends: the bytes it     *)
(* waits for are units of the body that follow in the stream, so the       *)
(* request cannot time out for want of bytes that do not exist. It gets    *)
(* stuck (spins) for chunked requests only.                                *)
BodyWithinRequest ==
    /\ phase = "body" =>
          LET all == Units(setting.stream)
          IN  \A k \in 1 .. req.left :
                 fed + k \in DOMAIN all /\ all[fed + k].req = req.cur
                                       /\ all[fed + k].part = "data"
    /\ phase = "spins" => Request(req.cur).coding = "chunked"

(* The rule that handles a request is the one added first of those whose   *)
(* paths match its URL, after optimize as before it (updateFound keeps the *)
(* smallest index; only paths that lead to no rule share one). Its         *)
(* parameters are those of the match when the path to no other node        *)
(* matches the URL; otherwise leading ones may be missing, as the vector   *)
(* was moved out before.                                                   *)
RouteIsLeast ==
    phase = "handle" =>
        LET url   == Target(setting.table, req.url)
            fits  == {e \in Entries(setting.table.rules) : Matches(e.path, url)}
            least == {e \in fits : \A f \in fits : e.index <= f.index}
            ends  == {n \in Nodes(setting.table.rules) : Matches(n, url)}
            route == RouteOf(setting.table, trie, req.url)
        IN  IF fits = {} THEN route.index = 0
            ELSE \E e \in least :
                    LET all == Match(e.path, url).params
                    IN  /\ route.index = e.index
                        /\ \E i \in 0 .. Len(all) : route.params = SubSeq(all, i + 1, Len(all))
                        /\ ends = {e.path} => route.params = all

(* A client can tell where a response ends: Content-Length is what was     *)
(* sent. Exceptions are the last answer of the connection, to a handler    *)
(* that threw after it had added chunks (the size of the chunks is not     *)
(* reset) or set the length; a response whose handler took chunks back or  *)
(* set Content-Length by itself; and the answer to HEAD, from which the    *)
(* content is not taken.                                                   *)
FramingKept ==
    \A i \in DOMAIN answers :
        LET a == answers[i]
        IN  a.framed \/ a.touched \/ a.head \/ (a.err /\ i = Len(answers) /\ phase = "closed")

(* Every connection ends, whatever the client does: reads have a deadline. *)
ConnectionEnds == <>(phase \in Ended)

(* The promise to the client, see HttpExchange.                            *)
Exchange == INSTANCE HttpExchange
                WITH Requests <- 1 .. MaxRequests,
                     waits <- ~setting.pipelined,
                     answered <- [i \in DOMAIN answers |-> answers[i].req],
                     open <- phase \notin Ended

ImplementsExchange == Exchange!Spec
==============================================================================
