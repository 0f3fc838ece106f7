--------------------------- MODULE IpcGatherProofs ----------------------------
(***************************************************************************)
(* What holds of get and gather for any number of workers, calls, channel  *)
(* addresses and exits.                                                    *)
(***************************************************************************)
EXTENDS IpcGather, FiniteSetTheorems, SequenceTheorems, TLAPS

Places  == Addresses \cup {None}
Points  == {"idle", "locked", "waiting", "returned", "timedOut", "failed", "gone"}
Data    == [req : Requests, by : Workers]
MsgType == [type : {"ask", "answer"}, slot : Requests \X Workers, to : Workers,
            by : Workers, req : Requests, addr : Places]

Types ==
    /\ handlers \subseteq Workers
    /\ stage \in [Workers -> {"forked", "active", "counted", "exited", "reaped"}]
    /\ nactive \in Nat
    /\ pc \in [Requests -> Points]
    /\ clock \in [Requests -> {"far", "near", "past"}]
    /\ chan \in [Requests -> Places]
    /\ need \in [Requests -> Int] /\ taken \in [Requests -> Nat]
    /\ data \in [Requests -> Seq(Data)]
    /\ untested \in [Requests -> SUBSET Workers]
    /\ asked \in [Requests -> SUBSET Workers] /\ awaited \in [Requests -> SUBSET Workers]
    /\ net \subseteq MsgType /\ blocked \subseteq MsgType
    /\ sendbuf \in [Workers -> [req : Requests \cup {None}, addr : Places]]
    /\ clobbered \in BOOLEAN

(* nactive counts the running workers, and perhaps some that exited.       *)
Counts ==
    /\ Cardinality(running) <= nactive /\ nactive <= Cardinality(running \cup gone)
    /\ Cardinality(gone) <= MaxExits
    /\ \A r \in Requests : need[r] <= nactive + Cardinality(gone)

(* A call that lives has an address for itself; it returns when it needs   *)
(* nothing more. Its broadcast tests every worker once.                    *)
Alive(r) == pc[r] \in {"locked", "waiting"}

Call(r) ==
    /\ pc[r] = "idle" => taken[r] = 0 /\ data[r] = <<>> /\ need[r] <= 0
    /\ pc[r] \in {"idle", "failed"} => asked[r] = {} /\ untested[r] = {}
    /\ pc[r] = "locked" => taken[r] = 0
    /\ pc[r] = "waiting" => need[r] # 0
    /\ pc[r] = "returned" => need[r] = 0
    /\ pc[r] = "timedOut" => clock[r] = "past"
    /\ pc[r] = "gone" => Owner[r] \in gone
    /\ taken[r] <= Len(data[r])
    /\ untested[r] \subseteq Workers \ (asked[r] \cup {Owner[r]})

Calls ==
    /\ \A r \in Requests : Call(r)
    /\ \A r, q \in Requests :
          Alive(r) /\ Alive(q) /\ Owner[r] = Owner[q] /\ chan[r] = chan[q] => r = q

(* A message says whose request it is, or whose request it answers, as     *)
(* long as SEND_BUF is not refilled too early.                             *)
True(m) ==
    /\ m.to \in running \cup uncounted
    /\ pc[m.slot[1]] \notin {"idle", "failed"} /\ m.slot[2] \in asked[m.slot[1]]
    /\ m.type = "ask" => /\ m.req = m.slot[1] /\ m.to = m.slot[2]
                         /\ m.by = Owner[m.req] /\ m.addr = chan[m.req]
    /\ m.type = "answer" => /\ m.to = Owner[m.slot[1]] /\ m.by = m.slot[2]
                            /\ ~ clobbered => m.req = m.slot[1] /\ m.addr = chan[m.req]

(* There is one message under way for a worker that was asked, at most.    *)
Messages ==
    /\ \A m \in net \cup blocked : True(m)
    /\ \A m \in blocked : /\ m.type = "ask" /\ sendbuf[m.to].req \in Requests
                          /\ ~ clobbered => sendbuf[m.to] = Payload(m)
    /\ \A m \in net : m \notin blocked
    /\ \A m, n \in net \cup blocked : m.slot = n.slot => m = n

(* The workers whose answer the call has stored, and those that may still  *)
(* answer.                                                                 *)
Own(r)      == {t \in Workers : \E i \in DOMAIN data[r] : data[r][i].req = r /\ data[r][i].by = t}
UnderWay(r) == {t \in Workers : \E m \in net \cup blocked : m.slot = <<r, t>>}
AllOwn(r)   == \A i \in DOMAIN data[r] : data[r][i].req = r

(* What a call has stored was asked for and answered once.                 *)
Stored(r, i) ==
    LET d == data[r][i]
    IN  /\ pc[d.req] # "idle" /\ d.by \in asked[d.req]
        /\ d.req = r \/ (Finished(d.req) /\ chan[d.req] = chan[r])
        /\ \A j \in DOMAIN data[r] : data[r][j] = d => j = i
        /\ \A m \in net \cup blocked : m.slot # <<d.req, d.by>>

Answers ==
    ~ clobbered => /\ \A r \in Requests : \A i \in DOMAIN data[r] : Stored(r, i)
                   /\ \A r \in Requests : AllOwn(r) => Cardinality(Own(r)) = Len(data[r])

Counting(r) == pc[r] \in {"waiting", "returned"} /\ need[r] >= 0

(* A call waits for no fewer values than there are workers it counts on.   *)
Enough == \A r \in Requests : Counting(r) => Cardinality(awaited[r]) <= need[r] + taken[r]

Pure == (Undisturbed /\ AskedAreCounted) => \A r \in Requests : AllOwn(r)

IInv == Types /\ Counts /\ Calls /\ Messages /\ Answers /\ Enough /\ Pure

----------------------------------------------------------------------------
(* Counting, and what most steps leave alone                               *)

(* The fields of a message.                                                *)
LEMMA MsgFields ==
    \A m \in MsgType : /\ m.type \in {"ask", "answer"} /\ m.slot \in Requests \X Workers
                       /\ m.slot[1] \in Requests /\ m.slot[2] \in Workers
                       /\ m.slot = <<m.slot[1], m.slot[2]>>
                       /\ m.to \in Workers /\ m.by \in Workers
                       /\ m.req \in Requests /\ m.addr \in Places
    BY DEF MsgType

(* Sets of workers are finite, and a subset is no larger.                  *)
LEMMA SubsetCount ==
    ASSUME NEW S \in SUBSET Workers, NEW T \in SUBSET S
    PROVE  /\ IsFiniteSet(S) /\ IsFiniteSet(T)
           /\ Cardinality(S) \in Nat /\ Cardinality(T) \in Nat
           /\ Cardinality(T) <= Cardinality(S)
           /\ Cardinality(S) = Cardinality(T) => S = T
<1>1. IsFiniteSet(S)
    BY FS_Subset, IpcGatherAssumption
<1>2. IsFiniteSet(T) /\ Cardinality(T) <= Cardinality(S) /\ (Cardinality(S) = Cardinality(T) => S = T)
    BY <1>1, FS_Subset
<1>. QED
    BY <1>1, <1>2, FS_CardinalityType

(* What a call has stored.                                                 *)
LEMMA DataFacts ==
    ASSUME Types, NEW r \in Requests
    PROVE  /\ data[r] \in Seq(Data) /\ Len(data[r]) \in Nat /\ DOMAIN data[r] = 1 .. Len(data[r])
           /\ need[r] \in Int /\ taken[r] \in Nat
           /\ \A i \in DOMAIN data[r] : /\ data[r][i] \in Data /\ data[r][i].req \in Requests
                                        /\ data[r][i].by \in Workers
<1>1. data[r] \in Seq(Data) /\ need[r] \in Int /\ taken[r] \in Nat
    BY DEF Types
<1>2. \A i \in DOMAIN data[r] : data[r][i] \in Data
    BY <1>1
<1>3. \A d \in Data : d.req \in Requests /\ d.by \in Workers
    BY DEF Data
<1>4. Len(data[r]) \in Nat /\ DOMAIN data[r] = 1 .. Len(data[r])
    BY <1>1
<1>. QED
    BY <1>1, <1>2, <1>3, <1>4

(* Calls only go on, and keep their channel, whom they asked, and, once    *)
(* they have counted, whom they count on.                                  *)
Onward ==
    /\ clobbered => clobbered'
    /\ \A r \in Requests :
          /\ pc[r] # "idle" => pc'[r] # "idle" /\ chan'[r] = chan[r]
          /\ pc[r] \notin {"idle", "locked"} => pc'[r] # "locked" /\ awaited'[r] = awaited[r]
          /\ asked[r] \subseteq asked'[r]
          /\ pc[r] \notin {"idle", "failed"} => pc'[r] \notin {"idle", "failed"}
          /\ Finished(r) => Finished(r)'

(* A message stays true while calls only move on.                          *)
LEMMA KeepTrue ==
    ASSUME Types, Onward, NEW m \in MsgType, True(m), (m.to \in running \cup uncounted)'
    PROVE  True(m)'
<1>1. m.req \in Requests /\ m.slot[1] \in Requests
    BY MsgFields
<1>2. pc[m.slot[1]] \notin {"idle", "failed"} /\ m.slot[2] \in asked[m.slot[1]]
    BY DEF True
<1>3. /\ pc'[m.slot[1]] \notin {"idle", "failed"} /\ m.slot[2] \in asked'[m.slot[1]]
      /\ chan'[m.slot[1]] = chan[m.slot[1]] /\ (clobbered => clobbered')
    BY <1>1, <1>2 DEF Onward
<1>. QED
    BY <1>3 DEF True

(* What is stored stays so when no answer is doubled.                      *)
LEMMA KeepAnswers ==
    ASSUME Types, Calls, Answers, Types', Onward, data' = data,
           \A m \in net' \cup blocked' : \/ \E n \in net \cup blocked : n.slot = m.slot
                                         \/ m.slot[2] \notin asked[m.slot[1]]
    PROVE  Answers'
<1>. SUFFICES ASSUME ~ clobbered' PROVE Answers'
    BY DEF Answers
<1>1. ~ clobbered
    BY DEF Onward
<1>2. ASSUME NEW r \in Requests, NEW i \in DOMAIN data[r] PROVE Stored(r, i)'
    <2> DEFINE d == data[r][i]
    <2>1. d.req \in Requests /\ d.by \in Workers
        BY DataFacts
    <2>2. pc[r] # "idle"
        BY <1>2 DEF Calls, Call
    <2>3. Stored(r, i)
        BY <1>1, <1>2 DEF Answers
    <2>4. chan'[r] = chan[r] /\ chan'[d.req] = chan[d.req] /\ asked[d.req] \subseteq asked'[d.req]
          /\ pc'[d.req] # "idle" /\ (Finished(d.req) => Finished(d.req)')
        BY <2>1, <2>2, <2>3 DEF Onward, Stored, Finished
    <2>5. \A m \in net' \cup blocked' : m.slot # <<d.req, d.by>>
        <3>1. d.by \in asked[d.req] /\ \A n \in net \cup blocked : n.slot # <<d.req, d.by>>
            BY <2>3 DEF Stored
        <3>. QED
            BY <3>1
    <2>. QED
        BY <2>3, <2>4, <2>5 DEF Stored, Finished
<1>3. \A r : Own(r)' = Own(r) /\ (AllOwn(r)' <=> AllOwn(r))
    BY DEF Own, AllOwn
<1>. QED
    BY <1>1, <1>2, <1>3 DEF Answers

(* The count is kept when values only move from need to taken.             *)
LEMMA KeepEnough ==
    ASSUME Enough,
           \A r \in Requests : Counting(r)' => /\ Counting(r) /\ awaited'[r] = awaited[r]
                                               /\ need'[r] + taken'[r] = need[r] + taken[r]
    PROVE  Enough'
    BY DEF Enough

(* Who was counted too late stays so.                                      *)
LEMMA KeepCounted ==
    ASSUME Types, Calls, Onward, AskedAreCounted' PROVE AskedAreCounted
<1>1. ASSUME NEW r \in Requests, pc[r] # "locked" PROVE asked[r] \subseteq awaited[r]
    <2>1. CASE pc[r] = "idle"
        BY <2>1 DEF Calls, Call
    <2>2. CASE pc[r] # "idle"
        BY <1>1, <2>2 DEF Onward, AskedAreCounted
    <2>. QED
        BY <2>1, <2>2
<1>. QED
    BY <1>1 DEF AskedAreCounted

(* Nothing foreign is stored when nothing is stored.                       *)
LEMMA KeepPure ==
    ASSUME Types, Calls, Onward, Pure, gone' = {} => gone = {}, data' = data
    PROVE  Pure'
<1>1. clobbered => clobbered'
    BY DEF Onward
<1>. QED
    BY <1>1, KeepCounted DEF Pure, Undisturbed, AllOwn

----------------------------------------------------------------------------
(* Steps of a caller that waits                                            *)

(* A step of a caller that neither sends nor stores anything.              *)
LEMMA CallStep ==
    ASSUME IInv, Types', Counts', Calls', Enough', Onward, UNCHANGED <<processes, data, net, responder>>
    PROVE  IInv'
<1>1. Types /\ Calls /\ Messages /\ Answers /\ Pure
    BY DEF IInv
<1>2. UNCHANGED <<handlers, stage, nactive, sendbuf, blocked, clobbered>>
    BY DEF processes, responder
<1>3. running' = running /\ gone' = gone /\ uncounted' = uncounted
    BY <1>2 DEF running, gone, uncounted
<1>4. Messages'
    <2>1. \A m \in net \cup blocked : m \in MsgType /\ True(m) /\ (m.to \in running \cup uncounted)'
        BY <1>1, <1>3 DEF Types, Messages, True
    <2>2. \A m \in net \cup blocked : True(m)'
        BY <1>1, <2>1, KeepTrue
    <2>. QED
        BY <1>1, <1>2, <2>2 DEF Messages, Payload
<1>5. Answers'
    BY <1>1, <1>2, KeepAnswers
<1>6. Pure'
    BY <1>1, <1>3, KeepPure
<1>. QED
    BY <1>4, <1>5, <1>6 DEF IInv

(* A step of a caller that moves values from need to taken, or stops       *)
(* waiting.                                                                *)
LEMMA LocalStep ==
    ASSUME IInv, Types', Calls', Onward,
           UNCHANGED <<processes, awaited, data, net, responder>>,
           \A r \in Requests : need'[r] <= need[r],
           \A r \in Requests : Counting(r)' => Counting(r) /\ need'[r] + taken'[r] = need[r] + taken[r]
    PROVE  IInv'
<1>1. Types /\ Counts /\ Enough
    BY DEF IInv
<1>2. UNCHANGED <<stage, nactive>>
    BY DEF processes
<1>3. running' = running /\ gone' = gone
    BY <1>2 DEF running, gone
<1>4. Counts'
    <2>1. Cardinality(gone) \in Nat /\ nactive \in Nat
        BY <1>1, SubsetCount DEF gone, Types
    <2>2. \A r \in Requests : need[r] \in Int /\ need'[r] \in Int
        BY <1>1 DEF Types
    <2>3. \A r \in Requests : need'[r] <= nactive + Cardinality(gone)
        BY <1>1, <2>1, <2>2 DEF Counts
    <2>. QED
        BY <1>1, <1>2, <1>3, <2>3 DEF Counts
<1>5. Enough'
    BY <1>1, KeepEnough
<1>. QED
    BY <1>4, <1>5, CallStep

(* GatherGivesUp keeps the invariant.                                      *)
LEMMA GatherGivesUpIInv ==
    ASSUME IInv, NEW r \in Requests, GatherGivesUp(r)
    PROVE  IInv'
<1>1. Types /\ Calls
    BY DEF IInv
<1>2. /\ pc[r] = "idle" /\ pc'[r] = "failed" /\ \A q \in Requests \ {r} : pc'[q] = pc[q]
      /\ UNCHANGED <<processes, clock, chan, need, taken, data, untested, asked, awaited, net,
                     responder>>
    BY <1>1 DEF GatherGivesUp, Types, asking
<1>3. Types'
    BY <1>1, <1>2 DEF GatherGivesUp, Types, Points, processes, responder
<1>4. gone' = gone /\ clobbered' = clobbered
    BY <1>2 DEF processes, gone, responder
<1>5. \A q \in Requests : q = r \/ pc'[q] = pc[q]
    BY <1>2
<1>6. Calls'
    BY <1>1, <1>2, <1>4, <1>5 DEF Calls, Call, Alive
<1>7. Onward
    BY <1>2, <1>4, <1>5 DEF Onward, Finished
<1>8. \A q \in Requests : need'[q] <= need[q]
    BY <1>1, <1>2 DEF Types
<1>9. \A q \in Requests : Counting(q)' => Counting(q)
    BY <1>2, <1>5 DEF Counting
<1>. QED
    BY <1>2, <1>3, <1>6, <1>7, <1>8, <1>9, LocalStep

(* Collect keeps the invariant.                                            *)
LEMMA CollectIInv ==
    ASSUME IInv, NEW r \in Requests, Collect(r)
    PROVE  IInv'
<1>1. Types /\ Calls
    BY DEF IInv
<1>2. need[r] \in Int /\ taken[r] \in Nat /\ Len(data[r]) \in Nat
    BY <1>1, DataFacts
<1>3. /\ pc[r] = "waiting" /\ pc'[r] = (IF need[r] = 1 THEN "returned" ELSE "waiting")
      /\ need'[r] = need[r] - 1 /\ taken'[r] = taken[r] + 1 /\ taken[r] < Len(data[r])
      /\ \A q \in Requests : q = r \/ (pc'[q] = pc[q] /\ need'[q] = need[q] /\ taken'[q] = taken[q])
      /\ UNCHANGED <<processes, clock, chan, data, untested, asked, awaited, net, responder>>
    BY <1>1 DEF Collect, Types, asking
<1>4. Types'
    <2>1. /\ taken' \in [Requests -> Nat] /\ need' \in [Requests -> Int]
          /\ pc' \in [Requests -> Points]
        BY <1>1, <1>2 DEF Collect, Types, Points
    <2>. QED
        BY <1>1, <1>3, <2>1 DEF Types, processes, responder
<1>5. gone' = gone /\ clobbered' = clobbered
    BY <1>3 DEF processes, gone, responder
<1>6. need[r] # 0
    BY <1>1, <1>3 DEF Calls, Call
<1>7. Calls'
    <2>1. ASSUME NEW q \in Requests PROVE Call(q)'
        <3>1. CASE q = r
            BY <1>1, <1>2, <1>3, <1>6, <3>1 DEF Calls, Call
        <3>2. CASE q # r
            BY <1>1, <1>3, <1>5, <3>2 DEF Calls, Call
        <3>. QED
            BY <3>1, <3>2
    <2>2. \A q \in Requests : Alive(q)' => Alive(q)
        BY <1>3 DEF Alive
    <2>3. \A p, q \in Requests :
             Alive(p)' /\ Alive(q)' /\ Owner[p] = Owner[q] /\ chan'[p] = chan'[q] => p = q
        BY <1>1, <1>3, <2>2 DEF Calls
    <2>. QED
        BY <2>1, <2>3 DEF Calls
<1>8. Onward
    BY <1>3, <1>5 DEF Onward, Finished
<1>9. \A q \in Requests : need'[q] <= need[q]
    <2>1. \A q \in Requests : need[q] \in Int
        BY <1>1 DEF Types
    <2>. QED
        BY <1>3, <2>1
<1>10. \A q \in Requests : Counting(q)' => Counting(q) /\ need'[q] + taken'[q] = need[q] + taken[q]
    <2>1. ASSUME Counting(r)' PROVE Counting(r) /\ need'[r] + taken'[r] = need[r] + taken[r]
        BY <1>2, <1>3, <2>1 DEF Counting
    <2>2. \A q \in Requests \ {r} : Counting(q)' => Counting(q) /\ need'[q] + taken'[q] = need[q] + taken[q]
        BY <1>3 DEF Counting
    <2>. QED
        BY <2>1, <2>2
<1>. QED
    BY <1>3, <1>4, <1>7, <1>8, <1>9, <1>10, LocalStep

(* Time passes: a deadline comes near, or a call gives up.                 *)
LEMMA ClockIInv ==
    ASSUME IInv, NEW r \in Requests, Tick(r) \/ TimeOut(r)
    PROVE  IInv'
<1>1. Types /\ Calls
    BY DEF IInv
<1>2. UNCHANGED <<processes, chan, need, taken, data, untested, asked, awaited, net, responder>>
    BY DEF Tick, TimeOut, asking
<1>3. Types'
    <2>1. /\ clock' \in [Requests -> {"far", "near", "past"}]
          /\ pc' \in [Requests -> Points]
        <3>1. CASE Tick(r)
            BY <1>1, <3>1 DEF Tick, Types
        <3>2. CASE TimeOut(r)
            BY <1>1, <3>2 DEF TimeOut, Types, Points
        <3>. QED
            BY <3>1, <3>2
    <2>. QED
        BY <1>1, <1>2, <2>1 DEF Types, processes, responder
<1>4. gone' = gone /\ clobbered' = clobbered
    BY <1>2 DEF processes, gone, responder
<1>5. \A q \in Requests :
         \/ pc'[q] = pc[q] /\ (pc[q] = "timedOut" /\ clock[q] = "past" => clock'[q] = "past")
         \/ pc[q] = "waiting" /\ pc'[q] = "timedOut" /\ clock'[q] = "past"
    <2>1. CASE Tick(r)
        <3>1. pc[r] # "timedOut" /\ pc' = pc /\ \A q \in Requests \ {r} : clock'[q] = clock[q]
            BY <1>1, <2>1 DEF Tick, Types
        <3>. QED
            BY <3>1
    <2>2. CASE TimeOut(r)
        <3>1. /\ pc[r] = "waiting" /\ pc'[r] = "timedOut" /\ clock[r] = "past" /\ clock' = clock
              /\ \A q \in Requests \ {r} : pc'[q] = pc[q]
            BY <1>1, <2>2 DEF TimeOut, Types, Points
        <3>. QED
            BY <3>1
    <2>. QED
        BY <2>1, <2>2
<1>6. Calls'
    BY <1>1, <1>2, <1>4, <1>5 DEF Calls, Call, Alive
<1>7. Onward
    BY <1>2, <1>4, <1>5 DEF Onward, Finished
<1>8. \A q \in Requests : need'[q] <= need[q]
    BY <1>1, <1>2 DEF Types
<1>9. \A q \in Requests : Counting(q)' => Counting(q)
    BY <1>2, <1>5 DEF Counting
<1>. QED
    BY <1>2, <1>3, <1>6, <1>7, <1>8, <1>9, LocalStep

(* Gather keeps the invariant: the call has a channel of its own.          *)
LEMMA GatherIInv ==
    ASSUME IInv, NEW r \in Requests, Gather(r)
    PROVE  IInv'
<1>1. Types /\ Counts /\ Calls /\ Enough /\ Owner[r] \in Workers
    BY IpcGatherAssumption DEF IInv
<1>2. PICK a \in Free(Owner[r]) : chan' = [chan EXCEPT ![r] = a]
    BY DEF Gather, Open
<1>3. /\ pc[r] = "idle" /\ pc' = [pc EXCEPT ![r] = "locked"]
      /\ untested' = [untested EXCEPT ![r] = Workers \ {Owner[r]}]
      /\ UNCHANGED <<processes, clock, need, taken, data, asked, awaited, net, responder>>
    BY DEF Gather, Open
<1>4. /\ pc'[r] = "locked" /\ chan'[r] = a /\ untested'[r] = Workers \ {Owner[r]}
      /\ \A q \in Requests : q = r \/ (pc'[q] = pc[q] /\ chan'[q] = chan[q]
                                       /\ untested'[q] = untested[q])
    BY <1>1, <1>2, <1>3 DEF Types
<1>5. gone' = gone /\ running' = running /\ clobbered' = clobbered
    BY <1>3 DEF processes, gone, running, responder
<1>6. Types'
    <2>1. /\ pc' \in [Requests -> Points] /\ untested' \in [Requests -> SUBSET Workers]
          /\ chan' \in [Requests -> Places]
        BY <1>1, <1>2, <1>3 DEF Types, Points, Places, Free
    <2>. QED
        BY <1>1, <1>3, <2>1 DEF Types, processes, responder
<1>7. Calls'
    <2>1. \A q \in Requests : Alive(q) /\ Owner[q] = Owner[r] => chan[q] # a
        BY <1>2 DEF Free, Live, Alive
    <2>2. \A p, q \in Requests :
             Alive(p)' /\ Alive(q)' /\ Owner[p] = Owner[q] /\ chan'[p] = chan'[q] => p = q
        BY <1>1, <1>4, <2>1 DEF Calls, Alive
    <2>3. ASSUME NEW q \in Requests PROVE Call(q)'
        <3>1. CASE q = r
            BY <1>1, <1>3, <1>4, <3>1 DEF Calls, Call
        <3>2. CASE q # r
            BY <1>1, <1>3, <1>4, <1>5, <3>2 DEF Calls, Call
        <3>. QED
            BY <3>1, <3>2
    <2>. QED
        BY <2>2, <2>3 DEF Calls
<1>8. Onward
    BY <1>3, <1>4, <1>5 DEF Onward, Finished
<1>9. \A q \in Requests : need'[q] <= need[q]
    BY <1>1, <1>3 DEF Types
<1>10. \A q \in Requests : Counting(q)' => Counting(q) /\ need'[q] + taken'[q] = need[q] + taken[q]
    BY <1>3, <1>4 DEF Counting
<1>. QED
    BY <1>3, <1>6, <1>7, <1>8, <1>9, <1>10, LocalStep

(* CountWorkers keeps the invariant: nactive is no less than the number of *)
(* the running workers, the caller's own among them.                       *)
LEMMA CountWorkersIInv ==
    ASSUME IInv, NEW r \in Requests, CountWorkers(r)
    PROVE  IInv'
<1> DEFINE n == WaitFor(nactive - 1)
           others == running \ {Owner[r]}
<1>1. Types /\ Counts /\ Calls /\ Enough /\ Owner[r] \in Workers /\ Owner[r] \in running
    BY IpcGatherAssumption DEF IInv, CountWorkers, CountFor
<1>2. /\ pc[r] = "locked" /\ pc' = [pc EXCEPT ![r] = "waiting"]
      /\ need' = [need EXCEPT ![r] = n] /\ awaited' = [awaited EXCEPT ![r] = others]
      /\ UNCHANGED <<processes, clock, chan, taken, data, untested, asked, net, responder>>
    BY DEF CountWorkers, CountFor
<1>3. /\ nactive \in Nat /\ Cardinality(gone) \in Nat /\ Cardinality(running) \in Nat
      /\ IsFiniteSet(running) /\ Cardinality(running) <= nactive
    BY <1>1, SubsetCount DEF Counts, Types, gone, running
<1>4. n \in Int /\ n # 0 /\ n <= nactive + Cardinality(gone) /\ (n > 0 => n = nactive - 1)
    BY <1>3 DEF WaitFor
<1>5. others \in SUBSET Workers /\ Cardinality(others) = Cardinality(running) - 1
    BY <1>1, <1>3, FS_RemoveElement DEF running
<1>. HIDE DEF n, others
<1>6. /\ pc'[r] = "waiting" /\ need'[r] = n /\ awaited'[r] = others
      /\ \A q \in Requests : q = r \/ (pc'[q] = pc[q] /\ need'[q] = need[q]
                                       /\ awaited'[q] = awaited[q])
    BY <1>1, <1>2 DEF Types
<1>7. gone' = gone /\ running' = running /\ clobbered' = clobbered /\ nactive' = nactive
    BY <1>2 DEF processes, gone, running, responder
<1>8. Types'
    <2>1. /\ pc' \in [Requests -> Points] /\ need' \in [Requests -> Int]
          /\ awaited' \in [Requests -> SUBSET Workers]
        BY <1>1, <1>2, <1>4, <1>5 DEF Types, Points
    <2>. QED
        BY <1>1, <1>2, <2>1 DEF Types, processes, responder
<1>9. Counts'
    BY <1>1, <1>4, <1>6, <1>7 DEF Counts
<1>10. Calls'
    <2>1. \A q \in Requests : Alive(q)' <=> Alive(q)
        BY <1>2, <1>6 DEF Alive
    <2>2. ASSUME NEW q \in Requests PROVE Call(q)'
        <3>1. CASE q = r
            BY <1>1, <1>2, <1>4, <1>6, <3>1 DEF Calls, Call
        <3>2. CASE q # r
            BY <1>1, <1>2, <1>6, <1>7, <3>2 DEF Calls, Call
        <3>. QED
            BY <3>1, <3>2
    <2>. QED
        BY <1>1, <1>2, <2>1, <2>2 DEF Calls
<1>11. Onward
    BY <1>2, <1>6, <1>7 DEF Onward, Finished
<1>12. Enough'
    <2>1. taken[r] = 0
        BY <1>1, <1>2 DEF Calls, Call
    <2>2. Counting(r)' => Cardinality(awaited'[r]) <= need'[r] + taken'[r]
        BY <1>2, <1>3, <1>4, <1>5, <1>6, <2>1 DEF Counting
    <2>3. \A q \in Requests \ {r} :
             Counting(q)' => Counting(q) /\ need'[q] + taken'[q] = need[q] + taken[q]
                             /\ awaited'[q] = awaited[q]
        BY <1>2, <1>6 DEF Counting
    <2>. QED
        BY <1>1, <2>2, <2>3 DEF Enough
<1>. QED
    BY <1>2, <1>8, <1>9, <1>10, <1>11, <1>12, CallStep

----------------------------------------------------------------------------
(* Workers start, exit and are reaped                                      *)

(* The workers by what became of them.                                     *)
LEMMA ProcessFacts ==
    ASSUME Types, NEW w \in Workers
    PROVE  /\ running \in SUBSET Workers /\ gone \in SUBSET Workers /\ uncounted \in SUBSET Workers
           /\ IsFiniteSet(running) /\ IsFiniteSet(gone) /\ IsFiniteSet(running \cup gone)
           /\ Cardinality(running) \in Nat /\ Cardinality(gone) \in Nat
           /\ Cardinality(running \cup gone) \in Nat
           /\ w \in running <=> stage[w] = "counted"
           /\ w \in uncounted <=> stage[w] = "active"
           /\ w \in gone <=> stage[w] \in {"exited", "reaped"}
<1>1. running \in SUBSET Workers /\ gone \in SUBSET Workers /\ uncounted \in SUBSET Workers
    BY DEF running, gone, uncounted
<1>2. running \cup gone \in SUBSET Workers
    BY <1>1
<1>. QED
    BY <1>1, <1>2, SubsetCount DEF running, gone, uncounted

(* A step of a process that starts or is counted.                          *)
LEMMA ProcessStep ==
    ASSUME IInv, Types', Counts', UNCHANGED <<caller, net, responder>>,
           running \cup uncounted \subseteq running' \cup uncounted', gone' = gone
    PROVE  IInv'
<1>1. Types /\ Calls /\ Messages /\ Answers /\ Enough /\ Pure
    BY DEF IInv
<1>2. UNCHANGED <<pc, clock, chan, need, taken, data, untested, asked, awaited, sendbuf, blocked,
                  clobbered>>
    BY DEF caller, asking, responder
<1>3. Calls'
    BY <1>1, <1>2 DEF Calls, Call, Alive
<1>4. Onward
    BY <1>2 DEF Onward, Finished
<1>5. Messages'
    <2>1. \A m \in net \cup blocked : m \in MsgType /\ True(m) /\ (m.to \in running \cup uncounted)'
        BY <1>1 DEF Types, Messages, True
    <2>2. \A m \in net \cup blocked : True(m)'
        BY <1>1, <1>4, <2>1, KeepTrue
    <2>. QED
        BY <1>1, <1>2, <2>2 DEF Messages, Payload
<1>6. Answers'
    BY <1>1, <1>2, <1>4, KeepAnswers
<1>7. Enough' /\ Pure'
    BY <1>1, <1>2, <1>4, KeepEnough, KeepPure DEF Counting
<1>. QED
    BY <1>3, <1>5, <1>6, <1>7 DEF IInv

(* Activate keeps the invariant.                                           *)
LEMMA ActivateIInv ==
    ASSUME IInv, NEW w \in Workers, Activate(w) \/ Reap(w)
    PROVE  IInv'
<1>1. Types /\ Counts
    BY DEF IInv
<1>2. /\ UNCHANGED <<handlers, nactive, caller, net, responder>>
      /\ \/ stage[w] = "forked" /\ stage' = [stage EXCEPT ![w] = "active"]
         \/ stage[w] = "exited" /\ stage' = [stage EXCEPT ![w] = "reaped"]
    BY DEF Activate, Reap
<1>3. Types'
    BY <1>1, <1>2 DEF Types, caller, asking, responder
<1>4. \A v \in Workers : v = w \/ stage'[v] = stage[v]
    BY <1>1, <1>2 DEF Types
<1>5. \/ stage[w] = "forked" /\ stage'[w] = "active"
      \/ stage[w] = "exited" /\ stage'[w] = "reaped"
    BY <1>1, <1>2 DEF Types
<1>6. running' = running /\ gone' = gone /\ uncounted \subseteq uncounted'
    BY <1>4, <1>5 DEF running, gone, uncounted
<1>7. Counts'
    BY <1>1, <1>2, <1>6 DEF Counts, caller
<1>. QED
    BY <1>2, <1>3, <1>6, <1>7, ProcessStep

(* BeCounted keeps the invariant.                                          *)
LEMMA BeCountedIInv ==
    ASSUME IInv, NEW w \in Workers, BeCounted(w)
    PROVE  IInv'
<1>1. Types /\ Counts
    BY DEF IInv
<1>2. /\ UNCHANGED <<handlers, caller, net, responder>> /\ nactive' = nactive + 1
      /\ stage[w] = "active" /\ stage' = [stage EXCEPT ![w] = "counted"] /\ nactive \in Nat
    BY <1>1 DEF BeCounted, Types
<1>3. Types'
    BY <1>1, <1>2 DEF Types, caller, asking, responder
<1>4. stage'[w] = "counted" /\ \A v \in Workers : v = w \/ stage'[v] = stage[v]
    BY <1>1, <1>2 DEF Types
<1>5. /\ running' = running \cup {w} /\ gone' = gone /\ w \notin running \cup gone
      /\ running' \cup gone' = (running \cup gone) \cup {w} /\ uncounted' = uncounted \ {w}
    BY <1>2, <1>4 DEF running, gone, uncounted
<1>6. Counts'
    <2>1. /\ Cardinality(running') = Cardinality(running) + 1
          /\ Cardinality(running' \cup gone') = Cardinality(running \cup gone) + 1
          /\ Cardinality(gone) \in Nat /\ Cardinality(running) \in Nat
          /\ Cardinality(running \cup gone) \in Nat
        BY <1>1, <1>5, ProcessFacts, FS_AddElement
    <2>2. \A r \in Requests : need'[r] = need[r] /\ need[r] \in Int
        BY <1>1, <1>2 DEF caller, Types
    <2>3. \A r \in Requests : need'[r] <= nactive' + Cardinality(gone)
        BY <1>1, <1>2, <2>1, <2>2 DEF Counts
    <2>4. Cardinality(running') <= nactive' /\ nactive' <= Cardinality(running' \cup gone')
        BY <1>1, <1>2, <2>1 DEF Counts
    <2>. QED
        BY <1>1, <1>5, <2>3, <2>4 DEF Counts
<1>. QED
    BY <1>2, <1>3, <1>5, <1>6, ProcessStep

(* Exit keeps the invariant.                                               *)
LEMMA ExitIInv ==
    ASSUME IInv, NEW w \in Workers, Exit(w)
    PROVE  IInv'
<1>1. Types /\ Counts /\ Calls /\ Messages /\ Answers /\ Enough
    BY DEF IInv
<1>2. /\ UNCHANGED <<handlers, clock, chan, need, taken, data, untested, asked, awaited, sendbuf,
                     clobbered>>
      /\ w \in running /\ Cardinality(gone) < MaxExits /\ nactive' \in {nactive, nactive - 1}
      /\ net' = {m \in net : m.to # w} /\ blocked' = {m \in blocked : m.to # w}
      /\ \A r \in Requests : pc'[r] = (IF Owner[r] = w THEN "gone" ELSE pc[r])
    BY DEF Exit, asking
<1>3. stage[w] = "counted" /\ stage'[w] = "exited" /\ \A v \in Workers : v = w \/ stage'[v] = stage[v]
    BY <1>1 DEF Exit, Types, running
<1>4. /\ running' = running \ {w} /\ gone' = gone \cup {w} /\ uncounted' = uncounted
      /\ running' \cup gone' = running \cup gone /\ w \notin gone
    BY <1>3 DEF running, gone, uncounted
<1>5. /\ Cardinality(running') = Cardinality(running) - 1 /\ Cardinality(gone') = Cardinality(gone) + 1
      /\ Cardinality(gone) \in Nat /\ Cardinality(running) \in Nat /\ nactive \in Nat
      /\ Cardinality(running') \in Nat /\ Cardinality(running \cup gone) \in Nat
    <2>1. Cardinality(running') = Cardinality(running) - 1 /\ IsFiniteSet(running')
        BY <1>1, <1>2, <1>4, ProcessFacts, FS_RemoveElement
    <2>2. Cardinality(gone') = Cardinality(gone) + 1
        BY <1>1, <1>4, ProcessFacts, FS_AddElement
    <2>. QED
        BY <1>1, <2>1, <2>2, ProcessFacts, FS_CardinalityType DEF Types
<1>6. nactive' \in Nat /\ nactive' >= nactive - 1 /\ nactive' <= nactive
    BY <1>1, <1>2, <1>5 DEF Counts
<1>7. Types'
    <2>1. /\ stage' \in [Workers -> {"forked", "active", "counted", "exited", "reaped"}]
          /\ pc' \in [Requests -> Points]
        BY <1>1 DEF Exit, Types, Points
    <2>. QED
        BY <1>1, <1>2, <1>6, <2>1 DEF Types
<1>8. Counts'
    <2>1. \A r \in Requests : need[r] \in Int
        BY <1>1 DEF Types
    <2>2. \A r \in Requests : need[r] <= nactive' + Cardinality(gone')
        BY <1>1, <1>5, <1>6, <2>1 DEF Counts
    <2>3. Cardinality(running') <= nactive' /\ nactive' <= Cardinality(running \cup gone)
        BY <1>1, <1>5, <1>6 DEF Counts
    <2>4. Cardinality(gone') <= MaxExits
        BY <1>2, <1>5, IpcGatherAssumption
    <2>. QED
        BY <1>2, <1>4, <2>2, <2>3, <2>4 DEF Counts
<1>9. \A r \in Requests : (pc'[r] = "gone" /\ Owner[r] = w) \/ pc'[r] = pc[r]
    BY <1>2
<1>10. Calls'
    BY <1>1, <1>2, <1>4, <1>9 DEF Calls, Call, Alive
<1>11. Onward
    BY <1>2, <1>9 DEF Onward, Finished
<1>12. \A m \in net' \cup blocked' : m \in net \cup blocked /\ m.to # w
    BY <1>2
<1>13. Messages'
    <2>1. \A m \in net' \cup blocked' :
             m \in MsgType /\ True(m) /\ (m.to \in running \cup uncounted)'
        BY <1>1, <1>4, <1>12 DEF Types, Messages, True
    <2>2. \A m \in net' \cup blocked' : True(m)'
        BY <1>1, <1>11, <2>1, KeepTrue
    <2>3. \A m \in net' \cup blocked' : m \in net \cup blocked
        BY <1>12
    <2>4. (\A m \in net' : m \in net) /\ (\A m \in blocked' : m \in blocked)
        BY <1>2
    <2>. QED
        BY <1>1, <1>2, <2>2, <2>3, <2>4 DEF Messages, Payload
<1>14. Answers'
    BY <1>1, <1>2, <1>7, <1>11, <1>12, KeepAnswers
<1>15. Enough'
    <2>1. \A r \in Requests : Counting(r)' => Counting(r)
        BY <1>2, <1>9 DEF Counting
    <2>. QED
        BY <1>1, <1>2, <2>1, KeepEnough
<1>16. Pure'
    BY <1>4 DEF Pure, Undisturbed
<1>. QED
    BY <1>7, <1>8, <1>10, <1>13, <1>14, <1>15, <1>16 DEF IInv

----------------------------------------------------------------------------
(* The worker that is asked answers                                        *)

(* A step of a worker that answers: it only replaces messages of the same  *)
(* slot.                                                                   *)
LEMMA SendStep ==
    ASSUME IInv, Types', UNCHANGED <<processes, caller>>, clobbered => clobbered',
           \A m \in net' \cup blocked' : \E n \in net \cup blocked : n.slot = m.slot
    PROVE  (Messages' => IInv') /\ Onward
<1>1. Types /\ Counts /\ Calls /\ Answers /\ Enough /\ Pure
    BY DEF IInv
<1>2. UNCHANGED <<handlers, stage, nactive, pc, clock, chan, need, taken, data, untested, asked,
                  awaited>>
    BY DEF caller, asking, processes
<1>3. running' = running /\ gone' = gone
    BY <1>2 DEF running, gone
<1>4. Counts' /\ Calls'
    BY <1>1, <1>2, <1>3 DEF Counts, Calls, Call, Alive
<1>5. Onward
    BY <1>2 DEF Onward, Finished
<1>6. Answers'
    BY <1>1, <1>2, <1>5, KeepAnswers
<1>7. Enough' /\ Pure'
    BY <1>1, <1>2, <1>3, <1>5, KeepEnough, KeepPure DEF Counting
<1>. QED
    BY <1>4, <1>5, <1>6, <1>7 DEF IInv

(* The answer to a request carries the request's slot and, unless SEND_BUF *)
(* was refilled, its address.                                              *)
LEMMA AnswerFacts ==
    ASSUME IInv, UNCHANGED <<processes, caller>>, clobbered => clobbered',
           NEW w \in Workers, NEW m \in net \cup blocked, m.type = "ask", m.to = w, w \in running,
           NEW p, p.req \in Requests, p.addr \in Places, ~ clobbered' => p = Payload(m),
           NEW a \in Answer(w, m, p)
    PROVE  a \in MsgType /\ a.type = "answer" /\ a.slot = m.slot /\ True(a)'
<1>1. m \in MsgType /\ True(m) /\ Types
    BY DEF IInv, Types, Messages
<1>2. /\ m.slot \in Requests \X Workers /\ m.slot[1] \in Requests /\ m.by \in Workers
      /\ m.req \in Requests
    BY <1>1, MsgFields
<1>3. /\ a = [type |-> "answer", slot |-> m.slot, to |-> m.by, by |-> w, req |-> p.req, addr |-> p.addr]
      /\ m.by \in running
    BY DEF Answer
<1>4. a \in MsgType
    BY <1>2, <1>3 DEF MsgType
<1>5. UNCHANGED <<stage, pc, chan, asked>>
    BY DEF processes, caller, asking
<1>6. running' = running /\ uncounted' = uncounted
    BY <1>5 DEF running, uncounted
<1>7. /\ a.type = "answer" /\ a.slot = m.slot /\ a.to = m.by /\ a.by = w
      /\ a.req = p.req /\ a.addr = p.addr
    BY <1>3
<1>8. ~ clobbered' => a.req = m.req /\ a.addr = m.addr
    BY <1>7 DEF Payload
<1>9. True(a)'
    BY <1>1, <1>3, <1>5, <1>6, <1>7, <1>8 DEF True
<1>. QED
    BY <1>4, <1>7, <1>9

(* HandleAsk keeps the invariant.                                          *)
LEMMA HandleAskIInv ==
    ASSUME IInv, NEW w \in Workers, NEW m \in net, HandleAsk(w, m)
    PROVE  IInv'
<1>1. Types /\ Messages
    BY DEF IInv
<1>2. /\ m.type = "ask" /\ m.to = w /\ w \in running /\ UNCHANGED <<processes, caller>>
      /\ sendbuf' = [sendbuf EXCEPT ![w] = Payload(m)]
      /\ clobbered' = (clobbered \/ \E b \in blocked : b.to = w)
      /\ \/ net' = (net \ {m}) \cup Answer(w, m, Payload(m)) /\ blocked' = blocked
         \/ net' = net \ {m} /\ blocked' = blocked \cup {m}
    BY DEF HandleAsk
<1>3. /\ m \in MsgType /\ m.req \in Requests /\ m.addr \in Places /\ m \notin blocked
      /\ Payload(m).req = m.req /\ Payload(m).addr = m.addr
    BY <1>1, MsgFields DEF Types, Messages, Payload
<1>4. \A a \in Answer(w, m, Payload(m)) :
         a \in MsgType /\ a.type = "answer" /\ a.slot = m.slot /\ True(a)'
    BY <1>2, <1>3, AnswerFacts
<1>5. \A n \in net' \cup blocked' :
         \/ n \in Answer(w, m, Payload(m)) /\ n \in net' /\ n \notin blocked'
            /\ \A k \in net' \cup blocked' : k = n \/ (k \in net \cup blocked /\ k # m)
         \/ n \in net \cup blocked
    <2>1. \A a, b \in Answer(w, m, Payload(m)) : a = b
        BY DEF Answer
    <2>2. \A b \in blocked : b.type = "ask"
        BY <1>1 DEF Messages
    <2>3. CASE net' = (net \ {m}) \cup Answer(w, m, Payload(m)) /\ blocked' = blocked
        BY <1>3, <1>4, <2>1, <2>2, <2>3
    <2>4. CASE net' = net \ {m} /\ blocked' = blocked \cup {m}
        BY <2>4
    <2>. QED
        BY <1>2, <2>3, <2>4
<1>6. \A n \in net' \cup blocked' : \E k \in net \cup blocked : k.slot = n.slot
    BY <1>4, <1>5
<1>7. Types'
    <2>1. net' \subseteq MsgType /\ blocked' \subseteq MsgType
        BY <1>1, <1>2, <1>3, <1>4 DEF Types
    <2>2. Payload(m) \in [req : Requests \cup {None}, addr : Places]
        BY <1>3 DEF Payload
    <2>3. sendbuf' \in [Workers -> [req : Requests \cup {None}, addr : Places]]
        BY <1>1, <1>2, <2>2 DEF Types
    <2>4. clobbered' \in BOOLEAN
        BY <1>2
    <2>. QED
        BY <1>1, <1>2, <2>1, <2>3, <2>4 DEF Types, processes, caller, asking
<1>8. (Messages' => IInv') /\ Onward
    BY <1>2, <1>6, <1>7, SendStep
<1>9. running' = running /\ uncounted' = uncounted
    BY <1>2 DEF processes, running, uncounted
<1>10. \A n \in net \cup blocked : True(n)'
    <2>1. \A n \in net \cup blocked : n \in MsgType /\ True(n) /\ (n.to \in running \cup uncounted)'
        BY <1>1, <1>9 DEF Types, Messages, True
    <2>. QED
        BY <1>1, <1>8, <2>1, KeepTrue
<1>11. \A n \in net' \cup blocked' : True(n)'
    BY <1>4, <1>5, <1>10
<1>12. ASSUME NEW b \in blocked'
       PROVE  /\ b.type = "ask" /\ sendbuf'[b.to].req \in Requests
              /\ ~ clobbered' => sendbuf'[b.to] = Payload(b)
    <2>1. sendbuf'[w] = Payload(m) /\ \A v \in Workers \ {w} : sendbuf'[v] = sendbuf[v]
        BY <1>1, <1>2 DEF Types
    <2>2. b = m \/ b \in blocked
        BY <1>2
    <2>3. CASE b = m
        BY <1>2, <1>3, <2>1, <2>3
    <2>4. CASE b \in blocked /\ b.to = w
        BY <1>1, <1>2, <1>3, <2>1, <2>4 DEF Messages
    <2>5. CASE b \in blocked /\ b.to # w
        <3>1. b.to \in Workers \ {w}
            BY <1>1, <2>5, MsgFields DEF Types
        <3>. QED
            BY <1>1, <1>2, <2>1, <2>5, <3>1 DEF Messages
    <2>. QED
        BY <2>2, <2>3, <2>4, <2>5
<1>13. \A n \in net' : n \notin blocked'
    <2>1. (\A n \in net : n \notin blocked) /\ (\A b \in blocked : b.type = "ask")
        BY <1>1 DEF Messages
    <2>2. CASE net' = (net \ {m}) \cup Answer(w, m, Payload(m)) /\ blocked' = blocked
        BY <1>4, <2>1, <2>2
    <2>3. CASE net' = net \ {m} /\ blocked' = blocked \cup {m}
        BY <2>1, <2>3
    <2>. QED
        BY <1>2, <2>2, <2>3
<1>14. ASSUME NEW n \in net' \cup blocked', NEW k \in net' \cup blocked', n.slot = k.slot
       PROVE  n = k
    <2>1. \A x, y \in net \cup blocked : x.slot = y.slot => x = y
        BY <1>1 DEF Messages
    <2>2. CASE n \in net \cup blocked /\ k \in net \cup blocked
        BY <1>14, <2>1, <2>2
    <2>3. CASE n \in Answer(w, m, Payload(m)) /\ ~ (k \in Answer(w, m, Payload(m)))
        BY <1>4, <1>5, <1>14, <2>1, <2>3
    <2>4. CASE k \in Answer(w, m, Payload(m)) /\ ~ (n \in Answer(w, m, Payload(m)))
        BY <1>4, <1>5, <1>14, <2>1, <2>4
    <2>5. CASE n \in Answer(w, m, Payload(m)) /\ k \in Answer(w, m, Payload(m))
        BY <2>5 DEF Answer
    <2>. QED
        BY <1>5, <2>2, <2>3, <2>4, <2>5
<1>15. Messages'
    <2>1. \A b \in blocked' : Payload(b)' = Payload(b)
        BY DEF Payload
    <2>. QED
        BY <1>11, <1>12, <1>13, <1>14, <2>1 DEF Messages
<1>. QED
    BY <1>8, <1>15

(* ResumeSend keeps the invariant.                                         *)
LEMMA ResumeSendIInv ==
    ASSUME IInv, NEW w \in Workers, NEW m \in blocked, ResumeSend(w, m)
    PROVE  IInv'
<1> DEFINE new == Answer(w, m, sendbuf[w])
<1>1. Types /\ Messages
    BY DEF IInv
<1>2. /\ m.to = w /\ w \in running /\ UNCHANGED <<processes, caller, sendbuf, clobbered>>
      /\ net' = net \cup new /\ blocked' = blocked \ {m}
    BY DEF ResumeSend
<1>3. /\ m \in MsgType /\ m.type = "ask" /\ m \notin net
      /\ sendbuf[w].req \in Requests /\ sendbuf[w].addr \in Places
      /\ ~ clobbered => sendbuf[w] = Payload(m)
    BY <1>1, <1>2 DEF Types, Messages
<1>4. \A a \in new : a \in MsgType /\ a.type = "answer" /\ a.slot = m.slot /\ True(a)'
    BY <1>2, <1>3, AnswerFacts
<1>5. \A a, b \in new : a = b
    BY DEF Answer
<1>. HIDE DEF new
<1>6. \A n \in net' \cup blocked' : n \in new \/ (n \in net \cup blocked /\ n # m)
    BY <1>2, <1>3
<1>7. \A n \in net' \cup blocked' : \E k \in net \cup blocked : k.slot = n.slot
    BY <1>4, <1>6
<1>8. Types'
    <2>1. net' \subseteq MsgType /\ blocked' \subseteq MsgType
        BY <1>1, <1>2, <1>4 DEF Types
    <2>. QED
        BY <1>1, <1>2, <2>1 DEF Types, processes, caller, asking
<1>9. (Messages' => IInv') /\ Onward
    BY <1>2, <1>7, <1>8, SendStep
<1>10. running' = running /\ uncounted' = uncounted
    BY <1>2 DEF processes, running, uncounted
<1>11. \A n \in net' \cup blocked' : True(n)'
    <2>1. \A n \in net \cup blocked : n \in MsgType /\ True(n) /\ (n.to \in running \cup uncounted)'
        BY <1>1, <1>10 DEF Types, Messages, True
    <2>2. \A n \in net \cup blocked : True(n)'
        BY <1>1, <1>9, <2>1, KeepTrue
    <2>. QED
        BY <1>4, <1>6, <2>2
<1>12. \A n \in net' : n \notin blocked'
    <2>1. (\A n \in net : n \notin blocked) /\ (\A b \in blocked : b.type = "ask")
        BY <1>1 DEF Messages
    <2>. QED
        BY <1>2, <1>4, <2>1
<1>13. ASSUME NEW n \in net' \cup blocked', NEW k \in net' \cup blocked', n.slot = k.slot
       PROVE  n = k
    <2>1. \A x, y \in net \cup blocked : x.slot = y.slot => x = y
        BY <1>1 DEF Messages
    <2>. QED
        BY <1>4, <1>5, <1>6, <1>13, <2>1
<1>14. Messages'
    <2>1. \A b \in blocked' : b \in blocked
        BY <1>2
    <2>. QED
        BY <1>1, <1>2, <1>11, <1>12, <1>13, <2>1 DEF Messages, Payload
<1>. QED
    BY <1>9, <1>14

----------------------------------------------------------------------------
(* The caller's worker handles an answer                                   *)

(* An answer under way belongs to a call that asked for it and was not     *)
(* counted yet.                                                            *)
LEMMA OwnFacts ==
    ASSUME IInv, ~ clobbered, NEW m \in net \cup blocked, m.type = "answer"
    PROVE  /\ m.req \in Requests /\ m.by \in Workers /\ m.slot = <<m.req, m.by>>
           /\ m.addr = chan[m.req] /\ m.to = Owner[m.req] /\ m.by \in asked[m.req]
           /\ pc[m.req] \notin {"idle", "failed"}
           /\ m.by \in UnderWay(m.req) /\ m.by \notin Own(m.req)
           /\ \A r \in Requests : \A i \in DOMAIN data[r] : data[r][i] # [req |-> m.req, by |-> m.by]
<1>1. Types /\ Messages /\ Answers
    BY DEF IInv
<1>2. m \in MsgType /\ True(m)
    BY <1>1 DEF Types, Messages
<1>3. m.req \in Requests /\ m.by \in Workers /\ m.slot = <<m.slot[1], m.slot[2]>>
    BY <1>2, MsgFields
<1>4. /\ m.slot = <<m.req, m.by>> /\ m.addr = chan[m.req] /\ m.to = Owner[m.req]
      /\ m.by \in asked[m.req] /\ pc[m.req] \notin {"idle", "failed"}
    BY <1>2, <1>3 DEF True
<1>5. m.by \in UnderWay(m.req)
    BY <1>3, <1>4 DEF UnderWay
<1>6. \A r \in Requests : \A i \in DOMAIN data[r] : <<m.req, m.by>> # <<data[r][i].req, data[r][i].by>>
    BY <1>1, <1>4 DEF Answers, Stored
<1>7. m.by \notin Own(m.req)
    BY <1>3, <1>6 DEF Own
<1>8. ASSUME NEW r \in Requests, NEW i \in DOMAIN data[r], data[r][i] = [req |-> m.req, by |-> m.by]
      PROVE  FALSE
    <2>1. data[r][i].req = m.req /\ data[r][i].by = m.by
        BY <1>8
    <2>. QED
        BY <1>6, <2>1
<1>. QED
    BY <1>3, <1>4, <1>5, <1>7, <1>8

(* Handling an answer stores it in one call at most, at the end.           *)
LEMMA GrowFacts ==
    ASSUME IInv, NEW w \in Workers, NEW m \in net, HandleAnswer(w, m), NEW r \in Requests
    PROVE  LET d == [req |-> m.req, by |-> m.by]
           IN  \/ data'[r] = data[r]
               \/ /\ Alive(r) /\ Owner[r] = w /\ chan[r] = m.addr /\ clock[m.req] = "far"
                  /\ data'[r] \in Seq(Data) /\ Len(data'[r]) = Len(data[r]) + 1
                  /\ \A i \in DOMAIN data[r] : i \in DOMAIN data'[r] /\ data'[r][i] = data[r][i]
                  /\ Len(data[r]) + 1 \in DOMAIN data'[r] /\ data'[r][Len(data[r]) + 1] = d
                  /\ \A i \in DOMAIN data'[r] : i \in DOMAIN data[r] \/ i = Len(data[r]) + 1
<1> DEFINE d == [req |-> m.req, by |-> m.by]
<1>1. Types /\ m \in MsgType
    BY DEF IInv, Types
<1>2. d \in Data
    BY <1>1, MsgFields DEF Data
<1>3. data[r] \in Seq(Data) /\ Len(data[r]) \in Nat /\ DOMAIN data[r] = 1 .. Len(data[r])
    BY <1>1, DataFacts
<1>4. data'[r] = IF r \in Inflight(w, m.addr) /\ clock[m.req] = "far" THEN Append(data[r], d) ELSE data[r]
    BY DEF HandleAnswer
<1>. HIDE DEF d
<1>5. /\ Append(data[r], d) \in Seq(Data) /\ Len(Append(data[r], d)) = Len(data[r]) + 1
      /\ \A i \in 1 .. Len(data[r]) : Append(data[r], d)[i] = data[r][i]
      /\ Append(data[r], d)[Len(data[r]) + 1] = d
    BY <1>2, <1>3, AppendProperties
<1>6. DOMAIN Append(data[r], d) = 1 .. Len(data[r]) + 1
    BY <1>3, <1>5
<1>7. \/ data'[r] = data[r]
      \/ /\ Alive(r) /\ Owner[r] = w /\ chan[r] = m.addr /\ clock[m.req] = "far"
         /\ data'[r] = Append(data[r], d)
    BY <1>4 DEF Inflight, Live, Alive
<1>8. \A i \in 1 .. Len(data[r]) : i \in 1 .. Len(data[r]) + 1
    BY <1>3
<1>9. Len(data[r]) + 1 \in 1 .. Len(data[r]) + 1
      /\ \A i \in 1 .. Len(data[r]) + 1 : i \in 1 .. Len(data[r]) \/ i = Len(data[r]) + 1
    BY <1>3
<1>10. data'[r] = Append(data[r], d) =>
         /\ data'[r] \in Seq(Data) /\ Len(data'[r]) = Len(data[r]) + 1
         /\ \A i \in DOMAIN data[r] : i \in DOMAIN data'[r] /\ data'[r][i] = data[r][i]
         /\ Len(data[r]) + 1 \in DOMAIN data'[r] /\ data'[r][Len(data[r]) + 1] = d
         /\ \A i \in DOMAIN data'[r] : i \in DOMAIN data[r] \/ i = Len(data[r]) + 1
    BY <1>3, <1>5, <1>6, <1>8, <1>9
<1>. QED
    BY <1>7, <1>10 DEF d

(* HandleAnswer keeps the invariant.                                       *)
LEMMA HandleAnswerIInv ==
    ASSUME IInv, NEW w \in Workers, NEW m \in net, HandleAnswer(w, m)
    PROVE  IInv'
<1> DEFINE d == [req |-> m.req, by |-> m.by]
           Grows(r) == /\ Alive(r) /\ Owner[r] = w /\ chan[r] = m.addr /\ clock[m.req] = "far"
                       /\ data'[r] \in Seq(Data) /\ Len(data'[r]) = Len(data[r]) + 1
                       /\ \A i \in DOMAIN data[r] : i \in DOMAIN data'[r] /\ data'[r][i] = data[r][i]
                       /\ Len(data[r]) + 1 \in DOMAIN data'[r] /\ data'[r][Len(data[r]) + 1] = d
                       /\ \A i \in DOMAIN data'[r] : i \in DOMAIN data[r] \/ i = Len(data[r]) + 1
<1>1. Types /\ Counts /\ Calls /\ Messages /\ Answers /\ Enough /\ Pure
    BY DEF IInv
<1>2. /\ m.type = "answer" /\ m.to = w /\ w \in running /\ net' = net \ {m}
      /\ UNCHANGED <<processes, pc, clock, chan, need, taken, untested, asked, awaited, responder>>
    BY DEF HandleAnswer, asking
<1>3. UNCHANGED <<handlers, stage, nactive, sendbuf, blocked, clobbered>>
    BY <1>2 DEF processes, responder
<1>4. \A r \in Requests : data'[r] = data[r] \/ Grows(r)
    BY GrowFacts
<1>5. \A r \in Requests : data[r] \in Seq(Data) /\ Len(data[r]) \in Nat /\ taken[r] \in Nat
                          /\ DOMAIN data[r] = 1 .. Len(data[r])
    BY <1>1, DataFacts
<1>6. ~ clobbered =>
         /\ d.req = m.req /\ d.by = m.by
         /\ m.req \in Requests /\ m.by \in Workers /\ m.slot = <<m.req, m.by>>
         /\ m.addr = chan[m.req] /\ m.to = Owner[m.req] /\ m.by \in asked[m.req]
         /\ pc[m.req] \notin {"idle", "failed"}
         /\ m.by \in UnderWay(m.req) /\ m.by \notin Own(m.req)
         /\ \A r \in Requests : \A i \in DOMAIN data[r] : data[r][i] # d
    BY <1>2, OwnFacts
<1>7. running' = running /\ gone' = gone /\ uncounted' = uncounted
    BY <1>3 DEF running, gone, uncounted
<1>8. Onward
    BY <1>2, <1>3 DEF Onward, Finished
<1>9. Types'
    <2>1. data' = [r \in Requests |-> data'[r]]
        BY DEF HandleAnswer
    <2>2. \A r \in Requests : data'[r] \in Seq(Data)
        BY <1>4, <1>5
    <2>3. data' \in [Requests -> Seq(Data)]
        BY <2>1, <2>2
    <2>. QED
        BY <1>1, <1>2, <1>3, <2>3 DEF Types
<1>10. Counts'
    BY <1>1, <1>2, <1>3, <1>7 DEF Counts
<1>11. Calls'
    <2>1. \A r \in Requests : pc[r] = "idle" => data'[r] = data[r]
        BY <1>4 DEF Alive
    <2>2. \A r \in Requests : taken[r] <= Len(data'[r])
        BY <1>1, <1>4, <1>5 DEF Calls, Call
    <2>3. \A r \in Requests : Call(r)'
        BY <1>1, <1>2, <1>7, <2>1, <2>2 DEF Calls, Call
    <2>. QED
        BY <1>1, <1>2, <2>3 DEF Calls, Alive
<1>12. \A n \in net' \cup blocked' : n \in net \cup blocked /\ n # m
    BY <1>1, <1>2, <1>3 DEF Messages
<1>13. Messages'
    <2>1. \A n \in net' \cup blocked' : n \in MsgType /\ True(n) /\ (n.to \in running \cup uncounted)'
        BY <1>1, <1>7, <1>12 DEF Types, Messages, True
    <2>2. \A n \in net' \cup blocked' : True(n)'
        BY <1>1, <1>8, <2>1, KeepTrue
    <2>3. \A n \in net' : n \in net
        BY <1>2
    <2>. QED
        BY <1>1, <1>3, <1>12, <2>2, <2>3 DEF Messages, Payload
<1>14. ASSUME ~ clobbered, NEW r \in Requests, Grows(r)
       PROVE  d.req = r \/ (Finished(d.req) /\ chan[d.req] = chan[r])
    <2>1. Alive(m.req) => m.req = r
        BY <1>1, <1>2, <1>6, <1>14 DEF Calls
    <2>2. pc[m.req] \in Points
        BY <1>1, <1>6, <1>14 DEF Types
    <2>. QED
        BY <1>6, <1>14, <2>1, <2>2 DEF Finished, Alive, Points
<1>15. ASSUME ~ clobbered, NEW r \in Requests, AllOwn(r)', Grows(r)
       PROVE  m.req = r /\ AllOwn(r) /\ Own(r)' = Own(r) \cup {m.by}
    <2>1. m.req = r
        BY <1>6, <1>15 DEF AllOwn
    <2>2. AllOwn(r)
        BY <1>15 DEF AllOwn
    <2>3. ASSUME NEW t \in Own(r)' PROVE t \in Own(r) \cup {m.by}
        <3>1. PICK i \in DOMAIN data'[r] : data'[r][i].req = r /\ data'[r][i].by = t
            BY <2>3 DEF Own
        <3>. QED
            BY <1>6, <1>15, <2>3, <3>1 DEF Own
    <2>4. ASSUME NEW t \in Own(r) PROVE t \in Own(r)'
        <3>1. PICK i \in DOMAIN data[r] : data[r][i].req = r /\ data[r][i].by = t
            BY <2>4 DEF Own
        <3>. QED
            BY <1>15, <2>4, <3>1 DEF Own
    <2>5. m.by \in Own(r)'
        BY <1>6, <1>15, <2>1 DEF Own
    <2>. QED
        BY <2>1, <2>2, <2>3, <2>4, <2>5
<1>16. Answers'
    <2>. SUFFICES ASSUME ~ clobbered PROVE Answers'
        BY <1>3 DEF Answers
    <2>1. ASSUME NEW r \in Requests, NEW i \in DOMAIN data[r], i \in DOMAIN data'[r],
                 data'[r][i] = data[r][i],
                 \A j \in DOMAIN data'[r] : \/ j \in DOMAIN data[r] /\ data'[r][j] = data[r][j]
                                            \/ data'[r][j] = d
          PROVE  Stored(r, i)'
        <3>1. Stored(r, i) /\ data[r][i] # d
            BY <1>1, <1>6 DEF Answers
        <3>. QED
            BY <1>2, <1>3, <1>12, <2>1, <3>1 DEF Stored, Finished
    <2>2. ASSUME NEW r \in Requests, NEW n \in DOMAIN data'[r], Grows(r), n = Len(data[r]) + 1
          PROVE  Stored(r, n)'
        <3>1. data'[r][n] = d
            BY <2>2
        <3>2. \A j \in DOMAIN data'[r] : data'[r][j] = d => j = n
            BY <1>6, <2>2
        <3>3. \A k \in net' \cup blocked' : k.slot # <<d.req, d.by>>
            BY <1>1, <1>6, <1>12 DEF Messages
        <3>4. d.req = r \/ (Finished(d.req) /\ chan[d.req] = chan[r])
            BY <1>14, <2>2
        <3>5. pc[d.req] # "idle" /\ d.by \in asked[d.req]
            BY <1>6
        <3>. HIDE DEF d
        <3>. QED
            BY <1>2, <3>1, <3>2, <3>3, <3>4, <3>5 DEF Stored, Finished
    <2>3. ASSUME NEW r \in Requests, NEW i \in DOMAIN data'[r] PROVE Stored(r, i)'
        <3>1. CASE data'[r] = data[r]
            BY <2>1, <3>1
        <3>2. CASE Grows(r)
            <4>1. \A j \in DOMAIN data'[r] : \/ j \in DOMAIN data[r] /\ data'[r][j] = data[r][j]
                                             \/ data'[r][j] = d
                BY <3>2
            <4>2. CASE i \in DOMAIN data[r]
                BY <2>1, <3>2, <4>1, <4>2
            <4>3. CASE i = Len(data[r]) + 1
                BY <2>2, <3>2, <4>3
            <4>. QED
                BY <3>2, <4>2, <4>3
        <3>. QED
            BY <1>4, <3>1, <3>2
    <2>4. ASSUME NEW r \in Requests, AllOwn(r)' PROVE Cardinality(Own(r)') = Len(data'[r])
        <3>1. CASE data'[r] = data[r]
            <4>1. Own(r)' = Own(r) /\ AllOwn(r)
                BY <2>4, <3>1 DEF Own, AllOwn
            <4>. QED
                BY <1>1, <3>1, <4>1 DEF Answers
        <3>2. CASE Grows(r)
            <4>1. m.req = r /\ AllOwn(r) /\ Own(r)' = Own(r) \cup {m.by}
                BY <1>15, <2>4, <3>2
            <4>2. Own(r) \in SUBSET Workers
                BY DEF Own
            <4>3. IsFiniteSet(Own(r))
                BY <4>2, SubsetCount
            <4>4. Cardinality(Own(r)') = Cardinality(Own(r)) + 1
                BY <1>6, <4>1, <4>3, FS_AddElement
            <4>5. Cardinality(Own(r)) = Len(data[r])
                BY <1>1, <4>1 DEF Answers
            <4>. QED
                BY <3>2, <4>4, <4>5
        <3>. QED
            BY <1>4, <3>1, <3>2
    <2>. QED
        BY <2>3, <2>4 DEF Answers
<1>18. Enough'
    <2>1. \A r : Counting(r)' <=> Counting(r)
        BY <1>2 DEF Counting
    <2>. QED
        BY <1>1, <1>2, <2>1, KeepEnough
<1>19. ASSUME Undisturbed, AskedAreCounted, NEW r \in Requests, Grows(r) PROVE m.req = r
    <2>1. ~ clobbered /\ gone = {} /\ \A q \in Requests : AllOwn(q)
        BY <1>1, <1>19 DEF Undisturbed, Pure
    <2>2. m.req \in Requests /\ m.by \in UnderWay(m.req) /\ m.by \notin Own(m.req)
          /\ pc[m.req] \notin {"idle", "failed"}
        BY <1>6, <2>1
    <2>3. SUFFICES ASSUME m.req # r PROVE FALSE
        OBVIOUS
    <2>4. Finished(m.req)
        BY <1>6, <1>14, <1>19, <2>1, <2>3
    <2>5. pc[m.req] = "returned"
        <3>1. \A v \in Workers : v \notin gone
            BY <2>1
        <3>2. pc[m.req] # "gone"
            BY <1>1, <2>2, <3>1, IpcGatherAssumption DEF Calls, Call
        <3>3. pc[m.req] # "timedOut"
            BY <1>1, <1>19, <2>2 DEF Calls, Call
        <3>. QED
            BY <2>2, <2>4, <3>2, <3>3 DEF Finished
    <2> DEFINE q == m.req
    <2>6. need[q] = 0 /\ taken[q] <= Len(data[q]) /\ Counting(q)
        BY <1>1, <1>19, <2>2, <2>5 DEF Calls, Call, Counting
    <2>7. Cardinality(awaited[q]) <= 0 + taken[q] /\ Cardinality(Own(q)) = Len(data[q])
        BY <1>1, <2>1, <2>2, <2>6 DEF Enough, Answers
    <2>8. Own(q) \cup {m.by} \in SUBSET asked[q]
        <3>1. \A i \in DOMAIN data[q] : data[q][i].by \in asked[q]
            BY <1>1, <2>1, <2>2 DEF Answers, Stored, AllOwn
        <3>2. m.by \in asked[q]
            BY <1>6, <2>1
        <3>. QED
            BY <3>1, <3>2 DEF Own
    <2>9. asked[q] \in SUBSET awaited[q] /\ awaited[q] \in SUBSET Workers
        BY <1>1, <1>19, <2>2, <2>5 DEF AskedAreCounted, Types
    <2>10. Own(q) \in SUBSET Workers /\ IsFiniteSet(Own(q))
        BY <2>8, <2>9, SubsetCount
    <2>11. Cardinality(Own(q) \cup {m.by}) = Cardinality(Own(q)) + 1
        BY <2>2, <2>10, FS_AddElement
    <2>12. Cardinality(Own(q) \cup {m.by}) <= Cardinality(awaited[q])
           /\ Cardinality(awaited[q]) \in Nat
        BY <2>8, <2>9, SubsetCount
    <2>13. Len(data[q]) \in Nat /\ taken[q] \in Nat
        BY <1>5, <2>2
    <2>. HIDE DEF q
    <2>. QED
        BY <2>6, <2>7, <2>11, <2>12, <2>13
<1>20. Pure'
    <2>. SUFFICES ASSUME Undisturbed, AskedAreCounted, NEW r \in Requests PROVE AllOwn(r)'
        BY <1>2, <1>3, <1>7 DEF Pure, Undisturbed, AskedAreCounted
    <2>1. AllOwn(r)
        BY <1>1 DEF Pure
    <2>2. CASE data'[r] = data[r]
        BY <2>1, <2>2 DEF AllOwn
    <2>3. CASE Grows(r)
        <3>1. d.req = r
            BY <1>19, <2>3
        <3>. QED
            BY <2>1, <2>3, <3>1 DEF AllOwn
    <2>. QED
        BY <1>4, <2>2, <2>3
<1>. QED
    BY <1>9, <1>10, <1>11, <1>13, <1>16, <1>18, <1>20 DEF IInv

----------------------------------------------------------------------------
(* A request is sent                                                       *)

(* A request that is sent out.                                             *)
LEMMA AskFacts ==
    ASSUME Types, NEW r \in Requests, NEW t \in Workers, NEW a \in Places
    PROVE  LET m == Ask(r, t, a)
           IN  /\ m \in MsgType /\ m.type = "ask" /\ m.slot = <<r, t>> /\ m.slot[1] = r /\ m.slot[2] = t
               /\ m.to = t /\ m.by = Owner[r] /\ m.req = r /\ m.addr = a
    BY IpcGatherAssumption DEF Ask, MsgType

(* A call sends its request to workers that it has not asked.              *)
LEMMA SendIInv ==
    ASSUME IInv, NEW r \in Requests, NEW to \in SUBSET active, NEW a \in Places,
           Send(r, to, a), a = chan'[r], pc'[r] \notin {"idle", "failed"}, to \cap asked[r] = {},
           pc' \in [Requests -> Points], need' \in [Requests -> Int], chan' \in [Requests -> Places],
           untested' \in [Requests -> SUBSET Workers], awaited' \in [Requests -> SUBSET Workers],
           Counts', Calls', Enough', Onward, UNCHANGED <<processes, clock, taken, data, responder>>
    PROVE  IInv'
<1>1. Types /\ Calls /\ Messages /\ Answers /\ Pure
    BY DEF IInv
<1>2. /\ net' = net \cup {Ask(r, t, a) : t \in to \ gone}
      /\ asked' = [asked EXCEPT ![r] = @ \cup to]
      /\ UNCHANGED <<handlers, stage, nactive, clock, taken, data, sendbuf, blocked, clobbered>>
    BY DEF Send, processes, responder
<1>3. to \in SUBSET Workers /\ asked'[r] = asked[r] \cup to
    BY <1>1, <1>2 DEF active, Types
<1>4. \A t \in to \ gone :
         LET m == Ask(r, t, a)
         IN  /\ m \in MsgType /\ m.type = "ask" /\ m.slot = <<r, t>> /\ m.slot[1] = r /\ m.slot[2] = t
             /\ m.to = t /\ m.by = Owner[r] /\ m.req = r /\ m.addr = a
    BY <1>1, <1>3, AskFacts
<1>5. \A m \in net \cup blocked : m.slot[2] \in asked[m.slot[1]]
    BY <1>1 DEF Messages, True
<1>6. \A m \in net' \cup blocked' :
         \/ m \in net \cup blocked
         \/ \E t \in to \ gone : m = Ask(r, t, a) /\ m \in net' /\ m \notin blocked'
    <2>1. \A t \in to \ gone : Ask(r, t, a) \notin blocked
        BY <1>4, <1>5
    <2>. QED
        BY <1>2, <2>1
<1>7. Types'
    <2>1. net' \subseteq MsgType
        BY <1>1, <1>2, <1>4 DEF Types
    <2>2. asked' \in [Requests -> SUBSET Workers]
        BY <1>1, <1>2, <1>3 DEF Types
    <2>. QED
        BY <1>1, <1>2, <2>1, <2>2 DEF Types
<1>8. running' = running /\ gone' = gone /\ uncounted' = uncounted
    BY <1>2 DEF running, gone, uncounted
<1>9. Messages'
    <2>1. \A m \in net \cup blocked : m \in MsgType /\ True(m) /\ (m.to \in running \cup uncounted)'
        BY <1>1, <1>8 DEF Types, Messages, True
    <2>2. \A m \in net \cup blocked : True(m)'
        BY <1>1, <2>1, KeepTrue
    <2>3. ASSUME NEW m, NEW t \in to \ gone, m = Ask(r, t, a) PROVE True(m)'
        <3>1. t \in running \cup uncounted
            BY <2>3 DEF active, gone, running, uncounted
        <3>2. /\ m.type = "ask" /\ m.slot[1] = r /\ m.slot[2] = t /\ m.to = t
              /\ m.by = Owner[r] /\ m.req = r /\ m.addr = a
            BY <1>4, <2>3
        <3>. QED
            BY <1>3, <1>8, <3>1, <3>2 DEF True
    <2>4. \A m \in net' \cup blocked' : True(m)'
        BY <1>6, <2>2, <2>3
    <2>5. \A m \in net' : m \notin blocked'
        <3>1. \A m \in net : m \notin blocked
            BY <1>1 DEF Messages
        <3>2. \A m \in net' : m \in net \/ m.slot[2] \notin asked[m.slot[1]]
            BY <1>2, <1>4
        <3>. QED
            BY <1>2, <1>5, <3>1, <3>2
    <2>6. ASSUME NEW m \in net' \cup blocked', NEW k \in net' \cup blocked', m.slot = k.slot
          PROVE  m = k
        <3>1. CASE m \in net \cup blocked /\ k \in net \cup blocked
            BY <1>1, <2>6, <3>1 DEF Messages
        <3>2. CASE \E t \in to \ gone : m = Ask(r, t, a)
            <4>1. PICK t \in to \ gone : m = Ask(r, t, a)
                BY <3>2
            <4>2. k \notin net \cup blocked
                BY <1>4, <1>5, <2>6, <4>1
            <4>3. PICK u \in to \ gone : k = Ask(r, u, a)
                BY <1>6, <4>2
            <4>4. u = t
                BY <1>4, <2>6, <4>1, <4>3
            <4>. QED
                BY <4>1, <4>3, <4>4
        <3>3. CASE \E t \in to \ gone : k = Ask(r, t, a)
            <4>1. PICK t \in to \ gone : k = Ask(r, t, a)
                BY <3>3
            <4>2. m \notin net \cup blocked
                BY <1>4, <1>5, <2>6, <4>1
            <4>3. PICK u \in to \ gone : m = Ask(r, u, a)
                BY <1>6, <4>2
            <4>4. u = t
                BY <1>4, <2>6, <4>1, <4>3
            <4>. QED
                BY <4>1, <4>3, <4>4
        <3>. QED
            BY <1>6, <3>1, <3>2, <3>3
    <2>. QED
        BY <1>1, <1>2, <2>4, <2>5, <2>6 DEF Messages, Payload
<1>10. Answers'
    <2>1. \A m \in net' \cup blocked' : \/ \E k \in net \cup blocked : k.slot = m.slot
                                        \/ m.slot[2] \notin asked[m.slot[1]]
        BY <1>4, <1>6
    <2>. QED
        BY <1>1, <1>2, <1>7, <2>1, KeepAnswers
<1>11. Pure'
    BY <1>1, <1>2, <1>8, KeepPure
<1>. QED
    BY <1>7, <1>9, <1>10, <1>11 DEF IInv

(* Get keeps the invariant: one answer is enough for one worker.           *)
LEMMA GetIInv ==
    ASSUME IInv, NEW r \in Requests, Get(r)
    PROVE  IInv'
<1> DEFINE to == {Target[r]} \cap Reachable(Owner[r])
<1>1. Types /\ Counts /\ Calls /\ Enough /\ Owner[r] \in Workers
    BY IpcGatherAssumption DEF IInv
<1>2. PICK a \in Free(Owner[r]) : chan' = [chan EXCEPT ![r] = a]
    BY DEF Get, Open
<1>3. /\ pc[r] = "idle" /\ Owner[r] \in running /\ pc' = [pc EXCEPT ![r] = "waiting"]
      /\ Send(r, to, chan'[r]) /\ asked' = [asked EXCEPT ![r] = @ \cup to]
      /\ need' = [need EXCEPT ![r] = 1] /\ awaited' = [awaited EXCEPT ![r] = {Target[r]}]
      /\ UNCHANGED <<processes, clock, taken, data, untested, responder>>
    BY DEF Get, Open, Send
<1>4. /\ to \in SUBSET active /\ to \in SUBSET Workers /\ Target[r] \in Workers /\ a \in Places
      /\ Owner[r] \notin to
    BY <1>2, IpcGatherAssumption DEF Get, Reachable, active, Free, Places
<1>5. asked[r] = {} /\ untested[r] = {} /\ taken[r] = 0 /\ data[r] = <<>>
    BY <1>1, <1>3 DEF Calls, Call
<1>. HIDE DEF to
<1>6. /\ pc'[r] = "waiting" /\ chan'[r] = a /\ need'[r] = 1 /\ awaited'[r] = {Target[r]}
      /\ asked'[r] = to
      /\ \A q \in Requests : q = r \/ (pc'[q] = pc[q] /\ chan'[q] = chan[q] /\ need'[q] = need[q]
                                       /\ awaited'[q] = awaited[q] /\ asked'[q] = asked[q])
    BY <1>1, <1>2, <1>3, <1>5 DEF Types
<1>7. gone' = gone /\ running' = running /\ clobbered' = clobbered /\ nactive' = nactive
    BY <1>3 DEF processes, gone, running, responder
<1>8. Counts'
    <2>1. IsFiniteSet(running) /\ Cardinality(running) \in Nat /\ Cardinality(gone) \in Nat
        BY <1>1, ProcessFacts
    <2>2. Cardinality(running) # 0
        BY <1>3, <2>1, FS_EmptySet
    <2>3. 1 <= nactive + Cardinality(gone)
        BY <1>1, <2>1, <2>2 DEF Counts, Types
    <2>. QED
        BY <1>1, <1>6, <1>7, <2>3 DEF Counts
<1>9. Calls'
    <2>1. \A q \in Requests : Alive(q) /\ Owner[q] = Owner[r] => chan[q] # a
        BY <1>2 DEF Free, Live, Alive
    <2>2. \A p, q \in Requests :
             Alive(p)' /\ Alive(q)' /\ Owner[p] = Owner[q] /\ chan'[p] = chan'[q] => p = q
        BY <1>1, <1>6, <2>1 DEF Calls, Alive
    <2>3. ASSUME NEW q \in Requests PROVE Call(q)'
        <3>1. CASE q = r
            BY <1>1, <1>3, <1>5, <1>6, <3>1 DEF Calls, Call
        <3>2. CASE q # r
            BY <1>1, <1>3, <1>6, <1>7, <3>2 DEF Calls, Call
        <3>. QED
            BY <3>1, <3>2
    <2>. QED
        BY <2>2, <2>3 DEF Calls
<1>10. Enough'
    <2>1. Cardinality({Target[r]}) = 1
        BY FS_Singleton
    <2>2. Cardinality(awaited'[r]) <= need'[r] + taken'[r]
        <3>1. need'[r] = 1 /\ taken'[r] = 0 /\ Cardinality(awaited'[r]) = 1
            BY <1>3, <1>5, <1>6, <2>1
        <3>. QED
            BY <3>1
    <2>3. \A q \in Requests \ {r} :
             Counting(q)' => Counting(q) /\ need'[q] + taken'[q] = need[q] + taken[q]
                             /\ awaited'[q] = awaited[q]
        BY <1>3, <1>6 DEF Counting
    <2>. QED
        BY <1>1, <2>2, <2>3 DEF Enough
<1>11. Onward
    BY <1>3, <1>5, <1>6, <1>7 DEF Onward, Finished
<1>12. /\ pc' \in [Requests -> Points] /\ need' \in [Requests -> Int]
       /\ chan' \in [Requests -> Places] /\ awaited' \in [Requests -> SUBSET Workers]
       /\ untested' \in [Requests -> SUBSET Workers]
    BY <1>1, <1>2, <1>3, <1>4 DEF Types, Points
<1>. QED
    BY <1>3, <1>4, <1>5, <1>6, <1>8, <1>9, <1>10, <1>11, <1>12, SendIInv

(* Test keeps the invariant: a worker is asked when it is tested.          *)
LEMMA TestIInv ==
    ASSUME IInv, NEW r \in Requests, Test(r)
    PROVE  IInv'
<1>1. Types /\ Counts /\ Calls /\ Enough /\ Call(r)
    BY DEF IInv, Calls
<1>2. PICK w \in untested[r] : /\ untested' = [untested EXCEPT ![r] = @ \ {w}]
                               /\ Send(r, {w} \cap Reachable(Owner[r]), chan[r])
    BY DEF Test
<1> DEFINE to == {w} \cap Reachable(Owner[r])
<1>3. UNCHANGED <<processes, pc, clock, chan, need, taken, data, awaited, responder>>
    BY DEF Test
<1>4. /\ to \in SUBSET active /\ to \in SUBSET {w} /\ w \in Workers /\ w \notin asked[r]
      /\ w # Owner[r] /\ pc[r] \notin {"idle", "failed"} /\ chan[r] \in Places
    BY <1>1, <1>2 DEF Reachable, Call, Types
<1>5. Send(r, to, chan[r]) /\ asked' = [asked EXCEPT ![r] = @ \cup to]
    BY <1>2 DEF Send
<1>. HIDE DEF to
<1>6. /\ asked'[r] = asked[r] \cup to /\ untested'[r] = untested[r] \ {w}
      /\ \A q \in Requests : q = r \/ (asked'[q] = asked[q] /\ untested'[q] = untested[q])
    BY <1>1, <1>2, <1>5 DEF Types
<1>7. gone' = gone /\ running' = running /\ clobbered' = clobbered /\ nactive' = nactive
    BY <1>3 DEF processes, gone, running, responder
<1>8. Counts'
    BY <1>1, <1>3, <1>7 DEF Counts
<1>9. Calls'
    <2>1. ASSUME NEW q \in Requests PROVE Call(q)'
        <3>1. CASE q = r
            BY <1>1, <1>3, <1>4, <1>6, <1>7, <3>1 DEF Call
        <3>2. CASE q # r
            BY <1>1, <1>3, <1>6, <1>7, <3>2 DEF Calls, Call
        <3>. QED
            BY <3>1, <3>2
    <2>. QED
        BY <1>1, <1>3, <2>1 DEF Calls, Alive
<1>10. Enough'
    BY <1>1, <1>3 DEF Enough, Counting
<1>11. Onward
    BY <1>3, <1>6, <1>7 DEF Onward, Finished
<1>12. /\ pc' \in [Requests -> Points] /\ need' \in [Requests -> Int]
       /\ chan' \in [Requests -> Places] /\ awaited' \in [Requests -> SUBSET Workers]
       /\ untested' \in [Requests -> SUBSET Workers]
    BY <1>1, <1>2, <1>3 DEF Types
<1>. QED
    BY <1>3, <1>4, <1>5, <1>8, <1>9, <1>10, <1>11, <1>12, SendIInv

----------------------------------------------------------------------------

(* The invariant holds at the start.                                       *)
LEMMA InitIInv == Init => IInv
<1>. SUFFICES ASSUME Init PROVE IInv
    OBVIOUS
<1>1. running = Workers \ Late /\ gone = {} /\ running \in SUBSET Workers
    BY IpcGatherAssumption DEF Init, running, gone
<1>2. /\ Cardinality(running) \in Nat /\ Cardinality(gone) = 0 /\ running \cup gone = running
      /\ nactive = Cardinality(running)
    BY <1>1, SubsetCount, FS_EmptySet DEF Init
<1>3. Types
    <2>1. data \in [Requests -> Seq(Data)]
        BY DEF Init
    <2>2. sendbuf \in [Workers -> [req : Requests \cup {None}, addr : Places]]
        BY DEF Init, Empty, Places
    <2>3. stage \in [Workers -> {"forked", "active", "counted", "exited", "reaped"}]
        BY DEF Init
    <2>4. /\ pc \in [Requests -> Points]
          /\ clock \in [Requests -> {"far", "near", "past"}]
        BY DEF Init, Points
    <2>5. /\ chan \in [Requests -> Places] /\ asked \in [Requests -> SUBSET Workers]
          /\ untested \in [Requests -> SUBSET Workers] /\ awaited \in [Requests -> SUBSET Workers]
        BY DEF Init, Places
    <2>6. need \in [Requests -> Int] /\ taken \in [Requests -> Nat]
        BY DEF Init
    <2>7. /\ handlers \subseteq Workers
          /\ net \subseteq MsgType /\ blocked \subseteq MsgType /\ clobbered \in BOOLEAN
        BY DEF Init
    <2>. QED
        BY <1>2, <2>1, <2>2, <2>3, <2>4, <2>5, <2>6, <2>7 DEF Types
<1>4. Counts
    <2>1. \A r \in Requests : need[r] = 0
        BY DEF Init
    <2>2. \A r \in Requests : need[r] <= nactive + Cardinality(gone)
        BY <1>2, <2>1
    <2>3. Cardinality(gone) <= MaxExits
        BY <1>2, IpcGatherAssumption
    <2>4. Cardinality(running) <= nactive /\ nactive <= Cardinality(running \cup gone)
        BY <1>2
    <2>. QED
        BY <2>2, <2>3, <2>4 DEF Counts
<1>5. Calls
    BY DEF Init, Calls, Call, Alive
<1>6. Messages
    BY DEF Init, Messages
<1>7. Answers
    <2>1. \A r \in Requests : DOMAIN data[r] = {} /\ Own(r) = {} /\ Len(data[r]) = 0
        BY DEF Init, Own
    <2>. QED
        BY <2>1, FS_EmptySet DEF Answers
<1>8. Enough /\ Pure
    <2>1. \A r \in Requests : ~ Counting(r) /\ AllOwn(r)
        BY DEF Init, Counting, AllOwn
    <2>. QED
        BY <2>1 DEF Enough, Pure
<1>. QED
    BY <1>3, <1>4, <1>5, <1>6, <1>7, <1>8 DEF IInv

(* Every step keeps it.                                                    *)
LEMMA NextIInv == IInv /\ [Next]_vars => IInv'
<1>. SUFFICES ASSUME IInv, [Next]_vars PROVE IInv'
    OBVIOUS
<1>1. CASE \E r \in Requests : Get(r)
    BY <1>1, GetIInv
<1>2. CASE \E r \in Requests : Gather(r)
    BY <1>2, GatherIInv
<1>13. CASE \E r \in Requests : Test(r)
    BY <1>13, TestIInv
<1>14. CASE \E r \in Requests : CountWorkers(r)
    BY <1>14, CountWorkersIInv
<1>3. CASE \E r \in Requests : GatherGivesUp(r)
    BY <1>3, GatherGivesUpIInv
<1>4. CASE \E r \in Requests : Collect(r)
    BY <1>4, CollectIInv
<1>5. CASE \E r \in Requests : Tick(r) \/ TimeOut(r)
    BY <1>5, ClockIInv
<1>6. CASE \E w \in Workers : Activate(w) \/ Reap(w)
    BY <1>6, ActivateIInv
<1>7. CASE \E w \in Workers : BeCounted(w)
    BY <1>7, BeCountedIInv
<1>8. CASE \E w \in Workers : Exit(w)
    BY <1>8, ExitIInv
<1>9. CASE \E w \in Workers, m \in net : HandleAsk(w, m)
    BY <1>9, HandleAskIInv
<1>10. CASE \E w \in Workers, m \in net : HandleAnswer(w, m)
    BY <1>10, HandleAnswerIInv
<1>11. CASE \E w \in Workers, m \in blocked : ResumeSend(w, m)
    BY <1>11, ResumeSendIInv
<1>12. CASE UNCHANGED vars
    <2>1. UNCHANGED <<handlers, stage, nactive, caller, net, responder>>
        BY <1>12 DEF vars, caller, asking, responder
    <2>2. running' = running /\ gone' = gone /\ uncounted' = uncounted
        BY <2>1 DEF running, gone, uncounted
    <2>3. Types' /\ Counts'
        BY <2>1, <2>2 DEF IInv, Types, Counts, caller, asking, responder
    <2>. QED
        BY <2>1, <2>2, <2>3, ProcessStep
<1>. QED
    BY <1>1, <1>2, <1>3, <1>4, <1>5, <1>6, <1>7, <1>8, <1>9, <1>10, <1>11, <1>12,
       <1>13, <1>14 DEF Next

(* So it holds always.                                                     *)
LEMMA Invariance == Spec => []IInv
    BY InitIInv, NextIInv, PTL DEF Spec

(* The state has its type: nactive is between the number of running        *)
(* workers and that of all workers, whoever exits and however; nobody      *)
(* waits for more values than there were workers; and no message is on its *)
(* way to a worker that is gone.                                           *)
THEOREM StateIsTyped == Spec => []TypeOK
<1>1. ASSUME IInv PROVE TypeOK
    <2>1. Types /\ Counts /\ Calls /\ Messages
        BY <1>1 DEF IInv
    <2>2. nactive \in Cardinality(running) .. Cardinality(Workers)
        <3>1. running \cup gone \in SUBSET Workers /\ Workers \in SUBSET Workers
              /\ running \in SUBSET Workers
            BY DEF running, gone
        <3>2. /\ Cardinality(running \cup gone) <= Cardinality(Workers)
              /\ Cardinality(running \cup gone) \in Nat /\ Cardinality(Workers) \in Nat
              /\ Cardinality(running) \in Nat
            BY <3>1, SubsetCount
        <3>. QED
            BY <2>1, <3>2 DEF Counts, Types
    <2>3. \A r \in Requests : need[r] <= nactive + MaxExits
        <3>1. gone \in SUBSET Workers
            BY DEF gone
        <3>2. Cardinality(gone) \in Nat /\ nactive \in Nat /\ MaxExits \in Nat
            BY <2>1, <3>1, SubsetCount, IpcGatherAssumption DEF Types
        <3>3. \A r \in Requests : need[r] \in Int
            BY <2>1 DEF Types
        <3>. QED
            BY <2>1, <3>2, <3>3 DEF Counts
    <2>4. \A m \in net \cup blocked : m.to \in running \cup uncounted
        BY <2>1 DEF Messages, True
    <2>. QED
        BY <2>1, <2>2, <2>3, <2>4 DEF TypeOK, Types, Calls, Call, Places, Points
<1>. QED
    BY <1>1, Invariance, PTL

(* A call stores answers to itself, one for each worker, and never the     *)
(* answer to another call that still waits, as long as no handler refills  *)
(* SEND_BUF while a send of the same worker waits.                         *)
THEOREM AnswersDoBelong == Spec => []AnswersBelong
<1>1. ASSUME IInv PROVE AnswersBelong
    <2>. SUFFICES ASSUME ~ clobbered, NEW r \in Requests
                  PROVE  /\ \A d \in Values(r) : d.req = r \/ (Finished(d.req) /\ chan[d.req] = chan[r])
                         /\ \A i, j \in DOMAIN data[r] : data[r][i] = data[r][j] => i = j
        BY DEF AnswersBelong, NoCrossTalk, NoDoubleCount
    <2>1. \A i \in DOMAIN data[r] : Stored(r, i)
        BY <1>1 DEF IInv, Answers
    <2>2. \A d \in Values(r) : \E i \in DOMAIN data[r] : d = data[r][i]
        BY DEF Values, ToSet
    <2>. QED
        BY <2>1, <2>2 DEF Stored
<1>. QED
    BY <1>1, Invariance, PTL

(* A call that stored only its own answers stored one from each of these   *)
(* workers.                                                                *)
LEMMA OwnValues ==
    ASSUME IInv, ~ clobbered, NEW r \in Requests, AllOwn(r)
    PROVE  /\ Own(r) = {d.by : d \in Values(r)} /\ Own(r) \in SUBSET Workers
           /\ Own(r) \in SUBSET asked[r] /\ Cardinality(Own(r)) = Len(data[r])
<1>1. \A d : d \in Values(r) <=> \E i \in DOMAIN data[r] : d = data[r][i]
    BY Zenon DEF Values, ToSet
<1>2. \A i \in DOMAIN data[r] : data[r][i].by \in Workers
    BY DataFacts DEF IInv
<1>3. Own(r) = {d.by : d \in Values(r)}
    BY <1>1, <1>2 DEF Own, AllOwn
<1>4. \A i \in DOMAIN data[r] : data[r][i].by \in asked[r]
    BY DEF IInv, Answers, Stored, AllOwn
<1>5. Own(r) \in SUBSET Workers /\ Own(r) \in SUBSET asked[r]
    BY <1>4 DEF Own
<1>. QED
    BY <1>3, <1>5 DEF IInv, Answers

(* A call that returns has asked the workers it asks, and has the answer   *)
(* of each, although its broadcast is suspended after every one of them,   *)
(* as long as no worker exited, SEND_BUF was not shared and all that were  *)
(* ever asked had been counted when the call read nactive.                 *)
THEOREM GatherIsComplete == Spec => []GatherComplete
<1>1. ASSUME IInv PROVE GatherComplete
    <2>. SUFFICES ASSUME Undisturbed, AskedAreCounted, NEW r \in Requests, pc[r] = "returned"
                  PROVE  asked[r] \subseteq {d.by : d \in Values(r)}
        BY DEF GatherComplete, AllAnswered
    <2>1. ~ clobbered /\ gone = {} /\ AllOwn(r)
        BY <1>1 DEF IInv, Pure, Undisturbed
    <2>2. /\ Own(r) = {d.by : d \in Values(r)} /\ Own(r) \in SUBSET Workers
          /\ Own(r) \in SUBSET asked[r] /\ Cardinality(Own(r)) = Len(data[r])
        BY <1>1, <2>1, OwnValues
    <2>3. need[r] = 0 /\ taken[r] <= Len(data[r]) /\ Counting(r)
        BY <1>1 DEF IInv, Calls, Call, Counting
    <2>4. Cardinality(awaited[r]) <= 0 + taken[r]
        BY <1>1, <2>1, <2>3 DEF IInv, Enough
    <2>5. /\ asked[r] \in SUBSET awaited[r] /\ awaited[r] \in SUBSET Workers
          /\ taken[r] \in Nat /\ Len(data[r]) \in Nat
        BY <1>1, DataFacts DEF IInv, Types, AskedAreCounted
    <2>6. /\ Cardinality(Own(r)) <= Cardinality(asked[r]) /\ Cardinality(asked[r]) \in Nat
          /\ Cardinality(asked[r]) = Cardinality(Own(r)) => asked[r] = Own(r)
          /\ Cardinality(asked[r]) <= Cardinality(awaited[r]) /\ Cardinality(awaited[r]) \in Nat
          /\ Cardinality(Own(r)) \in Nat
        BY <2>2, <2>5, SubsetCount
    <2>7. asked[r] = Own(r)
        BY <2>2, <2>3, <2>4, <2>5, <2>6
    <2>. QED
        BY <2>2, <2>7
<1>. QED
    BY <1>1, Invariance, PTL

(* The GET_RESPONSE handler stores nothing for a call that has timed out,  *)
(* nor for its successor at the same address.                              *)
THEOREM NoneAfterTimeout == Spec => NoAnswerAfterTimeout
<1>1. ASSUME IInv, [Next]_vars, NEW r \in Requests, Len(data'[r]) > Len(data[r])
      PROVE  pc[Last(data'[r]).req] # "timedOut"
    <2>1. Types /\ Calls /\ Len(data[r]) \in Nat
        BY <1>1, DataFacts DEF IInv
    <2>2. data'[r] # data[r]
        BY <1>1, <2>1
    <2>3. CASE \E w \in Workers, m \in net : HandleAnswer(w, m)
        <3>1. PICK w \in Workers, m \in net : HandleAnswer(w, m)
            BY <2>3
        <3>2. /\ clock[m.req] = "far" /\ Len(data'[r]) = Len(data[r]) + 1
              /\ data'[r][Len(data[r]) + 1] = [req |-> m.req, by |-> m.by]
            BY <1>1, <2>2, <3>1, GrowFacts
        <3>3. Last(data'[r]).req = m.req
            BY <3>2 DEF Last
        <3>4. m.req \in Requests
            BY <2>1, MsgFields DEF Types
        <3>. QED
            BY <2>1, <3>2, <3>3, <3>4 DEF Calls, Call
    <2>4. CASE ~ \E w \in Workers, m \in net : HandleAnswer(w, m)
        <3>1. data' = data
            BY <1>1, <2>4 DEF Next, Get, Gather, Test, CountWorkers, CountFor, GatherGivesUp, Collect, Tick, TimeOut,
                  Activate, BeCounted, Exit, Reap, HandleAsk, ResumeSend, caller, vars
        <3>. QED
            BY <2>2, <3>1
    <2>. QED
        BY <2>3, <2>4
<1>2. IInv /\ [Next]_vars =>
         [\A r \in Requests : Len(data'[r]) > Len(data[r]) => pc[Last(data'[r]).req] # "timedOut"]_vars
    BY <1>1
<1>. QED
    BY <1>2, Invariance, PTL DEF Spec, NoAnswerAfterTimeout
==============================================================================
