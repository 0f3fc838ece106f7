--------------------------- MODULE SawtoothTpProofs ----------------------------
(***************************************************************************)
(* Proofs about the Sawtooth transaction processor: for any transactions,  *)
(* any number of handlers, requests and breaks of the link, and queues of  *)
(* any length.                                                             *)
(***************************************************************************)
EXTENDS SawtoothTp, FiniteSetTheorems, SequenceTheorems, TLAPS

(* Correlation ids of the processor's own requests and of pings.           *)
FutureIds == {"tp"} \X (Nat \ {0})
PingIds   == {"ping"} \X Nat

Ids == FutureIds \cup PingIds \cup Attempts

Own    == {"register", "unregister", "state", "answer"}
Theirs == {"process", "response"}

(* Messages: the kind of the correlation id goes with the type.            *)
Msg == {m \in [type : Own \cup Theirs \cup {"ping", "pong"}, cid : Ids,
               arg : (0 .. Handlers) \cup {"ok", "refused"}] :
           /\ m.type \in Own => m.cid \in FutureIds
           /\ m.type \in Theirs => m.cid \in Attempts
           /\ m.type \in {"ping", "pong"} => m.cid \in PingIds
           /\ m.type = "register" => m.arg \in 1 .. Handlers}

Process == {m \in Msg : m.type = "process"}

Names == {"resp", "state", "out", "back", "inbox", "request"}

(* The correlation ids in a queue, and in all of them.                     *)
Contents(q) == {q[i].cid : i \in DOMAIN q}
All(Q)      == UNION {Contents(Q[n]) : n \in Names}

(* No correlation id is in the queues twice.                               *)
Once(Q) ==
    /\ \A n \in Names : \A i, j \in DOMAIN Q[n] : Q[n][i].cid = Q[n][j].cid => i = j
    /\ \A m, n \in Names : m # n => Contents(Q[m]) \cap Contents(Q[n]) = {}

Types ==
    /\ main \in [at : {"start", "connected", "unregister", "idle", "apply"},
                 cid : FutureIds \cup {None}, arg : Attempts \cup {None}]
    /\ monitor \in [at : {"idle", "registering", "crashed", "off"},
                    cid : FutureIds \cup {None}, arg : 0 .. Handlers]
    /\ connected \in BOOLEAN /\ awake \in BOOLEAN /\ readable \in BOOLEAN /\ missed \in BOOLEAN
    /\ counter \in Nat /\ requests \in Nat /\ faults \in 0 .. MaxFaults
    /\ onAir \subseteq FutureIds /\ \A m \in got : m.cid \in FutureIds
    /\ sendQ \in [{"resp", "state"} -> Seq(Msg)]
    /\ out \in Seq(Msg) /\ back \in Seq(Msg) /\ inbox \in Seq(Msg) /\ requestQ \in Seq(Process)
    /\ registered \subseteq 1 .. Handlers /\ pending \subseteq Attempts /\ answered \subseteq Txns
    /\ asked \in Seq(Attempts) /\ replies \in Seq(Attempts)

(* The two coroutines that wait for an answer do so with a future each.    *)
Waiting ==
    /\ main.at = "apply" <=> main.arg # None
    /\ main.cid # None <=> main.at \in {"apply", "unregister"}
    /\ monitor.cid # None <=> monitor.at = "registering"
    /\ main.cid = monitor.cid => main.cid = None
    /\ \A c \in {main.cid, monitor.cid} \ {None} : c \in onAir \/ \E m \in got : m.cid = c

(* Correlation ids that are in use were given out before.                  *)
Issued ==
    /\ \A c \in All(Queues) \cup onAir \cup {m.cid : m \in got} \cup {main.cid, monitor.cid} :
          c \in FutureIds => c[2] <= counter
    /\ \A c \in All(Queues) : c \in PingIds => c[2] < requests
    /\ \A c \in All(Queues) \cup {main.arg} : c \in Attempts =>
          c[2] <= faults /\ (c[2] = faults => c \in pending \/ c[1] \in answered)

(* What is waited for is under way, in one place.                          *)
UnderWay ==
    /\ Once(Queues) /\ main.arg \notin All(Queues)
    /\ \A c \in onAir : c \in lost \/ c \in All(Queues)
    /\ \A a \in pending : a[2] = faults /\ (a \in All(Queues) \/ a = main.arg)

(* The process requests of q are the rest of s, from b + 1 on: f says      *)
(* where in q they are.                                                    *)
Follows(f, q, s, b) ==
    /\ f \in [(b + 1) .. Len(s) -> DOMAIN q]
    /\ \A i, j \in (b + 1) .. Len(s) : i < j => f[i] < f[j]
    /\ \A i \in (b + 1) .. Len(s) : q[f[i]].type = "process" /\ q[f[i]].cid = s[i]
    /\ \A k \in DOMAIN q : q[k].type = "process" => \E i \in (b + 1) .. Len(s) : f[i] = k

Applying == IF main.at = "apply" THEN 1 ELSE 0
Base     == Len(replies) + Applying + Len(requestQ)

(* What was asked is what was replied to, is being applied, waits to be    *)
(* handled and waits to be received, in this order.                        *)
InOrder ==
    /\ Base <= Len(asked)
    /\ \A i \in DOMAIN replies : asked[i] = replies[i]
    /\ main.at = "apply" => asked[Len(replies) + 1] = main.arg
    /\ \A i \in DOMAIN requestQ : asked[Len(replies) + Applying + i] = requestQ[i].cid
    /\ \E f \in [(Base + 1) .. Len(asked) -> DOMAIN inbox] : Follows(f, inbox, asked, Base)

(* The inductive invariant.                                                *)
IInv == Types /\ Waiting /\ Issued /\ UnderWay /\ InOrder

----------------------------------------------------------------------------
(* Correlation ids                                                         *)

(* The kinds of correlation ids do not overlap.                            *)
LEMMA IdKinds ==
    /\ None \notin FutureIds /\ None \notin Attempts /\ None \notin PingIds
    /\ FutureIds \cap Attempts = {} /\ FutureIds \cap PingIds = {} /\ PingIds \cap Attempts = {}
<1>1. \A c \in FutureIds : c[1] = "tp"
    BY DEF FutureIds
<1>2. \A c \in PingIds : c[1] = "ping"
    BY DEF PingIds
<1>3. \A c \in Attempts : c[1] \in Txns
    BY DEF Attempts
<1>4. None[1] = "none"
    BY DEF None
<1>5. "tp" \notin Txns /\ "ping" \notin Txns /\ "none" \notin Txns
    BY SawtoothAssumption
<1>. QED
    BY <1>1, <1>2, <1>3, <1>4, <1>5

(* The second part of a correlation id is a number.                        *)
LEMMA IdNumbers ==
    /\ \A c \in FutureIds \cup PingIds \cup Attempts : c[2] \in Nat
    /\ \A c \in Attempts : c[1] \in Txns /\ c[2] \in 0 .. MaxFaults /\ c = <<c[1], c[2]>>
    /\ \A t \in Txns, f \in 0 .. MaxFaults : <<t, f>> \in Attempts
<1>1. MaxFaults \in Nat
    BY SawtoothAssumption
<1>2. \A c \in FutureIds \cup PingIds : c[2] \in Nat
    BY DEF FutureIds, PingIds
<1>3. \A c \in Attempts : c[1] \in Txns /\ c[2] \in 0 .. MaxFaults /\ c = <<c[1], c[2]>>
    BY DEF Attempts
<1>4. \A t \in Txns, f \in 0 .. MaxFaults : <<t, f>> \in Attempts
    BY DEF Attempts
<1>. QED
    BY <1>1, <1>2, <1>3, <1>4

(* A new correlation id is beyond those given out.                         *)
LEMMA NewCidIsNew ==
    ASSUME counter \in Nat
    PROVE  NewCid \in FutureIds /\ NewCid # None /\ NewCid[2] = counter + 1 /\ counter + 1 \in Nat
<1>1. NewCid \in FutureIds /\ NewCid[2] = counter + 1 /\ counter + 1 \in Nat
    BY DEF NewCid, FutureIds
<1>. QED
    BY <1>1, IdKinds

----------------------------------------------------------------------------
(* Queues                                                                  *)

(* A message put into a queue adds its correlation id.                     *)
LEMMA AppendContents ==
    ASSUME NEW q \in Seq(Msg), NEW m \in Msg
    PROVE  /\ Append(q, m) \in Seq(Msg)
           /\ Contents(Append(q, m)) = Contents(q) \cup {m.cid}
           /\ (/\ m.cid \notin Contents(q)
               /\ \A i, j \in DOMAIN q : q[i].cid = q[j].cid => i = j)
              => \A i, j \in DOMAIN Append(q, m) :
                    Append(q, m)[i].cid = Append(q, m)[j].cid => i = j
<1>1. /\ Append(q, m) \in Seq(Msg) /\ Len(q) \in Nat
      /\ DOMAIN q = 1 .. Len(q) /\ DOMAIN Append(q, m) = 1 .. (Len(q) + 1)
    OBVIOUS
<1>2. \A i \in DOMAIN q : i \in DOMAIN Append(q, m) /\ Append(q, m)[i] = q[i]
    OBVIOUS
<1>3. Len(q) + 1 \in DOMAIN Append(q, m) /\ Append(q, m)[Len(q) + 1] = m
    OBVIOUS
<1>4. \A i \in DOMAIN Append(q, m) : i \in DOMAIN q \/ i = Len(q) + 1
    BY <1>1
<1>5. Contents(Append(q, m)) = Contents(q) \cup {m.cid}
    BY <1>2, <1>3, <1>4 DEF Contents
<1>6. ASSUME m.cid \notin Contents(q),
             \A i, j \in DOMAIN q : q[i].cid = q[j].cid => i = j,
             NEW i \in DOMAIN Append(q, m), NEW j \in DOMAIN Append(q, m),
             Append(q, m)[i].cid = Append(q, m)[j].cid
      PROVE  i = j
    <2>1. \A k \in DOMAIN q : q[k].cid # m.cid
        BY <1>6 DEF Contents
    <2>. QED
        BY <1>2, <1>3, <1>4, <1>6, <2>1
<1>. QED
    BY <1>1, <1>5, <1>6

(* A message taken out of a queue takes its correlation id with it.        *)
LEMMA TailContents ==
    ASSUME NEW q \in Seq(Msg), q # <<>>,
           \A i, j \in DOMAIN q : q[i].cid = q[j].cid => i = j
    PROVE  /\ Tail(q) \in Seq(Msg) /\ Head(q) \in Msg
           /\ Head(q).cid \in Contents(q)
           /\ Contents(Tail(q)) = Contents(q) \ {Head(q).cid}
           /\ \A i, j \in DOMAIN Tail(q) : Tail(q)[i].cid = Tail(q)[j].cid => i = j
<1>1. /\ Tail(q) \in Seq(Msg) /\ Head(q) \in Msg /\ Len(q) \in Nat \ {0}
      /\ DOMAIN q = 1 .. Len(q) /\ DOMAIN Tail(q) = 1 .. (Len(q) - 1)
      /\ 1 \in DOMAIN q /\ Head(q) = q[1]
    OBVIOUS
<1>2. \A i \in DOMAIN Tail(q) : i + 1 \in DOMAIN q /\ i + 1 # 1 /\ Tail(q)[i] = q[i + 1]
    BY <1>1
<1>3. \A i \in DOMAIN q : i = 1 \/ (i - 1 \in DOMAIN Tail(q) /\ (i - 1) + 1 = i)
    BY <1>1
<1>4. Contents(Tail(q)) \subseteq Contents(q) \ {Head(q).cid}
    BY <1>1, <1>2 DEF Contents
<1>5. ASSUME NEW i \in DOMAIN q, q[i].cid # Head(q).cid
      PROVE  q[i].cid \in Contents(Tail(q))
    <2>1. i - 1 \in DOMAIN Tail(q) /\ (i - 1) + 1 = i
        BY <1>1, <1>3, <1>5
    <2>2. Tail(q)[i - 1] = q[i]
        BY <1>2, <2>1
    <2>. QED
        BY <2>1, <2>2 DEF Contents
<1>6. Contents(q) \ {Head(q).cid} \subseteq Contents(Tail(q))
    BY <1>5 DEF Contents
<1>7. ASSUME NEW i \in DOMAIN Tail(q), NEW j \in DOMAIN Tail(q),
             Tail(q)[i].cid = Tail(q)[j].cid
      PROVE  i = j
    <2>1. i + 1 = j + 1
        BY <1>2, <1>7
    <2>2. i \in Nat /\ j \in Nat
        BY <1>1
    <2>. QED
        BY <2>1, <2>2
<1>8. Head(q).cid \in Contents(q)
    BY <1>1 DEF Contents
<1>. QED
    BY <1>1, <1>4, <1>6, <1>7, <1>8

(* What is in some queue.                                                  *)
LEMMA InAll ==
    ASSUME NEW Q PROVE \A c : c \in All(Q) <=> \E n \in Names : c \in Contents(Q[n])
<1>. QED
    BY DEF All

(* A message is put into a queue.                                          *)
LEMMA Put ==
    ASSUME NEW Q \in [Names -> Seq(Msg)], NEW n \in Names, NEW m \in Msg,
           Once(Q), m.cid \notin All(Q)
    PROVE  LET R == [Q EXCEPT ![n] = Append(Q[n], m)]
           IN  R \in [Names -> Seq(Msg)] /\ Once(R) /\ All(R) = All(Q) \cup {m.cid}
<1>. DEFINE R == [Q EXCEPT ![n] = Append(Q[n], m)]
<1>1. /\ R \in [Names -> Seq(Msg)]
      /\ R[n] = Append(Q[n], m) /\ \A k \in Names \ {n} : R[k] = Q[k]
    BY AppendContents
<1>2. m.cid \notin Contents(Q[n]) /\ \A k \in Names : m.cid \notin Contents(Q[k])
    BY DEF All
<1>3. /\ Contents(R[n]) = Contents(Q[n]) \cup {m.cid}
      /\ \A i, j \in DOMAIN R[n] : R[n][i].cid = R[n][j].cid => i = j
    BY <1>1, <1>2, AppendContents DEF Once
<1>. HIDE DEF R
<1>4. Once(R)
    <2>1. \A k \in Names : \A i, j \in DOMAIN R[k] : R[k][i].cid = R[k][j].cid => i = j
        BY <1>1, <1>3 DEF Once
    <2>2. ASSUME NEW k \in Names, NEW l \in Names, k # l
          PROVE  Contents(R[k]) \cap Contents(R[l]) = {}
        <3>1. Contents(Q[k]) \cap Contents(Q[l]) = {}
            BY <2>2 DEF Once
        <3>2. CASE k = n
            BY <1>1, <1>2, <1>3, <2>2, <3>1, <3>2
        <3>3. CASE l = n
            BY <1>1, <1>2, <1>3, <2>2, <3>1, <3>3
        <3>4. CASE k # n /\ l # n
            BY <1>1, <3>1, <3>4
        <3>. QED
            BY <3>2, <3>3, <3>4
    <2>. QED
        BY <2>1, <2>2 DEF Once
<1>5. All(R) = All(Q) \cup {m.cid}
    <2>1. \A c : c \in All(R) <=> c \in All(Q) \/ c = m.cid
        <3>1. \A c : c \in All(R) <=> \E k \in Names : c \in Contents(R[k])
            BY InAll
        <3>2. \A c : c \in All(Q) <=> \E k \in Names : c \in Contents(Q[k])
            BY InAll
        <3>3. \A c : c \in Contents(R[n]) <=> c \in Contents(Q[n]) \/ c = m.cid
            BY <1>3
        <3>4. \A k \in Names \ {n} : Contents(R[k]) = Contents(Q[k])
            BY <1>1
        <3>. QED
            BY <3>1, <3>2, <3>3, <3>4
    <2>. QED
        BY <2>1
<1>. QED
    BY <1>1, <1>4, <1>5 DEF R

(* The first message of a queue is taken out.                              *)
LEMMA Take ==
    ASSUME NEW Q \in [Names -> Seq(Msg)], NEW n \in Names, Once(Q), Q[n] # <<>>
    PROVE  LET R == [Q EXCEPT ![n] = Tail(Q[n])]
           IN  /\ R \in [Names -> Seq(Msg)] /\ Once(R)
               /\ Head(Q[n]) \in Msg /\ Head(Q[n]).cid \in All(Q)
               /\ All(R) = All(Q) \ {Head(Q[n]).cid}
<1>. DEFINE R == [Q EXCEPT ![n] = Tail(Q[n])]
            c == Head(Q[n]).cid
<1>1. /\ Tail(Q[n]) \in Seq(Msg) /\ Head(Q[n]) \in Msg /\ c \in Contents(Q[n])
      /\ Contents(Tail(Q[n])) = Contents(Q[n]) \ {c}
      /\ \A i, j \in DOMAIN Tail(Q[n]) : Tail(Q[n])[i].cid = Tail(Q[n])[j].cid => i = j
    BY TailContents DEF Once
<1>2. /\ R \in [Names -> Seq(Msg)]
      /\ R[n] = Tail(Q[n]) /\ \A k \in Names \ {n} : R[k] = Q[k]
    BY <1>1
<1>3. \A k \in Names \ {n} : c \notin Contents(Q[k])
    BY <1>1 DEF Once
<1>. HIDE DEF R, c
<1>4. Once(R)
    BY <1>1, <1>2 DEF Once
<1>5. All(R) = All(Q) \ {c}
    <2>1. \A d : d \in All(R) <=> d \in All(Q) /\ d # c
        <3>1. \A d : d \in All(R) <=> \E k \in Names : d \in Contents(R[k])
            BY InAll
        <3>2. \A d : d \in All(Q) <=> \E k \in Names : d \in Contents(Q[k])
            BY InAll
        <3>3. \A d : d \in Contents(R[n]) <=> d \in Contents(Q[n]) /\ d # c
            BY <1>1, <1>2
        <3>4. \A k \in Names \ {n} : Contents(R[k]) = Contents(Q[k])
            BY <1>2
        <3>5. ASSUME NEW d, d \in All(R) PROVE d \in All(Q) /\ d # c
            <4>1. PICK k \in Names : d \in Contents(R[k])
                BY <3>1, <3>5
            <4>2. CASE k = n
                BY <3>2, <3>3, <4>1, <4>2
            <4>3. CASE k # n
                BY <1>3, <3>2, <3>4, <4>1, <4>3
            <4>. QED
                BY <4>2, <4>3
        <3>6. ASSUME NEW d, d \in All(Q), d # c PROVE d \in All(R)
            <4>1. PICK k \in Names : d \in Contents(Q[k])
                BY <3>2, <3>6
            <4>. QED
                BY <3>1, <3>3, <3>4, <3>6, <4>1
        <3>. QED
            BY <3>5, <3>6
    <2>. QED
        BY <2>1
<1>6. c \in All(Q)
    BY <1>1 DEF All
<1>. QED
    BY <1>1, <1>2, <1>4, <1>5, <1>6 DEF R, c

(* A message goes from one queue to another; it may become another with    *)
(* the same correlation id.                                                *)
LEMMA Move ==
    ASSUME NEW Q \in [Names -> Seq(Msg)], NEW a \in Names, NEW b \in Names, a # b,
           Once(Q), Q[a] # <<>>, NEW m \in Msg, m.cid = Head(Q[a]).cid
    PROVE  \E R \in [Names -> Seq(Msg)] :
              /\ R[a] = Tail(Q[a]) /\ R[b] = Append(Q[b], m)
              /\ \A n \in Names \ {a, b} : R[n] = Q[n]
              /\ Once(R) /\ All(R) = All(Q)
<1>. DEFINE P == [Q EXCEPT ![a] = Tail(Q[a])]
            R == [P EXCEPT ![b] = Append(P[b], m)]
<1>1. /\ P \in [Names -> Seq(Msg)] /\ Once(P)
      /\ m.cid \in All(Q) /\ All(P) = All(Q) \ {m.cid}
    BY Take
<1>2. P[b] = Q[b]
    OBVIOUS
<1>3. /\ R[a] = Tail(Q[a]) /\ R[b] = Append(Q[b], m)
      /\ \A n \in Names \ {a, b} : R[n] = Q[n]
    BY <1>2
<1>. HIDE DEF P
<1>4. R \in [Names -> Seq(Msg)] /\ Once(R) /\ All(R) = All(P) \cup {m.cid}
    BY <1>1, Put
<1>. HIDE DEF R
<1>5. All(R) = All(Q)
    BY <1>1, <1>4
<1>. QED
    BY <1>3, <1>4, <1>5

(* One message is taken out and another, new one is put in.                *)
Replaced(Q, a, b, m, R) ==
    /\ R \in [Names -> Seq(Msg)]
    /\ R[a] = Tail(Q[a]) /\ R[b] = Append(Q[b], m)
    /\ \A n \in Names \ {a, b} : R[n] = Q[n]
    /\ Once(R) /\ Head(Q[a]).cid \in All(Q)
    /\ All(R) = (All(Q) \ {Head(Q[a]).cid}) \cup {m.cid}

(* A message is taken out of one queue and another one put into a second   *)
(* queue.                                                                  *)
LEMMA Replace ==
    ASSUME NEW Q \in [Names -> Seq(Msg)], NEW a \in Names, NEW b \in Names, a # b,
           Once(Q), Q[a] # <<>>, NEW m \in Msg, m.cid \notin All(Q)
    PROVE  \E R : Replaced(Q, a, b, m, R)
<1>. DEFINE P == [Q EXCEPT ![a] = Tail(Q[a])]
            R == [P EXCEPT ![b] = Append(P[b], m)]
<1>1. /\ P \in [Names -> Seq(Msg)] /\ Once(P)
      /\ Head(Q[a]).cid \in All(Q) /\ All(P) = All(Q) \ {Head(Q[a]).cid}
    BY Take
<1>2. P[b] = Q[b]
    OBVIOUS
<1>3. /\ R[a] = Tail(Q[a]) /\ R[b] = Append(Q[b], m)
      /\ \A n \in Names \ {a, b} : R[n] = Q[n]
    BY <1>2
<1>. HIDE DEF P
<1>4. m.cid \notin All(P)
    BY <1>1
<1>5. R \in [Names -> Seq(Msg)] /\ Once(R) /\ All(R) = All(P) \cup {m.cid}
    BY <1>1, <1>4, Put
<1>. HIDE DEF R
<1>6. All(R) = (All(Q) \ {Head(Q[a]).cid}) \cup {m.cid}
    BY <1>1, <1>5
<1>. QED
    BY <1>1, <1>3, <1>5, <1>6 DEF Replaced

(* The queues by their names.                                              *)
LEMMA QueuesType ==
    ASSUME Types
    PROVE  /\ Queues \in [Names -> Seq(Msg)]
           /\ Queues["resp"] = sendQ["resp"] /\ Queues["state"] = sendQ["state"]
           /\ Queues["out"] = out /\ Queues["back"] = back /\ Queues["inbox"] = inbox
           /\ Queues["request"] = requestQ
<1>1. Process \subseteq Msg
    BY DEF Process
<1>2. requestQ \in Seq(Msg)
    BY <1>1 DEF Types
<1>3. /\ sendQ["resp"] \in Seq(Msg) /\ sendQ["state"] \in Seq(Msg)
      /\ out \in Seq(Msg) /\ back \in Seq(Msg) /\ inbox \in Seq(Msg)
    BY DEF Types
<1>. QED
    BY <1>2, <1>3 DEF Queues, Names

(* Nothing is put into the queues or taken out of them.                    *)
LEMMA SameContents ==
    ASSUME IInv, Once(Queues'), All(Queues') = All(Queues),
           UNCHANGED <<counter, onAir, lost, pending, answered, faults, requests>>,
           got' \subseteq got, main'.arg = main.arg,
           main'.cid \in {main.cid, None}, monitor'.cid \in {monitor.cid, None}
    PROVE  Issued' /\ UnderWay'
<1>1. None \notin FutureIds
    BY IdKinds
<1>2. Issued'
    <2>1. \A c \in All(Queues') \cup onAir' \cup {m.cid : m \in got'} \cup {main'.cid, monitor'.cid} :
             c \in FutureIds => c[2] <= counter'
        BY <1>1 DEF IInv, Issued
    <2>2. \A c \in All(Queues') : c \in PingIds => c[2] < requests'
        BY DEF IInv, Issued
    <2>3. \A c \in All(Queues') \cup {main'.arg} : c \in Attempts =>
             c[2] <= faults' /\ (c[2] = faults' => c \in pending' \/ c[1] \in answered')
        BY DEF IInv, Issued
    <2>. QED
        BY <2>1, <2>2, <2>3 DEF Issued
<1>3. UnderWay'
    BY DEF IInv, UnderWay
<1>. QED
    BY <1>2, <1>3

(* A future is made and its request put into a queue.                      *)
LEMMA NewFuture ==
    ASSUME IInv, Once(Queues'), All(Queues') = All(Queues) \cup {NewCid},
           counter' = counter + 1, onAir' = onAir \cup {NewCid},
           UNCHANGED <<lost, pending, answered, faults, requests>>,
           got' \subseteq got, main'.arg = main.arg,
           main'.cid \in {main.cid, NewCid, None}, monitor'.cid \in {monitor.cid, NewCid, None}
    PROVE  Issued' /\ UnderWay'
<1>1. /\ None \notin FutureIds /\ NewCid \in FutureIds /\ NewCid[2] = counter + 1
      /\ counter \in Nat /\ NewCid \notin PingIds /\ NewCid \notin Attempts /\ NewCid # None
      /\ main.arg \in Attempts \cup {None}
    BY IdKinds, NewCidIsNew DEF IInv, Types
<1>2. ASSUME NEW c \in All(Queues') \cup onAir' \cup {m.cid : m \in got'} \cup {main'.cid, monitor'.cid},
             c \in FutureIds
      PROVE  c[2] <= counter'
    <2>1. CASE c = NewCid
        BY <1>1, <2>1
    <2>2. CASE c # NewCid
        <3>1. c \in All(Queues) \cup onAir \cup {m.cid : m \in got} \cup {main.cid, monitor.cid}
            BY <1>1, <1>2, <2>2
        <3>2. c[2] <= counter /\ c[2] \in Nat
            BY <1>2, <3>1, IdNumbers DEF IInv, Issued
        <3>. QED
            BY <1>1, <3>2
    <2>. QED
        BY <2>1, <2>2
<1>3. Issued'
    <2>1. \A c \in All(Queues') : c \in PingIds => c[2] < requests'
        BY <1>1 DEF IInv, Issued
    <2>2. \A c \in All(Queues') \cup {main'.arg} : c \in Attempts =>
             c[2] <= faults' /\ (c[2] = faults' => c \in pending' \/ c[1] \in answered')
        BY <1>1 DEF IInv, Issued
    <2>. QED
        BY <1>2, <2>1, <2>2 DEF Issued
<1>4. UnderWay'
    <2>1. main'.arg \notin All(Queues')
        BY <1>1 DEF IInv, UnderWay
    <2>2. \A c \in onAir' : c \in lost' \/ c \in All(Queues')
        BY DEF IInv, UnderWay
    <2>3. \A a \in pending' : a[2] = faults' /\ (a \in All(Queues') \/ a = main'.arg)
        BY DEF IInv, UnderWay
    <2>. QED
        BY <2>1, <2>2, <2>3 DEF UnderWay
<1>. QED
    BY <1>3, <1>4

(* A new future is not in the queues yet.                                  *)
LEMMA NewCidIsFree ==
    ASSUME IInv
    PROVE  /\ NewCid \notin All(Queues) /\ NewCid \notin onAir
           /\ NewCid # main.cid /\ NewCid # monitor.cid
<1>1. NewCid \in FutureIds /\ NewCid[2] = counter + 1 /\ counter \in Nat
    BY NewCidIsNew DEF IInv, Types
<1>2. ~ (NewCid[2] <= counter)
    BY <1>1
<1>. QED
    BY <1>1, <1>2 DEF IInv, Issued

(* The order of the requests is not touched.                               *)
LEMMA OrderSame ==
    ASSUME IInv, UNCHANGED <<requestQ, inbox, asked, replies>>,
           main'.at = "apply" <=> main.at = "apply", main'.arg = main.arg
    PROVE  InOrder'
<1>1. Base' = Base /\ Applying' = Applying
    BY DEF Base, Applying
<1>2. PICK f \in [(Base + 1) .. Len(asked) -> DOMAIN inbox] : Follows(f, inbox, asked, Base)
    BY DEF IInv, InOrder
<1>3. Follows(f, inbox', asked', Base')
    BY <1>1, <1>2
<1>4. \E g \in [(Base' + 1) .. Len(asked') -> DOMAIN inbox'] : Follows(g, inbox', asked', Base')
    BY <1>1, <1>2, <1>3
<1>. QED
    BY <1>1, <1>4 DEF IInv, InOrder

(* The answer that a future has.                                           *)
LEMMA AnswerIs ==
    ASSUME NEW c, HasAnswer(c) PROVE Answer(c) \in got /\ Answer(c).cid = c
<1>. QED
    BY DEF HasAnswer, Answer

(* The record of the queues as a function.                                 *)
LEMMA QueuesRecord ==
    ASSUME NEW R \in [Names -> Seq(Msg)]
    PROVE  [resp |-> R["resp"], state |-> R["state"], out |-> R["out"], back |-> R["back"],
            inbox |-> R["inbox"], request |-> R["request"]] = R
<1>. QED
    BY DEF Names

(* The queues after a step.                                                *)
LEMMA NextQueues ==
    /\ Queues'["resp"] = sendQ'["resp"] /\ Queues'["state"] = sendQ'["state"]
    /\ Queues'["out"] = out' /\ Queues'["back"] = back' /\ Queues'["inbox"] = inbox'
    /\ Queues'["request"] = requestQ'
<1>. QED
    BY DEF Queues

(* A stream sends: a message is put into its queue.                        *)
LEMMA StreamPut ==
    ASSUME IInv, NEW s \in {"resp", "state"}, NEW m \in Msg,
           sendQ' = [sendQ EXCEPT ![s] = Append(@, m)], UNCHANGED <<out, back, inbox, requestQ>>,
           m.cid \notin All(Queues)
    PROVE  /\ sendQ' \in [{"resp", "state"} -> Seq(Msg)]
           /\ Once(Queues') /\ All(Queues') = All(Queues) \cup {m.cid}
<1>1. /\ Queues \in [Names -> Seq(Msg)] /\ s \in Names /\ Queues[s] = sendQ[s]
    BY QueuesType DEF IInv, Names
<1>2. sendQ \in [{"resp", "state"} -> Seq(Msg)]
    BY DEF IInv, Types
<1>3. Append(sendQ[s], m) \in Seq(Msg)
    BY <1>2
<1>4. sendQ' \in [{"resp", "state"} -> Seq(Msg)]
    BY <1>2, <1>3
<1>5. Queues' = [Queues EXCEPT ![s] = Append(Queues[s], m)]
    <2>1. [Queues EXCEPT ![s] = Append(Queues[s], m)] \in [Names -> Seq(Msg)]
        BY <1>1, <1>3
    <2>. QED
        BY <1>1, <1>2, <2>1, QueuesRecord, QueuesType DEF Queues, IInv, Names
<1>6. Once(Queues)
    BY DEF IInv, UnderWay
<1>7. LET R == [Queues EXCEPT ![s] = Append(Queues[s], m)]
      IN  R \in [Names -> Seq(Msg)] /\ Once(R) /\ All(R) = All(Queues) \cup {m.cid}
    BY <1>1, <1>6, Put
<1>. QED
    BY <1>4, <1>5, <1>7

(* No queue changes.                                                       *)
LEMMA SameQueues ==
    ASSUME IInv, UNCHANGED <<sendQ, out, back, inbox, requestQ>>
    PROVE  Queues' = Queues /\ Once(Queues') /\ All(Queues') = All(Queues)
<1>1. Queues' = Queues
    BY DEF Queues
<1>. QED
    BY <1>1 DEF IInv, UnderWay

----------------------------------------------------------------------------
(* The steps                                                               *)

(* The invariant holds at the start.                                       *)
LEMMA InitIInv == Init => IInv
<1>. SUFFICES ASSUME Init PROVE IInv
    OBVIOUS
<1>1. /\ main = At("start", None, None) /\ monitor = At("idle", None, 0)
      /\ onAir = {} /\ got = {} /\ pending = {} /\ counter = 0
    BY DEF Init
<1>2. /\ main.at = "start" /\ main.cid = None /\ main.arg = None
      /\ monitor.at = "idle" /\ monitor.cid = None /\ monitor.arg = 0
    BY <1>1 DEF At
<1>3. Types
    <2>1. /\ main \in [at : {"start", "connected", "unregister", "idle", "apply"},
                       cid : FutureIds \cup {None}, arg : Attempts \cup {None}]
          /\ monitor \in [at : {"idle", "registering", "crashed", "off"},
                          cid : FutureIds \cup {None}, arg : 0 .. Handlers]
        BY <1>1, SawtoothAssumption DEF At
    <2>2. sendQ \in [{"resp", "state"} -> Seq(Msg)]
        BY DEF Init
    <2>3. /\ out \in Seq(Msg) /\ back \in Seq(Msg) /\ inbox \in Seq(Msg)
          /\ requestQ \in Seq(Process) /\ asked \in Seq(Attempts) /\ replies \in Seq(Attempts)
        BY DEF Init
    <2>4. counter \in Nat /\ requests \in Nat /\ faults \in 0 .. MaxFaults
        BY SawtoothAssumption DEF Init
    <2>. QED
        BY <2>1, <2>2, <2>3, <2>4 DEF Init, Types
<1>4. \A n \in Names : Queues[n] = <<>>
    BY DEF Init, Queues, Names
<1>5. Once(Queues) /\ All(Queues) = {}
    <2>1. \A n \in Names : DOMAIN Queues[n] = {} /\ Contents(Queues[n]) = {}
        BY <1>4 DEF Contents
    <2>2. All(Queues) = {}
        BY <2>1, InAll
    <2>. QED
        BY <2>1, <2>2 DEF Once
<1>6. Waiting
    BY <1>2 DEF Waiting
<1>7. Issued
    BY <1>1, <1>2, <1>5, IdKinds DEF Issued
<1>8. UnderWay
    BY <1>1, <1>5 DEF UnderWay
<1>9. InOrder
    <2>1. Len(replies) = 0 /\ Len(requestQ) = 0 /\ Len(asked) = 0 /\ Applying = 0 /\ Base = 0
        BY <1>2 DEF Init, Applying, Base
    <2>2. DOMAIN replies = {} /\ DOMAIN requestQ = {} /\ DOMAIN inbox = {}
        BY DEF Init
    <2>3. (0 + 1) .. 0 = {}
        OBVIOUS
    <2>4. [i \in {} |-> i] \in [{} -> {}]
        OBVIOUS
    <2>5. Follows([i \in {} |-> i], inbox, asked, Base)
        BY <2>1, <2>2, <2>3, <2>4 DEF Follows
    <2>6. \E f \in [(Base + 1) .. Len(asked) -> DOMAIN inbox] : Follows(f, inbox, asked, Base)
        BY <2>1, <2>2, <2>3, <2>4, <2>5
    <2>7. Base <= Len(asked)
        BY <2>1
    <2>. QED
        BY <1>2, <2>2, <2>6, <2>7 DEF InOrder
<1>. QED
    BY <1>3, <1>6, <1>7, <1>8, <1>9 DEF IInv

(* Steps of run before there are requests, of the receiver that is woken,  *)
(* and of the link that comes up.                                          *)
LEMMA QuietIInv == ASSUME IInv, Connect \/ StartMonitor \/ Wake \/ LinkUp PROVE IInv'
<1>1. /\ UNCHANGED <<sendQ, out, back, inbox, requestQ, asked, replies, monitor, connected,
                     counter, onAir, got, lost, pending, answered, registered, faults, requests>>
      /\ awake' \in BOOLEAN /\ readable' \in BOOLEAN /\ missed' \in BOOLEAN
    BY DEF Connect, StartMonitor, Wake, LinkUp, local, futures, socket, peer, history, IInv, Types
<1>2. \/ main' = main
      \/ main.at \in {"start", "connected"} /\ main' = At("connected", None, None)
      \/ main.at \in {"start", "connected"} /\ main' = At("idle", None, None)
    BY DEF Connect, StartMonitor, Wake, LinkUp, local
<1>3. /\ main' \in [at : {"start", "connected", "unregister", "idle", "apply"},
                    cid : FutureIds \cup {None}, arg : Attempts \cup {None}]
      /\ main'.at = "apply" <=> main.at = "apply"
      /\ main'.arg = main.arg /\ main'.cid = main.cid
      /\ main'.at \in {"apply", "unregister"} <=> main.at \in {"apply", "unregister"}
    BY <1>2 DEF At, IInv, Types, Waiting
<1>4. Types'
    BY <1>1, <1>3 DEF IInv, Types
<1>5. Waiting'
    BY <1>1, <1>3 DEF IInv, Waiting
<1>6. Issued' /\ UnderWay'
    BY <1>1, <1>3, SameQueues, SameContents
<1>7. InOrder'
    BY <1>1, <1>3, OrderSame
<1>. QED
    BY <1>4, <1>5, <1>6, <1>7 DEF IInv

(* ConnectFails keeps the invariant.                                       *)
LEMMA ConnectFailsIInv == ASSUME IInv, ConnectFails PROVE IInv'
<1>1. /\ main.at = "start" /\ main' = At("unregister", NewCid, None)
      /\ counter' = counter + 1 /\ onAir' = onAir \cup {NewCid} /\ got' = got
      /\ sendQ' = [sendQ EXCEPT !["resp"] = Append(@, Message("unregister", NewCid, 0))]
      /\ UNCHANGED <<monitor, connected, out, inbox, requestQ, awake, readable, back,
                     registered, pending, answered, faults, requests, missed, lost, asked, replies>>
    BY DEF ConnectFails, AsyncSend, socket, peer, history
<1>2. /\ NewCid \in FutureIds /\ NewCid # None /\ counter + 1 \in Nat
      /\ NewCid \notin All(Queues) /\ NewCid # monitor.cid
    BY NewCidIsNew, NewCidIsFree DEF IInv, Types
<1>3. Message("unregister", NewCid, 0) \in Msg /\ Message("unregister", NewCid, 0).cid = NewCid
    BY <1>2, SawtoothAssumption DEF Message, Msg, Own, Theirs, Ids
<1>4. /\ sendQ' \in [{"resp", "state"} -> Seq(Msg)]
      /\ Once(Queues') /\ All(Queues') = All(Queues) \cup {NewCid}
    BY <1>1, <1>2, <1>3, StreamPut
<1>5. /\ main' \in [at : {"start", "connected", "unregister", "idle", "apply"},
                    cid : FutureIds \cup {None}, arg : Attempts \cup {None}]
      /\ main'.at = "unregister" /\ main'.cid = NewCid /\ main'.arg = None /\ main.arg = None
    BY <1>1, <1>2 DEF At, IInv, Types, Waiting
<1>6. Types'
    BY <1>1, <1>2, <1>4, <1>5 DEF IInv, Types
<1>7. Waiting'
    BY <1>1, <1>2, <1>5 DEF IInv, Waiting
<1>8. Issued' /\ UnderWay'
    BY <1>1, <1>4, <1>5, NewFuture
<1>9. InOrder'
    BY <1>1, <1>5, OrderSame
<1>. QED
    BY <1>6, <1>7, <1>8, <1>9 DEF IInv

(* The monitor that is not there waits for nothing.                        *)
LEMMA NoMonitorIInv == ASSUME IInv, MonitorFails \/ WaitFails PROVE IInv'
<1>1. /\ UNCHANGED <<sendQ, out, back, inbox, requestQ, asked, replies, connected, counter,
                     onAir, got, lost, pending, answered, registered, faults, requests,
                     awake, readable, missed>>
      /\ monitor.at = "idle" \/ main.at = "connected"
      /\ monitor' = At("off", None, 0)
    BY DEF MonitorFails, WaitFails, futures, socket, peer, history
<1>2. \/ main' = main
      \/ main.at = "connected" /\ main' = At("idle", None, None)
    BY DEF MonitorFails, WaitFails
<1>3. /\ main' \in [at : {"start", "connected", "unregister", "idle", "apply"},
                    cid : FutureIds \cup {None}, arg : Attempts \cup {None}]
      /\ main'.at = "apply" <=> main.at = "apply"
      /\ main'.arg = main.arg /\ main'.cid = main.cid
      /\ main'.at \in {"apply", "unregister"} <=> main.at \in {"apply", "unregister"}
    BY <1>2 DEF At, IInv, Types, Waiting
<1>4. /\ monitor' \in [at : {"idle", "registering", "crashed", "off"},
                       cid : FutureIds \cup {None}, arg : 0 .. Handlers]
      /\ monitor'.at = "off" /\ monitor'.cid = None
    BY <1>1, SawtoothAssumption DEF At
<1>5. Types'
    BY <1>1, <1>3, <1>4 DEF IInv, Types
<1>6. Waiting'
    BY <1>1, <1>3, <1>4 DEF IInv, Waiting
<1>7. Issued' /\ UnderWay'
    BY <1>1, <1>3, <1>4, SameQueues, SameContents
<1>8. InOrder'
    BY <1>1, <1>3, OrderSame
<1>. QED
    BY <1>5, <1>6, <1>7, <1>8 DEF IInv

(* registerAll asks for the registration of handler h and waits.           *)
LEMMA RegisterKeeps ==
    ASSUME IInv, NEW h \in 1 .. Handlers,
           counter' = counter + 1, onAir' = onAir \cup {NewCid},
           got' = got \/ (HasAnswer(monitor.cid) /\ got' = got \ {Answer(monitor.cid)}),
           sendQ' = [sendQ EXCEPT !["resp"] = Append(@, Message("register", NewCid, h))],
           monitor' = At("registering", NewCid, h),
           UNCHANGED <<main, connected, out, inbox, requestQ, socket, back, peer, history>>
    PROVE  IInv'
<1>1. UNCHANGED <<awake, readable, registered, pending, answered, faults, requests, missed, lost,
                  asked, replies>>
    BY DEF socket, peer, history
<1>2. /\ NewCid \in FutureIds /\ NewCid # None /\ counter + 1 \in Nat
      /\ NewCid \notin All(Queues) /\ NewCid # main.cid
    BY NewCidIsNew, NewCidIsFree DEF IInv, Types
<1>3. h \in 0 .. Handlers
    BY SawtoothAssumption
<1>4. Message("register", NewCid, h) \in Msg /\ Message("register", NewCid, h).cid = NewCid
    BY <1>2, <1>3 DEF Message, Msg, Own, Theirs, Ids
<1>5. /\ sendQ' \in [{"resp", "state"} -> Seq(Msg)]
      /\ Once(Queues') /\ All(Queues') = All(Queues) \cup {NewCid}
    BY <1>1, <1>2, <1>4, StreamPut
<1>6. /\ monitor' \in [at : {"idle", "registering", "crashed", "off"},
                       cid : FutureIds \cup {None}, arg : 0 .. Handlers]
      /\ monitor'.at = "registering" /\ monitor'.cid = NewCid
    BY <1>2, <1>3 DEF At
<1>7. /\ got' \subseteq got
      /\ \A c : c # monitor.cid /\ (\E m \in got : m.cid = c) => \E m \in got' : m.cid = c
    BY AnswerIs
<1>8. Types'
    BY <1>1, <1>2, <1>5, <1>6, <1>7 DEF IInv, Types
<1>9. Waiting'
    <2>1. main.cid # None => main.cid # monitor.cid
        BY DEF IInv, Waiting
    <2>2. main.cid # None => main.cid \in onAir' \/ \E m \in got' : m.cid = main.cid
        BY <1>7, <2>1 DEF IInv, Waiting
    <2>3. /\ main.at = "apply" <=> main.arg # None
          /\ main.cid # None <=> main.at \in {"apply", "unregister"}
        BY DEF IInv, Waiting
    <2>. QED
        BY <1>2, <1>6, <2>2, <2>3 DEF Waiting
<1>10. Issued' /\ UnderWay'
    BY <1>1, <1>5, <1>6, <1>7, NewFuture
<1>11. InOrder'
    BY <1>1, OrderSame
<1>. QED
    BY <1>8, <1>9, <1>10, <1>11 DEF IInv

(* The future that the monitor waited for has its answer; it is not needed *)
(* any more.                                                               *)
LEMMA MonitorKeeps ==
    ASSUME IInv, UNCHANGED <<main, counter, onAir, sendQ, out, inbox, requestQ, socket, back,
                             peer, history>>,
           got' = got \/ (HasAnswer(monitor.cid) /\ got' = got \ {Answer(monitor.cid)}),
           connected' \in BOOLEAN,
           \/ monitor' = monitor /\ got' = got
           \/ monitor' = At("idle", None, 0)
           \/ monitor' = At("crashed", None, 0)
    PROVE  IInv'
<1>1. UNCHANGED <<awake, readable, registered, pending, answered, faults, requests, missed, lost,
                  asked, replies>>
    BY DEF socket, peer, history
<1>2. /\ monitor' \in [at : {"idle", "registering", "crashed", "off"},
                       cid : FutureIds \cup {None}, arg : 0 .. Handlers]
      /\ monitor'.cid \in {monitor.cid, None}
      /\ monitor'.cid # None <=> monitor'.at = "registering"
      /\ monitor'.cid # None => monitor' = monitor /\ got' = got
    BY SawtoothAssumption DEF At, IInv, Types, Waiting
<1>3. /\ got' \subseteq got
      /\ \A c : c # monitor.cid /\ (\E m \in got : m.cid = c) => \E m \in got' : m.cid = c
    BY AnswerIs
<1>4. Types'
    BY <1>1, <1>2, <1>3 DEF IInv, Types
<1>5. Waiting'
    <2>1. main.cid # None => main.cid # monitor.cid
        BY DEF IInv, Waiting
    <2>2. main.cid # None => main.cid \in onAir' \/ \E m \in got' : m.cid = main.cid
        BY <1>3, <2>1 DEF IInv, Waiting
    <2>3. /\ main.at = "apply" <=> main.arg # None
          /\ main.cid # None <=> main.at \in {"apply", "unregister"}
        BY DEF IInv, Waiting
    <2>4. monitor'.cid # None => monitor'.cid \in onAir' \/ \E m \in got' : m.cid = monitor'.cid
        BY <1>2 DEF IInv, Waiting
    <2>. QED
        BY <1>2, <2>1, <2>2, <2>3, <2>4 DEF Waiting
<1>6. Issued' /\ UnderWay'
    BY <1>1, <1>2, <1>3, SameQueues, SameContents
<1>7. InOrder'
    BY <1>1, OrderSame
<1>. QED
    BY <1>4, <1>5, <1>6, <1>7 DEF IInv

(* Steps of the monitor's coroutine.                                       *)
LEMMA MonitorIInv == ASSUME IInv, OnEvent \/ Registered \/ RegisterRefused PROVE IInv'
<1>1. CASE OnEvent
    <2>1. monitor.at = "idle" /\ monitor.cid = None
        BY <1>1 DEF OnEvent, IInv, Waiting
    <2>2. CASE Head(events) = "CONNECTED" /\ ~ connected
        <3>1. 1 \in 1 .. Handlers
            BY SawtoothAssumption
        <3>2. Register(1) /\ UNCHANGED <<connected, main, out, inbox, requestQ, socket, back,
                                         peer, history>>
            BY <1>1, <2>2 DEF OnEvent
        <3>. QED
            BY <2>1, <3>1, <3>2, RegisterKeeps DEF Register, AsyncSend
    <2>3. CASE ~ (Head(events) = "CONNECTED" /\ ~ connected)
        <3>1. /\ connected' \in BOOLEAN
              /\ UNCHANGED <<monitor, counter, onAir, got, sendQ, main, out, inbox, requestQ,
                             socket, back, peer, history>>
            BY <1>1, <2>3 DEF OnEvent, futures
        <3>. QED
            BY <3>1, MonitorKeeps
    <2>. QED
        BY <2>2, <2>3
<1>2. CASE Registered
    <2>1. /\ HasAnswer(monitor.cid)
          /\ UNCHANGED <<main, out, inbox, requestQ, socket, back, peer, history>>
        BY <1>2 DEF Registered
    <2>2. CASE monitor.arg < Handlers
        <3>1. monitor.arg + 1 \in 1 .. Handlers
            BY <2>2, SawtoothAssumption DEF IInv, Types
        <3>. QED
            BY <1>2, <2>1, <2>2, <3>1, RegisterKeeps DEF Registered
    <2>3. CASE ~ (monitor.arg < Handlers)
        BY <1>2, <2>1, <2>3, MonitorKeeps DEF Registered, Taken
    <2>. QED
        BY <2>2, <2>3
<1>3. CASE RegisterRefused
    <2>1. connected' \in BOOLEAN
        BY <1>3 DEF RegisterRefused, IInv, Types
    <2>. QED
        BY <1>3, <2>1, MonitorKeeps DEF RegisterRefused, Taken
<1>. QED
    BY <1>1, <1>2, <1>3

(* A message goes from queue a to queue b of the processor.                *)
LEMMA QueuesMove ==
    ASSUME IInv, NEW a \in Names, NEW b \in Names, a # b, Queues[a] # <<>>,
           NEW m \in Msg, m.cid = Head(Queues[a]).cid,
           Queues'[a] = Tail(Queues[a]), Queues'[b] = Append(Queues[b], m),
           \A n \in Names \ {a, b} : Queues'[n] = Queues[n]
    PROVE  Queues'[a] \in Seq(Msg) /\ Queues'[b] \in Seq(Msg)
           /\ Once(Queues') /\ All(Queues') = All(Queues)
<1>1. Queues \in [Names -> Seq(Msg)] /\ Once(Queues)
    BY QueuesType DEF IInv, UnderWay
<1>2. PICK R \in [Names -> Seq(Msg)] :
         /\ R[a] = Tail(Queues[a]) /\ R[b] = Append(Queues[b], m)
         /\ \A n \in Names \ {a, b} : R[n] = Queues[n]
         /\ Once(R) /\ All(R) = All(Queues)
    BY <1>1, Move, ZenonT(60)
<1>3. \A n \in Names : Queues'[n] = R[n]
    BY <1>2
<1>4. Queues' = R
    BY <1>2, <1>3, QueuesRecord DEF Queues, Names
<1>. QED
    BY <1>2, <1>4

(* The first message of queue a is taken out, a new one put into queue b.  *)
LEMMA QueuesReplace ==
    ASSUME IInv, NEW a \in Names, NEW b \in Names, a # b, Queues[a] # <<>>,
           NEW m \in Msg, m.cid \notin All(Queues),
           Queues'[a] = Tail(Queues[a]), Queues'[b] = Append(Queues[b], m),
           \A n \in Names \ {a, b} : Queues'[n] = Queues[n]
    PROVE  /\ Once(Queues') /\ Head(Queues[a]).cid \in All(Queues)
           /\ All(Queues') = (All(Queues) \ {Head(Queues[a]).cid}) \cup {m.cid}
<1>1. Queues \in [Names -> Seq(Msg)] /\ Once(Queues)
    BY QueuesType DEF IInv, UnderWay
<1>2. PICK R : Replaced(Queues, a, b, m, R)
    BY <1>1, Replace, Zenon
<1>3. R \in [Names -> Seq(Msg)] /\ \A n \in Names : Queues'[n] = R[n]
    BY <1>2 DEF Replaced
<1>4. Queues' = R
    BY <1>3, QueuesRecord DEF Queues, Names
<1>. QED
    BY <1>2, <1>4 DEF Replaced

(* The first message of queue a is taken out.                              *)
LEMMA QueuesTake ==
    ASSUME IInv, NEW a \in Names, Queues[a] # <<>>,
           Queues'[a] = Tail(Queues[a]), \A n \in Names \ {a} : Queues'[n] = Queues[n]
    PROVE  /\ Queues'[a] \in Seq(Msg) /\ Once(Queues')
           /\ Head(Queues[a]) \in Msg /\ Head(Queues[a]).cid \in All(Queues)
           /\ All(Queues') = All(Queues) \ {Head(Queues[a]).cid}
<1>. DEFINE R == [Queues EXCEPT ![a] = Tail(Queues[a])]
<1>1. Queues \in [Names -> Seq(Msg)]
    BY QueuesType DEF IInv
<1>2. /\ R \in [Names -> Seq(Msg)] /\ Once(R)
      /\ Head(Queues[a]) \in Msg /\ Head(Queues[a]).cid \in All(Queues)
      /\ All(R) = All(Queues) \ {Head(Queues[a]).cid}
    BY <1>1, Take DEF IInv, UnderWay
<1>3. \A n \in Names : Queues'[n] = R[n]
    BY <1>1
<1>. HIDE DEF R
<1>4. Queues' = R
    BY <1>2, <1>3, QueuesRecord DEF Queues, Names
<1>. QED
    BY <1>2, <1>4

(* The validator sends: a message is put into back.                        *)
LEMMA BackPut ==
    ASSUME IInv, NEW m \in Msg, m.cid \notin All(Queues),
           back' = Append(back, m), UNCHANGED <<sendQ, out, inbox, requestQ>>
    PROVE  back' \in Seq(Msg) /\ Once(Queues') /\ All(Queues') = All(Queues) \cup {m.cid}
<1>. DEFINE R == [Queues EXCEPT !["back"] = Append(Queues["back"], m)]
<1>1. Queues \in [Names -> Seq(Msg)] /\ "back" \in Names /\ Queues["back"] = back
    BY QueuesType DEF IInv, Names
<1>2. R \in [Names -> Seq(Msg)] /\ Once(R) /\ All(R) = All(Queues) \cup {m.cid}
    BY <1>1, Put DEF IInv, UnderWay
<1>3. \A n \in Names : Queues'[n] = R[n]
    BY <1>1, NextQueues, QueuesType DEF IInv, Names
<1>4. R["back"] = Append(back, m)
    BY <1>1
<1>. HIDE DEF R
<1>5. Queues' = R
    BY <1>2, <1>3, QueuesRecord DEF Queues, Names
<1>. QED
    BY <1>1, <1>2, <1>4, <1>5

(* SendMessages keeps the invariant.                                       *)
LEMMA SendMessagesIInv ==
    ASSUME IInv, NEW s \in {"resp", "state"}, SendMessages(s) PROVE IInv'
<1>1. /\ sendQ[s] # <<>> /\ sendQ' = [sendQ EXCEPT ![s] = Tail(@)]
      /\ out' = Append(out, Head(sendQ[s])) /\ readable' \in {readable, FALSE}
      /\ UNCHANGED <<main, monitor, connected, counter, onAir, got, inbox, requestQ, awake, back,
                     registered, pending, answered, faults, requests, missed, lost, asked, replies>>
    BY DEF SendMessages, MayConsume, local, futures, peer, history
<1>2. /\ sendQ \in [{"resp", "state"} -> Seq(Msg)] /\ out \in Seq(Msg)
    BY DEF IInv, Types
<1>3. /\ Head(sendQ[s]) \in Msg /\ Tail(sendQ[s]) \in Seq(Msg)
    BY <1>1, <1>2
<1>4. /\ sendQ' \in [{"resp", "state"} -> Seq(Msg)] /\ out' \in Seq(Msg)
    BY <1>1, <1>2, <1>3
<1>5. Once(Queues') /\ All(Queues') = All(Queues)
    <2>1. s \in Names /\ "out" \in Names /\ s # "out" /\ Queues[s] = sendQ[s] /\ Queues["out"] = out
        BY QueuesType DEF IInv, Names
    <2>2. /\ Queues'[s] = Tail(Queues[s]) /\ Queues'["out"] = Append(Queues["out"], Head(Queues[s]))
          /\ \A n \in Names \ {s, "out"} : Queues'[n] = Queues[n]
        <3>2. Queues'[s] = Tail(Queues[s])
            BY <1>1, <1>2, <2>1, NextQueues
        <3>3. Queues'["out"] = Append(Queues["out"], Head(Queues[s]))
            BY <1>1, <2>1, NextQueues
        <3>4. \A n \in Names \ {s, "out"} : Queues'[n] = Queues[n]
            BY <1>1, <1>2, NextQueues, QueuesType DEF IInv, Names
        <3>. QED
            BY <3>2, <3>3, <3>4
    <2>. QED
        BY <1>1, <1>3, <2>1, <2>2, QueuesMove
<1>6. Types'
    <2>1. readable' \in BOOLEAN
        BY <1>1 DEF IInv, Types
    <2>. QED
        BY <1>1, <1>4, <2>1 DEF IInv, Types
<1>7. Waiting'
    BY <1>1 DEF IInv, Waiting
<1>8. Issued' /\ UnderWay'
    BY <1>1, <1>5, SameContents
<1>9. InOrder'
    BY <1>1, OrderSame
<1>. QED
    BY <1>6, <1>7, <1>8, <1>9 DEF IInv

(* Ping keeps the invariant.                                               *)
LEMMA PingIInv == ASSUME IInv, Ping PROVE IInv'
<1>. DEFINE m == Message("ping", <<"ping", requests>>, 0)
<1>1. /\ requests' = requests + 1 /\ back' = Append(back, m)
      /\ UNCHANGED <<main, monitor, connected, counter, onAir, got, sendQ, out, inbox, requestQ,
                     awake, readable, registered, pending, answered, faults, missed, lost,
                     asked, replies>>
    BY DEF Ping, local, futures, socket, history
<1>2. requests \in Nat
    BY DEF IInv, Types
<1>3. <<"ping", requests>> \in PingIds /\ <<"ping", requests>>[2] = requests
    BY <1>2 DEF PingIds
<1>4. m \in Msg /\ m.cid = <<"ping", requests>>
    BY <1>3, SawtoothAssumption DEF Message, Msg, Own, Theirs, Ids
<1>5. m.cid \notin All(Queues)
    BY <1>2, <1>3, <1>4 DEF IInv, Issued
<1>6. back' \in Seq(Msg) /\ Once(Queues') /\ All(Queues') = All(Queues) \cup {m.cid}
    BY <1>1, <1>4, <1>5, BackPut
<1>7. Types'
    BY <1>1, <1>2, <1>6 DEF IInv, Types
<1>8. Waiting'
    BY <1>1 DEF IInv, Waiting
<1>. HIDE DEF m
<1>9. m.cid \notin FutureIds /\ m.cid \notin Attempts /\ m.cid # None
    BY <1>3, <1>4, IdKinds
<1>10. Issued'
    <2>1. \A c \in All(Queues') : c \in PingIds => c[2] < requests'
        <3>1. \A c \in All(Queues) : c \in PingIds => c[2] < requests /\ c[2] \in Nat
            BY IdNumbers DEF IInv, Issued
        <3>. QED
            BY <1>1, <1>2, <1>3, <1>4, <1>6, <3>1
    <2>2. \A c \in All(Queues') \cup onAir' \cup {g.cid : g \in got'} \cup {main'.cid, monitor'.cid} :
             c \in FutureIds => c[2] <= counter'
        BY <1>1, <1>6, <1>9 DEF IInv, Issued
    <2>3. \A c \in All(Queues') \cup {main'.arg} : c \in Attempts =>
             c[2] <= faults' /\ (c[2] = faults' => c \in pending' \/ c[1] \in answered')
        BY <1>1, <1>6, <1>9 DEF IInv, Issued
    <2>. QED
        BY <2>1, <2>2, <2>3 DEF Issued
<1>11. UnderWay'
    <2>1. main.arg # m.cid
        BY <1>9 DEF IInv, Types
    <2>. QED
        BY <1>1, <1>6, <2>1 DEF IInv, UnderWay
<1>12. InOrder'
    BY <1>1, OrderSame
<1>. QED
    BY <1>7, <1>8, <1>10, <1>11, <1>12 DEF IInv

(* Submit keeps the invariant.                                             *)
LEMMA SubmitIInv == ASSUME IInv, NEW t \in Txns, Submit(t) PROVE IInv'
<1>. DEFINE a == <<t, faults>>
            m == Message("process", a, 0)
<1>1. /\ requests' = requests + 1 /\ back' = Append(back, m)
      /\ t \notin answered /\ a \notin pending /\ pending' = pending \cup {a}
      /\ UNCHANGED <<main, monitor, connected, counter, onAir, got, sendQ, out, inbox, requestQ,
                     awake, readable, registered, answered, faults, missed, lost,
                     asked, replies>>
    BY DEF Submit, local, futures, socket, history
<1>2. requests \in Nat /\ faults \in 0 .. MaxFaults /\ faults \in Nat
    BY SawtoothAssumption DEF IInv, Types
<1>3. a \in Attempts /\ a[1] = t /\ a[2] = faults
    BY <1>2, IdNumbers
<1>4. m \in Msg /\ m.cid = a
    BY <1>3, SawtoothAssumption DEF Message, Msg, Own, Theirs, Ids
<1>5. a \notin All(Queues) /\ a # main.arg
    BY <1>1, <1>3 DEF IInv, Issued
<1>6. back' \in Seq(Msg) /\ Once(Queues') /\ All(Queues') = All(Queues) \cup {a}
    BY <1>1, <1>4, <1>5, BackPut
<1>. HIDE DEF m, a
<1>7. Types'
    BY <1>1, <1>2, <1>3, <1>6 DEF IInv, Types
<1>8. Waiting'
    BY <1>1 DEF IInv, Waiting
<1>9. a \notin FutureIds /\ a \notin PingIds
    BY <1>3, IdKinds
<1>10. Issued'
    <2>1. \A c \in All(Queues') : c \in PingIds => c[2] < requests'
        <3>1. \A c \in All(Queues) : c \in PingIds => c[2] < requests /\ c[2] \in Nat
            BY IdNumbers DEF IInv, Issued
        <3>. QED
            BY <1>1, <1>2, <1>6, <1>9, <3>1
    <2>2. \A c \in All(Queues') \cup onAir' \cup {g.cid : g \in got'} \cup {main'.cid, monitor'.cid} :
             c \in FutureIds => c[2] <= counter'
        BY <1>1, <1>6, <1>9 DEF IInv, Issued
    <2>3. \A c \in All(Queues') \cup {main'.arg} : c \in Attempts =>
             c[2] <= faults' /\ (c[2] = faults' => c \in pending' \/ c[1] \in answered')
        BY <1>1, <1>2, <1>3, <1>6 DEF IInv, Issued
    <2>. QED
        BY <2>1, <2>2, <2>3 DEF Issued
<1>11. UnderWay'
    <2>1. \A b \in pending' : b[2] = faults' /\ (b \in All(Queues') \/ b = main'.arg)
        BY <1>1, <1>3, <1>6 DEF IInv, UnderWay
    <2>2. main'.arg \notin All(Queues')
        BY <1>1, <1>5, <1>6 DEF IInv, UnderWay
    <2>. QED
        BY <1>1, <1>6, <2>1, <2>2 DEF IInv, UnderWay
<1>12. InOrder'
    BY <1>1, OrderSame
<1>. QED
    BY <1>7, <1>8, <1>10, <1>11, <1>12 DEF IInv

----------------------------------------------------------------------------
(* The order of the requests                                               *)

(* A message arrives at the end of the queue.                              *)
LEMMA FollowsAppend ==
    ASSUME NEW q \in Seq(Msg), NEW s \in Seq(Attempts), NEW b \in Nat, b <= Len(s),
           NEW f, Follows(f, q, s, b), NEW m \in Msg
    PROVE  /\ m.type # "process" => Follows(f, Append(q, m), s, b)
           /\ m.type = "process" => \E g : Follows(g, Append(q, m), Append(s, m.cid), b)
<1>1. /\ Len(q) \in Nat /\ Len(s) \in Nat
      /\ DOMAIN q = 1 .. Len(q) /\ DOMAIN Append(q, m) = 1 .. (Len(q) + 1)
      /\ Len(Append(s, m.cid)) = Len(s) + 1
    OBVIOUS
<1>2. /\ \A k \in DOMAIN q : k \in DOMAIN Append(q, m) /\ Append(q, m)[k] = q[k]
      /\ Append(q, m)[Len(q) + 1] = m /\ Len(q) + 1 \in DOMAIN Append(q, m)
    OBVIOUS
<1>3. \A k \in DOMAIN Append(q, m) : k \in DOMAIN q \/ k = Len(q) + 1
    BY <1>1
<1>4. f \in [(b + 1) .. Len(s) -> DOMAIN q]
    BY DEF Follows
<1>5. ASSUME m.type # "process" PROVE Follows(f, Append(q, m), s, b)
    <2>1. f \in [(b + 1) .. Len(s) -> DOMAIN Append(q, m)]
        BY <1>2, <1>4
    <2>2. \A i \in (b + 1) .. Len(s) :
             Append(q, m)[f[i]].type = "process" /\ Append(q, m)[f[i]].cid = s[i]
        BY <1>2, <1>4 DEF Follows
    <2>3. \A k \in DOMAIN Append(q, m) : Append(q, m)[k].type = "process" =>
             \E i \in (b + 1) .. Len(s) : f[i] = k
        BY <1>2, <1>3, <1>5 DEF Follows
    <2>. QED
        BY <2>1, <2>2, <2>3 DEF Follows
<1>6. ASSUME m.type = "process" PROVE \E g : Follows(g, Append(q, m), Append(s, m.cid), b)
    <2>. DEFINE D == (b + 1) .. (Len(s) + 1)
                g == [i \in D |-> IF i = Len(s) + 1 THEN Len(q) + 1 ELSE f[i]]
    <2>1. \A i \in D : i = Len(s) + 1 \/ (i \in (b + 1) .. Len(s) /\ i # Len(s) + 1)
        BY <1>1
    <2>2. /\ \A i \in (b + 1) .. Len(s) : i \in D /\ g[i] = f[i] /\ f[i] \in DOMAIN q
          /\ Len(s) + 1 \in D /\ g[Len(s) + 1] = Len(q) + 1
        BY <1>1, <1>4
    <2>3. DOMAIN g = D /\ g = [i \in D |-> g[i]]
        OBVIOUS
    <2>. HIDE DEF g
    <2>4. g \in [D -> DOMAIN Append(q, m)]
        BY <1>2, <2>1, <2>2, <2>3
    <2>5. ASSUME NEW i \in D, NEW j \in D, i < j PROVE g[i] < g[j]
        <3>1. i \in (b + 1) .. Len(s)
            BY <1>1, <2>1, <2>5
        <3>2. g[i] = f[i] /\ f[i] \in Nat /\ f[i] <= Len(q)
            BY <1>1, <2>2, <3>1
        <3>3. CASE j = Len(s) + 1
            BY <1>1, <2>2, <3>2, <3>3
        <3>4. CASE j \in (b + 1) .. Len(s)
            BY <2>2, <2>5, <3>1, <3>4 DEF Follows
        <3>. QED
            BY <2>1, <3>3, <3>4
    <2>6. ASSUME NEW i \in D
          PROVE  Append(q, m)[g[i]].type = "process" /\ Append(q, m)[g[i]].cid = Append(s, m.cid)[i]
        <3>1. CASE i = Len(s) + 1
            BY <1>1, <1>2, <1>6, <2>2, <3>1
        <3>2. CASE i \in (b + 1) .. Len(s)
            <4>1. Append(s, m.cid)[i] = s[i]
                BY <1>1, <3>2
            <4>. QED
                BY <1>2, <2>2, <3>2, <4>1 DEF Follows
        <3>. QED
            BY <2>1, <3>1, <3>2
    <2>7. ASSUME NEW k \in DOMAIN Append(q, m), Append(q, m)[k].type = "process"
          PROVE  \E i \in D : g[i] = k
        <3>1. CASE k = Len(q) + 1
            BY <2>2, <3>1
        <3>2. CASE k \in DOMAIN q
            BY <1>2, <2>2, <2>7, <3>2 DEF Follows
        <3>. QED
            BY <1>3, <3>1, <3>2
    <2>8. Follows(g, Append(q, m), Append(s, m.cid), b)
        BY <1>1, <2>4, <2>5, <2>6, <2>7 DEF Follows
    <2>. QED
        BY <2>8
<1>. QED
    BY <1>5, <1>6

(* The first message of the queue is received.                             *)
LEMMA FollowsTail ==
    ASSUME NEW q \in Seq(Msg), NEW s \in Seq(Attempts), NEW b \in Nat, b <= Len(s),
           NEW f, Follows(f, q, s, b), q # <<>>
    PROVE  /\ Head(q).type # "process" => \E g : Follows(g, Tail(q), s, b)
           /\ Head(q).type = "process" =>
                 /\ b + 1 <= Len(s) /\ s[b + 1] = Head(q).cid
                 /\ \E g : Follows(g, Tail(q), s, b + 1)
<1>1. /\ Len(q) \in Nat \ {0} /\ Len(s) \in Nat
      /\ DOMAIN q = 1 .. Len(q) /\ DOMAIN Tail(q) = 1 .. (Len(q) - 1)
      /\ 1 \in DOMAIN q /\ Head(q) = q[1]
    OBVIOUS
<1>2. \A k \in DOMAIN Tail(q) : k + 1 \in DOMAIN q /\ Tail(q)[k] = q[k + 1]
    BY <1>1
<1>3. f \in [(b + 1) .. Len(s) -> DOMAIN q]
    BY DEF Follows
<1>4. ASSUME NEW c \in {b, b + 1}, \A i \in (c + 1) .. Len(s) : f[i] # 1,
             \A i \in (b + 1) .. Len(s) : i \notin (c + 1) .. Len(s) => f[i] = 1
      PROVE  \E g : Follows(g, Tail(q), s, c)
    <2>. DEFINE D == (c + 1) .. Len(s)
                g == [i \in D |-> f[i] - 1]
    <2>1. \A i \in D : i \in (b + 1) .. Len(s)
        BY <1>1, <1>4
    <2>2. \A i \in D : f[i] \in DOMAIN q /\ f[i] \in Nat /\ f[i] # 1
        BY <1>1, <1>3, <1>4, <2>1
    <2>3. \A i \in D : g[i] = f[i] - 1 /\ g[i] + 1 = f[i] /\ g[i] \in DOMAIN Tail(q)
        BY <1>1, <2>2
    <2>4. g \in [D -> DOMAIN Tail(q)]
        BY <2>3
    <2>. HIDE DEF g
    <2>5. ASSUME NEW i \in D, NEW j \in D, i < j PROVE g[i] < g[j]
        <3>1. f[i] < f[j]
            BY <2>1, <2>5 DEF Follows
        <3>. QED
            BY <2>2, <2>3, <3>1
    <2>6. ASSUME NEW i \in D
          PROVE  Tail(q)[g[i]].type = "process" /\ Tail(q)[g[i]].cid = s[i]
        <3>1. Tail(q)[g[i]] = q[f[i]]
            BY <1>2, <2>3
        <3>2. i \in (b + 1) .. Len(s)
            BY <2>1
        <3>3. q[f[i]].type = "process" /\ q[f[i]].cid = s[i]
            BY <3>2 DEF Follows
        <3>. QED
            BY <3>1, <3>3
    <2>7. ASSUME NEW k \in DOMAIN Tail(q), Tail(q)[k].type = "process"
          PROVE  \E i \in D : g[i] = k
        <3>1. k + 1 \in DOMAIN q /\ q[k + 1].type = "process" /\ k \in Nat \ {0}
            BY <1>1, <1>2, <2>7
        <3>2. PICK i \in (b + 1) .. Len(s) : f[i] = k + 1
            BY <3>1 DEF Follows
        <3>3. f[i] # 1
            BY <3>1, <3>2
        <3>4. i \in D
            BY <1>4, <3>3
        <3>5. g[i] = k
            BY <2>3, <3>1, <3>2, <3>4
        <3>. QED
            BY <3>4, <3>5
    <2>8. Follows(g, Tail(q), s, c)
        BY <2>4, <2>5, <2>6, <2>7 DEF Follows
    <2>. QED
        BY <2>8
<1>5. ASSUME Head(q).type # "process" PROVE \E g : Follows(g, Tail(q), s, b)
    <2>1. \A i \in (b + 1) .. Len(s) : f[i] # 1
        BY <1>1, <1>5 DEF Follows
    <2>. QED
        BY <1>4, <2>1
<1>6. ASSUME Head(q).type = "process"
      PROVE  /\ b + 1 <= Len(s) /\ s[b + 1] = Head(q).cid
             /\ \E g : Follows(g, Tail(q), s, b + 1)
    <2>1. PICK i \in (b + 1) .. Len(s) : f[i] = 1
        BY <1>1, <1>6 DEF Follows
    <2>2. b + 1 <= Len(s) /\ b + 1 \in (b + 1) .. Len(s)
        BY <1>1, <2>1
    <2>3. i = b + 1
        <3>1. ASSUME i # b + 1 PROVE FALSE
            <4>1. b + 1 < i
                BY <1>1, <2>1, <3>1
            <4>2. f[b + 1] < 1
                BY <2>1, <2>2, <4>1 DEF Follows
            <4>3. f[b + 1] \in DOMAIN q
                BY <1>3, <2>2
            <4>. QED
                BY <1>1, <4>2, <4>3
        <3>. QED
            BY <3>1
    <2>4. s[b + 1] = Head(q).cid
        BY <1>1, <2>1, <2>2, <2>3 DEF Follows
    <2>5. \A j \in ((b + 1) + 1) .. Len(s) : f[j] # 1
        <3>1. ASSUME NEW j \in ((b + 1) + 1) .. Len(s) PROVE f[j] # 1
            <4>1. b + 1 < j /\ j \in (b + 1) .. Len(s)
                BY <1>1
            <4>2. 1 < f[j]
                BY <2>1, <2>2, <2>3, <4>1 DEF Follows
            <4>. QED
                BY <4>2
        <3>. QED
            BY <3>1
    <2>6. \A j \in (b + 1) .. Len(s) : j \notin ((b + 1) + 1) .. Len(s) => f[j] = 1
        <3>1. \A j \in (b + 1) .. Len(s) : j \notin ((b + 1) + 1) .. Len(s) => j = b + 1
            BY <1>1
        <3>. QED
            BY <2>1, <2>3, <3>1
    <2>7. \E g : Follows(g, Tail(q), s, b + 1)
        BY <1>4, <2>5, <2>6
    <2>. QED
        BY <2>2, <2>4, <2>7
<1>. QED
    BY <1>5, <1>6

(* The numbers that InOrder is about.                                      *)
LEMMA Lengths ==
    ASSUME IInv
    PROVE  /\ Len(replies) \in Nat /\ Len(requestQ) \in Nat /\ Len(asked) \in Nat
           /\ Applying \in {0, 1} /\ Base \in Nat /\ Base = Len(replies) + Applying + Len(requestQ)
           /\ Base <= Len(asked)
           /\ DOMAIN replies = 1 .. Len(replies) /\ DOMAIN requestQ = 1 .. Len(requestQ)
           /\ DOMAIN asked = 1 .. Len(asked)
           /\ \E f : Follows(f, inbox, asked, Base)
<1>1. /\ replies \in Seq(Attempts) /\ requestQ \in Seq(Process) /\ asked \in Seq(Attempts)
      /\ Base <= Len(asked) /\ \E f : Follows(f, inbox, asked, Base)
    BY DEF IInv, Types, InOrder
<1>2. Applying \in {0, 1}
    BY DEF Applying
<1>3. /\ Len(replies) \in Nat /\ Len(requestQ) \in Nat /\ Len(asked) \in Nat
      /\ DOMAIN replies = 1 .. Len(replies) /\ DOMAIN requestQ = 1 .. Len(requestQ)
      /\ DOMAIN asked = 1 .. Len(asked)
    BY <1>1
<1>4. Base \in Nat /\ Base = Len(replies) + Applying + Len(requestQ)
    BY <1>2, <1>3 DEF Base
<1>. QED
    BY <1>1, <1>2, <1>3, <1>4

(* How a new InOrder is put together.                                      *)
LEMMA OrderIs ==
    ASSUME Base' <= Len(asked'), \A i \in DOMAIN replies' : asked'[i] = replies'[i],
           main'.at = "apply" => asked'[Len(replies') + 1] = main'.arg,
           \A i \in DOMAIN requestQ' : asked'[Len(replies') + Applying' + i] = requestQ'[i].cid,
           \E f : Follows(f, inbox', asked', Base')
    PROVE  InOrder'
<1>1. PICK f : Follows(f, inbox', asked', Base')
    OBVIOUS
<1>2. f \in [(Base' + 1) .. Len(asked') -> DOMAIN inbox']
    BY <1>1 DEF Follows
<1>3. \E g \in [(Base' + 1) .. Len(asked') -> DOMAIN inbox'] : Follows(g, inbox', asked', Base')
    BY <1>1, <1>2
<1>. QED
    BY <1>3 DEF InOrder

(* Arrive keeps the invariant.                                             *)
LEMMA ArriveIInv == ASSUME IInv, Arrive PROVE IInv'
<1>. DEFINE m == Head(back)
<1>1. /\ back # <<>> /\ back' = Tail(back) /\ inbox' = Append(inbox, m)
      /\ readable' = (readable \/ (~awake /\ inbox = <<>>))
      /\ asked' = IF m.type = "process" THEN Append(asked, m.cid) ELSE asked
      /\ UNCHANGED <<main, monitor, connected, counter, onAir, got, sendQ, out, requestQ, awake,
                     registered, pending, answered, faults, requests, missed, lost, replies>>
    BY DEF Arrive, local, futures, peer
<1>2. back \in Seq(Msg) /\ inbox \in Seq(Msg) /\ asked \in Seq(Attempts)
    BY DEF IInv, Types
<1>3. m \in Msg /\ back' \in Seq(Msg) /\ inbox' \in Seq(Msg)
    BY <1>1, <1>2
<1>4. m.type = "process" => m.cid \in Attempts
    BY <1>3 DEF Msg, Theirs
<1>5. asked' \in Seq(Attempts)
    BY <1>1, <1>2, <1>4
<1>6. Types'
    <2>1. readable' \in BOOLEAN
        BY <1>1 DEF IInv, Types
    <2>. QED
        BY <1>1, <1>3, <1>5, <2>1 DEF IInv, Types
<1>7. Waiting'
    BY <1>1 DEF IInv, Waiting
<1>8. Once(Queues') /\ All(Queues') = All(Queues)
    <2>1. /\ "back" \in Names /\ "inbox" \in Names
          /\ Queues["back"] = back /\ Queues["inbox"] = inbox
        BY QueuesType DEF IInv, Names
    <2>3. \A n \in Names \ {"back", "inbox"} : Queues'[n] = Queues[n]
        BY <1>1, NextQueues, QueuesType DEF IInv, Names
    <2>4. /\ Queues["back"] # <<>> /\ Queues'["back"] = Tail(Queues["back"])
          /\ Queues'["inbox"] = Append(Queues["inbox"], m) /\ m.cid = Head(Queues["back"]).cid
          /\ "back" # "inbox"
        BY <1>1, <2>1, NextQueues
    <2>. QED
        BY <1>3, <2>1, <2>3, <2>4, QueuesMove, Zenon
<1>9. Issued' /\ UnderWay'
    BY <1>1, <1>8, SameContents
<1>10. InOrder'
    <2>1. Base' = Base /\ Applying' = Applying
        BY <1>1 DEF Base, Applying
    <2>2. PICK f : Follows(f, inbox, asked, Base)
        BY Lengths
    <2>3. \E g : Follows(g, inbox', asked', Base')
        <3>1. CASE m.type # "process"
            BY <1>1, <1>2, <1>3, <2>1, <2>2, <3>1, FollowsAppend, Lengths
        <3>2. CASE m.type = "process"
            BY <1>1, <1>2, <1>3, <2>1, <2>2, <3>2, FollowsAppend, Lengths
        <3>. QED
            BY <3>1, <3>2
    <2>4. Len(asked') \in Nat /\ Len(asked) <= Len(asked')
          /\ \A i \in 1 .. Len(asked) : asked'[i] = asked[i]
        BY <1>1, <1>2, <1>4
    <2>5. Base' <= Len(asked')
        BY <2>1, <2>4, Lengths
    <2>6. \A i \in DOMAIN replies : i \in 1 .. Len(asked)
        BY Lengths
    <2>7. main.at = "apply" => Len(replies) + 1 \in 1 .. Len(asked)
        BY Lengths DEF Applying
    <2>8. \A i \in DOMAIN requestQ : Len(replies) + Applying + i \in 1 .. Len(asked)
        BY Lengths
    <2>9. \A i \in DOMAIN replies' : asked'[i] = replies'[i]
        BY <1>1, <2>4, <2>6 DEF IInv, InOrder
    <2>10. main'.at = "apply" => asked'[Len(replies') + 1] = main'.arg
        BY <1>1, <2>4, <2>7 DEF IInv, InOrder
    <2>11. \A i \in DOMAIN requestQ' : asked'[Len(replies') + Applying' + i] = requestQ'[i].cid
        BY <1>1, <2>1, <2>4, <2>8 DEF IInv, InOrder
    <2>. QED
        BY <2>3, <2>5, <2>9, <2>10, <2>11, OrderIs
<1>. QED
    BY <1>6, <1>7, <1>9, <1>10 DEF IInv

(* Every correlation id in the queues is one.                              *)
LEMMA AllAreIds == ASSUME IInv PROVE All(Queues) \subseteq Ids /\ None \notin Ids
<1>1. Queues \in [Names -> Seq(Msg)]
    BY QueuesType DEF IInv
<1>2. \A n \in Names : Contents(Queues[n]) \subseteq Ids
    <2>1. ASSUME NEW n \in Names, NEW i \in DOMAIN Queues[n] PROVE Queues[n][i].cid \in Ids
        <3>1. Queues[n][i] \in Msg
            BY <1>1
        <3>. QED
            BY <3>1 DEF Msg
    <2>. QED
        BY <2>1 DEF Contents
<1>3. None \notin Ids
    BY IdKinds DEF Ids
<1>. QED
    BY <1>2, <1>3, InAll

(* HandleRequest: the next request is answered at once.                    *)
LEMMA HandleRequestIInv == ASSUME IInv, HandleRequest PROVE IInv'
<1>. DEFINE c == Head(requestQ).cid
            m == Message("response", c, 0)
<1>1. /\ main.at = "idle" /\ requestQ # <<>> /\ requestQ' = Tail(requestQ)
      /\ sendQ' = [sendQ EXCEPT !["resp"] = Append(@, m)]
      /\ replies' = Append(replies, c) /\ main' = At("idle", None, None)
      /\ UNCHANGED <<monitor, connected, counter, onAir, got, out, inbox, awake, readable, back,
                     registered, pending, answered, faults, requests, missed, lost, asked>>
    BY DEF HandleRequest, Respond, futures, socket, peer
<1>2. /\ requestQ \in Seq(Process) /\ sendQ \in [{"resp", "state"} -> Seq(Msg)]
      /\ replies \in Seq(Attempts)
    BY DEF IInv, Types
<1>3. Head(requestQ) \in Process /\ requestQ' \in Seq(Process) /\ Head(requestQ) = requestQ[1]
    BY <1>1, <1>2
<1>4. c \in Attempts
    BY <1>3 DEF Process, Msg, Theirs
<1>5. m \in Msg /\ m.cid = c
    BY <1>4, SawtoothAssumption DEF Message, Msg, Own, Theirs, Ids
<1>6. /\ main' \in [at : {"start", "connected", "unregister", "idle", "apply"},
                    cid : FutureIds \cup {None}, arg : Attempts \cup {None}]
      /\ main'.at = "idle" /\ main'.cid = None /\ main'.arg = None
      /\ main.cid = None /\ main.arg = None
    BY <1>1 DEF At, IInv, Waiting
<1>7. sendQ' \in [{"resp", "state"} -> Seq(Msg)] /\ replies' \in Seq(Attempts)
    <2>1. Append(sendQ["resp"], m) \in Seq(Msg)
        BY <1>2, <1>5
    <2>. QED
        BY <1>1, <1>2, <1>4, <2>1
<1>8. Once(Queues') /\ All(Queues') = All(Queues)
    <2>1. /\ "request" \in Names /\ "resp" \in Names /\ "request" # "resp"
          /\ Queues["request"] = requestQ /\ Queues["resp"] = sendQ["resp"]
        BY QueuesType DEF IInv, Names
    <2>2. \A n \in Names \ {"request", "resp"} : Queues'[n] = Queues[n]
        BY <1>1, <1>2, NextQueues, QueuesType DEF IInv, Names
    <2>3. /\ Queues["request"] # <<>> /\ Queues'["request"] = Tail(Queues["request"])
          /\ Queues'["resp"] = Append(Queues["resp"], m) /\ m.cid = Head(Queues["request"]).cid
        BY <1>1, <1>2, <1>5, <2>1, NextQueues
    <2>. QED
        BY <1>5, <2>1, <2>2, <2>3, QueuesMove, Zenon
<1>. HIDE DEF m
<1>9. Types'
    BY <1>1, <1>3, <1>6, <1>7 DEF IInv, Types
<1>10. Waiting'
    BY <1>1, <1>6 DEF IInv, Waiting
<1>11. Issued' /\ UnderWay'
    BY <1>1, <1>6, <1>8, SameContents
<1>12. InOrder'
    <2>1. /\ Applying = 0 /\ Applying' = 0
        BY <1>1, <1>6 DEF Applying
    <2>2. /\ Len(replies') = Len(replies) + 1 /\ Len(requestQ') = Len(requestQ) - 1
          /\ DOMAIN replies' = 1 .. (Len(replies) + 1)
          /\ DOMAIN requestQ' = 1 .. (Len(requestQ) - 1)
          /\ replies'[Len(replies) + 1] = c
          /\ Len(requestQ) \in Nat \ {0} /\ 1 \in DOMAIN requestQ
        BY <1>1, <1>2, <1>4
    <2>3. /\ \A i \in 1 .. Len(replies) : replies'[i] = replies[i]
          /\ \A i \in DOMAIN requestQ' : requestQ'[i] = requestQ[i + 1] /\ i + 1 \in DOMAIN requestQ
        BY <1>1, <1>2, <1>4
    <2>4. Base' = Base
        BY <2>1, <2>2, Lengths DEF Base
    <2>5. \E f : Follows(f, inbox', asked', Base')
        BY <1>1, <2>4, Lengths
    <2>6. Base' <= Len(asked')
        BY <1>1, <2>4, Lengths
    <2>7. asked[Len(replies) + 1] = c
        <3>1. Len(replies) + Applying + 1 = Len(replies) + 1
            BY <2>1, Lengths
        <3>2. asked[Len(replies) + Applying + 1] = requestQ[1].cid
            BY <2>2 DEF IInv, InOrder
        <3>. QED
            BY <1>3, <3>1, <3>2
    <2>8. \A i \in DOMAIN replies' : asked'[i] = replies'[i]
        <3>1. \A i \in DOMAIN replies' : i \in 1 .. Len(replies) \/ i = Len(replies) + 1
            BY <2>2, Lengths
        <3>2. \A i \in 1 .. Len(replies) : asked[i] = replies[i]
            BY Lengths DEF IInv, InOrder
        <3>. QED
            BY <1>1, <2>2, <2>3, <2>7, <3>1, <3>2
    <2>9. ASSUME NEW i \in DOMAIN requestQ'
          PROVE  asked'[Len(replies') + Applying' + i] = requestQ'[i].cid
        <3>1. i \in Nat
            BY <2>2
        <3>2. Len(replies') + Applying' + i = Len(replies) + Applying + (i + 1)
            BY <2>1, <2>2, <3>1, Lengths
        <3>3. asked[Len(replies) + Applying + (i + 1)] = requestQ[i + 1].cid
            BY <2>3 DEF IInv, InOrder
        <3>. QED
            BY <1>1, <2>3, <3>2, <3>3
    <2>10. main'.at = "apply" => asked'[Len(replies') + 1] = main'.arg
        BY <1>6
    <2>. QED
        BY <2>5, <2>6, <2>8, <2>9, <2>10, OrderIs
<1>. QED
    BY <1>9, <1>10, <1>11, <1>12 DEF IInv

(* GetState: apply has what it asked for, and the request is answered.     *)
LEMMA GetStateIInv == ASSUME IInv, GetState PROVE IInv'
<1>. DEFINE c == main.arg
            m == Message("response", c, 0)
<1>1. /\ main.at = "apply" /\ HasAnswer(main.cid) /\ got' = got \ {Answer(main.cid)}
      /\ sendQ' = [sendQ EXCEPT !["resp"] = Append(@, m)]
      /\ replies' = Append(replies, c) /\ main' = At("idle", None, None)
      /\ UNCHANGED <<monitor, connected, counter, onAir, out, inbox, requestQ, awake, readable, back,
                     registered, pending, answered, faults, requests, missed, lost, asked>>
    BY DEF GetState, Taken, Respond, socket, peer
<1>2. replies \in Seq(Attempts) /\ c \in Attempts /\ c \notin All(Queues)
    BY <1>1 DEF IInv, Types, Waiting, UnderWay
<1>3. m \in Msg /\ m.cid = c
    BY <1>2, SawtoothAssumption DEF Message, Msg, Own, Theirs, Ids
<1>4. /\ main' \in [at : {"start", "connected", "unregister", "idle", "apply"},
                    cid : FutureIds \cup {None}, arg : Attempts \cup {None}]
      /\ main'.at = "idle" /\ main'.cid = None /\ main'.arg = None
    BY <1>1 DEF At
<1>5. /\ sendQ' \in [{"resp", "state"} -> Seq(Msg)]
      /\ Once(Queues') /\ All(Queues') = All(Queues) \cup {c}
    BY <1>1, <1>2, <1>3, StreamPut
<1>6. replies' \in Seq(Attempts)
    BY <1>1, <1>2
<1>. HIDE DEF m
<1>7. /\ got' \subseteq got
      /\ \A d : d # main.cid /\ (\E g \in got : g.cid = d) => \E g \in got' : g.cid = d
    BY <1>1, AnswerIs
<1>8. Types'
    BY <1>1, <1>4, <1>5, <1>6, <1>7 DEF IInv, Types
<1>9. Waiting'
    <2>1. monitor.cid # None => monitor.cid # main.cid
        BY DEF IInv, Waiting
    <2>2. monitor.cid # None => monitor.cid \in onAir' \/ \E g \in got' : g.cid = monitor.cid
        BY <1>1, <1>7, <2>1 DEF IInv, Waiting
    <2>. QED
        BY <1>1, <1>4, <2>2 DEF IInv, Waiting
<1>10. c \notin FutureIds /\ c \notin PingIds /\ None \notin FutureIds /\ None \notin Attempts
       /\ c # None
    BY <1>2, IdKinds
<1>11. Issued'
    <2>1. \A d \in All(Queues') \cup onAir' \cup {g.cid : g \in got'} \cup {main'.cid, monitor'.cid} :
             d \in FutureIds => d[2] <= counter'
        BY <1>1, <1>4, <1>5, <1>7, <1>10 DEF IInv, Issued
    <2>2. \A d \in All(Queues') : d \in PingIds => d[2] < requests'
        BY <1>1, <1>5, <1>10 DEF IInv, Issued
    <2>3. \A d \in All(Queues') \cup {main'.arg} : d \in Attempts =>
             d[2] <= faults' /\ (d[2] = faults' => d \in pending' \/ d[1] \in answered')
        BY <1>1, <1>4, <1>5, <1>10 DEF IInv, Issued
    <2>. QED
        BY <2>1, <2>2, <2>3 DEF Issued
<1>12. UnderWay'
    <2>1. None \notin All(Queues')
        BY <1>5, <1>10, AllAreIds
    <2>2. \A a \in pending' : a[2] = faults' /\ (a \in All(Queues') \/ a = main'.arg)
        BY <1>1, <1>5 DEF IInv, UnderWay
    <2>. QED
        BY <1>1, <1>4, <1>5, <2>1, <2>2 DEF IInv, UnderWay
<1>13. InOrder'
    <2>1. Applying = 1 /\ Applying' = 0
        BY <1>1, <1>4 DEF Applying
    <2>2. /\ Len(replies') = Len(replies) + 1
          /\ DOMAIN replies' = 1 .. (Len(replies) + 1)
          /\ replies'[Len(replies) + 1] = c
          /\ \A i \in 1 .. Len(replies) : replies'[i] = replies[i]
        BY <1>1, <1>2
    <2>3. Base' = Base
        BY <1>1, <2>1, <2>2, Lengths DEF Base
    <2>4. \E f : Follows(f, inbox', asked', Base')
        BY <1>1, <2>3, Lengths
    <2>5. Base' <= Len(asked')
        BY <1>1, <2>3, Lengths
    <2>6. \A i \in DOMAIN replies' : asked'[i] = replies'[i]
        <3>1. \A i \in DOMAIN replies' : i \in 1 .. Len(replies) \/ i = Len(replies) + 1
            BY <2>2, Lengths
        <3>2. \A i \in 1 .. Len(replies) : asked[i] = replies[i]
            BY Lengths DEF IInv, InOrder
        <3>3. asked[Len(replies) + 1] = c
            BY <1>1 DEF IInv, InOrder
        <3>. QED
            BY <1>1, <2>2, <3>1, <3>2, <3>3
    <2>7. ASSUME NEW i \in DOMAIN requestQ'
          PROVE  asked'[Len(replies') + Applying' + i] = requestQ'[i].cid
        <3>1. i \in Nat /\ i \in DOMAIN requestQ
            BY <1>1, Lengths
        <3>2. Len(replies') + Applying' + i = Len(replies) + Applying + i
            BY <2>1, <2>2, <3>1, Lengths
        <3>3. asked[Len(replies) + Applying + i] = requestQ[i].cid
            BY <3>1 DEF IInv, InOrder
        <3>. QED
            BY <1>1, <3>2, <3>3
    <2>8. main'.at = "apply" => asked'[Len(replies') + 1] = main'.arg
        BY <1>4
    <2>. QED
        BY <2>4, <2>5, <2>6, <2>7, <2>8, OrderIs
<1>. QED
    BY <1>8, <1>9, <1>11, <1>12, <1>13 DEF IInv

(* AskState: apply asks for state; the request is out of the queues.       *)
LEMMA AskStateIInv == ASSUME IInv, AskState PROVE IInv'
<1>. DEFINE c == Head(requestQ).cid
            m == Message("state", NewCid, 0)
<1>1. /\ main.at = "idle" /\ requestQ # <<>> /\ requestQ' = Tail(requestQ)
      /\ sendQ' = [sendQ EXCEPT !["state"] = Append(@, m)]
      /\ counter' = counter + 1 /\ onAir' = onAir \cup {NewCid} /\ got' = got
      /\ main' = At("apply", NewCid, c)
      /\ UNCHANGED <<monitor, connected, out, inbox, awake, readable, back, registered, pending,
                     answered, faults, requests, missed, lost, asked, replies>>
    BY DEF AskState, AsyncSend, socket, peer, history
<1>2. /\ requestQ \in Seq(Process) /\ sendQ \in [{"resp", "state"} -> Seq(Msg)]
      /\ counter \in Nat
    BY DEF IInv, Types
<1>3. Head(requestQ) \in Process /\ requestQ' \in Seq(Process) /\ Head(requestQ) = requestQ[1]
    BY <1>1, <1>2
<1>4. c \in Attempts
    BY <1>3 DEF Process, Msg, Theirs
<1>5. /\ NewCid \in FutureIds /\ NewCid # None /\ counter + 1 \in Nat /\ NewCid[2] = counter + 1
      /\ NewCid \notin All(Queues) /\ NewCid # monitor.cid
    BY <1>2, NewCidIsNew, NewCidIsFree
<1>6. m \in Msg /\ m.cid = NewCid
    BY <1>5, SawtoothAssumption DEF Message, Msg, Own, Theirs, Ids
<1>7. /\ main' \in [at : {"start", "connected", "unregister", "idle", "apply"},
                    cid : FutureIds \cup {None}, arg : Attempts \cup {None}]
      /\ main'.at = "apply" /\ main'.cid = NewCid /\ main'.arg = c
      /\ main.cid = None /\ main.arg = None
    BY <1>1, <1>4, <1>5 DEF At, IInv, Waiting
<1>8. sendQ' \in [{"resp", "state"} -> Seq(Msg)]
    <2>1. Append(sendQ["state"], m) \in Seq(Msg)
        BY <1>2, <1>6
    <2>. QED
        BY <1>1, <1>2, <2>1
<1>9. /\ Once(Queues') /\ c \in All(Queues)
      /\ All(Queues') = (All(Queues) \ {c}) \cup {NewCid}
    <2>1. /\ "request" \in Names /\ "state" \in Names /\ "request" # "state"
          /\ Queues["request"] = requestQ /\ Queues["state"] = sendQ["state"]
          /\ Queues \in [Names -> Seq(Msg)] /\ Once(Queues)
        BY QueuesType DEF IInv, Names, UnderWay
    <2>2. Queues["request"] # <<>> /\ m \in Msg /\ m.cid \notin All(Queues)
        BY <1>1, <1>5, <1>6, <2>1
    <2>3. \A n \in Names \ {"request", "state"} : Queues'[n] = Queues[n]
        BY <1>1, <1>2, NextQueues, QueuesType DEF IInv, Names
    <2>4. /\ Queues'["request"] = Tail(Queues["request"])
          /\ Queues'["state"] = Append(Queues["state"], m)
        BY <1>1, <1>2, <2>1, NextQueues
    <2>. HIDE DEF m
    <2>5. /\ Once(Queues') /\ Head(Queues["request"]).cid \in All(Queues)
          /\ All(Queues') = (All(Queues) \ {Head(Queues["request"]).cid}) \cup {m.cid}
        BY <2>1, <2>2, <2>3, <2>4, QueuesReplace, Zenon
    <2>. QED
        BY <1>6, <2>1, <2>5
<1>. HIDE DEF m, c
<1>10. Types'
    BY <1>1, <1>3, <1>5, <1>7, <1>8 DEF IInv, Types
<1>11. c # None /\ NewCid \notin PingIds /\ NewCid \notin Attempts
       /\ None \notin FutureIds /\ None \notin Attempts /\ c # NewCid
    BY <1>4, <1>5, IdKinds
<1>12. Waiting'
    BY <1>1, <1>5, <1>7, <1>11 DEF IInv, Waiting
<1>13. Issued'
    <2>1. ASSUME NEW d \in All(Queues') \cup onAir' \cup {g.cid : g \in got'} \cup {main'.cid, monitor'.cid},
                 d \in FutureIds
          PROVE  d[2] <= counter'
        <3>1. CASE d = NewCid
            BY <1>1, <1>2, <1>5, <3>1
        <3>2. CASE d # NewCid
            <4>1. d \in All(Queues) \cup onAir \cup {g.cid : g \in got} \cup {main.cid, monitor.cid}
                BY <1>1, <1>7, <1>9, <2>1, <3>2
            <4>2. d[2] <= counter /\ d[2] \in Nat
                BY <2>1, <4>1, IdNumbers DEF IInv, Issued
            <4>. QED
                BY <1>1, <1>2, <4>2
        <3>. QED
            BY <3>1, <3>2
    <2>2. \A d \in All(Queues') : d \in PingIds => d[2] < requests'
        BY <1>1, <1>9, <1>11 DEF IInv, Issued
    <2>3. \A d \in All(Queues') \cup {main'.arg} : d \in Attempts =>
             d[2] <= faults' /\ (d[2] = faults' => d \in pending' \/ d[1] \in answered')
        BY <1>1, <1>7, <1>9, <1>11 DEF IInv, Issued
    <2>. QED
        BY <2>1, <2>2, <2>3 DEF Issued
<1>14. UnderWay'
    <2>1. main'.arg \notin All(Queues')
        BY <1>7, <1>9, <1>11
    <2>2. \A d \in onAir' : d \in lost' \/ d \in All(Queues')
        <3>1. \A d \in onAir : d # c
            BY <1>4, IdKinds DEF IInv, Types
        <3>. QED
            BY <1>1, <1>9, <3>1 DEF IInv, UnderWay
    <2>3. \A a \in pending' : a[2] = faults' /\ (a \in All(Queues') \/ a = main'.arg)
        <3>1. \A a \in pending : a # main.arg
            BY <1>7, <1>11 DEF IInv, Types
        <3>. QED
            BY <1>1, <1>7, <1>9, <3>1 DEF IInv, UnderWay
    <2>. QED
        BY <1>9, <2>1, <2>2, <2>3 DEF UnderWay
<1>15. InOrder'
    <2>1. Applying = 0 /\ Applying' = 1
        BY <1>1, <1>7 DEF Applying
    <2>2. /\ Len(requestQ') = Len(requestQ) - 1
          /\ DOMAIN requestQ' = 1 .. (Len(requestQ) - 1)
          /\ Len(requestQ) \in Nat \ {0} /\ 1 \in DOMAIN requestQ
          /\ \A i \in DOMAIN requestQ' : requestQ'[i] = requestQ[i + 1] /\ i + 1 \in DOMAIN requestQ
        BY <1>1, <1>2
    <2>3. Base' = Base
        BY <1>1, <2>1, <2>2, Lengths DEF Base
    <2>4. \E f : Follows(f, inbox', asked', Base')
        BY <1>1, <2>3, Lengths
    <2>5. Base' <= Len(asked')
        BY <1>1, <2>3, Lengths
    <2>6. \A i \in DOMAIN replies' : asked'[i] = replies'[i]
        BY <1>1 DEF IInv, InOrder
    <2>7. asked'[Len(replies') + 1] = main'.arg
        <3>1. Len(replies) + Applying + 1 = Len(replies) + 1
            BY <2>1, Lengths
        <3>2. asked[Len(replies) + Applying + 1] = requestQ[1].cid
            BY <2>2 DEF IInv, InOrder
        <3>. QED
            BY <1>1, <1>3, <1>7, <3>1, <3>2 DEF c
    <2>8. ASSUME NEW i \in DOMAIN requestQ'
          PROVE  asked'[Len(replies') + Applying' + i] = requestQ'[i].cid
        <3>1. i \in Nat
            BY <2>2
        <3>2. Len(replies') + Applying' + i = Len(replies) + Applying + (i + 1)
            BY <1>1, <2>1, <3>1, Lengths
        <3>3. asked[Len(replies) + Applying + (i + 1)] = requestQ[i + 1].cid
            BY <2>2 DEF IInv, InOrder
        <3>. QED
            BY <1>1, <2>2, <3>2, <3>3
    <2>. QED
        BY <2>4, <2>5, <2>6, <2>7, <2>8, OrderIs
<1>. QED
    BY <1>10, <1>12, <1>13, <1>14, <1>15 DEF IInv

(* A message is taken out of the queues for good: it was not a request or  *)
(* an answer that somebody waits for.                                      *)
LEMMA TakenOut ==
    ASSUME IInv, NEW c \in All(Queues), Once(Queues'), All(Queues') = All(Queues) \ {c},
           UNCHANGED <<main, counter, lost, faults, requests>>, monitor'.cid = monitor.cid,
           onAir' = onAir \ {c}, \A g \in got' : g \in got \/ g.cid = c,
           pending' = pending \ {c}, answered \subseteq answered'
    PROVE  Issued' /\ UnderWay'
<1>1. Issued'
    <2>1. \A d \in All(Queues') \cup onAir' \cup {g.cid : g \in got'} \cup {main'.cid, monitor'.cid} :
             d \in FutureIds => d[2] <= counter'
        <3>1. \A d \in All(Queues') \cup onAir' \cup {g.cid : g \in got'} \cup {main'.cid, monitor'.cid} :
                 d \in All(Queues) \cup onAir \cup {g.cid : g \in got} \cup {main.cid, monitor.cid}
            OBVIOUS
        <3>. QED
            BY <3>1 DEF IInv, Issued
    <2>2. \A d \in All(Queues') : d \in PingIds => d[2] < requests'
        BY DEF IInv, Issued
    <2>3. \A d \in All(Queues') \cup {main'.arg} : d \in Attempts =>
             d[2] <= faults' /\ (d[2] = faults' => d \in pending' \/ d[1] \in answered')
        <3>1. main.arg # c
            BY DEF IInv, UnderWay
        <3>. QED
            BY <3>1 DEF IInv, Issued
    <2>. QED
        BY <2>1, <2>2, <2>3 DEF Issued
<1>2. UnderWay'
    BY DEF IInv, UnderWay
<1>. QED
    BY <1>1, <1>2

(* ReceiveMessages keeps the invariant.                                    *)
LEMMA ReceiveMessagesIInv == ASSUME IInv, ReceiveMessages PROVE IInv'
<1>. DEFINE m == Head(inbox)
<1>1. /\ inbox # <<>> /\ inbox' = Tail(inbox) /\ awake' \in BOOLEAN
      /\ UNCHANGED <<main, monitor, connected, sendQ, back, registered, pending, answered, faults,
                     requests, missed, lost, asked, replies>>
    BY DEF ReceiveMessages, local, peer, history
<1>2. /\ inbox \in Seq(Msg) /\ out \in Seq(Msg) /\ requestQ \in Seq(Process)
      /\ readable \in BOOLEAN /\ asked \in Seq(Attempts)
    BY DEF IInv, Types
<1>3. m \in Msg /\ inbox' \in Seq(Msg)
    BY <1>1, <1>2
<1>4. /\ "inbox" \in Names /\ "out" \in Names /\ "request" \in Names
      /\ "inbox" # "out" /\ "inbox" # "request"
      /\ Queues["inbox"] = inbox /\ Queues["out"] = out /\ Queues["request"] = requestQ
      /\ Queues'["inbox"] = Tail(Queues["inbox"]) /\ Queues["inbox"] # <<>>
    BY <1>1, NextQueues, QueuesType DEF IInv, Names
<1>5. PICK f : Follows(f, inbox, asked, Base)
    BY Lengths
<1>6. /\ m.type # "process" => \E g : Follows(g, inbox', asked, Base)
      /\ m.type = "process" =>
            /\ Base + 1 <= Len(asked) /\ asked[Base + 1] = m.cid
            /\ \E g : Follows(g, inbox', asked, Base + 1)
    BY <1>1, <1>2, <1>5, FollowsTail, Lengths
<1>7. ASSUME UNCHANGED requestQ, m.type # "process" PROVE InOrder'
    <2>1. Base' = Base /\ Applying' = Applying
        BY <1>1, <1>7 DEF Base, Applying
    <2>2. \E g : Follows(g, inbox', asked', Base')
        BY <1>1, <1>6, <1>7, <2>1
    <2>. QED
        BY <1>1, <1>7, <2>1, <2>2, OrderIs DEF IInv, InOrder
<1>8. CASE m.type = "process"
    <2>1. requestQ' = Append(requestQ, m) /\ UNCHANGED <<out, readable, counter, onAir, got>>
        BY <1>8 DEF ReceiveMessages, Forward, futures
    <2>2. m \in Process /\ requestQ' \in Seq(Process)
        BY <1>2, <1>3, <1>8, <2>1 DEF Process
    <2>3. Types'
        BY <1>1, <1>3, <2>1, <2>2 DEF IInv, Types
    <2>4. Waiting'
        BY <1>1, <2>1 DEF IInv, Waiting
    <2>5. Once(Queues') /\ All(Queues') = All(Queues)
        <3>1. \A n \in Names \ {"inbox", "request"} : Queues'[n] = Queues[n]
            BY <1>1, <2>1, NextQueues, QueuesType DEF IInv, Names
        <3>2. Queues'["request"] = Append(Queues["request"], m) /\ m.cid = Head(Queues["inbox"]).cid
            BY <1>4, <2>1, NextQueues
        <3>. QED
            BY <1>3, <1>4, <3>1, <3>2, QueuesMove, Zenon
    <2>6. Issued' /\ UnderWay'
        BY <1>1, <2>1, <2>5, SameContents
    <2>7. InOrder'
        <3>1. /\ Len(requestQ') = Len(requestQ) + 1 /\ DOMAIN requestQ' = 1 .. (Len(requestQ) + 1)
              /\ requestQ'[Len(requestQ) + 1] = m
              /\ \A i \in 1 .. Len(requestQ) : requestQ'[i] = requestQ[i]
            BY <1>2, <2>1, <2>2
        <3>2. Base' = Base + 1 /\ Applying' = Applying
            <4>1. Applying' = Applying
                BY <1>1 DEF Applying
            <4>2. Base' = Len(replies') + Applying' + Len(requestQ')
                BY DEF Base
            <4>3. Base' = Len(replies) + Applying + (Len(requestQ) + 1)
                BY <1>1, <3>1, <4>1, <4>2
            <4>4. Applying \in Nat /\ Len(replies) \in Nat /\ Len(requestQ) \in Nat
                BY Lengths
            <4>5. Base = Len(replies) + Applying + Len(requestQ)
                BY DEF Base
            <4>6. Len(replies) + Applying + (Len(requestQ) + 1)
                     = (Len(replies) + Applying + Len(requestQ)) + 1
                BY <4>4
            <4>. QED
                BY <4>1, <4>3, <4>5, <4>6
        <3>3. /\ Base' <= Len(asked') /\ asked[Base + 1] = m.cid
              /\ \E g : Follows(g, inbox', asked', Base')
            BY <1>1, <1>6, <1>8, <3>2
        <3>4. ASSUME NEW i \in DOMAIN requestQ'
              PROVE  asked'[Len(replies') + Applying' + i] = requestQ'[i].cid
            <4>1. CASE i \in 1 .. Len(requestQ)
                BY <1>1, <3>1, <3>2, <4>1, Lengths DEF IInv, InOrder
            <4>2. CASE i = Len(requestQ) + 1
                <5>1. Len(replies) + Applying + i = Base + 1
                    BY <4>2, Lengths
                <5>. QED
                    BY <1>1, <3>1, <3>2, <3>3, <4>2, <5>1
            <4>. QED
                BY <3>1, <4>1, <4>2, Lengths
        <3>5. /\ \A i \in DOMAIN replies' : asked'[i] = replies'[i]
              /\ main'.at = "apply" => asked'[Len(replies') + 1] = main'.arg
            BY <1>1 DEF IInv, InOrder
        <3>. QED
            BY <3>3, <3>4, <3>5, OrderIs
    <2>. QED
        BY <2>3, <2>4, <2>6, <2>7 DEF IInv
<1>9. CASE m.type = "ping"
    <2>. DEFINE r == Message("pong", m.cid, 0)
    <2>1. /\ out' = Append(out, r) /\ readable' \in {readable, FALSE}
          /\ UNCHANGED <<requestQ, counter, onAir, got>>
        BY <1>9 DEF ReceiveMessages, MayConsume, futures
    <2>2. m.cid \in PingIds
        BY <1>3, <1>9 DEF Msg
    <2>3. r \in Msg /\ r.cid = m.cid
        BY <2>2, SawtoothAssumption DEF Message, Msg, Own, Theirs, Ids
    <2>4. out' \in Seq(Msg) /\ readable' \in BOOLEAN
        <3>1. out' \in Seq(Msg)
            BY <1>2, <2>1, <2>3
        <3>2. readable' \in BOOLEAN
            BY <1>2, <2>1
        <3>. QED
            BY <3>1, <3>2
    <2>5. Types'
        BY <1>1, <1>3, <2>1, <2>4 DEF IInv, Types
    <2>6. Waiting'
        BY <1>1, <2>1 DEF IInv, Waiting
    <2>7. Once(Queues') /\ All(Queues') = All(Queues)
        <3>1. \A n \in Names \ {"inbox", "out"} : Queues'[n] = Queues[n]
            BY <1>1, <2>1, NextQueues, QueuesType DEF IInv, Names
        <3>2. Queues'["out"] = Append(Queues["out"], r) /\ r.cid = Head(Queues["inbox"]).cid
            BY <1>4, <2>1, <2>3, NextQueues
        <3>. HIDE DEF r
        <3>. QED
            BY <1>4, <2>3, <3>1, <3>2, QueuesMove, Zenon
    <2>8. Issued' /\ UnderWay'
        BY <1>1, <2>1, <2>7, SameContents
    <2>9. m.type # "process"
        BY <1>9
    <2>. QED
        BY <1>7, <2>1, <2>5, <2>6, <2>8, <2>9 DEF IInv
<1>10. CASE m.type = "answer"
    <2>1. SetMessage(m) /\ UNCHANGED <<requestQ, out, readable>>
        BY <1>10 DEF ReceiveMessages
    <2>2. m.cid \in FutureIds
        BY <1>3, <1>10 DEF Msg, Own
    <2>3. /\ counter' = counter /\ onAir' = onAir \ {m.cid}
          /\ got \subseteq got' /\ \A g \in got' : g \in got \/ g = m
          /\ m.cid \in onAir => m \in got'
        BY <2>1 DEF SetMessage, futures
    <2>4. Types'
        BY <1>1, <1>3, <2>1, <2>2, <2>3 DEF IInv, Types
    <2>5. Waiting'
        <3>1. \A c \in {main.cid, monitor.cid} \ {None} : c \in onAir' \/ \E g \in got' : g.cid = c
            BY <2>3 DEF IInv, Waiting
        <3>. QED
            BY <1>1, <3>1 DEF IInv, Waiting
    <2>6. Once(Queues') /\ m.cid \in All(Queues) /\ All(Queues') = All(Queues) \ {m.cid}
        <3>1. \A n \in Names \ {"inbox"} : Queues'[n] = Queues[n]
            BY <1>1, <2>1, NextQueues, QueuesType DEF IInv, Names
        <3>2. /\ Once(Queues') /\ Head(Queues["inbox"]).cid \in All(Queues)
              /\ All(Queues') = All(Queues) \ {Head(Queues["inbox"]).cid}
            BY <1>4, <3>1, QueuesTake
        <3>. QED
            BY <1>4, <3>2
    <2>7. pending' = pending \ {m.cid}
        BY <1>1, <2>2, IdKinds DEF IInv, Types
    <2>8. Issued' /\ UnderWay'
        BY <1>1, <2>3, <2>6, <2>7, TakenOut
    <2>9. m.type # "process"
        BY <1>10
    <2>. QED
        BY <1>7, <2>1, <2>4, <2>5, <2>8, <2>9 DEF IInv
<1>. QED
    BY <1>8, <1>9, <1>10 DEF ReceiveMessages

(* Serve keeps the invariant.                                              *)
LEMMA ServeIInv == ASSUME IInv, Serve PROVE IInv'
<1>. DEFINE m == Head(out)
<1>1. /\ out # <<>> /\ out' = Tail(out)
      /\ UNCHANGED <<main, monitor, connected, counter, onAir, got, sendQ, inbox, requestQ, awake,
                     readable, faults, requests, missed, lost, asked, replies>>
    BY DEF Serve, local, futures, socket, history
<1>2. out \in Seq(Msg) /\ back \in Seq(Msg)
    BY DEF IInv, Types
<1>3. m \in Msg /\ out' \in Seq(Msg)
    BY <1>1, <1>2
<1>4. /\ "out" \in Names /\ "back" \in Names /\ "out" # "back"
      /\ Queues["out"] = out /\ Queues["back"] = back
      /\ Queues'["out"] = Tail(Queues["out"]) /\ Queues["out"] # <<>>
    BY <1>1, NextQueues, QueuesType DEF IInv, Names
<1>5. InOrder'
    BY <1>1, OrderSame
<1>6. Waiting'
    BY <1>1 DEF IInv, Waiting
<1>7. ASSUME NEW how \in {"ok", "refused"}, m.type \in {"register", "state"},
             back' = Append(back, Message("answer", m.cid, how)),
             registered' \subseteq 1 .. Handlers, UNCHANGED <<pending, answered>>
      PROVE  IInv'
    <2>. DEFINE r == Message("answer", m.cid, how)
    <2>1. m.cid \in FutureIds
        BY <1>3, <1>7 DEF Msg, Own
    <2>2. r \in Msg /\ r.cid = m.cid
        BY <2>1 DEF Message, Msg, Own, Theirs, Ids
    <2>3. back' \in Seq(Msg)
        BY <1>2, <1>7, <2>2
    <2>4. Types'
        BY <1>1, <1>3, <1>7, <2>3 DEF IInv, Types
    <2>5. Once(Queues') /\ All(Queues') = All(Queues)
        <3>1. \A n \in Names \ {"out", "back"} : Queues'[n] = Queues[n]
            BY <1>1, NextQueues, QueuesType DEF IInv, Names
        <3>2. Queues'["back"] = Append(Queues["back"], r) /\ r.cid = Head(Queues["out"]).cid
            BY <1>4, <1>7, <2>2, NextQueues
        <3>. HIDE DEF r
        <3>. QED
            BY <1>4, <2>2, <3>1, <3>2, QueuesMove, Zenon
    <2>6. Issued' /\ UnderWay'
        BY <1>1, <1>7, <2>5, SameContents
    <2>. QED
        BY <1>5, <1>6, <2>4, <2>6 DEF IInv
<1>8. ASSUME UNCHANGED <<back, registered>>, pending' = pending \ {m.cid},
             answered \subseteq answered', answered' \subseteq Txns,
             m.cid \notin FutureIds
      PROVE  IInv'
    <2>1. Types'
        BY <1>1, <1>3, <1>8 DEF IInv, Types
    <2>2. Once(Queues') /\ m.cid \in All(Queues) /\ All(Queues') = All(Queues) \ {m.cid}
        <3>1. \A n \in Names \ {"out"} : Queues'[n] = Queues[n]
            BY <1>1, <1>8, NextQueues, QueuesType DEF IInv, Names
        <3>2. /\ Once(Queues') /\ Head(Queues["out"]).cid \in All(Queues)
              /\ All(Queues') = All(Queues) \ {Head(Queues["out"]).cid}
            BY <1>4, <3>1, QueuesTake
        <3>. QED
            BY <1>4, <3>2
    <2>3. onAir' = onAir \ {m.cid}
        BY <1>1, <1>8 DEF IInv, Types
    <2>4. Issued' /\ UnderWay'
        BY <1>1, <1>8, <2>2, <2>3, TakenOut
    <2>. QED
        BY <1>5, <1>6, <2>1, <2>4 DEF IInv
<1>9. CASE m.type = "register"
    <2>1. m.arg \in 1 .. Handlers
        BY <1>3, <1>9 DEF Msg
    <2>2. /\ registered' \subseteq 1 .. Handlers /\ UNCHANGED <<pending, answered>>
          /\ \E how \in {"ok", "refused"} : back' = Append(back, Message("answer", m.cid, how))
        BY <1>9, <2>1 DEF Serve, IInv, Types
    <2>. QED
        BY <1>7, <1>9, <2>2
<1>10. CASE m.type = "state"
    <2>1. /\ back' = Append(back, Message("answer", m.cid, "ok"))
          /\ registered' \subseteq 1 .. Handlers /\ UNCHANGED <<pending, answered>>
        BY <1>10 DEF Serve, IInv, Types
    <2>. QED
        BY <1>7, <1>10, <2>1
<1>11. CASE m.type = "response"
    <2>1. m.cid \in Attempts
        BY <1>3, <1>11 DEF Msg, Theirs
    <2>2. m.cid \notin FutureIds /\ m.cid[1] \in Txns
        BY <2>1, IdKinds, IdNumbers
    <2>3. /\ pending' = pending \ {m.cid} /\ UNCHANGED <<registered, back>>
          /\ answered' = IF m.cid \in pending THEN answered \cup {m.cid[1]} ELSE answered
        BY <1>11 DEF Serve
    <2>4. answered \subseteq answered' /\ answered' \subseteq Txns
        BY <2>2, <2>3 DEF IInv, Types
    <2>. QED
        BY <1>8, <2>2, <2>3, <2>4
<1>12. CASE m.type = "pong"
    <2>1. m.cid \in PingIds
        BY <1>3, <1>12 DEF Msg
    <2>2. m.cid \notin FutureIds /\ m.cid \notin Attempts
        BY <2>1, IdKinds
    <2>3. UNCHANGED <<registered, pending, answered, back>>
        BY <1>12 DEF Serve
    <2>4. pending' = pending \ {m.cid} /\ answered' \subseteq Txns
        BY <2>2, <2>3 DEF IInv, Types
    <2>. QED
        BY <1>8, <2>2, <2>3, <2>4
<1>. QED
    BY <1>9, <1>10, <1>11, <1>12 DEF Serve

(* The first k messages of q are dropped, r is left.                       *)
Dropped(q, k, r) ==
    /\ r \in Seq(Msg) /\ Contents(r) \subseteq Contents(q)
    /\ \A i, j \in DOMAIN r : r[i].cid = r[j].cid => i = j
    /\ \A c \in Contents(q) :
          c \in Contents(r) \/ \E i \in 1 .. k : i \in DOMAIN q /\ q[i].cid = c

(* The front of a queue is dropped.                                        *)
LEMMA DropFront ==
    ASSUME NEW q \in Seq(Msg), NEW k \in 0 .. Len(q),
           \A i, j \in DOMAIN q : q[i].cid = q[j].cid => i = j
    PROVE  Dropped(q, k, SubSeq(q, k + 1, Len(q)))
<1>. DEFINE r == SubSeq(q, k + 1, Len(q))
<1>1. Len(q) \in Nat /\ DOMAIN q = 1 .. Len(q) /\ k \in Nat /\ k <= Len(q)
    OBVIOUS
<1>2. /\ r \in Seq(Msg) /\ DOMAIN r = 1 .. (Len(q) - k)
      /\ \A i \in 1 .. (Len(q) - k) : r[i] = q[k + i]
    BY <1>1
<1>. HIDE DEF r
<1>3. \A i \in DOMAIN r : i \in Nat /\ k + i \in DOMAIN q /\ r[i] = q[k + i]
    BY <1>1, <1>2
<1>4. \A i, j \in DOMAIN r : r[i].cid = r[j].cid => i = j
    <2>1. ASSUME NEW i \in DOMAIN r, NEW j \in DOMAIN r, r[i].cid = r[j].cid PROVE i = j
        <3>1. k + i = k + j
            BY <1>3, <2>1
        <3>. QED
            BY <1>1, <1>3, <3>1
    <2>. QED
        BY <2>1
<1>5. Contents(r) \subseteq Contents(q)
    BY <1>3 DEF Contents
<1>6. ASSUME NEW j \in DOMAIN q
      PROVE  q[j].cid \in Contents(r) \/ \E i \in 1 .. k : i \in DOMAIN q /\ q[i].cid = q[j].cid
    <2>1. CASE j <= k
        BY <1>1, <2>1
    <2>2. CASE k < j
        <3>1. j - k \in DOMAIN r /\ k + (j - k) = j
            BY <1>1, <1>2, <2>2
        <3>2. r[j - k] = q[j]
            BY <1>3, <3>1
        <3>. QED
            BY <3>1, <3>2 DEF Contents
    <2>. QED
        BY <1>1, <2>1, <2>2
<1>7. \A c \in Contents(q) :
         c \in Contents(r) \/ \E i \in 1 .. k : i \in DOMAIN q /\ q[i].cid = c
    <2>1. ASSUME NEW c \in Contents(q)
          PROVE  c \in Contents(r) \/ \E i \in 1 .. k : i \in DOMAIN q /\ q[i].cid = c
        <3>1. PICK j \in DOMAIN q : c = q[j].cid
            BY <2>1 DEF Contents
        <3>. QED
            BY <1>6, <3>1
    <2>. QED
        BY <2>1
<1>8. Dropped(q, k, r)
    BY <1>2, <1>4, <1>5, <1>7 DEF Dropped
<1>. QED
    BY <1>8 DEF r

(* What is lost with the link: the front of out, and back.                 *)
LEMMA LostFront ==
    ASSUME NEW q \in Seq(Msg), NEW b \in Seq(Msg), NEW k \in 0 .. Len(q)
    PROVE  LET l == {m.cid : m \in ToSet(SubSeq(q, 1, k) \o b)}
           IN  (\A i \in 1 .. k : q[i].cid \in l) /\ (\A i \in DOMAIN b : b[i].cid \in l)
<1>. DEFINE s == SubSeq(q, 1, k)
            z == s \o b
            l == {m.cid : m \in ToSet(z)}
<1>1. Len(q) \in Nat /\ k \in Nat /\ k <= Len(q) /\ Len(b) \in Nat /\ DOMAIN b = 1 .. Len(b)
    OBVIOUS
<1>2. s \in Seq(Msg) /\ Len(s) = k /\ \A i \in 1 .. k : s[i] = q[i]
    BY <1>1
<1>. HIDE DEF s
<1>3. /\ DOMAIN z = 1 .. (k + Len(b)) /\ \A i \in 1 .. k : z[i] = s[i]
      /\ \A i \in 1 .. Len(b) : z[k + i] = b[i]
    <2>1. /\ z \in Seq(Msg) /\ Len(z) = k + Len(b)
          /\ \A i \in 1 .. k + Len(b) : z[i] = IF i <= k THEN s[i] ELSE b[i - k]
        BY <1>2, ConcatProperties
    <2>. HIDE DEF z
    <2>2. \A i \in 1 .. k : i \in 1 .. k + Len(b) /\ i <= k
        BY <1>1
    <2>3. \A i \in 1 .. Len(b) : k + i \in 1 .. k + Len(b) /\ ~ (k + i <= k) /\ (k + i) - k = i
        BY <1>1
    <2>. QED
        BY <2>1, <2>2, <2>3
<1>. HIDE DEF z
<1>4. ASSUME NEW i \in 1 .. k PROVE q[i].cid \in l
    <2>1. i \in DOMAIN z /\ z[i] = q[i]
        BY <1>1, <1>2, <1>3
    <2>. QED
        BY <2>1 DEF ToSet
<1>5. ASSUME NEW i \in DOMAIN b PROVE b[i].cid \in l
    <2>1. k + i \in DOMAIN z /\ z[k + i] = b[i]
        BY <1>1, <1>3
    <2>. QED
        BY <2>1 DEF ToSet
<1>. QED
    BY <1>4, <1>5 DEF s, z

(* A link that breaks takes what is on the wire: the front of out, and     *)
(* back. What is left is still there once.                                 *)
LEMMA Broke ==
    ASSUME IInv, NEW k \in 0 .. Len(out), out' = SubSeq(out, k + 1, Len(out)), back' = <<>>,
           lost' = lost \cup {m.cid : m \in ToSet(SubSeq(out, 1, k) \o back)},
           UNCHANGED <<sendQ, inbox, requestQ>>
    PROVE  /\ out' \in Seq(Msg) /\ back' \in Seq(Msg)
           /\ Once(Queues') /\ All(Queues') \subseteq All(Queues)
           /\ \A c \in All(Queues) : c \in All(Queues') \/ c \in lost'
<1>1. /\ out \in Seq(Msg) /\ back \in Seq(Msg)
      /\ Queues["out"] = out /\ Queues["back"] = back /\ "out" \in Names /\ "back" \in Names
    BY QueuesType DEF IInv, Types, Names
<1>2. \A i, j \in DOMAIN out : out[i].cid = out[j].cid => i = j
    BY <1>1 DEF IInv, UnderWay, Once
<1>3. Dropped(out, k, out')
    BY <1>1, <1>2, DropFront, Zenon
<1>4. /\ \A i \in 1 .. k : out[i].cid \in lost'
      /\ \A i \in DOMAIN back : back[i].cid \in lost'
    BY <1>1, LostFront
<1>5. /\ Queues'["out"] = out' /\ Queues'["back"] = <<>>
      /\ \A n \in Names \ {"out", "back"} : Queues'[n] = Queues[n]
    BY NextQueues, QueuesType DEF IInv, Names
<1>6. back' \in Seq(Msg) /\ DOMAIN back' = {} /\ Contents(back') = {}
    BY DEF Contents
<1>7. \A n \in Names : Contents(Queues'[n]) \subseteq Contents(Queues[n])
    BY <1>1, <1>3, <1>5, <1>6 DEF Dropped
<1>8. ASSUME NEW n \in Names PROVE \A i, j \in DOMAIN Queues'[n] :
                                      Queues'[n][i].cid = Queues'[n][j].cid => i = j
    <2>1. CASE n = "out"
        BY <1>3, <1>5, <2>1 DEF Dropped
    <2>2. CASE n = "back"
        BY <1>5, <1>6, <2>2
    <2>3. CASE n \notin {"out", "back"}
        BY <1>5, <2>3 DEF IInv, UnderWay, Once
    <2>. QED
        BY <2>1, <2>2, <2>3
<1>9. Once(Queues')
    <2>1. \A m, n \in Names : m # n => Contents(Queues[m]) \cap Contents(Queues[n]) = {}
        BY DEF IInv, UnderWay, Once
    <2>2. ASSUME NEW m \in Names, NEW n \in Names, m # n
          PROVE  Contents(Queues'[m]) \cap Contents(Queues'[n]) = {}
        BY <1>7, <2>1, <2>2
    <2>. QED
        BY <1>8, <2>2 DEF Once
<1>10. All(Queues') \subseteq All(Queues)
    BY <1>7 DEF All
<1>11. ASSUME NEW c \in All(Queues) PROVE c \in All(Queues') \/ c \in lost'
    <2>1. PICK n \in Names : c \in Contents(Queues[n])
        BY InAll
    <2>2. CASE n = "out"
        <3>1. c \in Contents(out') \/ c \in lost'
            BY <1>1, <1>3, <1>4, <2>1, <2>2 DEF Dropped
        <3>. QED
            BY <1>1, <1>5, <3>1, InAll
    <2>3. CASE n = "back"
        BY <1>1, <1>4, <2>1, <2>3 DEF Contents
    <2>4. CASE n \notin {"out", "back"}
        <3>1. Contents(Queues'[n]) = Contents(Queues[n])
            BY <1>5, <2>4
        <3>. QED
            BY <2>1, <3>1, InAll
    <2>. QED
        BY <2>2, <2>3, <2>4
<1>. QED
    BY <1>3, <1>6, <1>9, <1>10, <1>11 DEF Dropped

(* LinkDown keeps the invariant.                                           *)
LEMMA LinkDownIInv == ASSUME IInv, LinkDown PROVE IInv'
<1>1. /\ faults < MaxFaults /\ faults' = faults + 1 /\ back' = <<>>
      /\ registered' = {} /\ pending' = {}
      /\ UNCHANGED <<main, monitor, connected, counter, onAir, got, sendQ, inbox, requestQ, awake,
                     readable, answered, requests, missed, asked, replies>>
    BY DEF LinkDown, futures, socket, history
<1>2. /\ out' \in Seq(Msg) /\ back' \in Seq(Msg)
      /\ Once(Queues') /\ All(Queues') \subseteq All(Queues)
      /\ \A c \in All(Queues) : c \in All(Queues') \/ c \in lost'
    <2>1. PICK k \in 0 .. Len(out) :
              /\ out' = SubSeq(out, k + 1, Len(out))
              /\ lost' = lost \cup {m.cid : m \in ToSet(SubSeq(out, 1, k) \o back)}
        BY DEF LinkDown
    <2>. QED
        BY <1>1, <2>1, Broke
<1>3. lost \subseteq lost'
    BY DEF LinkDown
<1>4. faults \in Nat /\ MaxFaults \in Nat /\ faults' \in 0 .. MaxFaults
    BY <1>1, SawtoothAssumption DEF IInv, Types
<1>5. Types'
    BY <1>1, <1>2, <1>4 DEF IInv, Types
<1>6. Waiting'
    BY <1>1 DEF IInv, Waiting
<1>7. Issued'
    <2>1. ASSUME NEW c \in Attempts, c[2] <= faults PROVE c[2] <= faults' /\ c[2] # faults'
        <3>1. c[2] \in Nat
            BY IdNumbers
        <3>. QED
            BY <1>1, <1>4, <2>1, <3>1
    <2>2. \A c \in All(Queues') \cup {main.arg} : c \in Attempts => c[2] <= faults
        BY <1>2 DEF IInv, Issued
    <2>3. /\ \A c \in All(Queues') \cup onAir \cup {m.cid : m \in got} \cup {main.cid, monitor.cid} :
                c \in FutureIds => c[2] <= counter
          /\ \A c \in All(Queues') : c \in PingIds => c[2] < requests
        BY <1>2 DEF IInv, Issued
    <2>. QED
        BY <1>1, <2>1, <2>2, <2>3 DEF Issued
<1>8. UnderWay'
    BY <1>1, <1>2, <1>3 DEF IInv, UnderWay
<1>9. InOrder'
    BY <1>1, OrderSame
<1>. QED
    BY <1>5, <1>6, <1>7, <1>8, <1>9 DEF IInv

----------------------------------------------------------------------------
(* The specification                                                       *)

(* Every step keeps it.                                                    *)
LEMMA NextIInv == IInv /\ [Next]_vars => IInv'
<1>. SUFFICES ASSUME IInv, [Next]_vars PROVE IInv'
    OBVIOUS
<1>1. CASE UNCHANGED vars
    <2>1. UNCHANGED <<main, monitor, connected, counter, onAir, got, sendQ, out, inbox, requestQ,
                      awake, readable, back, registered, pending, answered, faults, requests,
                      missed, lost, asked, replies>>
        BY <1>1 DEF vars, local, futures, socket, peer, history
    <2>2. Types'
        BY <2>1 DEF IInv, Types
    <2>3. Waiting'
        BY <2>1 DEF IInv, Waiting
    <2>4. Issued' /\ UnderWay'
        BY <2>1, SameQueues, SameContents
    <2>5. InOrder'
        BY <2>1, OrderSame
    <2>. QED
        BY <2>2, <2>3, <2>4, <2>5 DEF IInv
<1>2. CASE Progress
    <2>1. DOMAIN sendQ = {"resp", "state"}
        BY DEF IInv, Types
    <2>2. CASE StartMonitor \/ Wake \/ LinkUp
        BY <2>2, QuietIInv
    <2>3. CASE OnEvent \/ Registered \/ RegisterRefused
        BY <2>3, MonitorIInv
    <2>4. CASE \E s \in DOMAIN sendQ : SendMessages(s)
        BY <2>1, <2>4, SendMessagesIInv
    <2>. QED
        BY <1>2, <2>2, <2>3, <2>4, HandleRequestIInv, AskStateIInv, GetStateIInv,
           ReceiveMessagesIInv, ArriveIInv, ServeIInv DEF Progress
<1>3. CASE Connect
    BY <1>3, QuietIInv
<1>4. CASE \E t \in Txns : Submit(t)
    BY <1>4, SubmitIInv
<1>. QED
    BY <1>1, <1>2, <1>3, <1>4, ConnectFailsIInv, NoMonitorIInv, LinkDownIInv, PingIInv DEF Next

(* So it holds always.                                                     *)
LEMMA Invariance == Spec => []IInv
<1>. QED
    BY InitIInv, NextIInv, PTL DEF Spec

(* What is in the queues once has one copy there, what is not has none.    *)
LEMMA CopiesAre ==
    ASSUME IInv, NEW c
    PROVE  (c \in All(Queues) => Copies(c) = 1) /\ (c \notin All(Queues) => Copies(c) = 0)
<1>1. DOMAIN Queues = Names
    BY QueuesType DEF IInv
<1>2. \A p : p \in Places(Queues, c) <=>
                \E n \in Names : \E i \in DOMAIN Queues[n] : Queues[n][i].cid = c /\ p = <<n, i>>
    BY <1>1 DEF Places
<1>3. ASSUME c \in All(Queues) PROVE Copies(c) = 1
    <2>1. PICK n \in Names : c \in Contents(Queues[n])
        BY <1>3, InAll
    <2>2. PICK i \in DOMAIN Queues[n] : Queues[n][i].cid = c
        BY <2>1 DEF Contents
    <2>3. ASSUME NEW m \in Names, NEW j \in DOMAIN Queues[m], Queues[m][j].cid = c
          PROVE  <<m, j>> = <<n, i>>
        <3>1. c \in Contents(Queues[m])
            BY <2>3 DEF Contents
        <3>2. m = n
            BY <2>1, <3>1 DEF IInv, UnderWay, Once
        <3>3. j = i
            BY <2>2, <2>3, <3>2 DEF IInv, UnderWay, Once
        <3>. QED
            BY <3>2, <3>3
    <2>4. \A p : p \in Places(Queues, c) <=> p = <<n, i>>
        BY <1>2, <2>2, <2>3
    <2>5. Places(Queues, c) = {<<n, i>>}
        BY <2>4
    <2>. QED
        BY <2>5, FS_Singleton DEF Copies
<1>4. ASSUME c \notin All(Queues) PROVE Copies(c) = 0
    <2>1. \A n \in Names : \A i \in DOMAIN Queues[n] : Queues[n][i].cid # c
        BY <1>4, InAll DEF Contents
    <2>2. Places(Queues, c) = {}
        BY <1>2, <2>1
    <2>. QED
        BY <2>2, FS_EmptySet DEF Copies
<1>. QED
    BY <1>3, <1>4

(* The inductive invariant implies that the state is well-formed.          *)
LEMMA StateIsTyped == IInv => TypeOK
<1>. SUFFICES ASSUME IInv PROVE TypeOK
    OBVIOUS
<1>1. ASSUME NEW c \in FutureIds, c[2] <= counter PROVE c \in Cids
    <2>1. c = <<"tp", c[2]>> /\ c[2] \in Nat \ {0} /\ counter \in Nat
        BY DEF FutureIds, IInv, Types
    <2>2. c[2] \in 1 .. counter
        BY <1>1, <2>1
    <2>. QED
        BY <2>1, <2>2 DEF Cids
<1>2. main.cid \in Cids \cup {None} /\ monitor.cid \in Cids \cup {None}
    BY <1>1 DEF IInv, Types, Issued
<1>3. onAir \subseteq Cids
    BY <1>1 DEF IInv, Types, Issued
<1>4. {m.cid : m \in got} \subseteq Cids
    BY <1>1 DEF IInv, Types, Issued
<1>5. /\ main.at \in {"start", "connected", "unregister", "idle", "apply"}
      /\ main.arg \in Attempts \cup {None}
      /\ monitor.at \in {"idle", "registering", "crashed", "off"} /\ monitor.arg \in 0 .. Handlers
    BY DEF IInv, Types
<1>6. {connected, awake, readable, missed} \subseteq BOOLEAN
    BY DEF IInv, Types
<1>. QED
    BY <1>2, <1>3, <1>4, <1>5, <1>6 DEF TypeOK, IInv, Types

(* Messages of the dispatcher's queues and coroutines are neither dropped  *)
(* nor doubled: what a future waits for is somewhere once unless a link    *)
(* broke with it on the wire, a transaction the validator waits for is in  *)
(* one queue or is being applied, and coroutines wait for futures that are *)
(* on air or answered.                                                     *)
THEOREM NothingDoesVanish == Spec => []NothingVanishes
<1>1. IInv => NothingVanishes
    <2>. SUFFICES ASSUME IInv PROVE NothingVanishes
        OBVIOUS
    <2>1. ASSUME NEW c \in onAir, c \notin lost PROVE Copies(c) = 1
        BY <2>1, CopiesAre DEF IInv, UnderWay
    <2>2. ASSUME NEW a \in pending PROVE Copies(a) + (IF main.arg = a THEN 1 ELSE 0) = 1
        <3>1. CASE main.arg = a
            BY <3>1, CopiesAre DEF IInv, UnderWay
        <3>2. CASE main.arg # a
            BY <3>2, CopiesAre DEF IInv, UnderWay
        <3>. QED
            BY <3>1, <3>2
    <2>3. \A c \in {main.cid, monitor.cid} \ {None} : c \in onAir \/ \E m \in got : m.cid = c
        BY DEF IInv, Waiting
    <2>. QED
        BY <2>1, <2>2, <2>3, StateIsTyped DEF NothingVanishes
<1>. QED
    BY <1>1, Invariance, PTL

(* Process requests are answered in the order in which they arrived, each  *)
(* once and with its own correlation id, for any number of requests and    *)
(* breaks of the link.                                                     *)
THEOREM RepliesAreInOrder == Spec => []RepliesInOrder
<1>1. IInv => RepliesInOrder
    <2>. SUFFICES ASSUME IInv PROVE RepliesInOrder
        OBVIOUS
    <2>1. /\ asked \in Seq(Attempts) /\ replies \in Seq(Attempts)
          /\ Len(asked) \in Nat /\ Len(replies) \in Nat /\ DOMAIN replies = 1 .. Len(replies)
        BY DEF IInv, Types
    <2>2. Len(replies) <= Len(asked)
        <3>1. Base <= Len(asked) /\ Len(requestQ) \in Nat /\ Applying \in {0, 1}
            BY DEF IInv, InOrder, Types, Applying
        <3>. QED
            BY <2>1, <3>1 DEF Base
    <2>3. \A i \in 1 .. Len(replies) : asked[i] = replies[i]
        BY <2>1 DEF IInv, InOrder
    <2>4. SubSeq(replies, 1, Len(replies)) = SubSeq(asked, 1, Len(replies))
        BY <2>1, <2>2, <2>3
    <2>. QED
        BY <2>2, <2>4 DEF RepliesInOrder, IsPrefix
<1>. QED
    BY <1>1, Invariance, PTL
==============================================================================
