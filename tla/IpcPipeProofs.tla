---------------------------- MODULE IpcPipeProofs -----------------------------
(***************************************************************************)
(* What holds of the messages through a worker's pipe for any number of    *)
(* senders, kinds, chunks and messages and any capacity of the pipe.       *)
(***************************************************************************)
EXTENDS IpcPipe, SequenceTheorems, TLAPS

Header  == [kind : Kinds, left : Nat, from : Senders, n : Nat]
Message == [hdr : Header, body : Seq(UnitType)]

Types ==
    /\ handled \subseteq Kinds /\ inside \subseteq Senders
    /\ pc \in [Senders -> {"idle", "lock", "write", "exited"}]
    /\ out \in [Senders -> [kind : Kinds \cup {"none"}, n : Nat]]
    /\ written \in [Senders -> Nat]
    /\ pipe \in Seq(UnitType) /\ body \in Seq(UnitType)
    /\ reading \in Header \cup {NoHeader} /\ inbox \in Seq(Message)
    /\ aligned \in BOOLEAN /\ open \in BOOLEAN
    /\ Len(pipe) <= PipeCap

(* A sender has the lock while it writes, and one that exited keeps it.    *)
Locking ==
    /\ \A s, t \in inside : s = t
    /\ \A s \in Senders :
          /\ pc[s] = "lock" => written[s] = 0
          /\ pc[s] = "write" => s \in inside
          /\ s \in inside => pc[s] \in {"write", "exited"}
          /\ (pc[s] \in {"lock", "write"} \/ s \in inside) => out[s].n > 0
          /\ out[s].n > 0 => out[s].kind \in Kinds /\ written[s] <= 1 + Chunks[out[s].kind]
          /\ out[s].n = 0 => written[s] = 0

(* s has written a part of its message.                                    *)
Partial(s) == written[s] > 0 /\ written[s] <= Chunks[out[s].kind]

(* The unit u is what its sender wrote last, and the sender has the lock.  *)
Latest(u) == /\ u.from \in inside /\ u.kind = out[u.from].kind
             /\ u.n = out[u.from].n /\ written[u.from] = u.i + 1

Same(u, v) == u.from = v.from /\ u.kind = v.kind /\ u.n = v.n

(* After a unit comes the next one of its message, or else a header.       *)
Follows(u, v) == \/ u.i < Chunks[u.kind] /\ Same(u, v) /\ v.i = u.i + 1
                 \/ u.i = Chunks[u.kind] /\ v.i = 0

(* Whole messages one after the other, but for the last.                   *)
Stream ==
    /\ \A j \in DOMAIN pipe : pipe[j].i <= Chunks[pipe[j].kind]
    /\ \A j \in DOMAIN pipe : j + 1 \in DOMAIN pipe => Follows(pipe[j], pipe[j + 1])
    /\ (/\ open /\ pipe # <<>>
        /\ \/ pipe[Len(pipe)].i < Chunks[pipe[Len(pipe)].kind]
           \/ \E s \in inside : Partial(s))
       => Latest(pipe[Len(pipe)])

Piece(h, i) == [from |-> h.from, kind |-> h.kind, n |-> h.n, i |-> i]

Fits ==
    /\ reading = NoHeader => body = <<>>
    /\ reading # NoHeader => Len(body) < reading.left

(* What the reader expects is what comes next.                             *)
InStep ==
    /\ aligned /\ reading = NoHeader =>
          IF pipe = <<>> THEN open => \A s \in inside : ~ Partial(s) ELSE pipe[1].i = 0
    /\ aligned /\ reading # NoHeader =>
          /\ reading.left = Chunks[reading.kind]
          /\ \A j \in DOMAIN body : body[j] = Piece(reading, j)
          /\ IF pipe = <<>> THEN open => Latest(Piece(reading, Len(body)))
                            ELSE pipe[1] = Piece(reading, Len(body) + 1)

(* The number of the last message whose header s has written.              *)
Sent(s) == IF pc[s] \in {"lock", "write"} /\ written[s] = 0 THEN out[s].n - 1 ELSE out[s].n

(* The headers of a sender that are still to come are later than those     *)
(* which were read.                                                        *)
Ordered ==
    /\ \A j, l \in DOMAIN pipe :
          j < l /\ pipe[j].from = pipe[l].from /\ pipe[l].i = 0 => pipe[j].n < pipe[l].n
    /\ \A j \in DOMAIN pipe : pipe[j].n <= Sent(pipe[j].from)
    /\ aligned =>
          /\ \A m \in DOMAIN inbox : inbox[m].hdr.n <= Sent(inbox[m].hdr.from)
          /\ \A m \in DOMAIN inbox, l \in DOMAIN pipe :
                inbox[m].hdr.from = pipe[l].from /\ pipe[l].i = 0 => inbox[m].hdr.n < pipe[l].n
    /\ aligned /\ reading # NoHeader =>
          /\ reading.n <= Sent(reading.from)
          /\ \A m \in DOMAIN inbox : inbox[m].hdr.from = reading.from => inbox[m].hdr.n < reading.n
          /\ \A l \in DOMAIN pipe :
                pipe[l].from = reading.from /\ pipe[l].i = 0 => reading.n < pipe[l].n

IInv == Types /\ Locking /\ Stream /\ Fits /\ InStep /\ Ordered /\ BodiesIntact /\ SenderOrder

----------------------------------------------------------------------------
(* Units and sequences of them                                             *)

(* The fields of units and of headers.                                     *)
LEMMA UnitFields ==
    /\ \A u \in UnitType : /\ u.from \in Senders /\ u.kind \in Kinds
                           /\ u.n \in Nat /\ u.n > 0 /\ u.i \in Nat
                           /\ Chunks[u.kind] \in Nat
    /\ \A h \in Header : /\ h.from \in Senders /\ h.kind \in Kinds
                         /\ h.n \in Nat /\ h.left \in Nat /\ Chunks[h.kind] \in Nat
    BY IpcPipeAssumption DEF UnitType, Header

(* Sequences of units.                                                     *)
LEMMA PipeFacts ==
    ASSUME NEW p \in Seq(UnitType)
    PROVE  /\ Len(p) \in Nat /\ DOMAIN p = 1 .. Len(p) /\ (p = <<>> <=> Len(p) = 0)
           /\ p # <<>> => 1 \in DOMAIN p /\ Len(p) \in DOMAIN p
           /\ \A j \in DOMAIN p : p[j] \in UnitType /\ j \in Nat /\ 1 <= j /\ j <= Len(p)
<1>1. Len(p) \in Nat /\ DOMAIN p = 1 .. Len(p) /\ (p = <<>> <=> Len(p) = 0)
    OBVIOUS
<1>2. \A j \in DOMAIN p : p[j] \in UnitType
    OBVIOUS
<1>. QED
    BY <1>1, <1>2

(* What is left when the first unit is taken.                              *)
LEMMA TailFacts ==
    ASSUME NEW p \in Seq(UnitType), p # <<>>
    PROVE  /\ Tail(p) \in Seq(UnitType) /\ Len(Tail(p)) = Len(p) - 1
           /\ Head(p) = p[1] /\ Head(p) \in UnitType
           /\ \A j \in DOMAIN Tail(p) : j + 1 \in DOMAIN p /\ Tail(p)[j] = p[j + 1]
           /\ Tail(p) # <<>> => Tail(p)[Len(Tail(p))] = p[Len(p)]
<1>1. Len(p) \in Nat /\ Len(p) > 0 /\ DOMAIN p = 1 .. Len(p)
    OBVIOUS
<1>2. Tail(p) \in Seq(UnitType) /\ Len(Tail(p)) = Len(p) - 1
    OBVIOUS
<1>3. \A j \in 1 .. Len(p) - 1 : Tail(p)[j] = p[j + 1]
    OBVIOUS
<1>4. Head(p) = p[1] /\ p[1] \in UnitType
    OBVIOUS
<1>5. DOMAIN Tail(p) = 1 .. Len(p) - 1
    BY <1>1, <1>2
<1>6. \A j \in 1 .. Len(p) - 1 : j + 1 \in 1 .. Len(p)
    BY <1>1
<1>7. ASSUME Tail(p) # <<>> PROVE Tail(p)[Len(Tail(p))] = p[Len(p)]
    <2>1. Len(p) - 1 \in 1 .. Len(p) - 1 /\ Len(p) - 1 + 1 = Len(p)
        BY <1>1, <1>2, <1>7
    <2>2. Tail(p)[Len(p) - 1] = p[Len(p) - 1 + 1]
        BY <1>3, <2>1
    <2>. QED
        BY <1>2, <2>1, <2>2
<1>. QED
    BY <1>1, <1>2, <1>3, <1>4, <1>5, <1>6, <1>7

(* What a sequence is after another element.                               *)
LEMMA AppendFacts ==
    ASSUME NEW S, NEW p \in Seq(S), NEW u \in S
    PROVE  /\ Append(p, u) \in Seq(S) /\ Len(Append(p, u)) = Len(p) + 1
           /\ Append(p, u) # <<>>
           /\ \A j \in DOMAIN p : j \in DOMAIN Append(p, u) /\ Append(p, u)[j] = p[j]
           /\ Len(p) + 1 \in DOMAIN Append(p, u) /\ Append(p, u)[Len(p) + 1] = u
           /\ \A j \in DOMAIN Append(p, u) : j \in DOMAIN p \/ j = Len(p) + 1
<1>1. Len(p) \in Nat /\ DOMAIN p = 1 .. Len(p)
    OBVIOUS
<1>2. Append(p, u) \in Seq(S) /\ Len(Append(p, u)) = Len(p) + 1
    BY AppendProperties
<1>3. DOMAIN Append(p, u) = 1 .. Len(p) + 1
    BY <1>1, <1>2
<1>4. Append(p, u) # <<>>
    BY AppendProperties
<1>5. /\ \A j \in 1 .. Len(p) : Append(p, u)[j] = p[j]
      /\ Append(p, u)[Len(p) + 1] = u
    OBVIOUS
<1>. QED
    BY <1>1, <1>2, <1>3, <1>4, <1>5

(* The messages that were delivered.                                       *)
LEMMA InboxFacts ==
    ASSUME NEW box \in Seq(Message)
    PROVE  /\ Len(box) \in Nat /\ DOMAIN box = 1 .. Len(box)
           /\ \A m \in DOMAIN box : /\ box[m] \in Message /\ m \in Nat /\ m <= Len(box)
                                      /\ box[m].hdr \in Header
                                      /\ box[m].body \in Seq(UnitType)
           /\ \A x : x \in ToSet(box) <=> \E m \in DOMAIN box : x = box[m]
<1>1. \A m \in DOMAIN box : box[m] \in Message
    OBVIOUS
<1>2. \A x \in Message : x.hdr \in Header /\ x.body \in Seq(UnitType)
    BY DEF Message
<1>3. Len(box) \in Nat /\ DOMAIN box = 1 .. Len(box)
    OBVIOUS
<1>4. \A x : x \in ToSet(box) <=> \E m \in DOMAIN box : x = box[m]
    BY Zenon DEF ToSet
<1>. QED
    BY <1>1, <1>2, <1>3, <1>4

----------------------------------------------------------------------------
(* Steps that leave the pipe and the reader alone                          *)

(* What a sender has written.                                              *)
LEMMA SenderFacts ==
    ASSUME Types, Locking, NEW s \in Senders
    PROVE  /\ written[s] \in Nat /\ out[s].n \in Nat
           /\ out[s].kind \in Kinds => Chunks[out[s].kind] \in Nat
    BY IpcPipeAssumption DEF Types

(* A step that leaves the pipe, the reader and what was sent alone.        *)
LEMMA QuietIInv ==
    ASSUME IInv, Types', Locking', UNCHANGED <<pipe, reading, body, inbox, aligned>>,
           open' => open,
           open' => \A s \in inside : Partial(s) =>
                       s \in inside' /\ out'[s] = out[s] /\ written'[s] = written[s],
           open' => \A s \in inside' : Partial(s)' => s \in inside /\ Partial(s),
           \A s \in Senders : Sent(s) <= Sent(s)' /\ Sent(s) \in Int /\ Sent(s)' \in Int
    PROVE  IInv'
<1>1. Types /\ Locking /\ pipe \in Seq(UnitType)
    BY DEF IInv, Types
<1>2. \A u : open' /\ Latest(u) /\ Partial(u.from) => Latest(u)'
    BY DEF Latest
<1>3. \A j \in DOMAIN pipe : pipe[j] \in UnitType
    BY <1>1
<1>4. \A u \in UnitType : Latest(u) /\ u.i < Chunks[u.kind] => Partial(u.from)
    BY UnitFields DEF Latest, Partial
<1>5. Stream'
    <2>1. ASSUME open', pipe # <<>>,
                 \/ pipe[Len(pipe)].i < Chunks[pipe[Len(pipe)].kind]
                 \/ \E s \in inside' : Partial(s)'
          PROVE  Latest(pipe[Len(pipe)])'
        <3> DEFINE u == pipe[Len(pipe)]
        <3>1. u \in UnitType
            BY <1>1, <2>1, PipeFacts
        <3>2. Latest(u)
            BY <2>1 DEF IInv, Stream
        <3>3. Partial(u.from)
            <4>1. CASE u.i < Chunks[u.kind]
                BY <1>4, <3>1, <3>2, <4>1
            <4>2. CASE \E s \in inside' : Partial(s)'
                <5>1. PICK s \in inside : Partial(s)
                    BY <2>1, <4>2
                <5>2. u.from = s
                    BY <3>2 DEF Latest, IInv, Locking
                <5>. QED
                    BY <5>1, <5>2
            <4>. QED
                BY <2>1, <4>1, <4>2
        <3>. QED
            BY <1>2, <2>1, <3>2, <3>3
    <2>. QED
        BY <2>1 DEF IInv, Stream, Follows, Same
<1>6. Fits'
    BY DEF IInv, Fits, NoHeader
<1>7. InStep'
    <2>1. ASSUME aligned, reading # NoHeader, pipe = <<>>, open'
          PROVE  Latest(Piece(reading, Len(body)))'
        <3> DEFINE u == Piece(reading, Len(body))
        <3>1. Latest(u)
            BY <2>1 DEF IInv, InStep
        <3>2. Len(body) < Chunks[reading.kind]
            BY <2>1 DEF IInv, InStep, Fits
        <3>3. u.i = Len(body) /\ u.kind = reading.kind /\ u.from = reading.from
            BY DEF Piece
        <3>4. Len(body) \in Nat /\ Chunks[reading.kind] \in Nat
            BY <2>1, UnitFields DEF IInv, Types
        <3>5. Partial(u.from)
            BY <3>1, <3>2, <3>3, <3>4 DEF Partial, Latest
        <3>6. Latest(u)'
            BY <1>2, <2>1, <3>1, <3>5
        <3>. QED
            BY <3>6 DEF Piece, Latest
    <2>2. ASSUME aligned, reading = NoHeader, pipe = <<>>, open'
          PROVE  \A s \in inside' : ~ Partial(s)'
        BY <2>2 DEF IInv, InStep
    <2>. QED
        BY <2>1, <2>2 DEF IInv, InStep, NoHeader, Piece
<1>8. Ordered'
    <2>1. \A s \in Senders, n \in Int : n <= Sent(s) => n <= Sent(s)'
        OBVIOUS
    <2>2. \A j \in DOMAIN pipe : pipe[j].n <= Sent(pipe[j].from)'
        BY <1>3, <2>1, UnitFields DEF IInv, Ordered
    <2>3. aligned => \A m \in DOMAIN inbox : inbox[m].hdr.n <= Sent(inbox[m].hdr.from)'
        <3>1. \A m \in DOMAIN inbox : inbox[m].hdr \in Header
            BY <1>1, InboxFacts DEF Types
        <3>. QED
            BY <2>1, <3>1, UnitFields DEF IInv, Ordered
    <2>4. aligned /\ reading # NoHeader => reading.n <= Sent(reading.from)'
        BY <2>1, UnitFields DEF IInv, Ordered, Types
    <2>. QED
        BY <2>2, <2>3, <2>4 DEF IInv, Ordered, NoHeader
<1>9. BodiesIntact' /\ SenderOrder'
    BY DEF IInv, BodiesIntact, SenderOrder
<1>. QED
    BY <1>5, <1>6, <1>7, <1>8, <1>9 DEF IInv

(* Sent changes only with the sender's own state.                          *)
LEMMA SentFacts ==
    ASSUME Types, Types'
    PROVE  \A s \in Senders :
              /\ Sent(s) \in Int /\ Sent(s)' \in Int
              /\ (pc'[s] = pc[s] /\ out'[s] = out[s] /\ written'[s] = written[s])
                    => Sent(s)' = Sent(s)
<1>1. \A s \in Senders : out[s].n \in Nat /\ out'[s].n \in Nat
    BY DEF Types
<1>. QED
    BY <1>1 DEF Sent

(* Send keeps the invariant.                                               *)
LEMMA SendIInv ==
    ASSUME IInv, NEW s \in Senders, NEW k \in Kinds, Send(s, k)
    PROVE  IInv'
<1>1. Types /\ Locking
    BY DEF IInv
<1>2. out[s].n \in Nat /\ out[s].n + 1 \in Nat /\ out[s].n + 1 > 0
    BY <1>1, SenderFacts
<1>3. /\ pc[s] = "idle" /\ pc'[s] = "lock" /\ written'[s] = 0
      /\ out'[s].kind = k /\ out'[s].n = out[s].n + 1
      /\ \A t \in Senders \ {s} : pc'[t] = pc[t] /\ out'[t] = out[t] /\ written'[t] = written[t]
    BY <1>1 DEF Send, Types
<1>4. Types'
    BY <1>1, <1>2 DEF Send, Types, receiver
<1>5. s \notin inside /\ inside' = inside
    BY <1>1, <1>3 DEF Locking, Send
<1>6. Locking'
    <2>1. \A u, v \in inside' : u = v
        BY <1>1, <1>5 DEF Locking
    <2>2. /\ pc[s]' \in {"lock"} /\ written[s]' = 0 /\ s \notin inside'
          /\ out[s]'.n > 0 /\ out[s]'.kind \in Kinds /\ 0 <= 1 + Chunks[out[s]'.kind]
        BY <1>2, <1>3, <1>5, IpcPipeAssumption
    <2>3. \A t \in Senders \ {s} : /\ pc'[t] = pc[t] /\ out'[t] = out[t]
                                   /\ written'[t] = written[t] /\ (t \in inside' <=> t \in inside)
        BY <1>3, <1>5
    <2>. QED
        BY <1>1, <2>1, <2>2, <2>3 DEF Locking
<1>7. Sent(s) <= Sent(s)'
    BY <1>2, <1>3 DEF Sent
<1>8. \A t \in Senders : Sent(t) <= Sent(t)' /\ Sent(t) \in Int /\ Sent(t)' \in Int
    BY <1>1, <1>3, <1>4, <1>7, SentFacts
<1>9. \A t \in inside : t \in Senders \ {s}
    BY <1>1, <1>5 DEF Types
<1>10. \A t \in inside' : Partial(t)' => t \in inside /\ Partial(t)
    BY <1>3, <1>5, <1>9 DEF Partial
<1>. QED
    BY <1>3, <1>4, <1>5, <1>6, <1>8, <1>9, <1>10, QuietIInv DEF Send, receiver

(* AcquireLock keeps the invariant.                                        *)
LEMMA AcquireLockIInv ==
    ASSUME IInv, NEW s \in Senders, AcquireLock(s)
    PROVE  IInv'
<1>1. Types /\ Locking
    BY DEF IInv
<1>2. /\ inside = {} /\ inside' = {s} /\ pc[s] = "lock" /\ pc'[s] = "write"
      /\ \A t \in Senders \ {s} : pc'[t] = pc[t]
      /\ out' = out /\ written' = written
    BY <1>1 DEF AcquireLock, DestinationLock!Enter, Types
<1>3. Types'
    BY <1>1, <1>2 DEF AcquireLock, Types, receiver
<1>4. written[s] = 0
    BY <1>1, <1>2 DEF Locking
<1>5. Locking'
    <2>1. \A t \in Senders \ {s} : pc'[t] = pc[t] /\ t \notin inside' /\ t \notin inside
        BY <1>2
    <2>. QED
        BY <1>1, <1>2, <1>4, <2>1 DEF Locking
<1>6. Sent(s)' = Sent(s)
    BY <1>2 DEF Sent
<1>7. \A t \in Senders : Sent(t) <= Sent(t)' /\ Sent(t) \in Int /\ Sent(t)' \in Int
    BY <1>1, <1>2, <1>3, <1>6, SentFacts
<1>8. \A t \in inside' : ~ Partial(t)'
    BY <1>2, <1>4 DEF Partial
<1>. QED
    BY <1>2, <1>3, <1>5, <1>7, <1>8, QuietIInv DEF AcquireLock, receiver

(* Return keeps the invariant.                                             *)
LEMMA ReturnIInv ==
    ASSUME IInv, NEW s \in Senders, Return(s)
    PROVE  IInv'
<1>1. Types /\ Locking
    BY DEF IInv
<1>2. /\ s \in inside /\ inside' = inside \ {s} /\ pc[s] = "write" /\ pc'[s] = "idle"
      /\ \A t \in Senders \ {s} : pc'[t] = pc[t]
      /\ out' = out /\ written' = written /\ open' = open
      /\ written[s] > Chunks[out[s].kind] \/ ~ open
    BY <1>1 DEF Return, DestinationLock!Leave, Types
<1>3. Types'
    BY <1>1, <1>2 DEF Return, Types, receiver
<1>4. inside' = {} /\ \A t \in inside : t = s
    BY <1>1, <1>2 DEF Locking
<1>5. Locking'
    <2>1. \A t \in Senders \ {s} : pc'[t] = pc[t] /\ t \notin inside' /\ t \notin inside
        BY <1>2, <1>4
    <2>. QED
        BY <1>1, <1>2, <1>4, <2>1 DEF Locking
<1>6. Sent(s) <= Sent(s)'
    <2>1. out[s].n \in Nat
        BY <1>1, SenderFacts
    <2>. QED
        BY <1>2, <2>1 DEF Sent
<1>7. \A t \in Senders : Sent(t) <= Sent(t)' /\ Sent(t) \in Int /\ Sent(t)' \in Int
    BY <1>1, <1>2, <1>3, <1>6, SentFacts
<1>8. open => ~ Partial(s)
    <2>1. written[s] \in Nat /\ Chunks[out[s].kind] \in Nat
        BY <1>1, <1>2, SenderFacts DEF Locking
    <2>. QED
        BY <1>2, <2>1 DEF Partial
<1>. QED
    BY <1>2, <1>3, <1>4, <1>5, <1>7, <1>8, QuietIInv DEF Return, receiver

(* SenderExits keeps the invariant.                                        *)
LEMMA SenderExitsIInv ==
    ASSUME IInv, NEW s \in Senders, SenderExits(s)
    PROVE  IInv'
<1>1. Types /\ Locking
    BY DEF IInv
<1>2. /\ inside' = inside /\ pc[s] \in {"lock", "write"} /\ pc'[s] = "exited"
      /\ \A t \in Senders \ {s} : pc'[t] = pc[t]
      /\ out' = out /\ written' = written /\ open' = open
    BY <1>1 DEF SenderExits, Types
<1>3. Types'
    BY <1>1, <1>2 DEF SenderExits, Types, receiver
<1>4. Locking'
    <2>1. \A t \in Senders : pc'[t] = pc[t] \/ t = s
        BY <1>2
    <2>. QED
        BY <1>1, <1>2, <2>1 DEF Locking
<1>5. Sent(s) <= Sent(s)'
    <2>1. out[s].n \in Nat
        BY <1>1, SenderFacts
    <2>. QED
        BY <1>2, <2>1 DEF Sent
<1>6. \A t \in Senders : Sent(t) <= Sent(t)' /\ Sent(t) \in Int /\ Sent(t)' \in Int
    BY <1>1, <1>2, <1>3, <1>5, SentFacts
<1>7. \A t : Partial(t)' <=> Partial(t)
    BY <1>2 DEF Partial
<1>. QED
    BY <1>2, <1>3, <1>4, <1>6, <1>7, QuietIInv DEF SenderExits, receiver

(* A handler comes or goes, the reader's process exits.                    *)
LEMMA OtherIInv ==
    ASSUME IInv, ReceiverExits \/ \E k \in Kinds : Register(k) \/ Unregister(k)
    PROVE  IInv'
<1>1. Types /\ Locking
    BY DEF IInv
<1>2. UNCHANGED <<inside, pc, out, written, pipe, reading, body, inbox, aligned>>
    BY DEF ReceiverExits, Register, Unregister, sender, receiver
<1>3. handled' \subseteq Kinds /\ open' \in BOOLEAN /\ (open' => open)
    <2>1. CASE ReceiverExits
        BY <1>1, <2>1 DEF ReceiverExits, Types
    <2>2. CASE \E k \in Kinds : Register(k) \/ Unregister(k)
        <3>1. PICK k \in Kinds : Register(k) \/ Unregister(k)
            BY <2>2
        <3>2. open' = open /\ (handled' = handled \cup {k} \/ handled' = handled \ {k})
            BY <3>1 DEF Register, Unregister
        <3>. QED
            BY <1>1, <3>2 DEF Types
    <2>. QED
        BY <2>1, <2>2
<1>4. Types'
    BY <1>1, <1>2, <1>3 DEF Types
<1>5. Locking'
    BY <1>1, <1>2 DEF Locking
<1>6. \A t \in Senders : Sent(t) <= Sent(t)' /\ Sent(t) \in Int /\ Sent(t)' \in Int
    BY <1>1, <1>2, <1>4, SentFacts
<1>7. \A t : Partial(t)' <=> Partial(t)
    BY <1>2 DEF Partial
<1>. QED
    BY <1>2, <1>3, <1>4, <1>5, <1>6, <1>7, QuietIInv

----------------------------------------------------------------------------
(* A sender writes the next unit of its message                            *)

(* The unit that is written: its sender is the only one inside, and it     *)
(* ends the pipe.                                                          *)
LEMMA WriteFacts ==
    ASSUME IInv, NEW s \in Senders, Write(s)
    PROVE  LET u == Unit(s, written[s])
           IN  /\ s \in inside /\ inside = {s} /\ open /\ out[s].n \in Nat /\ out[s].n > 0
               /\ out[s].kind \in Kinds /\ Chunks[out[s].kind] \in Nat
               /\ written[s] \in Nat /\ written[s] <= Chunks[out[s].kind]
               /\ written'[s] = written[s] + 1
               /\ u \in UnitType /\ u.from = s /\ u.kind = out[s].kind
               /\ u.n = out[s].n /\ u.i = written[s]
               /\ pipe \in Seq(UnitType) /\ Len(pipe) \in Nat
               /\ pipe' \in Seq(UnitType) /\ Len(pipe') = Len(pipe) + 1
               /\ DOMAIN pipe = 1 .. Len(pipe) /\ DOMAIN pipe' = 1 .. Len(pipe) + 1
               /\ pipe'[Len(pipe) + 1] = u
               /\ \A j \in DOMAIN pipe : pipe'[j] = pipe[j]
               /\ UNCHANGED <<handled, inside, pc, out, reading, body, inbox, aligned, open>>
               /\ pc[s] = "write"
               /\ \A t \in Senders \ {s} : written'[t] = written[t]
               /\ (written[s] = 0 => Sent(s) = out[s].n - 1) /\ Sent(s)' = out[s].n
<1> DEFINE u == Unit(s, written[s])
<1>1. Types /\ Locking /\ pipe \in Seq(UnitType)
    BY DEF IInv, Types
<1>2. s \in inside /\ out[s].n > 0 /\ out[s].kind \in Kinds /\ open
    BY <1>1 DEF Locking, Write
<1>3. inside = {s}
    BY <1>1, <1>2 DEF Locking
<1>4. out[s].n \in Nat /\ Chunks[out[s].kind] \in Nat /\ written[s] \in Nat
    BY <1>1, <1>2, SenderFacts
<1>5. written'[s] = written[s] + 1 /\ \A t \in Senders \ {s} : written'[t] = written[t]
    BY <1>1 DEF Types, Write
<1>6. u \in UnitType /\ u.from = s /\ u.kind = out[s].kind /\ u.n = out[s].n /\ u.i = written[s]
    BY <1>2, <1>4 DEF UnitType, Unit
<1>7. pipe' = Append(pipe, u)
    BY DEF Write
<1>8. /\ pipe' \in Seq(UnitType) /\ Len(pipe') = Len(pipe) + 1
      /\ pipe'[Len(pipe) + 1] = u /\ \A j \in DOMAIN pipe : pipe'[j] = pipe[j]
    BY <1>1, <1>6, <1>7, AppendFacts
<1>9. /\ Len(pipe) \in Nat /\ DOMAIN pipe = 1 .. Len(pipe) /\ DOMAIN pipe' = 1 .. Len(pipe')
    BY <1>1, <1>8
<1>10. pc[s] = "write" /\ written[s] <= Chunks[out[s].kind]
       /\ UNCHANGED <<handled, inside, pc, out, reading, body, inbox, aligned, open>>
    BY DEF Write, receiver
<1>11. (written[s] = 0 => Sent(s) = out[s].n - 1) /\ Sent(s)' = out[s].n
    BY <1>4, <1>5, <1>10 DEF Sent
<1>. HIDE DEF u
<1>12. DOMAIN pipe' = 1 .. Len(pipe) + 1
    BY <1>8, <1>9
<1>. QED
    BY <1>1, <1>2, <1>3, <1>4, <1>5, <1>6, <1>8, <1>9, <1>10, <1>11, <1>12 DEF u

(* Write keeps the invariant.                                              *)
LEMMA WriteIInv ==
    ASSUME IInv, NEW s \in Senders, Write(s)
    PROVE  IInv'
<1> DEFINE u == Unit(s, written[s])
           L == Len(pipe)
<1>1. /\ s \in inside /\ inside = {s} /\ open /\ out[s].n \in Nat /\ out[s].n > 0
      /\ out[s].kind \in Kinds /\ Chunks[out[s].kind] \in Nat
      /\ written[s] \in Nat /\ written[s] <= Chunks[out[s].kind] /\ written'[s] = written[s] + 1
      /\ u \in UnitType /\ u.from = s /\ u.kind = out[s].kind /\ u.n = out[s].n /\ u.i = written[s]
      /\ pipe \in Seq(UnitType) /\ L \in Nat /\ pipe' \in Seq(UnitType) /\ Len(pipe') = L + 1
      /\ DOMAIN pipe = 1 .. L /\ DOMAIN pipe' = 1 .. L + 1 /\ pipe'[L + 1] = u
      /\ \A j \in DOMAIN pipe : pipe'[j] = pipe[j]
      /\ UNCHANGED <<handled, inside, pc, out, reading, body, inbox, aligned, open>>
      /\ pc[s] = "write" /\ \A t \in Senders \ {s} : written'[t] = written[t]
      /\ (written[s] = 0 => Sent(s) = out[s].n - 1) /\ Sent(s)' = out[s].n
    BY WriteFacts
<1>. HIDE DEF u, L
<1>2. Types /\ Locking
    BY DEF IInv
<1>3. \A j \in DOMAIN pipe' : j = L + 1 \/ (j \in DOMAIN pipe /\ pipe'[j] = pipe[j])
    BY <1>1
<1>4. Types'
    <2>1. written' \in [Senders -> Nat]
        BY <1>1, <1>2 DEF Types, Write
    <2>2. Len(pipe') <= PipeCap
        BY <1>1, IpcPipeAssumption DEF Write, L
    <2>. QED
        BY <1>1, <1>2, <2>1, <2>2 DEF Types
<1>5. Locking'
    <2>1. \A t \in Senders : t = s \/ written'[t] = written[t]
        BY <1>1
    <2>2. written'[s] <= 1 + Chunks[out[s].kind]
        BY <1>1
    <2>. QED
        BY <1>1, <1>2, <2>1, <2>2 DEF Locking
<1>6. \A j \in DOMAIN pipe : /\ pipe[j] \in UnitType /\ pipe[j].i \in Nat /\ pipe[j].n \in Nat
                             /\ pipe[j].from \in Senders /\ Chunks[pipe[j].kind] \in Nat
    BY <1>1, PipeFacts, UnitFields
<1>7. Latest(pipe[Len(pipe)])'
    BY <1>1 DEF Latest
<1>8. ASSUME L \in DOMAIN pipe PROVE Follows(pipe[L], u)
    <2>1. pipe # <<>> /\ pipe[L] = pipe[Len(pipe)]
        BY <1>1, <1>8, PipeFacts DEF L
    <2>2. ASSUME Latest(pipe[L])
          PROVE  Same(pipe[L], u) /\ u.i = pipe[L].i + 1
        BY <1>1, <2>2 DEF Latest, Same
    <2>3. CASE pipe[L].i < Chunks[pipe[L].kind]
        <3>1. Latest(pipe[L])
            BY <1>1, <2>1, <2>3 DEF IInv, Stream
        <3>. QED
            BY <2>2, <2>3, <3>1 DEF Follows
    <2>4. CASE pipe[L].i = Chunks[pipe[L].kind]
        <3>1. ASSUME written[s] > 0 PROVE FALSE
            <4>1. Partial(s)
                BY <1>1, <3>1 DEF Partial
            <4>2. Latest(pipe[L])
                BY <1>1, <2>1, <4>1 DEF IInv, Stream
            <4>3. u.kind = pipe[L].kind /\ u.i = pipe[L].i + 1
                BY <2>2, <4>2 DEF Same
            <4>. QED
                BY <1>1, <1>6, <1>8, <2>4, <4>3
        <3>. QED
            BY <1>1, <2>4, <3>1 DEF Follows
    <2>5. pipe[L].i <= Chunks[pipe[L].kind]
        BY <1>8 DEF IInv, Stream
    <2>. QED
        BY <1>6, <1>8, <2>3, <2>4, <2>5
<1>9. Stream'
    <2>1. \A j \in DOMAIN pipe' : pipe'[j].i <= Chunks[pipe'[j].kind]
        BY <1>1, <1>3 DEF IInv, Stream
    <2>2. ASSUME NEW j \in DOMAIN pipe', j + 1 \in DOMAIN pipe'
          PROVE  Follows(pipe'[j], pipe'[j + 1])
        <3>1. j \in DOMAIN pipe /\ pipe'[j] = pipe[j]
            BY <1>1, <2>2
        <3>2. CASE j = L
            BY <1>1, <1>8, <3>1, <3>2
        <3>3. CASE j # L
            <4>1. j + 1 \in DOMAIN pipe
                BY <1>1, <2>2, <3>3
            <4>2. pipe'[j + 1] = pipe[j + 1]
                BY <1>1, <4>1
            <4>3. Follows(pipe[j], pipe[j + 1])
                BY <3>1, <4>1 DEF IInv, Stream
            <4>. QED
                BY <3>1, <4>2, <4>3
        <3>. QED
            BY <3>2, <3>3
    <2>3. \A j \in DOMAIN pipe' : j + 1 \in DOMAIN pipe' => Follows(pipe[j], pipe[j + 1])'
        BY <2>2 DEF Follows, Same
    <2>. QED
        BY <1>7, <2>1, <2>3 DEF Stream
<1>10. Fits'
    BY <1>1 DEF IInv, Fits, NoHeader
<1>11. pipe' # <<>> /\ (pipe # <<>> => pipe'[1] = pipe[1]) /\ (pipe = <<>> => pipe'[1] = u)
    <2>1. pipe' # <<>>
        BY <1>1
    <2>2. pipe # <<>> => pipe'[1] = pipe[1]
        BY <1>1, PipeFacts
    <2>3. pipe = <<>> => L = 0
        BY DEF L
    <2>. QED
        BY <1>1, <2>1, <2>2, <2>3
<1>12. InStep'
    <2>1. ASSUME aligned, reading = NoHeader PROVE pipe'[1].i = 0
        <3>1. CASE pipe = <<>>
            <4>1. ~ Partial(s)
                BY <1>1, <2>1, <3>1 DEF IInv, InStep
            <4>. QED
                BY <1>1, <1>11, <3>1, <4>1 DEF Partial
        <3>2. CASE pipe # <<>>
            BY <1>11, <2>1, <3>2 DEF IInv, InStep
        <3>. QED
            BY <3>1, <3>2
    <2>2. ASSUME aligned, reading # NoHeader PROVE pipe'[1] = Piece(reading, Len(body) + 1)
        <3>1. CASE pipe = <<>>
            <4>1. Latest(Piece(reading, Len(body)))
                BY <1>1, <2>2, <3>1 DEF IInv, InStep
            <4>2. /\ reading.from = s /\ reading.kind = out[s].kind /\ reading.n = out[s].n
                  /\ written[s] = Len(body) + 1
                BY <1>1, <4>1 DEF Latest, Piece
            <4>3. u = Piece(reading, Len(body) + 1)
                BY <4>2 DEF u, Unit, Piece
            <4>. QED
                BY <1>11, <3>1, <4>3
        <3>2. CASE pipe # <<>>
            BY <1>11, <2>2, <3>2 DEF IInv, InStep
        <3>. QED
            BY <3>1, <3>2
    <2>3. aligned /\ reading # NoHeader => /\ reading.left = Chunks[reading.kind]
                                           /\ \A j \in DOMAIN body : body[j] = Piece(reading, j)
        BY DEF IInv, InStep
    <2>. QED
        BY <1>1, <1>11, <2>1, <2>2, <2>3 DEF InStep, NoHeader, Piece
<1>13. \A t \in Senders : Sent(t) \in Int /\ Sent(t)' \in Int /\ Sent(t) <= Sent(t)'
    <2>1. \A t \in Senders : Sent(t) \in Int /\ Sent(t)' \in Int
        BY <1>2, <1>4, SentFacts
    <2>2. \A t \in Senders \ {s} : Sent(t)' = Sent(t)
        BY <1>1 DEF Sent
    <2>3. Sent(s) <= Sent(s)'
        BY <1>1 DEF Sent
    <2>. QED
        BY <2>1, <2>2, <2>3
<1>14. \A n \in Int, t \in Senders : n <= Sent(t) =>
          /\ n <= Sent(t)'
          /\ t = u.from /\ u.i = 0 => n < u.n
    BY <1>1, <1>13
<1>15. Ordered'
    <2>1. ASSUME NEW j \in DOMAIN pipe', NEW l \in DOMAIN pipe',
                 j < l, pipe'[j].from = pipe'[l].from, pipe'[l].i = 0
          PROVE  pipe'[j].n < pipe'[l].n
        <3>1. j \in DOMAIN pipe /\ pipe'[j] = pipe[j]
            BY <1>1, <2>1
        <3>2. CASE l = L + 1
            <4>1. pipe[j].n <= Sent(pipe[j].from)
                BY <3>1 DEF IInv, Ordered
            <4>. QED
                BY <1>1, <1>6, <1>14, <2>1, <3>1, <3>2, <4>1
        <3>3. CASE l \in DOMAIN pipe
            BY <1>1, <2>1, <3>1, <3>3 DEF IInv, Ordered
        <3>. QED
            BY <1>3, <3>2, <3>3
    <2>2. (\A j \in DOMAIN pipe : pipe[j].n <= Sent(pipe[j].from))'
        <3>1. \A j \in DOMAIN pipe, t \in Senders : t = pipe[j].from => pipe[j].n <= Sent(t)'
            BY <1>6, <1>14 DEF IInv, Ordered
        <3>2. \A t \in Senders : t = u.from => u.n <= Sent(t)'
            BY <1>1
        <3>3. \A j \in DOMAIN pipe', t \in Senders : t = pipe'[j].from => pipe'[j].n <= Sent(t)'
            BY <1>1, <1>3, <3>1, <3>2
        <3>4. \A j \in DOMAIN pipe' : pipe'[j].from \in Senders
            BY <1>1, <1>3, <1>6
        <3>. QED
            BY <3>3, <3>4
    <2>3. \A m \in DOMAIN inbox : inbox[m].hdr \in Header
        BY <1>2, InboxFacts DEF Types
    <2>4. ASSUME aligned, NEW m \in DOMAIN inbox
          PROVE  /\ inbox[m].hdr.n <= Sent(inbox[m].hdr.from)'
                 /\ \A l \in DOMAIN pipe' : inbox[m].hdr.from = pipe'[l].from /\ pipe'[l].i = 0
                                               => inbox[m].hdr.n < pipe'[l].n
        <3>1. inbox[m].hdr.n <= Sent(inbox[m].hdr.from)
            BY <2>4 DEF IInv, Ordered
        <3>2. inbox[m].hdr.n \in Int /\ inbox[m].hdr.from \in Senders
            BY <2>3, UnitFields
        <3>3. inbox[m].hdr.from = u.from /\ u.i = 0 => inbox[m].hdr.n < u.n
            BY <1>14, <3>1, <3>2
        <3>4. \A l \in DOMAIN pipe : inbox[m].hdr.from = pipe[l].from /\ pipe[l].i = 0
                                        => inbox[m].hdr.n < pipe[l].n
            BY <2>4 DEF IInv, Ordered
        <3>. QED
            BY <1>1, <1>3, <1>14, <3>1, <3>2, <3>3, <3>4
    <2>5. ASSUME aligned, reading # NoHeader
          PROVE  /\ reading.n <= Sent(reading.from)'
                 /\ \A l \in DOMAIN pipe' : pipe'[l].from = reading.from /\ pipe'[l].i = 0
                                               => reading.n < pipe'[l].n
        <3>1. reading.n <= Sent(reading.from)
            BY <2>5 DEF IInv, Ordered
        <3>2. reading.n \in Int /\ reading.from \in Senders
            BY <1>2, <2>5, UnitFields DEF Types
        <3>3. reading.from = u.from /\ u.i = 0 => reading.n < u.n
            BY <1>14, <3>1, <3>2
        <3>4. \A l \in DOMAIN pipe : pipe[l].from = reading.from /\ pipe[l].i = 0
                                        => reading.n < pipe[l].n
            BY <2>5 DEF IInv, Ordered
        <3>. QED
            BY <1>1, <1>3, <1>14, <3>1, <3>2, <3>3, <3>4
    <2>6. aligned /\ reading # NoHeader =>
             \A m \in DOMAIN inbox : inbox[m].hdr.from = reading.from => inbox[m].hdr.n < reading.n
        BY DEF IInv, Ordered
    <2>. QED
        BY <1>1, <2>1, <2>2, <2>4, <2>5, <2>6 DEF Ordered, NoHeader
<1>16. BodiesIntact' /\ SenderOrder'
    BY <1>1 DEF IInv, BodiesIntact, SenderOrder
<1>. QED
    BY <1>4, <1>5, <1>9, <1>10, <1>12, <1>15, <1>16 DEF IInv

----------------------------------------------------------------------------
(* The reader takes a unit                                                 *)

(* What the sender of h has still to be read is later than h.              *)
Later(h) == /\ h.n <= Sent(h.from)
            /\ \A l \in DOMAIN pipe : pipe[l].from = h.from /\ pipe[l].i = 0 => h.n < pipe[l].n

(* What may come after the unit u.                                         *)
After(u) == IF pipe = <<>>
            THEN open => IF u.i < Chunks[u.kind] THEN Latest(u)
                                                 ELSE \A s \in inside : ~ Partial(s)
            ELSE Follows(u, pipe[1])

(* Taking the first unit keeps the senders and the rest of the pipe in     *)
(* order.                                                                  *)
LEMMA TakeFacts ==
    ASSUME IInv, pipe # <<>>, pipe' = Tail(pipe), UNCHANGED <<sender, open>>,
           NEW u, u = pipe[1]
    PROVE  /\ Locking' /\ Stream' /\ After(u)'
           /\ u \in UnitType /\ u = Head(pipe) /\ u.i <= Chunks[u.kind]
           /\ pipe' \in Seq(UnitType) /\ Len(pipe') <= PipeCap
           /\ \A h \in Header : Later(h) => Later(h)'
           /\ \A h \in Header : u.i = 0 /\ h.from = u.from /\ h.n = u.n => Later(h)'
           /\ (\A j, l \in DOMAIN pipe :
                 j < l /\ pipe[j].from = pipe[l].from /\ pipe[l].i = 0 => pipe[j].n < pipe[l].n)'
           /\ (\A j \in DOMAIN pipe : pipe[j].n <= Sent(pipe[j].from))'
<1>1. Types /\ Locking /\ pipe \in Seq(UnitType) /\ Len(pipe) \in Nat /\ Len(pipe) <= PipeCap
    BY DEF IInv, Types
<1>2. UNCHANGED <<inside, pc, out, written, open>>
    BY DEF sender
<1>3. Locking'
    BY <1>1, <1>2 DEF Locking
<1>4. /\ pipe' \in Seq(UnitType) /\ Len(pipe') = Len(pipe) - 1 /\ u = Head(pipe) /\ u \in UnitType
      /\ \A j \in DOMAIN pipe' : j + 1 \in DOMAIN pipe /\ pipe'[j] = pipe[j + 1]
      /\ pipe' # <<>> => pipe'[Len(pipe')] = pipe[Len(pipe)]
    BY <1>1, TailFacts
<1>5. /\ DOMAIN pipe = 1 .. Len(pipe) /\ DOMAIN pipe' = 1 .. Len(pipe')
      /\ 1 \in DOMAIN pipe /\ (pipe' = <<>> <=> Len(pipe) = 1)
    BY <1>1, <1>4, PipeFacts
<1>6. \A t : Sent(t)' = Sent(t) /\ (Partial(t)' <=> Partial(t)) /\ (Latest(t)' <=> Latest(t))
    BY <1>2 DEF Sent, Partial, Latest
<1>7. u.i \in Nat /\ Chunks[u.kind] \in Nat /\ u.i <= Chunks[u.kind] /\ u.n <= Sent(u.from)
    BY <1>4, <1>5, UnitFields DEF IInv, Stream, Ordered
<1>8. \A j \in DOMAIN pipe' : /\ j \in Nat /\ j + 1 \in DOMAIN pipe /\ 1 < j + 1
                              /\ pipe'[j] = pipe[j + 1]
    BY <1>4, <1>5
<1>9. Stream'
    <2>1. (\A j \in DOMAIN pipe : pipe[j].i <= Chunks[pipe[j].kind])'
        BY <1>8 DEF IInv, Stream
    <2>2. ASSUME NEW j \in DOMAIN pipe', j + 1 \in DOMAIN pipe'
          PROVE  Follows(pipe[j], pipe[j + 1])'
        <3>1. j + 1 \in DOMAIN pipe /\ j + 1 + 1 \in DOMAIN pipe
            BY <1>8, <2>2
        <3>2. Follows(pipe[j + 1], pipe[j + 1 + 1])
            BY <3>1 DEF IInv, Stream
        <3>3. pipe'[j] = pipe[j + 1] /\ pipe'[j + 1] = pipe[j + 1 + 1]
            BY <1>8, <2>2
        <3>. QED
            BY <3>2, <3>3 DEF Follows, Same
    <2>3. ASSUME open, pipe' # <<>>,
                 \/ pipe'[Len(pipe')].i < Chunks[pipe'[Len(pipe')].kind]
                 \/ \E s \in inside : Partial(s)
          PROVE  Latest(pipe[Len(pipe)])'
        <3>1. Latest(pipe[Len(pipe)])
            BY <1>4, <2>3 DEF IInv, Stream
        <3>. QED
            BY <1>2, <1>4, <2>3, <3>1 DEF Latest
    <2>. QED
        BY <1>2, <1>6, <2>1, <2>2, <2>3 DEF Stream
<1>10. After(u)'
    <2>1. ASSUME pipe' = <<>>, open, u.i < Chunks[u.kind] PROVE Latest(u)
        BY <1>5, <2>1 DEF IInv, Stream
    <2>2. ASSUME pipe' = <<>>, open, ~ (u.i < Chunks[u.kind]), NEW s \in inside, Partial(s)
          PROVE  FALSE
        <3>1. Latest(u)
            BY <1>5, <2>2 DEF IInv, Stream
        <3>2. u.from = s /\ u.kind = out[s].kind /\ written[s] = u.i + 1
            BY <1>1, <3>1 DEF Latest, Locking
        <3>. QED
            BY <1>7, <2>2, <3>2 DEF Partial
    <2>3. ASSUME pipe' # <<>> PROVE Follows(u, pipe'[1])
        <3>1. 1 \in DOMAIN pipe' /\ 1 + 1 \in DOMAIN pipe
            BY <1>4, <1>8, <2>3, PipeFacts
        <3>2. pipe'[1] = pipe[1 + 1]
            BY <1>8, <3>1
        <3>. QED
            BY <1>5, <3>1, <3>2 DEF IInv, Stream
    <2>. QED
        BY <1>2, <1>6, <2>1, <2>2, <2>3 DEF After, Follows, Same
<1>11. \A h \in Header : Later(h) => Later(h)'
    BY <1>6, <1>8 DEF Later
<1>12. ASSUME NEW h \in Header, u.i = 0, h.from = u.from, h.n = u.n PROVE Later(h)'
    BY <1>5, <1>6, <1>7, <1>8, <1>12 DEF Later, IInv, Ordered
<1>13. ASSUME NEW j \in DOMAIN pipe', NEW l \in DOMAIN pipe',
              j < l, pipe'[j].from = pipe'[l].from, pipe'[l].i = 0
       PROVE  pipe'[j].n < pipe'[l].n
    BY <1>8, <1>13 DEF IInv, Ordered
<1>14. (\A j \in DOMAIN pipe : pipe[j].n <= Sent(pipe[j].from))'
    BY <1>2, <1>8 DEF IInv, Ordered, Sent
<1>15. Len(pipe') <= PipeCap
    BY <1>1, <1>4, IpcPipeAssumption
<1>. QED
    BY <1>3, <1>4, <1>7, <1>9, <1>10, <1>11, <1>12, <1>13, <1>14, <1>15

(* A whole and later message that is delivered keeps the inbox intact and  *)
(* ordered.                                                                *)
LEMMA DeliverFacts ==
    ASSUME IInv, aligned' = aligned, NEW h \in Header, NEW b \in Seq(UnitType),
           inbox' = Append(inbox, [hdr |-> h, body |-> b]),
           aligned => /\ b = [i \in 1 .. Chunks[h.kind] |-> Piece(h, i)]
                      /\ \A m \in DOMAIN inbox : inbox[m].hdr.from = h.from
                                                    => inbox[m].hdr.n < h.n
    PROVE  /\ inbox' \in Seq(Message) /\ BodiesIntact' /\ SenderOrder'
           /\ \A m \in DOMAIN inbox' : \/ inbox'[m].hdr = h
                                       \/ m \in DOMAIN inbox /\ inbox'[m] = inbox[m]
<1> DEFINE x == [hdr |-> h, body |-> b]
           L == Len(inbox)
<1>1. inbox \in Seq(Message) /\ L \in Nat /\ DOMAIN inbox = 1 .. L
    BY InboxFacts DEF IInv, Types
<1>2. x \in Message /\ x.hdr = h /\ x.body = b
    BY DEF Message
<1>3. /\ inbox' \in Seq(Message) /\ inbox'[L + 1] = x
      /\ \A m \in DOMAIN inbox : inbox'[m] = inbox[m]
      /\ \A m \in DOMAIN inbox' : m \in DOMAIN inbox \/ m = L + 1
    BY <1>1, <1>2, AppendFacts
<1>. HIDE DEF x, L
<1>4. \A m \in DOMAIN inbox' : \/ m = L + 1 /\ inbox'[m] = x
                               \/ m \in DOMAIN inbox /\ inbox'[m] = inbox[m]
    BY <1>3
<1>5. BodiesIntact'
    <2> DEFINE Intact(y) == y.body = [i \in 1 .. Chunks[y.hdr.kind] |->
                [from |-> y.hdr.from, kind |-> y.hdr.kind, n |-> y.hdr.n, i |-> i]]
    <2>1. SUFFICES ASSUME aligned, NEW m \in DOMAIN inbox'
                   PROVE  Intact(inbox'[m])
        <3>1. BodiesIntact' = (aligned' => \A y \in {inbox'[i] : i \in DOMAIN inbox'} : Intact(y))
            BY DEF BodiesIntact, ToSet
        <3>2. (\A i \in DOMAIN inbox' : Intact(inbox'[i]))
                 => \A y \in {inbox'[i] : i \in DOMAIN inbox'} : Intact(y)
            <4>. HIDE DEF Intact
            <4>. QED
                OBVIOUS
        <3>. QED
            BY <3>1, <3>2
    <2>2. CASE inbox'[m] = x
        BY <1>2, <2>1, <2>2 DEF Piece
    <2>3. CASE m \in DOMAIN inbox /\ inbox'[m] = inbox[m]
        <3>1. inbox[m] \in ToSet(inbox)
            BY <2>3 DEF ToSet
        <3>2. Intact(inbox[m])
            BY <2>1, <3>1 DEF IInv, BodiesIntact
        <3>. QED
            BY <2>3, <3>2
    <2>. HIDE DEF Intact
    <2>. QED
        BY <1>4, <2>2, <2>3
<1>6. SenderOrder'
    <2>1. SUFFICES ASSUME aligned, NEW i \in DOMAIN inbox', NEW j \in DOMAIN inbox',
                          i < j, inbox'[i].hdr.from = inbox'[j].hdr.from
                   PROVE  inbox'[i].hdr.n < inbox'[j].hdr.n
        BY Zenon DEF SenderOrder
    <2>2. CASE j = L + 1
        <3>1. i \in DOMAIN inbox /\ inbox'[i] = inbox[i]
            BY <1>1, <1>4, <2>1, <2>2
        <3>2. inbox'[j] = x
            BY <1>3, <2>2
        <3>. QED
            BY <1>2, <2>1, <3>1, <3>2
    <2>3. CASE j \in DOMAIN inbox
        <3>1. i \in DOMAIN inbox
            BY <1>1, <1>4, <2>1, <2>3
        <3>. QED
            BY <1>3, <2>1, <2>3, <3>1 DEF IInv, SenderOrder
    <2>. QED
        BY <1>3, <2>2, <2>3
<1>. QED
    BY <1>2, <1>3, <1>4, <1>5, <1>6

(* The reader takes a unit and stays in step, or is out of step already.   *)
LEMMA TakeIInv ==
    ASSUME IInv, pipe # <<>>, pipe' = Tail(pipe), UNCHANGED <<handled, sender, open>>,
           body' \in Seq(UnitType), reading' \in Header \cup {NoHeader},
           inbox' \in Seq(Message), aligned' \in BOOLEAN,
           Fits', InStep', BodiesIntact', SenderOrder',
           aligned' => \A m \in DOMAIN inbox', h \in Header : h = inbox'[m].hdr => Later(h)',
           (aligned' /\ reading' # NoHeader) =>
              /\ \A h \in Header : h = reading' => Later(h)'
              /\ \A m \in DOMAIN inbox' : inbox'[m].hdr.from = reading'.from
                                             => inbox'[m].hdr.n < reading'.n
    PROVE  IInv'
<1>1. /\ Locking' /\ Stream' /\ pipe' \in Seq(UnitType) /\ Len(pipe') <= PipeCap
      /\ (\A j, l \in DOMAIN pipe :
            j < l /\ pipe[j].from = pipe[l].from /\ pipe[l].i = 0 => pipe[j].n < pipe[l].n)'
      /\ (\A j \in DOMAIN pipe : pipe[j].n <= Sent(pipe[j].from))'
    BY TakeFacts
<1>2. Types'
    <2>1. Types
        BY DEF IInv
    <2>. QED
        BY <1>1, <2>1 DEF Types, sender, NoHeader
<1>3. Ordered'
    <2>1. aligned' => (\A m \in DOMAIN inbox : Later(inbox[m].hdr))'
        <3>1. \A m \in DOMAIN inbox' : inbox'[m].hdr \in Header
            BY InboxFacts
        <3>. QED
            BY <3>1 DEF Later
    <2>2. (aligned' /\ reading' # NoHeader) => Later(reading)'
        BY DEF Later
    <2>. QED
        BY <1>1, <2>1, <2>2 DEF Ordered, Later, NoHeader
<1>. QED
    BY <1>1, <1>2, <1>3 DEF IInv

(* Nothing is owed to a reader that took the last unit of a message.       *)
LEMMA CompleteFacts ==
    ASSUME NEW u \in UnitType, u.i = Chunks[u.kind], After(u)', reading' = NoHeader
    PROVE  InStep'
<1>1. u.i \in Nat /\ Chunks[u.kind] \in Nat /\ ~ (u.i < Chunks[u.kind])
    BY UnitFields
<1>. QED
    BY <1>1 DEF InStep, After, Follows, NoHeader

(* Otherwise the next unit of the same message comes.                      *)
LEMMA PendingFacts ==
    ASSUME NEW u \in UnitType, u.i < Chunks[u.kind], After(u)', pipe' \in Seq(UnitType),
           reading' # NoHeader, NEW h \in Header, reading' = h, body' \in Seq(UnitType),
           h.left = Chunks[h.kind], u = Piece(h, Len(body')),
           \A j \in DOMAIN body' : body'[j] = Piece(h, j)
    PROVE  InStep'
<1>1. u.i = Len(body') /\ u.from = h.from /\ u.kind = h.kind /\ u.n = h.n /\ Len(body') \in Nat
    BY DEF Piece
<1>2. ASSUME pipe' = <<>>, open' PROVE Latest(Piece(reading, Len(body)))'
    <2>1. Latest(u)'
        BY <1>2 DEF After
    <2>. QED
        BY <2>1 DEF Latest, Piece
<1>3. ASSUME pipe' # <<>> PROVE pipe'[1] = Piece(h, Len(body') + 1)
    <2>1. Follows(u, pipe'[1])
        BY <1>3 DEF After, Follows, Same
    <2>2. pipe'[1] \in UnitType
        BY <1>3, PipeFacts
    <2>3. pipe'[1] = [from |-> pipe'[1].from, kind |-> pipe'[1].kind, n |-> pipe'[1].n, i |-> pipe'[1].i]
        BY <2>2 DEF UnitType
    <2>4. Chunks[u.kind] \in Nat
        BY UnitFields
    <2>5. Same(u, pipe'[1]) /\ pipe'[1].i = u.i + 1
        BY <1>1, <2>1, <2>4 DEF Follows
    <2>. QED
        BY <1>1, <2>3, <2>5 DEF Same, Piece
<1>4. (\A j \in DOMAIN body : body[j] = Piece(reading, j))'
    BY DEF Piece
<1>. QED
    BY <1>2, <1>3, <1>4 DEF InStep, NoHeader, Piece

(* What was delivered or is being read is older than what is in the pipe.  *)
LEMMA LaterFacts ==
    ASSUME IInv
    PROVE  /\ aligned => \A m \in DOMAIN inbox : Later(inbox[m].hdr)
           /\ aligned /\ reading # NoHeader => Later(reading)
           /\ \A m \in DOMAIN inbox : inbox[m].hdr \in Header
<1>1. \A m \in DOMAIN inbox : inbox[m].hdr \in Header
    BY InboxFacts DEF IInv, Types
<1>. QED
    BY <1>1 DEF IInv, Ordered, Later

(* ReadHeader keeps the invariant.                                         *)
LEMMA ReadHeaderIInv ==
    ASSUME IInv, ReadHeader
    PROVE  IInv'
<1>1. PICK u : u = pipe[1]
    OBVIOUS
<1>2. /\ open /\ reading = NoHeader /\ pipe # <<>> /\ pipe' = Tail(pipe)
      /\ UNCHANGED <<handled, sender, open>> /\ body = <<>>
    BY DEF ReadHeader, IInv, Fits
<1>3. /\ After(u)' /\ u \in UnitType /\ u = Head(pipe) /\ u.i <= Chunks[u.kind]
      /\ pipe' \in Seq(UnitType)
      /\ \A h \in Header : Later(h) => Later(h)'
      /\ \A h \in Header : u.i = 0 /\ h.from = u.from /\ h.n = u.n => Later(h)'
    BY <1>1, <1>2, TakeFacts
<1>4. PICK hdr \in HeadersIn(u) :
         \/ /\ hdr.kind \notin handled
            /\ aligned' = (aligned /\ hdr.left = 0)
            /\ UNCHANGED <<reading, body, inbox>>
         \/ /\ hdr.kind \in handled /\ hdr.left = 0
            /\ HandOver(hdr, <<>>)
            /\ UNCHANGED <<reading, body, aligned>>
         \/ /\ hdr.kind \in handled /\ hdr.left > 0
            /\ reading' = hdr /\ body' = <<>>
            /\ UNCHANGED <<inbox, aligned>>
    BY <1>3 DEF ReadHeader
<1>5. /\ u.i \in Nat /\ u.from \in Senders /\ u.kind \in Kinds /\ u.n \in Nat
      /\ Chunks[u.kind] \in Nat
    BY <1>3, UnitFields
<1>6. hdr \in Header
    BY <1>4, <1>5, IpcPipeAssumption DEF HeadersIn, Header
<1>7. aligned => u.i = 0
    BY <1>1, <1>2 DEF IInv, InStep
<1>8. aligned => /\ hdr.kind = u.kind /\ hdr.left = Chunks[u.kind]
                 /\ hdr.from = u.from /\ hdr.n = u.n
    BY <1>4, <1>7 DEF HeadersIn
<1>9. hdr.left \in Nat /\ Types
    BY <1>6, UnitFields DEF IInv
<1>10. /\ aligned => \A m \in DOMAIN inbox : Later(inbox[m].hdr)
       /\ \A m \in DOMAIN inbox : inbox[m].hdr \in Header
    BY LaterFacts
<1>11. aligned => Later(hdr)'
    BY <1>3, <1>6, <1>7, <1>8
<1>12. aligned => \A m \in DOMAIN inbox : inbox[m].hdr.from = hdr.from => inbox[m].hdr.n < hdr.n
    <2>1. 1 \in DOMAIN pipe
        BY <1>2, <1>9, PipeFacts DEF Types
    <2>. QED
        BY <1>1, <1>7, <1>8, <1>10, <2>1 DEF Later
<1>13. ASSUME hdr.left = 0, aligned, reading' = NoHeader PROVE InStep'
    BY <1>3, <1>7, <1>8, <1>13, CompleteFacts
<1>14. CASE hdr.kind \notin handled
    <2>1. aligned' = (aligned /\ hdr.left = 0) /\ UNCHANGED <<reading, body, inbox>>
        BY <1>4, <1>14
    <2>2. Fits'
        BY <1>2, <2>1 DEF Fits, NoHeader
    <2>3. InStep'
        <3>1. CASE aligned'
            BY <1>2, <1>13, <2>1, <3>1 DEF NoHeader
        <3>2. CASE ~ aligned'
            BY <3>2 DEF InStep
        <3>. QED
            BY <3>1, <3>2
    <2>4. BodiesIntact' /\ SenderOrder'
        BY <2>1 DEF IInv, BodiesIntact, SenderOrder
    <2>5. aligned' => \A m \in DOMAIN inbox', h \in Header : h = inbox'[m].hdr => Later(h)'
        BY <1>3, <1>10, <2>1
    <2>6. /\ body' \in Seq(UnitType) /\ reading' \in Header \cup {NoHeader}
          /\ inbox' \in Seq(Message) /\ aligned' \in BOOLEAN /\ reading' = NoHeader
        BY <1>2, <1>9, <2>1 DEF Types
    <2>. QED
        BY <1>2, <2>2, <2>3, <2>4, <2>5, <2>6, TakeIInv
<1>15. CASE hdr.kind \in handled /\ hdr.left = 0
    <2>1. /\ inbox' = Append(inbox, [hdr |-> hdr, body |-> <<>>])
          /\ UNCHANGED <<reading, body, aligned>>
        BY <1>4, <1>9, <1>15 DEF HandOver
    <2>2. aligned => <<>> = [i \in 1 .. Chunks[hdr.kind] |-> Piece(hdr, i)]
        BY <1>8, <1>15
    <2>3. /\ inbox' \in Seq(Message) /\ BodiesIntact' /\ SenderOrder'
          /\ \A m \in DOMAIN inbox' : \/ inbox'[m].hdr = hdr
                                      \/ m \in DOMAIN inbox /\ inbox'[m] = inbox[m]
        <3>1. <<>> \in Seq(UnitType)
            OBVIOUS
        <3>. QED
            BY <1>6, <1>12, <2>1, <2>2, <3>1, DeliverFacts
    <2>4. Fits'
        BY <1>2, <2>1 DEF Fits, NoHeader
    <2>5. InStep'
        <3>1. CASE aligned'
            BY <1>2, <1>13, <1>15, <2>1, <3>1 DEF NoHeader
        <3>2. CASE ~ aligned'
            BY <3>2 DEF InStep
        <3>. QED
            BY <3>1, <3>2
    <2>6. aligned' => \A m \in DOMAIN inbox', h \in Header : h = inbox'[m].hdr => Later(h)'
        BY <1>3, <1>10, <1>11, <2>1, <2>3
    <2>7. /\ body' \in Seq(UnitType) /\ reading' \in Header \cup {NoHeader}
          /\ aligned' \in BOOLEAN /\ reading' = NoHeader
        BY <1>2, <1>9, <2>1 DEF Types
    <2>. QED
        BY <1>2, <2>3, <2>4, <2>5, <2>6, <2>7, TakeIInv
<1>16. CASE hdr.kind \in handled /\ hdr.left > 0
    <2>1. reading' = hdr /\ body' = <<>> /\ UNCHANGED <<inbox, aligned>>
        BY <1>4, <1>9, <1>16
    <2>2. reading' # NoHeader
        <3>1. NoHeader.left = 0
            BY DEF NoHeader
        <3>. QED
            BY <1>9, <1>16, <2>1, <3>1
    <2>3. body' \in Seq(UnitType) /\ Len(body') = 0 /\ DOMAIN body' = {}
        BY <2>1
    <2>4. Fits'
        BY <1>16, <2>1, <2>2, <2>3 DEF Fits, NoHeader
    <2>5. InStep'
        <3>1. CASE aligned
            <4>1. u = Piece(hdr, Len(body'))
                <5>1. u = [from |-> u.from, kind |-> u.kind, n |-> u.n, i |-> u.i]
                    BY <1>3 DEF UnitType
                <5>. QED
                    BY <1>7, <1>8, <2>3, <3>1, <5>1 DEF Piece
            <4>2. u.i < Chunks[u.kind] /\ hdr.left = Chunks[hdr.kind]
                BY <1>5, <1>7, <1>8, <1>16, <3>1
            <4>. QED
                BY <1>3, <1>6, <2>1, <2>2, <2>3, <4>1, <4>2, PendingFacts
        <3>2. CASE ~ aligned
            BY <2>1, <3>2 DEF InStep
        <3>. QED
            BY <3>1, <3>2
    <2>6. BodiesIntact' /\ SenderOrder'
        BY <2>1 DEF IInv, BodiesIntact, SenderOrder
    <2>7. aligned' => \A m \in DOMAIN inbox', h \in Header : h = inbox'[m].hdr => Later(h)'
        BY <1>3, <1>10, <2>1
    <2>8. inbox' \in Seq(Message) /\ aligned' \in BOOLEAN /\ reading' \in Header
        BY <1>6, <1>9, <2>1 DEF Types
    <2>. QED
        BY <1>2, <1>11, <1>12, <2>1, <2>3, <2>4, <2>5, <2>6, <2>7, <2>8, TakeIInv
<1>. QED
    BY <1>9, <1>14, <1>15, <1>16

(* ReadBody keeps the invariant.                                           *)
LEMMA ReadBodyIInv ==
    ASSUME IInv, ReadBody
    PROVE  IInv'
<1>1. PICK u : u = pipe[1]
    OBVIOUS
<1>2. /\ open /\ reading # NoHeader /\ pipe # <<>> /\ pipe' = Tail(pipe)
      /\ UNCHANGED <<handled, sender, open, aligned>>
    BY DEF ReadBody
<1>3. /\ After(u)' /\ u \in UnitType /\ u = Head(pipe) /\ pipe' \in Seq(UnitType)
      /\ \A h \in Header : Later(h) => Later(h)'
    BY <1>1, <1>2, TakeFacts
<1>4. Types /\ reading \in Header /\ body \in Seq(UnitType)
    BY <1>2 DEF IInv, Types
<1>5. PICK hdr \in Header : hdr = reading
    BY <1>4
<1>6. PICK all : all = Append(body, u)
    OBVIOUS
<1>7. IF Len(all) = hdr.left
      THEN HandOver(hdr, all) /\ reading' = NoHeader /\ body' = <<>>
      ELSE body' = all /\ UNCHANGED <<reading, inbox>>
    BY <1>3, <1>5, <1>6 DEF ReadBody
<1>8. /\ all \in Seq(UnitType) /\ Len(all) = Len(body) + 1 /\ all[Len(body) + 1] = u
      /\ \A j \in DOMAIN body : all[j] = body[j]
      /\ \A j \in DOMAIN all : j \in DOMAIN body \/ j = Len(body) + 1
    BY <1>3, <1>4, <1>6, AppendFacts
<1>9. /\ Len(body) \in Nat /\ hdr.left \in Nat /\ Len(body) < hdr.left
      /\ DOMAIN all = 1 .. Len(all)
    BY <1>2, <1>4, <1>5, <1>8, UnitFields DEF IInv, Fits
<1>10. aligned => /\ hdr.left = Chunks[hdr.kind] /\ u = Piece(hdr, Len(all))
                  /\ \A j \in DOMAIN all : all[j] = Piece(hdr, j)
    BY <1>1, <1>2, <1>5, <1>8 DEF IInv, InStep
<1>11. aligned => u.i = Len(all) /\ u.kind = hdr.kind
    BY <1>10 DEF Piece
<1>12. /\ aligned => Later(hdr) /\ Later(hdr)'
       /\ aligned => \A m \in DOMAIN inbox : Later(inbox[m].hdr)
       /\ \A m \in DOMAIN inbox : inbox[m].hdr \in Header
    BY <1>2, <1>3, <1>5, LaterFacts
<1>13. aligned => \A m \in DOMAIN inbox : inbox[m].hdr.from = hdr.from => inbox[m].hdr.n < hdr.n
    BY <1>2, <1>5 DEF IInv, Ordered
<1>14. aligned => \A m \in DOMAIN inbox, h \in Header : h = inbox[m].hdr => Later(h)'
    BY <1>3, <1>12
<1>15. CASE Len(all) = hdr.left
    <2>1. HandOver(hdr, all) /\ reading' = NoHeader /\ body' = <<>> /\ body' \in Seq(UnitType)
        BY <1>7, <1>15
    <2>2. Fits'
        BY <2>1 DEF Fits, NoHeader
    <2>3. InStep'
        <3>1. CASE aligned
            BY <1>3, <1>10, <1>11, <1>15, <2>1, <3>1, CompleteFacts
        <3>2. CASE ~ aligned
            BY <1>2, <3>2 DEF InStep
        <3>. QED
            BY <3>1, <3>2
    <2>4. aligned' \in BOOLEAN /\ reading' \in Header \cup {NoHeader}
        BY <1>2, <1>4, <2>1 DEF Types
    <2>5. CASE hdr.kind \in handled
        <3>1. inbox' = Append(inbox, [hdr |-> hdr, body |-> all])
            BY <2>1, <2>5 DEF HandOver
        <3>2. aligned => all = [i \in 1 .. Chunks[hdr.kind] |-> Piece(hdr, i)]
            <4>1. all = [j \in DOMAIN all |-> all[j]]
                BY <1>8
            <4>. QED
                BY <1>9, <1>10, <1>15, <4>1
        <3>3. /\ inbox' \in Seq(Message) /\ BodiesIntact' /\ SenderOrder'
              /\ \A m \in DOMAIN inbox' : \/ inbox'[m].hdr = hdr
                                          \/ m \in DOMAIN inbox /\ inbox'[m] = inbox[m]
            BY <1>2, <1>8, <1>13, <3>1, <3>2, DeliverFacts
        <3>4. aligned' => \A m \in DOMAIN inbox', h \in Header : h = inbox'[m].hdr => Later(h)'
            BY <1>2, <1>12, <1>14, <3>3
        <3>. QED
            BY <1>2, <2>1, <2>2, <2>3, <2>4, <3>3, <3>4, TakeIInv
    <2>6. CASE hdr.kind \notin handled
        <3>1. inbox' = inbox
            BY <2>1, <2>6 DEF HandOver
        <3>2. BodiesIntact' /\ SenderOrder' /\ inbox' \in Seq(Message)
            BY <1>2, <1>4, <3>1 DEF IInv, BodiesIntact, SenderOrder, Types
        <3>3. aligned' => \A m \in DOMAIN inbox', h \in Header : h = inbox'[m].hdr => Later(h)'
            BY <1>2, <1>14, <3>1
        <3>. QED
            BY <1>2, <2>1, <2>2, <2>3, <2>4, <3>2, <3>3, TakeIInv
    <2>. QED
        BY <2>5, <2>6
<1>16. CASE Len(all) # hdr.left
    <2>1. body' = all /\ reading' = hdr /\ inbox' = inbox /\ reading' # NoHeader
        BY <1>2, <1>5, <1>7, <1>16 DEF NoHeader
    <2>2. Fits'
        BY <1>8, <1>9, <1>16, <2>1 DEF Fits, NoHeader
    <2>3. InStep'
        <3>1. CASE aligned
            <4>1. u.i < Chunks[u.kind]
                BY <1>8, <1>9, <1>10, <1>11, <1>16, <3>1
            <4>. QED
                BY <1>3, <1>8, <1>10, <2>1, <3>1, <4>1, PendingFacts
        <3>2. CASE ~ aligned
            BY <1>2, <3>2 DEF InStep
        <3>. QED
            BY <3>1, <3>2
    <2>4. BodiesIntact' /\ SenderOrder' /\ inbox' \in Seq(Message)
        BY <1>2, <1>4, <2>1 DEF IInv, BodiesIntact, SenderOrder, Types
    <2>5. aligned' => \A m \in DOMAIN inbox', h \in Header : h = inbox'[m].hdr => Later(h)'
        BY <1>2, <1>14, <2>1
    <2>6. aligned' \in BOOLEAN /\ reading' \in Header \cup {NoHeader} /\ body' \in Seq(UnitType)
        BY <1>2, <1>4, <1>8, <2>1 DEF Types
    <2>. QED
        BY <1>2, <1>12, <1>13, <2>1, <2>2, <2>3, <2>4, <2>5, <2>6, TakeIInv
<1>. QED
    BY <1>15, <1>16

----------------------------------------------------------------------------

(* The invariant holds at the start.                                       *)
LEMMA InitIInv == Init => IInv
<1>. SUFFICES ASSUME Init PROVE IInv
    OBVIOUS
<1>1. Types
    BY IpcPipeAssumption DEF Init, Types, UnitType, Message
<1>2. Locking
    BY DEF Init, Locking
<1>3. Stream /\ Fits
    BY DEF Init, Stream, Fits
<1>4. InStep
    BY DEF Init, InStep
<1>5. Ordered /\ SenderOrder
    BY DEF Init, Ordered, SenderOrder
<1>6. BodiesIntact
    BY DEF Init, BodiesIntact, ToSet
<1>. QED
    BY <1>1, <1>2, <1>3, <1>4, <1>5, <1>6 DEF IInv

(* Every step keeps it.                                                    *)
LEMMA NextIInv == IInv /\ [Next]_vars => IInv'
<1>. SUFFICES ASSUME IInv, [Next]_vars PROVE IInv'
    OBVIOUS
<1>1. CASE \E s \in Senders, k \in Kinds : Send(s, k)
    BY <1>1, SendIInv
<1>2. CASE \E s \in Senders : AcquireLock(s)
    BY <1>2, AcquireLockIInv
<1>3. CASE \E s \in Senders : Write(s)
    BY <1>3, WriteIInv
<1>4. CASE \E s \in Senders : Return(s)
    BY <1>4, ReturnIInv
<1>5. CASE \E s \in Senders : SenderExits(s)
    BY <1>5, SenderExitsIInv
<1>6. CASE ReadHeader
    BY <1>6, ReadHeaderIInv
<1>7. CASE ReadBody
    BY <1>7, ReadBodyIInv
<1>8. CASE ReceiverExits \/ \E k \in Kinds : Register(k) \/ Unregister(k)
    BY <1>8, OtherIInv
<1>9. CASE UNCHANGED vars
    <2>1. UNCHANGED <<handled, inside, pc, out, written, pipe, reading, body, inbox, aligned, open>>
        BY <1>9 DEF vars
    <2>2. Types' /\ Locking'
        BY <2>1 DEF IInv, Types, Locking
    <2>3. \A t : (Partial(t)' <=> Partial(t)) /\ Sent(t)' = Sent(t)
        BY <2>1 DEF Partial, Sent
    <2>4. \A t \in Senders : Sent(t) <= Sent(t)' /\ Sent(t) \in Int /\ Sent(t)' \in Int
        BY <2>2, <2>3, SentFacts DEF IInv
    <2>. QED
        BY <2>1, <2>2, <2>3, <2>4, QuietIInv
<1>. QED
    BY <1>1, <1>2, <1>3, <1>4, <1>5, <1>6, <1>7, <1>8, <1>9 DEF Next

(* So it holds always.                                                     *)
LEMMA Invariance == Spec => []IInv
    BY InitIInv, NextIInv, PTL DEF Spec

(* The state has its type: no sender writes past the end of its message,   *)
(* the pipe never holds more than it may, and receiveMessage never reads   *)
(* more than the body that the header announced.                           *)
THEOREM StateIsTyped == Spec => []TypeOK
<1>1. ASSUME IInv PROVE TypeOK
    <2>1. Types /\ Locking /\ Fits
        BY <1>1 DEF IInv
    <2>2. \A s \in Senders : written[s] <= 1 + (IF out[s].n = 0 THEN 0 ELSE Chunks[out[s].kind])
        <3>1. \A s \in Senders : out[s].n \in Nat /\ written[s] \in Nat
            BY <2>1, SenderFacts
        <3>. QED
            BY <2>1, <3>1 DEF Locking
    <2>3. Len(body) <= reading.left
        <3>1. CASE reading = NoHeader
            BY <2>1, <3>1 DEF Fits, NoHeader
        <3>2. CASE reading # NoHeader
            <4>1. Len(body) \in Nat /\ reading.left \in Nat /\ Len(body) < reading.left
                BY <2>1, <3>2, UnitFields DEF Fits, Types
            <4>. QED
                BY <4>1
        <3>. QED
            BY <3>1, <3>2
    <2>. QED
        BY <2>1, <2>2, <2>3 DEF Types, TypeOK
<1>. QED
    BY <1>1, Invariance, PTL

(* A handler gets exactly the body that was sent with its header, whatever *)
(* the other senders write and wherever a sender exits, as long as no      *)
(* header was dropped for want of a handler.                               *)
THEOREM BodiesAreIntact == Spec => []BodiesIntact
<1>1. IInv => BodiesIntact
    BY DEF IInv
<1>. QED
    BY <1>1, Invariance, PTL

(* The messages of one sender are handled in the order of its calls of     *)
(* ipc::send, and none of them twice.                                      *)
THEOREM SendersAreOrdered == Spec => []SenderOrder
<1>1. IInv => SenderOrder
    BY DEF IInv
<1>. QED
    BY <1>1, Invariance, PTL

(* Nothing follows an incomplete message in the pipe, for its sender still *)
(* holds the destination's lock, even if it exited.                        *)
THEOREM NothingFollowsAFragment == Spec => []FragmentIsLast
<1>1. ASSUME IInv PROVE FragmentIsLast
    <2>1. pipe \in Seq(UnitType) /\ Stream
        BY <1>1 DEF IInv, Types
    <2>2. Len(pipe) \in Nat /\ DOMAIN pipe = 1 .. Len(pipe)
          /\ \A j \in DOMAIN pipe : pipe[j] \in UnitType
        BY <2>1, PipeFacts
    <2>3. SUFFICES ASSUME open, NEW j \in DOMAIN pipe
                   PROVE  \/ pipe[j].i = Chunks[pipe[j].kind]
                          \/ j < Len(pipe) /\ pipe[j + 1] = [pipe[j] EXCEPT !.i = pipe[j].i + 1]
                          \/ j = Len(pipe) /\ pipe[j].from \in inside
        BY DEF FragmentIsLast
    <2>4. CASE j = Len(pipe)
        <3>1. pipe # <<>>
            BY <2>2, <2>3
        <3>2. pipe[j].i \in Nat /\ Chunks[pipe[j].kind] \in Nat /\ pipe[j].i <= Chunks[pipe[j].kind]
            BY <2>1, <2>2, UnitFields DEF Stream
        <3>3. pipe[j].i < Chunks[pipe[j].kind] => Latest(pipe[j])
            BY <2>1, <2>3, <2>4, <3>1 DEF Stream
        <3>. QED
            BY <2>4, <3>2, <3>3 DEF Latest
    <2>5. CASE j # Len(pipe)
        <3>1. j < Len(pipe) /\ j + 1 \in DOMAIN pipe
            BY <2>2, <2>5
        <3>2. Follows(pipe[j], pipe[j + 1])
            BY <2>1, <3>1 DEF Stream
        <3>3. \A u, v \in UnitType : Same(u, v) /\ v.i = u.i + 1 => v = [u EXCEPT !.i = u.i + 1]
            BY DEF UnitType, Same
        <3>. QED
            BY <2>2, <3>1, <3>2, <3>3 DEF Follows
    <2>. QED
        BY <2>4, <2>5
<1>. QED
    BY <1>1, Invariance, PTL
==============================================================================
