------------------------ MODULE HttpConnectionProofs -------------------------
(***************************************************************************)
(* What holds of a connection of the HTTP server for any routes, streams   *)
(* of requests, sizes of the reads and limits: requests are handled as     *)
(* they were sent, by the least rule whose path matches, the body is never *)
(* read past its end, responses are framed, and every step is a step of    *)
(* HttpExchange or stutters.                                               *)
(***************************************************************************)
EXTENDS HttpConnection, SequenceTheorems, WellFoundedInduction, TLAPS

Errors == {"none", "BadRequest", "RequestEntityTooLarge", "InternalError"}

Parts == {"line", "head", "size", "data", "last"}

Texts    == STRING \cup {"none"}
UnitType == [req : Nat, part : Parts, text : Texts]

(* Another worker's bytes may be in a file.                                *)
Bytes == STRING \cup {"other"}

Parser == [cur : Nat, at : {"line", "head", "data", "chunk"}, url : Seq(STRING),
           stage : Seq(STRING), hdr : BOOLEAN, done : BOOLEAN, left : Nat,
           offload : BOOLEAN, file : Seq(Bytes), foreign : BOOLEAN, err : Errors,
           paused : BOOLEAN]

Statuses ==
    {"Ok", "SwitchingProtocols", "BadRequest", "NotFound", "InternalError",
     "RequestEntityTooLarge"}

Answers == [req : Nat, err : BOOLEAN, touched : BOOLEAN, head : BOOLEAN, framed : BOOLEAN]

All     == Units(setting.stream)
Upto(i) == Len(UnitsTo(setting.stream)[i])

(* The units of request i in front of its body.                            *)
Lead(i) == IF Request(i).coding = "chunked" THEN 3 ELSE 2

(* A request has been begun and not been answered.                         *)
Begun(q) == q.hdr \/ q.at = "head"

(* The first bytes of the body are where the parser keeps them.            *)
Kept(q, bytes) ==
    IF q.offload THEN q.foreign \/ q.file = Over(bytes, setting.old) ELSE q.stage = bytes

LastReq == IF answers = <<>> THEN 0 ELSE answers[Len(answers)].req

(* The URL of request i, with what an earlier request may have left.       *)
UrlOf(q) ==
    \/ q.url = PathOf(Request(q.cur).url)
    \/ /\ setting.pipelined
       /\ \E b \in {<<>>} \cup {Request(i).body : i \in 1 .. q.cur - 1} :
             q.url = PathOf(b \o Request(q.cur).url)

Known(q) ==
    /\ q \in Parser /\ q.cur <= Len(setting.stream)
    /\ q.at = "line" => q.hdr = q.done
    /\ q.at = "head" => ~q.hdr /\ ~q.done
    /\ q.at \in {"data", "chunk"} => q.hdr /\ ~q.done
    /\ Begun(q) => q.cur >= 1
    /\ q.paused => q.at = "line"
    /\ q.done => q.left = 0

(* Requests are begun in the order of the stream, and by a client that     *)
(* waits one by one.                                                       *)
Turn(q) ==
    /\ LastReq <= q.cur
    /\ Begun(q) => LastReq < q.cur /\ UrlOf(q)
    /\ ~setting.pipelined =>
          IF Begun(q) THEN q.cur = Len(answers) + 1
          ELSE q.cur = Len(answers) /\ q.stage = <<>>

(* Where the parser is after k units of the stream, and what it has got of *)
(* the body. Between two requests units may have been dropped.             *)
Place(q, k) ==
    LET body == Request(q.cur).body
    IN  /\ q.at = "line" =>
              /\ Upto(q.cur) <= k
              /\ q.stage # <<>> => \E i \in 1 .. q.cur : q.stage = Request(i).body
              /\ q.done => Kept(q, body)
        /\ q.at = "head" =>
              /\ k = Upto(q.cur - 1) + 1
              /\ q.stage = <<>> /\ ~q.offload
        /\ q.at = "data" =>
              /\ q.left \in 1 .. Len(body)
              /\ k + q.left = Upto(q.cur - 1) + Lead(q.cur) + Len(body)
              /\ Kept(q, SubSeq(body, 1, Len(body) - q.left))
              /\ q.offload => Request(q.cur).coding # "chunked"
        /\ q.at = "chunk" =>
              /\ Request(q.cur).coding = "chunked" /\ q.left = 0 /\ ~q.offload
              /\ IF q.stage = <<>> THEN k = Upto(q.cur - 1) + 2
                 ELSE k = Upto(q.cur) - 1 /\ q.stage = body
        /\ q.offload => q.stage = <<>>
        /\ q.foreign => q.offload /\ setting.shared

Parsed(q, k) == Known(q) /\ Turn(q) /\ (q.err = "none" => Place(q, k))

Responses ==
    [status : Statuses, body : Nat, chunks : Nat, size : Nat, length : Nat \cup {NoLength},
     err : BOOLEAN, touched : BOOLEAN]

(* The sizes are those of the content, but after an error or when a        *)
(* handler took chunks back or set the length.                             *)
Sound(r) ==
    /\ r.chunks <= r.size
    /\ ~r.err /\ ~r.touched => r.size = r.chunks /\ r.length = NoLength
    /\ r.err => r.status # "SwitchingProtocols"

Outcomes == {r \in Responses : Sound(r)}

Types ==
    /\ setting \in Settings
    /\ phase \in Ended \cup {"headers", "body", "handle", "fill", "send"}
    /\ fed \in 0 .. Len(All)
    /\ req \in Parser /\ req.cur <= Len(setting.stream)
    /\ resp \in Outcomes
    /\ answers \in Seq(Answers)
    /\ \A i \in DOMAIN answers : answers[i].req <= Len(setting.stream)

(* What the phases of start know of the request.                           *)
Phases ==
    /\ phase \in {"headers", "body", "handle", "fill"} => req.err = "none" /\ ~req.paused
    /\ phase = "headers" => ~req.hdr
    /\ phase = "body" => req.hdr /\ ~req.done
    /\ phase \in {"handle", "fill"} => req.hdr /\ req.done
    /\ phase = "fill" => ~resp.err
    /\ phase = "send" /\ ~resp.err => req.err = "none" /\ ~req.paused /\ req.hdr /\ req.done
    /\ phase = "spins" => Request(req.cur).coding = "chunked"

(* The answers so far, the last of which ends the connection if it is that *)
(* of a failure.                                                           *)
Told(a) == a.framed \/ a.touched \/ a.head

Answered ==
    /\ phase \notin Ended =>
          /\ \A i \in DOMAIN answers : Told(answers[i])
          /\ ~setting.pipelined => LastReq = Len(answers)
    /\ FramingKept

(* The inductive invariant.                                                *)
IInv == /\ Types
        /\ phase \notin Ended => Parsed(req, fed)
        /\ Phases
        /\ Answered

----------------------------------------------------------------------------
(* Induction, and the functions defined by it                              *)

(* A set of naturals has a least element: there is no infinite descent.    *)
LEMMA LeastNat ==
    ASSUME NEW S \in SUBSET Nat, S # {}
    PROVE  Min(S) \in S /\ \A y \in S : Min(S) <= y
<1> DEFINE R == {ss \in Nat \X Nat : ss[1] < ss[2]}
<1>1. IsWellFoundedOn(R, Nat)
    BY NatLessThanWellFounded, Zenon DEF OpToRel
<1>2. \A x, y \in Nat : y < x => <<y, x>> \in R
    <2> SUFFICES ASSUME NEW x \in Nat, NEW y \in Nat, y < x PROVE <<y, x>> \in R
        OBVIOUS
    <2>1. <<y, x>> \in Nat \X Nat /\ <<y, x>>[1] < <<y, x>>[2]
        OBVIOUS
    <2>. QED
        BY <2>1, Zenon
<1> HIDE DEF R
<1>3. PICK x \in S : \A y \in S : ~ (<<y, x>> \in R)
    BY <1>1, WFMin
<1>4. \A y \in S : x <= y
    <2> TAKE y \in S
    <2>1. ~ (y < x)
        BY <1>2, <1>3, Zenon
    <2>. QED
        BY <2>1
<1>. QED
    BY <1>4 DEF Min

(* The lesser of two numbers.                                              *)
LEMMA MinOfTwo ==
    ASSUME NEW a \in Nat, NEW b \in Nat
    PROVE  Min({a, b}) \in Nat /\ Min({a, b}) \in {a, b} /\ Min({a, b}) <= a /\ Min({a, b}) <= b
<1>1. {a, b} \in SUBSET Nat /\ {a, b} # {}
    OBVIOUS
<1>. QED
    BY <1>1, LeastNat

(* A set of naturals with 0 and all successors is Nat.                     *)
LEMMA AllNats ==
    ASSUME NEW T \in SUBSET Nat, 0 \in T, \A m \in T : m + 1 \in T
    PROVE  T = Nat
<1> DEFINE S == Nat \ T
           x == Min(S)
<1>1. SUFFICES ASSUME S # {} PROVE FALSE
    OBVIOUS
<1>2. x \in S /\ \A y \in S : x <= y
    BY <1>1, LeastNat
<1> HIDE DEF x
<1>3. x \in Nat /\ x # 0 /\ x - 1 \in Nat /\ ~ (x <= x - 1)
    BY <1>2
<1>4. x - 1 \in T /\ (x - 1) + 1 = x
    BY <1>2, <1>3
<1>. QED
    BY <1>2, <1>4

(* Units builds on the units of the requests before.                       *)
LEMMA UnitsToSteps ==
    ASSUME NEW s, Len(s) \in Nat
    PROVE  /\ UnitsTo(s)[0] = <<>>
           /\ \A i \in 1 .. Len(s) : UnitsTo(s)[i] = UnitsTo(s)[i - 1] \o UnitsOf(s, i)
<1> DEFINE Is(f, n) == f = [i \in 0 .. n |-> IF i = 0 THEN <<>> ELSE f[i - 1] \o UnitsOf(s, i)]
           T == {n \in Nat : \E f : Is(f, n)}
<1>0. ASSUME NEW f, NEW n \in Nat, Is(f, n)
      PROVE  \A i \in 0 .. n : f[i] = IF i = 0 THEN <<>> ELSE f[i - 1] \o UnitsOf(s, i)
    <2> DEFINE h == [i \in 0 .. n |-> IF i = 0 THEN <<>> ELSE f[i - 1] \o UnitsOf(s, i)]
    <2>1. \A i \in 0 .. n : h[i] = IF i = 0 THEN <<>> ELSE f[i - 1] \o UnitsOf(s, i)
        OBVIOUS
    <2>2. f = h
        BY <1>0, Zenon
    <2> HIDE DEF h
    <2>. QED
        BY <2>1, <2>2
<1>1. 0 \in T
    <2>1. Is([i \in 0 .. 0 |-> <<>>], 0)
        OBVIOUS
    <2>. QED
        BY <2>1, Zenon
<1>2. ASSUME NEW m \in T PROVE m + 1 \in T
    <2>0. m \in Nat /\ m + 1 \in Nat
        BY <1>2
    <2>1. PICK f : Is(f, m)
        BY <1>2
    <2> DEFINE g == [i \in 0 .. m + 1 |-> IF i = m + 1 THEN f[m] \o UnitsOf(s, m + 1) ELSE f[i]]
    <2>2. \A i \in 0 .. m : g[i] = f[i]
        OBVIOUS
    <2>3. \A i \in 0 .. m + 1 : g[i] = IF i = 0 THEN <<>> ELSE g[i - 1] \o UnitsOf(s, i)
        <3> TAKE i \in 0 .. m + 1
        <3>1. CASE i = m + 1
            <4>1. i # 0 /\ i - 1 = m /\ m \in 0 .. m
                BY <2>0, <3>1
            <4>2. g[i] = f[m] \o UnitsOf(s, i) /\ g[i - 1] = f[m]
                BY <2>2, <3>1, <4>1, Zenon
            <4>. QED
                BY <4>1, <4>2, Zenon
        <3>2. CASE i # m + 1
            <4>1. f[i] = IF i = 0 THEN <<>> ELSE f[i - 1] \o UnitsOf(s, i)
                <5>1. i \in 0 .. m
                    BY <2>0, <3>2
                <5>. QED
                    BY <1>0, <2>0, <2>1, <5>1, Zenon
            <4>2. g[i] = f[i] /\ (i # 0 => g[i - 1] = f[i - 1])
                BY <2>0, <2>2, <3>2
            <4>. QED
                BY <4>1, <4>2
        <3>. QED
            BY <3>1, <3>2
    <2>4. Is(g, m + 1)
        BY <2>3
    <2>. QED
        BY <2>0, <2>4, Zenon
<1>3. Len(s) \in T
    <2> HIDE DEF T
    <2>. QED
        BY <1>1, <1>2, AllNats DEF T
<1>4. PICK f : Is(f, Len(s))
    BY <1>3
<1>5. Is(UnitsTo(s), Len(s))
    BY <1>4 DEF UnitsTo
<1>6. \A i \in 0 .. Len(s) :
         UnitsTo(s)[i] = IF i = 0 THEN <<>> ELSE UnitsTo(s)[i - 1] \o UnitsOf(s, i)
    BY <1>0, <1>5, Zenon
<1>7. 0 \in 0 .. Len(s) /\ \A i \in 1 .. Len(s) : i \in 0 .. Len(s) /\ i # 0
    OBVIOUS
<1>. QED
    BY <1>6, <1>7, Zenon

(* Feed hands the units to the parser one after the other.                 *)
LEMMA FeedSteps ==
    ASSUME NEW q, NEW s, Len(s) \in Nat
    PROVE  \E run : /\ run[0] = q
                    /\ \A k \in 1 .. Len(s) : run[k] = FeedUnit(run[k - 1], s[k])
                    /\ Feed(q, s) = [run[Len(s)] EXCEPT !.paused = FALSE]
<1> DEFINE Is(f, n) == f = [k \in 0 .. n |-> IF k = 0 THEN q ELSE FeedUnit(f[k - 1], s[k])]
           T == {n \in Nat : \E f : Is(f, n)}
<1>0. ASSUME NEW f, NEW n \in Nat, Is(f, n)
      PROVE  \A k \in 0 .. n : f[k] = IF k = 0 THEN q ELSE FeedUnit(f[k - 1], s[k])
    <2> DEFINE h == [k \in 0 .. n |-> IF k = 0 THEN q ELSE FeedUnit(f[k - 1], s[k])]
    <2>1. \A k \in 0 .. n : h[k] = IF k = 0 THEN q ELSE FeedUnit(f[k - 1], s[k])
        OBVIOUS
    <2>2. f = h
        BY <1>0, Zenon
    <2> HIDE DEF h
    <2>. QED
        BY <2>1, <2>2
<1>1. 0 \in T
    <2>1. Is([k \in 0 .. 0 |-> q], 0)
        OBVIOUS
    <2>. QED
        BY <2>1, Zenon
<1>2. ASSUME NEW m \in T PROVE m + 1 \in T
    <2>0. m \in Nat /\ m + 1 \in Nat
        BY <1>2
    <2>1. PICK f : Is(f, m)
        BY <1>2
    <2> DEFINE g == [k \in 0 .. m + 1 |-> IF k = m + 1 THEN FeedUnit(f[m], s[m + 1]) ELSE f[k]]
    <2>2. \A k \in 0 .. m : g[k] = f[k]
        OBVIOUS
    <2>3. \A k \in 0 .. m + 1 : g[k] = IF k = 0 THEN q ELSE FeedUnit(g[k - 1], s[k])
        <3> TAKE k \in 0 .. m + 1
        <3>1. CASE k = m + 1
            <4>1. k # 0 /\ k - 1 = m /\ m \in 0 .. m
                BY <2>0, <3>1
            <4>2. g[k] = FeedUnit(f[m], s[k]) /\ g[k - 1] = f[m]
                BY <2>2, <3>1, <4>1, Zenon
            <4>. QED
                BY <4>1, <4>2, Zenon
        <3>2. CASE k # m + 1
            <4>1. k \in 0 .. m
                BY <2>0, <3>2
            <4>2. f[k] = IF k = 0 THEN q ELSE FeedUnit(f[k - 1], s[k])
                BY <1>0, <2>0, <2>1, <4>1, Zenon
            <4>3. g[k] = f[k] /\ (k # 0 => g[k - 1] = f[k - 1])
                BY <2>0, <2>2, <3>2
            <4>. QED
                BY <4>2, <4>3
        <3>. QED
            BY <3>1, <3>2
    <2>4. Is(g, m + 1)
        BY <2>3
    <2>. QED
        BY <2>0, <2>4, Zenon
<1>3. Len(s) \in T
    <2> HIDE DEF T
    <2>. QED
        BY <1>1, <1>2, AllNats DEF T
<1>4. PICK f : Is(f, Len(s))
    BY <1>3
<1> DEFINE run == CHOOSE g : Is(g, Len(s))
<1>5. Is(run, Len(s)) /\ Feed(q, s) = [run[Len(s)] EXCEPT !.paused = FALSE]
    BY <1>4 DEF Feed
<1> HIDE DEF run
<1>6. \A k \in 0 .. Len(s) : run[k] = IF k = 0 THEN q ELSE FeedUnit(run[k - 1], s[k])
    BY <1>0, <1>5, Zenon
<1>7. 0 \in 0 .. Len(s) /\ \A k \in 1 .. Len(s) : k \in 0 .. Len(s) /\ k # 0
    OBVIOUS
<1>8. run[0] = q /\ \A k \in 1 .. Len(s) : run[k] = FeedUnit(run[k - 1], s[k])
    BY <1>6, <1>7, Zenon
<1>. QED
    BY <1>5, <1>8, Zenon

----------------------------------------------------------------------------
(* The stream                                                              *)

(* w is s with t behind it.                                                *)
Concat(w, s, t) ==
    /\ Len(w) = Len(s) + Len(t) /\ Len(s) \in Nat /\ Len(t) \in Nat
    /\ \A k \in 1 .. Len(s) : w[k] = s[k]
    /\ \A k \in 1 .. Len(t) : w[Len(s) + k] = t[k]

(* The parts of a concatenation.                                           *)
LEMMA Joined ==
    ASSUME NEW S, NEW s \in Seq(S), NEW t \in Seq(S)
    PROVE  s \o t \in Seq(S) /\ Concat(s \o t, s, t)
<1>1. Len(s) \in Nat /\ Len(t) \in Nat
    OBVIOUS
<1>2. /\ s \o t \in Seq(S) /\ Len(s \o t) = Len(s) + Len(t)
      /\ \A k \in 1 .. Len(s) + Len(t) :
            (s \o t)[k] = IF k <= Len(s) THEN s[k] ELSE t[k - Len(s)]
    BY ConcatProperties
<1>3. \A k \in 1 .. Len(t) : (s \o t)[Len(s) + k] = t[k]
    <2> TAKE k \in 1 .. Len(t)
    <2>1. /\ Len(s) + k \in 1 .. Len(s) + Len(t) /\ ~ (Len(s) + k <= Len(s))
          /\ (Len(s) + k) - Len(s) = k
        BY <1>1
    <2>. QED
        BY <1>2, <2>1
<1>4. \A k \in 1 .. Len(s) : k \in 1 .. Len(s) + Len(t) /\ k <= Len(s)
    BY <1>1
<1>. QED
    BY <1>1, <1>2, <1>3, <1>4 DEF Concat

(* A unit has the type of units.                                           *)
LEMMA UnitTyped ==
    ASSUME NEW i \in Nat, NEW part \in Parts, NEW text \in Texts
    PROVE  /\ Unit(i, part, text) \in UnitType
           /\ Unit(i, part, text).req = i /\ Unit(i, part, text).part = part
           /\ Unit(i, part, text).text = text
BY DEF Unit, UnitType

(* The units of one request: the line, the headers, and the body in the    *)
(* coding of the request.                                                  *)
LEMMA Shape ==
    ASSUME NEW s \in Seq(Message), NEW i \in 1 .. Len(s), NEW u, u = UnitsOf(s, i),
           NEW b, b = s[i].body
    PROVE  /\ b \in Seq(STRING) /\ u \in Seq(UnitType) /\ Len(u) >= 2
           /\ u[1] = Unit(i, "line", "none") /\ u[2] = Unit(i, "head", "none")
           /\ s[i].coding # "chunked" =>
                 /\ Len(u) = 2 + Len(b)
                 /\ \A k \in 1 .. Len(b) : u[2 + k] = Unit(i, "data", b[k])
           /\ s[i].coding = "chunked" /\ b = <<>> =>
                 Len(u) = 3 /\ u[3] = Unit(i, "last", "none")
           /\ s[i].coding = "chunked" /\ b # <<>> =>
                 /\ Len(u) = 4 + Len(b) /\ u[3] = Unit(i, "size", "none")
                 /\ \A k \in 1 .. Len(b) : u[3 + k] = Unit(i, "data", b[k])
                 /\ u[4 + Len(b)] = Unit(i, "last", "none")
<1> DEFINE data == [k \in DOMAIN b |-> Unit(i, "data", b[k])]
           start == <<Unit(i, "line", "none"), Unit(i, "head", "none")>>
           size == <<Unit(i, "size", "none")>>
           last == <<Unit(i, "last", "none")>>
<1>1. b \in Seq(STRING) /\ i \in Nat /\ Len(b) \in Nat
    <2>1. s[i] \in Message
        OBVIOUS
    <2>2. s[i].body \in Seq(STRING)
        BY <2>1 DEF Message
    <2>. QED
        BY <2>2
<1>2. /\ data \in Seq(UnitType) /\ Len(data) = Len(b) /\ (b = <<>> <=> data = <<>>)
      /\ \A k \in 1 .. Len(b) : data[k] = Unit(i, "data", b[k])
    <2>1. \A k \in 1 .. Len(b) : b[k] \in STRING
        BY <1>1
    <2>2. \A k \in 1 .. Len(b) : Unit(i, "data", b[k]) \in UnitType
        BY <1>1, <2>1, UnitTyped DEF Parts, Texts
    <2>. QED
        BY <1>1, <2>2
<1>3. /\ start \in Seq(UnitType) /\ size \in Seq(UnitType) /\ last \in Seq(UnitType)
      /\ Len(start) = 2 /\ Len(size) = 1 /\ Len(last) = 1
      /\ start[1] = Unit(i, "line", "none") /\ start[2] = Unit(i, "head", "none")
      /\ size[1] = Unit(i, "size", "none") /\ last[1] = Unit(i, "last", "none")
    <2>1. "line" \in Parts /\ "head" \in Parts /\ "size" \in Parts /\ "last" \in Parts
        BY DEF Parts
    <2>2. "none" \in Texts
        BY DEF Texts
    <2>3. \A p \in Parts : Unit(i, p, "none") \in UnitType
        BY <1>1, <2>2, UnitTyped, Zenon
    <2>. QED
        BY <2>1, <2>3
<1>4. u = start \o (IF s[i].coding # "chunked" THEN data
                    ELSE (IF data = <<>> THEN data ELSE size \o data) \o last)
    BY DEF UnitsOf
<1> HIDE DEF data, start, size, last
<1>5. CASE s[i].coding # "chunked"
    <2>1. u = start \o data
        BY <1>4, <1>5
    <2>2. u \in Seq(UnitType) /\ Concat(u, start, data)
        BY <1>2, <1>3, <2>1, Joined, Zenon
    <2>3. /\ Len(u) = 2 + Len(b)
          /\ \A k \in 1 .. 2 : u[k] = start[k]
          /\ \A k \in 1 .. Len(b) : u[2 + k] = data[k]
        BY <1>2, <1>3, <2>2 DEF Concat
    <2>. QED
        BY <1>1, <1>2, <1>3, <1>5, <2>2, <2>3
<1>6. CASE s[i].coding = "chunked" /\ b = <<>>
    <2>1. u = start \o (data \o last) /\ data = <<>>
        BY <1>2, <1>4, <1>6
    <2>2. data \o last = last
        BY <1>3, <2>1, ConcatEmptySeq, Zenon
    <2>3. u \in Seq(UnitType) /\ Concat(u, start, last)
        BY <1>3, <2>1, <2>2, Joined, Zenon
    <2>4. /\ Len(u) = 3
          /\ \A k \in 1 .. 2 : u[k] = start[k]
          /\ \A k \in 1 .. 1 : u[2 + k] = last[k]
        BY <1>3, <2>3 DEF Concat
    <2>. QED
        BY <1>1, <1>3, <1>6, <2>3, <2>4
<1>7. CASE s[i].coding = "chunked" /\ b # <<>>
    <2> DEFINE body == size \o data
               rest == body \o last
    <2>1. u = start \o rest
        BY <1>2, <1>4, <1>7
    <2>2. body \in Seq(UnitType) /\ Concat(body, size, data)
        BY <1>2, <1>3, Joined, Zenon
    <2> HIDE DEF body
    <2>3. rest \in Seq(UnitType) /\ Concat(rest, body, last)
        BY <1>3, <2>2, Joined, Zenon
    <2> HIDE DEF rest
    <2>4. u \in Seq(UnitType) /\ Concat(u, start, rest)
        BY <1>3, <2>1, <2>3, Joined, Zenon
    <2>5. /\ Len(body) = 1 + Len(b)
          /\ body[1] = size[1] /\ \A k \in 1 .. Len(b) : body[1 + k] = data[k]
        BY <1>1, <1>2, <1>3, <2>2 DEF Concat
    <2>6. /\ Len(rest) = 2 + Len(b) /\ rest[2 + Len(b)] = last[1]
          /\ \A k \in 1 .. 1 + Len(b) : rest[k] = body[k]
        <3>1. 1 \in 1 .. 1 /\ (1 + Len(b)) + 1 = 2 + Len(b)
            BY <1>1
        <3>. QED
            BY <1>1, <1>3, <2>3, <2>5, <3>1 DEF Concat
    <2>7. /\ Len(u) = 4 + Len(b)
          /\ \A k \in 1 .. 2 : u[k] = start[k]
          /\ \A k \in 1 .. 2 + Len(b) : u[2 + k] = rest[k]
        BY <1>1, <1>3, <2>4, <2>6 DEF Concat
    <2>8. u[3] = size[1] /\ u[4 + Len(b)] = last[1]
        <3>1. /\ 1 \in 1 .. 2 + Len(b) /\ 2 + 1 = 3 /\ 1 \in 1 .. 1 + Len(b)
              /\ 2 + Len(b) \in 1 .. 2 + Len(b) /\ 2 + (2 + Len(b)) = 4 + Len(b)
            BY <1>1
        <3>. QED
            BY <2>5, <2>6, <2>7, <3>1
    <2>9. \A k \in 1 .. Len(b) : u[3 + k] = Unit(i, "data", b[k])
        <3> TAKE k \in 1 .. Len(b)
        <3>1. /\ 1 + k \in 1 .. 2 + Len(b) /\ 2 + (1 + k) = 3 + k
              /\ 1 + k \in 1 .. 1 + Len(b)
            BY <1>1
        <3>. QED
            BY <1>2, <2>5, <2>6, <2>7, <3>1
    <2>. QED
        BY <1>1, <1>3, <1>7, <2>4, <2>7, <2>8, <2>9
<1>. QED
    BY <1>5, <1>6, <1>7

(* The units of the first j requests are in blocks, request i behind those *)
(* of the first i - 1.                                                     *)
Built(s, j) ==
    /\ \A i \in 0 .. j : UnitsTo(s)[i] \in Seq(UnitType)
    /\ \A i \in 1 .. j : \A k \in 1 .. Len(UnitsOf(s, i)) :
          /\ Len(UnitsTo(s)[i - 1]) + k <= Len(UnitsTo(s)[j])
          /\ UnitsTo(s)[j][Len(UnitsTo(s)[i - 1]) + k] = UnitsOf(s, i)[k]
    /\ \A p \in 1 .. Len(UnitsTo(s)[j]) :
          \E i \in 1 .. j : Len(UnitsTo(s)[i - 1]) < p /\ p <= Len(UnitsTo(s)[i])

(* One more request is one more block.                                     *)
LEMMA BuiltStep ==
    ASSUME NEW s \in Seq(Message), NEW j \in Nat, j + 1 <= Len(s), Built(s, j)
    PROVE  Built(s, j + 1)
<1> DEFINE old  == UnitsTo(s)[j]
           more == UnitsOf(s, j + 1)
           new  == UnitsTo(s)[j + 1]
<1>1. j + 1 \in 1 .. Len(s) /\ Len(s) \in Nat /\ (j + 1) - 1 = j /\ j \in 0 .. j
    OBVIOUS
<1>2. new = old \o more
    BY <1>1, UnitsToSteps
<1>3. old \in Seq(UnitType) /\ more \in Seq(UnitType)
    BY <1>1, Shape DEF Built
<1>4. new \in Seq(UnitType) /\ Concat(new, old, more)
    BY <1>2, <1>3, Joined, Zenon
<1>5. \A i \in 0 .. j + 1 : UnitsTo(s)[i] \in Seq(UnitType) /\ Len(UnitsTo(s)[i]) \in Nat
    <2> TAKE i \in 0 .. j + 1
    <2>1. i \in 0 .. j \/ i = j + 1
        OBVIOUS
    <2>2. UnitsTo(s)[i] \in Seq(UnitType)
        BY <1>4, <2>1 DEF Built
    <2>. QED
        BY <2>2
<1>6. ASSUME NEW i \in 1 .. j + 1, NEW k \in 1 .. Len(UnitsOf(s, i))
      PROVE  /\ Len(UnitsTo(s)[i - 1]) + k <= Len(new)
             /\ new[Len(UnitsTo(s)[i - 1]) + k] = UnitsOf(s, i)[k]
    <2>1. CASE i = j + 1
        <3>1. i - 1 = j /\ k \in 1 .. Len(more)
            BY <2>1
        <3> HIDE DEF new, old, more
        <3>2. Len(old) + k <= Len(new) /\ new[Len(old) + k] = more[k]
            BY <1>4, <3>1 DEF Concat
        <3>. QED
            BY <2>1, <3>1, <3>2 DEF old, more
    <2>2. CASE i # j + 1
        <3> DEFINE place == Len(UnitsTo(s)[i - 1]) + k
        <3>1. i \in 1 .. j /\ i - 1 \in 0 .. j + 1 /\ i \in 1 .. Len(s)
            BY <1>1, <2>2
        <3>2. place <= Len(old) /\ old[place] = UnitsOf(s, i)[k]
            BY <3>1 DEF Built
        <3>3. k \in Nat /\ k >= 1
            <4>1. UnitsOf(s, i) \in Seq(UnitType)
                BY <3>1, Shape
            <4>. QED
                BY <4>1
        <3>4. place \in 1 .. Len(old)
            BY <1>3, <1>5, <3>1, <3>2, <3>3
        <3> HIDE DEF new, old, place
        <3>5. new[place] = old[place] /\ place <= Len(new)
            BY <1>4, <3>4 DEF Concat
        <3>. QED
            BY <3>2, <3>5 DEF place
    <2>. QED
        BY <2>1, <2>2
<1>7. ASSUME NEW p \in 1 .. Len(new)
      PROVE  \E i \in 1 .. j + 1 : /\ Len(UnitsTo(s)[i - 1]) < p
                                   /\ p <= Len(UnitsTo(s)[i])
    <2>1. Len(old) \in Nat /\ Len(new) \in Nat
        BY <1>3, <1>4
    <2>2. CASE p <= Len(old)
        <3>1. p \in 1 .. Len(old)
            BY <2>1, <2>2
        <3>2. PICK i \in 1 .. j : Len(UnitsTo(s)[i - 1]) < p /\ p <= Len(UnitsTo(s)[i])
            BY <3>1 DEF Built
        <3>3. i \in 1 .. j + 1
            OBVIOUS
        <3>. QED
            BY <3>2, <3>3, Zenon
    <2>3. CASE ~ (p <= Len(old))
        <3>1. j + 1 \in 1 .. j + 1 /\ Len(old) < p /\ p <= Len(new)
            BY <2>1, <2>3
        <3>. QED
            BY <1>1, <3>1
    <2>. QED
        BY <2>2, <2>3
<1>. QED
    BY <1>5, <1>6, <1>7 DEF Built

(* All of the stream is in blocks.                                         *)
LEMMA AllBuilt ==
    ASSUME NEW s \in Seq(Message)
    PROVE  \A j \in 0 .. Len(s) : Built(s, j)
<1> DEFINE T == {j \in Nat : j <= Len(s) => Built(s, j)}
<1>1. 0 \in T
    <2>1. UnitsTo(s)[0] = <<>> /\ Len(s) \in Nat
        BY UnitsToSteps
    <2>2. <<>> \in Seq(UnitType) /\ Len(<<>>) = 0
        OBVIOUS
    <2>3. /\ \A i \in 0 .. 0 : i = 0
          /\ \A i \in 1 .. 0 : FALSE
        OBVIOUS
    <2>4. Built(s, 0)
        BY <2>1, <2>2, <2>3 DEF Built
    <2>. QED
        BY <2>4
<1>2. ASSUME NEW j \in T PROVE j + 1 \in T
    <2>1. j \in Nat /\ j + 1 \in Nat /\ (j + 1 <= Len(s) => j <= Len(s)) /\ Len(s) \in Nat
        BY <1>2
    <2>. QED
        BY <1>2, <2>1, BuiltStep
<1>3. T = Nat
    <2> HIDE DEF T
    <2>1. T \in SUBSET Nat
        BY DEF T
    <2>. QED
        BY <1>1, <1>2, <2>1, AllNats
<1>. QED
    BY <1>3

(* What lies where in the stream: the units of request i.                  *)
Row(i) ==
    LET at   == Upto(i - 1)
        body == Request(i).body
    IN  /\ at \in Nat /\ Upto(i) \in Nat /\ Upto(i) <= Len(All) /\ Len(body) \in Nat
        /\ All[at + 1] = Unit(i, "line", "none") /\ All[at + 2] = Unit(i, "head", "none")
        /\ at + 2 <= Upto(i)
        /\ \A k \in 1 .. Len(body) : All[at + Lead(i) + k] = Unit(i, "data", body[k])
        /\ IF Request(i).coding # "chunked" THEN Upto(i) = at + 2 + Len(body)
           ELSE IF body = <<>>
           THEN Upto(i) = at + 3 /\ All[at + 3] = Unit(i, "last", "none")
           ELSE /\ Upto(i) = at + 4 + Len(body)
                /\ All[at + 3] = Unit(i, "size", "none")
                /\ All[at + 4 + Len(body)] = Unit(i, "last", "none")

(* The stream of a connection.                                             *)
LEMMA Streams ==
    ASSUME setting \in Settings
    PROVE  /\ setting.stream \in Seq(Message) /\ Len(setting.stream) \in Nat
           /\ Len(setting.stream) <= MaxRequests /\ MaxRequests \in Nat
           /\ setting.pipelined \in BOOLEAN /\ setting.old \in Seq(STRING)
           /\ \A i \in 1 .. Len(setting.stream) :
                 /\ Request(i) = setting.stream[i]
                 /\ Request(i).url \in Seq(STRING) /\ Request(i).body \in Seq(STRING)
                 /\ Request(i).coding \in {"none", "length", "chunked"}
                 /\ Request(i).coding = "none" => Request(i).body = <<>>
                 /\ Request(i).close \in BOOLEAN /\ Request(i).upgrade \in BOOLEAN
                 /\ Request(i).bad \in BOOLEAN
<1>1. /\ setting.stream \in Seq(Message) /\ Len(setting.stream) <= MaxRequests
      /\ MaxRequests \in Nat /\ setting.pipelined \in BOOLEAN /\ setting.old \in Seq(STRING)
      /\ \A i \in DOMAIN setting.stream :
            setting.stream[i].coding = "none" => setting.stream[i].body = <<>>
    BY HttpAssumption
<1>2. Len(setting.stream) \in Nat /\ DOMAIN setting.stream = 1 .. Len(setting.stream)
    BY <1>1
<1>3. \A i \in 1 .. Len(setting.stream) : setting.stream[i] \in Message
    BY <1>1
<1>4. \A r \in Message : /\ r.url \in Seq(STRING) /\ r.body \in Seq(STRING)
                         /\ r.coding \in {"none", "length", "chunked"}
                         /\ r.close \in BOOLEAN /\ r.upgrade \in BOOLEAN
                         /\ r.bad \in BOOLEAN
    BY DEF Message
<1>5. \A i \in 1 .. Len(setting.stream) : Request(i) = setting.stream[i]
    BY DEF Request
<1> HIDE DEF Message
<1>. QED
    BY <1>1, <1>2, <1>3, <1>4, <1>5

(* Where the units of the requests are.                                    *)
LEMMA Rows ==
    ASSUME setting \in Settings
    PROVE  /\ All \in Seq(UnitType) /\ Len(All) \in Nat
           /\ Upto(0) = 0
           /\ \A i \in 0 .. Len(setting.stream) : Upto(i) \in Nat
           /\ \A i \in 1 .. Len(setting.stream) : Row(i)
<1> DEFINE s == setting.stream
           n == Len(s)
<1>1. s \in Seq(Message) /\ n \in Nat
    BY Streams
<1>2. \A j \in 0 .. n : Built(s, j)
    BY <1>1, AllBuilt
<1>3. UnitsTo(s)[0] = <<>>
    BY <1>1, UnitsToSteps
<1>4. \A i \in 1 .. n : Request(i) = s[i]
    BY Streams
<1> HIDE DEF s
<1>5. Built(s, n) /\ All = UnitsTo(s)[n] /\ \A i : Upto(i) = Len(UnitsTo(s)[i])
    BY <1>1, <1>2 DEF All, Upto, Units, s
<1>6. \A i \in 0 .. n : UnitsTo(s)[i] \in Seq(UnitType) /\ Upto(i) \in Nat
    BY <1>1, <1>5 DEF Built
<1>7. All \in Seq(UnitType) /\ Len(All) \in Nat
    BY <1>1, <1>5, <1>6
<1>8. ASSUME NEW i \in 1 .. n PROVE Row(i)
    <2> DEFINE u == UnitsOf(s, i)
               at == Upto(i - 1)
               b == s[i].body
    <2>1. i \in 0 .. n /\ i - 1 \in 0 .. n /\ i \in Nat /\ i >= 1
        BY <1>1
    <2>2. at \in Nat /\ Upto(i) \in Nat
        BY <1>6, <2>1
    <2>3. \A k \in 1 .. Len(u) : at + k <= Len(All) /\ All[at + k] = u[k]
        BY <1>5 DEF Built
    <2>4. Upto(i) = at + Len(u)
        <3>1. UnitsTo(s)[i] = UnitsTo(s)[i - 1] \o u
            BY <1>1, UnitsToSteps
        <3>2. UnitsTo(s)[i - 1] \in Seq(UnitType) /\ u \in Seq(UnitType)
            BY <1>1, <1>6, <2>1, Shape
        <3>3. Concat(UnitsTo(s)[i], UnitsTo(s)[i - 1], u)
            BY <3>1, <3>2, Joined, Zenon
        <3>. QED
            BY <1>5, <3>3 DEF Concat
    <2>5. /\ b \in Seq(STRING) /\ u \in Seq(UnitType) /\ Len(u) >= 2
          /\ u[1] = Unit(i, "line", "none") /\ u[2] = Unit(i, "head", "none")
          /\ s[i].coding # "chunked" =>
                /\ Len(u) = 2 + Len(b)
                /\ \A k \in 1 .. Len(b) : u[2 + k] = Unit(i, "data", b[k])
          /\ s[i].coding = "chunked" /\ b = <<>> =>
                Len(u) = 3 /\ u[3] = Unit(i, "last", "none")
          /\ s[i].coding = "chunked" /\ b # <<>> =>
                /\ Len(u) = 4 + Len(b) /\ u[3] = Unit(i, "size", "none")
                /\ \A k \in 1 .. Len(b) : u[3 + k] = Unit(i, "data", b[k])
                /\ u[4 + Len(b)] = Unit(i, "last", "none")
        BY <1>1, Shape
    <2>6. Request(i).body = b /\ Request(i).coding = s[i].coding
        BY <1>4
    <2> HIDE DEF u, at, b
    <2>7. Len(u) \in Nat /\ Len(b) \in Nat
        BY <2>5
    <2>8. /\ All[at + 1] = Unit(i, "line", "none") /\ All[at + 2] = Unit(i, "head", "none")
          /\ at + 2 <= Upto(i) /\ Upto(i) <= Len(All)
        <3>1. 1 \in 1 .. Len(u) /\ 2 \in 1 .. Len(u) /\ Len(u) \in 1 .. Len(u)
            BY <2>5, <2>7
        <3>2. All[at + 1] = u[1] /\ All[at + 2] = u[2]
            BY <2>3, <3>1
        <3>3. at + 2 <= Upto(i) /\ Upto(i) <= Len(All)
            BY <2>2, <2>3, <2>4, <2>5, <2>7, <3>1
        <3>. QED
            BY <2>5, <3>2, <3>3
    <2>9. CASE s[i].coding # "chunked"
        <3>1. Lead(i) = 2
            BY <2>6, <2>9 DEF Lead
        <3>2. ASSUME NEW k \in 1 .. Len(b)
              PROVE  All[at + Lead(i) + k] = Unit(i, "data", b[k])
            <4>1. 2 + k \in 1 .. Len(u) /\ at + (2 + k) = at + 2 + k
                BY <2>2, <2>5, <2>7, <2>9
            <4>. QED
                BY <2>3, <2>5, <2>9, <3>1, <4>1
        <3>3. Upto(i) = at + 2 + Len(b)
            <4>1. Len(u) = 2 + Len(b)
                BY <2>5, <2>9
            <4>. QED
                BY <2>2, <2>4, <2>7, <4>1
        <3>. QED
            BY <2>2, <2>6, <2>7, <2>8, <2>9, <3>2, <3>3 DEF Row, at
    <2>10. CASE s[i].coding = "chunked" /\ b = <<>>
        <3>1. Len(u) = 3 /\ Len(b) = 0 /\ 3 \in 1 .. Len(u)
            BY <2>5, <2>10
        <3>2. All[at + 3] = Unit(i, "last", "none") /\ Upto(i) = at + 3
            BY <2>3, <2>4, <2>5, <2>10, <3>1
        <3>3. \A k \in 1 .. Len(b) : FALSE
            BY <3>1
        <3>. QED
            BY <2>2, <2>6, <2>7, <2>8, <2>10, <3>2, <3>3 DEF Row, at
    <2>11. CASE s[i].coding = "chunked" /\ b # <<>>
        <3>1. Lead(i) = 3
            BY <2>6, <2>11 DEF Lead
        <3>2. ASSUME NEW k \in 1 .. Len(b)
              PROVE  All[at + Lead(i) + k] = Unit(i, "data", b[k])
            <4>1. 3 + k \in 1 .. Len(u) /\ at + (3 + k) = at + 3 + k
                BY <2>2, <2>5, <2>7, <2>11
            <4>. QED
                BY <2>3, <2>5, <2>11, <3>1, <4>1
        <3>3. /\ 3 \in 1 .. Len(u) /\ 4 + Len(b) \in 1 .. Len(u)
              /\ at + (4 + Len(b)) = at + 4 + Len(b)
            BY <2>2, <2>5, <2>7, <2>11
        <3>4. /\ All[at + 3] = Unit(i, "size", "none")
              /\ All[at + 4 + Len(b)] = Unit(i, "last", "none")
              /\ Upto(i) = at + 4 + Len(b)
            BY <2>2, <2>3, <2>4, <2>5, <2>7, <2>11, <3>3
        <3>. QED
            BY <2>2, <2>6, <2>7, <2>8, <2>11, <3>2, <3>4 DEF Row, at
    <2>. QED
        BY <2>9, <2>10, <2>11
<1>9. Upto(0) = 0
    BY <1>3, <1>5
<1>. QED
    BY <1>6, <1>7, <1>8, <1>9 DEF s

(* Requests are one behind the other in the stream.                        *)
LEMMA UptoGrows ==
    ASSUME setting \in Settings,
           NEW i \in 0 .. Len(setting.stream), NEW j \in 0 .. Len(setting.stream), i <= j
    PROVE  Upto(i) <= Upto(j)
<1> DEFINE s == setting.stream
           T == {m \in Nat : i + m <= Len(s) => Upto(i) <= Upto(i + m)}
<1>1. Len(s) \in Nat /\ i \in Nat /\ j \in Nat
    BY Streams
<1>2. /\ \A k \in 0 .. Len(s) : Upto(k) \in Nat
      /\ \A k \in 1 .. Len(s) : Upto(k - 1) + 2 <= Upto(k)
    BY Rows DEF Row
<1> HIDE DEF s
<1>3. 0 \in T
    BY <1>1, <1>2
<1>4. ASSUME NEW m \in T PROVE m + 1 \in T
    <2>1. SUFFICES ASSUME i + (m + 1) <= Len(s) PROVE Upto(i) <= Upto(i + (m + 1))
        OBVIOUS
    <2>2. /\ m \in Nat /\ i + m <= Len(s) /\ i + (m + 1) \in 1 .. Len(s)
          /\ (i + (m + 1)) - 1 = i + m /\ i + m \in 0 .. Len(s)
        BY <1>1, <2>1
    <2>3. Upto(i) <= Upto(i + m)
        BY <2>2
    <2>4. Upto(i + m) + 2 <= Upto(i + (m + 1))
        BY <1>2, <2>2
    <2>. QED
        BY <1>1, <1>2, <2>2, <2>3, <2>4 DEF s
<1>5. T \in SUBSET Nat
    OBVIOUS
<1> HIDE DEF T
<1>6. T = Nat
    BY <1>3, <1>4, <1>5, AllNats
<1>7. j - i \in T /\ i + (j - i) = j /\ j <= Len(s)
    BY <1>1, <1>6 DEF s
<1>. QED
    BY <1>7 DEF T

(* A unit belongs to the request in whose block it is, and is its line if  *)
(* it is the first one there.                                              *)
LEMMA Located ==
    ASSUME setting \in Settings, NEW p \in 1 .. Len(All)
    PROVE  \E i \in 1 .. Len(setting.stream) :
              /\ Upto(i - 1) < p /\ p <= Upto(i)
              /\ All[p].req = i
              /\ All[p].part = "line" => p = Upto(i - 1) + 1
<1> DEFINE s == setting.stream
<1>1. s \in Seq(Message) /\ Len(s) \in Nat
    BY Streams
<1>2. Built(s, Len(s)) /\ All = UnitsTo(s)[Len(s)] /\ \A j : Upto(j) = Len(UnitsTo(s)[j])
    BY <1>1, AllBuilt DEF All, Upto, Units
<1> HIDE DEF s
<1>3. PICK i \in 1 .. Len(s) : Upto(i - 1) < p /\ p <= Upto(i)
    BY <1>2 DEF Built
<1> DEFINE at == Upto(i - 1)
           b == Request(i).body
           k == p - at
<1>4. Row(i) /\ i \in Nat /\ Len(All) \in Nat
    BY <1>1, Rows DEF s
<1>5. /\ at \in Nat /\ Upto(i) \in Nat /\ Len(b) \in Nat /\ p \in Nat
      /\ All[at + 1] = Unit(i, "line", "none") /\ All[at + 2] = Unit(i, "head", "none")
      /\ \A m \in 1 .. Len(b) : All[at + Lead(i) + m] = Unit(i, "data", b[m])
      /\ Request(i).coding # "chunked" => Upto(i) = at + 2 + Len(b)
      /\ Request(i).coding = "chunked" /\ b = <<>> =>
            Upto(i) = at + 3 /\ All[at + 3] = Unit(i, "last", "none")
      /\ Request(i).coding = "chunked" /\ b # <<>> =>
            /\ Upto(i) = at + 4 + Len(b)
            /\ All[at + 3] = Unit(i, "size", "none")
            /\ All[at + 4 + Len(b)] = Unit(i, "last", "none")
    BY <1>4 DEF Row
<1> HIDE DEF at, b
<1>6. at < p /\ p <= Upto(i)
    BY <1>3 DEF at
<1>7. \/ p = at + 1 /\ All[p] = Unit(i, "line", "none")
      \/ \E part \in {"head", "size", "last"} : All[p] = Unit(i, part, "none")
      \/ \E text : All[p] = Unit(i, "data", text)
    <2>1. CASE p = at + 1 \/ p = at + 2
        BY <1>5, <2>1
    <2>2. CASE Request(i).coding # "chunked" /\ p # at + 1 /\ p # at + 2
        <3> DEFINE m == p - (at + 2)
        <3>1. Lead(i) = 2 /\ Upto(i) = at + 2 + Len(b)
            BY <1>5, <2>2 DEF Lead
        <3>2. m \in 1 .. Len(b) /\ at + 2 + m = p
            BY <1>5, <1>6, <2>2, <3>1
        <3> HIDE DEF m
        <3>3. All[p] = Unit(i, "data", b[m])
            BY <1>5, <3>1, <3>2
        <3>. QED
            BY <3>3
    <2>3. CASE Request(i).coding = "chunked" /\ b = <<>> /\ p # at + 1 /\ p # at + 2
        <3>1. Upto(i) = at + 3 /\ All[at + 3] = Unit(i, "last", "none")
            BY <1>5, <2>3
        <3>2. p = at + 3
            BY <1>5, <1>6, <2>3, <3>1
        <3>. QED
            BY <3>1, <3>2
    <2>4. CASE Request(i).coding = "chunked" /\ b # <<>> /\ p # at + 1 /\ p # at + 2
        <3> DEFINE m == p - (at + 3)
        <3>1. /\ Lead(i) = 3 /\ Upto(i) = at + 4 + Len(b)
              /\ All[at + 3] = Unit(i, "size", "none")
              /\ All[at + 4 + Len(b)] = Unit(i, "last", "none")
            BY <1>5, <2>4 DEF Lead
        <3>2. CASE p = at + 3
            BY <3>1, <3>2
        <3>3. CASE p = at + 4 + Len(b)
            BY <3>1, <3>3
        <3>4. CASE p # at + 3 /\ p # at + 4 + Len(b)
            <4>1. m \in 1 .. Len(b) /\ at + 3 + m = p
                BY <1>5, <1>6, <2>4, <3>1, <3>4
            <4> HIDE DEF m
            <4>2. All[p] = Unit(i, "data", b[m])
                BY <1>5, <3>1, <4>1
            <4>. QED
                BY <4>2
        <3>. QED
            BY <3>2, <3>3, <3>4
    <2>. QED
        BY <2>1, <2>2, <2>3, <2>4
<1>8. All[p].req = i /\ (All[p].part = "line" => p = at + 1)
    <2>1. \A part, text : Unit(i, part, text).req = i /\ Unit(i, part, text).part = part
        BY DEF Unit
    <2>. QED
        BY <1>7, <2>1
<1>. QED
    BY <1>3, <1>8 DEF at, s

(* The numbers of the requests grow along the stream.                      *)
LEMMA Sorted ==
    ASSUME setting \in Settings, NEW p \in 1 .. Len(All), NEW r \in 1 .. Len(All), p <= r
    PROVE  All[p].req <= All[r].req
<1> DEFINE n == Len(setting.stream)
<1>1. PICK i \in 1 .. n : Upto(i - 1) < p /\ p <= Upto(i) /\ All[p].req = i
    BY Located
<1>2. PICK j \in 1 .. n : Upto(j - 1) < r /\ r <= Upto(j) /\ All[r].req = j
    BY Located
<1>3. n \in Nat /\ Len(All) \in Nat /\ \A k \in 0 .. n : Upto(k) \in Nat
    BY Streams, Rows
<1>4. ~ (j < i)
    <2>1. SUFFICES ASSUME j < i PROVE FALSE
        OBVIOUS
    <2>2. j \in 0 .. n /\ i - 1 \in 0 .. n /\ j <= i - 1
        BY <1>3, <2>1
    <2>3. Upto(j) <= Upto(i - 1)
        BY <2>2, UptoGrows
    <2>. QED
        BY <1>1, <1>2, <1>3, <2>2, <2>3
<1>. QED
    BY <1>1, <1>2, <1>3, <1>4

----------------------------------------------------------------------------
(* The parser, unit by unit                                                *)

(* The unit after the first k.                                             *)
Expected(q, k) ==
    LET u == All[k + 1]
        b == Request(q.cur).body
    IN  /\ q.at = "line" /\ u.part = "line" =>
              /\ u.req \in 1 .. Len(setting.stream) /\ q.cur < u.req
              /\ k = Upto(u.req - 1)
        /\ q.at = "head" => u = Unit(q.cur, "head", "none")
        /\ q.at = "data" => u = Unit(q.cur, "data", b[Len(b) - q.left + 1])
        /\ q.at = "chunk" => IF q.stage = <<>> /\ b # <<>>
                             THEN u = Unit(q.cur, "size", "none")
                             ELSE u = Unit(q.cur, "last", "none") /\ k + 1 = Upto(q.cur)

(* What comes next in the stream is what the parser expects, but between   *)
(* two requests, where what it takes for a line is the line of a later     *)
(* request.                                                                *)
LEMMA NextUnit ==
    ASSUME setting \in Settings, NEW q, Known(q), NEW k \in Nat, Place(q, k),
           k + 1 <= Len(All)
    PROVE  Expected(q, k)
<1> DEFINE n == Len(setting.stream)
           u == All[k + 1]
           b == Request(q.cur).body
<1>1. /\ n \in Nat /\ Len(All) \in Nat /\ \A i \in 0 .. n : Upto(i) \in Nat
      /\ \A i \in 1 .. n : Row(i) /\ i \in Nat
    BY Streams, Rows
<1>2. q.cur \in 0 .. n /\ q.left \in Nat
    BY <1>1 DEF Known, Parser
<1>3. ASSUME q.at = "line", u.part = "line"
      PROVE  u.req \in 1 .. n /\ q.cur < u.req /\ k = Upto(u.req - 1)
    <2>1. k + 1 \in 1 .. Len(All) /\ Upto(q.cur) <= k
        BY <1>1, <1>3 DEF Place
    <2>2. PICK i \in 1 .. n : /\ Upto(i - 1) < k + 1 /\ k + 1 <= Upto(i)
                              /\ u.req = i /\ k + 1 = Upto(i - 1) + 1
        BY <1>3, <2>1, Located
    <2>3. i \in 0 .. n /\ i - 1 \in 0 .. n /\ Upto(i - 1) \in Nat /\ Upto(i) \in Nat
        BY <1>1
    <2>4. k = Upto(i - 1)
        BY <2>2, <2>3
    <2>5. ~ (i <= q.cur)
        <3>1. SUFFICES ASSUME i <= q.cur PROVE FALSE
            OBVIOUS
        <3>2. Upto(i) <= Upto(q.cur) /\ Upto(q.cur) \in Nat
            BY <1>1, <1>2, <2>3, <3>1, UptoGrows
        <3>. QED
            BY <2>1, <2>2, <2>3, <3>2
    <2>. QED
        BY <1>2, <2>2, <2>4, <2>5
<1>4. ASSUME q.at \in {"head", "data", "chunk"}
      PROVE  /\ q.cur \in 1 .. n /\ Row(q.cur) /\ Upto(q.cur - 1) \in Nat
             /\ Len(b) \in Nat
    <2>1. q.cur \in 1 .. n
        BY <1>1, <1>2, <1>4 DEF Known, Begun
    <2>. QED
        BY <1>1, <2>1 DEF Row
<1>5. ASSUME q.at = "head" PROVE u = Unit(q.cur, "head", "none")
    <2>1. k = Upto(q.cur - 1) + 1
        BY <1>5 DEF Place
    <2>2. Row(q.cur) /\ k + 1 = Upto(q.cur - 1) + 2
        BY <1>4, <1>5, <2>1
    <2>. QED
        BY <2>2 DEF Row
<1>6. ASSUME q.at = "data" PROVE u = Unit(q.cur, "data", b[Len(b) - q.left + 1])
    <2>1. q.left \in 1 .. Len(b) /\ k + q.left = Upto(q.cur - 1) + Lead(q.cur) + Len(b)
        BY <1>6 DEF Place
    <2>2. Row(q.cur) /\ Upto(q.cur - 1) \in Nat /\ Len(b) \in Nat /\ Lead(q.cur) \in Nat
        BY <1>4, <1>6 DEF Lead
    <2> DEFINE at   == Upto(q.cur - 1)
               lead == Lead(q.cur)
               len  == Len(b)
               left == q.left
    <2>3. /\ at \in Nat /\ lead \in Nat /\ len \in Nat /\ left \in 1 .. len
          /\ k + left = at + lead + len
        BY <2>1, <2>2
    <2> HIDE DEF at, lead, len, left
    <2>4. len - left + 1 \in 1 .. len /\ at + lead + (len - left + 1) = k + 1
        BY <2>3
    <2>5. /\ Len(b) - q.left + 1 \in 1 .. Len(b)
          /\ Upto(q.cur - 1) + Lead(q.cur) + (Len(b) - q.left + 1) = k + 1
        BY <2>4 DEF at, lead, len, left
    <2>. QED
        BY <2>2, <2>5 DEF Row
<1>7. ASSUME q.at = "chunk"
      PROVE  IF q.stage = <<>> /\ b # <<>>
             THEN u = Unit(q.cur, "size", "none")
             ELSE u = Unit(q.cur, "last", "none") /\ k + 1 = Upto(q.cur)
    <2>1. /\ Request(q.cur).coding = "chunked"
          /\ IF q.stage = <<>> THEN k = Upto(q.cur - 1) + 2
             ELSE k = Upto(q.cur) - 1 /\ q.stage = b
        BY <1>7 DEF Place
    <2>2. Row(q.cur) /\ Upto(q.cur - 1) \in Nat /\ Len(b) \in Nat
        BY <1>4, <1>7
    <2>3. /\ b = <<>> => /\ Upto(q.cur) = Upto(q.cur - 1) + 3
                         /\ All[Upto(q.cur - 1) + 3] = Unit(q.cur, "last", "none")
          /\ b # <<>> => /\ Upto(q.cur) = Upto(q.cur - 1) + 4 + Len(b)
                         /\ All[Upto(q.cur - 1) + 3] = Unit(q.cur, "size", "none")
                         /\ All[Upto(q.cur - 1) + 4 + Len(b)] = Unit(q.cur, "last", "none")
        BY <2>1, <2>2 DEF Row
    <2>. QED
        BY <2>1, <2>2, <2>3
<1>. QED
    BY <1>3, <1>5, <1>6, <1>7 DEF Expected

(* What is left of a URL without its query string.                         *)
LEMMA PathTyped ==
    ASSUME NEW url \in Seq(STRING)
    PROVE  PathOf(url) \in Seq(STRING)
<1> DEFINE marks == {i \in DOMAIN url : url[i] = "?"}
<1>1. marks \in SUBSET (1 .. Len(url)) /\ Len(url) \in Nat
    OBVIOUS
<1>2. CASE marks = {}
    BY <1>2 DEF PathOf
<1>3. CASE marks # {}
    <2>1. marks \in SUBSET Nat
        BY <1>1
    <2>2. Min(marks) \in marks
        BY <1>3, <2>1, LeastNat
    <2> DEFINE m == Min(marks)
    <2> HIDE DEF marks
    <2>3. m \in 1 .. Len(url)
        BY <1>1, <2>2
    <2> HIDE DEF m
    <2>4. m - 1 \in 0 .. Len(url) /\ 1 \in 1 .. Len(url) + 1
        BY <1>1, <2>3
    <2>5. SubSeq(url, 1, m - 1) \in Seq(STRING)
        BY <1>1, <2>3, <2>4, SubSeqProperties
    <2>. QED
        BY <1>3, <2>5 DEF PathOf, marks, m
<1>. QED
    BY <1>2, <1>3

(* A body over what a file held before.                                    *)
LEMMA Overlaid ==
    ASSUME NEW s \in Seq(STRING), NEW t \in Seq(STRING)
    PROVE  /\ Over(s, t) \in Seq(STRING)
           /\ Len(Over(s, t)) = IF Len(s) < Len(t) THEN Len(t) ELSE Len(s)
           /\ \A i \in 1 .. Len(Over(s, t)) :
                 Over(s, t)[i] = IF i <= Len(s) THEN s[i] ELSE t[i]
<1> DEFINE rest == SubSeq(t, Len(s) + 1, Len(t))
<1>1. Len(s) \in Nat /\ Len(t) \in Nat
    OBVIOUS
<1>2. CASE Len(s) < Len(t)
    <2>1. Len(s) + 1 \in 1 .. Len(t) + 1 /\ Len(t) \in Len(s) .. Len(t)
        BY <1>1, <1>2
    <2>2. /\ rest \in Seq(STRING) /\ Len(rest) = Len(t) - Len(s)
          /\ \A i \in 1 .. Len(rest) : rest[i] = t[Len(s) + i]
        BY <1>1, <1>2, <2>1
    <2> HIDE DEF rest
    <2>3. /\ s \o rest \in Seq(STRING) /\ Len(s \o rest) = Len(s) + Len(rest)
          /\ \A i \in 1 .. Len(s) + Len(rest) :
                (s \o rest)[i] = IF i <= Len(s) THEN s[i] ELSE rest[i - Len(s)]
        BY <2>2, ConcatProperties
    <2>4. \A i \in 1 .. Len(t) : i <= Len(s) \/ (i - Len(s) \in 1 .. Len(rest)
                                                  /\ Len(s) + (i - Len(s)) = i)
        BY <1>1, <2>2
    <2>5. \A i \in 1 .. Len(t) : (s \o rest)[i] = IF i <= Len(s) THEN s[i] ELSE t[i]
        BY <1>1, <2>2, <2>3, <2>4
    <2>6. Len(s \o rest) = Len(t)
        BY <1>1, <2>2, <2>3
    <2>. QED
        BY <1>2, <2>3, <2>5, <2>6 DEF Over, rest
<1>3. CASE ~ (Len(s) < Len(t))
    <2>1. rest = <<>>
        BY <1>1, <1>3
    <2> HIDE DEF rest
    <2>2. s \o rest = s
        BY <2>1, ConcatEmptySeq
    <2>3. \A i \in 1 .. Len(s) : i <= Len(s)
        BY <1>1
    <2>. QED
        BY <1>3, <2>2, <2>3 DEF Over, rest
<1>. QED
    BY <1>2, <1>3

(* A body is written over a file byte by byte.                             *)
LEMMA OverwriteOne ==
    ASSUME NEW b \in Seq(STRING), NEW t \in Seq(STRING), NEW n \in Nat, n < Len(b)
    PROVE  Overwrite(Over(SubSeq(b, 1, n), t), n + 1, b[n + 1]) = Over(SubSeq(b, 1, n + 1), t)
<1> DEFINE s == SubSeq(b, 1, n)
           s1 == SubSeq(b, 1, n + 1)
           f == Over(s, t)
           g == Over(s1, t)
           h == Overwrite(f, n + 1, b[n + 1])
<1>1. /\ s \in Seq(STRING) /\ s1 \in Seq(STRING) /\ Len(s) = n /\ Len(s1) = n + 1
      /\ Len(t) \in Nat /\ b[n + 1] \in STRING
      /\ \A i \in 1 .. n : s[i] = b[i]
      /\ \A i \in 1 .. n + 1 : s1[i] = b[i]
    OBVIOUS
<1> HIDE DEF s, s1
<1>2. /\ f \in Seq(STRING) /\ Len(f) = IF n < Len(t) THEN Len(t) ELSE n
      /\ \A i \in 1 .. Len(f) : f[i] = IF i <= n THEN s[i] ELSE t[i]
    BY <1>1, Overlaid
<1>3. /\ g \in Seq(STRING) /\ Len(g) = IF n + 1 < Len(t) THEN Len(t) ELSE n + 1
      /\ \A i \in 1 .. Len(g) : g[i] = IF i <= n + 1 THEN s1[i] ELSE t[i]
    BY <1>1, Overlaid
<1> HIDE DEF f, g
<1>4. h \in Seq(STRING) /\ Len(h) = Len(g) /\ \A i \in 1 .. Len(h) : h[i] = g[i]
    <2>1. CASE n < Len(t)
        <3>1. n + 1 <= Len(f) /\ Len(f) = Len(t) /\ Len(g) = Len(t)
            BY <1>1, <1>2, <1>3, <2>1
        <3>2. h = [f EXCEPT ![n + 1] = b[n + 1]]
            BY <3>1 DEF Overwrite
        <3> HIDE DEF h
        <3>3. /\ h \in Seq(STRING) /\ Len(h) = Len(t)
              /\ \A i \in 1 .. Len(t) : h[i] = IF i = n + 1 THEN b[n + 1] ELSE f[i]
            BY <1>1, <1>2, <3>1, <3>2
        <3>4. \A i \in 1 .. Len(t) : h[i] = g[i]
            <4>1. ASSUME NEW i \in 1 .. Len(t) PROVE h[i] = g[i]
                <5>1. CASE i = n + 1
                    BY <1>1, <1>3, <3>1, <3>3, <5>1
                <5>2. CASE i <= n
                    BY <1>1, <1>2, <1>3, <3>1, <3>3, <5>2
                <5>3. CASE n + 1 < i
                    BY <1>1, <1>2, <1>3, <3>1, <3>3, <5>3
                <5>. QED
                    BY <1>1, <5>1, <5>2, <5>3
            <4>. QED
                BY <4>1
        <3>. QED
            BY <3>1, <3>3, <3>4
    <2>2. CASE ~ (n < Len(t))
        <3>1. ~ (n + 1 <= Len(f)) /\ Len(f) = n /\ Len(g) = n + 1
            BY <1>1, <1>2, <1>3, <2>2
        <3>2. h = Append(f, b[n + 1])
            BY <3>1 DEF Overwrite
        <3> HIDE DEF h
        <3>3. /\ h \in Seq(STRING) /\ Len(h) = n + 1 /\ h[n + 1] = b[n + 1]
              /\ \A i \in 1 .. n : h[i] = f[i]
            BY <1>1, <1>2, <3>1, <3>2
        <3>4. \A i \in 1 .. n + 1 : h[i] = g[i]
            BY <1>1, <1>2, <1>3, <3>1, <3>3
        <3>. QED
            BY <3>1, <3>3, <3>4
    <2>. QED
        BY <2>1, <2>2
<1> HIDE DEF h
<1>5. h = g
    BY <1>3, <1>4, SeqEqual
<1>. QED
    BY <1>5 DEF h, g, f, s, s1

(* Nothing is yet written over a file.                                     *)
LEMMA OverNothing ==
    ASSUME NEW t \in Seq(STRING)
    PROVE  Over(<<>>, t) = t
<1>1. Len(<<>>) + 1 = 1 /\ SubSeq(t, 1, Len(t)) = t
    BY SubSeqFull
<1>2. <<>> \o t = t
    BY ConcatEmptySeq
<1>. QED
    BY <1>1, <1>2 DEF Over

(* A file with a byte written to it is one.                                *)
LEMMA OverwriteTyped ==
    ASSUME NEW t \in Seq(Bytes), NEW i \in Nat, i >= 1, NEW c \in Bytes
    PROVE  Overwrite(t, i, c) \in Seq(Bytes)
<1>1. CASE i <= Len(t)
    <2>1. i \in 1 .. Len(t)
        BY <1>1
    <2>2. [t EXCEPT ![i] = c] \in Seq(Bytes)
        BY <2>1, ExceptSeq
    <2>. QED
        BY <1>1, <2>2 DEF Overwrite
<1>2. CASE ~ (i <= Len(t))
    BY <1>2, AppendProperties DEF Overwrite
<1>. QED
    BY <1>1, <1>2

(* The fields of the parser.                                               *)
LEMMA ParserTypes ==
    ASSUME NEW q \in Parser
    PROVE  /\ q.cur \in Nat /\ q.at \in {"line", "head", "data", "chunk"} /\ q.url \in Seq(STRING)
           /\ q.stage \in Seq(STRING) /\ q.hdr \in BOOLEAN /\ q.done \in BOOLEAN
           /\ q.left \in Nat /\ q.offload \in BOOLEAN /\ q.file \in Seq(Bytes)
           /\ q.foreign \in BOOLEAN /\ q.err \in Errors /\ q.paused \in BOOLEAN
BY DEF Parser

(* What clear does to the fields.                                          *)
LEMMA ClearFields ==
    ASSUME NEW q \in Parser, NEW r, r = Clear(q)
    PROVE  /\ r \in Parser /\ r.cur = q.cur /\ r.at = q.at /\ r.url = <<>> /\ r.stage = <<>>
           /\ ~r.hdr /\ ~r.done /\ r.left = q.left /\ ~r.offload /\ r.file = <<>>
           /\ ~r.foreign /\ r.err = q.err /\ r.paused = q.paused
<1>1. <<>> \in Seq(STRING) /\ <<>> \in Seq(Bytes)
    OBVIOUS
<1>. QED
    BY <1>1 DEF Clear, Parser

(* What on_msg_complete does to the fields.                                *)
LEMMA CompleteFields ==
    ASSUME NEW q \in Parser, Request(q.cur).upgrade \in BOOLEAN, NEW r, r = Complete(q)
    PROVE  /\ r \in Parser /\ r.cur = q.cur /\ r.at = "line" /\ r.url = q.url
           /\ r.stage = q.stage /\ r.hdr = q.hdr /\ r.done /\ r.left = 0
           /\ r.offload = q.offload /\ r.file = q.file /\ r.foreign = q.foreign
           /\ r.err = q.err
BY DEF Complete, Parser

(* A step that neither begins nor ends a request is in turn.               *)
LEMMA SameTurn ==
    ASSUME NEW q, Turn(q), Begun(q), NEW r, r.cur = q.cur, r.url = q.url, Begun(r)
    PROVE  Turn(r)
BY DEF Turn, UrlOf

(* An error leaves the request as it is.                                   *)
LEMMA ErrorParsed ==
    ASSUME NEW q, NEW k \in Nat, NEW j \in Nat, Parsed(q, k), NEW e \in Errors \ {"none"},
           NEW r, r = [q EXCEPT !.err = e]
    PROVE  Parsed(r, j)
<1>1. q \in Parser
    BY DEF Parsed, Known
<1>2. /\ r \in Parser /\ r.cur = q.cur /\ r.at = q.at /\ r.url = q.url /\ r.stage = q.stage
      /\ r.hdr = q.hdr /\ r.done = q.done /\ r.err = e /\ r.paused = q.paused
    BY <1>1 DEF Parser
<1>3. Known(r)
    BY <1>2 DEF Parsed, Known, Begun
<1>4. Turn(r)
    BY <1>2 DEF Parsed, Turn, Begun, UrlOf
<1>. QED
    BY <1>2, <1>3, <1>4 DEF Parsed

(* The message is complete: all of the body is there.                      *)
LEMMA CompleteParsed ==
    ASSUME setting \in Settings, NEW k \in Nat, NEW q \in Parser,
           q.cur \in 1 .. Len(setting.stream), Turn(q), q.hdr,
           Upto(q.cur) <= k, Kept(q, Request(q.cur).body), q.offload => q.stage = <<>>,
           q.foreign => q.offload /\ setting.shared
    PROVE  Parsed(Complete(q), k)
<1> DEFINE r == Complete(q)
<1>1. Request(q.cur).upgrade \in BOOLEAN /\ Len(setting.stream) \in Nat
    BY Streams
<1>2. /\ r \in Parser /\ r.cur = q.cur /\ r.at = "line" /\ r.url = q.url
      /\ r.stage = q.stage /\ r.hdr = q.hdr /\ r.done /\ r.left = 0
      /\ r.offload = q.offload /\ r.file = q.file /\ r.foreign = q.foreign /\ r.err = q.err
    BY <1>1, CompleteFields
<1> HIDE DEF r
<1>3. Known(r)
    BY <1>1, <1>2 DEF Known, Begun
<1>4. Turn(r)
    BY <1>2, SameTurn DEF Begun
<1>5. Kept(r, Request(r.cur).body)
    BY <1>2 DEF Kept
<1>6. r.stage # <<>> => r.stage = Request(r.cur).body /\ r.cur \in 1 .. r.cur
    BY <1>2, <1>5 DEF Kept
<1>7. Place(r, k)
    BY <1>2, <1>5, <1>6 DEF Place
<1>. QED
    BY <1>3, <1>4, <1>7 DEF Parsed, r

(* A line begins a request.                                                *)
LEMMA OnLineParsed ==
    ASSUME setting \in Settings, LastReq \in Nat, Len(answers) \in Nat,
           NEW k \in Nat, k + 1 <= Len(All), NEW u, u = All[k + 1],
           setting.pipelined \/ u.req <= Len(answers) + 1,
           NEW q, Parsed(q, k), q.err = "none", ~q.paused, q.at = "line", u.part = "line"
    PROVE  Parsed(OnLine(q, u), k + 1)
<1> DEFINE n == Len(setting.stream)
           i == u.req
           c == Clear(q)
           r == OnLine(q, u)
           url == PathOf(q.stage \o Request(i).url)
<1>1. /\ q \in Parser /\ q.cur \in Nat /\ q.stage \in Seq(STRING)
      /\ Known(q) /\ Turn(q) /\ Place(q, k)
    BY ParserTypes DEF Parsed, Known
<1>2. i \in 1 .. n /\ q.cur < i /\ k = Upto(i - 1) /\ n \in Nat /\ i \in Nat
    <2>1. Expected(q, k)
        BY <1>1, NextUnit
    <2>2. n \in Nat
        BY Streams
    <2>3. i \in 1 .. n /\ q.cur < i /\ k = Upto(i - 1)
        BY <2>1 DEF Expected
    <2>. QED
        BY <2>2, <2>3
<1>3. url \in Seq(STRING) /\ Request(i).url \in Seq(STRING)
    <2>1. Request(i).url \in Seq(STRING)
        BY <1>2, Streams
    <2>2. q.stage \o Request(i).url \in Seq(STRING)
        BY <1>1, <2>1, ConcatProperties
    <2>. QED
        BY <2>1, <2>2, PathTyped
<1>4. /\ c \in Parser /\ c.stage = <<>> /\ ~c.hdr /\ ~c.done /\ ~c.offload /\ c.file = <<>>
      /\ ~c.foreign /\ c.err = q.err /\ c.paused = q.paused
    BY <1>1, ClearFields
<1>5. r = [c EXCEPT !.cur = i, !.at = "head", !.url = url]
    BY DEF OnLine
<1> HIDE DEF c, r, url, i, n
<1>6. /\ r \in Parser /\ r.cur = i /\ r.at = "head" /\ r.url = url
      /\ r.stage = <<>> /\ ~r.hdr /\ ~r.done /\ ~r.offload /\ ~r.foreign
      /\ r.err = q.err /\ r.paused = q.paused
    BY <1>2, <1>3, <1>4, <1>5 DEF Parser
<1>7. Known(r)
    BY <1>2, <1>6 DEF Known, Begun, n
<1>8. ~setting.pipelined => q.stage = <<>> /\ i = Len(answers) + 1
    BY <1>1, <1>2 DEF Turn, i
<1>9. UrlOf(r)
    <2>1. CASE q.stage = <<>>
        <3>1. <<>> \o Request(i).url = Request(i).url
            BY <1>3, ConcatEmptySeq
        <3>. QED
            BY <1>6, <2>1, <3>1 DEF UrlOf, url
    <2>2. CASE q.stage # <<>>
        <3>1. setting.pipelined
            BY <1>8, <2>2
        <3>2. PICK j \in 1 .. q.cur : q.stage = Request(j).body
            BY <1>1, <2>2 DEF Place
        <3>3. j \in 1 .. r.cur - 1
            BY <1>1, <1>2, <1>6, <3>2
        <3>. QED
            BY <1>6, <3>1, <3>2, <3>3 DEF UrlOf, url
    <2>. QED
        BY <2>1, <2>2
<1>10. Turn(r)
    <2>1. LastReq < i
        BY <1>1, <1>2 DEF Turn
    <2>. QED
        BY <1>2, <1>6, <1>8, <1>9, <2>1 DEF Turn, Begun
<1>11. Place(r, k + 1)
    BY <1>2, <1>6 DEF Place
<1>. QED
    BY <1>7, <1>10, <1>11 DEF Parsed, r

(* The headers are complete.                                               *)
LEMMA OnHeadParsed ==
    ASSUME setting \in Settings, NEW k \in Nat,
           NEW q, Parsed(q, k), q.err = "none", q.at = "head"
    PROVE  Parsed(OnHead(q), k + 1)
<1> DEFINE n == Len(setting.stream)
           m == Request(q.cur)
           b == m.body
           at == Upto(q.cur - 1)
           len == IF m.coding = "length" THEN Len(b) ELSE 0
           spill == len > DiskOffloadMin
           file == IF spill THEN setting.old ELSE <<>>
           r == OnHead(q)
<1>1. /\ q \in Parser /\ q.cur \in Nat /\ Known(q) /\ Turn(q) /\ Place(q, k) /\ q.cur <= n
      /\ Begun(q) /\ ~q.hdr /\ ~q.done /\ ~q.paused /\ q.cur >= 1
    BY ParserTypes DEF Parsed, Known, Begun
<1>2. /\ q.stage = <<>> /\ ~q.offload /\ ~q.foreign /\ k = at + 1
    BY <1>1 DEF Place
<1>3. n \in Nat /\ q.cur \in 1 .. n /\ Row(q.cur) /\ at \in Nat
    <2>1. n \in Nat
        BY Streams
    <2>2. q.cur \in 1 .. n
        BY <1>1, <2>1
    <2>3. Row(q.cur)
        BY <2>2, Rows
    <2>. QED
        BY <2>1, <2>2, <2>3 DEF Row
<1>4. /\ b \in Seq(STRING) /\ Len(b) \in Nat /\ m.coding \in {"none", "length", "chunked"}
      /\ m.coding = "none" => b = <<>>
    BY <1>3, Streams
<1>5. len \in Nat /\ spill \in BOOLEAN /\ DiskOffloadMin \in Nat
    BY <1>4, HttpAssumption
<1>6. k + 1 \in Nat
    OBVIOUS
<1>7. /\ m.coding # "chunked" => Upto(q.cur) = at + 2 + Len(b)
      /\ m.coding # "chunked" => Lead(q.cur) = 2
    BY <1>3 DEF Row, Lead
<1>8. r = IF m.bad THEN [q EXCEPT !.err = "BadRequest"]
          ELSE IF len > MaxBodyLen THEN [q EXCEPT !.err = "RequestEntityTooLarge"]
          ELSE IF spill /\ setting.disk = "open fails" THEN [q EXCEPT !.err = "InternalError"]
          ELSE IF m.coding = "chunked" THEN [q EXCEPT !.hdr = TRUE, !.at = "chunk", !.left = 0]
          ELSE IF len = 0 THEN Complete([q EXCEPT !.hdr = TRUE])
          ELSE [q EXCEPT !.hdr = TRUE, !.at = "data", !.left = len, !.offload = spill,
                         !.file = file]
    BY DEF OnHead
<1>13. /\ setting.old \in Seq(STRING) /\ Over(<<>>, setting.old) = setting.old
       /\ file \in Seq(Bytes)
    <2>1. setting.old \in Seq(STRING) /\ <<>> \in Seq(Bytes)
        BY Streams
    <2>2. Seq(STRING) \subseteq Seq(Bytes)
        BY SeqMonotonic DEF Bytes
    <2>. QED
        BY <2>1, <2>2, OverNothing
<1> HIDE DEF n, m, b, at, len, spill, file, r
<1>9. CASE \E e \in Errors \ {"none"} : r = [q EXCEPT !.err = e]
    BY <1>6, <1>9, ErrorParsed DEF r
<1>10. CASE m.coding = "chunked" /\ r = [q EXCEPT !.hdr = TRUE, !.at = "chunk", !.left = 0]
    <2>1. /\ r \in Parser /\ r.cur = q.cur /\ r.at = "chunk" /\ r.url = q.url /\ r.left = 0
          /\ r.stage = <<>> /\ r.hdr /\ ~r.done /\ ~r.offload /\ ~r.foreign
          /\ r.err = "none" /\ ~r.paused
        BY <1>1, <1>2, <1>10 DEF Parser
    <2>2. Known(r)
        BY <1>1, <2>1 DEF Known, n
    <2>3. Turn(r)
        BY <1>1, <2>1, SameTurn DEF Begun
    <2>4. k + 1 = at + 2
        BY <1>2, <1>3
    <2>5. Place(r, k + 1)
        BY <1>10, <2>1, <2>4 DEF Place, m, at
    <2>. QED
        BY <2>2, <2>3, <2>5 DEF Parsed, r
<1>11. CASE m.coding # "chunked" /\ len = 0 /\ r = Complete([q EXCEPT !.hdr = TRUE])
    <2> DEFINE p == [q EXCEPT !.hdr = TRUE]
    <2>1. /\ p \in Parser /\ p.cur = q.cur /\ p.url = q.url /\ p.hdr
          /\ p.stage = <<>> /\ ~p.offload /\ ~p.foreign
        BY <1>1, <1>2 DEF Parser
    <2> HIDE DEF p
    <2>2. Turn(p)
        BY <1>1, <2>1, SameTurn DEF Begun
    <2>3. b = <<>> /\ Len(b) = 0
        BY <1>4, <1>11 DEF len
    <2>4. Upto(q.cur) <= k + 1
        BY <1>2, <1>3, <1>7, <1>11, <2>3
    <2>5. Kept(p, Request(p.cur).body)
        BY <2>1, <2>3 DEF Kept, b, m
    <2>6. Parsed(Complete(p), k + 1)
        BY <1>3, <1>6, <2>1, <2>2, <2>4, <2>5, CompleteParsed DEF n
    <2>. QED
        BY <1>11, <2>6 DEF p, r
<1>12. CASE /\ m.coding # "chunked" /\ len # 0
            /\ r = [q EXCEPT !.hdr = TRUE, !.at = "data", !.left = len, !.offload = spill,
                             !.file = file]
    <2>1. /\ r \in Parser /\ r.cur = q.cur /\ r.at = "data" /\ r.url = q.url /\ r.left = len
          /\ r.stage = <<>> /\ r.file = file /\ r.offload = spill /\ ~r.foreign
          /\ r.hdr /\ ~r.done /\ r.err = "none" /\ ~r.paused
        BY <1>1, <1>2, <1>5, <1>12, <1>13 DEF Parser
    <2>2. Known(r)
        BY <1>1, <2>1 DEF Known, n
    <2>3. Turn(r)
        BY <1>1, <2>1, SameTurn DEF Begun
    <2>4. /\ len = Len(b) /\ len \in 1 .. Len(b) /\ Lead(q.cur) = 2
          /\ (k + 1) + len = at + 2 + Len(b)
        BY <1>2, <1>3, <1>4, <1>5, <1>7, <1>12 DEF len
    <2>5. Kept(r, SubSeq(b, 1, Len(b) - r.left))
        <3>1. Len(b) - r.left = 0 /\ SubSeq(b, 1, 0) = <<>>
            BY <1>4, <2>1, <2>4
        <3>2. Kept(r, <<>>)
            BY <1>13, <2>1 DEF Kept, file
        <3>. QED
            BY <3>1, <3>2
    <2>6. Place(r, k + 1)
        BY <1>12, <2>1, <2>4, <2>5 DEF Place, b, m, at
    <2>. QED
        BY <2>2, <2>3, <2>6 DEF Parsed, r
<1>. QED
    BY <1>8, <1>9, <1>10, <1>11, <1>12 DEF Errors, r

(* What onBodyPart makes of the parser if nothing fails.                   *)
Stored(q, u) ==
    [q EXCEPT !.left = @ - 1,
              !.file  = IF q.offload
                        THEN Overwrite(@, Len(Request(q.cur).body) - q.left + 1, u.text) ELSE @,
              !.stage = IF q.offload THEN @ ELSE Append(@, u.text)]

(* r is q with one byte more, the one at this place.                       *)
OneByte(r, q, place, text) ==
    /\ r \in Parser /\ r.cur = q.cur /\ r.at = q.at /\ r.url = q.url
    /\ r.hdr = q.hdr /\ r.done = q.done /\ r.left = q.left - 1
    /\ r.offload = q.offload /\ r.foreign = q.foreign /\ r.err = q.err /\ r.paused = q.paused
    /\ IF q.offload THEN r.file = Overwrite(q.file, place, text) /\ r.stage = q.stage
       ELSE r.stage = Append(q.stage, text)

(* A byte goes to where the body is kept.                                  *)
LEMMA DataFields ==
    ASSUME NEW q \in Parser, q.left >= 1, NEW u, u.text \in STRING, NEW place \in Nat,
           place >= 1, place = Len(Request(q.cur).body) - q.left + 1
    PROVE  OneByte(Stored(q, u), q, place, u.text)
<1> DEFINE r == Stored(q, u)
<1>1. /\ q.left \in Nat /\ q.offload \in BOOLEAN
      /\ q.file \in Seq(Bytes) /\ q.stage \in Seq(STRING)
    BY ParserTypes
<1>2. /\ q.left - 1 \in Nat /\ Append(q.stage, u.text) \in Seq(STRING)
      /\ Overwrite(q.file, place, u.text) \in Seq(Bytes)
    <2>1. u.text \in Bytes
        BY DEF Bytes
    <2>2. Overwrite(q.file, place, u.text) \in Seq(Bytes)
        BY <1>1, <2>1, OverwriteTyped, Zenon
    <2>. QED
        BY <1>1, <2>2
<1>3. CASE q.offload
    <2>1. r = [q EXCEPT !.left = q.left - 1, !.file = Overwrite(q.file, place, u.text)]
        BY <1>3 DEF Stored, Parser
    <2> HIDE DEF r
    <2>. QED
        BY <1>2, <1>3, <2>1 DEF Parser, OneByte, r
<1>4. CASE ~q.offload
    <2>1. r = [q EXCEPT !.left = q.left - 1, !.stage = Append(q.stage, u.text)]
        BY <1>4 DEF Stored, Parser
    <2> HIDE DEF r
    <2>. QED
        BY <1>2, <1>4, <2>1 DEF Parser, OneByte, r
<1>. QED
    BY <1>1, <1>3, <1>4

(* The first bytes of a body and the next one.                             *)
LEMMA OneMore ==
    ASSUME NEW b \in Seq(STRING), NEW left \in 1 .. Len(b)
    PROVE  /\ Len(b) \in Nat /\ b[Len(b) - left + 1] \in STRING
           /\ Append(SubSeq(b, 1, Len(b) - left), b[Len(b) - left + 1]) =
                 SubSeq(b, 1, Len(b) - (left - 1))
           /\ SubSeq(b, 1, Len(b)) = b
<1> DEFINE m == Len(b) - left
<1>1. /\ Len(b) \in Nat /\ m \in 0 .. Len(b) - 1 /\ m + 1 \in 1 .. Len(b)
      /\ Len(b) - (left - 1) = m + 1 /\ Len(b) - left + 1 = m + 1
    OBVIOUS
<1> HIDE DEF m
<1>2. b[m + 1] \in STRING
    BY <1>1
<1>3. Append(SubSeq(b, 1, m), b[m + 1]) = SubSeq(b, 1, m + 1)
    BY <1>1
<1>4. SubSeq(b, 1, Len(b)) = b
    BY <1>1
<1>. QED
    BY <1>1, <1>2, <1>3, <1>4 DEF m

(* A byte of the body.                                                     *)
LEMMA OnDataParsed ==
    ASSUME setting \in Settings, NEW k \in Nat, k + 1 <= Len(All), NEW u, u = All[k + 1],
           NEW q, Parsed(q, k), q.err = "none", ~q.paused, q.at = "data"
    PROVE  Parsed(OnData(q, u), k + 1)
<1> DEFINE n == Len(setting.stream)
           b == Request(q.cur).body
           at == Upto(q.cur - 1)
           lead == Lead(q.cur)
           next == Stored(q, u)
           r == OnData(q, u)
<1>1. /\ q \in Parser /\ Known(q) /\ Turn(q) /\ Place(q, k) /\ q.cur <= n
      /\ q.hdr /\ ~q.done /\ Begun(q) /\ q.cur >= 1
    BY DEF Parsed, Known, Begun
<1>2. n \in Nat /\ q.cur \in 1 .. n /\ Row(q.cur)
    <2>1. n \in Nat /\ q.cur \in Nat
        BY <1>1, Streams, ParserTypes
    <2>2. q.cur \in 1 .. n
        BY <1>1, <2>1
    <2>. QED
        BY <2>1, <2>2, Rows
<1>3. /\ b \in Seq(STRING) /\ Request(q.cur).coding \in {"none", "length", "chunked"}
    BY <1>2, Streams
<1>4. /\ q.left \in 1 .. Len(b) /\ k + q.left = at + lead + Len(b)
      /\ Kept(q, SubSeq(b, 1, Len(b) - q.left)) /\ (q.offload => q.stage = <<>>)
      /\ q.offload => Request(q.cur).coding # "chunked"
      /\ q.foreign => q.offload /\ setting.shared
    BY <1>1 DEF Place
<1>5. u.text = b[Len(b) - q.left + 1]
    <2>1. Expected(q, k)
        BY <1>1, NextUnit
    <2>2. u = Unit(q.cur, "data", b[Len(b) - q.left + 1])
        BY <2>1 DEF Expected
    <2>. QED
        BY <2>2 DEF Unit
<1>6. /\ Len(b) \in Nat /\ u.text \in STRING
      /\ Append(SubSeq(b, 1, Len(b) - q.left), u.text) = SubSeq(b, 1, Len(b) - (q.left - 1))
      /\ SubSeq(b, 1, Len(b)) = b
    <2> HIDE DEF b
    <2>. QED
        BY <1>3, <1>4, <1>5, OneMore
<1>7. at \in Nat /\ lead \in {2, 3}
    BY <1>2 DEF Row, Lead
<1>8. IF Request(q.cur).coding = "chunked"
      THEN lead = 3 /\ (b # <<>> => Upto(q.cur) = at + 4 + Len(b))
      ELSE lead = 2 /\ Upto(q.cur) = at + 2 + Len(b)
    BY <1>2 DEF Row, Lead
<1>9. q.left \in 1 .. Len(b) /\ k + q.left = at + lead + Len(b)
    BY <1>4
<1>10. r = IF q.offload /\ setting.disk = "write fails" THEN [q EXCEPT !.err = "BadRequest"]
           ELSE IF q.left > 1 THEN next
           ELSE IF Request(q.cur).coding = "chunked" THEN [next EXCEPT !.at = "chunk"]
           ELSE Complete(next)
    BY DEF OnData, Stored
<1> HIDE DEF n, b, at, lead, next, r
<1>11. /\ next \in Parser /\ next.cur = q.cur /\ next.at = "data" /\ next.url = q.url
       /\ next.hdr /\ ~next.done /\ next.left = q.left - 1
       /\ next.offload = q.offload /\ next.err = "none" /\ ~next.paused
       /\ Kept(next, SubSeq(b, 1, Len(b) - (q.left - 1)))
       /\ (next.offload => next.stage = <<>>)
       /\ (next.foreign => next.offload /\ setting.shared)
       /\ (next.offload => Request(q.cur).coding # "chunked")
    <2> DEFINE m == Len(b) - q.left
    <2>1. /\ q.left >= 1 /\ u.text \in STRING /\ m \in Nat /\ m < Len(b) /\ m + 1 \in Nat
          /\ m + 1 >= 1 /\ Len(b) - (q.left - 1) = m + 1 /\ m + 1 = Len(b) - q.left + 1
        <3>1. Len(b) \in Nat /\ u.text \in STRING
            BY <1>6
        <3>. QED
            BY <1>9, <3>1
    <2>2. OneByte(next, q, m + 1, u.text)
        BY <1>1, <2>1, DataFields, Zenon DEF next, b
    <2>3. Kept(next, SubSeq(b, 1, m + 1))
        <3>1. CASE q.offload
            <4>1. Overwrite(Over(SubSeq(b, 1, m), setting.old), m + 1, u.text) =
                      Over(SubSeq(b, 1, m + 1), setting.old)
                <5>1. u.text = b[m + 1] /\ setting.old \in Seq(STRING)
                    BY <1>5, <2>1, Streams DEF b
                <5>. QED
                    BY <1>3, <2>1, <5>1, OverwriteOne DEF b
            <4>2. next.file = Overwrite(q.file, m + 1, u.text) /\ next.offload
                  /\ next.foreign = q.foreign
                BY <2>2, <3>1 DEF OneByte
            <4>3. q.foreign \/ q.file = Over(SubSeq(b, 1, m), setting.old)
                BY <1>4, <3>1 DEF Kept
            <4>. QED
                BY <4>1, <4>2, <4>3 DEF Kept
        <3>2. CASE ~q.offload
            <4>1. next.stage = Append(q.stage, u.text) /\ ~next.offload
                BY <2>2, <3>2 DEF OneByte
            <4>2. q.stage = SubSeq(b, 1, m)
                BY <1>4, <3>2 DEF Kept
            <4>. QED
                BY <1>6, <2>1, <4>1, <4>2 DEF Kept
        <3>. QED
            BY <3>1, <3>2
    <2> HIDE DEF m
    <2>. QED
        BY <1>1, <1>4, <2>1, <2>2, <2>3 DEF OneByte
<1>12. /\ q.left \in Nat /\ q.left >= 1 /\ q.left <= Len(b) /\ Len(b) \in Nat
       /\ at \in Nat /\ lead \in Nat /\ k + q.left = at + lead + Len(b)
    <2>1. Len(b) \in Nat
        BY <1>6
    <2>. QED
        BY <1>7, <1>9, <2>1
<1>13. CASE r = [q EXCEPT !.err = "BadRequest"]
    <2>1. k + 1 \in Nat /\ "BadRequest" \in Errors \ {"none"}
        BY DEF Errors
    <2>. QED
        BY <1>13, <2>1, ErrorParsed DEF r
<1>14. CASE q.left > 1 /\ r = next
    <2>1. Known(r)
        BY <1>1, <1>11, <1>14 DEF Known, Begun, n
    <2>2. Turn(r)
        BY <1>1, <1>11, <1>14, SameTurn DEF Begun
    <2>3. r.left \in 1 .. Len(b) /\ (k + 1) + r.left = at + lead + Len(b)
        <3>1. r.left = q.left - 1 /\ q.left > 1
            BY <1>14, <1>11
        <3>. QED
            BY <1>12, <3>1
    <2>4. Kept(r, SubSeq(b, 1, Len(b) - r.left))
        BY <1>11, <1>14
    <2>5. Place(r, k + 1)
        BY <1>11, <1>14, <2>3, <2>4 DEF Place, b, at, lead
    <2>. QED
        BY <1>11, <1>14, <2>1, <2>2, <2>5 DEF Parsed, r
<1>15. ASSUME q.left = 1 PROVE Kept(next, b) /\ b # <<>> /\ next.left = 0
    <2>1. Len(b) - (q.left - 1) = Len(b) /\ q.left - 1 = 0 /\ Len(b) # 0
        BY <1>15, <1>12
    <2>2. Kept(next, b)
        BY <1>6, <1>11, <2>1
    <2>3. b # <<>>
        BY <2>1
    <2>. QED
        BY <1>11, <2>1, <2>2, <2>3
<1>16. CASE /\ q.left = 1 /\ Request(q.cur).coding = "chunked"
            /\ r = [next EXCEPT !.at = "chunk"]
    <2>1. /\ r \in Parser /\ r.cur = q.cur /\ r.at = "chunk" /\ r.url = q.url
          /\ r.hdr /\ ~r.done /\ r.left = 0 /\ r.offload = q.offload /\ r.err = "none"
          /\ ~r.paused /\ r.foreign = next.foreign /\ r.stage = next.stage
        BY <1>11, <1>15, <1>16 DEF Parser
    <2>2. Known(r)
        BY <1>1, <2>1 DEF Known, Begun, n
    <2>3. Turn(r)
        BY <1>1, <2>1, SameTurn DEF Begun
    <2>4. r.stage = b /\ b # <<>> /\ ~r.offload
        <3>1. ~next.offload
            BY <1>11, <1>16
        <3>. QED
            BY <1>11, <1>15, <1>16, <2>1, <3>1 DEF Kept
    <2>5. k + 1 = Upto(q.cur) - 1
        <3>1. lead = 3 /\ Upto(q.cur) = at + 4 + Len(b) /\ q.left = 1
            BY <1>8, <1>15, <1>16
        <3>. QED
            BY <1>12, <3>1
    <2>6. Place(r, k + 1)
        BY <1>11, <1>16, <2>1, <2>4, <2>5 DEF Place, b
    <2>. QED
        BY <2>1, <2>2, <2>3, <2>6 DEF Parsed, r
<1>17. CASE q.left = 1 /\ Request(q.cur).coding # "chunked" /\ r = Complete(next)
    <2>1. Turn(next)
        BY <1>1, <1>11, SameTurn DEF Begun
    <2>2. Upto(q.cur) <= k + 1 /\ k + 1 \in Nat
        <3>1. lead = 2 /\ Upto(q.cur) = at + 2 + Len(b) /\ q.left = 1
            BY <1>8, <1>17
        <3>. QED
            BY <1>12, <3>1
    <2>3. Kept(next, Request(next.cur).body)
        BY <1>11, <1>15, <1>17 DEF b
    <2>4. Parsed(Complete(next), k + 1)
        BY <1>2, <1>11, <2>1, <2>2, <2>3, CompleteParsed DEF n
    <2>. QED
        BY <1>17, <2>4 DEF r
<1>18. ~ (q.left > 1) => q.left = 1
    BY <1>12
<1>. QED
    BY <1>10, <1>13, <1>14, <1>16, <1>17, <1>18 DEF r

(* The size of a chunk.                                                    *)
LEMMA OnSizeParsed ==
    ASSUME setting \in Settings, NEW k \in Nat, k + 1 <= Len(All), NEW u, u = All[k + 1],
           NEW q, Parsed(q, k), q.err = "none", q.at = "chunk", u.part = "size",
           NEW r, r = [q EXCEPT !.at = "data", !.left = Len(Request(q.cur).body)]
    PROVE  Parsed(r, k + 1)
<1> DEFINE n == Len(setting.stream)
           b == Request(q.cur).body
           at == Upto(q.cur - 1)
<1>1. /\ q \in Parser /\ Known(q) /\ Turn(q) /\ Place(q, k) /\ q.cur <= n
      /\ q.hdr /\ ~q.done /\ Begun(q) /\ q.cur >= 1 /\ ~q.paused
    BY DEF Parsed, Known, Begun
<1>2. n \in Nat /\ q.cur \in 1 .. n /\ Row(q.cur)
    <2>1. n \in Nat /\ q.cur \in Nat
        BY <1>1, Streams, ParserTypes
    <2>2. q.cur \in 1 .. n
        BY <1>1, <2>1
    <2>. QED
        BY <2>1, <2>2, Rows
<1>3. b \in Seq(STRING) /\ Len(b) \in Nat /\ at \in Nat
    BY <1>2, Streams DEF Row
<1>4. q.stage = <<>> /\ b # <<>>
    <2>1. Expected(q, k)
        BY <1>1, NextUnit
    <2>2. u.part = "last" \/ (q.stage = <<>> /\ b # <<>>)
        BY <2>1 DEF Expected, Unit
    <2>. QED
        BY <2>2
<1>5. /\ Request(q.cur).coding = "chunked" /\ k = at + 2 /\ ~q.offload
      /\ q.foreign => q.offload
    BY <1>1, <1>4 DEF Place
<1>6. Lead(q.cur) = 3 /\ Len(b) \in 1 .. Len(b)
    BY <1>3, <1>4, <1>5 DEF Lead
<1> HIDE DEF n, b, at
<1>7. /\ r \in Parser /\ r.cur = q.cur /\ r.at = "data" /\ r.url = q.url /\ r.left = Len(b)
      /\ r.hdr /\ ~r.done /\ r.offload = q.offload /\ r.stage = q.stage
      /\ r.foreign = q.foreign /\ r.err = "none" /\ ~r.paused
    BY <1>1, <1>3 DEF Parser, b
<1>8. Known(r)
    BY <1>1, <1>7 DEF Known, Begun, n
<1>9. Turn(r)
    BY <1>1, <1>7, SameTurn DEF Begun
<1>10. Kept(r, SubSeq(b, 1, Len(b) - r.left))
    <2>1. Kept(r, <<>>)
        BY <1>4, <1>5, <1>7 DEF Kept
    <2>2. Len(b) - r.left = 0 /\ SubSeq(b, 1, 0) = <<>>
        BY <1>3, <1>7
    <2>. QED
        BY <1>4, <2>1, <2>2
<1>11. (k + 1) + Len(b) = at + 3 + Len(b)
    BY <1>3, <1>5
<1>12. Place(r, k + 1)
    BY <1>5, <1>6, <1>7, <1>10, <1>11 DEF Place, b, at
<1>. QED
    BY <1>7, <1>8, <1>9, <1>12 DEF Parsed

(* The end of the chunks.                                                  *)
LEMMA OnLastParsed ==
    ASSUME setting \in Settings, NEW k \in Nat, k + 1 <= Len(All), NEW u, u = All[k + 1],
           NEW q, Parsed(q, k), q.err = "none", q.at = "chunk", u.part = "last"
    PROVE  Parsed(Complete(q), k + 1)
<1> DEFINE n == Len(setting.stream)
           b == Request(q.cur).body
<1>1. /\ q \in Parser /\ Known(q) /\ Turn(q) /\ Place(q, k) /\ q.cur <= n
      /\ q.hdr /\ Begun(q) /\ q.cur >= 1
    BY DEF Parsed, Known, Begun
<1>2. n \in Nat /\ q.cur \in 1 .. n /\ Row(q.cur)
    <2>1. n \in Nat /\ q.cur \in Nat
        BY <1>1, Streams, ParserTypes
    <2>2. q.cur \in 1 .. n
        BY <1>1, <2>1
    <2>. QED
        BY <2>1, <2>2, Rows
<1>3. k + 1 = Upto(q.cur) /\ Upto(q.cur) \in Nat /\ ~ (q.stage = <<>> /\ b # <<>>)
    <2>1. Expected(q, k)
        BY <1>1, NextUnit
    <2>. QED
        BY <1>2, <2>1 DEF Expected, Unit, Row
<1>4. /\ Kept(q, b) /\ (q.offload => q.stage = <<>>)
      /\ q.foreign => q.offload /\ setting.shared
    BY <1>1, <1>3 DEF Place, Kept
<1>5. Upto(q.cur) <= k + 1 /\ k + 1 \in Nat
    BY <1>3
<1>. QED
    BY <1>1, <1>2, <1>4, <1>5, CompleteParsed

(* A parser that has failed, or that is paused, takes no notice.           *)
LEMMA IdleParsed ==
    ASSUME setting \in Settings, NEW k \in Nat, NEW q, Parsed(q, k), q.err # "none" \/ q.paused
    PROVE  Parsed(q, k + 1)
<1>1. q \in Parser /\ Known(q) /\ Turn(q) /\ (q.err = "none" => Place(q, k))
    BY DEF Parsed, Known
<1>2. ASSUME q.err = "none" PROVE Place(q, k + 1)
    <2>1. Place(q, k) /\ q.at = "line"
        BY <1>1, <1>2 DEF Known
    <2>2. q.cur \in Nat /\ Len(setting.stream) \in Nat /\ q.cur <= Len(setting.stream)
        BY <1>1, Streams, ParserTypes DEF Known
    <2>3. Upto(q.cur) \in Nat /\ Upto(q.cur) <= k
        BY <2>1, <2>2, Rows DEF Place
    <2>4. Upto(q.cur) <= k + 1
        BY <2>3
    <2>. QED
        BY <2>1, <2>4 DEF Place
<1>. QED
    BY <1>1, <1>2 DEF Parsed

(* One unit.                                                               *)
LEMMA FeedUnitParsed ==
    ASSUME setting \in Settings, LastReq \in Nat, Len(answers) \in Nat,
           NEW k \in Nat, k + 1 <= Len(All), NEW u, u = All[k + 1],
           setting.pipelined \/ u.req <= Len(answers) + 1,
           NEW q, Parsed(q, k)
    PROVE  Parsed(FeedUnit(q, u), k + 1)
<1>1. CASE q.err # "none" \/ q.paused
    <2>1. FeedUnit(q, u) = q
        BY <1>1 DEF FeedUnit
    <2>. QED
        BY <1>1, <2>1, IdleParsed
<1>2. CASE q.err = "none" /\ ~q.paused /\ u.part = "line" /\ q.at = "line"
    <2>1. FeedUnit(q, u) = OnLine(q, u)
        BY <1>2 DEF FeedUnit
    <2>. QED
        BY <1>2, <2>1, OnLineParsed
<1>3. CASE q.err = "none" /\ ~q.paused /\ u.part = "head" /\ q.at = "head"
    <2>1. FeedUnit(q, u) = OnHead(q)
        BY <1>3 DEF FeedUnit
    <2>. QED
        BY <1>3, <2>1, OnHeadParsed
<1>4. CASE q.err = "none" /\ ~q.paused /\ u.part = "data" /\ q.at = "data"
    <2>1. FeedUnit(q, u) = OnData(q, u)
        BY <1>4 DEF FeedUnit
    <2>. QED
        BY <1>4, <2>1, OnDataParsed
<1>5. CASE q.err = "none" /\ ~q.paused /\ u.part = "size" /\ q.at = "chunk"
    <2>1. FeedUnit(q, u) = [q EXCEPT !.at = "data", !.left = Len(Request(q.cur).body)]
        BY <1>5 DEF FeedUnit
    <2>. QED
        BY <1>5, <2>1, OnSizeParsed
<1>6. CASE q.err = "none" /\ ~q.paused /\ u.part = "last" /\ q.at = "chunk"
    <2>1. FeedUnit(q, u) = Complete(q)
        BY <1>6 DEF FeedUnit
    <2>. QED
        BY <1>6, <2>1, OnLastParsed
<1>7. CASE FeedUnit(q, u) = [q EXCEPT !.err = "BadRequest"]
    <2>1. k + 1 \in Nat /\ "BadRequest" \in Errors \ {"none"}
        BY DEF Errors
    <2>. QED
        BY <1>7, <2>1, ErrorParsed
<1>8. \/ q.err # "none" \/ q.paused
      \/ u.part = "line" /\ q.at = "line"
      \/ u.part = "head" /\ q.at = "head"
      \/ u.part = "data" /\ q.at = "data"
      \/ u.part = "size" /\ q.at = "chunk"
      \/ u.part = "last" /\ q.at = "chunk"
      \/ FeedUnit(q, u) = [q EXCEPT !.err = "BadRequest"]
    BY DEF FeedUnit
<1>. QED
    BY <1>1, <1>2, <1>3, <1>4, <1>5, <1>6, <1>7, <1>8

(* The parser is resumed.                                                  *)
LEMMA ResumedParsed ==
    ASSUME NEW q, NEW k, Parsed(q, k), NEW r, r = [q EXCEPT !.paused = FALSE]
    PROVE  Parsed(r, k) /\ ~r.paused /\ r \in Parser /\ r.hdr = q.hdr
<1>1. q \in Parser
    BY DEF Parsed, Known
<1>2. /\ r \in Parser /\ r.cur = q.cur /\ r.at = q.at /\ r.url = q.url /\ r.stage = q.stage
      /\ r.hdr = q.hdr /\ r.done = q.done /\ r.left = q.left /\ r.offload = q.offload
      /\ r.file = q.file /\ r.foreign = q.foreign /\ r.err = q.err /\ ~r.paused
    BY <1>1 DEF Parser
<1>3. Known(r)
    BY <1>2 DEF Parsed, Known, Begun
<1>4. Turn(r)
    BY <1>2 DEF Parsed, Turn, Begun, UrlOf
<1>5. Place(q, k) => Place(r, k)
    BY <1>2 DEF Place, Kept
<1>. QED
    BY <1>2, <1>3, <1>4, <1>5 DEF Parsed

(* Only a line makes the parser forget the headers.                        *)
LEMMA KeepsHeaders ==
    ASSUME NEW q \in Parser, q.hdr, NEW u, u.part # "line"
    PROVE  FeedUnit(q, u).hdr
<1>1. \A p \in Parser : p.hdr => Complete(p).hdr
    BY DEF Complete, Parser
<1>2. u.part = "head" => OnHead(q).hdr
    <2>1. [q EXCEPT !.hdr = TRUE] \in Parser /\ [q EXCEPT !.hdr = TRUE].hdr
        BY DEF Parser
    <2>2. Complete([q EXCEPT !.hdr = TRUE]).hdr
        BY <1>1, <2>1
    <2>. QED
        BY <2>2 DEF OnHead, Parser
<1>3. OnData(q, u).hdr
    <2> DEFINE next == Stored(q, u)
    <2>1. next.hdr /\ Complete(next).hdr /\ [next EXCEPT !.at = "chunk"].hdr
        BY DEF Complete, Parser, Stored
    <2>2. [q EXCEPT !.err = "BadRequest"].hdr
        BY DEF Parser
    <2>3. \/ OnData(q, u) = [q EXCEPT !.err = "BadRequest"]
          \/ OnData(q, u) = next \/ OnData(q, u) = Complete(next)
          \/ OnData(q, u) = [next EXCEPT !.at = "chunk"]
        BY DEF OnData, Stored
    <2> HIDE DEF next
    <2>. QED
        BY <2>1, <2>2, <2>3
<1>4. /\ [q EXCEPT !.at = "data", !.left = Len(Request(q.cur).body)].hdr
      /\ [q EXCEPT !.err = "BadRequest"].hdr
    BY DEF Parser
<1>5. \/ FeedUnit(q, u) \in {q, OnData(q, u), Complete(q), [q EXCEPT !.err = "BadRequest"],
                           [q EXCEPT !.at = "data", !.left = Len(Request(q.cur).body)]}
      \/ u.part = "head" /\ FeedUnit(q, u) = OnHead(q)
    BY DEF FeedUnit
<1>. QED
    BY <1>1, <1>2, <1>3, <1>4, <1>5

(* One read, whatever it holds.                                            *)
LEMMA FeedParsed ==
    ASSUME setting \in Settings, LastReq \in Nat, Len(answers) \in Nat, fed \in Nat,
           NEW q, Parsed(q, fed), NEW k \in Nat, fed + k \in Sent
    PROVE  /\ Parsed(Feed(q, Coming(k)), fed + k) /\ ~Feed(q, Coming(k)).paused
           /\ Feed(q, Coming(k)) \in Parser /\ fed + k \in 0 .. Len(All)
           /\ q.hdr /\ (\A j \in 1 .. k : All[fed + j].part # "line") =>
                 Feed(q, Coming(k)).hdr
<1> DEFINE s == Coming(k)
<1>1. All \in Seq(UnitType) /\ Len(All) \in Nat
    BY Rows
<1>2. /\ fed + k \in fed + 1 .. Len(All)
      /\ setting.pipelined \/ All[fed + k].req <= Len(answers) + 1
    BY DEF Sent, All
<1>3. /\ Len(s) = k /\ Len(s) \in Nat /\ \A j \in 1 .. k : s[j] = All[fed + j]
    <2>1. s = SubSeq(All, fed + 1, fed + k)
        BY DEF Coming, All
    <2>2. /\ fed + 1 \in 1 .. Len(All) + 1 /\ fed + k \in (fed + 1) - 1 .. Len(All)
          /\ (fed + k) - (fed + 1) + 1 = k
        BY <1>1, <1>2
    <2>3. ASSUME NEW a, NEW b, a = fed + 1, b = fed + k
          PROVE  /\ Len(SubSeq(All, a, b)) = k
                 /\ \A j \in 1 .. k : SubSeq(All, a, b)[j] = All[fed + j]
        BY <1>1, <1>2, <2>3
    <2>. QED
        BY <2>1, <2>3
<1>4. \A j \in 1 .. k : setting.pipelined \/ All[fed + j].req <= Len(answers) + 1
    <2> TAKE j \in 1 .. k
    <2>1. fed + j \in 1 .. Len(All) /\ fed + k \in 1 .. Len(All) /\ fed + j <= fed + k
        BY <1>1, <1>2
    <2>2. All[fed + j].req <= All[fed + k].req
        BY <2>1, Sorted
    <2>3. All[fed + j].req \in Nat /\ All[fed + k].req \in Nat
        <3>1. All[fed + j] \in UnitType /\ All[fed + k] \in UnitType
            BY <1>1, <2>1
        <3>. QED
            BY <3>1 DEF UnitType
    <2>. QED
        BY <1>2, <2>2, <2>3
<1> HIDE DEF s
<1>5. PICK run : /\ run[0] = q
                 /\ \A j \in 1 .. Len(s) : run[j] = FeedUnit(run[j - 1], s[j])
                 /\ Feed(q, s) = [run[Len(s)] EXCEPT !.paused = FALSE]
    BY <1>3, FeedSteps, Zenon
<1> DEFINE heads == q.hdr /\ \A j \in 1 .. k : All[fed + j].part # "line"
           T == {j \in Nat : j <= k => Parsed(run[j], fed + j) /\ (heads => run[j].hdr)}
<1>6. 0 \in T
    BY <1>5
<1>7. ASSUME NEW j \in T PROVE j + 1 \in T
    <2>1. j \in Nat /\ j + 1 \in Nat
        BY <1>7
    <2>2. SUFFICES ASSUME j + 1 <= k
                   PROVE  /\ Parsed(run[j + 1], fed + (j + 1))
                          /\ heads => run[j + 1].hdr
        BY <2>1
    <2>3. /\ j + 1 \in 1 .. k /\ (j + 1) - 1 = j /\ fed + (j + 1) = (fed + j) + 1
          /\ fed + j \in Nat /\ (fed + j) + 1 <= Len(All)
        BY <1>1, <1>2, <2>1, <2>2
    <2>4. Parsed(run[j], fed + j) /\ (heads => run[j].hdr)
        <3>1. j <= k
            BY <2>1, <2>2
        <3> HIDE DEF heads
        <3>. QED
            BY <1>7, <3>1
    <2>5. run[j + 1] = FeedUnit(run[j], s[j + 1]) /\ s[j + 1] = All[(fed + j) + 1]
        <3>1. run[j + 1] = FeedUnit(run[(j + 1) - 1], s[j + 1])
            BY <1>3, <1>5, <2>3, Zenon
        <3>2. s[j + 1] = All[fed + (j + 1)]
            BY <1>3, <2>3, Zenon
        <3>. QED
            BY <2>3, <3>1, <3>2, Zenon
    <2>6. setting.pipelined \/ s[j + 1].req <= Len(answers) + 1
        BY <1>3, <1>4, <2>3
    <2>7. Parsed(FeedUnit(run[j], s[j + 1]), (fed + j) + 1)
        BY <2>3, <2>4, <2>5, <2>6, FeedUnitParsed
    <2>8. ASSUME heads PROVE run[j + 1].hdr
        <3>1. run[j].hdr /\ run[j] \in Parser
            BY <2>4, <2>8 DEF Parsed, Known
        <3>2. s[j + 1].part # "line"
            BY <1>3, <2>3, <2>8
        <3>. QED
            BY <2>5, <3>1, <3>2, KeepsHeaders
    <2>. QED
        BY <2>3, <2>5, <2>7, <2>8
<1>8. k \in T
    <2>1. T \in SUBSET Nat
        OBVIOUS
    <2> HIDE DEF T
    <2>. QED
        BY <1>6, <1>7, <2>1, AllNats
<1>9. Parsed(run[k], fed + k) /\ (heads => run[k].hdr)
    BY <1>8
<1>10. fed + k \in 0 .. Len(All)
    BY <1>1, <1>2
<1>. QED
    BY <1>3, <1>5, <1>9, <1>10, ResumedParsed DEF s

----------------------------------------------------------------------------
(* The connection                                                          *)

(* What is parsed stays so while neither the connection's settings nor its *)
(* answers change.                                                         *)
LEMMA ParsedKept ==
    ASSUME UNCHANGED <<setting, answers>>, NEW q, NEW k, Parsed(q, k), req' = q, fed' = k
    PROVE  Parsed(req, fed)'
<1>1. \A i : Request(i)' = Request(i) /\ Upto(i)' = Upto(i) /\ Lead(i)' = Lead(i)
    BY DEF Request, Upto, Lead
<1>2. LastReq' = LastReq /\ Begun(req)' = Begun(q)
    BY DEF LastReq, Begun
<1>3. Known(req)'
    BY <1>2 DEF Parsed, Known
<1>4. UrlOf(q) => UrlOf(req)'
    BY <1>1 DEF UrlOf
<1>5. Turn(req)'
    BY <1>2, <1>4 DEF Parsed, Turn
<1>6. Place(q, k) => Place(req, fed)'
    BY <1>1 DEF Place, Kept
<1>. QED
    BY <1>3, <1>5, <1>6 DEF Parsed

(* The answers so far are numbered.                                        *)
LEMMA AnswerTypes ==
    ASSUME Types
    PROVE  LastReq \in Nat /\ Len(answers) \in Nat /\ fed \in Nat /\ Len(All) \in Nat
<1>1. setting \in Settings /\ answers \in Seq(Answers) /\ fed \in 0 .. Len(All)
    BY DEF Types
<1>2. Len(answers) \in Nat /\ \A i \in 1 .. Len(answers) : answers[i].req \in Nat
    <2>1. \A i \in 1 .. Len(answers) : answers[i] \in Answers
        BY <1>1
    <2>. QED
        BY <1>1, <2>1 DEF Answers
<1>3. LastReq \in Nat
    BY <1>1, <1>2 DEF LastReq
<1>4. Len(All) \in Nat
    BY <1>1, Rows
<1>5. fed \in Nat
    BY <1>1, <1>4
<1>. QED
    BY <1>2, <1>3, <1>4, <1>5

(* A connection that is ended only keeps its types and its answers.        *)
LEMMA EndsIInv ==
    ASSUME IInv, phase \notin Ended \ {"upgraded"}, UNCHANGED <<setting, fed, req, resp, answers>>,
           phase' \in Ended, phase' = "spins" => Request(req.cur).coding = "chunked"
    PROVE  IInv'
<1>1. Types'
    <2>1. Len(All)' = Len(All)
        BY DEF All
    <2>. QED
        BY <2>1 DEF IInv, Types
<1>2. Phases'
    BY DEF Phases, Ended, Request
<1>3. phase # "upgraded" => \A i \in DOMAIN answers : Told(answers[i])
    BY DEF IInv, Answered, Ended
<1>4. Answered'
    BY <1>3 DEF IInv, Answered, FramingKept, Told, Ended
<1>. QED
    BY <1>1, <1>2, <1>4 DEF IInv

(* There is no response yet.                                               *)
LEMMA NoResponseTyped == NoResponse \in Outcomes /\ ~NoResponse.err
<1>1. 0 \in Nat
    OBVIOUS
<1>. QED
    BY <1>1 DEF NoResponse, Outcomes, Responses, Sound, Statuses

(* The answers to requests that cannot be read.                            *)
LEMMA RefuseOutcome ==
    ASSUME NEW e \in Errors \ {"none"}, Refuse(e)
    PROVE  phase' = "send" /\ resp' \in Outcomes /\ resp'.err
<1>1. PICK body \in 0 .. 1 : resp' = Failure(e, body) /\ phase' = "send"
    BY DEF Refuse
<1>2. body \in Nat /\ e \in Statuses /\ e # "SwitchingProtocols"
    BY DEF Errors, Statuses
<1>3. NoResponse \in Responses /\ NoResponse.chunks = 0 /\ NoResponse.size = 0
    BY NoResponseTyped DEF Outcomes, NoResponse
<1>4. resp' = [NoResponse EXCEPT !.status = e, !.body = body, !.err = TRUE]
    BY <1>1 DEF Failure
<1>5. /\ resp' \in Responses /\ resp'.chunks = 0 /\ resp'.size = 0 /\ resp'.err
      /\ resp'.status = e
    BY <1>2, <1>3, <1>4 DEF Responses
<1>6. Sound(resp')
    BY <1>2, <1>5 DEF Sound
<1>. QED
    BY <1>1, <1>5, <1>6 DEF Outcomes

(* A connection that goes on reading or has something to handle or to      *)
(* send.                                                                   *)
LEMMA GoesOn ==
    ASSUME IInv, phase \notin Ended, UNCHANGED <<setting, answers>>,
           fed' \in 0 .. Len(All), req' \in Parser, Parsed(req, fed)',
           resp' \in Outcomes,
           phase' \in {"headers", "body", "handle", "fill", "send"}, Phases'
    PROVE  IInv'
<1>1. Types'
    <2>1. Len(All)' = Len(All)
        BY DEF All
    <2>. QED
        BY <2>1 DEF IInv, Types, Parsed, Known
<1>2. LastReq' = LastReq
    BY DEF LastReq
<1>3. Answered'
    <2>1. (\A i \in DOMAIN answers : Told(answers[i]))' /\ FramingKept'
        BY DEF IInv, Answered, FramingKept, Told, Ended
    <2>. QED
        BY <1>2, <2>1 DEF IInv, Answered
<1>. QED
    BY <1>1, <1>3 DEF IInv

(* The connection starts with nothing read.                                *)
LEMMA InitIInv ==
    ASSUME Init
    PROVE  IInv
<1>1. /\ setting \in Settings /\ fed = 0 /\ req = NewRequest /\ resp = NoResponse
      /\ answers = <<>> /\ phase \in {"headers", "refused"}
    BY DEF Init
<1>2. Len(setting.stream) \in Nat /\ Upto(0) = 0 /\ Len(All) \in Nat
    BY <1>1, Streams, Rows
<1>3. /\ req \in Parser /\ req.cur = 0 /\ req.at = "line" /\ req.stage = <<>>
      /\ ~req.hdr /\ ~req.done /\ ~req.offload /\ ~req.foreign /\ req.err = "none"
      /\ ~req.paused
    <2>1. <<>> \in Seq(STRING) /\ <<>> \in Seq(Bytes)
        OBVIOUS
    <2>. QED
        BY <1>1, <2>1 DEF NewRequest, Parser, Errors
<1>4. resp \in Outcomes /\ 0 \in 0 .. Len(All)
    <2>1. 0 \in 0 .. Len(All)
        BY <1>2
    <2>. QED
        BY <1>1, <2>1, NoResponseTyped
<1>5. answers \in Seq(Answers) /\ DOMAIN answers = {} /\ LastReq = 0 /\ Len(answers) = 0
    BY <1>1 DEF LastReq
<1>6. Types
    <2>1. phase \in Ended \cup {"headers", "body", "handle", "fill", "send"}
        BY <1>1 DEF Ended
    <2>2. req.cur <= Len(setting.stream)
        BY <1>2, <1>3
    <2>. QED
        BY <1>1, <1>3, <1>4, <1>5, <2>1, <2>2 DEF Types
<1>7. Known(req) /\ Turn(req) /\ Place(req, fed)
    <2>1. req.hdr = req.done /\ 0 <= Len(setting.stream)
        BY <1>1, <1>2 DEF NewRequest
    <2>2. Known(req)
        BY <1>2, <1>3, <2>1 DEF Known, Begun
    <2>3. Turn(req)
        BY <1>3, <1>5 DEF Turn, Begun
    <2>4. Place(req, fed)
        BY <1>1, <1>2, <1>3 DEF Place
    <2>. QED
        BY <2>2, <2>3, <2>4
<1>8. Phases
    BY <1>1, <1>3 DEF Phases
<1>9. Answered
    BY <1>5 DEF Answered, FramingKept
<1>. QED
    BY <1>6, <1>7, <1>8, <1>9 DEF IInv, Parsed

(* A read of the headers.                                                  *)
LEMMA ReceiveHeadersIInv ==
    ASSUME IInv, ReceiveHeaders
    PROVE  IInv'
<1>1. PICK k \in 1 .. HeaderRead :
          /\ fed + k \in Sent /\ fed' = fed + k /\ req' = Feed(req, Coming(k))
          /\ IF Feed(req, Coming(k)).err # "none" THEN Refuse(Feed(req, Coming(k)).err)
             ELSE /\ phase' = IF ~Feed(req, Coming(k)).hdr THEN "headers"
                              ELSE IF Feed(req, Coming(k)).done THEN "handle" ELSE "body"
                  /\ UNCHANGED resp
    BY DEF ReceiveHeaders
<1>2. PICK q : q = Feed(req, Coming(k))
    OBVIOUS
<1>3. k \in Nat /\ setting \in Settings
    BY HttpAssumption DEF IInv, Types
<1>4. Parsed(req, fed) /\ phase = "headers" /\ UNCHANGED <<setting, answers>>
    BY DEF ReceiveHeaders, IInv, Ended
<1>5. Parsed(q, fed + k) /\ ~q.paused /\ q \in Parser /\ fed + k \in 0 .. Len(All)
    <2>1. LastReq \in Nat /\ Len(answers) \in Nat /\ fed \in Nat
        BY AnswerTypes DEF IInv
    <2>. QED
        BY <1>1, <1>2, <1>3, <1>4, <2>1, FeedParsed
<1>6. Parsed(req, fed)'
    <2>1. PICK j : j = fed + k
        OBVIOUS
    <2>. QED
        BY <1>1, <1>2, <1>4, <1>5, <2>1, ParsedKept
<1>7. resp \in Outcomes /\ phase \notin Ended
    BY <1>4 DEF IInv, Types, Ended
<1>8. CASE q.err # "none"
    <2>1. q.err \in Errors \ {"none"}
        BY <1>5, <1>8, ParserTypes
    <2>2. phase' = "send" /\ resp' \in Outcomes /\ resp'.err
        BY <1>1, <1>2, <1>8, <2>1, RefuseOutcome
    <2>3. Phases'
        BY <2>2 DEF Phases
    <2>. QED
        BY <1>1, <1>2, <1>4, <1>5, <1>6, <1>7, <2>2, <2>3, GoesOn
<1>9. CASE q.err = "none"
    <2>1. /\ phase' = IF ~q.hdr THEN "headers" ELSE IF q.done THEN "handle" ELSE "body"
          /\ resp' = resp /\ req' = q
        BY <1>1, <1>2, <1>9
    <2>2. Phases'
        BY <1>5, <1>9, <2>1 DEF Phases
    <2>. QED
        BY <1>1, <1>2, <1>4, <1>5, <1>6, <1>7, <2>1, <2>2, GoesOn
<1>. QED
    BY <1>8, <1>9

(* While a body is read, what is left of it comes next in the stream.      *)
LEMMA BodyAhead ==
    ASSUME IInv, phase = "body"
    PROVE  /\ \A k \in 1 .. req.left :
                 /\ fed + k \in 1 .. Len(All)
                 /\ All[fed + k].req = req.cur /\ All[fed + k].part = "data"
           /\ req.left = 0 => Request(req.cur).coding = "chunked"
<1> DEFINE n == Len(setting.stream)
           b == Request(req.cur).body
           at == Upto(req.cur - 1)
           lead == Lead(req.cur)
           left == req.left
<1>1. /\ setting \in Settings /\ Parsed(req, fed) /\ req.err = "none" /\ req.hdr /\ ~req.done
    BY DEF IInv, Types, Phases, Ended
<1>2. /\ Place(req, fed) /\ req \in Parser /\ req.at \in {"data", "chunk"} /\ req.cur >= 1
      /\ req.cur <= n /\ n \in Nat /\ req.cur \in Nat /\ left \in Nat
    <2>1. Place(req, fed) /\ Known(req) /\ req \in Parser
        BY <1>1 DEF Parsed, Known
    <2>2. req.at \in {"line", "head", "data", "chunk"}
        BY <2>1, ParserTypes
    <2>3. req.at \in {"data", "chunk"} /\ req.cur >= 1 /\ req.cur <= n
        BY <1>1, <2>1, <2>2 DEF Known, Begun
    <2>. QED
        BY <1>1, <2>1, <2>3, Streams, ParserTypes
<1>3. req.cur \in 1 .. n
    BY <1>2
<1>4. /\ Row(req.cur) /\ Len(All) \in Nat /\ at \in Nat /\ Upto(req.cur) \in Nat
      /\ Upto(req.cur) <= Len(All) /\ Len(b) \in Nat /\ lead \in {2, 3}
      /\ b \in Seq(STRING)
    BY <1>1, <1>3, Rows, Streams DEF Row, Lead
<1>5. CASE req.at = "chunk"
    BY <1>2, <1>5 DEF Place
<1>6. CASE req.at = "data"
    <2>1. left \in 1 .. Len(b) /\ fed + left = at + lead + Len(b)
        BY <1>2, <1>6 DEF Place
    <2>2. /\ at + lead + Len(b) <= Upto(req.cur)
          /\ \A m \in 1 .. Len(b) : All[at + lead + m] = Unit(req.cur, "data", b[m])
        <3>1. b # <<>>
            BY <1>4, <2>1
        <3>2. CASE Request(req.cur).coding = "chunked"
            <4>1. lead = 3 /\ Upto(req.cur) = at + 4 + Len(b)
                BY <1>4, <3>1, <3>2 DEF Row, Lead
            <4>2. at + lead + Len(b) <= Upto(req.cur)
                BY <1>4, <4>1
            <4>. QED
                BY <1>4, <4>2 DEF Row
        <3>3. CASE Request(req.cur).coding # "chunked"
            <4>1. lead = 2 /\ Upto(req.cur) = at + 2 + Len(b)
                BY <1>4, <3>3 DEF Row, Lead
            <4>2. at + lead + Len(b) <= Upto(req.cur)
                BY <1>4, <4>1
            <4>. QED
                BY <1>4, <4>2 DEF Row
        <3>. QED
            BY <3>2, <3>3
    <2>3. /\ fed \in Nat /\ left \in Nat /\ at \in Nat /\ lead \in Nat /\ Len(b) \in Nat
          /\ Upto(req.cur) \in Nat /\ Upto(req.cur) <= Len(All) /\ Len(All) \in Nat
        BY <1>2, <1>4, AnswerTypes DEF IInv
    <2> HIDE DEF at, lead, b, left
    <2>4. ASSUME NEW k \in 1 .. left
          PROVE  /\ fed + k \in 1 .. Len(All)
                 /\ All[fed + k].req = req.cur /\ All[fed + k].part = "data"
        <3> DEFINE m == Len(b) - left + k
        <3>1. m \in 1 .. Len(b) /\ at + lead + m = fed + k
            BY <2>1, <2>3
        <3>3. fed + k \in 1 .. Len(All)
            <4>1. at + lead + Len(b) <= Upto(req.cur)
                BY <2>2
            <4>. QED
                BY <2>1, <2>3, <4>1
        <3> HIDE DEF m
        <3>2. All[fed + k] = Unit(req.cur, "data", b[m])
            BY <2>2, <3>1
        <3>. QED
            BY <3>2, <3>3 DEF Unit
    <2>5. left # 0
        BY <2>1
    <2>. QED
        BY <2>4, <2>5 DEF left
<1>. QED
    BY <1>2, <1>5, <1>6

(* A read of the body.                                                     *)
LEMMA ReceiveBodyIInv ==
    ASSUME IInv, ReceiveBody
    PROVE  IInv'
<1>1. PICK k : k = Min({BodyRead, req.left})
    OBVIOUS
<1>2. PICK q : q = Feed(req, Coming(k))
    OBVIOUS
<1>3. /\ fed + k \in Sent /\ fed' = fed + k /\ req' = q
      /\ IF q.err # "none" THEN Refuse(q.err)
         ELSE phase' = (IF q.done THEN "handle" ELSE "body") /\ UNCHANGED resp
      /\ phase = "body" /\ UNCHANGED <<setting, answers>>
    BY <1>1, <1>2 DEF ReceiveBody
<1>4. /\ setting \in Settings /\ Parsed(req, fed) /\ req.hdr /\ req.left \in Nat
      /\ LastReq \in Nat /\ Len(answers) \in Nat /\ fed \in Nat
    <2>1. /\ setting \in Settings /\ Parsed(req, fed) /\ req.hdr /\ req \in Parser
        BY <1>3 DEF IInv, Types, Phases, Ended
    <2>. QED
        BY <2>1, AnswerTypes, ParserTypes DEF IInv
<1>5. k \in Nat /\ k <= req.left
    BY <1>1, <1>4, MinOfTwo, HttpAssumption
<1>6. \A j \in 1 .. k : All[fed + j].part # "line"
    <2> TAKE j \in 1 .. k
    <2>1. j \in 1 .. req.left
        BY <1>4, <1>5
    <2>. QED
        BY <1>3, <2>1, BodyAhead
<1>7. Parsed(q, fed + k) /\ ~q.paused /\ q \in Parser /\ fed + k \in 0 .. Len(All) /\ q.hdr
    BY <1>2, <1>3, <1>4, <1>5, <1>6, FeedParsed
<1>8. Parsed(req, fed)'
    <2>1. PICK j : j = fed + k
        OBVIOUS
    <2>. QED
        BY <1>3, <1>7, <2>1, ParsedKept
<1>9. resp \in Outcomes /\ phase \notin Ended
    BY <1>3 DEF IInv, Types, Ended
<1>10. CASE q.err # "none"
    <2>1. q.err \in Errors \ {"none"}
        BY <1>7, <1>10, ParserTypes
    <2>2. phase' = "send" /\ resp' \in Outcomes /\ resp'.err
        BY <1>3, <1>10, <2>1, RefuseOutcome
    <2>3. Phases'
        BY <2>2 DEF Phases
    <2>. QED
        BY <1>3, <1>7, <1>8, <1>9, <2>2, <2>3, GoesOn
<1>11. CASE q.err = "none"
    <2>1. phase' = (IF q.done THEN "handle" ELSE "body") /\ resp' = resp /\ req' = q
        BY <1>3, <1>11
    <2>2. Phases'
        BY <1>7, <1>11, <2>1 DEF Phases
    <2>. QED
        BY <1>3, <1>7, <1>8, <1>9, <2>1, <2>2, GoesOn
<1>. QED
    BY <1>10, <1>11

(* With nothing left to ask for, only a chunked body goes on.              *)
LEMMA ReceiveNothingIInv ==
    ASSUME IInv, ReceiveNothing
    PROVE  IInv'
<1>1. /\ phase = "body" /\ req.left = 0 /\ phase' = "spins"
      /\ UNCHANGED <<setting, fed, req, resp, answers>>
    BY DEF ReceiveNothing
<1>2. Request(req.cur).coding = "chunked"
    BY <1>1, BodyAhead
<1>. QED
    BY <1>1, <1>2, EndsIInv DEF Ended

(* The connection ends without an answer.                                  *)
LEMMA EndingIInv ==
    ASSUME IInv, ReceiveEnds \/ SendFails \/ UpgradeEnds
    PROVE  IInv'
<1>1. /\ phase \in {"headers", "body", "send", "upgraded"} /\ phase' = "closed"
      /\ UNCHANGED <<setting, fed, req, resp, answers>>
    BY DEF ReceiveEnds, SendFails, UpgradeEnds, Reading
<1>. QED
    BY <1>1, EndsIInv DEF Ended

(* A read that fails is answered.                                          *)
LEMMA ReceiveFailsIInv ==
    ASSUME IInv, ReceiveFails
    PROVE  IInv'
<1>1. /\ phase \in {"headers", "body"} /\ Refuse("InternalError")
      /\ UNCHANGED <<setting, fed, req, answers>>
    BY DEF ReceiveFails, Reading
<1>2. phase' = "send" /\ resp' \in Outcomes /\ resp'.err
    BY <1>1, RefuseOutcome DEF Errors
<1>3. Phases'
    BY <1>2 DEF Phases
<1>4. phase \notin Ended /\ fed \in 0 .. Len(All) /\ req \in Parser /\ Parsed(req, fed)
    BY <1>1 DEF IInv, Types, Ended
<1>5. Parsed(req, fed)'
    <2>1. PICK q, k : q = req /\ k = fed
        OBVIOUS
    <2>. QED
        BY <1>1, <1>4, <2>1, ParsedKept
<1>. QED
    BY <1>1, <1>2, <1>3, <1>4, <1>5, GoesOn

(* Another worker writes to the file.                                      *)
LEMMA ForeignWriteIInv ==
    ASSUME IInv, ForeignWrite
    PROVE  IInv'
<1>1. /\ setting.shared /\ req.offload /\ phase \in {"body", "handle", "fill"}
      /\ UNCHANGED <<setting, phase, fed, resp, answers>>
    BY DEF ForeignWrite
<1>2. PICK i \in 1 .. Min({Len(req.file) + 1, MaxBodyLen}) :
          req' = [req EXCEPT !.file = Overwrite(req.file, i, "other"), !.foreign = TRUE]
    BY DEF ForeignWrite
<1>3. /\ req \in Parser /\ req.file \in Seq(Bytes) /\ phase \notin Ended
      /\ Parsed(req, fed) /\ fed \in 0 .. Len(All) /\ resp \in Outcomes
    BY <1>1, ParserTypes DEF IInv, Types, Ended
<1>4. i \in Nat /\ i >= 1
    <2>1. Len(req.file) + 1 \in Nat /\ MaxBodyLen \in Nat
        BY <1>3, HttpAssumption
    <2>2. Min({Len(req.file) + 1, MaxBodyLen}) \in Nat
        BY <2>1, MinOfTwo
    <2>. QED
        BY <2>2
<1>5. Overwrite(req.file, i, "other") \in Seq(Bytes)
    <2>1. "other" \in Bytes
        BY DEF Bytes
    <2>. QED
        BY <1>3, <1>4, <2>1, OverwriteTyped, Zenon
<1>6. PICK q : q = req'
    OBVIOUS
<1>7. /\ q \in Parser /\ q.cur = req.cur /\ q.at = req.at /\ q.url = req.url
      /\ q.stage = req.stage /\ q.hdr = req.hdr /\ q.done = req.done /\ q.left = req.left
      /\ q.offload = req.offload /\ q.foreign /\ q.err = req.err /\ q.paused = req.paused
    BY <1>2, <1>3, <1>5, <1>6 DEF Parser
<1>8. Parsed(q, fed)
    <2>1. Known(q)
        BY <1>3, <1>7 DEF Parsed, Known, Begun
    <2>2. Turn(q)
        BY <1>3, <1>7 DEF Parsed, Turn, Begun, UrlOf
    <2>3. Place(req, fed) => Place(q, fed)
        BY <1>1, <1>7 DEF Place, Kept
    <2>. QED
        BY <1>3, <1>7, <2>1, <2>2, <2>3 DEF Parsed
<1>9. Parsed(req, fed)'
    <2>1. PICK k : k = fed
        OBVIOUS
    <2>. QED
        BY <1>1, <1>6, <1>8, <2>1, ParsedKept
<1>10. Phases'
    BY <1>1, <1>6, <1>7 DEF IInv, Phases
<1>. QED
    BY <1>1, <1>3, <1>6, <1>7, <1>9, <1>10, GoesOn

(* A response that ends in an exception.                                   *)
LEMMA FailedTyped ==
    ASSUME NEW r \in Outcomes
    PROVE  /\ \A status \in {"NotFound", "InternalError"} :
                 HttpError(r, status) \in Outcomes /\ HttpError(r, status).err
           /\ Unhandled(r) \in Outcomes /\ Unhandled(r).err
<1>1. r \in Responses /\ 0 \in Nat /\ 1 \in Nat /\ r.size \in Nat
    BY DEF Outcomes, Responses
<1>2. ASSUME NEW status \in Statuses \ {"SwitchingProtocols"}, NEW body \in Nat, NEW f,
             f = [r EXCEPT !.status = status, !.body = body, !.chunks = 0, !.err = TRUE]
      PROVE  f \in Outcomes /\ f.err
    <2>1. /\ f \in Responses /\ f.chunks = 0 /\ f.size = r.size /\ f.err /\ f.status = status
        BY <1>1, <1>2 DEF Responses
    <2>. QED
        BY <1>1, <2>1 DEF Outcomes, Sound
<1>3. \A status \in {"NotFound", "InternalError"} : status \in Statuses \ {"SwitchingProtocols"}
    BY DEF Statuses
<1>. QED
    BY <1>1, <1>2, <1>3 DEF HttpError, Unhandled

(* The route of the request is found, or there is none, or the server is   *)
(* gone.                                                                   *)
LEMMA HandleRequestIInv ==
    ASSUME IInv, HandleRequest
    PROVE  IInv'
<1>1. phase = "handle" /\ UNCHANGED <<setting, fed, req, answers>>
    BY DEF HandleRequest
<1>2. PICK route : /\ route = RouteOf(setting.table, trie, req.url)
                   /\ route.ends \in {"NotFound", "Crash", "Rule"}
    <2>1. RouteOf(setting.table, trie, req.url).ends \in {"NotFound", "Crash", "Rule"}
        <3> DEFINE ret  == Find(trie, Target(setting.table, req.url))
                   ends == IF ret.index = 0 THEN "NotFound"
                           ELSE IF ret.index = RuleSpecialRedirectSlash THEN "Crash"
                           ELSE IF ~setting.table.rules[ret.index - 1].enabled THEN "NotFound"
                           ELSE "Rule"
        <3>1. RouteOf(setting.table, trie, req.url) =
                 [index |-> ret.index, params |-> ret.params, ends |-> ends]
            BY Zenon DEF RouteOf
        <3>2. ends \in {"NotFound", "Crash", "Rule"}
            OBVIOUS
        <3> HIDE DEF ends, ret
        <3>. QED
            BY <3>1, <3>2
    <2>. QED
        BY <2>1, Zenon
<1>3. \/ phase' = "send" /\ resp' \in Outcomes
      \/ phase' = "fill" /\ resp' \in Outcomes /\ ~resp'.err
      \/ phase' = "crashed" /\ UNCHANGED resp
    <2>1. HttpError(NoResponse, "NotFound") \in Outcomes
        BY NoResponseTyped, FailedTyped
    <2>. QED
        BY <1>2, <2>1, NoResponseTyped DEF HandleRequest, FoundRoute
<1>4. CASE phase' = "crashed" /\ UNCHANGED resp
    BY <1>1, <1>4, EndsIInv DEF Ended
<1>5. CASE \/ phase' = "send" /\ resp' \in Outcomes
           \/ phase' = "fill" /\ resp' \in Outcomes /\ ~resp'.err
    <2>1. /\ phase \notin Ended /\ fed \in 0 .. Len(All) /\ req \in Parser /\ Parsed(req, fed)
          /\ req.err = "none" /\ ~req.paused /\ req.hdr /\ req.done
        BY <1>1 DEF IInv, Types, Phases, Ended
    <2>2. Parsed(req, fed)'
        <3>1. PICK q, k : q = req /\ k = fed
            OBVIOUS
        <3>. QED
            BY <1>1, <2>1, <3>1, ParsedKept
    <2>3. Phases'
        BY <1>1, <1>5, <2>1 DEF Phases
    <2>. QED
        BY <1>1, <1>5, <2>1, <2>2, <2>3, GoesOn
<1>. QED
    BY <1>3, <1>4, <1>5

(* A handler or a middleware works on the response.                        *)
LEMMA FillIInv ==
    ASSUME IInv, NEW r \in Outcomes, phase = "fill", resp' = r,
           UNCHANGED <<setting, fed, req, answers>>,
           phase' = "send" \/ (phase' = "fill" /\ ~r.err)
    PROVE  IInv'
<1>1. /\ phase \notin Ended /\ fed \in 0 .. Len(All) /\ req \in Parser /\ Parsed(req, fed)
      /\ req.err = "none" /\ ~req.paused /\ req.hdr /\ req.done
    BY DEF IInv, Types, Phases, Ended
<1>2. Parsed(req, fed)'
    <2>1. PICK q, k : q = req /\ k = fed
        OBVIOUS
    <2>. QED
        BY <1>1, <2>1, ParsedKept
<1>3. Phases'
    BY <1>1 DEF Phases
<1>. QED
    BY <1>1, <1>2, <1>3, GoesOn

(* What a call of a handler makes of the response is one.                  *)
LEMMA CallsIInv ==
    ASSUME IInv, AddBody \/ AddChunk \/ ClearContent \/ Merge \/ SetLength
    PROVE  IInv'
<1>1. PICK r : Fill(r)
    BY DEF AddBody, AddChunk, ClearContent, Merge, SetLength
<1>2. phase = "fill" /\ resp \in Outcomes /\ ~resp.err
    BY <1>1 DEF Fill, IInv, Types, Phases
<1>3. /\ resp \in Responses /\ Sound(resp) /\ resp.body \in Nat /\ resp.chunks \in Nat
      /\ resp.size \in Nat /\ resp.length \in Nat \cup {NoLength} /\ resp.err = FALSE
      /\ resp.touched \in BOOLEAN /\ resp.status \in Statuses
    BY <1>2 DEF Outcomes, Responses
<1>4. resp' \in Outcomes /\ ~resp'.err
    <2>1. CASE AddBody
        <3>1. resp' = [resp EXCEPT !.body = resp.body + 1] /\ resp.body + 1 \in Nat
            BY <1>3, <2>1 DEF AddBody, Fill
        <3>. QED
            BY <1>3, <3>1 DEF Outcomes, Responses, Sound
    <2>2. CASE AddChunk
        <3>1. PICK moved \in {0, resp.body} :
                  resp' = [resp EXCEPT !.body = resp.body - moved,
                                       !.chunks = resp.chunks + moved + 1,
                                       !.size = resp.size + moved + 1]
            BY <2>2 DEF AddChunk, Fill
        <3>2. /\ resp.body - moved \in Nat /\ resp.chunks + moved + 1 \in Nat
              /\ resp.size + moved + 1 \in Nat
            BY <1>3
        <3>3. /\ resp.chunks <= resp.size =>
                    resp.chunks + moved + 1 <= resp.size + moved + 1
              /\ resp.size = resp.chunks =>
                    resp.size + moved + 1 = resp.chunks + moved + 1
            BY <1>3
        <3>4. /\ resp' \in Responses /\ resp'.chunks = resp.chunks + moved + 1
              /\ resp'.size = resp.size + moved + 1 /\ resp'.length = resp.length
              /\ resp'.err = resp.err /\ resp'.touched = resp.touched
            BY <1>3, <3>1, <3>2 DEF Responses
        <3>. QED
            BY <1>3, <3>3, <3>4 DEF Outcomes, Sound
    <2>3. CASE ClearContent
        <3>1. PICK kept \in {resp.length, NoLength} :
                  resp' = [resp EXCEPT !.body = 0, !.chunks = 0, !.length = kept,
                                       !.touched = resp.touched \/ resp.chunks > 0]
            BY <2>3 DEF ClearContent, Fill
        <3>2. /\ 0 \in Nat /\ (resp.touched \/ resp.chunks > 0) \in BOOLEAN
              /\ kept \in Nat \cup {NoLength}
            BY <1>3
        <3>3. /\ resp' \in Responses /\ resp'.chunks = 0 /\ resp'.size = resp.size
              /\ resp'.length = kept /\ resp'.err = FALSE
              /\ resp'.touched = (resp.touched \/ resp.chunks > 0)
            BY <1>3, <3>1, <3>2 DEF Responses
        <3>4. ASSUME ~resp'.touched PROVE resp'.size = 0 /\ resp'.length = NoLength
            <4>1. ~resp.touched /\ resp.chunks = 0
                <5>1. ~resp.touched /\ ~(resp.chunks > 0)
                    BY <3>3, <3>4, Zenon
                <5>. QED
                    BY <1>3, <5>1
            <4>2. resp.size = 0 /\ resp.length = NoLength
                BY <1>3, <4>1 DEF Sound
            <4>. QED
                BY <3>1, <3>3, <4>2
        <3>. QED
            BY <1>3, <3>3, <3>4 DEF Outcomes, Sound
    <2>4. CASE Merge
        <3>1. PICK body \in 0 .. 1, chunks \in 0 .. 1 :
                  resp' = [resp EXCEPT !.body = body, !.chunks = chunks, !.size = chunks]
            BY <2>4 DEF Merge, Fill
        <3>2. body \in Nat /\ chunks \in Nat
            OBVIOUS
        <3>3. /\ resp' \in Responses /\ resp'.chunks = chunks /\ resp'.size = chunks
              /\ resp'.length = resp.length /\ resp'.err = FALSE
              /\ resp'.touched = resp.touched
            BY <1>3, <3>1, <3>2 DEF Responses
        <3>. QED
            BY <1>3, <3>2, <3>3 DEF Outcomes, Sound
    <2>5. CASE SetLength
        <3>1. PICK length \in 0 .. MaxContent :
                  resp' = [resp EXCEPT !.length = length, !.touched = TRUE]
            BY <2>5 DEF SetLength, Fill
        <3>2. length \in Nat
            BY HttpAssumption
        <3>3. /\ resp' \in Responses /\ resp'.chunks = resp.chunks /\ resp'.size = resp.size
              /\ resp'.err = FALSE /\ resp'.touched
            BY <1>3, <3>1, <3>2 DEF Responses
        <3>. QED
            BY <1>3, <3>3 DEF Outcomes, Sound
    <2>. QED
        BY <2>1, <2>2, <2>3, <2>4, <2>5
<1>. QED
    BY <1>1, <1>2, <1>4, FillIInv DEF Fill

(* The response is left to be sent.                                        *)
LEMMA FilledIInv ==
    ASSUME IInv, FillEnds \/ FillFails
    PROVE  IInv'
<1>1. /\ phase = "fill" /\ phase' = "send" /\ UNCHANGED <<setting, fed, req, answers>>
    BY DEF FillEnds, FillFails
<1>2. resp \in Outcomes /\ ~resp.err
    BY <1>1 DEF IInv, Types, Phases
<1>3. ASSUME FillEnds PROVE resp' \in Outcomes
    <2>1. PICK status \in {"Ok", "SwitchingProtocols"} :
              resp' = [resp EXCEPT !.status = status]
        BY <1>3 DEF FillEnds
    <2>2. resp \in Responses /\ Sound(resp) /\ status \in Statuses
        BY <1>2 DEF Outcomes, Statuses
    <2>3. /\ resp' \in Responses /\ resp'.chunks = resp.chunks /\ resp'.size = resp.size
          /\ resp'.length = resp.length /\ resp'.err = resp.err
          /\ resp'.touched = resp.touched
        BY <2>1, <2>2 DEF Responses
    <2>. QED
        BY <1>2, <2>2, <2>3 DEF Outcomes, Sound
<1>4. ASSUME FillFails PROVE resp' \in Outcomes
    BY <1>2, <1>4, FailedTyped DEF FillFails
<1>. QED
    BY <1>1, <1>3, <1>4, FillIInv

(* What is declared of a response is what is written, but after an error,  *)
(* when a handler took content back or set the length, or to HEAD.         *)
LEMMA ResponseFramed ==
    ASSUME resp \in Outcomes
    PROVE  /\ resp.err \in BOOLEAN /\ resp.touched \in BOOLEAN
           /\ AskedHead \in BOOLEAN /\ Framed \in BOOLEAN
           /\ ~resp.err => Framed \/ resp.touched \/ AskedHead
           /\ resp.err => resp.status # "SwitchingProtocols"
<1>1. /\ resp.err \in BOOLEAN /\ resp.touched \in BOOLEAN /\ resp.body \in Nat
      /\ resp.chunks \in Nat /\ resp.size \in Nat /\ Sound(resp)
    BY DEF Outcomes, Responses
<1>2. AskedHead \in BOOLEAN /\ Framed \in BOOLEAN
    BY DEF AskedHead, Framed
<1>3. ASSUME ~resp.err, ~resp.touched, ~AskedHead PROVE Framed
    <2>1. resp.size = resp.chunks /\ resp.length = NoLength
        BY <1>1, <1>3 DEF Sound
    <2>2. Declared = resp.body + resp.chunks /\ Written = resp.body + resp.chunks
        BY <2>1 DEF Declared, Written
    <2>. QED
        BY <1>3, <2>2 DEF Framed
<1>. QED
    BY <1>1, <1>2, <1>3 DEF Sound

(* The request that is answered: the one in turn, or none.                 *)
LEMMA AskedInTurn ==
    ASSUME IInv, phase = "send"
    PROVE  /\ req \in Parser /\ req.cur \in Nat /\ req.cur <= Len(setting.stream)
           /\ LastReq \in Nat /\ LastReq <= req.cur
           /\ Asked \in {0, req.cur}
           /\ Asked = 0 => resp.err
           /\ Asked # 0 => /\ Asked = req.cur /\ req.cur >= 1 /\ LastReq < req.cur
                           /\ ~setting.pipelined => req.cur = Len(answers) + 1
           /\ ~setting.pipelined => LastReq = Len(answers)
<1>1. /\ Parsed(req, fed) /\ req \in Parser /\ req.cur \in Nat /\ LastReq \in Nat
      /\ Known(req) /\ Turn(req)
    <2>1. Parsed(req, fed) /\ req \in Parser
        BY DEF IInv, Types, Ended
    <2>. QED
        BY <2>1, AnswerTypes, ParserTypes DEF IInv, Parsed
<1>2. Asked = IF Begun(req) THEN req.cur ELSE 0
    BY DEF Asked, Begun
<1>3. Begun(req) => /\ req.cur >= 1 /\ LastReq < req.cur
                    /\ ~setting.pipelined => req.cur = Len(answers) + 1
    BY <1>1 DEF Known, Turn
<1>4. ~Begun(req) => resp.err
    BY DEF IInv, Phases, Begun
<1>5. ~setting.pipelined => LastReq = Len(answers)
    BY DEF IInv, Answered, Ended
<1>6. req.cur <= Len(setting.stream) /\ LastReq <= req.cur
    BY <1>1 DEF Known, Turn
<1>7. Begun(req) => req.cur # 0
    BY <1>1, <1>3
<1>. QED
    BY <1>1, <1>2, <1>3, <1>4, <1>5, <1>6, <1>7

(* A response is sent; after one that is not an error the next request may *)
(* be read.                                                                *)
LEMMA SendResponseIInv ==
    ASSUME IInv, SendResponse
    PROVE  IInv'
<1> DEFINE n == Len(answers)
           a == [req |-> Asked, err |-> resp.err, touched |-> resp.touched,
                 head |-> AskedHead, framed |-> Framed]
<1>1. /\ phase = "send" /\ UNCHANGED <<setting, fed>> /\ answers' = Append(answers, a)
      /\ req' = Clear(req) /\ resp' = NoResponse
      /\ phase' \in {"upgraded", "closed", "headers"}
      /\ phase' = "headers" => ~resp.err
      /\ resp.err /\ resp.status # "SwitchingProtocols" => phase' = "closed"
    BY DEF SendResponse
<1>2. /\ setting \in Settings /\ resp \in Outcomes /\ answers \in Seq(Answers) /\ n \in Nat
      /\ fed \in 0 .. Len(All)
      /\ \A i \in DOMAIN answers : answers[i].req <= Len(setting.stream)
    BY DEF IInv, Types
<1>3. /\ resp.err \in BOOLEAN /\ resp.touched \in BOOLEAN
      /\ AskedHead \in BOOLEAN /\ Framed \in BOOLEAN
      /\ ~resp.err => Framed \/ resp.touched \/ AskedHead
      /\ resp.err => resp.status # "SwitchingProtocols"
    BY <1>2, ResponseFramed
<1>4. /\ req \in Parser /\ req.cur \in Nat /\ req.cur <= Len(setting.stream)
      /\ Asked \in {0, req.cur} /\ (Asked = 0 => resp.err)
      /\ Asked # 0 => Asked = req.cur /\ (~setting.pipelined => req.cur = n + 1)
      /\ Len(setting.stream) \in Nat
    BY <1>1, <1>2, AskedInTurn, Streams
<1>5. \A i \in DOMAIN answers : Told(answers[i])
    BY <1>1 DEF IInv, Answered, Ended
<1>6. /\ a \in Answers /\ a.req = Asked /\ a.err = resp.err
      /\ ~a.err => Told(a)
    BY <1>3, <1>4 DEF Answers, Told
<1> HIDE DEF a
<1>7. /\ answers' \in Seq(Answers) /\ Len(answers') = n + 1 /\ answers'[n + 1] = a
      /\ DOMAIN answers' = 1 .. n + 1
      /\ \A i \in 1 .. n : answers'[i] = answers[i]
    BY <1>1, <1>2, <1>6
<1>8. /\ req' \in Parser /\ req'.cur = req.cur /\ req'.at = req.at /\ req'.stage = <<>>
      /\ ~req'.hdr /\ ~req'.done /\ ~req'.offload /\ ~req'.foreign /\ req'.err = req.err
      /\ req'.paused = req.paused
    BY <1>1, <1>4, ClearFields
<1>9. \A i \in 1 .. n + 1 : i \in 1 .. n \/ i = n + 1
    BY <1>2
<1>10. Types'
    <2>1. Len(All)' = Len(All)
        BY <1>1 DEF All
    <2>2. resp' \in Outcomes
        BY <1>1, NoResponseTyped
    <2>3. a.req <= Len(setting.stream)
        BY <1>4, <1>6
    <2>4. \A i \in DOMAIN answers' : answers'[i].req <= Len(setting.stream)
        BY <1>2, <1>7, <1>9, <2>3
    <2>5. phase' \in Ended \cup {"headers", "body", "handle", "fill", "send"}
        BY <1>1 DEF Ended
    <2>6. setting' \in Settings /\ fed' \in 0 .. Len(All)'
        BY <1>1, <1>2, <2>1
    <2>7. req' \in Parser /\ req'.cur <= Len(setting'.stream)
        BY <1>1, <1>4, <1>8
    <2>8. \A i \in DOMAIN answers' : answers'[i].req <= Len(setting'.stream)
        BY <1>1, <2>4
    <2>. QED
        BY <1>7, <2>2, <2>5, <2>6, <2>7, <2>8 DEF Types
<1>11. \A i \in DOMAIN answers' :
          ~Told(answers'[i]) => i = n + 1 /\ a.err /\ phase' = "closed"
    BY <1>1, <1>2, <1>3, <1>5, <1>6, <1>7, <1>9
<1>12. FramingKept'
    BY <1>7, <1>11 DEF FramingKept, Told
<1>13. CASE phase' # "headers"
    <2>1. phase' \in {"upgraded", "closed"}
        BY <1>1, <1>13
    <2>2. Phases'
        BY <2>1 DEF Phases
    <2>3. Answered'
        BY <1>12, <2>1 DEF Answered, Ended
    <2>. QED
        BY <1>10, <2>1, <2>2, <2>3 DEF IInv, Ended
<1>14. CASE phase' = "headers"
    <2>1. ~resp.err /\ Asked = req.cur /\ (~setting.pipelined => req.cur = n + 1)
        BY <1>1, <1>4, <1>14
    <2>2. req.err = "none" /\ ~req.paused /\ req.hdr /\ req.done
        BY <1>1, <2>1 DEF IInv, Phases
    <2>3. req.at = "line" /\ Upto(req.cur) <= fed
        <3>1. Known(req) /\ Place(req, fed)
            BY <1>1, <2>2 DEF IInv, Parsed, Ended
        <3>2. req.at \in {"line", "head", "data", "chunk"}
            BY <1>4, ParserTypes
        <3>3. req.at = "line"
            BY <2>2, <3>1, <3>2 DEF Known
        <3>. QED
            BY <3>1, <3>3 DEF Place
    <2>4. LastReq' = req.cur
        <3>1. answers' # <<>>
            BY <1>2, <1>7
        <3>2. answers'[Len(answers')] = a
            BY <1>7
        <3>3. a.req = req.cur
            BY <1>6, <2>1
        <3>. QED
            BY <3>1, <3>2, <3>3 DEF LastReq
    <2>5. Known(req)'
        <3>1. req'.hdr \in BOOLEAN /\ req'.done \in BOOLEAN
            BY <1>8, ParserTypes
        <3>2. req'.hdr = req'.done
            BY <1>8, <3>1
        <3>. QED
            BY <1>1, <1>4, <1>8, <2>3, <3>2 DEF Known, Begun
    <2>6. Turn(req)'
        BY <1>1, <1>4, <1>7, <1>8, <2>1, <2>3, <2>4 DEF Turn, Begun
    <2>7. Place(req, fed)'
        <3>1. Upto(req.cur)' = Upto(req.cur)
            BY <1>1, <1>8 DEF Upto
        <3>. QED
            BY <1>1, <1>8, <2>3, <3>1 DEF Place
    <2>8. Phases'
        BY <1>8, <1>14, <2>2 DEF Phases
    <2>9. Answered'
        <3>1. \A i \in DOMAIN answers' : Told(answers'[i])
            BY <1>11, <1>14
        <3>2. ~setting.pipelined => LastReq' = Len(answers')
            BY <1>7, <2>1, <2>4
        <3>. QED
            BY <1>1, <1>12, <3>1, <3>2 DEF Answered
    <2>. QED
        BY <1>10, <2>5, <2>6, <2>7, <2>8, <2>9 DEF IInv, Parsed
<1>. QED
    BY <1>13, <1>14

(* Every step keeps the invariant.                                         *)
LEMMA NextIInv == IInv /\ [Next]_vars => IInv'
<1> SUFFICES ASSUME IInv, [Next]_vars PROVE IInv'
    OBVIOUS
<1>1. CASE UNCHANGED vars
    <2>1. UNCHANGED <<setting, phase, fed, req, resp, answers>>
        BY <1>1 DEF vars
    <2>2. Types'
        <3>1. Len(All)' = Len(All)
            BY <2>1 DEF All
        <3>. QED
            BY <2>1, <3>1 DEF IInv, Types
    <2>3. ASSUME phase \notin Ended PROVE Parsed(req, fed)'
        <3>1. PICK q, k : q = req /\ k = fed
            OBVIOUS
        <3>. QED
            BY <2>1, <2>3, <3>1, ParsedKept DEF IInv
    <2>4. Phases'
        BY <2>1 DEF IInv, Phases, Request
    <2>5. Answered'
        BY <2>1 DEF IInv, Answered, FramingKept, LastReq
    <2>. QED
        BY <2>1, <2>2, <2>3, <2>4, <2>5 DEF IInv, Ended
<1>. QED
    BY <1>1, ReceiveHeadersIInv, ReceiveBodyIInv, ReceiveNothingIInv, EndingIInv,
       ReceiveFailsIInv, ForeignWriteIInv, HandleRequestIInv, CallsIInv, FilledIInv,
       SendResponseIInv
    DEF Next

(* The invariant holds of every connection.                                *)
LEMMA Invariance == Spec => []IInv
<1>. QED
    BY InitIInv, NextIInv, PTL DEF Spec

----------------------------------------------------------------------------

(* The state of a connection is well-formed: in particular, never is more  *)
(* read than the client sends, and no request is answered that it does not *)
(* send.                                                                   *)
THEOREM StateIsTyped == Spec => []TypeOK
<1>1. IInv => TypeOK
    <2> SUFFICES ASSUME IInv PROVE TypeOK
        OBVIOUS
    <2>1. Types /\ setting \in Settings /\ req \in Parser /\ answers \in Seq(Answers)
        BY DEF IInv, Types
    <2>2. Len(setting.stream) \in Nat
        BY <2>1, Streams
    <2>3. \A i \in DOMAIN answers : answers[i].req \in 0 .. Len(setting.stream)
        <3>1. \A i \in DOMAIN answers : answers[i] \in Answers
            BY <2>1
        <3>2. \A i \in DOMAIN answers : answers[i].req \in Nat
            BY <3>1 DEF Answers
        <3>. QED
            BY <2>1, <2>2, <3>2 DEF Types
    <2>4. req.cur \in 0 .. Len(setting.stream)
        BY <2>1, <2>2, ParserTypes DEF Types
    <2>5. /\ req.at \in {"line", "head", "data", "chunk"} /\ req.left \in Nat
          /\ {req.hdr, req.done, req.offload, req.foreign, req.paused} \subseteq BOOLEAN
        BY <2>1, ParserTypes
    <2>6. /\ resp.status \in Statuses /\ {resp.body, resp.size} \subseteq Nat
          /\ resp.chunks \in 0 .. resp.size /\ resp.length \in Nat \cup {NoLength}
          /\ {resp.err, resp.touched} \subseteq BOOLEAN
        <3>1. resp \in Responses /\ resp.chunks <= resp.size
            BY <2>1 DEF Types, Outcomes, Sound
        <3>. QED
            BY <3>1 DEF Responses
    <2>. QED
        BY <2>1, <2>3, <2>4, <2>5, <2>6 DEF Types, TypeOK, Statuses, All
<1>. QED
    BY <1>1, Invariance, PTL

(* However a request was spread over the reads, all of its body is kept    *)
(* when it is handled, in the stage or over what its file held before,     *)
(* unless another worker has the same file; and its URL is the one that    *)
(* was sent: only from a client that does not wait may it have the body of *)
(* an earlier request in front.                                            *)
THEOREM RequestsAreIntact == Spec => []RequestIntact
<1>1. IInv => RequestIntact
    <2> SUFFICES ASSUME IInv, phase \in {"handle", "fill"} PROVE RequestIntact
        BY DEF RequestIntact
    <2>1. Known(req) /\ Turn(req) /\ Place(req, fed) /\ req.hdr /\ req.done /\ req \in Parser
        BY DEF IInv, Parsed, Phases, Ended, Known
    <2>2. req.at = "line"
        <3>1. req.at \in {"line", "head", "data", "chunk"}
            BY <2>1, ParserTypes
        <3>. QED
            BY <2>1, <3>1 DEF Known
    <2>3. Kept(req, Request(req.cur).body) /\ (req.foreign => setting.shared)
        BY <2>1, <2>2 DEF Place
    <2>4. UrlOf(req)
        BY <2>1 DEF Turn, Begun
    <2>5. \A i : setting.stream[i] = Request(i)
        BY DEF Request
    <2>6. req.offload \in BOOLEAN /\ req.left = 0
        BY <2>1, ParserTypes DEF Known
    <2>7. BodyOf(req) = IF req.offload THEN <<>> ELSE Request(req.cur).body
        BY <2>3, <2>6 DEF BodyOf, ReadBody, Kept
    <2>. QED
        BY <2>3, <2>4, <2>5, <2>7 DEF RequestIntact, Kept, UrlOf
<1>. QED
    BY <1>1, Invariance, PTL

(* receiveBody waits only for bytes that the client sends: those of the    *)
(* body of the request come next in the stream, as many as it asks for.    *)
THEOREM BodiesEnd == Spec => []BodyWithinRequest
<1>1. IInv => BodyWithinRequest
    <2> SUFFICES ASSUME IInv PROVE BodyWithinRequest
        OBVIOUS
    <2>1. setting \in Settings
        BY DEF IInv, Types
    <2>2. DOMAIN All = 1 .. Len(All)
        BY <2>1, Rows
    <2>3. phase = "body" =>
             \A k \in 1 .. req.left : /\ fed + k \in DOMAIN All
                                      /\ All[fed + k].req = req.cur
                                      /\ All[fed + k].part = "data"
        BY <2>2, BodyAhead
    <2>4. phase = "spins" => Request(req.cur).coding = "chunked"
        BY DEF IInv, Phases
    <2>. QED
        BY <2>3, <2>4 DEF BodyWithinRequest, All
<1>. QED
    BY <1>1, Invariance, PTL

(* Whatever handlers and middlewares do to a response, Content-Length is   *)
(* what is sent, but where they set it or took chunks back themselves,     *)
(* in answers to HEAD and in an error that the connection ends with.       *)
THEOREM ResponsesAreFramed == Spec => []FramingKept
<1>1. IInv => FramingKept
    BY DEF IInv, Answered
<1>. QED
    BY <1>1, Invariance, PTL

----------------------------------------------------------------------------
(* Routes                                                                  *)

(* So has a set of numbers up to n a greatest element.                     *)
LEMMA GreatestUpTo ==
    ASSUME NEW n \in Nat, NEW S \in SUBSET (0 .. n), S # {}
    PROVE  Max(S) \in S /\ \A y \in S : y <= Max(S)
<1> DEFINE R == {k \in 0 .. n : n - k \in S}
<1>1. R \in SUBSET Nat /\ R # {}
    <2>1. PICK y \in S : TRUE
        OBVIOUS
    <2>2. n - y \in 0 .. n /\ n - (n - y) = y
        BY <2>1
    <2>3. n - y \in R
        BY <2>2
    <2>4. R \in SUBSET Nat
        OBVIOUS
    <2>. QED
        BY <2>3, <2>4, Zenon
<1>2. Min(R) \in R /\ \A k \in R : Min(R) <= k
    BY <1>1, LeastNat
<1>3. n - Min(R) \in S /\ \A y \in S : y <= n - Min(R)
    <2>1. ASSUME NEW y \in S PROVE y <= n - Min(R)
        <3>1. n - y \in R /\ y \in 0 .. n
            BY <2>1
        <3>2. Min(R) <= n - y /\ Min(R) \in Nat
            BY <1>2, <3>1
        <3>. QED
            BY <3>1, <3>2
    <2>. QED
        BY <1>2, <2>1
<1>. QED
    <2>1. \E x \in S : \A y \in S : x >= y
        BY <1>3
    <2>2. Max(S) \in S /\ \A y \in S : Max(S) >= y
        BY <2>1, Zenon DEF Max
    <2>. QED
        BY <2>2

(* A run of characters ends with the URL at the latest.                    *)
LEMMA RunBounds ==
    ASSUME NEW url, Len(url) \in Nat, NEW pos \in 1 .. Len(url) + 1, NEW S
    PROVE  RunOf(url, pos, S) \in 0 .. Len(url) - pos + 1
<1> DEFINE R == {k \in 0 .. Len(url) - pos + 1 : \A i \in pos .. pos + k - 1 : url[i] \in S}
<1>1. Len(url) - pos + 1 \in Nat
    OBVIOUS
<1>2. R \in SUBSET (0 .. Len(url) - pos + 1) /\ 0 \in R
    OBVIOUS
<1>3. Max(R) \in R
    BY <1>1, <1>2, GreatestUpTo
<1>. QED
    BY <1>3 DEF RunOf

LEMMA SignBounds ==
    ASSUME NEW url, Len(url) \in Nat, NEW pos \in 1 .. Len(url) + 1, NEW S
    PROVE  /\ Min({1, RunOf(url, pos, S)}) \in 0 .. 1
           /\ pos + Min({1, RunOf(url, pos, S)}) \in 1 .. Len(url) + 1
<1>1. RunOf(url, pos, S) \in 0 .. Len(url) - pos + 1
    BY RunBounds
<1>2. RunOf(url, pos, S) \in Nat
    BY <1>1
<1>3. /\ Min({1, RunOf(url, pos, S)}) \in Nat
      /\ Min({1, RunOf(url, pos, S)}) <= 1
      /\ Min({1, RunOf(url, pos, S)}) <= RunOf(url, pos, S)
    BY <1>2, MinOfTwo
<1>. QED
    BY <1>1, <1>3

LEMMA IntegerBounds ==
    ASSUME NEW url, Len(url) \in Nat, NEW pos \in 1 .. Len(url) + 1, NEW S
    PROVE  IntegerTaken(url, pos, S) \in 0 .. Len(url) - pos + 1
<1> DEFINE sign   == Min({1, RunOf(url, pos, S)})
           digits == RunOf(url, pos + sign, ToSet(Digits))
<1>1. sign \in 0 .. 1 /\ pos + sign \in 1 .. Len(url) + 1
    BY SignBounds
<1>2. digits \in 0 .. Len(url) - (pos + sign) + 1
    BY <1>1, RunBounds
<1>3. IntegerTaken(url, pos, S) \in {0, sign + digits}
    BY DEF IntegerTaken
<1> HIDE DEF sign, digits
<1>. QED
    BY <1>1, <1>2, <1>3

LEMMA DoubleBounds ==
    ASSUME NEW url, Len(url) \in Nat, NEW pos \in 1 .. Len(url) + 1
    PROVE  DoubleTaken(url, pos) \in 0 .. Len(url) - pos + 1
<1> DEFINE sign  == Min({1, RunOf(url, pos, Signs)})
           whole == RunOf(url, pos + sign, ToSet(Digits))
           point == Min({1, RunOf(url, pos + sign + whole, {"."})})
           part  == IF point = 0 THEN 0
                    ELSE RunOf(url, pos + sign + whole + 1, ToSet(Digits))
<1>1. sign \in 0 .. 1 /\ pos + sign \in 1 .. Len(url) + 1
    BY SignBounds
<1>2. whole \in 0 .. Len(url) - (pos + sign) + 1
    BY <1>1, RunBounds
<1>3. DoubleTaken(url, pos) \in {0, sign + whole + point + part}
    BY DEF DoubleTaken
<1> HIDE DEF sign, whole
<1>4. pos + sign + whole \in 1 .. Len(url) + 1
    BY <1>1, <1>2
<1>5. point \in 0 .. 1 /\ pos + sign + whole + point \in 1 .. Len(url) + 1
    BY <1>4, SignBounds
<1>6. part \in 0 .. Len(url) - (pos + sign + whole + point) + 1
    <2> HIDE DEF point
    <2>1. CASE point = 0
        BY <1>1, <1>2, <1>5, <2>1
    <2>2. CASE point = 1
        BY <1>1, <1>2, <1>5, <2>2, RunBounds
    <2>. QED
        BY <1>5, <2>1, <2>2
<1> HIDE DEF point, part
<1>. QED
    BY <1>1, <1>2, <1>3, <1>5, <1>6

(* No parameter takes more than there is.                                  *)
LEMMA TakenBounds ==
    ASSUME NEW url, Len(url) \in Nat, NEW pos \in 1 .. Len(url) + 1,
           NEW p \in ToSet(ParamTypes)
    PROVE  Taken(p, url, pos) \in 0 .. Len(url) - pos + 1
<1>1. p \in {"INT", "UINT", "DOUBLE", "STRING", "PATH"}
    BY DEF ToSet, ParamTypes
<1>. QED
    BY <1>1, IntegerBounds, DoubleBounds, RunBounds DEF Taken

AtStart == [pos |-> 1, params |-> <<>>]

(* Match goes from one element of the path to the next.                    *)
LEMMA MatchToSteps ==
    ASSUME NEW s, NEW url, Len(s) \in Nat
    PROVE  /\ MatchTo(s, url)[0] = AtStart
           /\ \A i \in 1 .. Len(s) : MatchTo(s, url)[i] = MatchNext(MatchTo(s, url)[i - 1], s[i], url)
<1> DEFINE Is(f, n) == f = [i \in 0 .. n |-> IF i = 0 THEN AtStart ELSE MatchNext(f[i - 1], s[i], url)]
           T == {n \in Nat : \E f : Is(f, n)}
<1>0. ASSUME NEW f, NEW n \in Nat, Is(f, n)
      PROVE  \A i \in 0 .. n : f[i] = IF i = 0 THEN AtStart ELSE MatchNext(f[i - 1], s[i], url)
    <2> DEFINE h == [i \in 0 .. n |-> IF i = 0 THEN AtStart ELSE MatchNext(f[i - 1], s[i], url)]
    <2>1. \A i \in 0 .. n : h[i] = IF i = 0 THEN AtStart ELSE MatchNext(f[i - 1], s[i], url)
        OBVIOUS
    <2>2. f = h
        BY <1>0, Zenon
    <2> HIDE DEF h
    <2>. QED
        BY <2>1, <2>2
<1>1. 0 \in T
    <2>1. Is([i \in 0 .. 0 |-> AtStart], 0)
        OBVIOUS
    <2>. QED
        BY <2>1, Zenon
<1>2. ASSUME NEW m \in T PROVE m + 1 \in T
    <2>0. m \in Nat /\ m + 1 \in Nat
        BY <1>2
    <2>1. PICK f : Is(f, m)
        BY <1>2
    <2> DEFINE g == [i \in 0 .. m + 1 |-> IF i = m + 1 THEN MatchNext(f[m], s[m + 1], url) ELSE f[i]]
    <2>2. \A i \in 0 .. m : g[i] = f[i]
        OBVIOUS
    <2>3. \A i \in 0 .. m + 1 : g[i] = IF i = 0 THEN AtStart ELSE MatchNext(g[i - 1], s[i], url)
        <3> TAKE i \in 0 .. m + 1
        <3>1. CASE i = m + 1
            <4>1. i # 0 /\ i - 1 = m /\ m \in 0 .. m
                BY <2>0, <3>1
            <4>2. g[i] = MatchNext(f[m], s[i], url) /\ g[i - 1] = f[m]
                BY <2>2, <3>1, <4>1, Zenon
            <4>. QED
                BY <4>1, <4>2, Zenon
        <3>2. CASE i # m + 1
            <4>1. f[i] = IF i = 0 THEN AtStart ELSE MatchNext(f[i - 1], s[i], url)
                <5>1. i \in 0 .. m
                    BY <2>0, <3>2
                <5>. QED
                    BY <1>0, <2>0, <2>1, <5>1, Zenon
            <4>2. g[i] = f[i] /\ (i # 0 => g[i - 1] = f[i - 1])
                BY <2>0, <2>2, <3>2
            <4>. QED
                BY <4>1, <4>2
        <3>. QED
            BY <3>1, <3>2
    <2>4. Is(g, m + 1)
        BY <2>3
    <2>. QED
        BY <2>0, <2>4, Zenon
<1>3. Len(s) \in T
    <2> HIDE DEF T
    <2>. QED
        BY <1>1, <1>2, AllNats DEF T
<1>4. PICK f : Is(f, Len(s))
    BY <1>3
<1>5. Is(MatchTo(s, url), Len(s))
    BY <1>4 DEF MatchTo, AtStart
<1>6. \A i \in 0 .. Len(s) :
         MatchTo(s, url)[i] = IF i = 0 THEN AtStart ELSE MatchNext(MatchTo(s, url)[i - 1], s[i], url)
    BY <1>0, <1>5, Zenon
<1>7. 0 \in 0 .. Len(s) /\ \A i \in 1 .. Len(s) : i \in 0 .. Len(s) /\ i # 0
    OBVIOUS
<1>. QED
    BY <1>6, <1>7, Zenon

(* Match of a path depends on the path alone, and so on its start.         *)
LEMMA MatchStarts ==
    ASSUME NEW url, NEW s, Len(s) \in Nat, NEW t, Len(t) \in Nat,
           NEW n \in Nat, n <= Len(s), n <= Len(t), \A i \in 1 .. n : s[i] = t[i]
    PROVE  MatchTo(s, url)[n] = MatchTo(t, url)[n]
<1> DEFINE T == {k \in Nat : k <= n => MatchTo(s, url)[k] = MatchTo(t, url)[k]}
<1>1. 0 \in T
    BY MatchToSteps
<1>2. ASSUME NEW k \in T PROVE k + 1 \in T
    <2> SUFFICES ASSUME k + 1 <= n PROVE MatchTo(s, url)[k + 1] = MatchTo(t, url)[k + 1]
        OBVIOUS
    <2>1. k \in Nat /\ k + 1 \in 1 .. n /\ k + 1 \in 1 .. Len(s) /\ k + 1 \in 1 .. Len(t)
          /\ (k + 1) - 1 = k /\ k <= n
        OBVIOUS
    <2>2. s[k + 1] = t[k + 1] /\ MatchTo(s, url)[k] = MatchTo(t, url)[k]
        BY <2>1
    <2>3. /\ MatchTo(s, url)[k + 1] = MatchNext(MatchTo(s, url)[(k + 1) - 1], s[k + 1], url)
          /\ MatchTo(t, url)[k + 1] = MatchNext(MatchTo(t, url)[(k + 1) - 1], t[k + 1], url)
        BY <2>1, MatchToSteps
    <2>. QED
        BY <2>1, <2>2, <2>3
<1>3. n \in T
    <2> HIDE DEF T
    <2>. QED
        BY <1>1, <1>2, AllNats DEF T
<1>. QED
    BY <1>3

(* The values of parameters of a URL are in V.                             *)
Values(V, url) ==
    \A p \in ToSet(ParamTypes) : \A i, j \in Nat : ValueOf(p, SubSeq(url, i, j)) \in V

MatchType(V, url) == [pos : 0 .. Len(url) + 1, params : Seq(V)]

(* One step: nothing matches, or a character, or a parameter.              *)
Stepped(V, url, m, e, next) ==
    /\ next \in MatchType(V, url)
    /\ next.pos > 0 => m.pos \in 1 .. Len(url) /\ next.pos > m.pos
    /\ next.pos > 0 /\ ~IsParam(e) =>
          next.pos = m.pos + 1 /\ next.params = m.params /\ url[m.pos] = e
    /\ m.pos \in 1 .. Len(url) /\ ~IsParam(e) /\ url[m.pos] = e => next.pos > 0
    /\ m.pos \in 1 .. Len(url) /\ IsParam(e) =>
          LET k == Taken(e, url, m.pos)
          IN  IF k = 0 THEN next.pos = 0
              ELSE /\ next.pos = m.pos + k
                   /\ next.params = m.params \o
                        <<ValueOf(e, SubSeq(url, m.pos, m.pos + k - 1))>>

LEMMA MatchSteps ==
    ASSUME NEW V, NEW C, NEW url \in Seq(C), Values(V, url), NEW m \in MatchType(V, url), NEW e
    PROVE  Stepped(V, url, m, e, MatchNext(m, e, url))
<1> DEFINE next == MatchNext(m, e, url)
           k == Taken(e, url, m.pos)
           value == ValueOf(e, SubSeq(url, m.pos, m.pos + k - 1))
<1>1. DOMAIN url = 1 .. Len(url) /\ Len(url) \in Nat /\ m.pos \in 0 .. Len(url) + 1 /\ m.params \in Seq(V)
    BY DEF MatchType
<1>2. CASE m.pos \notin 1 .. Len(url)
    <2>1. next = NoMatch
        BY <1>1, <1>2 DEF MatchNext
    <2>. QED
        BY <1>1, <1>2, <2>1 DEF NoMatch, MatchType, Stepped
<1>3. CASE m.pos \in 1 .. Len(url) /\ ~IsParam(e)
    <2>1. CASE url[m.pos] = e
        <3>1. next = [pos |-> m.pos + 1, params |-> m.params \o <<>>]
            BY <1>1, <1>3, <2>1 DEF MatchNext
        <3>2. m.params \o <<>> = m.params
            BY <1>1
        <3>. QED
            BY <1>1, <1>3, <2>1, <3>1, <3>2 DEF MatchType, Stepped
    <2>2. CASE url[m.pos] # e
        <3>1. next = NoMatch
            BY <1>1, <1>3, <2>2 DEF MatchNext
        <3>. QED
            BY <1>1, <1>3, <2>2, <3>1 DEF NoMatch, MatchType, Stepped
    <2>. QED
        BY <2>1, <2>2
<1>4. CASE m.pos \in 1 .. Len(url) /\ IsParam(e)
    <2>1. k \in 0 .. Len(url) - m.pos + 1
        BY <1>1, <1>4, TakenBounds DEF IsParam
    <2>2. CASE k = 0
        <3>1. next = NoMatch
            BY <1>1, <1>4, <2>2 DEF MatchNext
        <3>. QED
            BY <1>1, <1>4, <2>2, <3>1 DEF NoMatch, MatchType, Stepped
    <2>3. CASE k # 0
        <3>1. next = [pos |-> m.pos + k, params |-> m.params \o <<value>>]
            BY <1>1, <1>4, <2>3 DEF MatchNext
        <3>2. value \in V
            <4>1. m.pos \in Nat /\ m.pos + k - 1 \in Nat /\ e \in ToSet(ParamTypes)
                BY <1>4, <2>1 DEF IsParam
            <4>. QED
                BY <4>1, Zenon DEF Values
        <3> HIDE DEF k, value
        <3>3. m.params \o <<value>> \in Seq(V)
            BY <1>1, <3>2
        <3>4. m.pos + k \in 0 .. Len(url) + 1 /\ m.pos + k > m.pos
            BY <1>4, <2>1, <2>3
        <3>5. next \in MatchType(V, url) /\ next.pos = m.pos + k /\ next.params = m.params \o <<value>>
            BY <3>1, <3>3, <3>4 DEF MatchType
        <3> HIDE DEF next
        <3>. QED
            BY <1>4, <2>3, <3>4, <3>5 DEF k, value, next, Stepped
    <2>. QED
        BY <2>2, <2>3
<1>. QED
    BY <1>1, <1>2, <1>3, <1>4 DEF Stepped

LEMMA MatchTyped ==
    ASSUME NEW V, NEW C, NEW url \in Seq(C), Values(V, url), NEW s, Len(s) \in Nat
    PROVE  \A k \in 0 .. Len(s) : MatchTo(s, url)[k] \in MatchType(V, url)
<1> DEFINE T == {k \in Nat : k <= Len(s) => MatchTo(s, url)[k] \in MatchType(V, url)}
<1>1. 0 \in T
    <2>1. AtStart \in MatchType(V, url)
        BY DEF AtStart, MatchType
    <2>. QED
        BY <2>1, MatchToSteps
<1>2. ASSUME NEW k \in T PROVE k + 1 \in T
    <2> SUFFICES ASSUME k + 1 <= Len(s) PROVE MatchTo(s, url)[k + 1] \in MatchType(V, url)
        OBVIOUS
    <2>1. k \in Nat /\ k + 1 \in 1 .. Len(s) /\ (k + 1) - 1 = k /\ k <= Len(s)
        OBVIOUS
    <2>2. MatchTo(s, url)[k + 1] = MatchNext(MatchTo(s, url)[(k + 1) - 1], s[k + 1], url)
        BY <2>1, MatchToSteps
    <2>3. MatchTo(s, url)[k] \in MatchType(V, url)
        BY <2>1
    <2>4. Stepped(V, url, MatchTo(s, url)[k], s[k + 1], MatchTo(s, url)[k + 1])
        BY <2>1, <2>2, <2>3, MatchSteps
    <2>. QED
        BY <2>4 DEF Stepped
<1>3. \A k \in Nat : k \in T
    <2> HIDE DEF T
    <2>. QED
        BY <1>1, <1>2, AllNats DEF T
<1>. QED
    BY <1>3

(* What a path matches, a path that starts with it matches first.          *)
LEMMA StartMatches ==
    ASSUME NEW V, NEW C, NEW url \in Seq(C), Values(V, url), NEW s, Len(s) \in Nat,
           NEW k \in Nat, NEW l \in Nat, k <= l, l <= Len(s), MatchTo(s, url)[l].pos > 0
    PROVE  /\ MatchTo(s, url)[k].pos > 0
           /\ k < l => MatchTo(s, url)[k].pos \in 1 .. Len(url)
<1> DEFINE Pos(i) == MatchTo(s, url)[i].pos
           T == {i \in Nat : k <= i /\ i <= Len(s) /\ Pos(i) > 0 =>
                                Pos(k) > 0 /\ (k < i => Pos(k) < Pos(i))}
<1>0. \A i \in 0 .. Len(s) : Pos(i) \in 0 .. Len(url) + 1
    BY MatchTyped DEF MatchType
<1>1. 0 \in T
    OBVIOUS
<1>2. ASSUME NEW i \in T PROVE i + 1 \in T
    <2> SUFFICES ASSUME k <= i + 1, i + 1 <= Len(s), Pos(i + 1) > 0
                 PROVE  Pos(k) > 0 /\ (k < i + 1 => Pos(k) < Pos(i + 1))
        OBVIOUS
    <2>1. i \in Nat /\ i + 1 \in 1 .. Len(s) /\ (i + 1) - 1 = i /\ i \in 0 .. Len(s)
        OBVIOUS
    <2>2. MatchTo(s, url)[i + 1] = MatchNext(MatchTo(s, url)[(i + 1) - 1], s[i + 1], url)
        BY <2>1, MatchToSteps
    <2>3. MatchTo(s, url)[i] \in MatchType(V, url)
        BY <2>1, MatchTyped
    <2>4. Pos(i) \in 1 .. Len(url) /\ Pos(i) < Pos(i + 1)
        <3>1. Stepped(V, url, MatchTo(s, url)[i], s[i + 1], MatchTo(s, url)[i + 1])
            BY <2>1, <2>2, <2>3, MatchSteps
        <3>. QED
            BY <2>1, <3>1 DEF Stepped
    <2>5. k <= i => Pos(k) > 0 /\ (k < i => Pos(k) < Pos(i))
        BY <2>1, <2>4
    <2>6. CASE k = i + 1
        BY <2>1, <2>6
    <2>7. CASE k <= i
        <3>1. Pos(k) \in 0 .. Len(url) + 1 /\ Pos(i) \in 0 .. Len(url) + 1 /\ Pos(i + 1) \in 0 .. Len(url) + 1
            BY <1>0, <2>1, <2>7
        <3> HIDE DEF Pos
        <3>. QED
            BY <2>1, <2>4, <2>5, <2>7, <3>1
    <2>. QED
        BY <2>1, <2>6, <2>7
<1>3. l \in T
    <2> HIDE DEF T
    <2>. QED
        BY <1>1, <1>2, AllNats DEF T
<1>4. Pos(k) > 0 /\ (k < l => Pos(k) < Pos(l))
    BY <1>3
<1>5. k \in 0 .. Len(s) /\ l \in 0 .. Len(s)
    OBVIOUS
<1>6. Pos(k) \in 0 .. Len(url) + 1 /\ Pos(l) \in 0 .. Len(url) + 1
    BY <1>0, <1>5
<1> HIDE DEF Pos
<1>7. Pos(k) > 0 /\ (k < l => Pos(k) \in 1 .. Len(url))
    BY <1>4, <1>6
<1>. QED
    BY <1>7 DEF Pos

LEMMA MatchAppend ==
    ASSUME NEW D, NEW s \in Seq(D), NEW e \in D, NEW url
    PROVE  Match(Append(s, e), url) = MatchNext(Match(s, url), e, url)
<1> DEFINE t == Append(s, e)
<1>1. /\ Len(s) \in Nat /\ Len(t) = Len(s) + 1 /\ t[Len(s) + 1] = e
      /\ \A i \in 1 .. Len(s) : s[i] = t[i]
    OBVIOUS
<1> HIDE DEF t
<1>2. MatchTo(s, url)[Len(s)] = MatchTo(t, url)[Len(s)]
    BY <1>1, MatchStarts
<1>3. Len(t) \in Nat /\ Len(s) + 1 \in 1 .. Len(t) /\ (Len(s) + 1) - 1 = Len(s)
    BY <1>1
<1>4. MatchTo(t, url)[Len(s) + 1] = MatchNext(MatchTo(t, url)[(Len(s) + 1) - 1], t[Len(s) + 1], url)
    BY <1>3, MatchToSteps
<1>. QED
    BY <1>1, <1>2, <1>3, <1>4 DEF Match, t

(* Characters of a path match those of the URL, one by one.                *)
Agree(s, url, p, k, l) == \A i \in k + 1 .. l : url[p + (i - k) - 1] = s[i]

LEMMA CharsMatch ==
    ASSUME NEW V, NEW C, NEW url \in Seq(C), Values(V, url), NEW s, Len(s) \in Nat,
           NEW k \in Nat, NEW l \in Nat, k <= l, l <= Len(s),
           \A i \in k + 1 .. l : ~IsParam(s[i]),
           NEW p, p = MatchTo(s, url)[k].pos, p > 0
    PROVE  /\ MatchTo(s, url)[l].pos > 0 =>
                 /\ p + (l - k) <= Len(url) + 1 /\ Agree(s, url, p, k, l)
                 /\ MatchTo(s, url)[l].pos = p + (l - k)
                 /\ MatchTo(s, url)[l].params = MatchTo(s, url)[k].params
           /\ p + (l - k) <= Len(url) + 1 /\ Agree(s, url, p, k, l) => MatchTo(s, url)[l].pos > 0
<1> DEFINE M(i) == MatchTo(s, url)[i]
           Fits(i) == p + (i - k) <= Len(url) + 1 /\ Agree(s, url, p, k, i)
           T == {i \in Nat : k <= i /\ i <= l =>
                    /\ M(i).pos > 0 => /\ Fits(i) /\ M(i).pos = p + (i - k)
                                       /\ M(i).params = M(k).params
                    /\ Fits(i) => M(i).pos > 0}
<1>0. p \in 1 .. Len(url) + 1 /\ Len(url) \in Nat
    BY MatchTyped DEF MatchType
<1>1. 0 \in T
    BY <1>0 DEF Agree
<1>2. ASSUME NEW i \in T PROVE i + 1 \in T
    <2>0. i \in Nat
        OBVIOUS
    <2> SUFFICES ASSUME k <= i + 1, i + 1 <= l
                 PROVE  /\ M(i + 1).pos > 0 => /\ Fits(i + 1) /\ M(i + 1).pos = p + (i + 1 - k)
                                               /\ M(i + 1).params = M(k).params
                        /\ Fits(i + 1) => M(i + 1).pos > 0
        BY <2>0
    <2>1. CASE k = i + 1
        BY <1>0, <2>0, <2>1 DEF Agree
    <2>2. CASE k <= i
        <3>1. i + 1 \in 1 .. Len(s) /\ i \in 0 .. Len(s) /\ (i + 1) - 1 = i /\ i + 1 \in k + 1 .. l
            BY <2>0, <2>2
        <3>2. M(i + 1) = MatchNext(M(i), s[i + 1], url)
            BY <3>1, MatchToSteps
        <3>3. M(i) \in MatchType(V, url) /\ ~IsParam(s[i + 1])
            BY <3>1, MatchTyped
        <3>4. /\ M(i).pos > 0 => /\ Fits(i) /\ M(i).pos = p + (i - k)
                                 /\ M(i).params = M(k).params
              /\ Fits(i) => M(i).pos > 0
            BY <2>0, <2>2
        <3> HIDE DEF M
        <3>. Stepped(V, url, M(i), s[i + 1], M(i + 1))
            BY <3>2, <3>3, MatchSteps
        <3>5. M(i + 1).pos > 0 => /\ M(i).pos \in 1 .. Len(url) /\ M(i + 1).pos = M(i).pos + 1
                                  /\ M(i + 1).params = M(i).params
                                  /\ url[M(i).pos] = s[i + 1]
            BY <3>3 DEF Stepped
        <3>6. M(i).pos \in 1 .. Len(url) /\ url[M(i).pos] = s[i + 1] => M(i + 1).pos > 0
            BY <3>3 DEF Stepped
        <3>7. /\ p + ((i + 1) - k) - 1 = p + (i - k) /\ p + (i - k) >= 1
              /\ p + ((i + 1) - k) <= Len(url) + 1 <=> p + (i - k) <= Len(url)
              /\ p + ((i + 1) - k) = p + (i - k) + 1
            BY <1>0, <2>0, <2>2
        <3>8. Agree(s, url, p, k, i + 1) <=> Agree(s, url, p, k, i) /\ url[p + (i - k)] = s[i + 1]
            <4>1. \A j \in k + 1 .. i + 1 : j \in k + 1 .. i \/ j = i + 1
                BY <2>0
            <4>2. \A j \in k + 1 .. i : j \in k + 1 .. i + 1
                BY <2>0
            <4>. QED
                BY <3>1, <3>7, <4>1, <4>2 DEF Agree
        <3>9. ASSUME M(i + 1).pos > 0
              PROVE  /\ Fits(i + 1) /\ M(i + 1).pos = p + (i + 1 - k)
                     /\ M(i + 1).params = M(k).params
            <4>1. M(i).pos > 0
                BY <3>5, <3>9
            <4>2. M(i).pos = p + (i - k) /\ M(i).params = M(k).params /\ Agree(s, url, p, k, i)
                BY <3>4, <4>1
            <4>. QED
                BY <1>0, <2>0, <3>5, <3>7, <3>8, <3>9, <4>2
        <3>10. ASSUME Fits(i + 1) PROVE M(i + 1).pos > 0
            <4>1. Fits(i)
                BY <1>0, <2>0, <3>7, <3>8, <3>10
            <4>2. M(i).pos > 0 /\ M(i).pos = p + (i - k)
                BY <3>4, <4>1
            <4>. QED
                BY <1>0, <2>0, <3>6, <3>7, <3>8, <3>10, <4>2
        <3>. QED
            BY <3>9, <3>10
    <2>. QED
        BY <2>0, <2>1, <2>2
<1>3. l \in T
    <2> HIDE DEF T
    <2>. QED
        BY <1>1, <1>2, AllNats DEF T
<1>. QED
    BY <1>3

----------------------------------------------------------------------------
(* The trie                                                                *)

LEMMA FirstOf ==
    ASSUME NEW D, NEW s \in Seq(D), NEW k \in 0 .. Len(s)
    PROVE  /\ SubSeq(s, 1, k) \in Seq(D) /\ Len(SubSeq(s, 1, k)) = k
           /\ \A i \in 1 .. k : SubSeq(s, 1, k)[i] = s[i]
<1>1. Len(s) \in Nat
    OBVIOUS
<1>2. 1 \in 1 .. Len(s) + 1 /\ k \in (1 - 1) .. Len(s) /\ k - 1 + 1 = k /\ (1 > k => k = 0)
    BY <1>1
<1>3. /\ SubSeq(s, 1, k) \in Seq(D)
      /\ Len(SubSeq(s, 1, k)) = IF 1 <= k THEN k - 1 + 1 ELSE 0
      /\ \A i \in 1 .. k - 1 + 1 : SubSeq(s, 1, k)[i] = s[1 + i - 1]
    BY <1>2, SubSeqProperties
<1>4. \A i \in 1 .. k : 1 + i - 1 = i
    BY <1>1
<1>. QED
    BY <1>1, <1>2, <1>3, <1>4

(* Two paths that agree on every element are one.                          *)
LEMMA SamePath ==
    ASSUME NEW D, NEW s \in Seq(D), NEW t \in Seq(D), Len(s) = Len(t),
           \A i \in 1 .. Len(s) : s[i] = t[i]
    PROVE  s = t
BY SeqEqual

(* What the rules add: their paths, and those without the slash at the end. *)
LEMMA EntriesAre ==
    ASSUME NEW rules \in Seq(Rules), NEW e \in Entries(rules)
    PROVE  e.path \in Seq(STRING) /\ e.index \in Nat \ {0}
<1>1. PICK i \in DOMAIN rules : e \in EntriesOf(rules, i)
    BY DEF Entries
<1>2. rules[i] \in Rules /\ i \in Nat
    OBVIOUS
<1>3. rules[i].path \in Seq(STRING) /\ rules[i].path # <<>>
    BY <1>2 DEF Rules
<1>4. Front(rules[i].path) \in Seq(STRING)
    <2>1. Len(rules[i].path) - 1 \in 0 .. Len(rules[i].path)
        BY <1>3
    <2>. QED
        BY <1>3, <2>1, FirstOf DEF Front
<1>5. \/ e = [rule |-> i, path |-> rules[i].path, index |-> i + 1]
      \/ e = [rule |-> i, path |-> Front(rules[i].path), index |-> RuleSpecialRedirectSlash]
    BY <1>1 DEF EntriesOf
<1>. QED
    BY <1>2, <1>3, <1>4, <1>5 DEF RuleSpecialRedirectSlash

LEMMA NodesAre ==
    ASSUME NEW rules \in Seq(Rules)
    PROVE  /\ <<>> \in Nodes(rules)
           /\ \A n \in Nodes(rules) : /\ n \in Seq(STRING)
                                      /\ n # <<>> => \E e \in Entries(rules) : \E k \in 1 .. Len(e.path) :
                                                         n = SubSeq(e.path, 1, k)
<1>1. <<>> \in Nodes(rules)
    BY DEF Nodes
<1>2. ASSUME NEW n \in Nodes(rules)
      PROVE  /\ n \in Seq(STRING)
             /\ n # <<>> => \E e \in Entries(rules) : \E k \in 1 .. Len(e.path) : n = SubSeq(e.path, 1, k)
    <2>1. CASE n = <<>>
        BY <2>1
    <2>2. CASE n # <<>>
        <3>1. PICK e \in Entries(rules) : n \in {SubSeq(e.path, 1, k) : k \in 1 .. Len(e.path)}
            BY <2>2 DEF Nodes
        <3>2. PICK k \in 1 .. Len(e.path) : n = SubSeq(e.path, 1, k)
            BY <3>1
        <3>3. e.path \in Seq(STRING) /\ k \in 0 .. Len(e.path)
            BY EntriesAre, <3>2
        <3>. QED
            BY <3>2, <3>3, FirstOf
    <2>. QED
        BY <2>1, <2>2
<1>. QED
    BY <1>1, <1>2

(* With a path the trie has all that the path starts with.                 *)
LEMMA NodesStart ==
    ASSUME NEW rules \in Seq(Rules), NEW n \in Nodes(rules), NEW k \in 0 .. Len(n)
    PROVE  SubSeq(n, 1, k) \in Nodes(rules)
<1>1. CASE k = 0
    <2>1. n \in Seq(STRING) /\ Len(n) \in Nat
        BY NodesAre
    <2>2. Len(SubSeq(n, 1, k)) = 0 /\ SubSeq(n, 1, k) \in Seq(STRING)
        BY <1>1, <2>1, FirstOf
    <2>3. SubSeq(n, 1, k) = <<>>
        BY <2>2
    <2>. QED
        BY <2>3, NodesAre
<1>2. CASE k # 0
    <2>1. n \in Seq(STRING) /\ n # <<>>
        BY <1>2, NodesAre
    <2>2. PICK e \in Entries(rules) : \E l \in 1 .. Len(e.path) : n = SubSeq(e.path, 1, l)
        BY <2>1, NodesAre
    <2>3. PICK l \in 1 .. Len(e.path) : n = SubSeq(e.path, 1, l)
        BY <2>2
    <2>4. e.path \in Seq(STRING) /\ Len(e.path) \in Nat
        BY EntriesAre
    <2>5. l \in 0 .. Len(e.path)
        BY <2>4
    <2>6. Len(n) = l /\ \A i \in 1 .. l : n[i] = e.path[i]
        BY <2>3, <2>4, <2>5, FirstOf
    <2>7. k \in 1 .. Len(e.path) /\ k \in 0 .. Len(e.path) /\ \A i \in 1 .. k : i \in 1 .. l
        BY <1>2, <2>4, <2>6
    <2>8. /\ SubSeq(n, 1, k) \in Seq(STRING) /\ Len(SubSeq(n, 1, k)) = k
          /\ \A i \in 1 .. k : SubSeq(n, 1, k)[i] = n[i]
        BY <2>1, FirstOf
    <2>9. /\ SubSeq(e.path, 1, k) \in Seq(STRING) /\ Len(SubSeq(e.path, 1, k)) = k
          /\ \A i \in 1 .. k : SubSeq(e.path, 1, k)[i] = e.path[i]
        BY <2>4, <2>7, FirstOf
    <2>10. SubSeq(n, 1, k) = SubSeq(e.path, 1, k)
        BY <2>6, <2>7, <2>8, <2>9, SamePath
    <2>11. SubSeq(e.path, 1, k) \in Nodes(rules)
        BY <2>7 DEF Nodes
    <2>. QED
        BY <2>10, <2>11
<1>. QED
    BY <1>1, <1>2

(* A node has the index of the entry whose path it is.                     *)
LEMMA IndexIs ==
    ASSUME NEW rules \in Seq(Rules), CanBuild(rules)
    PROVE  /\ DOMAIN Index(rules) = Nodes(rules)
           /\ \A e \in Entries(rules) : e.path \in Nodes(rules) /\ Index(rules)[e.path] = e.index
           /\ \A n \in Nodes(rules) :
                 /\ Index(rules)[n] \in Nat
                 /\ Index(rules)[n] # 0 => \E e \in Entries(rules) : e.path = n /\ e.index = Index(rules)[n]
<1> DEFINE Here(n) == {e \in Entries(rules) : e.path = n}
           chosen(n) == CHOOSE e \in Here(n) : TRUE
<1>1. \A n \in Nodes(rules) : Index(rules)[n] = IF Here(n) = {} THEN 0 ELSE chosen(n).index
    BY DEF Index
<1>2. \A n : Here(n) # {} => chosen(n) \in Entries(rules) /\ chosen(n).path = n
    <2> TAKE n
    <2>1. Here(n) # {} => chosen(n) \in Here(n)
        BY Zenon
    <2>. QED
        BY <2>1
<1>3. ASSUME NEW e \in Entries(rules)
      PROVE  e.path \in Nodes(rules) /\ Index(rules)[e.path] = e.index
    <2>1. e.path \in Seq(STRING) /\ e.path # <<>>
        BY EntriesAre DEF CanBuild
    <2>2. Len(e.path) \in 1 .. Len(e.path) /\ SubSeq(e.path, 1, Len(e.path)) = e.path
        BY <2>1, SubSeqFull
    <2>3. e.path \in Nodes(rules)
        BY <2>2 DEF Nodes
    <2>4. Here(e.path) # {}
        OBVIOUS
    <2>5. chosen(e.path) = e
        <3> DEFINE f == chosen(e.path)
        <3>1. f \in Entries(rules) /\ f.path = e.path
            BY <1>2, <2>4
        <3> HIDE DEF f
        <3>2. f = e
            BY <3>1 DEF CanBuild
        <3>. QED
            BY <3>2 DEF f
    <2> HIDE DEF chosen, Here
    <2>. QED
        BY <1>1, <2>3, <2>4, <2>5
<1>4. ASSUME NEW n \in Nodes(rules)
      PROVE  /\ Index(rules)[n] \in Nat
             /\ Index(rules)[n] # 0 => \E e \in Entries(rules) : e.path = n /\ e.index = Index(rules)[n]
    <2>1. CASE Here(n) = {}
        <3> HIDE DEF Here
        <3>. QED
            BY <1>1, <2>1
    <2>2. CASE Here(n) # {}
        <3> DEFINE f == chosen(n)
        <3>1. f \in Entries(rules) /\ f.path = n /\ Index(rules)[n] = f.index
            <4> HIDE DEF Here
            <4>. QED
                BY <1>1, <1>2, <2>2
        <3> HIDE DEF f
        <3>. QED
            BY <3>1, EntriesAre
    <2>. QED
        BY <2>1, <2>2
<1>5. DOMAIN Index(rules) = Nodes(rules)
    BY DEF Index
<1>. QED
    BY <1>3, <1>4, <1>5

(* n is the start of m.                                                    *)
Starts(n, m) == Len(n) <= Len(m) /\ \A i \in 1 .. Len(n) : m[i] = n[i]

(* The nodes below n, itself included, whose path matches all of the URL.  *)
EndsOf(rules, url, n) == {m \in Nodes(rules) : Starts(n, m) /\ Matches(m, url)}

LEMMA StartIs ==
    ASSUME NEW D, NEW n \in Seq(D), NEW m \in Seq(D)
    PROVE  Starts(n, m) <=> Len(n) <= Len(m) /\ SubSeq(m, 1, Len(n)) = n
<1>1. CASE Len(n) <= Len(m)
    <2>1. Len(n) \in 0 .. Len(m)
        BY <1>1
    <2>2. /\ SubSeq(m, 1, Len(n)) \in Seq(D) /\ Len(SubSeq(m, 1, Len(n))) = Len(n)
          /\ \A i \in 1 .. Len(n) : SubSeq(m, 1, Len(n))[i] = m[i]
        BY <2>1, FirstOf
    <2>3. Starts(n, m) => SubSeq(m, 1, Len(n)) = n
        BY <2>2, SamePath DEF Starts
    <2>4. SubSeq(m, 1, Len(n)) = n => Starts(n, m)
        BY <1>1, <2>2 DEF Starts
    <2>. QED
        BY <1>1, <2>3, <2>4 DEF Starts
<1>2. CASE ~(Len(n) <= Len(m))
    BY <1>2 DEF Starts
<1>. QED
    BY <1>1, <1>2

LEMMA BelowIs ==
    ASSUME NEW rules \in Seq(Rules), NEW n \in Nodes(rules), NEW m \in Below(Nodes(rules), n)
    PROVE  /\ m \in Nodes(rules) /\ m \in Seq(STRING) /\ n \in Seq(STRING)
           /\ Starts(n, m) /\ Len(n) < Len(m) /\ \A i \in Len(n) + 1 .. Len(m) : ~IsParam(m[i])
           /\ n \o SubSeq(m, Len(n) + 1, Len(m)) = m
           /\ SubSeq(m, Len(n) + 1, Len(m)) \in Seq(STRING)
           /\ Len(SubSeq(m, Len(n) + 1, Len(m))) = Len(m) - Len(n)
           /\ \A j \in 1 .. Len(m) - Len(n) : SubSeq(m, Len(n) + 1, Len(m))[j] = m[Len(n) + j]
<1>1. /\ m \in Nodes(rules) /\ Len(n) < Len(m) /\ SubSeq(m, 1, Len(n)) = n
      /\ \A i \in Len(n) + 1 .. Len(m) : ~IsParam(m[i])
    BY DEF Below
<1>2. m \in Seq(STRING) /\ n \in Seq(STRING)
    BY <1>1, NodesAre
<1>3. Len(m) \in Nat /\ Len(n) \in Nat
    BY <1>2
<1>4. Starts(n, m)
    BY <1>1, <1>2, <1>3, StartIs
<1>5. /\ 1 \in 1 .. Len(m) + 1 /\ Len(n) \in (1 - 1) .. Len(m) /\ Len(m) \in Len(n) .. Len(m)
      /\ Len(n) + 1 \in Int /\ Len(m) \in Int /\ Len(n) + 1 <= Len(m)
      /\ Len(m) - (Len(n) + 1) + 1 = Len(m) - Len(n)
    BY <1>1, <1>3
<1>6. SubSeq(m, 1, Len(n)) \o SubSeq(m, Len(n) + 1, Len(m)) = SubSeq(m, 1, Len(m))
    BY <1>2, <1>5, ConcatAdjacentSubSeq
<1>7. n \o SubSeq(m, Len(n) + 1, Len(m)) = m
    BY <1>1, <1>2, <1>6, SubSeqFull
<1>8. \A i \in Len(n) + 1 .. Len(m) : m[i] \in STRING
    BY <1>2, <1>3
<1>9. /\ SubSeq(m, Len(n) + 1, Len(m)) \in Seq(STRING)
      /\ Len(SubSeq(m, Len(n) + 1, Len(m))) = Len(m) - Len(n)
      /\ \A j \in 1 .. Len(m) - Len(n) : SubSeq(m, Len(n) + 1, Len(m))[j] = m[Len(n) + 1 + j - 1]
    BY <1>5, <1>8, SubSeqProperties
<1>10. \A j \in 1 .. Len(m) - Len(n) : Len(n) + 1 + j - 1 = Len(n) + j
    BY <1>3
<1>. QED
    BY <1>1, <1>2, <1>4, <1>7, <1>9, <1>10

(* Where the characters end that follow the first k elements.              *)
LEMMA RunEnds ==
    ASSUME NEW s \in Seq(STRING), NEW k \in 0 .. Len(s), k < Len(s), ~IsParam(s[k + 1])
    PROVE  \E l \in k + 1 .. Len(s) : /\ \A i \in k + 1 .. l : ~IsParam(s[i])
                                      /\ l = Len(s) \/ IsParam(s[l + 1])
<1> DEFINE S == {i \in k + 2 .. Len(s) : IsParam(s[i])}
<1>0. Len(s) \in Nat /\ k \in Nat
    OBVIOUS
<1>1. CASE S = {}
    <2>1. \A i \in k + 1 .. Len(s) : i = k + 1 \/ i \in k + 2 .. Len(s)
        BY <1>0
    <2>2. \A i \in k + 1 .. Len(s) : ~IsParam(s[i])
        BY <1>1, <2>1
    <2>3. Len(s) \in k + 1 .. Len(s)
        BY <1>0
    <2>. QED
        BY <2>2, <2>3
<1>2. CASE S # {}
    <2>1. S \in SUBSET Nat
        BY <1>0
    <2>2. Min(S) \in S /\ \A i \in S : Min(S) <= i
        BY <1>2, <2>1, LeastNat
    <2>3. PICK j : j = Min(S)
        OBVIOUS
    <2>4. /\ j \in k + 2 .. Len(s) /\ IsParam(s[j])
          /\ \A i \in k + 2 .. Len(s) : IsParam(s[i]) => j <= i
        BY <2>2, <2>3
    <2>5. j - 1 \in k + 1 .. Len(s) /\ (j - 1) + 1 = j
        BY <1>0, <2>4
    <2>6. \A i \in k + 1 .. j - 1 : i = k + 1 \/ (i \in k + 2 .. Len(s) /\ ~(j <= i))
        BY <1>0, <2>4
    <2>7. \A i \in k + 1 .. j - 1 : ~IsParam(s[i])
        BY <2>4, <2>6
    <2>. QED
        BY <2>4, <2>5, <2>7
<1>. QED
    BY <1>1, <1>2

(* The fragments of a node all have one length, and lead to nodes.         *)
LEMMA FragmentsAre ==
    ASSUME NEW rules \in Seq(Rules), CanBuild(rules), NEW n \in Nodes(rules)
    PROVE  /\ \A f \in Fragments(Index(rules), n) :
                 \E m \in Below(Nodes(rules), n) : f = SubSeq(m, Len(n) + 1, Len(m))
           /\ \A f, g \in Fragments(Index(rules), n) : Len(f) = Len(g)
<1> DEFINE ns == Nodes(rules)
           idx == Index(rules)
           Simple(m) == idx[m] = 0 /\ Params(ns, m) = {}
           stops == {Len(m) : m \in {m \in Below(ns, n) : ~Simple(m)}}
<1>1. DOMAIN idx = ns
    BY IndexIs
<1>2. Fragments(idx, n) = IF stops = {} THEN {} ELSE Level(ns, n, Min(stops))
    BY <1>1 DEF Fragments
<1> HIDE DEF stops
<1>3. \A f \in Fragments(idx, n) : \E m \in Below(ns, n) : Len(m) = Min(stops) /\ f = SubSeq(m, Len(n) + 1, Len(m))
    BY <1>2 DEF Level
<1>4. \A f \in Fragments(idx, n) : Len(f) = Min(stops) - Len(n)
    <2> TAKE f \in Fragments(idx, n)
    <2>1. PICK m \in Below(ns, n) : Len(m) = Min(stops) /\ f = SubSeq(m, Len(n) + 1, Len(m))
        BY <1>3
    <2>. QED
        BY <2>1, BelowIs
<1>. QED
    BY <1>3, <1>4

(* On the way to a node with an index there is a fragment, unless the next *)
(* element is a parameter.                                                 *)
LEMMA FragmentsLead ==
    ASSUME NEW rules \in Seq(Rules), CanBuild(rules), NEW n \in Nodes(rules),
           NEW m \in Nodes(rules), Starts(n, m), Len(n) < Len(m), Index(rules)[m] # 0,
           ~IsParam(m[Len(n) + 1])
    PROVE  \E k \in Len(n) + 1 .. Len(m) :
              /\ \A i \in Len(n) + 1 .. k : ~IsParam(m[i])
              /\ SubSeq(m, 1, k) \in Below(Nodes(rules), n)
              /\ SubSeq(SubSeq(m, 1, k), Len(n) + 1, k) \in Fragments(Index(rules), n)
<1> DEFINE ns == Nodes(rules)
           idx == Index(rules)
           Simple(w) == idx[w] = 0 /\ Params(ns, w) = {}
           stops == {Len(w) : w \in {w \in Below(ns, n) : ~Simple(w)}}
<1>1. DOMAIN idx = ns
    BY IndexIs
<1>2. Fragments(idx, n) = IF stops = {} THEN {} ELSE Level(ns, n, Min(stops))
    BY <1>1 DEF Fragments
<1>3. m \in Seq(STRING) /\ n \in Seq(STRING) /\ Len(n) \in Nat /\ Len(m) \in Nat /\ Len(n) \in 0 .. Len(m)
    BY NodesAre DEF Starts
<1>4. PICK l \in Len(n) + 1 .. Len(m) : /\ \A i \in Len(n) + 1 .. l : ~IsParam(m[i])
                                        /\ l = Len(m) \/ IsParam(m[l + 1])
    BY <1>3, RunEnds
<1>5. ASSUME NEW k \in Len(n) + 1 .. l
      PROVE  /\ SubSeq(m, 1, k) \in Below(ns, n) /\ Len(SubSeq(m, 1, k)) = k
             /\ SubSeq(m, 1, k) \in Seq(STRING)
             /\ \A i \in 1 .. k : SubSeq(m, 1, k)[i] = m[i]
    <2> DEFINE w == SubSeq(m, 1, k)
    <2>1. k \in 0 .. Len(m) /\ Len(n) < k
        BY <1>3
    <2>2. w \in ns
        BY <2>1, NodesStart
    <2>3. Len(w) = k /\ w \in Seq(STRING) /\ \A i \in 1 .. k : w[i] = m[i]
        BY <1>3, <2>1, FirstOf
    <2> HIDE DEF w
    <2>4. \A i \in 1 .. Len(n) : i \in 1 .. k
        BY <1>3, <2>1
    <2>5. Starts(n, w)
        BY <1>3, <2>1, <2>3, <2>4 DEF Starts
    <2>6. SubSeq(w, 1, Len(n)) = n
        BY <1>3, <2>3, <2>5, StartIs
    <2>7. \A i \in Len(n) + 1 .. k : i \in 1 .. k /\ i \in Len(n) + 1 .. l
        BY <1>3, <1>4, <2>1
    <2>8. \A i \in Len(n) + 1 .. Len(w) : ~IsParam(w[i])
        BY <1>4, <2>3, <2>7
    <2>9. w \in Below(ns, n)
        BY <2>1, <2>2, <2>3, <2>6, <2>8 DEF Below
    <2>. QED
        BY <2>3, <2>9 DEF w
<1>6. l \in stops
    <2> DEFINE w == SubSeq(m, 1, l)
    <2>0. l \in Len(n) + 1 .. l
        BY <1>3, <1>4
    <2>1. w \in Below(ns, n) /\ Len(w) = l /\ w \in Seq(STRING) /\ \A i \in 1 .. l : w[i] = m[i]
        BY <1>5, <2>0
    <2>2. ~Simple(w)
        <3>1. CASE l = Len(m)
            <4>1. w = m
                BY <1>3, <3>1, SubSeqFull
            <4>. QED
                BY <4>1
        <3>2. CASE l # Len(m) /\ IsParam(m[l + 1])
            <4>1. l + 1 \in 0 .. Len(m) /\ l + 1 \in 1 .. Len(m) /\ (l + 1) - 1 = l
                BY <1>3, <1>4, <3>2
            <4>2. SubSeq(m, 1, l + 1) \in ns
                BY <4>1, NodesStart
            <4>3. SubSeq(m, 1, l + 1) = Append(w, m[l + 1])
                <5>1. /\ SubSeq(m, 1, l + 1) \in Seq(STRING) /\ Len(SubSeq(m, 1, l + 1)) = l + 1
                      /\ \A i \in 1 .. l + 1 : SubSeq(m, 1, l + 1)[i] = m[i]
                    BY <1>3, <4>1, FirstOf
                <5>2. m[l + 1] \in STRING
                    BY <1>3, <4>1
                <5> HIDE DEF w
                <5>3. /\ Append(w, m[l + 1]) \in Seq(STRING) /\ Len(Append(w, m[l + 1])) = l + 1
                      /\ \A i \in 1 .. l + 1 : Append(w, m[l + 1])[i] = m[i]
                    BY <1>4, <2>1, <4>1, <5>2
                <5>. QED
                    BY <5>1, <5>3, SamePath
            <4>4. m[l + 1] \in Params(ns, w)
                BY <3>2, <4>2, <4>3 DEF Params, IsParam
            <4>. QED
                BY <4>4
        <3>. QED
            BY <1>4, <3>1, <3>2
    <2> HIDE DEF w
    <2>3. \E x \in {x \in Below(ns, n) : ~Simple(x)} : l = Len(x)
        BY <2>1, <2>2
    <2>. QED
        BY <2>3
<1>7. stops \in SUBSET Nat
    <2>1. \A w \in Below(ns, n) : Len(w) \in Nat
        BY BelowIs
    <2>. QED
        BY <2>1
<1>8. Min(stops) \in stops /\ Min(stops) <= l
    BY <1>6, <1>7, LeastNat
<1>9. Min(stops) \in Len(n) + 1 .. l
    <2>1. PICK w \in Below(ns, n) : Len(w) = Min(stops)
        BY <1>8
    <2>2. Len(n) < Len(w) /\ Len(w) \in Nat
        BY BelowIs
    <2> HIDE DEF stops
    <2>. QED
        BY <1>3, <1>4, <1>8, <2>1, <2>2
<1>10. PICK k : k = Min(stops)
    OBVIOUS
<1>11. SubSeq(m, 1, k) \in Below(ns, n) /\ Len(SubSeq(m, 1, k)) = k /\ k \in Len(n) + 1 .. l
    BY <1>5, <1>9, <1>10
<1>12. SubSeq(SubSeq(m, 1, k), Len(n) + 1, k) \in Level(ns, n, k)
    BY <1>11 DEF Level
<1>13. SubSeq(SubSeq(m, 1, k), Len(n) + 1, k) \in Fragments(idx, n)
    <2> HIDE DEF stops
    <2>. QED
        BY <1>2, <1>6, <1>10, <1>12
<1>14. k \in Len(n) + 1 .. Len(m) /\ \A i \in Len(n) + 1 .. k : i \in Len(n) + 1 .. l
    BY <1>3, <1>4, <1>11
<1>. QED
    BY <1>4, <1>11, <1>13, <1>14

----------------------------------------------------------------------------
(* The alternatives of find                                                *)

LEMMA MatchOn ==
    ASSUME NEW V, NEW C, NEW url \in Seq(C), Values(V, url),
           NEW n \in Seq(STRING), NEW m \in Seq(STRING), Starts(n, m)
    PROVE  /\ MatchTo(m, url)[Len(n)] = Match(n, url)
           /\ Match(n, url) \in MatchType(V, url)
           /\ Match(m, url).pos > 0 =>
                 /\ Match(n, url).pos > 0
                 /\ Len(n) < Len(m) => Match(n, url).pos \in 1 .. Len(url)
<1>1. Len(n) \in Nat /\ Len(m) \in Nat /\ Len(n) <= Len(m) /\ Len(n) \in 0 .. Len(n) /\ Len(n) <= Len(n)
    BY DEF Starts
<1>2. MatchTo(m, url)[Len(n)] = MatchTo(n, url)[Len(n)]
    BY <1>1, MatchStarts DEF Starts
<1>3. Match(n, url) \in MatchType(V, url)
    BY <1>1, MatchTyped DEF Match
<1>4. ASSUME Match(m, url).pos > 0
      PROVE  /\ MatchTo(m, url)[Len(n)].pos > 0
             /\ Len(n) < Len(m) => MatchTo(m, url)[Len(n)].pos \in 1 .. Len(url)
    <2>1. MatchTo(m, url)[Len(m)].pos > 0
        BY <1>4 DEF Match
    <2>. QED
        BY <1>1, <2>1, StartMatches
<1>. QED
    BY <1>2, <1>3, <1>4 DEF Match

(* Below a node that matches all of the URL there is no other.             *)
LEMMA EndsAtEnd ==
    ASSUME NEW V, NEW C, NEW url \in Seq(C), Values(V, url), NEW rules \in Seq(Rules),
           NEW n \in Nodes(rules), Match(n, url).pos = Len(url) + 1
    PROVE  EndsOf(rules, url, n) = {n}
<1>1. n \in Seq(STRING)
    BY NodesAre
<1>2. n \in EndsOf(rules, url, n)
    BY <1>1 DEF EndsOf, Starts, Matches
<1>3. ASSUME NEW m \in EndsOf(rules, url, n) PROVE m = n
    <2>1. m \in Nodes(rules) /\ Starts(n, m) /\ Match(m, url).pos = Len(url) + 1
        BY DEF EndsOf, Matches
    <2>2. m \in Seq(STRING)
        BY <2>1, NodesAre
    <2>3. Len(url) \in Nat /\ Match(m, url).pos > 0
        BY <2>1
    <2>4. Len(n) < Len(m) => Match(n, url).pos \in 1 .. Len(url)
        BY <1>1, <2>1, <2>2, <2>3, MatchOn
    <2>5. ~(Len(n) < Len(m))
        BY <2>3, <2>4
    <2>6. Len(n) = Len(m)
        BY <1>1, <2>1, <2>2, <2>5 DEF Starts
    <2>. QED
        BY <1>1, <2>1, <2>2, <2>6, SamePath DEF Starts
<1>. QED
    BY <1>2, <1>3

AtMostOne(S) == \A a, b \in S : a = b

(* The search goes on from node n by alternative a.                        *)
LeadsOn(V, rules, url, n, a) ==
    /\ a.node \in Nodes(rules) /\ Starts(n, a.node) /\ Len(n) < Len(a.node)
    /\ a.pos = Match(a.node, url).pos /\ a.pos \in 1 .. Len(url) + 1 /\ a.pos > Match(n, url).pos
    /\ a.push \in Seq(V) /\ Match(a.node, url).params = Match(n, url).params \o a.push

LEMMA ParamOn ==
    ASSUME NEW V, NEW C, NEW url \in Seq(C), Values(V, url), NEW n \in Seq(STRING),
           Match(n, url).pos \in 1 .. Len(url), NEW p \in ToSet(ParamTypes)
    PROVE  LET k == Taken(p, url, Match(n, url).pos)
               on == Match(Append(n, p), url)
           IN  /\ k \in 0 .. Len(url) - Match(n, url).pos + 1
               /\ k = 0 => on.pos = 0
               /\ k > 0 => /\ on.pos = Match(n, url).pos + k
                           /\ on.params = Match(n, url).params \o
                                <<ValueOf(p, SubSeq(url, Match(n, url).pos, Match(n, url).pos + k - 1))>>
<1>1. n \in Seq(STRING \cup {p})
    OBVIOUS
<1>2. Match(Append(n, p), url) = MatchNext(Match(n, url), p, url)
    BY <1>1, MatchAppend
<1>3. Starts(n, n)
    BY DEF Starts
<1>4. Match(n, url) \in MatchType(V, url)
    BY <1>3, MatchOn
<1>5. Stepped(V, url, Match(n, url), p, Match(Append(n, p), url))
    BY <1>2, <1>4, MatchSteps
<1>6. IsParam(p)
    BY DEF IsParam
<1>7. Len(url) \in Nat /\ Match(n, url).pos \in 1 .. Len(url) + 1
    OBVIOUS
<1>8. Taken(p, url, Match(n, url).pos) \in 0 .. Len(url) - Match(n, url).pos + 1
    BY <1>7, TakenBounds
<1>9. Taken(p, url, Match(n, url).pos) > 0 => Taken(p, url, Match(n, url).pos) # 0
    BY <1>8
<1>. QED
    BY <1>5, <1>6, <1>8, <1>9 DEF Stepped

LEMMA AlternativesAre ==
    ASSUME NEW t, NEW n, NEW url, NEW pos
    PROVE  /\ Len(Alternatives(t, url, n, pos)) = 6 /\ DOMAIN Alternatives(t, url, n, pos) = 1 .. 6
           /\ \A i \in 1 .. 5 : Alternatives(t, url, n, pos)[i] = ByParam(t, url, n, pos, ParamTypes[i])
           /\ Alternatives(t, url, n, pos)[6] = ByFragment(t, url, n, pos)
<1>1. Len(ParamTypes) = 5
    BY DEF ParamTypes
<1>2. \A i \in 1 .. 5 : i \in 1 .. 6 /\ i <= Len(ParamTypes)
    BY <1>1
<1>3. ~(6 <= Len(ParamTypes)) /\ 6 \in 1 .. 6 /\ 1 .. Len(ParamTypes) + 1 = 1 .. 6
    BY <1>1
<1>. QED
    BY <1>1, <1>2, <1>3 DEF Alternatives

LEMMA ParamLeads ==
    ASSUME NEW V, NEW C, NEW url \in Seq(C), Values(V, url), NEW rules \in Seq(Rules), CanBuild(rules),
           NEW n \in Nodes(rules), NEW pos, pos = Match(n, url).pos, pos \in 1 .. Len(url),
           NEW p \in ToSet(ParamTypes)
    PROVE  /\ \A a \in ByParam(Trie(rules), url, n, pos, p) :
                 LeadsOn(V, rules, url, n, a) /\ a.node[Len(n) + 1] = p
           /\ AtMostOne(ByParam(Trie(rules), url, n, pos, p))
           /\ Append(n, p) \in Nodes(rules) /\ Match(Append(n, p), url).pos > 0 =>
                 \E a \in ByParam(Trie(rules), url, n, pos, p) : a.node = Append(n, p)
<1> DEFINE t == Trie(rules)
           k == Taken(p, url, pos)
           a == [node |-> Append(n, p), pos |-> pos + k,
                 push |-> <<ValueOf(p, SubSeq(url, pos, pos + k - 1))>>]
<1>1. DOMAIN t.idx = Nodes(rules)
    BY IndexIs DEF Trie
<1>2. n \in Seq(STRING) /\ Len(url) \in Nat
    BY NodesAre
<1>3. \A b \in ByParam(t, url, n, pos, p) : b = a /\ k > 0 /\ Append(n, p) \in Nodes(rules)
    BY <1>1 DEF ByParam
<1>4. k > 0 /\ Append(n, p) \in Nodes(rules) => a \in ByParam(t, url, n, pos, p)
    BY <1>1 DEF ByParam
<1>5. /\ k \in 0 .. Len(url) - pos + 1
      /\ k = 0 => Match(Append(n, p), url).pos = 0
      /\ k > 0 => /\ Match(Append(n, p), url).pos = pos + k
                  /\ Match(Append(n, p), url).params = Match(n, url).params \o a.push
    BY <1>2, ParamOn
<1>6. a.node = Append(n, p) /\ a.pos = pos + k
    OBVIOUS
<1>7. a.push \in Seq(V)
    <2>1. pos \in Nat /\ pos + k - 1 \in Nat
        BY <1>2, <1>5
    <2>2. ValueOf(p, SubSeq(url, pos, pos + k - 1)) \in V
        BY <2>1, Zenon DEF Values
    <2> DEFINE v == ValueOf(p, SubSeq(url, pos, pos + k - 1))
    <2> HIDE DEF v
    <2>3. <<v>> \in Seq(V)
        BY <2>2 DEF v
    <2>. QED
        BY <2>3 DEF v
<1> HIDE DEF a, k, t
<1>8. ASSUME k > 0, Append(n, p) \in Nodes(rules)
      PROVE  LeadsOn(V, rules, url, n, a) /\ a.node[Len(n) + 1] = p
    <2>1. n \in Seq(STRING \cup {p})
        BY <1>2
    <2>2. /\ Len(Append(n, p)) = Len(n) + 1 /\ Append(n, p)[Len(n) + 1] = p /\ Len(n) \in Nat
          /\ \A i \in 1 .. Len(n) : Append(n, p)[i] = n[i]
        BY <2>1
    <2>3. Starts(n, a.node) /\ Len(n) < Len(a.node)
        BY <1>6, <2>2 DEF Starts
    <2>4. a.pos \in 1 .. Len(url) + 1 /\ a.pos > pos
        BY <1>2, <1>5, <1>6, <1>8
    <2>. QED
        BY <1>5, <1>6, <1>7, <1>8, <2>2, <2>3, <2>4 DEF LeadsOn
<1>9. AtMostOne(ByParam(t, url, n, pos, p))
    BY <1>3 DEF AtMostOne
<1>. QED
    BY <1>3, <1>4, <1>5, <1>6, <1>8, <1>9 DEF t

(* The characters f that lead to a node below are those that the URL has.  *)
Follows(url, n, pos, m, f) ==
    /\ IsPrefix(f, SubSeq(url, pos, Len(url))) <=> Match(m, url).pos > 0
    /\ Match(m, url).pos > 0 => /\ Match(m, url).pos = pos + Len(f)
                                /\ Match(m, url).params = Match(n, url).params

LEMMA FragmentMatches ==
    ASSUME NEW V, NEW C, NEW url \in Seq(C), Values(V, url), NEW rules \in Seq(Rules),
           NEW n \in Nodes(rules), NEW pos, pos = Match(n, url).pos, pos \in 1 .. Len(url),
           NEW m \in Below(Nodes(rules), n), NEW f, f = SubSeq(m, Len(n) + 1, Len(m))
    PROVE  Follows(url, n, pos, m, f)
<1> DEFINE rest == SubSeq(url, pos, Len(url))
<1>1. /\ m \in Nodes(rules) /\ m \in Seq(STRING) /\ n \in Seq(STRING)
      /\ Starts(n, m) /\ Len(n) < Len(m) /\ \A i \in Len(n) + 1 .. Len(m) : ~IsParam(m[i])
      /\ f \in Seq(STRING) /\ Len(f) = Len(m) - Len(n)
      /\ \A j \in 1 .. Len(m) - Len(n) : f[j] = m[Len(n) + j]
    BY BelowIs
<1>2. Len(n) \in Nat /\ Len(m) \in Nat /\ Len(n) <= Len(m) /\ Len(m) <= Len(m) /\ Len(url) \in Nat
    BY <1>1
<1>3. MatchTo(m, url)[Len(n)] = Match(n, url) /\ MatchTo(m, url)[Len(m)] = Match(m, url)
    BY <1>1, MatchOn DEF Match
<1>4. pos = MatchTo(m, url)[Len(n)].pos /\ pos > 0
    BY <1>2, <1>3
<1>5. /\ MatchTo(m, url)[Len(m)].pos > 0 =>
            /\ pos + (Len(m) - Len(n)) <= Len(url) + 1 /\ Agree(m, url, pos, Len(n), Len(m))
            /\ MatchTo(m, url)[Len(m)].pos = pos + (Len(m) - Len(n))
            /\ MatchTo(m, url)[Len(m)].params = MatchTo(m, url)[Len(n)].params
      /\ pos + (Len(m) - Len(n)) <= Len(url) + 1 /\ Agree(m, url, pos, Len(n), Len(m)) =>
            MatchTo(m, url)[Len(m)].pos > 0
    BY <1>1, <1>2, <1>4, CharsMatch
<1>6. /\ rest \in Seq(C) /\ Len(rest) = Len(url) - pos + 1
      /\ \A j \in 1 .. Len(url) - pos + 1 : rest[j] = url[pos + j - 1]
    <2>1. pos \in Int /\ Len(url) \in Int /\ pos <= Len(url) /\ \A i \in pos .. Len(url) : url[i] \in C
        BY <1>2
    <2>. QED
        BY <2>1, SubSeqProperties
<1> HIDE DEF rest
<1>7. Len(f) <= Len(rest) <=> pos + (Len(m) - Len(n)) <= Len(url) + 1
    BY <1>1, <1>2, <1>6
<1>8. ASSUME Len(f) <= Len(rest)
      PROVE  SubSeq(f, 1, Len(f)) = SubSeq(rest, 1, Len(f)) <=> Agree(m, url, pos, Len(n), Len(m))
    <2>1. Len(f) \in 0 .. Len(rest) /\ Len(f) \in 0 .. Len(f)
        BY <1>1, <1>6, <1>8
    <2>2. /\ SubSeq(rest, 1, Len(f)) \in Seq(C) /\ Len(SubSeq(rest, 1, Len(f))) = Len(f)
          /\ \A j \in 1 .. Len(f) : SubSeq(rest, 1, Len(f))[j] = rest[j]
        BY <1>6, <2>1, FirstOf
    <2>3. SubSeq(f, 1, Len(f)) = f
        BY <1>1, SubSeqFull
    <2>4. \A j \in 1 .. Len(f) : rest[j] = url[pos + j - 1]
        <3>1. \A j \in 1 .. Len(f) : j \in 1 .. Len(url) - pos + 1
            BY <1>1, <1>2, <1>6, <1>8
        <3>. QED
            BY <1>6, <3>1
    <2>5. SubSeq(f, 1, Len(f)) = SubSeq(rest, 1, Len(f)) => \A j \in 1 .. Len(f) : f[j] = url[pos + j - 1]
        BY <2>2, <2>3, <2>4
    <2>6. (\A j \in 1 .. Len(f) : f[j] = url[pos + j - 1]) => SubSeq(f, 1, Len(f)) = SubSeq(rest, 1, Len(f))
        <3>1. f \in Seq(STRING \cup C) /\ SubSeq(rest, 1, Len(f)) \in Seq(STRING \cup C)
            BY <1>1, <2>2
        <3>2. SUFFICES ASSUME \A j \in 1 .. Len(f) : f[j] = url[pos + j - 1]
                       PROVE  f = SubSeq(rest, 1, Len(f))
            BY <2>3
        <3>3. \A j \in 1 .. Len(f) : f[j] = SubSeq(rest, 1, Len(f))[j]
            BY <2>2, <2>4, <3>2
        <3>. QED
            BY <2>2, <3>1, <3>3, SamePath
    <2>7. (\A j \in 1 .. Len(f) : f[j] = url[pos + j - 1]) => Agree(m, url, pos, Len(n), Len(m))
        <3> SUFFICES ASSUME \A j \in 1 .. Len(f) : f[j] = url[pos + j - 1], NEW i \in Len(n) + 1 .. Len(m)
                     PROVE  url[pos + (i - Len(n)) - 1] = m[i]
            BY DEF Agree
        <3>1. i - Len(n) \in 1 .. Len(f) /\ i - Len(n) \in 1 .. Len(m) - Len(n) /\ Len(n) + (i - Len(n)) = i
            BY <1>1, <1>2
        <3>2. f[i - Len(n)] = url[pos + (i - Len(n)) - 1] /\ f[i - Len(n)] = m[Len(n) + (i - Len(n))]
            BY <1>1, <3>1
        <3>. QED
            BY <3>1, <3>2
    <2>8. Agree(m, url, pos, Len(n), Len(m)) => \A j \in 1 .. Len(f) : f[j] = url[pos + j - 1]
        <3> SUFFICES ASSUME Agree(m, url, pos, Len(n), Len(m)), NEW j \in 1 .. Len(f)
                     PROVE  f[j] = url[pos + j - 1]
            OBVIOUS
        <3>1. Len(n) + j \in Len(n) + 1 .. Len(m) /\ (Len(n) + j) - Len(n) = j /\ j \in 1 .. Len(m) - Len(n)
            BY <1>1, <1>2
        <3>2. url[pos + ((Len(n) + j) - Len(n)) - 1] = m[Len(n) + j] /\ f[j] = m[Len(n) + j]
            BY <1>1, <3>1 DEF Agree
        <3>. QED
            BY <3>1, <3>2
    <2>. QED
        BY <2>5, <2>6, <2>7, <2>8
<1>9. IsPrefix(f, rest) <=> Len(f) <= Len(rest) /\ Agree(m, url, pos, Len(n), Len(m))
    BY <1>8 DEF IsPrefix
<1>10. IsPrefix(f, rest) <=> Match(m, url).pos > 0
    BY <1>3, <1>5, <1>7, <1>9
<1>11. Match(m, url).pos > 0 => /\ Match(m, url).pos = pos + Len(f)
                                /\ Match(m, url).params = Match(n, url).params
    BY <1>1, <1>3, <1>5
<1>. QED
    BY <1>10, <1>11 DEF rest, Follows

LEMMA FragmentLeads ==
    ASSUME NEW V, NEW C, NEW url \in Seq(C), Values(V, url), NEW rules \in Seq(Rules), CanBuild(rules),
           NEW n \in Nodes(rules), NEW pos, pos = Match(n, url).pos, pos \in 1 .. Len(url)
    PROVE  /\ \A a \in ByFragment(Trie(rules), url, n, pos) :
                 LeadsOn(V, rules, url, n, a) /\ ~IsParam(a.node[Len(n) + 1])
           /\ AtMostOne(ByFragment(Trie(rules), url, n, pos))
           /\ \A m \in Nodes(rules) :
                 /\ Starts(n, m) /\ Len(n) < Len(m) /\ Index(rules)[m] # 0
                 /\ ~IsParam(m[Len(n) + 1]) /\ Match(m, url).pos > 0
                 => \E a \in ByFragment(Trie(rules), url, n, pos) : Starts(a.node, m)
<1> DEFINE t == Trie(rules)
           rest == SubSeq(url, pos, Len(url))
           By(f) == [node |-> n \o f, pos |-> pos + Len(f), push |-> <<>>]
           fs == Fragments(Index(rules), n)
<1>1. t.kids[n] = fs
    BY IndexIs DEF Trie
<1> HIDE DEF fs
<1>2. ByFragment(t, url, n, pos) = {By(f) : f \in {f \in fs : IsPrefix(f, rest)}}
    BY <1>1 DEF ByFragment
<1> HIDE DEF t, By, rest
<1>3. \A a \in ByFragment(t, url, n, pos) : \E f \in fs : IsPrefix(f, rest) /\ a = By(f)
    BY <1>2
<1>4. \A f \in fs : IsPrefix(f, rest) => By(f) \in ByFragment(t, url, n, pos)
    BY <1>2
<1>5. \A f : By(f).node = n \o f /\ By(f).pos = pos + Len(f) /\ By(f).push = <<>>
    BY DEF By
<1>6. /\ \A f \in fs : \E m \in Below(Nodes(rules), n) : f = SubSeq(m, Len(n) + 1, Len(m))
      /\ \A f, g \in fs : Len(f) = Len(g)
    BY FragmentsAre DEF fs
<1>7. n \in Seq(STRING) /\ Len(url) \in Nat
    BY NodesAre
<1>8. ASSUME NEW a \in ByFragment(t, url, n, pos)
      PROVE  LeadsOn(V, rules, url, n, a) /\ ~IsParam(a.node[Len(n) + 1])
    <2>1. PICK f \in fs : IsPrefix(f, rest) /\ a = By(f)
        BY <1>3
    <2>2. PICK m \in Below(Nodes(rules), n) : f = SubSeq(m, Len(n) + 1, Len(m))
        BY <1>6
    <2>3. /\ m \in Nodes(rules) /\ m \in Seq(STRING) /\ Starts(n, m) /\ Len(n) < Len(m)
          /\ \A i \in Len(n) + 1 .. Len(m) : ~IsParam(m[i])
          /\ n \o f = m /\ Len(f) = Len(m) - Len(n)
        BY <2>2, BelowIs
    <2>4. Match(m, url).pos > 0
        <3>1. IsPrefix(f, SubSeq(url, pos, Len(url)))
            BY <2>1 DEF rest
        <3>2. Follows(url, n, pos, m, f)
            BY <2>2, FragmentMatches
        <3>. QED
            BY <3>1, <3>2 DEF Follows
    <2>5. Match(m, url).pos = pos + Len(f) /\ Match(m, url).params = Match(n, url).params
        BY <2>2, <2>4, FragmentMatches DEF Follows
    <2>6. Starts(n, n) /\ Starts(m, m)
        BY DEF Starts
    <2>7. Match(n, url) \in MatchType(V, url) /\ Match(m, url) \in MatchType(V, url)
        BY <1>7, <2>3, <2>6, MatchOn
    <2>8. Match(n, url).params \in Seq(V) /\ Match(m, url).pos \in 0 .. Len(url) + 1
        BY <2>7 DEF MatchType
    <2>9. Match(n, url).params \o <<>> = Match(n, url).params /\ <<>> \in Seq(V)
        BY <2>8, ConcatEmptySeq
    <2>10. a.node = m /\ a.pos = Match(m, url).pos /\ a.push = <<>>
        BY <1>5, <2>1, <2>3, <2>5
    <2>11. Len(n) \in Nat /\ Len(m) \in Nat
        BY <1>7, <2>3
    <2>12. Match(m, url).pos \in 1 .. Len(url) + 1 /\ Match(m, url).pos > pos
        <3>1. Len(f) \in Nat /\ Len(f) > 0
            BY <2>3, <2>11
        <3>. QED
            BY <1>7, <2>4, <2>5, <2>8, <3>1
    <2>13. Len(n) + 1 \in Len(n) + 1 .. Len(m)
        BY <2>3, <2>11
    <2>. QED
        BY <2>3, <2>5, <2>9, <2>10, <2>12, <2>13 DEF LeadsOn
<1>9. ASSUME NEW a \in ByFragment(t, url, n, pos), NEW b \in ByFragment(t, url, n, pos) PROVE a = b
    <2>1. PICK f \in fs : IsPrefix(f, rest) /\ a = By(f)
        BY <1>3
    <2>2. PICK g \in fs : IsPrefix(g, rest) /\ b = By(g)
        BY <1>3
    <2>3. \A h \in fs : h \in Seq(STRING)
        <3> TAKE h \in fs
        <3>1. PICK m \in Below(Nodes(rules), n) : h = SubSeq(m, Len(n) + 1, Len(m))
            BY <1>6
        <3>. QED
            BY <3>1, BelowIs
    <2>4. Len(f) = Len(g) /\ SubSeq(f, 1, Len(f)) = f /\ SubSeq(g, 1, Len(g)) = g
        BY <1>6, <2>3, SubSeqFull
    <2>5. SubSeq(f, 1, Len(f)) = SubSeq(rest, 1, Len(f)) /\ SubSeq(g, 1, Len(g)) = SubSeq(rest, 1, Len(g))
        BY <2>1, <2>2 DEF IsPrefix
    <2>6. f = g
        BY <2>4, <2>5
    <2>. QED
        BY <2>1, <2>2, <2>6
<1>10. ASSUME NEW m \in Nodes(rules), Starts(n, m), Len(n) < Len(m), Index(rules)[m] # 0,
              ~IsParam(m[Len(n) + 1]), Match(m, url).pos > 0
       PROVE  \E a \in ByFragment(t, url, n, pos) : Starts(a.node, m)
    <2>1. PICK k \in Len(n) + 1 .. Len(m) :
              /\ SubSeq(m, 1, k) \in Below(Nodes(rules), n)
              /\ SubSeq(SubSeq(m, 1, k), Len(n) + 1, k) \in fs
        BY <1>10, FragmentsLead DEF fs
    <2>2. PICK w : w = SubSeq(m, 1, k)
        OBVIOUS
    <2>3. m \in Seq(STRING) /\ Len(n) \in Nat /\ Len(m) \in Nat
        BY <1>7, NodesAre
    <2>4. k \in 0 .. Len(m)
        BY <2>1, <2>3
    <2>5. w \in Seq(STRING) /\ Len(w) = k /\ \A i \in 1 .. k : w[i] = m[i]
        BY <2>2, <2>3, <2>4, FirstOf
    <2>6. Starts(w, m)
        BY <2>4, <2>5 DEF Starts
    <2>7. Match(w, url).pos > 0
        BY <1>10, <2>3, <2>5, <2>6, MatchOn
    <2>8. PICK f : f = SubSeq(w, Len(n) + 1, Len(w))
        OBVIOUS
    <2>9. w \in Below(Nodes(rules), n) /\ f \in fs
        BY <2>1, <2>2, <2>5, <2>8
    <2>10. IsPrefix(f, rest)
        BY <2>7, <2>8, <2>9, FragmentMatches DEF rest, Follows
    <2>11. n \o f = w
        BY <2>8, <2>9, BelowIs
    <2>12. By(f).node = w
        BY <1>5, <2>11
    <2>. QED
        BY <1>4, <2>6, <2>9, <2>10, <2>12
<1>. QED
    BY <1>8, <1>9, <1>10 DEF t, AtMostOne

LEMMA AlternativesLead ==
    ASSUME NEW V, NEW C, NEW url \in Seq(C), Values(V, url), NEW rules \in Seq(Rules), CanBuild(rules),
           NEW n \in Nodes(rules), NEW pos, pos = Match(n, url).pos, pos \in 1 .. Len(url),
           NEW i \in 1 .. 6
    PROVE  /\ \A a \in Alternatives(Trie(rules), url, n, pos)[i] :
                 /\ LeadsOn(V, rules, url, n, a)
                 /\ IF i = 6 THEN ~IsParam(a.node[Len(n) + 1]) ELSE a.node[Len(n) + 1] = ParamTypes[i]
           /\ AtMostOne(Alternatives(Trie(rules), url, n, pos)[i])
<1>1. CASE i = 6
    <2>1. Alternatives(Trie(rules), url, n, pos)[i] = ByFragment(Trie(rules), url, n, pos)
        BY <1>1, AlternativesAre
    <2>2. \A a \in ByFragment(Trie(rules), url, n, pos) :
             LeadsOn(V, rules, url, n, a) /\ ~IsParam(a.node[Len(n) + 1])
        BY FragmentLeads
    <2>3. AtMostOne(ByFragment(Trie(rules), url, n, pos))
        BY FragmentLeads
    <2>. QED
        BY <1>1, <2>1, <2>2, <2>3
<1>2. CASE i \in 1 .. 5
    <2>1. Alternatives(Trie(rules), url, n, pos)[i] = ByParam(Trie(rules), url, n, pos, ParamTypes[i])
        BY <1>2, AlternativesAre
    <2>2. ParamTypes[i] \in ToSet(ParamTypes)
        BY <1>2 DEF ToSet, ParamTypes
    <2>3. PICK p : p = ParamTypes[i] /\ p \in ToSet(ParamTypes)
        BY <2>2
    <2>4. \A a \in ByParam(Trie(rules), url, n, pos, p) :
             LeadsOn(V, rules, url, n, a) /\ a.node[Len(n) + 1] = p
        BY <2>3, ParamLeads
    <2>5. AtMostOne(ByParam(Trie(rules), url, n, pos, p))
        BY <2>3, ParamLeads
    <2>6. i # 6
        BY <1>2
    <2>. QED
        BY <2>1, <2>3, <2>4, <2>5, <2>6
<1>. QED
    BY <1>1, <1>2

(* Below the alternatives lie different ends, and all that have an index.  *)
Split(rules, url, n, alts) ==
    /\ \A i \in 1 .. 6 : \A a \in alts[i] :
          EndsOf(rules, url, a.node) \subseteq EndsOf(rules, url, n)
    /\ \A i, j \in 1 .. 6 : \A a \in alts[i] : \A b \in alts[j] :
          i # j => EndsOf(rules, url, a.node) \cap EndsOf(rules, url, b.node) = {}
    /\ \A m \in EndsOf(rules, url, n) :
          Index(rules)[m] # 0 =>
             \E i \in 1 .. 6 : \E a \in alts[i] : m \in EndsOf(rules, url, a.node)

LEMMA AlternativesSplit ==
    ASSUME NEW V, NEW C, NEW url \in Seq(C), Values(V, url), NEW rules \in Seq(Rules), CanBuild(rules),
           NEW n \in Nodes(rules), NEW pos, pos = Match(n, url).pos, pos \in 1 .. Len(url)
    PROVE  Split(rules, url, n, Alternatives(Trie(rules), url, n, pos))
<1> DEFINE alts == Alternatives(Trie(rules), url, n, pos)
           E(w) == EndsOf(rules, url, w)
<1>0. n \in Seq(STRING) /\ Len(n) \in Nat /\ Len(url) \in Nat
    BY NodesAre
<1>1. \A i \in 1 .. 6 : \A a \in alts[i] :
         /\ LeadsOn(V, rules, url, n, a)
         /\ IF i = 6 THEN ~IsParam(a.node[Len(n) + 1]) ELSE a.node[Len(n) + 1] = ParamTypes[i]
    BY AlternativesLead
<1> HIDE DEF alts
<1>2. ASSUME NEW i \in 1 .. 6, NEW a \in alts[i], NEW m \in E(a.node)
      PROVE  m \in E(n) /\ m[Len(n) + 1] = a.node[Len(n) + 1]
    <2>1. a.node \in Nodes(rules) /\ Starts(n, a.node) /\ Len(n) < Len(a.node)
        BY <1>1 DEF LeadsOn
    <2>2. m \in Nodes(rules) /\ Starts(a.node, m) /\ Matches(m, url)
        BY DEF EndsOf
    <2>3. Len(a.node) \in Nat /\ Len(m) \in Nat
        BY <2>1, <2>2, NodesAre
    <2>4. \A k \in 1 .. Len(n) : k \in 1 .. Len(a.node)
        BY <1>0, <2>1, <2>3
    <2>5. Starts(n, m)
        BY <1>0, <2>1, <2>2, <2>3, <2>4 DEF Starts
    <2>6. Len(n) + 1 \in 1 .. Len(a.node)
        BY <1>0, <2>1, <2>3
    <2>. QED
        BY <2>2, <2>5, <2>6 DEF EndsOf, Starts
<1>3. \A i, j \in 1 .. 5 : i # j => ParamTypes[i] # ParamTypes[j]
    BY DEF ParamTypes
<1>4. \A i \in 1 .. 5 : IsParam(ParamTypes[i])
    BY DEF IsParam, ToSet, ParamTypes
<1>5. ASSUME NEW i \in 1 .. 6, NEW j \in 1 .. 6, NEW a \in alts[i], NEW b \in alts[j], i # j
      PROVE  a.node[Len(n) + 1] # b.node[Len(n) + 1]
    <2>1. CASE i = 6
        <3>1. j \in 1 .. 5 /\ j # 6
            BY <1>5, <2>1
        <3>. QED
            BY <1>1, <1>4, <2>1, <3>1
    <2>2. CASE j = 6
        <3>1. i \in 1 .. 5 /\ i # 6
            BY <1>5, <2>2
        <3>. QED
            BY <1>1, <1>4, <2>2, <3>1
    <2>3. CASE i # 6 /\ j # 6
        <3>1. i \in 1 .. 5 /\ j \in 1 .. 5
            BY <2>3
        <3>. QED
            BY <1>1, <1>3, <1>5, <2>3, <3>1
    <2>. QED
        BY <2>1, <2>2, <2>3
<1>6. ASSUME NEW m \in E(n), Index(rules)[m] # 0
      PROVE  \E i \in 1 .. 6 : \E a \in alts[i] : m \in E(a.node)
    <2>1. m \in Nodes(rules) /\ Starts(n, m) /\ Match(m, url).pos = Len(url) + 1
        BY DEF EndsOf, Matches
    <2>2. m \in Seq(STRING) /\ Len(m) \in Nat
        BY <2>1, NodesAre
    <2>3. Len(n) < Len(m)
        <3>1. Len(n) <= Len(m)
            BY <2>1 DEF Starts
        <3>2. SUFFICES ASSUME Len(n) = Len(m) PROVE FALSE
            BY <1>0, <2>2, <3>1
        <3>3. n = m
            BY <1>0, <2>1, <2>2, <3>2, SamePath DEF Starts
        <3>. QED
            BY <1>0, <2>1, <3>3
    <2>4. Match(m, url).pos > 0 /\ Matches(m, url)
        BY <1>0, <2>1 DEF Matches
    <2>5. Len(n) + 1 \in 0 .. Len(m) /\ Len(n) + 1 \in 1 .. Len(m)
        BY <1>0, <2>2, <2>3
    <2>6. CASE IsParam(m[Len(n) + 1])
        <3>1. PICK p : p = m[Len(n) + 1] /\ p \in ToSet(ParamTypes)
            BY <2>6 DEF IsParam
        <3>2. PICK i \in 1 .. 5 : p = ParamTypes[i]
            BY <3>1 DEF ToSet, ParamTypes
        <3>3. PICK w : w = Append(n, p)
            OBVIOUS
        <3>4. p \in STRING
            BY <2>2, <2>5, <3>1
        <3>5. /\ w \in Seq(STRING) /\ Len(w) = Len(n) + 1 /\ w[Len(n) + 1] = p
              /\ \A k \in 1 .. Len(n) : w[k] = n[k]
            BY <1>0, <3>3, <3>4
        <3>6. \A k \in 1 .. Len(n) + 1 : k \in 1 .. Len(n) \/ k = Len(n) + 1
            BY <1>0
        <3>7. Starts(w, m)
            <4>1. Len(n) + 1 <= Len(m) /\ \A k \in 1 .. Len(n) : m[k] = n[k]
                BY <1>0, <2>1, <2>2, <2>3 DEF Starts
            <4>2. \A k \in 1 .. Len(n) + 1 : m[k] = w[k]
                <5> TAKE k \in 1 .. Len(n) + 1
                <5>1. CASE k \in 1 .. Len(n)
                    BY <3>5, <4>1, <5>1
                <5>2. CASE k = Len(n) + 1
                    BY <3>1, <3>5, <5>2
                <5>. QED
                    BY <3>6, <5>1, <5>2
            <4>. QED
                BY <3>5, <4>1, <4>2 DEF Starts
        <3>8. w \in Nodes(rules)
            <4>1. SubSeq(m, 1, Len(w)) = w
                BY <2>2, <3>5, <3>7, StartIs
            <4>. QED
                BY <2>1, <2>5, <3>5, <4>1, NodesStart
        <3>9. Match(w, url).pos > 0
            BY <2>2, <2>4, <3>5, <3>7, MatchOn
        <3>10. PICK a \in ByParam(Trie(rules), url, n, pos, p) : a.node = Append(n, p)
            BY <3>1, <3>3, <3>8, <3>9, ParamLeads
        <3>11. a \in alts[i]
            BY <3>2, <3>10, AlternativesAre DEF alts
        <3>12. m \in E(a.node)
            BY <2>1, <2>4, <3>3, <3>7, <3>10 DEF EndsOf
        <3>13. i \in 1 .. 6
            OBVIOUS
        <3>. QED
            BY <3>11, <3>12, <3>13
    <2>7. CASE ~IsParam(m[Len(n) + 1])
        <3>1. PICK a \in ByFragment(Trie(rules), url, n, pos) : Starts(a.node, m)
            BY <1>6, <2>1, <2>3, <2>4, <2>7, FragmentLeads
        <3>2. a \in alts[6] /\ 6 \in 1 .. 6
            BY <3>1, AlternativesAre DEF alts
        <3>3. m \in E(a.node)
            BY <2>1, <2>4, <3>1 DEF EndsOf
        <3>. QED
            BY <3>2, <3>3
    <2>. QED
        BY <2>6, <2>7
<1>7. \A i \in 1 .. 6 : \A a \in alts[i] : E(a.node) \subseteq E(n)
    <2> HIDE DEF E
    <2>. QED
        BY <1>2
<1>8. \A i, j \in 1 .. 6 : \A a \in alts[i] : \A b \in alts[j] :
         i # j => E(a.node) \cap E(b.node) = {}
    <2> SUFFICES ASSUME NEW i \in 1 .. 6, NEW j \in 1 .. 6, NEW a \in alts[i], NEW b \in alts[j], i # j,
                        NEW m \in E(a.node), m \in E(b.node)
                 PROVE  FALSE
        BY Zenon
    <2>1. m[Len(n) + 1] = a.node[Len(n) + 1] /\ m[Len(n) + 1] = b.node[Len(n) + 1]
        <3> HIDE DEF E
        <3>. QED
            BY <1>2
    <2>. QED
        BY <1>5, <2>1
<1>. QED
    BY <1>6, <1>7, <1>8 DEF alts, Split

----------------------------------------------------------------------------
(* What find returns                                                       *)

FoundType(V) == [index : Nat, params : Seq(V), whole : BOOLEAN, moved : BOOLEAN]

(* r is the end of s.                                                      *)
EndOf(r, s) == \E i \in 0 .. Len(s) : r = SubSeq(s, i + 1, Len(s))

(* The search below node n has found, of the ends in E, one with the least *)
(* index; its parameters are those that come after those of n, all of them *)
(* if whole.                                                               *)
FoundIn(V, rules, url, n, E, r) ==
    /\ r \in FoundType(V)
    /\ r.index = 0 => \A m \in E : Index(rules)[m] = 0
    /\ r.index # 0 =>
          \E m \in E :
             /\ Index(rules)[m] = r.index
             /\ \A k \in E : Index(rules)[k] # 0 => r.index <= Index(rules)[k]
             /\ EndOf(r.params, Match(m, url).params)
             /\ r.whole => Match(m, url).params = Match(n, url).params \o r.params
    /\ r.moved => E # {}
    /\ ~r.whole => \E a, b \in E : a # b

LEMMA ConcatEnds ==
    ASSUME NEW V, NEW p \in Seq(V), NEW r \in Seq(V)
    PROVE  EndOf(r, p \o r)
<1>1. /\ p \o r \in Seq(V) /\ Len(p \o r) = Len(p) + Len(r) /\ Len(p) \in Nat /\ Len(r) \in Nat
      /\ \A i \in 1 .. Len(p) + Len(r) : (p \o r)[i] = IF i <= Len(p) THEN p[i] ELSE r[i - Len(p)]
    BY ConcatProperties
<1>2. PICK s : s = p \o r
    OBVIOUS
<1>3. PICK d : d = SubSeq(s, Len(p) + 1, Len(s))
    OBVIOUS
<1>4. \A i \in Len(p) + 1 .. Len(s) : s[i] \in V
    BY <1>1, <1>2
<1>5. /\ d \in Seq(V)
      /\ Len(d) = IF Len(p) + 1 <= Len(s) THEN Len(s) - (Len(p) + 1) + 1 ELSE 0
      /\ \A i \in 1 .. Len(s) - (Len(p) + 1) + 1 : d[i] = s[Len(p) + 1 + i - 1]
    <2>1. Len(p) + 1 \in Int /\ Len(s) \in Int
        BY <1>1, <1>2
    <2>. QED
        BY <1>3, <1>4, <2>1, SubSeqProperties
<1>6. Len(d) = Len(r)
    BY <1>1, <1>2, <1>5
<1>7. \A i \in 1 .. Len(r) : d[i] = r[i]
    <2> TAKE i \in 1 .. Len(r)
    <2>1. /\ i \in 1 .. Len(s) - (Len(p) + 1) + 1 /\ Len(p) + 1 + i - 1 = Len(p) + i
          /\ Len(p) + i \in 1 .. Len(p) + Len(r) /\ ~(Len(p) + i <= Len(p)) /\ (Len(p) + i) - Len(p) = i
        BY <1>1, <1>2
    <2>2. d[i] = s[Len(p) + i] /\ s[Len(p) + i] = r[(Len(p) + i) - Len(p)]
        BY <1>1, <1>2, <1>5, <2>1
    <2>. QED
        BY <2>1, <2>2
<1>8. d = r
    BY <1>5, <1>6, <1>7, SeqEqual
<1>9. Len(p) \in 0 .. Len(s)
    BY <1>1, <1>2
<1>. QED
    BY <1>2, <1>3, <1>8, <1>9 DEF EndOf

(* With the result ret for an alternative, below which are the ends in F,  *)
(* find has seen those and the ones in E that it had seen before.          *)
LEMMA UpdateFinds ==
    ASSUME NEW V, NEW C, NEW url \in Seq(C), Values(V, url), NEW rules \in Seq(Rules), CanBuild(rules),
           NEW n \in Nodes(rules), NEW alt, LeadsOn(V, rules, url, n, alt),
           NEW E \in SUBSET Nodes(rules), NEW F \in SUBSET Nodes(rules), E \cap F = {},
           NEW found, FoundIn(V, rules, url, n, E, found),
           NEW ret, FoundIn(V, rules, url, alt.node, F, ret)
    PROVE  FoundIn(V, rules, url, n, E \cup F, Update(found, alt, ret))
<1> DEFINE idx == Index(rules)
           P(m) == Match(m, url).params
           moved == found.moved \/ ret.moved
           r == Update(found, alt, ret)
<1>1. found \in FoundType(V) /\ ret \in FoundType(V)
    BY DEF FoundIn
<1>2. /\ found.index \in Nat /\ found.params \in Seq(V) /\ found.whole \in BOOLEAN /\ found.moved \in BOOLEAN
      /\ ret.index \in Nat /\ ret.params \in Seq(V) /\ ret.whole \in BOOLEAN /\ ret.moved \in BOOLEAN
    BY <1>1 DEF FoundType
<1>3. \A m \in E \cup F : idx[m] \in Nat
    BY IndexIs
<1>4. alt.push \in Seq(V) /\ P(alt.node) = P(n) \o alt.push
    BY DEF LeadsOn
<1>5. P(n) \in Seq(V)
    <2>1. n \in Seq(STRING) /\ Starts(n, n)
        BY NodesAre DEF Starts
    <2>2. Match(n, url) \in MatchType(V, url)
        BY <2>1, MatchOn
    <2>. QED
        BY <2>2 DEF MatchType
<1>6. moved \in BOOLEAN /\ (moved => E \cup F # {})
    <2>1. (found.moved => E # {}) /\ (ret.moved => F # {})
        BY DEF FoundIn
    <2>. QED
        BY <1>2, <2>1
<1>7. CASE Better(found, ret)
    <2>1. ret.index # 0 /\ (found.index = 0 \/ found.index > ret.index)
        BY <1>7 DEF Better
    <2>2. r = [index  |-> ret.index,
               params |-> IF ret.whole THEN alt.push \o ret.params ELSE ret.params,
               whole  |-> ret.whole /\ ~found.moved,
               moved  |-> moved]
        BY <1>7 DEF Update
    <2>3. PICK m \in F : /\ idx[m] = ret.index
                         /\ \A k \in F : idx[k] # 0 => ret.index <= idx[k]
                         /\ EndOf(ret.params, P(m))
                         /\ ret.whole => P(m) = P(alt.node) \o ret.params
        BY <2>1 DEF FoundIn
    <2>4. ASSUME NEW k \in E, idx[k] # 0 PROVE ret.index <= idx[k]
        <3>1. found.index # 0
            BY <2>4 DEF FoundIn
        <3>2. found.index <= idx[k]
            BY <2>4, <3>1 DEF FoundIn
        <3>3. idx[k] \in Nat
            BY <1>3
        <3>. QED
            BY <1>2, <2>1, <3>1, <3>2, <3>3
    <2>5. \A k \in E \cup F : idx[k] # 0 => ret.index <= idx[k]
        BY <2>3, <2>4
    <2>6. alt.push \o ret.params \in Seq(V)
        BY <1>2, <1>4, ConcatProperties
    <2>7. ret.whole => P(m) = P(n) \o (alt.push \o ret.params)
        <3> HIDE DEF P
        <3>1. (P(n) \o alt.push) \o ret.params = P(n) \o (alt.push \o ret.params)
            <4>1. PICK p : p = P(n)
                OBVIOUS
            <4>2. p \in Seq(V) /\ alt.push \in Seq(V) /\ ret.params \in Seq(V)
                BY <1>2, <1>4, <1>5, <4>1
            <4>3. PICK q, x : q = alt.push /\ x = ret.params
                OBVIOUS
            <4>4. p \in Seq(V) /\ q \in Seq(V) /\ x \in Seq(V)
                BY <4>2, <4>3
            <4>5. (p \o q) \o x = p \o (q \o x)
                BY <4>4, ConcatAssociative
            <4>. QED
                BY <4>1, <4>3, <4>5
        <3>. QED
            BY <1>4, <2>3, <3>1
    <2>8. EndOf(alt.push \o ret.params, P(n) \o (alt.push \o ret.params))
        BY <1>5, <2>6, ConcatEnds
    <2>9. /\ r.index = ret.index /\ r.moved = moved /\ r.whole = (ret.whole /\ ~found.moved)
          /\ ret.whole => r.params = alt.push \o ret.params
          /\ ~ret.whole => r.params = ret.params
        <3> HIDE DEF r, moved
        <3>1. /\ r.index = ret.index /\ r.moved = moved /\ r.whole = (ret.whole /\ ~found.moved)
              /\ r.params = IF ret.whole THEN alt.push \o ret.params ELSE ret.params
            BY <2>2
        <3>. QED
            BY <3>1
    <2>10. r \in FoundType(V)
        BY <1>2, <1>6, <2>2, <2>6 DEF FoundType
    <2> HIDE DEF r, moved, P, idx
    <2>11. EndOf(r.params, P(m)) /\ (r.whole => P(m) = P(n) \o r.params)
        BY <1>2, <2>3, <2>7, <2>8, <2>9
    <2>12. ~r.whole => \E a, b \in E \cup F : a # b
        <3>1. CASE ~ret.whole
            <4>1. \E a, b \in F : a # b
                BY <3>1 DEF FoundIn
            <4>. QED
                BY <4>1
        <3>2. CASE found.moved
            <4>1. PICK x \in E : TRUE
                BY <3>2 DEF FoundIn
            <4>2. x # m
                BY <4>1
            <4>. QED
                BY <4>2
        <3>. QED
            BY <1>2, <2>9, <3>1, <3>2
    <2>13. \E x \in E \cup F :
             /\ idx[x] = r.index
             /\ \A k \in E \cup F : idx[k] # 0 => r.index <= idx[k]
             /\ EndOf(r.params, P(x))
             /\ r.whole => P(x) = P(n) \o r.params
        <3>1. m \in E \cup F
            OBVIOUS
        <3>. QED
            BY <2>3, <2>5, <2>9, <2>11, <3>1
    <2>14. r.index # 0 /\ (r.moved => E \cup F # {})
        BY <1>6, <2>1, <2>9
    <2>. QED
        BY <2>10, <2>12, <2>13, <2>14 DEF FoundIn, r, idx, P
<1>8. CASE ~Better(found, ret)
    <2>1. r = [found EXCEPT !.moved = moved]
        BY <1>8 DEF Update
    <2>2. /\ r.index = found.index /\ r.moved = moved /\ r.whole = found.whole
          /\ r.params = found.params /\ r \in FoundType(V)
        BY <1>1, <1>6, <2>1 DEF FoundType
    <2>3. ret.index = 0 \/ (found.index # 0 /\ found.index <= ret.index)
        BY <1>2, <1>8 DEF Better
    <2>4. ASSUME found.index = 0 PROVE \A m \in E \cup F : idx[m] = 0
        <3>1. ret.index = 0
            BY <2>3, <2>4
        <3>. QED
            BY <2>4, <3>1 DEF FoundIn
    <2>5. ASSUME NEW k \in F, idx[k] # 0 PROVE found.index <= idx[k]
        <3>1. ret.index # 0
            BY <2>5 DEF FoundIn
        <3>2. ret.index <= idx[k]
            BY <2>5, <3>1 DEF FoundIn
        <3>3. idx[k] \in Nat
            BY <1>3
        <3>. QED
            BY <1>2, <2>3, <3>1, <3>2, <3>3
    <2>6. ASSUME found.index # 0
          PROVE  \E m \in E \cup F :
                    /\ idx[m] = found.index
                    /\ \A k \in E \cup F : idx[k] # 0 => found.index <= idx[k]
                    /\ EndOf(found.params, P(m))
                    /\ found.whole => P(m) = P(n) \o found.params
        <3>1. PICK m \in E : /\ idx[m] = found.index
                             /\ \A k \in E : idx[k] # 0 => found.index <= idx[k]
                             /\ EndOf(found.params, P(m))
                             /\ found.whole => P(m) = P(n) \o found.params
            BY <2>6 DEF FoundIn
        <3>2. \A k \in E \cup F : idx[k] # 0 => found.index <= idx[k]
            BY <2>5, <3>1
        <3>3. m \in E \cup F
            OBVIOUS
        <3> HIDE DEF idx, P
        <3>. QED
            BY <3>1, <3>2, <3>3
    <2>7. ~found.whole => \E a, b \in E \cup F : a # b
        BY DEF FoundIn
    <2> HIDE DEF r, moved, P, idx
    <2>. QED
        BY <1>6, <2>2, <2>4, <2>6, <2>7 DEF FoundIn, r, idx, P
<1>. QED
    BY <1>7, <1>8

UpdatesNext(alts, rets, found, i) ==
    IF alts[i] = {} THEN found ELSE Update(found, The(alts[i]), The(rets[i]))

(* Updates goes from one alternative to the next.                          *)
LEMMA UpdatesSteps ==
    ASSUME NEW alts, NEW rets, Len(alts) \in Nat
    PROVE  /\ Updates(alts, rets)[0] = Nothing
           /\ \A i \in 1 .. Len(alts) :
                 Updates(alts, rets)[i] = UpdatesNext(alts, rets, Updates(alts, rets)[i - 1], i)
<1> DEFINE Go(f, i) == UpdatesNext(alts, rets, f[i - 1], i)
           Is(f, n) == f = [i \in 0 .. n |-> IF i = 0 THEN Nothing ELSE Go(f, i)]
           T == {n \in Nat : \E f : Is(f, n)}
<1>0. ASSUME NEW f, NEW n \in Nat, Is(f, n)
      PROVE  \A i \in 0 .. n : f[i] = IF i = 0 THEN Nothing ELSE Go(f, i)
    <2> HIDE DEF Go
    <2> DEFINE h == [i \in 0 .. n |-> IF i = 0 THEN Nothing ELSE Go(f, i)]
    <2>1. \A i \in 0 .. n : h[i] = IF i = 0 THEN Nothing ELSE Go(f, i)
        OBVIOUS
    <2>2. f = h
        BY <1>0, Zenon
    <2> HIDE DEF h
    <2>. QED
        BY <2>1, <2>2
<1>1. 0 \in T
    <2>1. Is([i \in 0 .. 0 |-> Nothing], 0)
        OBVIOUS
    <2>. QED
        BY <2>1, Zenon
<1>2. ASSUME NEW m \in T PROVE m + 1 \in T
    <2>0. m \in Nat /\ m + 1 \in Nat
        BY <1>2
    <2>1. PICK f : Is(f, m)
        BY <1>2
    <2> DEFINE g == [i \in 0 .. m + 1 |-> IF i = m + 1 THEN Go(f, i) ELSE f[i]]
    <2>2. /\ \A i \in 0 .. m : g[i] = f[i]
          /\ g[m + 1] = Go(f, m + 1)
        <3> HIDE DEF Go
        <3>. QED
            BY <2>0
    <2>3. \A i \in 0 .. m + 1 : g[i] = IF i = 0 THEN Nothing ELSE Go(g, i)
        <3> TAKE i \in 0 .. m + 1
        <3> HIDE DEF g
        <3>0. i \in 0 .. m \/ i = m + 1
            BY <2>0
        <3>1. CASE i = m + 1
            <4>1. i # 0 /\ i - 1 = m /\ m \in 0 .. m
                BY <2>0, <3>1
            <4>2. g[i] = Go(f, i) /\ g[i - 1] = f[i - 1]
                <5> HIDE DEF Go
                <5>. QED
                    BY <2>2, <3>1, <4>1
            <4>. QED
                BY <4>1, <4>2, Zenon
        <3>2. CASE i \in 0 .. m
            <4>1. f[i] = IF i = 0 THEN Nothing ELSE Go(f, i)
                BY <1>0, <2>0, <2>1, <3>2, Zenon
            <4>2. g[i] = f[i] /\ (i # 0 => g[i - 1] = f[i - 1])
                BY <2>0, <2>2, <3>2
            <4>. QED
                BY <4>1, <4>2, Zenon
        <3>. QED
            BY <3>0, <3>1, <3>2
    <2>4. Is(g, m + 1)
        <3> DEFINE h == [i \in 0 .. m + 1 |-> IF i = 0 THEN Nothing ELSE Go(g, i)]
        <3>1. g = h
            <4>1. \A i \in 0 .. m + 1 : h[i] = IF i = 0 THEN Nothing ELSE Go(g, i)
                <5> HIDE DEF g, Go
                <5>. QED
                    OBVIOUS
            <4>2. \A i \in 0 .. m + 1 : g[i] = h[i]
                <5> HIDE DEF g, h, Go
                <5>. QED
                    BY <2>3, <4>1
            <4>3. DOMAIN g = 0 .. m + 1 /\ g = [i \in DOMAIN g |-> g[i]]
                <5> HIDE DEF Go
                <5>. QED
                    OBVIOUS
            <4>4. DOMAIN h = 0 .. m + 1 /\ h = [i \in DOMAIN h |-> h[i]]
                <5> HIDE DEF Go, g
                <5>. QED
                    OBVIOUS
            <4> HIDE DEF g, h
            <4>. QED
                BY <4>2, <4>3, <4>4
        <3>. QED
            BY <3>1, Zenon
    <2>. QED
        BY <2>0, <2>4, Zenon
<1>3. Len(alts) \in T
    <2> HIDE DEF T
    <2>. QED
        BY <1>1, <1>2, AllNats DEF T
<1>4. PICK f : Is(f, Len(alts))
    BY <1>3
<1>5. Is(Updates(alts, rets), Len(alts))
    BY <1>4 DEF Updates, UpdatesNext
<1>6. \A i \in 0 .. Len(alts) :
         Updates(alts, rets)[i] = IF i = 0 THEN Nothing ELSE Go(Updates(alts, rets), i)
    BY <1>0, <1>5, Zenon
<1>7. 0 \in 0 .. Len(alts) /\ \A i \in 1 .. Len(alts) : i \in 0 .. Len(alts) /\ i # 0
    OBVIOUS
<1>. QED
    BY <1>6, <1>7, Zenon

(* Whatever the place, an alternative takes some of what is left.          *)
LEMMA AlternativesForward ==
    ASSUME NEW C, NEW url \in Seq(C), NEW rules \in Seq(Rules), CanBuild(rules), NEW n \in Nodes(rules),
           NEW pos \in 1 .. Len(url), NEW i \in 1 .. 6, NEW a \in Alternatives(Trie(rules), url, n, pos)[i]
    PROVE  a.node \in Nodes(rules) /\ a.pos \in pos + 1 .. Len(url) + 1
<1> DEFINE t == Trie(rules)
<1>1. DOMAIN t.idx = Nodes(rules) /\ t.kids[n] = Fragments(Index(rules), n)
    BY IndexIs DEF Trie
<1>2. Len(url) \in Nat /\ pos \in 1 .. Len(url) + 1
    OBVIOUS
<1> HIDE DEF t
<1>3. CASE i \in 1 .. 5
    <2>1. PICK p : p = ParamTypes[i]
        OBVIOUS
    <2>2. p \in ToSet(ParamTypes)
        BY <1>3, <2>1 DEF ToSet, ParamTypes
    <2>3. a \in ByParam(t, url, n, pos, p)
        BY <1>3, <2>1, AlternativesAre DEF t
    <2>4. PICK k : k = Taken(p, url, pos)
        OBVIOUS
    <2>5. Append(n, p) \in Nodes(rules) /\ k > 0 /\ a.node = Append(n, p) /\ a.pos = pos + k
        BY <1>1, <2>3, <2>4 DEF ByParam
    <2>6. k \in 0 .. Len(url) - pos + 1
        BY <1>2, <2>2, <2>4, TakenBounds
    <2>. QED
        BY <1>2, <2>5, <2>6
<1>4. CASE i = 6
    <2>1. a \in ByFragment(t, url, n, pos)
        BY <1>4, AlternativesAre DEF t
    <2>2. PICK f \in Fragments(Index(rules), n) :
             /\ IsPrefix(f, SubSeq(url, pos, Len(url)))
             /\ a = [node |-> n \o f, pos |-> pos + Len(f), push |-> <<>>]
        BY <1>1, <2>1 DEF ByFragment
    <2>3. PICK m \in Below(Nodes(rules), n) : f = SubSeq(m, Len(n) + 1, Len(m))
        BY FragmentsAre
    <2>4. /\ m \in Nodes(rules) /\ m \in Seq(STRING) /\ n \in Seq(STRING) /\ Len(n) < Len(m)
          /\ n \o f = m /\ Len(f) = Len(m) - Len(n)
        BY <2>3, BelowIs
    <2>5. Len(SubSeq(url, pos, Len(url))) = Len(url) - pos + 1
        <3>1. pos \in Int /\ Len(url) \in Int /\ pos <= Len(url) /\ \A j \in pos .. Len(url) : url[j] \in C
            BY <1>2
        <3>. QED
            BY <3>1, SubSeqProperties
    <2>6. Len(f) <= Len(url) - pos + 1
        BY <2>2, <2>5 DEF IsPrefix
    <2>7. Len(f) \in Nat /\ Len(f) > 0
        BY <2>4
    <2>8. a.node = m /\ a.pos = pos + Len(f)
        BY <2>2, <2>4
    <2>. QED
        BY <1>2, <2>4, <2>6, <2>7, <2>8
<1>. QED
    BY <1>3, <1>4

(* What find returns at a node and a place, when f is what it returns      *)
(* further on.                                                             *)
Returns(t, url, f, n, pos) ==
    [i \in DOMAIN Alternatives(t, url, n, pos) |->
        {f[a.pos][a.node] : a \in Alternatives(t, url, n, pos)[i]}]

SearchNext(t, url, f, n, pos) ==
    IF pos > Len(url) THEN AtEnd(t.idx[n])
    ELSE Updates(Alternatives(t, url, n, pos), Returns(t, url, f, n, pos))
            [Len(Alternatives(t, url, n, pos))]

LEMMA SearchLooksAhead ==
    ASSUME NEW C, NEW url \in Seq(C), NEW rules \in Seq(Rules), CanBuild(rules),
           NEW n \in Nodes(rules), NEW pos \in 1 .. Len(url) + 1, NEW f, NEW g,
           \A q \in pos + 1 .. Len(url) + 1 : f[q] = g[q]
    PROVE  SearchNext(Trie(rules), url, f, n, pos) = SearchNext(Trie(rules), url, g, n, pos)
<1>1. CASE pos > Len(url)
    BY <1>1 DEF SearchNext
<1>2. CASE ~(pos > Len(url))
    <2> DEFINE t == Trie(rules)
               alts == Alternatives(t, url, n, pos)
    <2>1. pos \in 1 .. Len(url)
        BY <1>2
    <2>2. DOMAIN alts = 1 .. 6
        BY AlternativesAre
    <2>3. \A i \in 1 .. 6 : \A a \in alts[i] : a.pos \in pos + 1 .. Len(url) + 1
        BY <2>1, AlternativesForward
    <2> HIDE DEF alts, t
    <2>4. ASSUME NEW i \in DOMAIN alts
          PROVE  {f[a.pos][a.node] : a \in alts[i]} = {g[a.pos][a.node] : a \in alts[i]}
        <3>1. \A a \in alts[i] : f[a.pos] = g[a.pos]
            BY <2>2, <2>3
        <3>. QED
            BY <3>1
    <2>5. [i \in DOMAIN alts |-> {f[a.pos][a.node] : a \in alts[i]}] =
          [i \in DOMAIN alts |-> {g[a.pos][a.node] : a \in alts[i]}]
        BY <2>4
    <2>6. Returns(t, url, f, n, pos) = Returns(t, url, g, n, pos)
        BY <2>5, Zenon DEF Returns, alts
    <2>. QED
        BY <2>6 DEF SearchNext, t
<1>. QED
    BY <1>1, <1>2

(* So there is such a function, and the search is one.                     *)
LEMMA SearchSteps ==
    ASSUME NEW C, NEW url \in Seq(C), NEW rules \in Seq(Rules), CanBuild(rules)
    PROVE  \A pos \in 1 .. Len(url) + 1 : \A n \in Nodes(rules) :
              Search(Trie(rules), url)[pos][n] =
                 SearchNext(Trie(rules), url, Search(Trie(rules), url), n, pos)
<1> DEFINE t == Trie(rules)
           L == Len(url)
           AtPlace(f, pos) == [n \in Nodes(rules) |-> SearchNext(t, url, f, n, pos)]
           Is(f, d) == \A pos \in 1 .. L + 1 : pos > L + 1 - d => f[pos] = AtPlace(f, pos)
           T == {d \in Nat : \E f : Is(f, d)}
<1>0. L \in Nat
    OBVIOUS
<1>1. ASSUME NEW pos \in 1 .. L + 1, NEW f, NEW g, \A q \in pos + 1 .. L + 1 : f[q] = g[q]
      PROVE  AtPlace(f, pos) = AtPlace(g, pos)
    <2>1. \A n \in Nodes(rules) : SearchNext(t, url, f, n, pos) = SearchNext(t, url, g, n, pos)
        BY <1>1, SearchLooksAhead
    <2> HIDE DEF t
    <2>. QED
        BY <2>1
<1> HIDE DEF AtPlace, t
<1>2. 0 \in T
    <2>1. Is(<<>>, 0)
        BY <1>0
    <2>. QED
        BY <2>1
<1>3. ASSUME NEW d \in T PROVE d + 1 \in T
    <2>0. d \in Nat /\ d + 1 \in Nat
        OBVIOUS
    <2>1. PICK f : Is(f, d)
        OBVIOUS
    <2> DEFINE g == [pos \in 1 .. L + 1 |-> IF pos = L + 1 - d THEN AtPlace(f, pos) ELSE f[pos]]
    <2>2. ASSUME NEW pos \in 1 .. L + 1, pos > L + 1 - (d + 1)
          PROVE  g[pos] = AtPlace(g, pos)
        <3>1. \A q \in pos + 1 .. L + 1 : q \in 1 .. L + 1 /\ q # L + 1 - d
            BY <1>0, <2>0, <2>2
        <3>2. \A q \in pos + 1 .. L + 1 : f[q] = g[q]
            BY <3>1
        <3>3. AtPlace(f, pos) = AtPlace(g, pos)
            <4> HIDE DEF g
            <4>. QED
                BY <1>1, <3>2
        <3>4. CASE pos = L + 1 - d
            BY <3>3, <3>4
        <3>5. CASE pos # L + 1 - d
            <4>1. pos > L + 1 - d
                BY <1>0, <2>0, <2>2, <3>5
            <4>2. f[pos] = AtPlace(f, pos)
                BY <2>1, <4>1
            <4>3. g[pos] = f[pos]
                BY <3>5
            <4>. QED
                BY <3>3, <4>2, <4>3
        <3>. QED
            BY <3>4, <3>5
    <2>3. Is(g, d + 1)
        <3> HIDE DEF g
        <3>. QED
            BY <2>2
    <2>. QED
        BY <2>0, <2>3, Zenon
<1>4. L + 1 \in T
    <2>1. L + 1 \in Nat
        BY <1>0
    <2> HIDE DEF T
    <2>. QED
        BY <1>2, <1>3, <2>1, AllNats DEF T
<1>5. PICK f : Is(f, L + 1)
    BY <1>4
<1>6. \A pos \in 1 .. L + 1 : f[pos] = AtPlace(f, pos)
    BY <1>0, <1>5
<1> DEFINE h == [pos \in 1 .. L + 1 |-> f[pos]]
<1>7. \A pos \in 1 .. L + 1 : f[pos] = AtPlace(h, pos)
    <2> TAKE pos \in 1 .. L + 1
    <2>1. \A q \in pos + 1 .. L + 1 : q \in 1 .. L + 1
        BY <1>0
    <2>2. \A q \in pos + 1 .. L + 1 : f[q] = h[q]
        BY <2>1
    <2> HIDE DEF h
    <2>. QED
        BY <1>1, <1>6, <2>2
<1>8. h = [pos \in 1 .. L + 1 |-> AtPlace(h, pos)]
    <2>1. [pos \in 1 .. L + 1 |-> f[pos]] = [pos \in 1 .. L + 1 |-> AtPlace(h, pos)]
        <3> HIDE DEF h
        <3>. QED
            BY <1>7
    <2>. QED
        BY <2>1
<1>9. DOMAIN t.idx = Nodes(rules)
    BY IndexIs DEF Trie, t
<1> DEFINE S == Search(t, url)
           IsSearch(s) ==
               s = [pos \in 1 .. L + 1 |-> [n \in DOMAIN t.idx |-> SearchNext(t, url, s, n, pos)]]
<1>10. IsSearch(h)
    <2> HIDE DEF h
    <2>. QED
        BY <1>8, <1>9 DEF AtPlace
<1>11. S = CHOOSE s : IsSearch(s)
    BY Zenon DEF Search, SearchNext, Returns
<1>12. IsSearch(S)
    <2> HIDE DEF h, IsSearch, S
    <2>. QED
        BY <1>10, <1>11, Zenon
<1>13. S = [pos \in 1 .. L + 1 |-> AtPlace(S, pos)]
    <2> HIDE DEF S
    <2>. QED
        BY <1>9, <1>12 DEF AtPlace
<1>14. \A pos \in 1 .. L + 1 : \A n \in Nodes(rules) : S[pos][n] = SearchNext(t, url, S, n, pos)
    <2>1. \A pos \in 1 .. L + 1 : S[pos] = AtPlace(S, pos)
        <3> DEFINE R == [pos \in 1 .. L + 1 |-> AtPlace(S, pos)]
        <3>1. \A pos \in 1 .. L + 1 : R[pos] = AtPlace(S, pos)
            <4> HIDE DEF S
            <4>. QED
                OBVIOUS
        <3>2. S = R
            BY <1>13, Zenon
        <3> HIDE DEF R, S
        <3>. QED
            BY <3>1, <3>2
    <2> HIDE DEF S
    <2>. QED
        BY <2>1 DEF AtPlace
<1>. QED
    BY <1>14 DEF t

(* Ends that have no index change nothing.                                 *)
LEMMA FoundInMore ==
    ASSUME NEW V, NEW rules, NEW url, NEW n, NEW E, NEW F, E \subseteq F,
           \A m \in F : m \in E \/ Index(rules)[m] = 0,
           NEW r, FoundIn(V, rules, url, n, E, r)
    PROVE  FoundIn(V, rules, url, n, F, r)
<1> DEFINE P(m) == Match(m, url).params
           idx == Index(rules)
<1>1. r \in FoundType(V) /\ (r.moved => F # {}) /\ (~r.whole => \E a, b \in F : a # b)
    <2>1. (r.moved => E # {}) /\ (~r.whole => \E a, b \in E : a # b)
        BY DEF FoundIn
    <2>. QED
        BY <2>1 DEF FoundIn
<1>2. r.index = 0 => \A m \in F : idx[m] = 0
    BY DEF FoundIn
<1>3. ASSUME r.index # 0
      PROVE  \E m \in F : /\ idx[m] = r.index
                          /\ \A k \in F : idx[k] # 0 => r.index <= idx[k]
                          /\ EndOf(r.params, P(m))
                          /\ r.whole => P(m) = P(n) \o r.params
    <2>1. PICK m \in E : /\ idx[m] = r.index
                         /\ \A k \in E : idx[k] # 0 => r.index <= idx[k]
                         /\ EndOf(r.params, P(m))
                         /\ r.whole => P(m) = P(n) \o r.params
        BY <1>3 DEF FoundIn
    <2> HIDE DEF P, idx
    <2>2. \A k \in F : idx[k] # 0 => r.index <= idx[k]
        BY <2>1 DEF idx
    <2>3. m \in F
        OBVIOUS
    <2>. QED
        BY <2>1, <2>2, <2>3
<1>. QED
    BY <1>1, <1>2, <1>3 DEF FoundIn

(* The ends below the first i alternatives.                                *)
Seen(rules, url, alts, i) ==
    {m \in Nodes(rules) : \E j \in 1 .. i : \E a \in alts[j] : m \in EndsOf(rules, url, a.node)}

LEMMA TheOnlyOne ==
    ASSUME NEW S, AtMostOne(S), S # {}
    PROVE  The(S) \in S /\ S = {The(S)}
<1>1. The(S) \in S
    BY Zenon DEF The
<1>. QED
    BY <1>1 DEF AtMostOne

LEMMA UpdatesFind ==
    ASSUME NEW V, NEW C, NEW url \in Seq(C), Values(V, url), NEW rules \in Seq(Rules), CanBuild(rules),
           NEW n \in Nodes(rules), NEW pos, pos = Match(n, url).pos, pos \in 1 .. Len(url), NEW f,
           \A i \in 1 .. 6 : \A a \in Alternatives(Trie(rules), url, n, pos)[i] :
              FoundIn(V, rules, url, a.node, EndsOf(rules, url, a.node), f[a.pos][a.node])
    PROVE  FoundIn(V, rules, url, n, EndsOf(rules, url, n), SearchNext(Trie(rules), url, f, n, pos))
<1> DEFINE t == Trie(rules)
           alts == Alternatives(t, url, n, pos)
           rets == Returns(t, url, f, n, pos)
           U == Updates(alts, rets)
           E(w) == EndsOf(rules, url, w)
           Past(i) == Seen(rules, url, alts, i)
           T == {i \in Nat : i <= 6 => FoundIn(V, rules, url, n, Past(i), U[i])}
<1>1. /\ Len(alts) = 6 /\ DOMAIN alts = 1 .. 6
      /\ \A i \in 1 .. 6 : /\ AtMostOne(alts[i])
                           /\ \A a \in alts[i] : LeadsOn(V, rules, url, n, a)
    <2>1. Len(alts) = 6 /\ DOMAIN alts = 1 .. 6
        BY AlternativesAre
    <2>2. \A i \in 1 .. 6 : AtMostOne(alts[i])
        BY AlternativesLead
    <2>3. \A i \in 1 .. 6 : \A a \in alts[i] : LeadsOn(V, rules, url, n, a)
        BY AlternativesLead
    <2>. QED
        BY <2>1, <2>2, <2>3
<1>0. Split(rules, url, n, alts)
    BY AlternativesSplit
<1>2. /\ \A i \in 1 .. 6 : \A a \in alts[i] : E(a.node) \subseteq E(n)
      /\ \A i, j \in 1 .. 6 : \A a \in alts[i] : \A b \in alts[j] : i # j => E(a.node) \cap E(b.node) = {}
    <2> HIDE DEF alts
    <2>. QED
        BY <1>0, Zenon DEF Split
<1>3. \A m \in E(n) : Index(rules)[m] # 0 => \E i \in 1 .. 6 : \E a \in alts[i] : m \in E(a.node)
    <2> HIDE DEF alts
    <2>. QED
        BY <1>0, Zenon DEF Split
<1>4. \A i \in 1 .. 6 : \A a \in alts[i] : FoundIn(V, rules, url, a.node, E(a.node), f[a.pos][a.node])
    OBVIOUS
<1>5. \A w : E(w) \subseteq Nodes(rules)
    BY DEF EndsOf
<1>6. \A i \in 1 .. 6 : rets[i] = {f[a.pos][a.node] : a \in alts[i]}
    BY <1>1 DEF Returns
<1> HIDE DEF t, alts, rets, E
<1>7. /\ U[0] = Nothing
      /\ \A i \in 1 .. 6 : U[i] = UpdatesNext(alts, rets, U[i - 1], i)
    <2>1. Len(alts) \in Nat
        BY <1>1
    <2>2. /\ Updates(alts, rets)[0] = Nothing
          /\ \A i \in 1 .. Len(alts) :
                Updates(alts, rets)[i] = UpdatesNext(alts, rets, Updates(alts, rets)[i - 1], i)
        BY <2>1, UpdatesSteps, Zenon
    <2>. QED
        BY <1>1, <2>2
<1> HIDE DEF U
<1>8. 0 \in T
    <2>1. Past(0) = {}
        BY DEF Seen
    <2>2. FoundIn(V, rules, url, n, {}, Nothing)
        <3>1. Nothing \in FoundType(V)
            BY DEF FoundType, Nothing
        <3>2. Nothing.index = 0 /\ Nothing.whole = TRUE /\ Nothing.moved = FALSE
            BY DEF Nothing
        <3>. QED
            BY <3>1, <3>2 DEF FoundIn
    <2>. QED
        BY <1>7, <2>1, <2>2
<1>9. ASSUME NEW k \in T PROVE k + 1 \in T
    <2> SUFFICES ASSUME k + 1 <= 6 PROVE FoundIn(V, rules, url, n, Past(k + 1), U[k + 1])
        OBVIOUS
    <2>1. k \in Nat /\ k + 1 \in 1 .. 6 /\ (k + 1) - 1 = k /\ k <= 6
        OBVIOUS
    <2>2. FoundIn(V, rules, url, n, Past(k), U[k])
        BY <2>1
    <2>3. U[k + 1] = UpdatesNext(alts, rets, U[k], k + 1)
        BY <1>7, <2>1
    <2>4. \A j \in 1 .. k + 1 : j \in 1 .. k \/ j = k + 1
        BY <2>1
    <2>5. \A j \in 1 .. k : j \in 1 .. k + 1 /\ j \in 1 .. 6 /\ j # k + 1
        BY <2>1
    <2>6. CASE alts[k + 1] = {}
        <3>1. Past(k + 1) = Past(k)
            BY <2>4, <2>5, <2>6 DEF Seen
        <3>. QED
            BY <2>2, <2>3, <2>6, <3>1 DEF UpdatesNext
    <2>7. CASE alts[k + 1] # {}
        <3>1. PICK a : a = The(alts[k + 1])
            OBVIOUS
        <3>2. a \in alts[k + 1] /\ alts[k + 1] = {a}
            BY <1>1, <2>1, <2>7, <3>1, TheOnlyOne
        <3>3. PICK ret : ret = f[a.pos][a.node]
            OBVIOUS
        <3>4. rets[k + 1] = {ret}
            <4>1. rets[k + 1] = {f[b.pos][b.node] : b \in alts[k + 1]}
                BY <1>6, <2>1
            <4>2. {f[b.pos][b.node] : b \in {a}} = {f[a.pos][a.node]}
                OBVIOUS
            <4>. QED
                BY <3>2, <3>3, <4>1, <4>2
        <3>5. The(rets[k + 1]) = ret
            BY <3>4, Zenon DEF The
        <3>6. U[k + 1] = Update(U[k], a, ret)
            BY <2>3, <2>7, <3>1, <3>5 DEF UpdatesNext
        <3>7. FoundIn(V, rules, url, a.node, E(a.node), ret) /\ LeadsOn(V, rules, url, n, a)
            BY <1>1, <1>4, <2>1, <3>2, <3>3
        <3>8. Past(k) \cap E(a.node) = {}
            <4> SUFFICES ASSUME NEW m \in Past(k), m \in E(a.node) PROVE FALSE
                OBVIOUS
            <4>1. PICK j \in 1 .. k : \E b \in alts[j] : m \in E(b.node)
                BY DEF Seen, E
            <4>2. PICK b \in alts[j] : m \in E(b.node)
                BY <4>1
            <4>3. j \in 1 .. 6 /\ j # k + 1
                BY <2>5
            <4>4. E(b.node) \cap E(a.node) = {}
                BY <1>2, <2>1, <3>2, <4>3
            <4>. QED
                BY <4>2, <4>4
        <3>9. Past(k + 1) = Past(k) \cup E(a.node)
            <4>1. ASSUME NEW m \in Past(k + 1) PROVE m \in Past(k) \cup E(a.node)
                <5>1. PICK j \in 1 .. k + 1 : \E b \in alts[j] : m \in E(b.node)
                    BY DEF Seen, E
                <5>2. m \in Nodes(rules)
                    BY DEF Seen
                <5>3. CASE j \in 1 .. k
                    BY <5>1, <5>2, <5>3 DEF Seen, E
                <5>4. CASE j = k + 1
                    BY <3>2, <5>1, <5>4
                <5>. QED
                    BY <2>4, <5>3, <5>4
            <4>2. ASSUME NEW m \in Past(k) PROVE m \in Past(k + 1)
                BY <2>5 DEF Seen
            <4>3. ASSUME NEW m \in E(a.node) PROVE m \in Past(k + 1)
                <5>1. m \in Nodes(rules)
                    BY <1>5
                <5>2. k + 1 \in 1 .. k + 1
                    BY <2>1
                <5>. QED
                    BY <3>2, <5>1, <5>2 DEF Seen, E
            <4> HIDE DEF Past
            <4>. QED
                BY <4>1, <4>2, <4>3
        <3>10. Past(k) \in SUBSET Nodes(rules) /\ E(a.node) \in SUBSET Nodes(rules)
            <4>1. Past(k) \in SUBSET Nodes(rules)
                BY DEF Seen
            <4>. QED
                BY <1>5, <4>1
        <3>11. FoundIn(V, rules, url, n, Past(k) \cup E(a.node), Update(U[k], a, ret))
            <4> HIDE DEF Past
            <4>. QED
                BY <2>2, <3>7, <3>8, <3>10, UpdateFinds
        <3>. QED
            BY <3>6, <3>9, <3>11
    <2>. QED
        BY <2>6, <2>7
<1>10. FoundIn(V, rules, url, n, Past(6), U[6])
    <2>1. 6 \in T
        <3> HIDE DEF T
        <3>. QED
            BY <1>8, <1>9, AllNats DEF T
    <2>. QED
        BY <2>1
<1>11. Past(6) \subseteq E(n)
    <2> SUFFICES ASSUME NEW m \in Past(6) PROVE m \in E(n)
        OBVIOUS
    <2>1. PICK j \in 1 .. 6 : \E b \in alts[j] : m \in E(b.node)
        BY DEF Seen, E
    <2>. QED
        BY <1>2, <2>1
<1>12. \A m \in E(n) : m \in Past(6) \/ Index(rules)[m] = 0
    <2> TAKE m \in E(n)
    <2>1. m \in Nodes(rules)
        BY <1>5
    <2>2. SUFFICES ASSUME Index(rules)[m] # 0 PROVE m \in Past(6)
        OBVIOUS
    <2>3. \E i \in 1 .. 6 : \E a \in alts[i] : m \in E(a.node)
        BY <1>3, <2>2
    <2>. QED
        BY <2>1, <2>3 DEF Seen, E
<1>13. FoundIn(V, rules, url, n, E(n), U[6])
    <2> HIDE DEF Past
    <2>. QED
        BY <1>10, <1>11, <1>12, FoundInMore
<1>14. SearchNext(t, url, f, n, pos) = U[6]
    <2>1. ~(pos > Len(url))
        OBVIOUS
    <2>. QED
        BY <1>1, <2>1 DEF SearchNext, U, rets, alts
<1>. QED
    BY <1>13, <1>14 DEF t, E

LEMMA EndFinds ==
    ASSUME NEW V, NEW C, NEW url \in Seq(C), Values(V, url), NEW rules \in Seq(Rules), CanBuild(rules),
           NEW n \in Nodes(rules), Match(n, url).pos = Len(url) + 1
    PROVE  FoundIn(V, rules, url, n, EndsOf(rules, url, n), AtEnd(Index(rules)[n]))
<1>1. EndsOf(rules, url, n) = {n}
    BY EndsAtEnd
<1>2. n \in Seq(STRING) /\ Starts(n, n)
    BY NodesAre DEF Starts
<1>3. Match(n, url) \in MatchType(V, url)
    BY <1>2, MatchOn
<1>4. PICK p : p = Match(n, url).params
    OBVIOUS
<1>5. PICK k : k = Index(rules)[n]
    OBVIOUS
<1>6. p \in Seq(V) /\ k \in Nat
    BY <1>3, <1>4, <1>5, IndexIs DEF MatchType
<1>7. p \o <<>> = p /\ <<>> \in Seq(V)
    BY <1>6, ConcatEmptySeq
<1>8. EndOf(<<>>, p)
    BY <1>6, <1>7, ConcatEnds
<1>9. PICK r : r = AtEnd(k)
    OBVIOUS
<1>10. r.index = k /\ r.params = <<>> /\ r.whole = TRUE /\ r.moved = TRUE /\ r \in FoundType(V)
    BY <1>6, <1>7, <1>9 DEF AtEnd, FoundType
<1>11. FoundIn(V, rules, url, n, {n}, r)
    BY <1>4, <1>5, <1>6, <1>7, <1>8, <1>10 DEF FoundIn
<1>. QED
    BY <1>1, <1>5, <1>9, <1>11

(* From every node that matches the URL up to a place, the search finds    *)
(* the least of the ends below.                                            *)
LEMMA SearchFinds ==
    ASSUME NEW V, NEW C, NEW url \in Seq(C), Values(V, url), NEW rules \in Seq(Rules), CanBuild(rules)
    PROVE  \A n \in Nodes(rules) : \A pos \in 1 .. Len(url) + 1 :
              pos = Match(n, url).pos =>
                 FoundIn(V, rules, url, n, EndsOf(rules, url, n), Search(Trie(rules), url)[pos][n])
<1> DEFINE t == Trie(rules)
           S == Search(t, url)
           L == Len(url)
           Finds(n, pos) ==
               pos = Match(n, url).pos => FoundIn(V, rules, url, n, EndsOf(rules, url, n), S[pos][n])
           T == {d \in Nat : \A pos \in 1 .. L + 1 : pos > L + 1 - d => \A n \in Nodes(rules) : Finds(n, pos)}
<1>0. L \in Nat
    OBVIOUS
<1>1. ASSUME NEW pos \in 1 .. L + 1, NEW n \in Nodes(rules), pos = Match(n, url).pos,
             \A q \in pos + 1 .. L + 1 : \A w \in Nodes(rules) : Finds(w, q)
      PROVE  FoundIn(V, rules, url, n, EndsOf(rules, url, n), S[pos][n])
    <2>1. S[pos][n] = SearchNext(t, url, S, n, pos)
        BY SearchSteps
    <2>2. CASE pos > L
        <3>1. pos = L + 1
            BY <1>0, <2>2
        <3>2. t.idx = Index(rules)
            BY DEF Trie
        <3>3. SearchNext(t, url, S, n, pos) = AtEnd(Index(rules)[n])
            <4> HIDE DEF t, S
            <4>. QED
                BY <2>2, <3>2 DEF SearchNext
        <3> HIDE DEF S
        <3>. QED
            BY <1>1, <2>1, <3>1, <3>3, EndFinds
    <2>3. CASE ~(pos > L)
        <3>1. pos \in 1 .. L
            BY <1>0, <2>3
        <3>2. ASSUME NEW i \in 1 .. 6, NEW a \in Alternatives(t, url, n, pos)[i]
              PROVE  FoundIn(V, rules, url, a.node, EndsOf(rules, url, a.node), S[a.pos][a.node])
            <4>1. LeadsOn(V, rules, url, n, a)
                BY <1>1, <3>1, AlternativesLead
            <4>2. a.node \in Nodes(rules) /\ a.pos = Match(a.node, url).pos
                  /\ a.pos \in 1 .. L + 1 /\ a.pos > pos
                BY <1>1, <4>1 DEF LeadsOn
            <4>3. a.pos \in pos + 1 .. L + 1
                BY <1>0, <4>2
            <4>4. Finds(a.node, a.pos)
                <5> HIDE DEF Finds
                <5>. QED
                    BY <1>1, <4>2, <4>3
            <4>. QED
                BY <4>2, <4>4
        <3>3. FoundIn(V, rules, url, n, EndsOf(rules, url, n), SearchNext(t, url, S, n, pos))
            <4> HIDE DEF S
            <4>. QED
                BY <1>1, <3>1, <3>2, UpdatesFind
        <3>. QED
            BY <2>1, <3>3
    <2>. QED
        BY <2>2, <2>3
<1> HIDE DEF S, t
<1>2. 0 \in T
    BY <1>0
<1>3. ASSUME NEW d \in T PROVE d + 1 \in T
    <2>1. d \in Nat /\ d + 1 \in Nat
        OBVIOUS
    <2>2. ASSUME NEW pos \in 1 .. L + 1, pos > L + 1 - (d + 1), NEW n \in Nodes(rules)
          PROVE  Finds(n, pos)
        <3>1. \A q \in pos + 1 .. L + 1 : q \in 1 .. L + 1 /\ q > L + 1 - d
            BY <1>0, <2>1, <2>2
        <3>2. \A q \in pos + 1 .. L + 1 : \A w \in Nodes(rules) : Finds(w, q)
            <4> HIDE DEF Finds
            <4>. QED
                BY <3>1
        <3>. QED
            BY <1>1, <3>2
    <2> HIDE DEF Finds
    <2>. QED
        BY <2>1, <2>2
<1>4. L + 1 \in T
    <2>1. L + 1 \in Nat
        BY <1>0
    <2> HIDE DEF T
    <2>. QED
        BY <1>2, <1>3, <2>1, AllNats DEF T
<1>5. \A pos \in 1 .. L + 1 : pos > L + 1 - (L + 1)
    BY <1>0
<1>6. \A pos \in 1 .. L + 1 : \A n \in Nodes(rules) : Finds(n, pos)
    <2> HIDE DEF Finds
    <2>. QED
        BY <1>4, <1>5
<1>. QED
    BY <1>6 DEF S, t

(* So the result of find is right for every table of routes and every URL. *)
FindIsRight(rules, url, route) ==
    LET fits  == {e \in Entries(rules) : Matches(e.path, url)}
        least == {e \in fits : \A f \in fits : e.index <= f.index}
        ends  == {n \in Nodes(rules) : Matches(n, url)}
    IN  IF fits = {} THEN route.index = 0
        ELSE \E e \in least :
                LET all == Match(e.path, url).params
                IN  /\ route.index = e.index
                    /\ \E i \in 0 .. Len(all) : route.params = SubSeq(all, i + 1, Len(all))
                    /\ ends = {e.path} => route.params = all

LEMMA FindFindsLeast ==
    ASSUME NEW rules \in Seq(Rules), CanBuild(rules), NEW C, NEW url \in Seq(C)
    PROVE  FindIsRight(rules, url, Find(Trie(rules), url))
<1> DEFINE V == {ValueOf(p, SubSeq(url, i, j)) : p \in ToSet(ParamTypes), i \in Nat, j \in Nat}
           idx == Index(rules)
           fits  == {e \in Entries(rules) : Matches(e.path, url)}
           ends  == {n \in Nodes(rules) : Matches(n, url)}
           r == Find(Trie(rules), url)
           P(m) == Match(m, url).params
<1>1. Values(V, url)
    BY DEF Values
<1> HIDE DEF V
<1>2. <<>> \in Nodes(rules) /\ <<>> \in Seq(STRING) /\ Len(<<>>) = 0
    BY NodesAre
<1>3. Match(<<>>, url) = AtStart
    <2>1. Len(<<>>) \in Nat
        BY <1>2
    <2>. QED
        BY <1>2, <2>1, MatchToSteps DEF Match
<1>4. Match(<<>>, url).pos = 1 /\ P(<<>>) = <<>>
    BY <1>3 DEF AtStart
<1>5. EndsOf(rules, url, <<>>) = ends
    <2>1. \A m \in Nodes(rules) : Starts(<<>>, m)
        <3> TAKE m \in Nodes(rules)
        <3>1. Len(m) \in Nat
            BY NodesAre
        <3>. QED
            BY <1>2, <3>1 DEF Starts
    <2>. QED
        BY <2>1 DEF EndsOf
<1>6. FoundIn(V, rules, url, <<>>, ends, r)
    <2>1. 1 \in 1 .. Len(url) + 1
        OBVIOUS
    <2>2. FoundIn(V, rules, url, <<>>, EndsOf(rules, url, <<>>), Search(Trie(rules), url)[1][<<>>])
        BY <1>1, <1>2, <1>4, <2>1, SearchFinds
    <2>. QED
        BY <1>5, <2>2 DEF Find
<1> HIDE DEF r, P, idx
<1>7. /\ \A e \in Entries(rules) : e.path \in Nodes(rules) /\ idx[e.path] = e.index /\ e.index # 0
      /\ \A n \in Nodes(rules) :
            idx[n] # 0 => \E e \in Entries(rules) : e.path = n /\ e.index = idx[n]
    BY IndexIs, EntriesAre DEF idx
<1>8. /\ r \in FoundType(V)
      /\ r.index = 0 => \A m \in ends : idx[m] = 0
      /\ r.index # 0 =>
            \E m \in ends :
               /\ idx[m] = r.index
               /\ \A k \in ends : idx[k] # 0 => r.index <= idx[k]
               /\ EndOf(r.params, P(m))
               /\ r.whole => P(m) = P(<<>>) \o r.params
      /\ ~r.whole => \E a, b \in ends : a # b
    <2> HIDE DEF ends
    <2>. QED
        BY <1>6 DEF FoundIn, P, idx
<1>9. \A e \in fits : e.path \in ends /\ idx[e.path] = e.index /\ e.index # 0
    BY <1>7
<1>10. CASE fits = {}
    <2>1. ASSUME r.index # 0 PROVE FALSE
        <3>1. PICK m \in ends : idx[m] = r.index
            BY <1>8, <2>1
        <3>2. PICK e \in Entries(rules) : e.path = m
            BY <1>7, <2>1, <3>1
        <3>3. e \in fits
            BY <3>2
        <3>. QED
            BY <1>10, <3>3
    <2>. QED
        BY <1>10, <2>1 DEF FindIsRight, r
<1>11. CASE fits # {}
    <2>1. r.index # 0
        <3>1. PICK e \in fits : TRUE
            BY <1>11
        <3>. QED
            BY <1>8, <1>9, <3>1
    <2>2. PICK m \in ends : /\ idx[m] = r.index
                            /\ \A k \in ends : idx[k] # 0 => r.index <= idx[k]
                            /\ EndOf(r.params, P(m))
                            /\ r.whole => P(m) = P(<<>>) \o r.params
        BY <1>8, <2>1
    <2>3. PICK e \in Entries(rules) : e.path = m /\ e.index = idx[m]
        BY <1>7, <2>1, <2>2
    <2>4. e \in fits
        BY <2>3
    <2>5. \A f \in fits : e.index <= f.index
        <3> HIDE DEF ends, fits
        <3>. QED
            BY <1>9, <2>2, <2>3
    <2>6. r.index = e.index
        BY <2>2, <2>3
    <2>7. \E i \in 0 .. Len(P(e.path)) : r.params = SubSeq(P(e.path), i + 1, Len(P(e.path)))
        BY <2>2, <2>3 DEF EndOf
    <2>8. ASSUME ends = {e.path} PROVE r.params = P(e.path)
        <3>1. r.whole /\ r.params \in Seq(V)
            <4> HIDE DEF ends
            <4>. QED
                BY <1>8, <2>8 DEF FoundType
        <3>2. <<>> \o r.params = r.params
            BY <3>1, ConcatEmptySeq
        <3>. QED
            BY <1>4, <2>2, <2>3, <3>1, <3>2
    <2> DEFINE least == {x \in fits : \A f \in fits : x.index <= f.index}
    <2>9. e \in least
        <3> HIDE DEF fits
        <3>. QED
            BY <2>4, <2>5
    <2>10. \E x \in least : /\ r.index = x.index
                            /\ \E i \in 0 .. Len(P(x.path)) : r.params = SubSeq(P(x.path), i + 1, Len(P(x.path)))
                            /\ ends = {x.path} => r.params = P(x.path)
        <3> HIDE DEF least, ends
        <3>. QED
            BY <2>6, <2>7, <2>8, <2>9
    <2>. QED
        BY <1>11, <2>10, Zenon DEF FindIsRight, r, P
<1>. QED
    BY <1>10, <1>11

(* The routes are built before the server listens, and stay as they are.   *)
Routed == phase # "refused" =>
              CanBuild(setting.table.rules) /\ trie = Trie(setting.table.rules)

LEMMA RoutesStay == Spec => []Routed
<1>1. Init => Routed
    BY DEF Init, Routed
<1>2. Routed /\ [Next]_vars => Routed'
    <2> SUFFICES ASSUME Routed, [Next]_vars PROVE Routed'
        OBVIOUS
    <2>1. UNCHANGED <<setting, trie>> /\ (phase = "refused" => phase' = "refused")
        BY DEF Next, vars, ReceiveHeaders, ReceiveBody, ReceiveNothing, ReceiveEnds, ReceiveFails,
               ForeignWrite, HandleRequest, Fill, AddBody, AddChunk, ClearContent, Merge,
               SetLength, FillEnds, FillFails, SendResponse, SendFails, UpgradeEnds, Reading
    <2>. QED
        BY <2>1 DEF Routed
<1>. QED
    BY <1>1, <1>2, PTL DEF Spec

(* The rule that handles a request is the least of those whose paths match *)
(* its URL, whatever the routes and the URL: the merging of the nodes by   *)
(* optimize and the vector that all calls of find share do not change      *)
(* which rule that is, nor, when one path only matches, its parameters.    *)
THEOREM RequestsAreRouted == Spec => []RouteIsLeast
<1>1. IInv /\ Routed => RouteIsLeast
    <2> SUFFICES ASSUME IInv, Routed, phase = "handle" PROVE RouteIsLeast
        BY DEF RouteIsLeast
    <2> DEFINE table == setting.table
               url   == Target(table, req.url)
               C     == STRING \cup {"/", "#files"}
    <2>1. CanBuild(table.rules) /\ trie = Trie(table.rules)
        BY DEF Routed
    <2>2. table.base \in Seq(STRING) /\ table.rules \in Seq(Rules)
        BY HttpAssumption DEF IInv, Types
    <2>3. req.url \in Seq(STRING)
        BY DEF IInv, Types, Parser
    <2>4. url \in Seq(C)
        <3>1. CASE IsPrefix(table.base, req.url)
            <4>1. Len(table.base) + 1 \in Int /\ Len(req.url) \in Int
                BY <2>2, <2>3
            <4>2. \A i \in Len(table.base) + 1 .. Len(req.url) : req.url[i] \in C
                <5>1. \A i \in Len(table.base) + 1 .. Len(req.url) : i \in 1 .. Len(req.url)
                    BY <2>2, <2>3
                <5>. QED
                    BY <2>3, <5>1
            <4> HIDE DEF C
            <4>3. SubSeq(req.url, Len(table.base) + 1, Len(req.url)) \in Seq(C)
                BY <4>1, <4>2, SubSeqProperties
            <4>. QED
                BY <3>1, <4>3 DEF Target
        <3>2. CASE ~IsPrefix(table.base, req.url)
            BY <3>2 DEF Target, FileServerRoute
        <3>. QED
            BY <3>1, <3>2
    <2> HIDE DEF C, table, url
    <2>5. FindIsRight(table.rules, url, Find(trie, url))
        BY <2>1, <2>2, <2>4, FindFindsLeast
    <2>6. PICK r : r = Find(trie, url)
        OBVIOUS
    <2>7. PICK route : route = RouteOf(table, trie, req.url)
        OBVIOUS
    <2>8. route.index = r.index /\ route.params = r.params
        BY <2>6, <2>7 DEF RouteOf, url
    <2>9. FindIsRight(table.rules, url, route)
        BY <2>5, <2>6, <2>8 DEF FindIsRight
    <2>. QED
        BY <2>7, <2>9, Zenon DEF RouteIsLeast, FindIsRight, url, table
<1>. QED
    BY <1>1, Invariance, RoutesStay, PTL

----------------------------------------------------------------------------
(* The promise to the client                                               *)

(* The numbers of the answers, of which the last is LastReq.               *)
LEMMA AnsweredNumbers ==
    ASSUME answers \in Seq(Answers), NEW s, s = [i \in DOMAIN answers |-> answers[i].req]
    PROVE  /\ s \in Seq(Nat) /\ Len(s) = Len(answers) /\ Len(s) \in Nat
           /\ \A i \in 1 .. Len(s) : s[i] = answers[i].req
           /\ LastReq = IF s = <<>> THEN 0 ELSE Last(s)
<1>1. \A i \in 1 .. Len(answers) : answers[i] \in Answers
    OBVIOUS
<1>2. \A i \in 1 .. Len(answers) : answers[i].req \in Nat
    BY <1>1 DEF Answers
<1>3. /\ s \in Seq(Nat) /\ Len(s) = Len(answers) /\ Len(s) \in Nat
      /\ \A i \in 1 .. Len(s) : s[i] = answers[i].req
    BY <1>2
<1>4. (s = <<>>) <=> (answers = <<>>)
    BY <1>3
<1>5. answers # <<>> => Last(s) = answers[Len(answers)].req
    BY <1>3 DEF Last
<1>. QED
    BY <1>3, <1>4, <1>5 DEF LastReq

(* A new connection has answered nothing.                                  *)
LEMMA InitRefines == Init => Exchange!Init
<1> SUFFICES ASSUME Init PROVE Exchange!Init
    OBVIOUS
<1>1. setting.pipelined \in BOOLEAN /\ answers = <<>>
    BY Streams DEF Init
<1>2. [i \in DOMAIN answers |-> answers[i].req] = <<>>
    BY <1>1
<1>. QED
    BY <1>1, <1>2 DEF Exchange!Init

(* Every step answers the request in turn, ends the connection, or means   *)
(* nothing to the client.                                                  *)
LEMMA StepRefines ==
    IInv /\ [Next]_vars => [Exchange!Next]_(Exchange!vars)
<1> SUFFICES ASSUME IInv, [Next]_vars PROVE [Exchange!Next]_(Exchange!vars)
    OBVIOUS
<1> DEFINE s == [i \in DOMAIN answers |-> answers[i].req]
<1>1. answers \in Seq(Answers) /\ setting \in Settings
    BY DEF IInv, Types
<1>2. CASE UNCHANGED <<setting, answers>> /\ (phase \in Ended => phase' \in Ended)
    <2>1. UNCHANGED (~setting.pipelined) /\ s' = s
        BY <1>2
    <2>2. CASE (phase \in Ended) = (phase' \in Ended)
        BY <2>1, <2>2 DEF Exchange!vars, Ended
    <2>3. CASE phase \notin Ended /\ phase' \in Ended
        BY <2>1, <2>3 DEF Exchange!Close, Exchange!Next, Ended
    <2>. QED
        BY <1>2, <2>2, <2>3
<1>3. CASE SendResponse
    <2>1. /\ phase = "send" /\ UNCHANGED setting
          /\ answers' = Append(answers, [req |-> Asked, err |-> resp.err,
                                         touched |-> resp.touched, head |-> AskedHead,
                                         framed |-> Framed])
          /\ resp.err => phase' \in Ended
        BY <1>3 DEF SendResponse, Ended
    <2>2. /\ req.cur \in Nat /\ req.cur <= Len(setting.stream)
          /\ LastReq \in Nat /\ LastReq <= req.cur
          /\ Asked \in {0, req.cur} /\ (Asked = 0 => resp.err)
          /\ Asked # 0 => /\ req.cur >= 1 /\ LastReq < req.cur
                          /\ ~setting.pipelined => req.cur = Len(answers) + 1
          /\ ~setting.pipelined => LastReq = Len(answers)
        BY <2>1, AskedInTurn
    <2>3. /\ Len(s) = Len(answers) /\ Len(s) \in Nat /\ s \in Seq(Nat)
          /\ LastReq = IF s = <<>> THEN 0 ELSE Last(s)
        BY <1>1, AnsweredNumbers
    <2>4. s' = Append(s, Asked)
        <3> DEFINE a == [req |-> Asked, err |-> resp.err, touched |-> resp.touched,
                         head |-> AskedHead, framed |-> Framed]
        <3>1. answers' = Append(answers, a) /\ a.req = Asked
            BY <2>1
        <3> HIDE DEF a
        <3>2. s' = [i \in DOMAIN Append(answers, a) |-> Append(answers, a)[i].req]
            BY <3>1
        <3>3. /\ DOMAIN Append(answers, a) = 1 .. Len(answers) + 1 /\ Len(answers) \in Nat
              /\ \A i \in 1 .. Len(answers) : Append(answers, a)[i] = answers[i]
              /\ Append(answers, a)[Len(answers) + 1] = a
            BY <1>1
        <3>4. \A i \in 1 .. Len(answers) : s[i] = answers[i].req
            BY <1>1
        <3>5. Asked \in Nat
            BY <2>2
        <3> HIDE DEF s
        <3>6. /\ Append(s, Asked) \in Seq(Nat) /\ Len(Append(s, Asked)) = Len(answers) + 1
              /\ \A i \in 1 .. Len(answers) : Append(s, Asked)[i] = s[i]
              /\ Append(s, Asked)[Len(answers) + 1] = Asked
            BY <2>3, <3>5
        <3>7. \A i \in 1 .. Len(answers) + 1 : Append(answers, a)[i].req = Append(s, Asked)[i]
            <4> TAKE i \in 1 .. Len(answers) + 1
            <4>1. i \in 1 .. Len(answers) \/ i = Len(answers) + 1
                BY <3>3
            <4>2. CASE i = Len(answers) + 1
                BY <3>1, <3>3, <3>6, <4>2
            <4>3. CASE i \in 1 .. Len(answers)
                BY <3>3, <3>4, <3>6, <4>3
            <4>. QED
                BY <4>1, <4>2, <4>3
        <3>8. Append(s, Asked) = [i \in 1 .. Len(answers) + 1 |-> Append(s, Asked)[i]]
            <4> DEFINE longer == Append(s, Asked)
            <4>1. longer \in Seq(Nat) /\ Len(longer) = Len(answers) + 1
                BY <3>6
            <4> HIDE DEF longer
            <4>2. longer = [i \in 1 .. Len(longer) |-> longer[i]]
                BY <4>1
            <4>. QED
                BY <4>1, <4>2 DEF longer
        <3>. QED
            BY <3>2, <3>3, <3>7, <3>8
    <2>5. Exchange!LastAnswered = LastReq
        BY <2>3 DEF Exchange!LastAnswered, Exchange!Last, Last
    <2>6. CASE Asked = 0
        <3>1. Exchange!Fail
            BY <2>1, <2>2, <2>4, <2>6 DEF Exchange!Fail, Ended
        <3>. QED
            BY <3>1 DEF Exchange!Next
    <2>7. CASE Asked # 0
        <3>1. PICK r \in 1 .. MaxRequests : r = Asked
            BY <1>1, <2>2, <2>7, Streams
        <3>2. IF ~setting.pipelined THEN r = LastReq + 1 ELSE r > LastReq
            BY <2>2, <2>7, <3>1
        <3>3. Exchange!Answer(r)
            <4>1. IF ~setting.pipelined THEN r = Exchange!LastAnswered + 1
                  ELSE r > Exchange!LastAnswered
                BY <2>5, <3>2
            <4>2. phase \notin Ended /\ (phase' \notin Ended) \in BOOLEAN
                BY <2>1 DEF Ended
            <4>3. UNCHANGED (~setting.pipelined)
                BY <2>1
            <4>. QED
                BY <2>4, <3>1, <4>1, <4>2, <4>3 DEF Exchange!Answer
        <3>4. Exchange!Next
            BY <3>3, Zenon DEF Exchange!Next
        <3>. QED
            BY <3>4
    <2>. QED
        BY <2>6, <2>7
<1>4. CASE ~SendResponse
    <2>1. CASE UNCHANGED vars
        BY <1>2, <2>1 DEF vars
    <2>2. CASE Next
        <3>1. UNCHANGED <<setting, answers>>
            BY <1>4, <2>2 DEF Next, ReceiveHeaders, ReceiveBody, ReceiveNothing, ReceiveEnds,
                  ReceiveFails, ForeignWrite, HandleRequest, Fill, AddBody, AddChunk, ClearContent,
                  Merge, SetLength, FillEnds, FillFails, SendFails, UpgradeEnds
        <3>2. phase \in Ended => phase = "upgraded" /\ phase' = "closed"
            BY <1>4, <2>2 DEF Next, ReceiveHeaders, ReceiveBody, ReceiveNothing, ReceiveEnds,
                  ReceiveFails, ForeignWrite, HandleRequest, Fill, AddBody, AddChunk, ClearContent,
                  Merge, SetLength, FillEnds, FillFails, SendFails, UpgradeEnds, Reading, Ended
        <3>. QED
            BY <1>2, <3>1, <3>2 DEF Ended
    <2>. QED
        BY <2>1, <2>2
<1>. QED
    BY <1>3, <1>4

(* Every connection keeps its promise to the client: answers come in the   *)
(* order of the requests, each at most once, never for another request     *)
(* than the one a waiting client has sent, and a failure that belongs to   *)
(* no request is the last one.                                             *)
THEOREM Refinement == Spec => ImplementsExchange
<1>. QED
    BY InitRefines, StepRefines, Invariance, PTL
    DEF Spec, ImplementsExchange, Exchange!Spec
==============================================================================
