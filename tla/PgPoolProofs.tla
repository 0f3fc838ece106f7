----------------------------- MODULE PgPoolProofs -----------------------------
(***************************************************************************)
(* What holds of the PostgreSQL pool for any number of clients and         *)
(* connections and any times in the order of the code's: a connection has  *)
(* one owner, idle handles are closed in time and not early, and no        *)
(* transaction is left open in the pool.                                   *)
(***************************************************************************)
EXTENDS PgPool, SequenceTheorems, FiniteSetTheorems, WellFoundedInduction, TLAPS

Handle == [conn : Conns, left : Int]

(* Types that TypeOK leaves out, and where a client has a connection.      *)
Types ==
    /\ async \in BOOLEAN
    /\ pool \in Seq(Handle) /\ free \subseteq Conns /\ lost \subseteq Conns
    /\ pc \in [Clients -> {"idle", "retry", "using", "inTx"}]
    /\ cached \in [Clients -> BOOLEAN]
    /\ tries \in [Clients -> 0 .. 2]
    /\ holds \in [Clients -> Conns \cup {None}]
    /\ valid \in [Clients -> BOOLEAN]
    /\ query \in [Clients -> {None, "begin", "stmt", "end", "last"}]
    /\ cleaner \in {"off", "asleep", "pruning"}
    /\ \A c \in Clients : /\ holds[c] = None <=> pc[c] \in {"idle", "retry"}
                          /\ query[c] # None => pc[c] \in {"using", "inTx"}
                          /\ valid[c] => pc[c] = "inTx"
                          /\ query[c] \in {"begin", "end", "last"} => pc[c] = "inTx"
                          /\ query[c] \in Closing => ~ valid[c]

(* OneOwner without cardinalities.                                         *)
Owned ==
    /\ \A i, j \in DOMAIN pool : pool[i].conn = pool[j].conn => i = j
    /\ \A c, d \in Clients : holds[c] = holds[d] /\ holds[c] # None => c = d
    /\ \A i \in DOMAIN pool, c \in Clients : pool[i].conn # holds[c]
    /\ \A i \in DOMAIN pool : pool[i].conn \notin free \cup lost
    /\ \A c \in Clients : holds[c] \notin free \cup lost
    /\ free \cap lost = {}
    /\ \A conn \in Conns : \/ conn \in free \cup lost
                           \/ \E i \in DOMAIN pool : pool[i].conn = conn
                           \/ \E c \in Clients : holds[c] = conn

(* The handles are in the order in which they expire, and the cleaner, if  *)
(* it sleeps, wakes before the first of them is late.                      *)
Timely ==
    /\ \A i \in DOMAIN pool : pool[i].left <= KeepAlive
    /\ \A i, j \in DOMAIN pool : i < j => pool[i].left <= pool[j].left
    /\ cleaner = "off" => pool = <<>>
    /\ cleaner = "asleep" =>
          /\ wake \in 0 .. KeepAlive + Slack
          /\ \A i \in DOMAIN pool : pool[i].left - wake >= Horizon - MinSleep
    /\ cleaner = "pruning" =>
          /\ limit = Horizon
          /\ \A i \in DOMAIN pool : pool[i].left >= Horizon - MinSleep

IInv == Types /\ Owned /\ Timely

----------------------------------------------------------------------------
(* Numbers and sequences                                                   *)

(* The lesser of two numbers.                                              *)
LEMMA MinOfTwo ==
    ASSUME NEW a \in Int, NEW b \in Int
    PROVE  Min({a, b}) = IF a <= b THEN a ELSE b
<1>1. \E x \in {a, b} : \A y \in {a, b} : x <= y
    OBVIOUS
<1>2. Min({a, b}) \in {a, b} /\ \A y \in {a, b} : Min({a, b}) <= y
    BY <1>1 DEF Min
<1>. QED
    BY <1>2

(* The greater of two numbers.                                             *)
LEMMA MaxOfTwo ==
    ASSUME NEW a \in Int, NEW b \in Int
    PROVE  Max({a, b}) = IF a >= b THEN a ELSE b
<1>1. \E x \in {a, b} : \A y \in {a, b} : x >= y
    OBVIOUS
<1>2. Max({a, b}) \in {a, b} /\ \A y \in {a, b} : Max({a, b}) >= y
    BY <1>1 DEF Max
<1>. QED
    BY <1>2

(* A set of naturals has a least element: there is no infinite descent.    *)
LEMMA MinOfNats ==
    ASSUME NEW S \in SUBSET Nat, S # {}
    PROVE  Min(S) \in S /\ \A y \in S : Min(S) <= y
<1> DEFINE R == {ss \in Nat \X Nat : ss[1] < ss[2]}
<1>1. IsWellFoundedOn(R, Nat)
    BY NatLessThanWellFounded, Zenon DEF OpToRel
<1>2. \A x, y \in Nat : y < x => <<y, x>> \in R
    <2> SUFFICES ASSUME NEW x \in Nat, NEW y \in Nat, y < x PROVE <<y, x>> \in R
        OBVIOUS
    <2>1. <<y, x>> \in Nat \X Nat /\ <<y, x>>[1] < <<y, x>>[2]
        OBVIOUS
    <2>. QED
        BY <2>1, Zenon
<1> HIDE DEF R
<1>3. PICK x \in S : \A y \in S : ~ (<<y, x>> \in R)
    BY <1>1, WFMin
<1>4. \A y \in S : x <= y
    <2> TAKE y \in S
    <2>1. ~ (y < x)
        BY <1>2, <1>3, Zenon
    <2>. QED
        BY <2>1
<1>. QED
    BY <1>4 DEF Min

(* The handles of a pool.                                                  *)
LEMMA Handles ==
    ASSUME NEW s \in Seq(Handle)
    PROVE  \A i \in DOMAIN s : s[i].conn \in Conns /\ s[i].left \in Int
<1>1. \A i \in DOMAIN s : s[i] \in Handle
    OBVIOUS
<1>2. \A h \in Handle : h.conn \in Conns /\ h.left \in Int
    BY DEF Handle
<1>. QED
    BY <1>1, <1>2

(* What is left of the pool without its first k handles.                   *)
LEMMA DropFirst ==
    ASSUME NEW s \in Seq(Handle), NEW k \in 0 .. Len(s)
    PROVE  LET t == SubSeq(s, k + 1, Len(s))
           IN  /\ t \in Seq(Handle) /\ DOMAIN t = 1 .. Len(s) - k
               /\ \A i \in DOMAIN t : i + k \in DOMAIN s /\ t[i] = s[i + k]
               /\ t = <<>> <=> k = Len(s)
<1> DEFINE t == SubSeq(s, k + 1, Len(s))
<1>1. Len(s) \in Nat /\ \A i \in k + 1 .. Len(s) : s[i] \in Handle
    OBVIOUS
<1>2. t \in Seq(Handle) /\ Len(t) = Len(s) - k
    BY <1>1, SubSeqProperties
<1>3. \A i \in 1 .. Len(s) - k : t[i] = s[i + k]
    BY <1>1, SubSeqProperties
<1> HIDE DEF t
<1>4. DOMAIN t = 1 .. Len(s) - k /\ (t = <<>> <=> Len(t) = 0)
    BY <1>2
<1>5. \A i \in DOMAIN t : i + k \in DOMAIN s
    BY <1>1, <1>4
<1>. QED
    BY <1>1, <1>2, <1>3, <1>4, <1>5 DEF t

(* ... and without its last.                                               *)
LEMMA DropLast ==
    ASSUME NEW s \in Seq(Handle), s # <<>>
    PROVE  /\ Front(s) \in Seq(Handle) /\ DOMAIN Front(s) = 1 .. Len(s) - 1
           /\ \A i \in 1 .. Len(s) - 1 : Front(s)[i] = s[i]
           /\ Len(s) \in DOMAIN s /\ Last(s) = s[Len(s)] /\ Last(s) \in Handle
<1>1. Len(s) \in Nat \ {0} /\ \A i \in 1 .. Len(s) - 1 : s[i] \in Handle
    OBVIOUS
<1> DEFINE m == Len(s) - 1
<1>2. SubSeq(s, 1, m) \in Seq(Handle) /\ Len(SubSeq(s, 1, m)) = m
    <2>1. m \in Nat /\ \A i \in 1 .. m : s[i] \in Handle
        BY <1>1
    <2> HIDE DEF m
    <2>2. /\ SubSeq(s, 1, m) \in Seq(Handle)
          /\ Len(SubSeq(s, 1, m)) = IF 1 <= m THEN m - 1 + 1 ELSE 0
        BY <2>1, SubSeqProperties
    <2>. QED
        BY <2>1, <2>2
<1>3. Front(s) \in Seq(Handle) /\ Len(Front(s)) = Len(s) - 1
    BY <1>2 DEF Front
<1>4. \A i \in 1 .. Len(s) - 1 : Front(s)[i] = s[i]
    BY <1>1 DEF Front
<1>. QED
    BY <1>1, <1>2, <1>3, <1>4 DEF Last

----------------------------------------------------------------------------
(* Statements change the client and the server, not the pool.              *)

StmtKinds == {"begin", "stmt", "end", "last"}

(* A statement is sent, or done at once, and no handle moves.              *)
LEMMA ExecuteTypes ==
    ASSUME Types, NEW c \in Clients, NEW q \in StmtKinds, NEW v \in BOOLEAN,
           Execute(c, q, v),
           q \in Closing => pc[c] = "inTx" /\ ~ v,
           v => q = "begin" \/ pc[c] = "inTx"
    PROVE  /\ Types' /\ UNCHANGED <<async, pool, free, lost, cached, tries, holds, prune>>
<1>1. /\ pc[c] \in {"using", "inTx"} /\ query[c] = None
      /\ UNCHANGED <<async, pool, free, lost, cached, tries, holds, prune>>
    BY DEF Execute
<1>2. CASE async
    <2>1. /\ query' = [query EXCEPT ![c] = q]
          /\ valid' = [valid EXCEPT ![c] = v]
          /\ pc' = [pc EXCEPT ![c] = IF q = "begin" THEN "inTx" ELSE pc[c]]
        BY <1>2 DEF Execute, Ends, None, Types
    <2>. QED
        BY <1>1, <2>1 DEF Types, StmtKinds, Closing, prune, None
<1>3. CASE ~ async
    <2>1. /\ query' = query
          /\ valid' = [valid EXCEPT ![c] = v]
          /\ pc' = [pc EXCEPT ![c] = IF q = "begin" THEN "inTx"
                                      ELSE IF q = "last" THEN "using" ELSE pc[c]]
        BY <1>3 DEF Execute, Ends, Types
    <2>. QED
        BY <1>1, <2>1 DEF Types, StmtKinds, Closing, prune, None
<1>. QED
    BY <1>1, <1>2, <1>3 DEF Types

(* A statement ends, and no handle moves.                                  *)
LEMMA OutcomeTypes ==
    ASSUME Types, NEW c \in Clients, Answer(c) \/ Fails(c)
    PROVE  /\ Types' /\ UNCHANGED <<async, pool, free, lost, cached, tries, holds, prune>>
<1>1. /\ query[c] # None /\ query' = [query EXCEPT ![c] = None]
      /\ UNCHANGED <<async, pool, free, lost, cached, tries, holds, prune>>
    BY DEF Answer, Fails
<1>2. PICK v \in BOOLEAN : /\ valid' = [valid EXCEPT ![c] = v]
                           /\ v => valid[c]
    BY DEF Answer, Fails, Ends, Types
<1>3. pc' = [pc EXCEPT ![c] = IF query[c] = "begin" THEN "inTx"
                               ELSE IF query[c] = "last" THEN "using" ELSE pc[c]]
    BY DEF Answer, Fails, Ends, Types
<1>. QED
    BY <1>1, <1>2, <1>3 DEF Types, prune, None, Closing

----------------------------------------------------------------------------
(* A client gets a connection: the last of the pool, or a new one.         *)

(* A client takes a handle out of the pool.                                *)
LEMMA TakeIInv ==
    ASSUME IInv, NEW c \in Clients, pc[c] \in {"idle", "retry"}, TakePooled(c),
           cached' \in [Clients -> BOOLEAN], tries' \in [Clients -> 0 .. 2],
           UNCHANGED <<async, stmt, prune>>
    PROVE  IInv'
<1> DEFINE conn == Last(pool).conn
<1>1. /\ pool # <<>> /\ pool' = Front(pool) /\ free' = free /\ lost' = lost
      /\ holds' = [holds EXCEPT ![c] = conn]
      /\ pc' = [pc EXCEPT ![c] = "using"]
    BY DEF TakePooled, Use
<1>2. pool \in Seq(Handle) /\ holds[c] = None
    BY DEF IInv, Types
<1>3. /\ pool' \in Seq(Handle) /\ DOMAIN pool' = 1 .. Len(pool) - 1
      /\ \A i \in DOMAIN pool' : i \in DOMAIN pool /\ pool'[i] = pool[i]
      /\ Len(pool) \in DOMAIN pool /\ conn = pool[Len(pool)].conn /\ conn \in Conns
      /\ DOMAIN pool = 1 .. Len(pool)
    <2>1. Len(pool) \in Nat /\ DOMAIN pool = 1 .. Len(pool)
        BY <1>2
    <2>2. /\ Front(pool) \in Seq(Handle) /\ DOMAIN Front(pool) = 1 .. Len(pool) - 1
          /\ \A i \in 1 .. Len(pool) - 1 : Front(pool)[i] = pool[i]
          /\ Len(pool) \in DOMAIN pool /\ Last(pool) = pool[Len(pool)]
          /\ Last(pool) \in Handle
        BY <1>1, <1>2, DropLast
    <2>. QED
        BY <1>1, <2>1, <2>2 DEF Handle
<1>4. conn # None
    BY <1>3, PgPoolAssumption
<1> HIDE DEF conn
<1>5. Types'
    BY <1>1, <1>2, <1>3, <1>4 DEF IInv, Types, stmt, prune
<1>6. \A i \in DOMAIN pool' : pool'[i].conn # conn
    BY <1>3 DEF IInv, Owned
<1>7. \A d \in Clients : holds[d] # conn
    BY <1>3 DEF IInv, Owned
<1>8. Owned'
    <2>1. \A i, j \in DOMAIN pool' : pool'[i].conn = pool'[j].conn => i = j
        BY <1>3 DEF IInv, Owned
    <2>2. \A d, e \in Clients : holds'[d] = holds'[e] /\ holds'[d] # None => d = e
        BY <1>1, <1>7 DEF IInv, Owned, Types
    <2>3. \A i \in DOMAIN pool', d \in Clients : pool'[i].conn # holds'[d]
        BY <1>1, <1>3, <1>6 DEF IInv, Owned, Types
    <2>4. \A i \in DOMAIN pool' : pool'[i].conn \notin (free \cup lost)'
        BY <1>1, <1>3 DEF IInv, Owned
    <2>5. /\ \A d \in Clients : holds'[d] \notin (free \cup lost)'
          /\ (free \cap lost = {})'
        BY <1>1, <1>3 DEF IInv, Owned, Types
    <2>6. ASSUME NEW x \in Conns, x \notin (free \cup lost)', ~ \E d \in Clients : holds'[d] = x
          PROVE  \E i \in DOMAIN pool' : pool'[i].conn = x
        <3>1. x # conn
            BY <1>1, <2>6 DEF IInv, Types
        <3>2. ~ \E d \in Clients : holds[d] = x
            BY <1>1, <1>2, <2>6, PgPoolAssumption DEF IInv, Types
        <3>3. PICK i \in DOMAIN pool : pool[i].conn = x
            BY <1>1, <2>6, <3>2 DEF IInv, Owned
        <3>. QED
            BY <1>3, <3>1, <3>3
    <2>. QED
        BY <2>1, <2>2, <2>3, <2>4, <2>5, <2>6 DEF Owned
<1>9. Timely'
    BY <1>3 DEF IInv, Timely, prune
<1>. QED
    BY <1>5, <1>8, <1>9 DEF IInv

(* Open keeps the invariant.                                               *)
LEMMA OpenIInv ==
    ASSUME IInv, NEW c \in Clients, pc[c] \in {"idle", "retry"}, Open(c),
           cached' \in [Clients -> BOOLEAN], tries' \in [Clients -> 0 .. 2],
           UNCHANGED <<async, stmt, prune>>
    PROVE  IInv'
<1>1. CASE pc' = [pc EXCEPT ![c] = "retry"] /\ UNCHANGED <<free, lost, holds>>
    <2>1. pool' = pool
        BY DEF Open
    <2>2. Types'
        BY <1>1, <2>1 DEF IInv, Types, stmt, prune
    <2>3. Owned' /\ Timely'
        BY <1>1, <2>1 DEF IInv, Owned, Timely, prune
    <2>. QED
        BY <2>2, <2>3 DEF IInv
<1>2. ASSUME NEW conn \in free, free' = free \ {conn}, Use(c, conn), lost' = lost
      PROVE  IInv'
    <2>1. pool' = pool
        BY DEF Open
    <2>2. conn \in Conns /\ conn # None /\ holds[c] = None
        BY PgPoolAssumption DEF IInv, Types
    <2>3. Types'
        BY <1>2, <2>1, <2>2 DEF Use, IInv, Types, stmt, prune
    <2>4. Owned'
        BY <1>2, <2>1, <2>2, PgPoolAssumption DEF Use, IInv, Types, Owned
    <2>5. Timely'
        BY <2>1 DEF IInv, Timely, prune
    <2>. QED
        BY <2>3, <2>4, <2>5 DEF IInv
<1>3. ASSUME NEW conn \in free, free' = free \ {conn}, lost' = lost \cup {conn},
             pc' = [pc EXCEPT ![c] = "idle"], holds' = holds
      PROVE  IInv'
    <2>1. pool' = pool
        BY DEF Open
    <2>2. Types'
        BY <1>3, <2>1 DEF IInv, Types, stmt, prune
    <2>3. Owned' /\ Timely'
        BY <1>3, <2>1 DEF IInv, Owned, Timely, prune
    <2>. QED
        BY <2>2, <2>3 DEF IInv
<1>. QED
    BY <1>1, <1>2, <1>3 DEF Open

(* Connection keeps the invariant.                                         *)
LEMMA ConnectionIInv ==
    ASSUME IInv, NEW c \in Clients, NEW useCached \in BOOLEAN, Connection(c, useCached)
    PROVE  IInv'
<1>1. cached' \in [Clients -> BOOLEAN] /\ tries' \in [Clients -> 0 .. 2]
    BY DEF Connection, IInv, Types
<1>. QED
    BY <1>1, TakeIInv, OpenIInv DEF Connection

(* Retry keeps the invariant.                                              *)
LEMMA RetryIInv ==
    ASSUME IInv, NEW c \in Clients, Retry(c)
    PROVE  IInv'
<1>1. cached' \in [Clients -> BOOLEAN] /\ tries' \in [Clients -> 0 .. 2]
    BY DEF Retry, IInv, Types
<1>2. CASE TakePooled(c) \/ Open(c)
    BY <1>1, <1>2, TakeIInv, OpenIInv DEF Retry
<1>3. CASE pc' = [pc EXCEPT ![c] = "idle"] /\ UNCHANGED <<pool, free, lost, holds>>
    <2>1. Types'
        BY <1>1, <1>3 DEF Retry, IInv, Types, stmt, prune
    <2>2. Owned' /\ Timely'
        BY <1>3 DEF Retry, IInv, Owned, Timely, prune
    <2>. QED
        BY <2>1, <2>2 DEF IInv
<1>. QED
    BY <1>2, <1>3 DEF Retry

----------------------------------------------------------------------------
(* A client gives its connection back.                                     *)

(* Free keeps the invariant.                                               *)
LEMMA FreeIInv ==
    ASSUME IInv, NEW c \in Clients, Free(c)
    PROVE  IInv'
<1> DEFINE conn == holds[c]
<1>1. /\ pc[c] = "using" /\ query[c] = None
      /\ pc' = [pc EXCEPT ![c] = "idle"] /\ holds' = [holds EXCEPT ![c] = None]
      /\ cached' = [cached EXCEPT ![c] = TRUE]
      /\ UNCHANGED <<async, lost, tries, stmt>>
    BY DEF Free
<1>2. /\ conn \in Conns /\ conn # None /\ conn \notin free \cup lost
      /\ pool \in Seq(Handle) /\ Len(pool) \in Nat /\ DOMAIN pool = 1 .. Len(pool)
      /\ \A i \in DOMAIN pool : pool[i].conn # conn
      /\ \A d \in Clients : holds[d] = conn => d = c
    BY <1>1 DEF IInv, Types, Owned
<1>3. \A d \in Clients : holds'[d] = IF d = c THEN None ELSE holds[d]
    BY <1>1 DEF IInv, Types
<1> HIDE DEF conn
<1>4. CASE cached[c] /\ KeepAlive # 0
    <2> DEFINE h == [conn |-> conn, left |-> KeepAlive]
    <2>1. pool' = Append(pool, h) /\ free' = free /\ ScheduleCleanup
        BY <1>4 DEF Free, Keep, conn
    <2>2. h \in Handle /\ h.conn = conn /\ h.left = KeepAlive
        BY <1>2, PgPoolAssumption DEF Handle
    <2> HIDE DEF h
    <2>3. /\ pool' \in Seq(Handle) /\ DOMAIN pool' = 1 .. Len(pool) + 1 /\ pool' # <<>>
          /\ \A i \in DOMAIN pool : i \in DOMAIN pool' /\ pool'[i] = pool[i]
          /\ Len(pool) + 1 \in DOMAIN pool' /\ pool'[Len(pool) + 1] = h
        BY <1>2, <2>1, <2>2
    <2>4. cleaner' \in {"asleep", "pruning"}
        BY <2>1 DEF ScheduleCleanup, prune, IInv, Types
    <2>5. Types'
        BY <1>1, <2>1, <2>3, <2>4 DEF IInv, Types, stmt
    <2>6. Owned'
        <3>1. \A i \in DOMAIN pool' : i \in DOMAIN pool \/ i = Len(pool) + 1
            BY <1>2, <2>3
        <3>2. \A i, j \in DOMAIN pool' : pool'[i].conn = pool'[j].conn => i = j
            BY <1>2, <2>2, <2>3, <3>1 DEF IInv, Owned
        <3>3. \A d, e \in Clients : holds'[d] = holds'[e] /\ holds'[d] # None => d = e
            BY <1>3 DEF IInv, Owned
        <3>4. \A i \in DOMAIN pool', d \in Clients : pool'[i].conn # holds'[d]
            <4>1. \A i \in DOMAIN pool' : pool'[i].conn \in Conns
                BY <2>3, Handles
            <4>. QED
                BY <1>2, <1>3, <2>2, <2>3, <3>1, <4>1, PgPoolAssumption DEF IInv, Owned
        <3>5. \A i \in DOMAIN pool' : pool'[i].conn \notin (free \cup lost)'
            BY <1>1, <1>2, <2>1, <2>2, <2>3, <3>1 DEF IInv, Owned
        <3>6. \A d \in Clients : holds'[d] \notin (free \cup lost)'
            BY <1>1, <1>3, <2>1, PgPoolAssumption DEF IInv, Owned, Types
        <3>7. ASSUME NEW x \in Conns
              PROVE  \/ x \in (free \cup lost)'
                     \/ \E i \in DOMAIN pool' : pool'[i].conn = x
                     \/ \E d \in Clients : holds'[d] = x
            <4>1. CASE x = conn
                BY <2>2, <2>3, <4>1
            <4>2. CASE x # conn
                BY <1>1, <1>3, <2>1, <2>3, <4>2 DEF IInv, Owned, conn
            <4>. QED
                BY <4>1, <4>2
        <3>. QED
            BY <1>1, <2>1, <3>2, <3>3, <3>4, <3>5, <3>6, <3>7 DEF IInv, Owned
    <2>7. Timely'
        <3>1. \A i \in DOMAIN pool' : i \in DOMAIN pool \/ i = Len(pool) + 1
            BY <1>2, <2>3
        <3>2. \A i \in DOMAIN pool' : pool'[i].left \in Int /\ pool'[i].left <= KeepAlive
            BY <2>2, <2>3, <3>1, Handles, PgPoolAssumption DEF IInv, Timely
        <3>3. \A i, j \in DOMAIN pool' : i < j => pool'[i].left <= pool'[j].left
            BY <1>2, <2>2, <2>3, <3>1, <3>2 DEF IInv, Timely
        <3>4. CASE cleaner = "off"
            <4>1. pool = <<>> /\ cleaner' = "asleep" /\ wake' = KeepAlive + Slack
                BY <2>1, <3>4 DEF ScheduleCleanup, IInv, Timely
            <4>2. \A i \in DOMAIN pool' : pool'[i].left = KeepAlive
                BY <2>2, <2>3, <4>1
            <4>. QED
                BY <2>3, <3>2, <3>3, <4>1, <4>2, PgPoolAssumption DEF Timely
        <3>5. CASE cleaner # "off"
            <4>1. cleaner' = cleaner /\ wake' = wake /\ limit' = limit
                BY <2>1, <3>5 DEF ScheduleCleanup, prune
            <4>2. cleaner = "asleep" => wake' \in 0 .. KeepAlive + Slack
                BY <4>1 DEF IInv, Timely
            <4>3. cleaner = "asleep" =>
                     \A i \in DOMAIN pool' : pool'[i].left - wake' >= Horizon - MinSleep
                BY <2>2, <2>3, <3>1, <4>1, <4>2, PgPoolAssumption DEF IInv, Timely
            <4>4. cleaner = "pruning" =>
                     \A i \in DOMAIN pool' : pool'[i].left >= Horizon - MinSleep
                BY <2>2, <2>3, <3>1, <4>1, PgPoolAssumption DEF IInv, Timely
            <4>. QED
                BY <3>2, <3>3, <3>5, <4>1, <4>2, <4>3, <4>4 DEF IInv, Timely
        <3>. QED
            BY <3>4, <3>5
    <2>. QED
        BY <2>5, <2>6, <2>7 DEF IInv
<1>5. CASE ~ (cached[c] /\ KeepAlive # 0)
    <2>1. free' = free \cup {conn} /\ UNCHANGED <<pool, prune>>
        BY <1>5 DEF Free, conn
    <2>2. Types'
        BY <1>1, <1>2, <2>1 DEF IInv, Types, stmt, prune
    <2>3. Owned'
        <3>1. \A d, e \in Clients : holds'[d] = holds'[e] /\ holds'[d] # None => d = e
            BY <1>3 DEF IInv, Owned
        <3>2. \A i \in DOMAIN pool', d \in Clients : pool'[i].conn # holds'[d]
            BY <1>2, <1>3, <2>1, Handles, PgPoolAssumption DEF IInv, Owned
        <3>3. \A i \in DOMAIN pool' : pool'[i].conn \notin (free \cup lost)'
            BY <1>1, <1>2, <2>1 DEF IInv, Owned
        <3>4. \A d \in Clients : holds'[d] \notin (free \cup lost)'
            BY <1>1, <1>2, <1>3, <2>1, PgPoolAssumption DEF IInv, Owned, Types
        <3>5. ASSUME NEW x \in Conns
              PROVE  \/ x \in (free \cup lost)'
                     \/ \E i \in DOMAIN pool' : pool'[i].conn = x
                     \/ \E d \in Clients : holds'[d] = x
            BY <1>1, <1>3, <2>1 DEF IInv, Owned, conn
        <3>. QED
            BY <1>1, <1>2, <2>1, <3>1, <3>2, <3>3, <3>4, <3>5 DEF IInv, Owned
    <2>4. Timely'
        BY <2>1 DEF IInv, Timely, prune
    <2>. QED
        BY <2>2, <2>3, <2>4 DEF IInv
<1>. QED
    BY <1>4, <1>5

----------------------------------------------------------------------------
(* The cleaner and the clock                                               *)

(* The handles that a round closes are the oldest ones, none of them early, *)
(* and the first one that is kept expires after the limit.                 *)
LEMMA PruneCount ==
    ASSUME IInv, cleaner = "pruning"
    PROVE  LET k == Min({Expired, Batch})
           IN  /\ k \in 0 .. Len(pool)
               /\ \A i \in 1 .. k : pool[i].left <= Horizon
               /\ k # Batch /\ k # Len(pool) =>
                     k + 1 \in DOMAIN pool /\ pool[k + 1].left > Horizon
<1> DEFINE kept == {i \in DOMAIN pool : pool[i].left > limit}
           k == Min({Expired, Batch})
<1>1. /\ pool \in Seq(Handle) /\ Len(pool) \in Nat /\ DOMAIN pool = 1 .. Len(pool)
      /\ \A i \in DOMAIN pool : pool[i].left \in Int
      /\ limit = Horizon /\ Horizon \in Nat /\ Batch \in Nat
    BY Handles, PgPoolAssumption DEF IInv, Types, Timely
<1>2. CASE kept = {}
    <2>1. Expired = Len(pool)
        BY <1>2 DEF Expired
    <2>2. \A i \in DOMAIN pool : pool[i].left <= Horizon
        BY <1>1, <1>2
    <2>3. k = IF Len(pool) <= Batch THEN Len(pool) ELSE Batch
        BY <1>1, <2>1, MinOfTwo
    <2> HIDE DEF k, kept
    <2>4. /\ k \in Nat /\ k <= Len(pool) /\ k \in 0 .. Len(pool)
          /\ k # Batch => k = Len(pool)
        BY <1>1, <2>3
    <2>5. \A i \in 1 .. k : i \in DOMAIN pool
        <3> TAKE i \in 1 .. k
        <3>1. Len(pool) \in Nat
            BY <1>1
        <3>2. i \in 1 .. Len(pool)
            BY <2>4, <3>1
        <3>. QED
            BY <1>1, <3>2
    <2>6. \A i \in 1 .. k : pool[i].left <= Horizon
        BY <2>2, <2>5
    <2>. QED
        BY <2>4, <2>6 DEF k
<1>3. CASE kept # {}
    <2>1. Expired = Min(kept) - 1
        BY <1>3 DEF Expired
    <2>2. kept \in SUBSET Nat
        BY <1>1
    <2>3. Min(kept) \in kept /\ \A i \in kept : Min(kept) <= i
        BY <1>3, <2>2, MinOfNats
    <2> HIDE DEF kept
    <2>4. Min(kept) \in DOMAIN pool /\ pool[Min(kept)].left > Horizon
        BY <1>1, <2>3 DEF kept
    <2>5. \A i \in 1 .. Min(kept) - 1 : pool[i].left <= Horizon
        <3> TAKE i \in 1 .. Min(kept) - 1
        <3>1. i \in DOMAIN pool /\ i \notin kept
            BY <1>1, <2>3, <2>4
        <3>. QED
            BY <1>1, <3>1 DEF kept
    <2>6. k = IF Expired <= Batch THEN Expired ELSE Batch
        BY <1>1, <2>1, <2>4, MinOfTwo
    <2> HIDE DEF k
    <2>7. /\ k \in 0 .. Len(pool) /\ k <= Min(kept) - 1
          /\ k # Batch => k = Min(kept) - 1
        BY <1>1, <2>1, <2>4, <2>6
    <2>8. \A i \in 1 .. k : pool[i].left <= Horizon
        BY <1>1, <2>4, <2>5, <2>7
    <2>9. k # Batch => k + 1 = Min(kept)
        BY <1>1, <2>4, <2>7
    <2>. QED
        BY <2>4, <2>7, <2>8, <2>9 DEF k
<1>. QED
    BY <1>2, <1>3

(* Prune keeps the invariant.                                              *)
LEMMA PruneIInv ==
    ASSUME IInv, Prune
    PROVE  IInv'
<1> DEFINE k == Min({Expired, Batch})
<1>1. /\ cleaner = "pruning" /\ UNCHANGED client
      /\ pool' = SubSeq(pool, k + 1, Len(pool))
      /\ free' = free \cup {pool[i].conn : i \in 1 .. k}
    BY DEF Prune
<1>2. /\ k \in 0 .. Len(pool)
      /\ k # Batch /\ k # Len(pool) =>
            k + 1 \in DOMAIN pool /\ pool[k + 1].left > Horizon
    BY <1>1, PruneCount
<1>3. IF k = Batch
      THEN UNCHANGED prune
      ELSE IF k = Len(pool)
           THEN cleaner' = "off" /\ limit' = 0 /\ UNCHANGED wake
           ELSE /\ cleaner' = "asleep"
                /\ wake' = Max({pool[k + 1].left - limit, MinSleep})
                /\ limit' = 0
    BY DEF Prune
<1> HIDE DEF k
<1>4. /\ pool \in Seq(Handle) /\ Len(pool) \in Nat /\ DOMAIN pool = 1 .. Len(pool)
      /\ \A i \in DOMAIN pool : pool[i].left \in Int /\ pool[i].conn \in Conns
    BY Handles DEF IInv, Types
<1>5. /\ pool' \in Seq(Handle) /\ DOMAIN pool' = 1 .. Len(pool) - k
      /\ \A i \in DOMAIN pool' : i + k \in DOMAIN pool /\ pool'[i] = pool[i + k]
      /\ pool' = <<>> <=> k = Len(pool)
    BY <1>1, <1>2, <1>4, DropFirst
<1>6. cleaner' \in {"off", "asleep", "pruning"}
    BY <1>1, <1>3 DEF prune
<1>10. /\ k \in Nat /\ \A i \in 1 .. k : i \in DOMAIN pool
       /\ \A i \in DOMAIN pool' : i \in Nat /\ i >= 1
    BY <1>2, <1>4, <1>5
<1>11. \A x : x \in free' <=> x \in free \/ \E i \in 1 .. k : pool[i].conn = x
    BY <1>1
<1>7. Types'
    <2>1. free' \subseteq Conns
        BY <1>4, <1>10, <1>11 DEF IInv, Types
    <2>. QED
        BY <1>1, <1>5, <1>6, <2>1 DEF IInv, Types, client, stmt
<1>8. Owned'
    <2>1. \A i, j \in DOMAIN pool' : pool'[i].conn = pool'[j].conn => i = j
        <3> SUFFICES ASSUME NEW i \in DOMAIN pool', NEW j \in DOMAIN pool',
                            pool'[i].conn = pool'[j].conn
                     PROVE  i = j
            OBVIOUS
        <3>1. i + k = j + k
            BY <1>5 DEF IInv, Owned
        <3>. QED
            BY <1>10, <3>1
    <2>2. \A i \in DOMAIN pool', c \in Clients : pool'[i].conn # holds'[c]
        BY <1>1, <1>5 DEF IInv, Owned, client
    <2>3. \A i \in DOMAIN pool' : pool'[i].conn \notin (free \cup lost)'
        <3> TAKE i \in DOMAIN pool'
        <3>1. i + k \in DOMAIN pool /\ pool'[i] = pool[i + k] /\ i + k \notin 1 .. k
            BY <1>5, <1>10
        <3>2. \A j \in 1 .. k : pool[i + k].conn # pool[j].conn
            BY <1>10, <3>1 DEF IInv, Owned
        <3>. QED
            BY <1>1, <1>11, <3>1, <3>2 DEF IInv, Owned, client
    <2>4. \A c \in Clients : holds'[c] \notin (free \cup lost)'
        BY <1>1, <1>10, <1>11 DEF IInv, Owned, client
    <2>5. ASSUME NEW x \in Conns, x \notin (free \cup lost)', ~ \E c \in Clients : holds'[c] = x
          PROVE  \E i \in DOMAIN pool' : pool'[i].conn = x
        <3>1. PICK j \in DOMAIN pool : pool[j].conn = x
            BY <1>1, <1>11, <2>5 DEF IInv, Owned, client
        <3>2. j \notin 1 .. k
            BY <1>11, <2>5, <3>1
        <3>3. j - k \in DOMAIN pool' /\ j - k + k = j
            <4>1. j \in Nat /\ j >= 1 /\ j <= Len(pool)
                BY <1>4, <3>1
            <4>2. j > k
                BY <1>10, <3>2, <4>1
            <4>3. j - k \in 1 .. Len(pool) - k /\ j - k + k = j
                BY <1>4, <1>10, <4>1, <4>2
            <4>. QED
                BY <1>5, <4>3
        <3>4. pool'[j - k] = pool[j]
            BY <1>5, <3>3
        <3>. QED
            BY <3>1, <3>3, <3>4
    <2>6. \A c, d \in Clients : holds'[c] = holds'[d] /\ holds'[c] # None => c = d
        BY <1>1 DEF IInv, Owned, client
    <2>7. (free \cap lost = {})'
        BY <1>1, <1>10, <1>11 DEF IInv, Owned, client
    <2>. QED
        BY <2>1, <2>2, <2>3, <2>4, <2>5, <2>6, <2>7 DEF Owned
<1>9. Timely'
    <2>1. /\ \A i \in DOMAIN pool' : pool'[i].left <= KeepAlive
          /\ \A i \in DOMAIN pool' : pool'[i].left >= Horizon - MinSleep
        BY <1>1, <1>5 DEF IInv, Timely
    <2>2. \A i, j \in DOMAIN pool' : i < j => pool'[i].left <= pool'[j].left
        <3> SUFFICES ASSUME NEW i \in DOMAIN pool', NEW j \in DOMAIN pool', i < j
                     PROVE  pool'[i].left <= pool'[j].left
            OBVIOUS
        <3>1. i + k < j + k
            BY <1>10
        <3>. QED
            BY <1>5, <3>1 DEF IInv, Timely
    <2>3. CASE k = Batch
        BY <1>1, <1>3, <2>1, <2>2, <2>3 DEF IInv, Timely, prune
    <2>4. CASE k # Batch /\ k = Len(pool)
        BY <1>3, <1>5, <2>1, <2>2, <2>4 DEF Timely
    <2>5. CASE k # Batch /\ k # Len(pool)
        <3> DEFINE next == pool[k + 1].left
        <3>1. /\ next \in Int /\ next > Horizon /\ next <= KeepAlive /\ limit = Horizon
              /\ cleaner' = "asleep" /\ wake' = Max({next - limit, MinSleep})
            BY <1>1, <1>2, <1>3, <1>4, <2>5 DEF IInv, Timely
        <3>2. \A i \in DOMAIN pool' : pool'[i].left \in Int /\ pool'[i].left >= next
            <4> TAKE i \in DOMAIN pool'
            <4>1. i + k \in DOMAIN pool /\ pool'[i] = pool[i + k] /\ k + 1 \in DOMAIN pool
                BY <1>2, <1>5, <2>5
            <4>2. i + k = k + 1 \/ k + 1 < i + k
                BY <1>10
            <4>. QED
                BY <1>4, <4>1, <4>2 DEF IInv, Timely
        <3> HIDE DEF next
        <3>3. wake' = IF next - Horizon >= MinSleep THEN next - Horizon ELSE MinSleep
            BY <3>1, MaxOfTwo, PgPoolAssumption
        <3>4. wake' \in 0 .. KeepAlive + Slack
            BY <3>1, <3>3, PgPoolAssumption
        <3>5. \A i \in DOMAIN pool' : pool'[i].left - wake' >= Horizon - MinSleep
            BY <3>1, <3>2, <3>3, PgPoolAssumption
        <3>. QED
            BY <2>1, <2>2, <3>1, <3>4, <3>5 DEF Timely
    <2>. QED
        BY <2>3, <2>4, <2>5
<1>. QED
    BY <1>7, <1>8, <1>9 DEF IInv

(* Wake keeps the invariant.                                               *)
LEMMA WakeIInv ==
    ASSUME IInv, Wake
    PROVE  IInv'
<1>1. /\ cleaner = "asleep" /\ wake <= 0 /\ cleaner' = "pruning" /\ limit' = Horizon
      /\ UNCHANGED <<pool, free, client>>
    BY DEF Wake
<1>2. Types'
    BY <1>1 DEF IInv, Types, client, stmt
<1>3. Owned'
    BY <1>1 DEF IInv, Owned, client
<1>4. \A i \in DOMAIN pool : pool[i].left >= Horizon - MinSleep
    <2>1. wake = 0 /\ \A i \in DOMAIN pool : pool[i].left \in Int
        BY <1>1, Handles, PgPoolAssumption DEF IInv, Types, Timely
    <2>. QED
        BY <1>1, <2>1, PgPoolAssumption DEF IInv, Timely
<1>5. Timely'
    BY <1>1, <1>4 DEF IInv, Timely
<1>. QED
    BY <1>2, <1>3, <1>5 DEF IInv

(* Oldest is never reached: the cleaner comes first.                       *)
LEMMA TickIInv ==
    ASSUME IInv, Tick
    PROVE  IInv'
<1> DEFINE older(h) == [h EXCEPT !.left = Max({@ - 1, Oldest})]
<1>1. /\ UNCHANGED <<free, client, cleaner, limit>>
      /\ pool' = [i \in DOMAIN pool |-> older(pool[i])]
      /\ cleaner = "off" \/ (cleaner = "asleep" /\ wake > 0)
      /\ cleaner = "asleep" => wake' = wake - 1
      /\ pool # <<>> \/ cleaner # "off"
    BY DEF Tick
<1>2. cleaner = "asleep" /\ wake \in 1 .. KeepAlive + Slack /\ wake' = wake - 1
    BY <1>1, PgPoolAssumption DEF IInv, Timely
<1>3. /\ pool \in Seq(Handle) /\ Len(pool) \in Nat /\ DOMAIN pool = 1 .. Len(pool)
      /\ \A i \in DOMAIN pool : pool[i] \in Handle /\ pool[i].left \in Int
    BY Handles DEF IInv, Types
<1>4. \A i \in DOMAIN pool : pool[i].left - 1 >= Horizon - MinSleep
    BY <1>2, <1>3, PgPoolAssumption DEF IInv, Timely
<1>5. \A i \in DOMAIN pool : Max({pool[i].left - 1, Oldest}) = pool[i].left - 1
    <2> TAKE i \in DOMAIN pool
    <2> DEFINE l == pool[i].left - 1
    <2>1. l \in Int /\ Oldest \in Int /\ l >= Oldest
        BY <1>3, <1>4, PgPoolAssumption DEF Oldest
    <2> HIDE DEF l
    <2>2. Max({l, Oldest}) = l
        BY <2>1, MaxOfTwo
    <2>. QED
        BY <2>2 DEF l
<1>6. \A i \in DOMAIN pool : /\ older(pool[i]) \in Handle
                             /\ older(pool[i]).conn = pool[i].conn
                             /\ older(pool[i]).left = pool[i].left - 1
    <2> TAKE i \in DOMAIN pool
    <2>1. older(pool[i]) = [pool[i] EXCEPT !.left = pool[i].left - 1]
        BY <1>5
    <2>2. pool[i] \in Handle /\ pool[i].left - 1 \in Int
        BY <1>3
    <2> HIDE DEF older
    <2>. QED
        BY <2>1, <2>2 DEF Handle
<1> HIDE DEF older
<1>7. /\ pool' \in Seq(Handle) /\ DOMAIN pool' = DOMAIN pool
      /\ \A i \in DOMAIN pool : pool'[i].conn = pool[i].conn /\ pool'[i].left = pool[i].left - 1
    BY <1>1, <1>3, <1>6
<1>8. Types'
    BY <1>1, <1>7 DEF IInv, Types, client, stmt
<1>9. Owned'
    BY <1>1, <1>7 DEF IInv, Owned, client
<1>10. Timely'
    <2>1. \A i \in DOMAIN pool' : pool'[i].left <= KeepAlive
        BY <1>3, <1>7, PgPoolAssumption DEF IInv, Timely
    <2>4. \A i, j \in DOMAIN pool' : i < j => pool'[i].left <= pool'[j].left
        BY <1>3, <1>7 DEF IInv, Timely
    <2>2. wake' \in 0 .. KeepAlive + Slack
        BY <1>2, PgPoolAssumption
    <2>3. \A i \in DOMAIN pool' : pool'[i].left - wake' >= Horizon - MinSleep
        BY <1>2, <1>3, <1>7, PgPoolAssumption DEF IInv, Timely
    <2>. QED
        BY <1>1, <1>2, <2>1, <2>2, <2>3, <2>4 DEF Timely
<1>. QED
    BY <1>8, <1>9, <1>10 DEF IInv

----------------------------------------------------------------------------
(* The invariant                                                           *)

(* Statements, transactions and their outcomes.                            *)
LEMMA StatementsIInv ==
    ASSUME IInv, NEW c \in Clients,
           \/ Begin(c) \/ Statement(c) \/ Complete(c) \/ EndTransaction(c)
           \/ Answer(c) \/ Fails(c)
    PROVE  IInv'
<1>1. Types' /\ UNCHANGED <<async, pool, free, lost, cached, tries, holds, prune>>
    <2>1. CASE Begin(c)
        BY <2>1, ExecuteTypes DEF Begin, IInv, StmtKinds, Closing
    <2>2. CASE Statement(c)
        <3>1. valid[c] \in BOOLEAN /\ (valid[c] => pc[c] = "inTx")
            BY DEF IInv, Types
        <3>. QED
            BY <2>2, <3>1, ExecuteTypes DEF Statement, IInv, StmtKinds, Closing
    <2>3. CASE Complete(c)
        BY <2>3, ExecuteTypes DEF Complete, IInv, StmtKinds
    <2>4. CASE EndTransaction(c)
        <3>1. CASE AutoCommit /\ valid[c]
            BY <2>4, <3>1, ExecuteTypes DEF EndTransaction, IInv, StmtKinds
        <3>2. CASE ~ (AutoCommit /\ valid[c])
            <4>1. /\ pc[c] = "inTx" /\ query[c] = None
                  /\ UNCHANGED <<async, pool, free, lost, cached, tries, holds, query, prune>>
                BY <2>4, <3>2 DEF EndTransaction
            <4>2. /\ pc' = [pc EXCEPT ![c] = "using"]
                  /\ valid' = [valid EXCEPT ![c] = FALSE]
                BY <2>4, <3>2 DEF EndTransaction, Ends
            <4>. QED
                BY <4>1, <4>2 DEF IInv, Types, Closing, prune, None
        <3>. QED
            BY <3>1, <3>2
    <2>5. CASE Answer(c) \/ Fails(c)
        BY <2>5, OutcomeTypes DEF IInv
    <2>. QED
        BY <2>1, <2>2, <2>3, <2>4, <2>5
<1>2. Owned' /\ Timely'
    BY <1>1 DEF IInv, Owned, Timely, prune
<1>. QED
    BY <1>1, <1>2 DEF IInv

(* The invariant holds at the start.                                       *)
LEMMA InitIInv ==
    Init => IInv
<1> SUFFICES ASSUME Init PROVE IInv
    OBVIOUS
<1>1. pool = <<>> /\ pool \in Seq(Handle) /\ DOMAIN pool = {}
    BY DEF Init
<1>2. Types
    BY <1>1 DEF Init, Types, Closing, None
<1>3. Owned
    BY <1>1, PgPoolAssumption DEF Init, Owned
<1>4. Timely
    BY <1>1 DEF Init, Timely
<1>. QED
    BY <1>2, <1>3, <1>4 DEF IInv

(* Every step keeps it.                                                    *)
LEMMA NextIInv ==
    IInv /\ [Next]_vars => IInv'
<1> SUFFICES ASSUME IInv, [Next]_vars PROVE IInv'
    OBVIOUS
<1>1. ASSUME NEW c \in Clients, NEW useCached \in BOOLEAN, Connection(c, useCached)
      PROVE  IInv'
    BY <1>1, ConnectionIInv
<1>2. ASSUME NEW c \in Clients, Retry(c) PROVE IInv'
    BY <1>2, RetryIInv
<1>3. ASSUME NEW c \in Clients, Free(c) PROVE IInv'
    BY <1>3, FreeIInv
<1>4. ASSUME NEW c \in Clients,
             \/ Begin(c) \/ Statement(c) \/ Complete(c) \/ EndTransaction(c)
             \/ Answer(c) \/ Fails(c)
      PROVE  IInv'
    BY <1>4, StatementsIInv
<1>5. CASE Wake
    BY <1>5, WakeIInv
<1>6. CASE Prune
    BY <1>6, PruneIInv
<1>7. CASE Tick
    BY <1>7, TickIInv
<1>8. CASE UNCHANGED vars
    <2>1. Types'
        BY <1>8 DEF vars, IInv, Types
    <2>2. Owned' /\ Timely'
        BY <1>8 DEF vars, IInv, Owned, Timely
    <2>. QED
        BY <2>1, <2>2 DEF IInv
<1>. QED
    BY <1>1, <1>2, <1>3, <1>4, <1>5, <1>6, <1>7, <1>8 DEF Next

(* So it holds always.                                                     *)
LEMMA Invariance ==
    Spec => []IInv
    BY InitIInv, NextIInv, PTL DEF Spec

(* The cardinality of a set with at most one element.                      *)
LEMMA SmallSets ==
    ASSUME NEW S, \A x, y \in S : x = y
    PROVE  Cardinality(S) = IF S = {} THEN 0 ELSE 1
<1>1. CASE S = {}
    BY <1>1, FS_EmptySet
<1>2. CASE S # {}
    <2>1. PICK x \in S : S = {x}
        BY <1>2
    <2>. QED
        BY <1>2, <2>1, FS_Singleton
<1>. QED
    BY <1>1, <1>2

(* Owned says without cardinalities what OneOwner says.                    *)
LEMMA OwnedIsOneOwner ==
    IInv => OneOwner
<1> SUFFICES ASSUME IInv, NEW conn \in Conns
             PROVE  Cardinality(Pooled(conn)) + Cardinality(Holders(conn))
                        = (IF conn \in free \cup lost THEN 0 ELSE 1)
    BY DEF OneOwner
<1>1. conn # None
    BY PgPoolAssumption
<1>2. Cardinality(Pooled(conn)) = IF Pooled(conn) = {} THEN 0 ELSE 1
    <2>1. \A i, j \in Pooled(conn) : i = j
        BY DEF Pooled, IInv, Owned
    <2>. QED
        BY <2>1, SmallSets
<1>3. Cardinality(Holders(conn)) = IF Holders(conn) = {} THEN 0 ELSE 1
    <2>1. \A c, d \in Holders(conn) : c = d
        BY <1>1 DEF Holders, IInv, Owned
    <2>. QED
        BY <2>1, SmallSets
<1>4. conn \in free \cup lost => Pooled(conn) = {} /\ Holders(conn) = {}
    BY DEF Pooled, Holders, IInv, Owned
<1>5. conn \notin free \cup lost => Pooled(conn) # {} \/ Holders(conn) # {}
    BY DEF Pooled, Holders, IInv, Owned
<1>6. ~ (Pooled(conn) # {} /\ Holders(conn) # {})
    BY DEF Pooled, Holders, IInv, Owned
<1>. QED
    BY <1>2, <1>3, <1>4, <1>5, <1>6

(* Whatever clients, statements, failures and timers do, each connection   *)
(* the server grants is closed, or in the pool once, or with one client,   *)
(* or was left behind by an open that failed and is in use by nobody; and  *)
(* no handle stays in PgSqlDb::conns longer than one sleep of cleanup      *)
(* after it has expired.                                                   *)
THEOREM PoolIsSound ==
    Spec => []PoolSound
<1>1. IInv => TypeOK
    BY PgPoolAssumption DEF IInv, Types, TypeOK, Handle
<1>2. IInv => IdleBounded
    <2> SUFFICES ASSUME IInv PROVE IdleBounded
        OBVIOUS
    <2>1. \A i \in DOMAIN pool : pool[i].left \in Int
        BY Handles DEF IInv, Types
    <2>2. pool # <<>> => cleaner # "off"
        BY DEF IInv, Timely
    <2>3. ASSUME NEW i \in DOMAIN pool PROVE pool[i].left >= Horizon - MinSleep
        <3>1. cleaner # "off"
            BY <2>3, <2>2
        <3>2. CASE cleaner = "pruning"
            BY <3>2 DEF IInv, Timely
        <3>3. CASE cleaner = "asleep"
            <4>1. wake \in Nat /\ pool[i].left - wake >= Horizon - MinSleep
                BY <2>3, <3>3, PgPoolAssumption DEF IInv, Timely
            <4>. QED
                BY <2>1, <4>1, PgPoolAssumption
        <3>. QED
            BY <3>1, <3>2, <3>3 DEF IInv, Types
    <2>. QED
        BY <2>2, <2>3 DEF IdleBounded
<1>3. IInv => PoolSound
    BY <1>1, <1>2, OwnedIsOneOwner DEF PoolSound
<1>. QED
    BY <1>3, Invariance, PTL

----------------------------------------------------------------------------
(* Handles are not closed early                                            *)

(* The cleaner closes only handles that are close to their end.            *)
LEMMA StepNotEarly ==
    ASSUME IInv, [Next]_vars, NEW i \in DOMAIN pool, pool[i].conn \in free'
    PROVE  pool[i].left <= Horizon
<1>1. pool[i].conn \notin free /\ \A c \in Clients : pool[i].conn # holds[c]
    BY DEF IInv, Owned
<1>2. CASE Prune
    <2> DEFINE k == Min({Expired, Batch})
    <2>1. cleaner = "pruning" /\ free' = free \cup {pool[j].conn : j \in 1 .. k}
        BY <1>2 DEF Prune
    <2>2. /\ k \in 0 .. Len(pool)
          /\ \A j \in 1 .. k : pool[j].left <= Horizon
        BY <2>1, PruneCount
    <2> HIDE DEF k
    <2>3. PICK j \in 1 .. k : pool[j].conn = pool[i].conn
        BY <1>1, <2>1
    <2>4. DOMAIN pool = 1 .. Len(pool) /\ Len(pool) \in Nat
        BY DEF IInv, Types
    <2>5. j \in DOMAIN pool
        BY <2>2, <2>4
    <2>6. i = j
        BY <2>3, <2>5 DEF IInv, Owned
    <2>. QED
        BY <2>2, <2>3, <2>6
<1>3. ASSUME NEW c \in Clients, free' \subseteq free \cup {holds[c]}
      PROVE  FALSE
    BY <1>1, <1>3
<1>4. ASSUME free' \subseteq free
      PROVE  FALSE
    BY <1>1, <1>4
<1>5. ASSUME NEW c \in Clients, NEW u \in BOOLEAN,
             \/ Connection(c, u) \/ Retry(c)
      PROVE  free' \subseteq free
    BY <1>5 DEF Connection, Retry, TakePooled, Open
<1>6. ASSUME NEW c \in Clients, Free(c)
      PROVE  free' \subseteq free \cup {holds[c]}
    BY <1>6 DEF Free
<1>7. ASSUME NEW c \in Clients,
             \/ Begin(c) \/ Statement(c) \/ Complete(c) \/ EndTransaction(c)
             \/ Answer(c) \/ Fails(c)
      PROVE  free' \subseteq free
    BY <1>7 DEF Begin, Statement, Complete, EndTransaction, Answer, Fails, Execute
<1>8. Wake \/ Tick \/ UNCHANGED vars => free' \subseteq free
    BY DEF Wake, Tick, vars
<1>. QED
    BY <1>2, <1>3, <1>4, <1>5, <1>6, <1>7, <1>8 DEF Next

(* cleanup closes the handles that expire within Horizon and no other, and *)
(* nobody else closes a handle of the pool.                                *)
THEOREM NoneClosedEarly ==
    Spec => NotClosedEarly
<1>1. IInv /\ [Next]_vars =>
         [\A i \in DOMAIN pool : (pool[i].conn \in free') => pool[i].left <= Horizon]_vars
    BY StepNotEarly
<1>. QED
    BY <1>1, Invariance, PTL DEF Spec, NotClosedEarly

----------------------------------------------------------------------------
(* No transaction is left open                                             *)

(* A step of client c, which may open a transaction on its own connection  *)
(* only and must be in one, valid or being completed, if it leaves it open. *)
LEMMA OwnTransaction ==
    ASSUME IInv, NoDirtyReuse, NEW c \in Clients,
           \A d \in Clients \ {c} : /\ holds'[d] = holds[d] /\ pc'[d] = pc[d]
                                    /\ valid'[d] = valid[d] /\ query'[d] = query[d],
           dirty' \subseteq dirty \cup {holds[c]},
           holds[c] \in dirty' =>
               /\ holds'[c] = holds[c] /\ pc'[c] = "inTx"
               /\ valid'[c] \/ query'[c] \in Closing
    PROVE  NoDirtyReuse'
<1> SUFFICES ASSUME NEW conn \in dirty'
             PROVE  \E d \in Clients : /\ holds'[d] = conn /\ pc'[d] = "inTx"
                                       /\ valid'[d] \/ query'[d] \in Closing
    BY DEF NoDirtyReuse, Holders, Closing
<1>1. CASE conn = holds[c]
    BY <1>1
<1>2. CASE conn # holds[c]
    <2>1. PICK d \in Clients : /\ holds[d] = conn /\ pc[d] = "inTx"
                               /\ valid[d] \/ query[d] \in Closing
        BY <1>2 DEF NoDirtyReuse, Holders
    <2>. QED
        BY <1>2, <2>1
<1>. QED
    BY <1>1, <1>2

(* A statement that ends changes the state of its client only.             *)
LEMMA OneStatement ==
    ASSUME IInv, NEW c \in Clients, NEW q, NEW v, NEW d, Ends(c, q, v, d)
    PROVE  /\ \A e \in Clients \ {c} : pc'[e] = pc[e] /\ valid'[e] = valid[e]
           /\ pc'[c] = IF q = "begin" THEN "inTx"
                       ELSE IF q = "last" THEN "using" ELSE pc[c]
           /\ valid'[c] = v /\ dirty' = d
    BY DEF Ends, IInv, Types

(* In a transaction that its client has open and no statement of it runs:  *)
(* it is valid.                                                            *)
LEMMA DirtyIsValid ==
    ASSUME IInv, NoDirtyReuse, NEW c \in Clients, holds[c] \in dirty
    PROVE  pc[c] = "inTx" /\ (valid[c] \/ query[c] \in Closing)
<1>1. PICK d \in Clients : /\ holds[d] = holds[c] /\ pc[d] = "inTx"
                           /\ valid[d] \/ query[d] \in Closing
    BY DEF NoDirtyReuse, Holders
<1>2. holds[d] # None
    BY <1>1 DEF IInv, Types
<1>3. d = c
    BY <1>1, <1>2 DEF IInv, Owned
<1>. QED
    BY <1>1, <1>3

(* A statement leaves no transaction open outside of a connection in use.  *)
LEMMA ExecuteDirty ==
    ASSUME IInv, NoDirtyReuse, NEW c \in Clients, NEW q \in StmtKinds,
           NEW v \in BOOLEAN, Execute(c, q, v),
           q = "begin" => v, q = "stmt" => v = valid[c],
           q \in Closing => pc[c] = "inTx"
    PROVE  NoDirtyReuse'
<1> DEFINE d == IF q = "begin" THEN dirty \cup {holds[c]} ELSE dirty
<1>1. query[c] = None /\ holds' = holds /\ query \in [Clients -> {None} \cup StmtKinds]
    BY DEF Execute, IInv, Types, StmtKinds
<1>2. holds[c] \in dirty => pc[c] = "inTx" /\ valid[c]
    BY <1>1, DirtyIsValid DEF Closing, None
<1>3. CASE async
    <2>1. /\ query' = [query EXCEPT ![c] = q]
          /\ Ends(c, IF q = "begin" THEN q ELSE None, v, d)
        BY <1>3 DEF Execute
    <2>2. /\ \A e \in Clients \ {c} : pc'[e] = pc[e] /\ valid'[e] = valid[e]
          /\ pc'[c] = IF q = "begin" THEN "inTx" ELSE pc[c]
          /\ valid'[c] = v /\ dirty' = d
        BY <2>1, OneStatement DEF None
    <2>. QED
        BY <1>1, <1>2, <2>1, <2>2, OwnTransaction DEF StmtKinds, Closing
<1>4. CASE ~ async
    <2>1. /\ query' = query
          /\ \/ q \notin Closing /\ Ends(c, q, v, d)
             \/ Ends(c, q, v, d \ {holds[c]})
        BY <1>4 DEF Execute
    <2>2. CASE q \notin Closing /\ Ends(c, q, v, d)
        <3>1. /\ \A e \in Clients \ {c} : pc'[e] = pc[e] /\ valid'[e] = valid[e]
              /\ pc'[c] = IF q = "begin" THEN "inTx" ELSE pc[c]
              /\ valid'[c] = v /\ dirty' = d
            BY <2>2, OneStatement DEF Closing
        <3>. QED
            BY <1>1, <1>2, <2>1, <2>2, <3>1, OwnTransaction DEF StmtKinds, Closing
    <2>3. CASE Ends(c, q, v, d \ {holds[c]})
        <3>1. /\ \A e \in Clients \ {c} : pc'[e] = pc[e] /\ valid'[e] = valid[e]
              /\ dirty' = d \ {holds[c]}
            BY <2>3, OneStatement
        <3>. QED
            BY <1>1, <2>1, <3>1, OwnTransaction
    <2>. QED
        BY <2>1, <2>2, <2>3
<1>. QED
    BY <1>3, <1>4

(* With autoCommit, no step does.                                          *)
LEMMA NextDirty ==
    ASSUME AutoCommit, IInv, NoDirtyReuse, [Next]_vars
    PROVE  NoDirtyReuse'
<1>1. ASSUME NEW c \in Clients, pc[c] # "inTx",
             UNCHANGED <<valid, query, dirty>>,
             \A d \in Clients \ {c} : holds'[d] = holds[d] /\ pc'[d] = pc[d]
      PROVE  NoDirtyReuse'
    <2>1. holds[c] \notin dirty
        BY <1>1, DirtyIsValid
    <2>. QED
        BY <1>1, <2>1, OwnTransaction
<1>2. ASSUME NEW c \in Clients, NEW u \in BOOLEAN, Connection(c, u) \/ Retry(c)
      PROVE  NoDirtyReuse'
    <2>1. pc[c] # "inTx" /\ UNCHANGED <<valid, query, dirty>>
        BY <1>2 DEF Connection, Retry, stmt
    <2>2. \A d \in Clients \ {c} : holds'[d] = holds[d] /\ pc'[d] = pc[d]
        BY <1>2 DEF Connection, Retry, TakePooled, Open, Use, IInv, Types
    <2>. QED
        BY <1>1, <2>1, <2>2
<1>3. ASSUME NEW c \in Clients, Free(c)
      PROVE  NoDirtyReuse'
    <2>1. pc[c] # "inTx" /\ UNCHANGED <<valid, query, dirty>>
        BY <1>3 DEF Free, stmt
    <2>2. \A d \in Clients \ {c} : holds'[d] = holds[d] /\ pc'[d] = pc[d]
        BY <1>3 DEF Free, IInv, Types
    <2>. QED
        BY <1>1, <2>1, <2>2
<1>4. ASSUME NEW c \in Clients, Begin(c) PROVE NoDirtyReuse'
    BY <1>4, ExecuteDirty DEF Begin, StmtKinds, Closing
<1>5. ASSUME NEW c \in Clients, Statement(c) PROVE NoDirtyReuse'
    <2>1. valid[c] \in BOOLEAN
        BY DEF IInv, Types
    <2>. QED
        BY <1>5, <2>1, ExecuteDirty DEF Statement, StmtKinds, Closing
<1>6. ASSUME NEW c \in Clients, Complete(c) PROVE NoDirtyReuse'
    BY <1>6, ExecuteDirty DEF Complete, StmtKinds
<1>7. ASSUME NEW c \in Clients, EndTransaction(c) PROVE NoDirtyReuse'
    <2>1. CASE valid[c]
        BY <1>7, <2>1, ExecuteDirty DEF EndTransaction, StmtKinds
    <2>2. CASE ~ valid[c]
        <3>1. /\ query[c] = None /\ UNCHANGED <<holds, query>>
              /\ Ends(c, "last", FALSE, dirty)
            BY <1>7, <2>2 DEF EndTransaction
        <3>2. /\ \A e \in Clients \ {c} : pc'[e] = pc[e] /\ valid'[e] = valid[e]
              /\ dirty' = dirty
            BY <3>1, OneStatement
        <3>3. holds[c] \notin dirty
            BY <2>2, <3>1, DirtyIsValid DEF Closing, None
        <3>. QED
            BY <3>1, <3>2, <3>3, OwnTransaction
    <2>. QED
        BY <2>1, <2>2
<1>8. ASSUME NEW c \in Clients, Answer(c) PROVE NoDirtyReuse'
    <2>1. /\ query' = [query EXCEPT ![c] = None] /\ holds' = holds
          /\ Ends(c, query[c], valid[c],
                  IF query[c] \in Closing THEN dirty \ {holds[c]} ELSE dirty)
        BY <1>8 DEF Answer
    <2>2. /\ \A e \in Clients \ {c} : pc'[e] = pc[e] /\ valid'[e] = valid[e]
          /\ pc'[c] = IF query[c] = "begin" THEN "inTx"
                      ELSE IF query[c] = "last" THEN "using" ELSE pc[c]
          /\ valid'[c] = valid[c]
          /\ dirty' = IF query[c] \in Closing THEN dirty \ {holds[c]} ELSE dirty
        BY <2>1, OneStatement
    <2>3. \A e \in Clients \ {c} : query'[e] = query[e] /\ holds'[e] = holds[e]
        BY <2>1 DEF IInv, Types
    <2>4. holds[c] \in dirty' => pc'[c] = "inTx" /\ valid'[c] /\ holds'[c] = holds[c]
        BY <2>1, <2>2, DirtyIsValid DEF Closing
    <2>5. dirty' \subseteq dirty
        BY <2>2
    <2>. QED
        BY <2>2, <2>3, <2>4, <2>5, OwnTransaction
<1>9. ASSUME NEW c \in Clients, Fails(c) PROVE NoDirtyReuse'
    <2>1. /\ query' = [query EXCEPT ![c] = None] /\ holds' = holds
          /\ Ends(c, query[c], FALSE, dirty \ {holds[c]})
        BY <1>9 DEF Fails
    <2>2. /\ \A e \in Clients \ {c} : pc'[e] = pc[e] /\ valid'[e] = valid[e]
          /\ dirty' = dirty \ {holds[c]}
        BY <2>1 DEF Ends, IInv, Types
    <2>3. \A e \in Clients \ {c} : query'[e] = query[e] /\ holds'[e] = holds[e]
        BY <2>1 DEF IInv, Types
    <2>. QED
        BY <2>2, <2>3, OwnTransaction
<1>10. CASE Wake \/ Prune \/ Tick \/ UNCHANGED vars
    <2>1. UNCHANGED <<pc, holds, valid, query, dirty>>
        BY <1>10 DEF Wake, Prune, Tick, client, stmt, vars
    <2>. QED
        BY <2>1 DEF NoDirtyReuse, Holders, Closing
<1>. QED
    BY <1>2, <1>3, <1>4, <1>5, <1>6, <1>7, <1>8, <1>9, <1>10 DEF Next

(* Transactions that are committed when their PgSqlTransaction is          *)
(* destroyed, as autoCommit says: none is still open on a connection of    *)
(* the pool, or of a client that is not in it, whichever of its statements *)
(* fails.                                                                  *)
THEOREM NoTransactionLeft ==
    AutoCommit => (Spec => []NoDirtyReuse)
<1> SUFFICES ASSUME AutoCommit PROVE Spec => []NoDirtyReuse
    OBVIOUS
<1>1. Init => NoDirtyReuse
    BY DEF Init, NoDirtyReuse
<1>2. IInv /\ NoDirtyReuse /\ [Next]_vars => NoDirtyReuse'
    BY NextDirty
<1>. QED
    BY <1>1, <1>2, Invariance, PTL DEF Spec

==============================================================================
