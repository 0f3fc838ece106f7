-------------------------------- MODULE PgPool --------------------------------
(***************************************************************************)
(* PgSqlDb, PgSqlConnection and PgSqlTransaction (libs/database): the pool *)
(* of idle connections, the coroutine that prunes it and the statements    *)
(* and transactions that clients run. Coroutines of one thread: each       *)
(* action runs until its coroutine blocks or yields. A statement waits for *)
(* the server in asynchronous mode, and stops the whole thread in          *)
(* synchronous mode. Times are kept relative to now, so that the clock     *)
(* needs no bound. The destruction of the PgSqlDb is left out.             *)
(***************************************************************************)
EXTENDS Integers, Sequences, FiniteSets, SequencesExt, FiniteSetsExt

CONSTANTS Clients,     \* coroutines that use the database
          Conns,       \* the connections that the server grants at a time
          KeepAlive,   \* PgSqlDb::keepAlive
          Slack,       \* 5 ms
          Horizon,     \* 500 ms
          MinSleep,    \* 3000 ms
          Batch,       \* 100: prunes between two yields
          AutoCommit   \* PgSqlTransaction::autoCommit

None == "none"

ASSUME PgPoolAssumption ==
    /\ {KeepAlive, Slack, Horizon, MinSleep, Batch} \subseteq Nat
    /\ KeepAlive >= MinSleep /\ MinSleep > Horizon + Slack /\ Batch > 0
    /\ AutoCommit \in BOOLEAN
    /\ None \notin Conns

VARIABLES
    async,     \* PgSqlDb::async, as configured
    pool,      \* PgSqlDb::conns: the handles and the time they have left
    free,      \* connections that are not open
    lost,      \* connections that open left without PQfinish
    pc,        \* each client: idle, retry, using, inTx
    cached,    \* the argument of connection(), TRUE outside
    tries,     \* y of connection(), 2 outside of it
    holds,     \* the client's PGconn
    valid,     \* PgSqlTransaction::valid
    query,     \* the statement that each client waits for, or None
    dirty,     \* connections that may have an open transaction on the server
    cleaner,   \* the coroutine of cleanup: off, asleep, pruning
    wake,      \* time until it wakes, when asleep
    limit      \* t of cleanup, when pruning, else 0

vars == <<async, pool, free, lost, pc, cached, tries, holds, valid, query, dirty,
          cleaner, wake, limit>>

stmt   == <<valid, query, dirty>>
client == <<async, lost, pc, cached, tries, holds, stmt>>
prune  == <<cleaner, wake, limit>>

Init == /\ async \in BOOLEAN
        /\ pool = <<>> /\ free = Conns /\ lost = {}
        /\ pc = [c \in Clients |-> "idle"]
        /\ cached = [c \in Clients |-> TRUE]
        /\ tries = [c \in Clients |-> 2]
        /\ holds = [c \in Clients |-> None]
        /\ valid = [c \in Clients |-> FALSE]
        /\ query = [c \in Clients |-> None]
        /\ dirty = {}
        /\ cleaner = "off" /\ wake = 0 /\ limit = 0

----------------------------------------------------------------------------
(* PgSqlDb::connection                                                     *)

Use(c, conn) == /\ holds' = [holds EXCEPT ![c] = conn]
                /\ pc' = [pc EXCEPT ![c] = "using"]

(* The handle that was freed last is taken.                                *)
TakePooled(c) == /\ pool # <<>>
                 /\ Use(c, Last(pool).conn)
                 /\ pool' = Front(pool)
                 /\ UNCHANGED <<free, lost>>

(* open: the server may refuse the connection, as it does at its limit,    *)
(* and then the coroutine yields. The exception thrown when the new one    *)
(* cannot be made non-blocking leaves it open, with no owner.              *)
Open(c) ==
    /\ UNCHANGED pool
    /\ \/ pc' = [pc EXCEPT ![c] = "retry"] /\ UNCHANGED <<free, lost, holds>>
       \/ \E conn \in free :
             /\ free' = free \ {conn}
             /\ \/ Use(c, conn) /\ UNCHANGED lost
                \/ /\ async /\ lost' = lost \cup {conn}
                   /\ pc' = [pc EXCEPT ![c] = "idle"] /\ UNCHANGED holds

Connection(c, useCached) ==
    /\ pc[c] = "idle"
    /\ IF useCached /\ pool # <<>> THEN TakePooled(c) ELSE Open(c)
    /\ cached' = [cached EXCEPT ![c] = useCached \/ pc'[c] = "idle"]
    /\ UNCHANGED <<async, tries, stmt, prune>>

(* After the yield: another attempt, a handle somebody freed meanwhile, or *)
(* the exception "connection limit reached".                               *)
Retry(c) ==
    /\ pc[c] = "retry"
    /\ IF pool = <<>> /\ tries[c] > 0
       THEN /\ Open(c)
            /\ tries' = [tries EXCEPT ![c] = IF pc'[c] = "retry" THEN @ - 1 ELSE 2]
       ELSE /\ tries' = [tries EXCEPT ![c] = 2]
            /\ IF cached[c] /\ pool # <<>>
               THEN TakePooled(c)
               ELSE pc' = [pc EXCEPT ![c] = "idle"] /\ UNCHANGED <<pool, free, lost, holds>>
    /\ cached' = [cached EXCEPT ![c] = @ \/ pc'[c] = "idle"]
    /\ UNCHANGED <<async, stmt, prune>>

----------------------------------------------------------------------------
(* PgSqlStatement                                                          *)

\* COMMIT and ROLLBACK, and the COMMIT of ~PgSqlTransaction
Closing == {"end", "last"}

(* The statement q is over: the transaction is valid or not, and the       *)
(* connections in d may have a transaction open.                           *)
Ends(c, q, isValid, d) ==
    /\ pc' = [pc EXCEPT ![c] = IF q = "begin" THEN "inTx"
                               ELSE IF q = "last" THEN "using" ELSE @]
    /\ valid' = [valid EXCEPT ![c] = isValid]
    /\ dirty' = d

(* execute: asynchronous statements are sent and waited for. A synchronous *)
(* one that fails, because the server refuses it or the connection is      *)
(* lost, only marks its results: nothing is reset, nothing is thrown.      *)
Execute(c, q, isValid) ==
    LET d == IF q = "begin" THEN dirty \cup {holds[c]} ELSE dirty
    IN  /\ pc[c] \in {"using", "inTx"} /\ query[c] = None
        /\ IF async
           THEN /\ query' = [query EXCEPT ![c] = q]
                /\ Ends(c, IF q = "begin" THEN q ELSE None, isValid, d)
           ELSE /\ UNCHANGED query
                /\ \/ q \notin Closing /\ Ends(c, q, isValid, d)
                   \/ Ends(c, q, isValid, d \ {holds[c]})
        /\ UNCHANGED <<async, pool, free, lost, cached, tries, holds, prune>>

(* The results of an asynchronous statement are read to the last.          *)
Answer(c) ==
    /\ query[c] # None
    /\ query' = [query EXCEPT ![c] = None]
    /\ Ends(c, query[c], valid[c],
            IF query[c] \in Closing THEN dirty \ {holds[c]} ELSE dirty)
    /\ UNCHANGED <<async, pool, free, lost, cached, tries, holds, prune>>

\* a failed statement marks the transaction only
Fails_noReset(c) ==
    /\ query[c] # None
    /\ query' = [query EXCEPT ![c] = None]
    /\ Ends(c, query[c], FALSE, dirty)
    /\ UNCHANGED <<async, pool, free, lost, cached, tries, holds, prune>>

(* An asynchronous statement is refused, times out or loses the server:    *)
(* the connection is reset, which ends the session with its transaction,   *)
(* and the transaction of the client is no longer valid.                   *)
Fails(c) ==
    /\ query[c] # None
    /\ query' = [query EXCEPT ![c] = None]
    /\ Ends(c, query[c], FALSE, dirty \ {holds[c]})
    /\ UNCHANGED <<async, pool, free, lost, cached, tries, holds, prune>>

----------------------------------------------------------------------------
(* PgSqlTransaction, on a reference of its own (PgSqlConnection::get)      *)

Begin(c) == ~ valid[c] /\ Execute(c, "begin", TRUE)

(* A statement of the connection or of the transaction, which runs it even *)
(* when it is not valid any more.                                          *)
Statement(c) == Execute(c, "stmt", valid[c])

(* commit, rollback                                                        *)
Complete(c) == pc[c] = "inTx" /\ valid[c] /\ Execute(c, "end", FALSE)

(* ~PgSqlTransaction                                                       *)
EndTransaction(c) ==
    /\ pc[c] = "inTx" /\ query[c] = None
    /\ IF AutoCommit /\ valid[c]
       THEN Execute(c, "last", FALSE)
       ELSE /\ Ends(c, "last", FALSE, dirty)
            /\ UNCHANGED <<async, pool, free, lost, cached, tries, holds, query, prune>>

----------------------------------------------------------------------------
(* PgSqlDb::free and cleanup                                               *)

\* if (cleaning ...)
ScheduleCleanup_running ==
    IF cleaner # "off"
    THEN cleaner' = "asleep" /\ wake' = KeepAlive + Slack /\ UNCHANGED limit
    ELSE UNCHANGED prune

\* go(cleanup(...)): it goes to sleep at once
ScheduleCleanup ==
    IF cleaner = "off"
    THEN cleaner' = "asleep" /\ wake' = KeepAlive + Slack /\ UNCHANGED limit
    ELSE UNCHANGED prune

Keep_front(conn) == pool' = <<[conn |-> conn, left |-> KeepAlive]>> \o pool

Keep(conn) == pool' = Append(pool, [conn |-> conn, left |-> KeepAlive])

(* close or put of the last reference                                      *)
Free(c) ==
    /\ pc[c] = "using" /\ query[c] = None
    /\ pc' = [pc EXCEPT ![c] = "idle"]
    /\ holds' = [holds EXCEPT ![c] = None]
    /\ IF cached[c] /\ KeepAlive # 0
       THEN Keep(holds[c]) /\ UNCHANGED free /\ ScheduleCleanup
       ELSE free' = free \cup {holds[c]} /\ UNCHANGED <<pool, prune>>
    /\ cached' = [cached EXCEPT ![c] = TRUE]
    /\ UNCHANGED <<async, lost, tries, stmt>>

Wake == /\ cleaner = "asleep" /\ wake <= 0
        /\ cleaner' = "pruning" /\ limit' = Horizon
        /\ wake' = 0
        /\ UNCHANGED <<pool, free, client>>

\* the handles are not looked at one by one
Expired_any == Len(pool)

(* The handles at the front that expire before the limit.                  *)
Expired == LET kept == {i \in DOMAIN pool : pool[i].left > limit}
           IN  IF kept = {} THEN Len(pool) ELSE Min(kept) - 1

(* A batch is closed, and then the coroutine yields; or the rest, and then *)
(* it sleeps or, with no handle left, ends.                                *)
Prune ==
    /\ cleaner = "pruning"
    /\ LET k == Min({Expired, Batch})
       IN  /\ pool' = SubSeq(pool, k + 1, Len(pool))
           /\ free' = free \cup {pool[i].conn : i \in 1 .. k}
           /\ IF k = Batch
              THEN UNCHANGED prune
              ELSE IF k = Len(pool)
                   THEN cleaner' = "off" /\ limit' = 0 /\ UNCHANGED wake
                   ELSE /\ cleaner' = "asleep"
                        /\ wake' = Max({pool[k + 1].left - limit, MinSleep})
                        /\ limit' = 0
    /\ UNCHANGED client

\* a handle forgotten for longer than that is as good as one forgotten for ever
Oldest == Horizon - MinSleep - 1

(* Time passes; a timer that is due fires first.                           *)
Tick ==
    /\ cleaner = "off" \/ (cleaner = "asleep" /\ wake > 0)
    /\ pool # <<>> \/ cleaner # "off"
    /\ pool' = [i \in DOMAIN pool |-> [pool[i] EXCEPT !.left = Max({@ - 1, Oldest})]]
    /\ wake' = IF cleaner = "asleep" THEN wake - 1 ELSE wake
    /\ UNCHANGED <<free, client, cleaner, limit>>

Next == \/ \E c \in Clients :
             \/ \E useCached \in BOOLEAN : Connection(c, useCached)
             \/ Retry(c) \/ Free(c)
             \/ Begin(c) \/ Statement(c) \/ Complete(c) \/ EndTransaction(c)
             \/ Answer(c) \/ Fails(c)
        \/ Wake \/ Prune \/ Tick

Spec == Init /\ [][Next]_vars

(* The clock runs and a coroutine that is ready is resumed.                *)
FairSpec == /\ Spec
            /\ WF_vars(Tick) /\ WF_vars(Wake) /\ WF_vars(Prune)
            /\ \A c \in Clients : WF_vars(Retry(c))

----------------------------------------------------------------------------

Pooled(conn)  == {i \in DOMAIN pool : pool[i].conn = conn}
Holders(conn) == {c \in Clients : holds[c] = conn}

TypeOK == /\ pool \in Seq([conn : Conns, left : Int]) /\ free \subseteq Conns
          /\ lost \subseteq Conns
          /\ pc \in [Clients -> {"idle", "retry", "using", "inTx"}]
          /\ holds \in [Clients -> Conns \cup {None}]
          /\ \A c \in Clients : valid[c] => pc[c] = "inTx"
          /\ query \in [Clients -> {None, "begin", "stmt", "end", "last"}]
          /\ \A c \in Clients : query[c] # None => holds[c] # None
          /\ cleaner \in {"off", "asleep", "pruning"}

(* A connection has one owner: it is not open, or idle in the pool, once,  *)
(* or used by one client, or else left behind by an open that failed. No   *)
(* other is lost, and none is used after PQfinish or when left behind.     *)
OneOwner ==
    \A conn \in Conns :
        Cardinality(Pooled(conn)) + Cardinality(Holders(conn))
            = (IF conn \in free \cup lost THEN 0 ELSE 1)

(* A transaction does not outlive its client, however it ended: refused,   *)
(* timed out or cut off in any of its statements. The open ones are those  *)
(* of clients that are in a transaction that is valid or being completed,  *)
(* and the pool hands out no connection that has one.                      *)
NoDirtyReuse ==
    \A conn \in dirty :
        \E c \in Holders(conn) :
            pc[c] = "inTx" /\ (valid[c] \/ query[c] \in Closing)

(* A pooled handle is closed, or taken, at most MinSleep - Horizon after   *)
(* its time is up, and the cleaner runs as long as there is one.           *)
IdleBounded ==
    /\ \A i \in DOMAIN pool : pool[i].left >= Horizon - MinSleep
    /\ pool # <<>> => cleaner # "off"

(* The pool is sound: the state is well-formed, every connection has one   *)
(* owner, and idle ones are closed in time.                                *)
PoolSound == TypeOK /\ OneOwner /\ IdleBounded

(* No handle is closed earlier than Horizon before its time.               *)
NotClosedEarly ==
    [][\A i \in DOMAIN pool :
         (pool[i].conn \in free') => pool[i].left <= Horizon]_vars

(* Whatever clients do, an idle connection is taken or closed in the end.  *)
IdleEnds ==
    \A conn \in Conns : (Pooled(conn) # {}) ~> (Pooled(conn) = {})
==============================================================================
