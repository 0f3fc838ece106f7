--------------------------- MODULE ConditionalProofs ---------------------------
(***************************************************************************)
(* Proofs about suil::Conditional: for any waiters, with and without       *)
(* timeouts, any notifiers and any length of the list.                     *)
(***************************************************************************)
EXTENDS Conditional, FiniteSetTheorems, TLAPS

Ops == {None, "one", "all", "abort"}

Types ==
    /\ waiting \in Seq(Syncs) /\ Len(waiting) <= MaxWaiting
    /\ state \in [Syncs -> {"idle", "blocked", "woken", "dropped"}]
    /\ closed \subseteq Syncs
    /\ senders \in [Syncs -> Seq(Notifiers)]
    /\ op \in [Notifiers -> Ops]
    /\ cpu \in Notifiers \cup {None} /\ panic \in BOOLEAN

(* A notifier is blocked in one send at most, and in none while it runs or *)
(* has nothing to do.                                                      *)
Sending ==
    /\ \A p \in Notifiers : \A s, t \in BlockedAt(p) : s = t
    /\ \A p \in Notifiers : op[p] = None => BlockedAt(p) = {}
    /\ cpu # None => op[cpu] # None /\ BlockedAt(cpu) = {}

(* Whoever is blocked has an open channel without senders.                 *)
Receiving ==
    \A s \in Syncs : state[s] = "blocked" => s \notin closed /\ senders[s] = <<>>

Forever == Syncs \ (Timed \cup closed)

(* A wait without a timeout has one entry, from its start to its end.      *)
Listing ==
    /\ \A i \in DOMAIN waiting : waiting[i] \in Forever => state[waiting[i]] = "blocked"
    /\ \A i, j \in DOMAIN waiting :
          waiting[i] \in Forever /\ waiting[i] = waiting[j] => i = j

(* The entries of such waits are in the order in which the waits began.    *)
Sorted ==
    \A i, j \in DOMAIN waiting :
        i < j /\ waiting[i] \in Forever /\ waiting[j] \in Forever
            => <<waiting[i], waiting[j]>> \in older

(* The inductive invariant.                                                *)
IInv == /\ Types /\ Sending /\ Receiving /\ Listing /\ Sorted
        /\ NoForgottenWaiter /\ OnlyStaleBlocks

----------------------------------------------------------------------------
(* The list of waiters                                                     *)

(* What taking the first entry off does to the list.                       *)
LEMMA ListPops ==
    ASSUME waiting \in Seq(Syncs), waiting # <<>>, waiting' = Tail(waiting)
    PROVE  /\ waiting' \in Seq(Syncs) /\ Len(waiting') <= Len(waiting)
           /\ 1 \in DOMAIN waiting /\ Head(waiting) = waiting[1] /\ Head(waiting) \in Syncs
           /\ \A i \in DOMAIN waiting' : i + 1 \in DOMAIN waiting /\ waiting'[i] = waiting[i + 1]
           /\ ToSet(waiting) \subseteq {Head(waiting)} \cup ToSet(waiting')
<1>1. /\ waiting' \in Seq(Syncs) /\ Len(waiting') = Len(waiting) - 1
      /\ 1 \in DOMAIN waiting /\ Head(waiting) = waiting[1] /\ Head(waiting) \in Syncs
      /\ Len(waiting) \in Nat /\ DOMAIN waiting = 1 .. Len(waiting)
      /\ DOMAIN waiting' = 1 .. (Len(waiting) - 1)
    OBVIOUS
<1>2. \A i \in DOMAIN waiting' : i + 1 \in DOMAIN waiting /\ waiting'[i] = waiting[i + 1]
    OBVIOUS
<1>3. ASSUME NEW i \in DOMAIN waiting, waiting[i] # Head(waiting)
      PROVE  waiting[i] \in ToSet(waiting')
    <2>1. i # 1
        BY <1>1, <1>3
    <2>2. i - 1 \in DOMAIN waiting' /\ (i - 1) + 1 = i
        BY <1>1, <2>1
    <2>. QED
        BY <1>2, <2>2 DEF ToSet
<1>. QED
    BY <1>1, <1>2, <1>3 DEF ToSet

(* What a wait does to it.                                                 *)
LEMMA ListAppends ==
    ASSUME waiting \in Seq(Syncs), NEW s \in Syncs, waiting' = Append(waiting, s)
    PROVE  /\ waiting' \in Seq(Syncs) /\ Len(waiting') = Len(waiting) + 1
           /\ \A i \in DOMAIN waiting' :
                 \/ i \in DOMAIN waiting /\ waiting'[i] = waiting[i] /\ i <= Len(waiting)
                 \/ i = Len(waiting) + 1 /\ waiting'[i] = s
           /\ ToSet(waiting') = ToSet(waiting) \cup {s}
<1>1. /\ waiting' \in Seq(Syncs) /\ Len(waiting') = Len(waiting) + 1
      /\ Len(waiting) \in Nat /\ DOMAIN waiting = 1 .. Len(waiting)
      /\ DOMAIN waiting' = 1 .. (Len(waiting) + 1)
    OBVIOUS
<1>2. \A i \in DOMAIN waiting' :
         \/ i \in DOMAIN waiting /\ waiting'[i] = waiting[i] /\ i <= Len(waiting)
         \/ i = Len(waiting) + 1 /\ waiting'[i] = s
    OBVIOUS
<1>3. \A i \in DOMAIN waiting : i \in DOMAIN waiting' /\ waiting'[i] = waiting[i]
    OBVIOUS
<1>4. Len(waiting) + 1 \in DOMAIN waiting' /\ waiting'[Len(waiting) + 1] = s
    OBVIOUS
<1>. QED
    BY <1>1, <1>2, <1>3, <1>4 DEF ToSet

(* The entry that is taken off is of no use any more: what is left is      *)
(* complete, unique and in order.                                          *)
LEMMA PopKeepsList ==
    ASSUME IInv, waiting # <<>>, waiting' = Tail(waiting),
           state' \in [Syncs -> {"idle", "blocked", "woken", "dropped"}],
           state'[Head(waiting)] # "blocked",
           \A s \in Syncs \ {Head(waiting)} : state'[s] = state[s],
           closed \subseteq closed', older \cap (Blocked' \X Blocked') \subseteq older'
    PROVE  /\ waiting' \in Seq(Syncs) /\ Len(waiting') <= MaxWaiting
           /\ Listing' /\ Sorted' /\ NoForgottenWaiter'
<1>1. /\ waiting \in Seq(Syncs) /\ Len(waiting) <= MaxWaiting /\ MaxWaiting \in Nat
    BY ConditionalAssumption DEF IInv, Types
<1>2. /\ waiting' \in Seq(Syncs) /\ Len(waiting') <= Len(waiting)
      /\ 1 \in DOMAIN waiting /\ Head(waiting) = waiting[1] /\ Head(waiting) \in Syncs
      /\ \A i \in DOMAIN waiting' : i + 1 \in DOMAIN waiting /\ waiting'[i] = waiting[i + 1]
      /\ ToSet(waiting) \subseteq {Head(waiting)} \cup ToSet(waiting')
    BY <1>1, ListPops
<1>3. Len(waiting') <= MaxWaiting
    <2>1. Len(waiting) \in Nat /\ Len(waiting') \in Nat
        BY <1>1, <1>2
    <2>. QED
        BY <1>1, <1>2, <2>1
<1>4. Forever' \subseteq Forever
    BY DEF Forever
<1>5. DOMAIN waiting' \subseteq Nat \ {0}
    BY <1>2
<1>6. ASSUME NEW i \in DOMAIN waiting', waiting'[i] \in Forever'
      PROVE  /\ waiting[i + 1] \in Forever /\ waiting'[i] = waiting[i + 1]
             /\ i + 1 \in DOMAIN waiting
             /\ waiting'[i] # Head(waiting) /\ state'[waiting'[i]] = "blocked"
             /\ waiting'[i] \in Blocked'
    <2>1. i + 1 \in DOMAIN waiting /\ waiting'[i] = waiting[i + 1] /\ waiting[i + 1] \in Forever
        BY <1>2, <1>4, <1>6
    <2>2. i + 1 # 1
        BY <1>5
    <2>3. waiting[i + 1] # waiting[1]
        BY <1>2, <2>1, <2>2 DEF IInv, Listing
    <2>4. state[waiting[i + 1]] = "blocked"
        BY <2>1 DEF IInv, Listing
    <2>5. waiting[i + 1] \in Syncs
        BY <2>1 DEF Forever
    <2>6. state'[waiting[i + 1]] = "blocked"
        BY <1>2, <2>3, <2>4, <2>5
    <2>. QED
        BY <1>2, <2>1, <2>3, <2>5, <2>6 DEF Blocked
<1>7. Listing'
    <2>1. ASSUME NEW i \in DOMAIN waiting', NEW j \in DOMAIN waiting',
                 waiting'[i] \in Forever', waiting'[i] = waiting'[j]
          PROVE  i = j
        <3>1. i + 1 = j + 1
            BY <1>2, <1>6, <2>1 DEF IInv, Listing
        <3>. QED
            BY <3>1, <1>5
    <2>. QED
        BY <1>6, <2>1 DEF Listing
<1>8. Sorted'
    <2>1. ASSUME NEW i \in DOMAIN waiting', NEW j \in DOMAIN waiting', i < j,
                 waiting'[i] \in Forever', waiting'[j] \in Forever'
          PROVE  <<waiting'[i], waiting'[j]>> \in older'
        <3>1. i + 1 < j + 1
            BY <1>5, <2>1
        <3>2. <<waiting[i + 1], waiting[j + 1]>> \in older
            BY <1>6, <2>1, <3>1 DEF IInv, Sorted
        <3>. QED
            BY <1>6, <2>1, <3>2
    <2>. QED
        BY <2>1 DEF Sorted
<1>9. NoForgottenWaiter'
    BY <1>2 DEF NoForgottenWaiter, IInv
<1>. QED
    BY <1>2, <1>3, <1>7, <1>8, <1>9

----------------------------------------------------------------------------
(* The steps                                                               *)

(* The invariant holds at the start.                                       *)
LEMMA InitIInv == Init => IInv
<1>. SUFFICES ASSUME Init PROVE IInv
    OBVIOUS
<1>1. Types
    <2>1. waiting \in Seq(Syncs) /\ Len(waiting) <= MaxWaiting
        BY ConditionalAssumption DEF Init
    <2>2. senders \in [Syncs -> Seq(Notifiers)]
        BY DEF Init
    <2>3. /\ state \in [Syncs -> {"idle", "blocked", "woken", "dropped"}]
          /\ op \in [Notifiers -> Ops]
        BY DEF Init, Ops
    <2>. QED
        BY <2>1, <2>2, <2>3 DEF Init, Types
<1>2. \A p \in Notifiers : BlockedAt(p) = {}
    BY DEF Init, BlockedAt, ToSet
<1>3. Sending
    BY <1>2 DEF Sending, Init
<1>4. Receiving /\ NoForgottenWaiter /\ OnlyStaleBlocks
    BY DEF Init, Receiving, NoForgottenWaiter, OnlyStaleBlocks
<1>5. Listing /\ Sorted
    BY DEF Init, Listing, Sorted
<1>. QED
    BY <1>1, <1>3, <1>4, <1>5 DEF IInv

(* Sending holds as long as no send is added.                              *)
LEMMA SendersShrink ==
    ASSUME IInv, senders' \in [Syncs -> Seq(Notifiers)],
           \A s \in Syncs : ToSet(senders'[s]) \subseteq ToSet(senders[s]),
           \A p \in Notifiers : op'[p] = None => op[p] = None \/ BlockedAt(p) = {},
           cpu' # None => op'[cpu'] # None /\ BlockedAt(cpu') = {}
    PROVE  Sending'
<1>1. \A p : BlockedAt(p)' \subseteq BlockedAt(p)
    BY DEF BlockedAt
<1>2. \A p \in Notifiers : \A s, t \in BlockedAt(p)' : s = t
    BY <1>1 DEF IInv, Sending
<1>3. \A p \in Notifiers : op'[p] = None => BlockedAt(p)' = {}
    BY <1>1 DEF IInv, Sending
<1>4. cpu' # None => op'[cpu'] # None /\ BlockedAt(cpu)' = {}
    BY DEF BlockedAt
<1>. QED
    BY <1>2, <1>3, <1>4 DEF Sending

(* Wait keeps the invariant.                                               *)
LEMMA WaitIInv == ASSUME IInv, NEW s \in Syncs, Wait(s) PROVE IInv'
<1>0. /\ waiting \in Seq(Syncs) /\ Len(waiting) \in Nat /\ MaxWaiting \in Nat
      /\ DOMAIN waiting = 1 .. Len(waiting)
      /\ senders \in [Syncs -> Seq(Notifiers)]
      /\ state \in [Syncs -> {"idle", "blocked", "woken", "dropped"}]
    BY ConditionalAssumption DEF IInv, Types
<1>1. /\ waiting' \in Seq(Syncs) /\ Len(waiting') = Len(waiting) + 1
      /\ \A i \in DOMAIN waiting' :
            \/ i \in DOMAIN waiting /\ waiting'[i] = waiting[i] /\ i <= Len(waiting)
            \/ i = Len(waiting) + 1 /\ waiting'[i] = s
      /\ ToSet(waiting') = ToSet(waiting) \cup {s}
    BY <1>0, ListAppends DEF Wait
<1>2. /\ Len(waiting') <= MaxWaiting
      /\ DOMAIN waiting' \subseteq Nat
    BY <1>0, <1>1 DEF Wait
<1>3. /\ state[s] = "idle" /\ UNCHANGED <<closed, op, cpu, panic>>
      /\ older' = (older \cup {<<t, s>> : t \in Blocked}) \cap (Blocked' \X Blocked')
    BY DEF Wait
<1>4. /\ senders' \in [Syncs -> Seq(Notifiers)]
      /\ \A t \in Syncs \ {s} : senders'[t] = senders[t]
      /\ senders[s] = <<>> => senders' = senders
      /\ senders[s] # <<>> => senders'[s] = Tail(senders[s]) /\ state' = state
    <2>1. CASE senders[s] = <<>>
        BY <1>0, <2>1 DEF Wait
    <2>2. CASE senders[s] # <<>>
        <3>1. Tail(senders[s]) \in Seq(Notifiers)
            BY <1>0, <2>2
        <3>2. senders' = [senders EXCEPT ![s] = Tail(senders[s])] /\ state' = state
            BY <1>0, <2>2 DEF Wait
        <3>. QED
            BY <1>0, <2>2, <3>1, <3>2
    <2>. QED
        BY <2>1, <2>2
<1>5. /\ state' \in [Syncs -> {"idle", "blocked", "woken", "dropped"}]
      /\ \A t \in Syncs \ {s} : state'[t] = state[t]
      /\ state'[s] \in {"idle", "blocked"}
      /\ state'[s] = "blocked" <=> senders[s] = <<>> /\ s \notin closed
    BY <1>0, <1>3 DEF Wait
<1>6. \A t \in Syncs : ToSet(senders'[t]) \subseteq ToSet(senders[t])
    <2>1. ASSUME senders[s] # <<>> PROVE ToSet(Tail(senders[s])) \subseteq ToSet(senders[s])
        BY <1>0, <2>1 DEF ToSet
    <2>. QED
        BY <1>4, <2>1
<1>7. Types'
    BY <1>1, <1>2, <1>3, <1>4, <1>5 DEF IInv, Types
<1>8. Sending'
    BY <1>3, <1>4, <1>6, SendersShrink DEF IInv, Sending
<1>9. Receiving'
    BY <1>3, <1>4, <1>5 DEF IInv, Receiving
<1>10. NoForgottenWaiter'
    BY <1>1, <1>5 DEF IInv, NoForgottenWaiter
<1>11. OnlyStaleBlocks'
    <2>1. ASSUME senders[s] = <<>> PROVE OnlyStaleBlocks'
        BY <1>3, <1>4, <2>1 DEF IInv, OnlyStaleBlocks
    <2>2. ASSUME senders[s] # <<>> PROVE s \in Timed \/ s \in closed
        BY <2>2 DEF IInv, OnlyStaleBlocks
    <2>. QED
        BY <1>3, <1>4, <2>1, <2>2 DEF IInv, OnlyStaleBlocks
<1>12. Forever' = Forever
    BY <1>3 DEF Forever
<1>13. s \in Forever => state'[s] = "blocked"
    BY <1>5 DEF Forever, IInv, OnlyStaleBlocks
<1>14. \A i \in DOMAIN waiting : waiting[i] \in Forever => waiting[i] # s
    BY <1>3 DEF IInv, Listing
<1>15. \A i \in DOMAIN waiting : waiting[i] \in Forever => state'[waiting[i]] = "blocked"
    <2>1. \A i \in DOMAIN waiting : waiting[i] \in Syncs
        BY <1>0
    <2>. QED
        BY <1>5, <1>14, <2>1 DEF IInv, Listing
<1>16. Listing'
    <2>1. \A i \in DOMAIN waiting' : waiting'[i] \in Forever => state'[waiting'[i]] = "blocked"
        BY <1>1, <1>13, <1>15
    <2>2. ASSUME NEW i \in DOMAIN waiting', NEW j \in DOMAIN waiting',
                 waiting'[i] \in Forever, waiting'[i] = waiting'[j]
          PROVE  i = j
        BY <1>1, <1>14, <2>2 DEF IInv, Listing
    <2>. QED
        BY <1>12, <2>1, <2>2 DEF Listing
<1>17. Sorted'
    <2>1. ASSUME NEW i \in DOMAIN waiting', NEW j \in DOMAIN waiting', i < j,
                 waiting'[i] \in Forever, waiting'[j] \in Forever
          PROVE  <<waiting'[i], waiting'[j]>> \in older'
        <3>1. i \in DOMAIN waiting /\ waiting'[i] = waiting[i]
            BY <1>0, <1>1, <1>2, <2>1
        <3>2. waiting'[i] \in Blocked' /\ waiting'[j] \in Blocked'
            BY <1>1, <1>13, <1>15, <2>1 DEF Blocked, Forever
        <3>3. waiting[i] \in Blocked
            BY <2>1, <3>1 DEF IInv, Listing, Blocked, Forever
        <3>4. CASE j \in DOMAIN waiting /\ waiting'[j] = waiting[j]
            BY <1>3, <2>1, <3>1, <3>2, <3>4 DEF IInv, Sorted
        <3>5. CASE waiting'[j] = s
            BY <1>3, <3>1, <3>2, <3>3, <3>5
        <3>. QED
            BY <1>1, <3>4, <3>5
    <2>. QED
        BY <1>12, <2>1 DEF Sorted
<1>. QED
    BY <1>7, <1>8, <1>9, <1>10, <1>11, <1>16, <1>17 DEF IInv

(* The end of a wait or of a Sync: only a wait with a timeout ends while   *)
(* it is blocked.                                                          *)
LEMMA ReturnIInv ==
    ASSUME IInv, NEW s \in Syncs, Return(s) \/ Timeout(s) \/ Drop(s) PROVE IInv'
<1>1. /\ UNCHANGED <<waiting, closed, senders, op, cpu, panic>>
      /\ state[s] = "blocked" => s \in Timed
      /\ older \cap (Blocked' \X Blocked') \subseteq older'
    BY DEF Return, Timeout, Drop
<1>2. /\ state' \in [Syncs -> {"idle", "blocked", "woken", "dropped"}]
      /\ \A t \in Syncs \ {s} : state'[t] = state[t]
      /\ state'[s] # "blocked"
    BY DEF Return, Timeout, Drop, IInv, Types
<1>3. Types'
    BY <1>1, <1>2 DEF IInv, Types
<1>4. Sending'
    BY <1>1 DEF IInv, Sending, BlockedAt
<1>5. Receiving' /\ NoForgottenWaiter' /\ OnlyStaleBlocks'
    BY <1>1, <1>2 DEF IInv, Receiving, NoForgottenWaiter, OnlyStaleBlocks
<1>6. Forever' = Forever
    BY <1>1 DEF Forever
<1>7. ASSUME NEW i \in DOMAIN waiting, waiting[i] \in Forever
      PROVE  state'[waiting[i]] = "blocked" /\ waiting[i] \in Blocked'
    <2>1. state[waiting[i]] = "blocked"
        BY <1>7 DEF IInv, Listing
    <2>2. waiting[i] \in Syncs \ {s}
        BY <1>1, <1>7, <2>1 DEF Forever
    <2>. QED
        BY <1>2, <2>1, <2>2 DEF Blocked
<1>8. Listing'
    BY <1>1, <1>6, <1>7 DEF IInv, Listing
<1>9. Sorted'
    <2>1. ASSUME NEW i \in DOMAIN waiting, NEW j \in DOMAIN waiting, i < j,
                 waiting[i] \in Forever, waiting[j] \in Forever
          PROVE  <<waiting[i], waiting[j]>> \in older'
        <3>1. <<waiting[i], waiting[j]>> \in older
            BY <2>1 DEF IInv, Sorted
        <3>. QED
            BY <1>1, <1>7, <2>1, <3>1
    <2>. QED
        BY <1>1, <1>6, <2>1 DEF Sorted
<1>. QED
    BY <1>3, <1>4, <1>5, <1>8, <1>9 DEF IInv

(* A notifier that starts, goes on or ends without a look at an entry.     *)
LEMMA TurnIInv ==
    ASSUME IInv, NEW p \in Notifiers,
           (\E what \in {"one", "all", "abort"} : Notify(p, what)) \/ Finish(p) \/ Resume(p)
    PROVE  IInv'
<1>1. UNCHANGED <<waiting, state, closed, senders, older, panic>>
    BY DEF Notify, Finish, Resume
<1>2. /\ op' \in [Notifiers -> Ops] /\ cpu' \in Notifiers \cup {None}
      /\ \A q \in Notifiers \ {p} : op'[q] = op[q]
      /\ BlockedAt(p) = {}
      /\ cpu' = None \/ (cpu' = p /\ op'[p] # None)
    <2>1. op \in [Notifiers -> Ops] /\ cpu \in Notifiers \cup {None} /\ None \notin Notifiers
        BY ConditionalAssumption DEF IInv, Types
    <2>2. CASE \E what \in {"one", "all", "abort"} : Notify(p, what)
        <3>1. PICK what \in {"one", "all", "abort"} : Notify(p, what)
            BY <2>2
        <3>2. op[p] = None /\ op' = [op EXCEPT ![p] = what] /\ cpu' = p
            BY <3>1 DEF Notify
        <3>3. what \in Ops /\ what # None
            BY DEF Ops, None
        <3>. QED
            BY <2>1, <3>2, <3>3 DEF IInv, Sending
    <2>3. CASE Finish(p)
        <3>1. None \in Ops
            BY DEF Ops
        <3>. QED
            BY <2>1, <2>3, <3>1 DEF Finish, IInv, Sending
    <2>4. CASE Resume(p)
        <3>1. None \in Ops
            BY DEF Ops
        <3>2. BlockedAt(p) = {} /\ op[p] # None /\ cpu = None
            BY <2>4 DEF Resume, Yielded
        <3>3. CASE op[p] = "one"
            BY <2>1, <2>4, <3>1, <3>2, <3>3 DEF Resume
        <3>4. CASE op[p] # "one"
            BY <2>1, <2>4, <3>1, <3>2, <3>4 DEF Resume
        <3>. QED
            BY <3>3, <3>4
    <2>. QED
        BY <2>2, <2>3, <2>4
<1>3. Types'
    BY <1>1, <1>2 DEF IInv, Types
<1>4. Sending'
    <2>1. senders' \in [Syncs -> Seq(Notifiers)]
        BY <1>1 DEF IInv, Types
    <2>2. \A s \in Syncs : ToSet(senders'[s]) \subseteq ToSet(senders[s])
        BY <1>1
    <2>3. \A q \in Notifiers : op'[q] = None => op[q] = None \/ BlockedAt(q) = {}
        BY <1>2
    <2>4. cpu' # None => op'[cpu'] # None /\ BlockedAt(cpu') = {}
        BY <1>2
    <2>. QED
        BY <2>1, <2>2, <2>3, <2>4, SendersShrink
<1>5. Receiving' /\ NoForgottenWaiter' /\ OnlyStaleBlocks'
    BY <1>1 DEF IInv, Receiving, NoForgottenWaiter, OnlyStaleBlocks
<1>6. Listing' /\ Sorted'
    BY <1>1 DEF IInv, Listing, Sorted, Forever
<1>. QED
    BY <1>3, <1>4, <1>5, <1>6 DEF IInv

(* The loop goes on, or notifyOne returns.                                 *)
LEMMA ContinueKeeps ==
    ASSUME IInv, NEW p \in Notifiers, cpu = p, Continue(p) \/ UNCHANGED <<op, cpu>>,
           UNCHANGED senders
    PROVE  /\ op' \in [Notifiers -> Ops] /\ cpu' \in Notifiers \cup {None}
           /\ Sending'
<1>1. op \in [Notifiers -> Ops] /\ senders' \in [Syncs -> Seq(Notifiers)]
    BY DEF IInv, Types
<1>2. p # None /\ op[p] # None /\ BlockedAt(p) = {}
    BY ConditionalAssumption DEF IInv, Sending
<1>3. /\ op' \in [Notifiers -> Ops] /\ cpu' \in {p, None}
      /\ \A q \in Notifiers \ {p} : op'[q] = op[q]
      /\ cpu' = p => op' = op
    <2>1. None \in Ops
        BY DEF Ops
    <2>2. CASE op[p] = "one" /\ Continue(p)
        BY <1>1, <1>2, <2>1, <2>2 DEF Continue
    <2>3. CASE UNCHANGED <<op, cpu>>
        BY <1>1, <2>3
    <2>. QED
        BY <2>2, <2>3 DEF Continue
<1>4. Sending'
    BY <1>1, <1>2, <1>3, SendersShrink
<1>. QED
    BY <1>3, <1>4

(* PopExpired keeps the invariant.                                         *)
LEMMA PopExpiredIInv == ASSUME IInv, NEW p \in Notifiers, PopExpired(p) PROVE IInv'
<1>1. /\ cpu = p /\ waiting # <<>> /\ waiting' = Tail(waiting) /\ Continue(p)
      /\ UNCHANGED <<state, closed, senders, older, panic>>
      /\ state[Head(waiting)] # "blocked"
    BY DEF PopExpired, Alive
<1>2. /\ waiting' \in Seq(Syncs) /\ Len(waiting') <= MaxWaiting
      /\ Listing' /\ Sorted' /\ NoForgottenWaiter'
    <2>1. state' \in [Syncs -> {"idle", "blocked", "woken", "dropped"}]
        BY <1>1 DEF IInv, Types
    <2>. QED
        BY <1>1, <2>1, PopKeepsList
<1>3. op' \in [Notifiers -> Ops] /\ cpu' \in Notifiers \cup {None} /\ Sending'
    BY <1>1, ContinueKeeps
<1>4. Types'
    BY <1>1, <1>2, <1>3 DEF IInv, Types
<1>5. Receiving' /\ OnlyStaleBlocks'
    BY <1>1 DEF IInv, Receiving, OnlyStaleBlocks
<1>. QED
    BY <1>2, <1>3, <1>4, <1>5 DEF IInv

(* PopSend keeps the invariant.                                            *)
LEMMA PopSendIInv == ASSUME IInv, NEW p \in Notifiers, PopSend(p) PROVE IInv'
<1>. DEFINE s == Head(waiting)
<1>1. /\ cpu = p /\ waiting # <<>> /\ waiting' = Tail(waiting)
      /\ closed' = closed /\ older' = older \cap (Blocked' \X Blocked')
    BY DEF PopSend
<1>2. /\ waiting \in Seq(Syncs) /\ senders \in [Syncs -> Seq(Notifiers)]
      /\ state \in [Syncs -> {"idle", "blocked", "woken", "dropped"}]
      /\ op \in [Notifiers -> Ops]
    BY DEF IInv, Types
<1>3. 1 \in DOMAIN waiting /\ s = waiting[1] /\ s \in Syncs
    BY <1>1, <1>2, ListPops
<1>4. p # None /\ op[p] # None /\ BlockedAt(p) = {}
    BY <1>1, ConditionalAssumption DEF IInv, Sending
<1>5. CASE s \in closed
    <2>1. panic' = TRUE /\ UNCHANGED <<state, senders, op, cpu>>
        BY <1>5 DEF PopSend
    <2>2. state'[s] # "blocked"
        BY <1>3, <1>5, <2>1 DEF IInv, Receiving
    <2>3. /\ waiting' \in Seq(Syncs) /\ Len(waiting') <= MaxWaiting
          /\ Listing' /\ Sorted' /\ NoForgottenWaiter'
        BY <1>1, <1>2, <2>1, <2>2, PopKeepsList
    <2>4. Types'
        BY <1>1, <2>1, <2>3 DEF IInv, Types
    <2>5. Sending'
        BY <2>1 DEF IInv, Sending, BlockedAt
    <2>6. Receiving' /\ OnlyStaleBlocks'
        BY <1>1, <2>1 DEF IInv, Receiving, OnlyStaleBlocks
    <2>. QED
        BY <2>3, <2>4, <2>5, <2>6 DEF IInv
<1>6. CASE s \notin closed /\ state[s] = "blocked"
    <2>1. /\ state' = [state EXCEPT ![s] = "woken"] /\ Continue(p)
          /\ UNCHANGED <<senders, panic>>
        BY <1>6 DEF PopSend
    <2>2. /\ state' \in [Syncs -> {"idle", "blocked", "woken", "dropped"}]
          /\ \A t \in Syncs \ {s} : state'[t] = state[t]
          /\ state'[s] # "blocked"
        BY <1>2, <1>3, <2>1
    <2>3. /\ waiting' \in Seq(Syncs) /\ Len(waiting') <= MaxWaiting
          /\ Listing' /\ Sorted' /\ NoForgottenWaiter'
        BY <1>1, <2>2, PopKeepsList
    <2>4. op' \in [Notifiers -> Ops] /\ cpu' \in Notifiers \cup {None} /\ Sending'
        BY <1>1, <2>1, ContinueKeeps
    <2>5. Types'
        BY <1>1, <2>1, <2>2, <2>3, <2>4 DEF IInv, Types
    <2>6. Receiving' /\ OnlyStaleBlocks'
        BY <1>1, <2>1, <2>2 DEF IInv, Receiving, OnlyStaleBlocks
    <2>. QED
        BY <2>3, <2>4, <2>5, <2>6 DEF IInv
<1>7. CASE s \notin closed /\ state[s] # "blocked"
    <2>1. /\ senders' = [senders EXCEPT ![s] = Append(@, p)] /\ cpu' = None
          /\ UNCHANGED <<state, op, panic>>
        BY <1>7 DEF PopSend
    <2>2. /\ waiting' \in Seq(Syncs) /\ Len(waiting') <= MaxWaiting
          /\ Listing' /\ Sorted' /\ NoForgottenWaiter'
        BY <1>1, <1>2, <1>7, <2>1, PopKeepsList
    <2>3. s \in Timed
        BY <1>3, <1>7 DEF IInv, Listing, Forever
    <2>4. /\ senders' \in [Syncs -> Seq(Notifiers)]
          /\ senders'[s] = Append(senders[s], p)
          /\ \A t \in Syncs \ {s} : senders'[t] = senders[t]
        <3>1. Append(senders[s], p) \in Seq(Notifiers)
            BY <1>2, <1>3
        <3>. QED
            BY <1>2, <1>3, <2>1, <3>1
    <2>5. ToSet(senders'[s]) = ToSet(senders[s]) \cup {p}
        <3>1. PICK q \in Seq(Notifiers) : q = senders[s]
            BY <1>2, <1>3
        <3>2. ToSet(Append(q, p)) = ToSet(q) \cup {p}
            <4>1. DOMAIN q = 1 .. Len(q) /\ Len(q) \in Nat
                OBVIOUS
            <4>2. DOMAIN Append(q, p) = 1 .. (Len(q) + 1)
                OBVIOUS
            <4>3. \A i \in DOMAIN q : Append(q, p)[i] = q[i] /\ i \in DOMAIN Append(q, p)
                OBVIOUS
            <4>4. Append(q, p)[Len(q) + 1] = p /\ Len(q) + 1 \in DOMAIN Append(q, p)
                OBVIOUS
            <4>5. \A i \in DOMAIN Append(q, p) : i \in DOMAIN q \/ i = Len(q) + 1
                BY <4>1, <4>2
            <4>. QED
                BY <4>3, <4>4, <4>5 DEF ToSet
        <3>. QED
            BY <2>4, <3>1, <3>2
    <2>6. Types'
        BY <1>1, <2>1, <2>2, <2>4 DEF IInv, Types
    <2>7. Sending'
        <3>1. \A q \in Notifiers \ {p} : BlockedAt(q)' = BlockedAt(q)
            BY <2>4, <2>5 DEF BlockedAt
        <3>2. BlockedAt(p)' \subseteq {s}
            BY <1>4, <2>4, <2>5 DEF BlockedAt
        <3>3. \A q \in Notifiers : \A t, u \in BlockedAt(q)' : t = u
            BY <3>1, <3>2 DEF IInv, Sending
        <3>4. \A q \in Notifiers : op'[q] = None => BlockedAt(q)' = {}
            BY <1>4, <2>1, <3>1 DEF IInv, Sending
        <3>. QED
            BY <2>1, <3>3, <3>4 DEF Sending
    <2>8. Receiving' /\ OnlyStaleBlocks'
        BY <1>1, <1>7, <2>1, <2>3, <2>4 DEF IInv, Receiving, OnlyStaleBlocks
    <2>. QED
        BY <2>2, <2>6, <2>7, <2>8 DEF IInv
<1>. QED
    BY <1>5, <1>6, <1>7

(* PopAbort keeps the invariant.                                           *)
LEMMA PopAbortIInv == ASSUME IInv, NEW p \in Notifiers, PopAbort(p) PROVE IInv'
<1>. DEFINE s == Head(waiting)
<1>1. /\ cpu = p /\ waiting # <<>> /\ waiting' = Tail(waiting)
      /\ older' = older \cap (Blocked' \X Blocked') /\ UNCHANGED <<senders, op, cpu>>
    BY DEF PopAbort
<1>2. /\ waiting \in Seq(Syncs)
      /\ state \in [Syncs -> {"idle", "blocked", "woken", "dropped"}]
    BY DEF IInv, Types
<1>3. s \in Syncs
    BY <1>1, <1>2, ListPops
<1>4. /\ state' \in [Syncs -> {"idle", "blocked", "woken", "dropped"}]
      /\ \A t \in Syncs \ {s} : state'[t] = state[t]
      /\ state'[s] # "blocked"
      /\ closed \subseteq closed' /\ closed' \subseteq Syncs
      /\ panic' \in BOOLEAN
    <2>1. CASE s \in closed \/ senders[s] # <<>>
        <3>1. panic' = TRUE /\ UNCHANGED <<state, closed>>
            BY <2>1 DEF PopAbort
        <3>2. state[s] # "blocked"
            BY <1>3, <2>1 DEF IInv, Receiving
        <3>. QED
            BY <1>2, <3>1, <3>2 DEF IInv, Types
    <2>2. CASE ~ (s \in closed \/ senders[s] # <<>>)
        <3>1. /\ closed' = closed \cup {s} /\ panic' = panic
              /\ state' = [state EXCEPT ![s] = IF @ = "blocked" THEN "woken" ELSE @]
            BY <2>2 DEF PopAbort
        <3>. QED
            BY <1>2, <1>3, <3>1 DEF IInv, Types
    <2>. QED
        BY <2>1, <2>2
<1>5. /\ waiting' \in Seq(Syncs) /\ Len(waiting') <= MaxWaiting
      /\ Listing' /\ Sorted' /\ NoForgottenWaiter'
    BY <1>1, <1>4, PopKeepsList
<1>6. Types'
    BY <1>1, <1>4, <1>5 DEF IInv, Types
<1>7. Sending'
    BY <1>1 DEF IInv, Sending, BlockedAt
<1>8. Receiving'
    <2>1. closed' \subseteq closed \cup {s}
        BY DEF PopAbort
    <2>. QED
        BY <1>1, <1>4, <2>1 DEF IInv, Receiving
<1>9. OnlyStaleBlocks'
    BY <1>1, <1>4 DEF IInv, OnlyStaleBlocks
<1>. QED
    BY <1>5, <1>6, <1>7, <1>8, <1>9 DEF IInv

(* Every step keeps it.                                                    *)
LEMMA NextIInv == IInv /\ [Next]_vars => IInv'
<1>. SUFFICES ASSUME IInv, [Next]_vars PROVE IInv'
    OBVIOUS
<1>1. CASE \E s \in Syncs : Wait(s)
    BY <1>1, WaitIInv
<1>2. CASE \E s \in Syncs : Return(s) \/ Timeout(s) \/ Drop(s)
    BY <1>2, ReturnIInv
<1>3. CASE \E p \in Notifiers : \/ \E what \in {"one", "all", "abort"} : Notify(p, what)
                                \/ Finish(p) \/ Resume(p)
    BY <1>3, TurnIInv
<1>4. CASE \E p \in Notifiers : PopExpired(p)
    BY <1>4, PopExpiredIInv
<1>5. CASE \E p \in Notifiers : PopSend(p)
    BY <1>5, PopSendIInv
<1>6. CASE \E p \in Notifiers : PopAbort(p)
    BY <1>6, PopAbortIInv
<1>7. CASE UNCHANGED vars
    BY <1>7 DEF vars, IInv, Types, Sending, BlockedAt, Receiving, Listing, Sorted, Forever,
                NoForgottenWaiter, OnlyStaleBlocks
<1>. QED
    BY <1>1, <1>2, <1>3, <1>4, <1>5, <1>6, <1>7 DEF Next, Run

(* So it holds always.                                                     *)
LEMMA Invariance == Spec => []IInv
<1>. QED
    BY InitIInv, NextIInv, PTL DEF Spec

----------------------------------------------------------------------------

(* Whoever is blocked in wait has an entry that a notification reaches; a  *)
(* notifier is blocked in one send at most, and only at a Sync whose waits *)
(* have a timeout (or whose channel is done): the waits of Conditional     *)
(* without a timeout never cost a notifier anything.                       *)
THEOREM WaitersAreReachable == Spec => []WaitersReachable
<1>1. IInv => WaitersReachable
    <2>. SUFFICES ASSUME IInv PROVE WaitersReachable
        OBVIOUS
    <2>1. ASSUME NEW p \in Notifiers PROVE Cardinality(BlockedAt(p)) <= 1
        <3>1. CASE BlockedAt(p) = {}
            BY <3>1, FS_EmptySet
        <3>2. CASE BlockedAt(p) # {}
            <4>1. PICK s : BlockedAt(p) = {s}
                BY <3>2 DEF IInv, Sending
            <4>. QED
                BY <4>1, FS_Singleton
        <3>. QED
            BY <3>1, <3>2
    <2>2. TypeOK
        BY <2>1 DEF IInv, Types, Sending, TypeOK
    <2>. QED
        BY <2>2 DEF IInv, WaitersReachable
<1>. QED
    BY <1>1, Invariance, PTL

(* Of two waits without a timeout the one that began first is woken first, *)
(* by notifyOne, notify or abort, whatever stale entries are between them. *)
THEOREM OldestIsFirst == Spec => OldestFirst
<1>. DEFINE Order ==
        \A s, t \in Syncs \ (Timed \cup closed) :
            (/\ state[s] = "blocked" /\ state'[s] = "woken"
             /\ state[t] = "blocked" /\ state'[t] = "blocked")
            => <<s, t>> \in older
<1>1. ASSUME IInv, [Next]_vars PROVE [Order]_vars
    <2>. SUFFICES ASSUME NEW s \in Forever, NEW t \in Forever,
                         state[s] = "blocked", state'[s] = "woken",
                         state[t] = "blocked", state'[t] = "blocked"
                  PROVE  <<s, t>> \in older
        BY DEF Forever
    <2>1. waiting # <<>> /\ s = Head(waiting)
        <3>0. s \in Syncs /\ state \in [Syncs -> {"idle", "blocked", "woken", "dropped"}]
            BY <1>1 DEF IInv, Types, Forever
        <3>1. CASE \E r \in Syncs : Wait(r) \/ Return(r) \/ Timeout(r) \/ Drop(r)
            BY <3>0, <3>1 DEF Wait, Return, Timeout, Drop
        <3>2. CASE \E p \in Notifiers :
                      \/ \E what \in {"one", "all", "abort"} : Notify(p, what)
                      \/ Finish(p) \/ Resume(p) \/ PopExpired(p)
            BY <3>2 DEF Notify, Finish, Resume, PopExpired
        <3>3. CASE \E p \in Notifiers : PopSend(p) \/ PopAbort(p)
            BY <3>0, <3>3 DEF PopSend, PopAbort
        <3>4. CASE UNCHANGED vars
            BY <3>4 DEF vars
        <3>. QED
            BY <1>1, <3>1, <3>2, <3>3, <3>4 DEF Next, Run
    <2>2. waiting \in Seq(Syncs) /\ s # t
        BY <1>1 DEF IInv, Types
    <2>3. 1 \in DOMAIN waiting /\ waiting[1] = s
        BY <2>1, <2>2
    <2>4. PICK j \in DOMAIN waiting : waiting[j] = t
        BY <1>1 DEF IInv, NoForgottenWaiter, ToSet, Forever
    <2>5. 1 < j
        BY <2>2, <2>3, <2>4
    <2>. QED
        BY <1>1, <2>3, <2>4, <2>5 DEF IInv, Sorted
<1>. QED
    BY <1>1, Invariance, PTL DEF Spec, OldestFirst

==============================================================================
