---------------------------- MODULE HttpExchange -----------------------------
(***************************************************************************)
(* What a connection of the HTTP server promises its client: requests are  *)
(* answered in the order in which they were sent, each at most once; a     *)
(* client that waits for the answer before it sends the next request never *)
(* gets one that belongs to another request; a failure that belongs to no  *)
(* request (0) is the last thing the client hears.                         *)
(***************************************************************************)
EXTENDS Integers, Sequences, SequencesExt

CONSTANT Requests   \* the numbers of the requests, from 1 on

VARIABLES waits,     \* the client waits for every answer
          answered,  \* the requests answered, in the order of the answers
          open       \* the connection is open

vars == <<waits, answered, open>>

LastAnswered == IF answered = <<>> THEN 0 ELSE Last(answered)

Init == waits \in BOOLEAN /\ answered = <<>> /\ open \in BOOLEAN

(* A request is answered; after the answer the connection may be closed.   *)
Answer(r) == /\ open
             /\ IF waits THEN r = LastAnswered + 1 ELSE r > LastAnswered
             /\ answered' = Append(answered, r)
             /\ open' \in BOOLEAN
             /\ UNCHANGED waits

Fail == open /\ open' = FALSE /\ answered' = Append(answered, 0) /\ UNCHANGED waits

Close == open /\ open' = FALSE /\ UNCHANGED <<waits, answered>>

Next == Fail \/ Close \/ \E r \in Requests : Answer(r)

Spec == Init /\ [][Next]_vars
==============================================================================
