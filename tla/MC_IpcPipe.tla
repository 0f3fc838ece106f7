----------------------------- MODULE MC_IpcPipe ------------------------------
(* IpcPipe for TLC: a message without a body and one of two chunks; one    *)
(* sender sends twice, the other one once.                                 *)
EXTENDS IpcPipe

MCChunks == [k \in {"ping", "get"} |-> IF k = "ping" THEN 0 ELSE 2]
MCMaxSends == LET twice == CHOOSE s \in Senders : TRUE
              IN  [s \in Senders |-> IF s = twice THEN 2 ELSE 1]
==============================================================================
