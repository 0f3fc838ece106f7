---------------------------- MODULE MC_IpcGather -----------------------------
(* IpcGather for TLC: three workers. The first gathers and, at any time of  *)
(* the gather, gets from the second one.                                    *)
EXTENDS IpcGather

MCOwner  == [r \in Requests |-> 1]
MCTarget == [r \in Requests |-> IF r = "get" THEN 2 ELSE Everyone]
==============================================================================
