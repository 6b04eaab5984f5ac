-------------------------- MODULE MCStatusClients ---------------------------
(* Instances of StatusClients for TLC: one job, streamed and awaited.       *)
EXTENDS StatusClients

CONSTANTS j1, u1, sync

OneJob    == {j1}
SameOwner == [j \in Job |-> u1]
SameQueue == [j \in Job |-> sync]
=============================================================================
