--------------------------- MODULE MCAnalysisJobs ---------------------------
(* Instances of AnalysisJobs for TLC: every job belongs to one user and is  *)
(* run by one queue.                                                        *)
EXTENDS AnalysisJobs

CONSTANTS j1, j2, u1, sync

OneJob  == {j1}
TwoJobs == {j1, j2}

SameOwner == [j \in Job |-> u1]
SameQueue == [j \in Job |-> sync]
=============================================================================
