-------------------------- MODULE MCWatchApprovals --------------------------
EXTENDS WatchApprovals

\* Every step belongs to the one job.
MCJobOf == [s \in Steps |-> CHOOSE j \in Jobs : TRUE]
=============================================================================
