--------------------------- MODULE MCCheckpointStore ---------------------------
\* CheckpointStore with two sidecar processes, one of them with two threads.
EXTENDS CheckpointStore, TLC

CONSTANTS t1, t2, t3, p1, p2

MCThreads == {t1, t2, t3}

MCProcesses == {p1, p2}

MCProcessOf == t1 :> p1 @@ t2 :> p1 @@ t3 :> p2

================================================================================
