-------------------------- MODULE MCCheckpointWorker --------------------------
\* CheckpointWorker for two sessions: either may be the one that is replaced, and
\* one of them delivers twice.
EXTENDS CheckpointWorker

CONSTANTS g1, g2

MCLastOutput == [g \in Generations |-> IF g = g1 THEN 2 ELSE 1]
================================================================================
