--------------------------- MODULE MCSessionRegistry ---------------------------
\* SessionRegistry with streams and sessions that are interchangeable.
EXTENDS SessionRegistry, TLC

Interchangeable == Permutations(Streams) \cup Permutations(Sessions) \cup Permutations(Sizes)

================================================================================
