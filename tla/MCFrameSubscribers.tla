-------------------------- MODULE MCFrameSubscribers --------------------------
\* FrameSubscribers with outputs that cut sequences after the start and after a parameter,
\* enter the alternate screen again while it is active, and leave it.  Outside of a
\* sequence, a parameter is a line of text.
EXTENDS FrameSubscribers

CONSTANTS r1, r2

MCChunks == {<<"start">>, <<"alternate">>, <<"alternate", "reset">>,
             <<"alternate", "set", "text", "start">>}

Interchangeable == Permutations(Requests) \cup Permutations(Subscribers)
================================================================================
