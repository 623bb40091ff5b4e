------------------------- MODULE SessionRegistryProofs -------------------------
(***************************************************************************)
(* For every set of streams, sessions and sizes: the registry's types, and *)
(* who keeps its entry.  A mirror arc outlives the stream it was made for, *)
(* and an entry is found again by its session alone; IInv says which arcs  *)
(* are in use, whose consumer the entry has, and what an entry of the      *)
(* newest session can have been lost to.                                   *)
(*                                                                         *)
(* Then exactness, for any interleaving of ensureSession calls, consumers, *)
(* evictions and commands: a mirror draws its stream's output exactly,     *)
(* unless another consumer wrote to it, to its atomic, or took its drop    *)
(* flag.                                                                   *)
(***************************************************************************)
EXTENDS SessionRegistry, SequenceTheorems, TLAPS

\* The caller has not given its mirror a place yet.
Fresh(c) == stream[c].at \in {"idle", "subscribe", "replace"}

\* The stream of c is open, so that its session number is final.
Open(c) == stream[c].at \notin {"idle", "subscribe"}

Live(arc) == drawnFor[arc] # None /\ ~Fresh(arc)

\* A mirror that is drawn for nobody was left behind by a replacement; no thread and
\* no entry has it.
ArcInv ==
    /\ registry # None => Live(registry.mirror)
    /\ \A c \in Streams :
        /\ Fresh(c) => stream[c].arc = c /\ drawnFor[c] # None
        /\ ~Fresh(c) /\ ~At(c, "done") => Live(stream[c].arc)

\* The consumer of the entry's stream runs, and will find the entry to be its own.
ServedInv ==
    registry # None =>
        /\ Consuming(registry.progress) \/ At(registry.progress, "evict")
        /\ registry.session = stream[registry.progress].session

\* The newest session's entry can only have been evicted by an equal.
NewestInv ==
    latest # None /\ Consuming(latest) =>
        \/ Owns(latest)
        \/ \E d \in Streams \ {latest} : Open(d) /\ stream[d].session = stream[latest].session

IInv == TypeOK /\ ArcInv /\ ServedInv /\ NewestInv

--------------------------------------------------------------------------------
LEMMA InitIInv == Init => IInv
<1> SUFFICES ASSUME Init PROVE IInv
  OBVIOUS
<1> USE RegistryAssumption DEF Init
<1>1. TypeOK
  <2>1. 0 \in Sequence
    BY DEF Sequence
  <2>2. PICK size \in Sizes :
          /\ mirror = [c \in Streams |-> [chunks |-> <<>>, size |-> size]]
          /\ gridSize = [c \in Streams |-> size]
    OBVIOUS
  <2>3. mirror \in [Streams -> [chunks: Seq(Chunk), size: Sizes]]
    <3>1. <<>> \in Seq(Chunk)
      OBVIOUS
    <3>2. [chunks |-> <<>>, size |-> size] \in [chunks: Seq(Chunk), size: Sizes]
      BY <3>1
    <3>3. QED BY <2>2, <3>2, Zenon
  <2>4. gridSize \in [Streams -> Sizes]
    BY <2>2
  <2>5. stream \in [Streams -> Thread]
    BY <2>1 DEF Thread, ControlPoint
  <2>6. QED BY <2>1, <2>3, <2>4, <2>5, Zenon DEF TypeOK
<1>2. ArcInv
  BY DEF ArcInv, Live, Fresh, At
<1>3. ServedInv /\ NewestInv
  BY DEF ServedInv, NewestInv
<1>4. QED BY <1>1, <1>2, <1>3 DEF IInv

\* What a thread looks like after its handler, or its life, is over.
LEMMA ThreadsEnd ==
    ASSUME NEW thread \in Thread, NEW c \in Streams
    PROVE  /\ Returned(thread, c) \in Thread
           /\ Ended(thread, c) \in Thread
           /\ [Returned(thread, c) EXCEPT !.told = TRUE] \in Thread
           /\ Returned(thread, c).at = "consume"
           /\ Returned(thread, c).session = thread.session
           /\ Returned(thread, c).arc = thread.arc
           /\ Ended(thread, c).at = "done"
           /\ Ended(thread, c).session = thread.session
<1> USE RegistryAssumption DEF Thread
<1>1. 0 \in Sequence /\ "consume" \in ControlPoint /\ "done" \in ControlPoint
  BY DEF Sequence, ControlPoint
<1>2. /\ Returned(thread, c) \in Thread
      /\ Returned(thread, c).at = "consume"
      /\ Returned(thread, c).session = thread.session
      /\ Returned(thread, c).arc = thread.arc
  BY <1>1 DEF Returned
<1>3. ASSUME NEW returned \in Thread
      PROVE  /\ [returned EXCEPT !.told = TRUE] \in Thread
             /\ [returned EXCEPT !.told = TRUE].at = returned.at
             /\ [returned EXCEPT !.told = TRUE].session = returned.session
             /\ [returned EXCEPT !.told = TRUE].arc = returned.arc
  OBVIOUS
<1>4. ASSUME NEW returned \in Thread
      PROVE  LET ended == [returned EXCEPT !.at = "done", !.told = FALSE, !.arc = c,
                              !.signal = c, !.size = c, !.delivered = 0]
             IN  /\ ended \in Thread
                 /\ ended.at = "done"
                 /\ ended.session = returned.session
  BY <1>1
<1>5. /\ Ended(thread, c) \in Thread
      /\ Ended(thread, c).at = "done"
      /\ Ended(thread, c).session = thread.session
  BY <1>2, <1>4 DEF Ended
<1>6. QED BY <1>2, <1>3, <1>5

--------------------------------------------------------------------------------
\* Each action preserves the types; the caller's first.
LEMMA CallerTypes ==
    ASSUME TypeOK, NEW c \in Streams, Caller(c)
    PROVE  TypeOK'
<1> USE RegistryAssumption DEF TypeOK, history
<1>0. stream[c] \in Thread /\ mirror[c] \in [chunks: Seq(Chunk), size: Sizes]
  OBVIOUS
<1>1. ASSUME NEW s \in Sessions, NEW size \in Sizes, NEW restored \in BOOLEAN,
             NEW next \in ControlPoint, Opened(c, s, size, restored, next)
      PROVE  /\ stream' \in [Streams -> Thread]
             /\ mirror' \in [Streams -> [chunks: Seq(Chunk), size: Sizes]]
             /\ gridSize' \in [Streams -> Sizes]
  <2>1. [stream[c] EXCEPT !.at = next, !.session = s, !.restored = restored, !.grid = size]
            \in Thread
    BY <1>0, <1>1 DEF Thread
  <2>2. [mirror[c] EXCEPT !.size = size] \in [chunks: Seq(Chunk), size: Sizes]
    BY <1>0
  <2>3. QED BY <1>1, <2>1, <2>2 DEF Opened
<1>2. ASSUME NEW next \in ControlPoint
      PROVE  [stream EXCEPT ![c].at = next] \in [Streams -> Thread]
  <2>1. [stream[c] EXCEPT !.at = next] \in Thread
    BY <1>0 DEF Thread
  <2>2. QED BY <2>1
<1>3. "subscribe" \in ControlPoint /\ "replace" \in ControlPoint /\ "insert" \in ControlPoint
      /\ "continue" \in ControlPoint /\ "consume" \in ControlPoint
  BY DEF ControlPoint
<1>4. CASE EnsureListed(c)
  BY <1>2, <1>3, <1>4 DEF EnsureListed, Goto, Concurrent
<1>5. CASE EnsureFails(c)
  BY <1>0, <1>5, ThreadsEnd DEF EnsureFails
<1>6. ASSUME NEW s \in Sessions, NEW size \in Sizes, Subscribe(c, s, size)
      PROVE  TypeOK'
  BY <1>1, <1>3, <1>6 DEF Subscribe
<1>7. ASSUME NEW s \in Sessions, NEW size \in Sizes, NEW restored \in BOOLEAN,
             EnsurePrepared(c, s, size, restored)
      PROVE  TypeOK'
  BY <1>1, <1>3, <1>7 DEF EnsurePrepared, Concurrent
<1>8. CASE Replace(c)
  <2>1. CASE registry = None
    <3>1. stream' \in [Streams -> Thread] /\ UNCHANGED <<mirror, drawnFor>>
      <4>1. Goto(c, "insert") /\ UNCHANGED <<mirror, drawnFor>>
        BY <1>8, <2>1 DEF Replace
      <4>2. QED BY <1>2, <1>3, <4>1 DEF Goto
    <3>2. UNCHANGED <<registry, progress, signal, gridSize, request, strays, overlap, raced,
                      latest>>
      BY <1>8 DEF Replace
    <3>3. QED BY <3>1, <3>2
  <2>2. CASE registry # None
    <3>1. registry.mirror \in Streams
      BY <2>2 DEF Entry
    <3>2. stream' \in [Streams -> Thread]
      <4>1. [stream[c] EXCEPT !.at = "continue", !.arc = registry.mirror] \in Thread
        BY <1>0, <1>3, <3>1 DEF Thread
      <4>2. stream' = [stream EXCEPT ![c].at = "continue", ![c].arc = registry.mirror]
        BY <1>8, <2>2 DEF Replace
      <4>3. QED BY <4>1, <4>2
    <3>3. mirror' \in [Streams -> [chunks: Seq(Chunk), size: Sizes]]
      <4>1. <<>> \in Seq(Chunk)
        OBVIOUS
      <4>2. [[mirror EXCEPT ![registry.mirror] = mirror[c]][c] EXCEPT !.chunks = <<>>]
                \in [chunks: Seq(Chunk), size: Sizes]
        BY <1>0, <3>1, <4>1
      <4>3. mirror' = [mirror EXCEPT ![registry.mirror] = mirror[c], ![c].chunks = <<>>]
        BY <1>8, <2>2 DEF Replace
      <4>4. QED BY <1>0, <3>1, <4>2, <4>3
    <3>4. drawnFor' \in [Streams -> Streams \cup {None}]
      <4>1. drawnFor' = [drawnFor EXCEPT ![registry.mirror] = c, ![c] = None]
        BY <1>8, <2>2 DEF Replace
      <4>2. QED BY <3>1, <4>1
    <3>5. UNCHANGED <<registry, progress, signal, gridSize, request, strays, overlap, raced,
                      latest>>
      BY <1>8 DEF Replace
    <3>6. QED BY <3>2, <3>3, <3>4, <3>5
  <2>3. QED BY <2>1, <2>2
<1>9. CASE Continue(c)
  <2>1. registry # None => registry.signal \in Streams /\ registry.size \in Streams
    BY DEF Entry
  <2>2. stream' \in [Streams -> Thread]
    BY <1>0, <1>3, <1>9, <2>1 DEF Continue, Thread
  <2>3. QED BY <1>9, <2>2 DEF Continue
<1>10. CASE Insert(c)
  <2>1. registry' \in Entry
    BY <1>0, <1>10 DEF Insert, Entry, Thread, Sequence
  <2>2. QED BY <1>2, <1>3, <1>10, <2>1 DEF Insert, Goto
<1>11. QED BY <1>4, <1>5, <1>6, <1>7, <1>8, <1>9, <1>10 DEF Caller

\* The consumer's.  What it marks as astray are streams, since its mirror is live.
LEMMA ConsumerTypes ==
    ASSUME TypeOK, ArcInv, NEW c \in Streams, Consumer(c)
    PROVE  TypeOK'
<1> USE RegistryAssumption DEF TypeOK, history
<1>0. /\ stream[c] \in Thread
      /\ stream[c].delivered \in Sequence /\ stream[c].arc \in Streams
      /\ stream[c].held \in Streams /\ stream[c].session \in Sessions
      /\ stream[c].grid \in Sizes
  BY DEF Thread
<1>1. ASSUME NEW next \in ControlPoint
      PROVE  [stream EXCEPT ![c].at = next] \in [Streams -> Thread]
  <2>1. [stream[c] EXCEPT !.at = next] \in Thread
    BY <1>0 DEF Thread
  <2>2. QED BY <2>1
<1>2. /\ "feed" \in ControlPoint /\ "publish" \in ControlPoint /\ "resize" \in ControlPoint
      /\ "announce" \in ControlPoint /\ "evict" \in ControlPoint
  BY DEF ControlPoint
<1>3. Owns(c) => /\ registry \in Entry
                 /\ registry.progress \in Streams /\ registry.signal \in Streams
                 /\ registry.size \in Streams /\ registry.drop \in BOOLEAN
  BY DEF Owns, Entry
<1>4. CASE Refuse(c) \/ End(c)
  <2>1. /\ Goto(c, "evict")
        /\ UNCHANGED <<registry, mirror, progress, signal, gridSize, request, history>>
    BY <1>4 DEF Refuse, End
  <2>2. stream' \in [Streams -> Thread]
    BY <1>1, <1>2, <2>1 DEF Goto
  <2>3. QED BY <2>1, <2>2
<1>5. CASE AdmitOutput(c)
  <2>1. stream[c].delivered + 1 \in Sequence /\ Owns(c)
    <3>1. stream[c].delivered < MaxSequence /\ Owns(c)
      BY <1>5 DEF AdmitOutput
    <3>2. QED BY <1>0, <3>1 DEF Sequence
  <2> DEFINE admitted == [stream[c] EXCEPT !.at = "feed",
                              !.delivered = stream[c].delivered + 1,
                              !.held = registry.progress, !.dropping = registry.drop]
  <2>2. admitted \in Thread
    BY <1>0, <1>2, <1>3, <2>1 DEF Thread
  <2>3. [registry EXCEPT !.drop = FALSE] \in Entry
    BY <1>3, <2>1 DEF Entry
  <2>4. stream' \in [Streams -> Thread]
    <3>1. stream' = [stream EXCEPT ![c] = admitted]
      BY <1>5 DEF AdmitOutput
    <3> HIDE DEF admitted
    <3>2. QED BY <2>2, <3>1
  <2>5. /\ registry' = [registry EXCEPT !.drop = FALSE]
        /\ strays' = IF registry.progress = c THEN strays ELSE strays \cup {registry.progress, c}
        /\ UNCHANGED <<mirror, progress, signal, gridSize, request, drawnFor, overlap, raced,
                       latest>>
    BY <1>5 DEF AdmitOutput
  <2>6. QED BY <1>3, <2>1, <2>3, <2>4, <2>5
<1>6. CASE Feed(c)
  <2>1. drawnFor[stream[c].arc] \in Streams
    BY <1>0, <1>6 DEF Feed, At, ArcInv, Fresh, Live
  <2>2. mirror' \in [Streams -> [chunks: Seq(Chunk), size: Sizes]]
    <3>1. mirror[stream[c].arc] \in [chunks: Seq(Chunk), size: Sizes]
      BY <1>0
    <3>2. <<stream[c].session, stream[c].delivered>> \in Chunk
      BY <1>0 DEF Chunk
    <3>3. Append(mirror[stream[c].arc].chunks, <<stream[c].session, stream[c].delivered>>)
              \in Seq(Chunk)
      BY <3>1, <3>2
    <3>4. [mirror[stream[c].arc] EXCEPT
              !.chunks = Append(@, <<stream[c].session, stream[c].delivered>>)]
            \in [chunks: Seq(Chunk), size: Sizes]
      BY <3>1, <3>3
    <3>5. \/ mirror' = mirror
          \/ mirror' = [mirror EXCEPT ![stream[c].arc].chunks =
                            Append(@, <<stream[c].session, stream[c].delivered>>)]
      BY <1>6 DEF Feed
    <3>6. QED BY <1>0, <3>4, <3>5
  <2>3. stream' \in [Streams -> Thread]
    BY <1>1, <1>2, <1>6 DEF Feed, Goto
  <2>4. progress' \in [Streams -> Sequence]
    BY <1>0, <1>6 DEF Feed
  <2>5. strays' \subseteq Streams
    BY <1>0, <1>6, <2>1 DEF Feed
  <2>6. UNCHANGED <<registry, signal, gridSize, request, drawnFor, overlap, raced, latest>>
    BY <1>6 DEF Feed
  <2>7. QED BY <2>2, <2>3, <2>4, <2>5, <2>6
<1>7. CASE Publish(c)
  <2>1. UNCHANGED <<mirror, progress, gridSize, request, drawnFor, strays, overlap, raced, latest>>
    BY <1>7 DEF Publish
  <2>2. CASE ~Owns(c)
    <3>1. Goto(c, "evict") /\ UNCHANGED <<registry, signal>>
      BY <1>7, <2>2 DEF Publish
    <3>2. stream' \in [Streams -> Thread]
      BY <1>1, <1>2, <3>1 DEF Goto
    <3>3. QED BY <2>1, <3>1, <3>2
  <2>3. CASE Owns(c)
    <3>1. /\ registry' = [registry EXCEPT !.source = stream[c].delivered]
          /\ signal' = [signal EXCEPT ![registry.signal] = stream[c].delivered]
          /\ stream' = [stream EXCEPT ![c] = Returned(@, c)]
      BY <1>7, <2>3 DEF Publish
    <3>2. registry' \in Entry
      BY <1>0, <1>3, <2>3, <3>1 DEF Entry
    <3>3. stream' \in [Streams -> Thread]
      BY <1>0, <3>1, ThreadsEnd
    <3>4. signal' \in [Streams -> Sequence]
      BY <1>0, <1>3, <2>3, <3>1
    <3>5. QED BY <2>1, <3>2, <3>3, <3>4
  <2>4. QED BY <2>2, <2>3
<1>8. ASSUME NEW grid \in Sizes, AdmitResize(c, grid)
      PROVE  TypeOK'
  <2>1. [stream[c] EXCEPT !.at = "resize", !.grid = grid, !.held = registry.size] \in Thread
    BY <1>0, <1>2, <1>3, <1>8 DEF AdmitResize, Thread
  <2>2. stream' \in [Streams -> Thread]
    BY <1>8, <2>1 DEF AdmitResize
  <2>3. QED BY <1>8, <2>2 DEF AdmitResize
<1>9. CASE ResizeMirror(c)
  <2>1. stream' \in [Streams -> Thread]
    BY <1>1, <1>2, <1>9 DEF ResizeMirror, Goto
  <2>2. [mirror[stream[c].arc] EXCEPT !.size = stream[c].grid]
            \in [chunks: Seq(Chunk), size: Sizes]
    BY <1>0
  <2>3. mirror' \in [Streams -> [chunks: Seq(Chunk), size: Sizes]]
    BY <1>0, <1>9, <2>2 DEF ResizeMirror
  <2>4. QED BY <1>9, <2>1, <2>3 DEF ResizeMirror
<1>10. CASE AnnounceSize(c)
  <2>1. ASSUME NEW d \in Streams
        PROVE  [stream[d] EXCEPT !.told = @ /\ stream[d].size # stream[c].held] \in Thread
    <3>1. (stream[d].told /\ stream[d].size # stream[c].held) \in BOOLEAN
      OBVIOUS
    <3>2. stream[d] \in Thread
      OBVIOUS
    <3>3. QED BY <3>1, <3>2 DEF Thread
  <2>2. [Returned(stream[c], c) EXCEPT !.told = TRUE] \in Thread
    BY <1>0, ThreadsEnd
  <2>3. stream' \in [Streams -> Thread]
    BY <1>10, <2>1, <2>2 DEF AnnounceSize
  <2>4. gridSize' \in [Streams -> Sizes]
    BY <1>0, <1>10 DEF AnnounceSize
  <2>5. QED BY <1>10, <2>3, <2>4 DEF AnnounceSize
<1>11. CASE Gap(c)
  <2>1. stream[c].delivered + 1 \in Sequence
    BY <1>0, <1>11 DEF Gap, Sequence
  <2>2. [stream[c] EXCEPT !.delivered = stream[c].delivered + 1, !.gapped = TRUE] \in Thread
    BY <1>0, <2>1 DEF Thread
  <2>3. stream' \in [Streams -> Thread]
    BY <1>11, <2>2 DEF Gap
  <2>4. registry' \in Entry
    BY <1>3, <1>11, <2>1 DEF Gap, Entry
  <2>5. signal' \in [Streams -> Sequence]
    BY <1>3, <1>11, <2>1 DEF Gap
  <2>6. QED BY <1>11, <2>3, <2>4, <2>5 DEF Gap
<1>12. CASE Reopened(c)
  <2>1. [stream[c] EXCEPT !.at = "evict", !.gapped = TRUE] \in Thread
    BY <1>0, <1>2 DEF Thread
  <2>2. stream' \in [Streams -> Thread]
    BY <1>12, <2>1 DEF Reopened
  <2>3. registry' \in Entry
    BY <1>3, <1>12 DEF Reopened, Entry
  <2>4. QED BY <1>12, <2>2, <2>3 DEF Reopened
<1>13. CASE Evict(c)
  <2>1. stream' \in [Streams -> Thread]
    BY <1>0, <1>13, ThreadsEnd DEF Evict
  <2>2. QED BY <1>13, <2>1 DEF Evict
<1>14. QED BY <1>4, <1>5, <1>6, <1>7, <1>8, <1>9, <1>10, <1>11, <1>12, <1>13 DEF Consumer

\* And the commands'.
LEMMA TypeStep ==
    ASSUME TypeOK, ArcInv, [Next]_vars
    PROVE  TypeOK'
<1> USE RegistryAssumption
<1>1. ASSUME NEW c \in Streams, Caller(c) \/ Consumer(c) PROVE TypeOK'
  BY <1>1, CallerTypes, ConsumerTypes
<1> USE DEF TypeOK, history
<1>2. ASSUME NEW grid \in Sizes, Resize(grid) PROVE TypeOK'
  <2>1. registry.mirror \in Streams
    BY <1>2 DEF Resize, Entry
  <2>2. [mirror[registry.mirror] EXCEPT !.size = grid] \in [chunks: Seq(Chunk), size: Sizes]
    BY <2>1
  <2>3. mirror' \in [Streams -> [chunks: Seq(Chunk), size: Sizes]]
    BY <1>2, <2>1, <2>2 DEF Resize
  <2>4. QED BY <1>2, <2>3 DEF Resize
<1>3. ASSUME NEW after \in Awaited, FrameRequest(after) PROVE TypeOK'
  <2>1. request' \in Request
    BY <1>3 DEF FrameRequest, Entry, Request
  <2>2. QED BY <1>3, <2>1 DEF FrameRequest
<1>4. CASE WaitForSequence
  <2>1. request' \in Request
    BY <1>4 DEF WaitForSequence, Request
  <2>2. QED BY <1>4, <2>1 DEF WaitForSequence
<1>5. CASE Answered
  BY <1>5 DEF Answered
<1>6. CASE UNCHANGED vars
  BY <1>6 DEF vars
<1>7. QED BY <1>1, <1>2, <1>3, <1>4, <1>5, <1>6 DEF Next

--------------------------------------------------------------------------------
\* What a step does to the threads, the entry and the owner of each mirror.

\* Only c's thread goes on.
Moves(c, from, to) ==
    /\ stream[c].at \in from /\ stream'[c].at \in to
    /\ \A d \in Streams \ {c} : /\ stream'[d].at = stream[d].at
                                /\ stream'[d].session = stream[d].session
                                /\ stream'[d].arc = stream[d].arc

SameSession(c) == stream'[c].session = stream[c].session
SameArc(c) == stream'[c].arc = stream[c].arc
SameEntry == /\ registry' = None <=> registry = None
             /\ registry # None => /\ registry'.session = registry.session
                                   /\ registry'.mirror = registry.mirror
                                   /\ registry'.progress = registry.progress

LEMMA CallerMoves ==
    ASSUME TypeOK, NEW c \in Streams, Caller(c)
    PROVE  \/ /\ Moves(c, {"idle"}, {"subscribe", "replace"})
              /\ SameArc(c)
              /\ UNCHANGED <<registry, drawnFor, latest>>
           \/ /\ Moves(c, {"subscribe"}, {"insert", "done"})
              /\ SameArc(c) \/ stream'[c].at = "done"
              /\ UNCHANGED <<registry, drawnFor, latest>>
           \/ /\ Moves(c, {"replace"}, {"insert"})
              /\ SameSession(c) /\ SameArc(c)
              /\ UNCHANGED <<registry, drawnFor, latest>>
           \/ /\ Moves(c, {"replace"}, {"continue"})
              /\ SameSession(c)
              /\ registry # None
              /\ stream'[c].arc = registry.mirror
              /\ drawnFor' = [drawnFor EXCEPT ![registry.mirror] = c, ![c] = None]
              /\ UNCHANGED <<registry, latest>>
           \/ /\ Moves(c, {"continue"}, {"insert"})
              /\ SameSession(c) /\ SameArc(c)
              /\ UNCHANGED <<registry, drawnFor, latest>>
           \/ /\ Moves(c, {"insert"}, {"consume"})
              /\ SameSession(c) /\ SameArc(c)
              /\ registry' # None
              /\ registry'.session = stream[c].session
              /\ registry'.mirror = stream[c].arc
              /\ registry'.progress = c
              /\ latest' = c
              /\ UNCHANGED drawnFor
<1> USE DEF Moves, SameSession, SameArc
<1>0. stream \in [Streams -> Thread] /\ stream[c] \in Thread
  BY DEF TypeOK
<1>1. CASE EnsureListed(c)
  BY <1>0, <1>1 DEF EnsureListed, At, Goto, Thread
<1>2. CASE EnsureFails(c)
  BY <1>0, <1>2, ThreadsEnd DEF EnsureFails, At, history
<1>3. ASSUME NEW s \in Sessions, NEW size \in Sizes, Subscribe(c, s, size)
      PROVE  /\ Moves(c, {"subscribe"}, {"insert"})
             /\ SameArc(c)
             /\ UNCHANGED <<registry, drawnFor, latest>>
  BY <1>0, <1>3 DEF Subscribe, Opened, At, history, Thread
<1>4. ASSUME NEW s \in Sessions, NEW size \in Sizes, NEW restored \in BOOLEAN,
             EnsurePrepared(c, s, size, restored)
      PROVE  /\ Moves(c, {"idle"}, {"replace"})
             /\ SameArc(c)
             /\ UNCHANGED <<registry, drawnFor, latest>>
  BY <1>0, <1>4 DEF EnsurePrepared, Opened, At, Thread
<1>5. CASE Replace(c)
  <2>1. CASE registry = None
    <3>1. At(c, "replace") /\ Goto(c, "insert") /\ UNCHANGED <<registry, drawnFor, latest>>
      BY <1>5, <2>1 DEF Replace
    <3>2. QED BY <1>0, <3>1 DEF At, Goto, Thread
  <2>2. CASE registry # None
    <3>1. /\ At(c, "replace")
          /\ stream' = [stream EXCEPT ![c].at = "continue", ![c].arc = registry.mirror]
          /\ drawnFor' = [drawnFor EXCEPT ![registry.mirror] = c, ![c] = None]
          /\ UNCHANGED <<registry, latest>>
      BY <1>5, <2>2 DEF Replace
    <3>2. QED BY <1>0, <2>2, <3>1 DEF At, Thread
  <2>3. QED BY <2>1, <2>2
<1>6. CASE Continue(c)
  BY <1>0, <1>6 DEF Continue, At, history, Thread
<1>7. CASE Insert(c)
  <2>1. registry' # None
    <3>1. registry' \in Entry
      BY <1>0, <1>7, RegistryAssumption DEF Insert, Entry, Thread, Sequence
    <3>2. QED BY <3>1, NoneAssumption
  <2>2. QED BY <1>0, <1>7, <2>1 DEF Insert, At, Goto, Thread
<1>8. QED BY <1>1, <1>2, <1>3, <1>4, <1>5, <1>6, <1>7 DEF Caller

Consumes == {"consume", "feed", "publish", "resize", "announce"}

LEMMA ConsumerMoves ==
    ASSUME TypeOK, NEW c \in Streams, Consumer(c)
    PROVE  /\ SameSession(c)
           /\ UNCHANGED <<drawnFor, latest>>
           /\ \/ /\ Moves(c, Consumes, Consumes \cup {"evict"})
                 /\ SameArc(c)
                 /\ SameEntry
              \/ /\ Moves(c, {"evict"}, {"done"})
                 /\ registry' = IF Owns(c) THEN None ELSE registry
<1> USE DEF Moves, SameSession, SameArc, SameEntry, Consumes, At, Goto, history
<1>0. stream \in [Streams -> Thread] /\ stream[c] \in Thread
  BY DEF TypeOK
<1>1. Owns(c) => registry \in Entry /\ registry # None
  BY DEF Owns, TypeOK
<1>2. ASSUME NEW entry \in Entry PROVE entry # None
  BY NoneAssumption
<1>3. CASE Refuse(c) \/ End(c)
  BY <1>0, <1>3 DEF Refuse, End, Thread
<1>4. CASE AdmitOutput(c)
  <2>1. [registry EXCEPT !.drop = FALSE] \in Entry
    BY <1>1, <1>4 DEF AdmitOutput, Entry
  <2>2. SameEntry
    BY <1>1, <1>2, <1>4, <2>1 DEF AdmitOutput, Entry
  <2>3. QED BY <1>0, <1>4, <2>2 DEF AdmitOutput, Thread
<1>5. CASE Feed(c)
  BY <1>0, <1>5 DEF Feed, Thread
<1>6. CASE Publish(c)
  <2>1. stream[c].at = "publish" /\ UNCHANGED <<drawnFor, latest>>
    BY <1>6 DEF Publish
  <2>2. CASE ~Owns(c)
    <3>1. Goto(c, "evict") /\ UNCHANGED registry
      BY <1>6, <2>2 DEF Publish
    <3>2. QED BY <1>0, <2>1, <3>1 DEF Thread
  <2>3. CASE Owns(c)
    <3>1. /\ registry' = [registry EXCEPT !.source = stream[c].delivered]
          /\ stream' = [stream EXCEPT ![c] = Returned(@, c)]
      BY <1>6, <2>3 DEF Publish
    <3>2. registry' \in Entry
      BY <1>0, <1>1, <2>3, <3>1 DEF Entry, Thread
    <3>3. SameEntry
      BY <1>1, <1>2, <2>3, <3>1, <3>2 DEF Entry
    <3>4. QED BY <1>0, <2>1, <3>1, <3>3, ThreadsEnd
  <2>4. QED BY <2>2, <2>3
<1>7. ASSUME NEW grid \in Sizes, AdmitResize(c, grid)
      PROVE  /\ SameSession(c)
             /\ UNCHANGED <<drawnFor, latest>>
             /\ Moves(c, Consumes, Consumes)
             /\ SameArc(c)
             /\ UNCHANGED registry
  BY <1>0, <1>7 DEF AdmitResize, Thread
<1>8. CASE ResizeMirror(c)
  BY <1>0, <1>8 DEF ResizeMirror, Thread
<1>9. CASE AnnounceSize(c)
  <2>1. stream'[c] = [Returned(stream[c], c) EXCEPT !.told = TRUE]
    BY <1>9 DEF AnnounceSize
  <2>2. \A d \in Streams \ {c} :
            stream'[d] = [stream[d] EXCEPT !.told = @ /\ stream[d].size # stream[c].held]
    BY <1>9 DEF AnnounceSize
  <2>3. \A d \in Streams : stream[d] \in Thread
    BY <1>0
  <2>4. /\ stream'[c].at = "consume"
        /\ SameSession(c) /\ SameArc(c)
    <3>1. Returned(stream[c], c) \in Thread
      BY <1>0, ThreadsEnd
    <3>2. QED BY <1>0, <2>1, <3>1, ThreadsEnd DEF Thread
  <2>5. QED BY <1>9, <2>2, <2>3, <2>4 DEF AnnounceSize, Thread
<1>10. CASE Gap(c)
  <2>1. SameEntry
    <3>1. registry' = [registry EXCEPT !.gaps = TRUE, !.source = stream[c].delivered + 1]
      BY <1>10 DEF Gap
    <3>2. stream[c].delivered + 1 \in Sequence
      BY <1>0, <1>10, RegistryAssumption DEF Gap, Thread, Sequence
    <3>3. Owns(c)
      BY <1>10 DEF Gap
    <3>4. registry' \in Entry
      BY <1>1, <3>1, <3>2, <3>3 DEF Entry
    <3>5. QED BY <1>1, <1>2, <3>1, <3>3, <3>4 DEF Entry
  <2>2. QED BY <1>0, <1>10, <2>1 DEF Gap, Thread
<1>11. CASE Reopened(c)
  <2>1. [registry EXCEPT !.gaps = TRUE] \in Entry
    BY <1>1, <1>11 DEF Reopened, Entry
  <2>2. SameEntry
    BY <1>1, <1>2, <1>11, <2>1 DEF Reopened, Entry
  <2>3. QED BY <1>0, <1>11, <2>2 DEF Reopened, Thread
<1>12. CASE Evict(c)
  BY <1>0, <1>12, ThreadsEnd DEF Evict
<1>13. QED BY <1>3, <1>4, <1>5, <1>6, <1>7, <1>8, <1>9, <1>10, <1>11, <1>12 DEF Consumer

--------------------------------------------------------------------------------
\* The mirrors in use stay drawn for somebody.  A replacement leaves its own fresh
\* mirror behind, which nobody else can have by then.
LEMMA ArcStep ==
    ASSUME TypeOK, ArcInv, NEW c \in Streams, Caller(c) \/ Consumer(c)
    PROVE  ArcInv'
<1> USE RegistryAssumption DEF Moves, SameArc, Fresh, Live, At
<1>0. /\ registry # None => registry.mirror \in Streams
      /\ \A d \in Streams : stream[d].arc \in Streams
      /\ drawnFor \in [Streams -> Streams \cup {None}]
  BY DEF TypeOK, Entry, Thread
<1>1. ASSUME Moves(c, {"idle"}, {"subscribe", "replace"}), SameArc(c),
             UNCHANGED <<registry, drawnFor>>
      PROVE  ArcInv'
  BY <1>0, <1>1 DEF ArcInv
<1>2. ASSUME Moves(c, {"subscribe"}, {"insert", "done"}), SameArc(c) \/ stream'[c].at = "done",
             UNCHANGED <<registry, drawnFor>>
      PROVE  ArcInv'
  BY <1>0, <1>2 DEF ArcInv
<1>3. ASSUME Moves(c, {"replace"}, {"insert"}), SameArc(c), UNCHANGED <<registry, drawnFor>>
      PROVE  ArcInv'
  BY <1>0, <1>3 DEF ArcInv
<1>4. ASSUME Moves(c, {"replace"}, {"continue"}),
             registry # None,
             stream'[c].arc = registry.mirror,
             drawnFor' = [drawnFor EXCEPT ![registry.mirror] = c, ![c] = None],
             UNCHANGED registry
      PROVE  ArcInv'
  <2>1. Fresh(c) /\ registry.mirror # c /\ Live(registry.mirror)
    BY <1>4 DEF ArcInv
  <2>2. \A arc \in Streams : Live(arc) => arc # c /\ Live(arc)'
    BY <1>0, <1>4, <2>1
  <2>3. \A d \in Streams \ {c} : (Fresh(d) <=> Fresh(d)') /\ (At(d, "done") <=> At(d, "done")')
    BY <1>4
  <2>4. ASSUME NEW d \in Streams, Fresh(d)'
        PROVE  (stream[d].arc = d /\ drawnFor[d] # None)'
    <3>1. d # c /\ Fresh(d)
      BY <1>4, <2>3, <2>4
    <3>2. d # registry.mirror
      BY <2>1, <3>1
    <3>3. QED BY <1>0, <1>4, <3>1, <3>2 DEF ArcInv
  <2>5. ASSUME NEW d \in Streams, ~Fresh(d)', ~At(d, "done")'
        PROVE  Live(stream[d].arc)'
    <3>1. CASE d = c
      BY <1>0, <1>4, <2>1, <2>2, <3>1
    <3>2. CASE d # c
      <4>1. Live(stream[d].arc)
        BY <2>3, <2>5, <3>2 DEF ArcInv
      <4>2. stream'[d].arc = stream[d].arc
        BY <1>4, <3>2
      <4>3. QED BY <1>0, <2>2, <4>1, <4>2
    <3>3. QED BY <3>1, <3>2
  <2>6. registry' # None => Live(registry.mirror)'
    BY <1>0, <1>4, <2>1, <2>2
  <2>7. QED BY <2>4, <2>5, <2>6 DEF ArcInv
<1>5. ASSUME Moves(c, {"continue"}, {"insert"}), SameArc(c), UNCHANGED <<registry, drawnFor>>
      PROVE  ArcInv'
  BY <1>0, <1>5 DEF ArcInv
<1>6. ASSUME Moves(c, {"insert"}, {"consume"}), SameArc(c),
             registry' # None, registry'.mirror = stream[c].arc, UNCHANGED drawnFor
      PROVE  ArcInv'
  BY <1>0, <1>6 DEF ArcInv
<1>7. CASE Caller(c)
  BY <1>1, <1>2, <1>3, <1>4, <1>5, <1>6, <1>7, CallerMoves
<1>8. ASSUME Moves(c, Consumes, Consumes \cup {"evict"}), SameArc(c), SameEntry,
             UNCHANGED drawnFor
      PROVE  ArcInv'
  BY <1>0, <1>8 DEF ArcInv, SameEntry, Consumes
<1>9. ASSUME Moves(c, {"evict"}, {"done"}),
             registry' = IF Owns(c) THEN None ELSE registry, UNCHANGED drawnFor
      PROVE  ArcInv'
  BY <1>0, <1>9 DEF ArcInv
<1>10. CASE Consumer(c)
  BY <1>8, <1>9, <1>10, ConsumerMoves
<1>11. QED BY <1>7, <1>10

\* An entry goes when its own consumer does.
LEMMA ServedStep ==
    ASSUME TypeOK, ServedInv, NEW c \in Streams, Caller(c) \/ Consumer(c)
    PROVE  ServedInv'
<1> USE DEF Moves, SameSession, Consuming, At
<1>0. registry # None => registry.progress \in Streams
  BY DEF TypeOK, Entry
<1>1. ASSUME NEW from, NEW to,
             from \cap {"consume", "feed", "publish", "resize", "announce", "evict"} = {},
             Moves(c, from, to), UNCHANGED registry
      PROVE  ServedInv'
  <2>1. registry # None => registry.progress # c
    BY <1>1 DEF ServedInv
  <2>2. QED BY <1>0, <1>1, <2>1 DEF ServedInv
<1>2. ASSUME Moves(c, {"insert"}, {"consume"}), SameSession(c),
             registry'.session = stream[c].session, registry'.progress = c
      PROVE  ServedInv'
  BY <1>2 DEF ServedInv
<1>3. CASE Caller(c)
  BY <1>1, <1>2, <1>3, CallerMoves
<1>4. ASSUME Moves(c, Consumes, Consumes \cup {"evict"}), SameSession(c), SameEntry
      PROVE  ServedInv'
  BY <1>0, <1>4 DEF ServedInv, SameEntry, Consumes
<1>5. ASSUME Moves(c, {"evict"}, {"done"}), SameSession(c),
             registry' = IF Owns(c) THEN None ELSE registry
      PROVE  ServedInv'
  <2>1. registry' # None => registry' = registry /\ registry.progress # c
    BY <1>5 DEF Owns, ServedInv
  <2>2. QED BY <1>0, <1>5, <2>1 DEF ServedInv
<1>6. CASE Consumer(c)
  BY <1>4, <1>5, <1>6, ConsumerMoves
<1>7. QED BY <1>3, <1>6

\* The newest stream's entry goes only to its own consumer or to one of its session.
LEMMA NewestStep ==
    ASSUME TypeOK, NewestInv, NEW c \in Streams, Caller(c) \/ Consumer(c)
    PROVE  NewestInv'
<1> USE DEF Moves, SameSession, Consuming, Open, Owns, At
<1>0. latest # None => latest \in Streams
  BY DEF TypeOK
<1>1. ASSUME Moves(c, {"idle", "subscribe"}, {"subscribe", "replace", "insert", "done"}),
             UNCHANGED <<registry, latest>>
      PROVE  NewestInv'
  BY <1>0, <1>1 DEF NewestInv
<1>2. ASSUME Moves(c, {"replace", "continue"}, {"continue", "insert"}), SameSession(c),
             UNCHANGED <<registry, latest>>
      PROVE  NewestInv'
  BY <1>0, <1>2 DEF NewestInv
<1>3. ASSUME SameSession(c), registry' # None, registry'.session = stream[c].session,
             latest' = c
      PROVE  NewestInv'
  BY <1>3 DEF NewestInv
<1>4. CASE Caller(c)
  BY <1>1, <1>2, <1>3, <1>4, CallerMoves
<1>5. ASSUME Moves(c, Consumes, Consumes \cup {"evict"}), SameSession(c), SameEntry,
             UNCHANGED latest
      PROVE  NewestInv'
  BY <1>0, <1>5 DEF NewestInv, SameEntry, Consumes
<1>6. ASSUME Moves(c, {"evict"}, {"done"}), SameSession(c),
             registry' = IF Owns(c) THEN None ELSE registry, UNCHANGED latest
      PROVE  NewestInv'
  <2>1. SUFFICES ASSUME latest # None, Consuming(latest)'
                 PROVE  \/ Owns(latest)'
                        \/ \E d \in Streams \ {latest} :
                              Open(d)' /\ stream'[d].session = stream'[latest].session
    BY <1>6 DEF NewestInv
  <2>2. latest \in Streams /\ latest # c /\ Consuming(latest)
    BY <1>0, <1>6, <2>1
  <2>3. CASE Owns(latest)
    BY <1>6, <2>2, <2>3
  <2>4. CASE ~Owns(latest)
    <3>1. PICK d \in Streams \ {latest} : Open(d) /\ stream[d].session = stream[latest].session
      BY <2>1, <2>2, <2>4 DEF NewestInv
    <3>2. QED BY <1>6, <2>2, <3>1
  <2>5. QED BY <2>3, <2>4
<1>7. CASE Consumer(c)
  BY <1>5, <1>6, <1>7, ConsumerMoves
<1>8. QED BY <1>4, <1>7

LEMMA IInvStep == IInv /\ [Next]_vars => IInv'
<1> SUFFICES ASSUME IInv, [Next]_vars PROVE IInv'
  OBVIOUS
<1> USE DEF IInv
<1>1. TypeOK'
  BY TypeStep
<1>2. ASSUME NEW c \in Streams, Caller(c) \/ Consumer(c)
      PROVE  ArcInv' /\ ServedInv' /\ NewestInv'
  BY <1>2, ArcStep, ServedStep, NewestStep
<1>3. ASSUME UNCHANGED <<registry, stream, drawnFor, latest>>
      PROVE  ArcInv' /\ ServedInv' /\ NewestInv'
  BY <1>3 DEF ArcInv, ServedInv, NewestInv, Live, Fresh, Open, Consuming, Owns, At
<1>4. CASE \E c \in Streams : Caller(c) \/ Consumer(c)
  BY <1>1, <1>2, <1>4
<1>5. CASE \/ \E grid \in Sizes : Resize(grid)
           \/ \E after \in Awaited : FrameRequest(after)
           \/ WaitForSequence \/ Answered
           \/ UNCHANGED vars
  <2>1. UNCHANGED <<registry, stream, drawnFor, latest>>
    BY <1>5 DEF Resize, FrameRequest, WaitForSequence, Answered, vars, history
  <2>2. QED BY <1>1, <1>3, <2>1
<1>6. QED BY <1>4, <1>5 DEF Next

--------------------------------------------------------------------------------
\* The inductive invariant holds always.
THEOREM Invariance == Spec => []IInv
<1>1. QED BY InitIInv, IInvStep, PTL DEF Spec

\* The entry, the mirrors, atomics, signals, threads and the request keep their types:
\* no handle a thread goes on with is dangling.
THEOREM TypeCorrect == Spec => []TypeOK
<1>1. IInv => TypeOK
  BY DEF IInv
<1>2. QED BY <1>1, Invariance, PTL

\* No entry is left to nobody: while the registry holds a session, the consumer of its
\* stream runs, whichever calls and evictions raced.
THEOREM EntriesAreServed == Spec => []EntryIsServed
<1>1. IInv => EntryIsServed
  BY DEF IInv, ServedInv, EntryIsServed, Consuming, Running, At
<1>2. QED BY <1>1, Invariance, PTL

\* The newest session keeps its entry while its consumer runs, unless another stream
\* observes the same session: no dying consumer evicts a replacement.
THEOREM NewestKeeps == Spec => []NewestKeepsEntry
<1>1. IInv => NewestKeepsEntry
  BY DEF IInv, NewestInv, NewestKeepsEntry, Open, At
<1>2. QED BY <1>1, Invariance, PTL
--------------------------------------------------------------------------------
\* The size a pane's waiters are told.

\* A stream whose session has no place yet keeps its size signal to itself, and has
\* announced nothing.
SignalArcInv ==
    /\ registry # None => ~Fresh(registry.size)
    /\ \A c \in Streams :
        /\ Fresh(c) => stream[c].size = c
        /\ ~Fresh(c) /\ ~At(c, "done") => ~Fresh(stream[c].size)
        /\ Fresh(c) \/ stream[c].at \in {"continue", "insert"} => ~stream[c].told

\* The entry and its consumer have one size signal, and the signal what the consumer
\* announced on it.
SizeInv ==
    registry # None =>
        LET c == registry.progress
        IN  /\ registry.size = stream[c].size
            /\ At(c, "resize") \/ At(c, "announce") => stream[c].held = registry.size
            /\ stream[c].told /\ ~At(c, "resize") /\ ~At(c, "announce")
                  => gridSize[registry.size] = stream[c].grid

AnnounceInv == SignalArcInv /\ SizeInv

\* A step by which the entry, its consumer and their signal stay as they are.
SameSizes(d) ==
    /\ stream'[d].size = stream[d].size
    /\ stream'[d].told = stream[d].told
    /\ stream'[d].grid = stream[d].grid
    /\ stream'[d].held = stream[d].held
    /\ At(d, "resize")' <=> At(d, "resize")
    /\ At(d, "announce")' <=> At(d, "announce")

LEMMA SameSizesStand ==
    ASSUME TypeOK, SizeInv,
           registry' # None => /\ registry # None
                               /\ registry'.progress = registry.progress
                               /\ registry'.size = registry.size
                               /\ SameSizes(registry.progress)
                               /\ gridSize'[registry.size] = gridSize[registry.size]
    PROVE  SizeInv'
  BY DEF SizeInv, SameSizes

\* What is left of a thread's sizes when its handler, or its life, is over.
LEMMA SizesEnd ==
    ASSUME NEW thread \in Thread, NEW c \in Streams
    PROVE  /\ Returned(thread, c).size = thread.size
           /\ Returned(thread, c).told = thread.told
           /\ Returned(thread, c).grid = thread.grid
           /\ [Returned(thread, c) EXCEPT !.told = TRUE].at = "consume"
           /\ [Returned(thread, c) EXCEPT !.told = TRUE].size = thread.size
           /\ [Returned(thread, c) EXCEPT !.told = TRUE].grid = thread.grid
           /\ Ended(thread, c).told = FALSE
<1> DEFINE returned == Returned(thread, c)
<1>1. /\ returned.size = thread.size /\ returned.told = thread.told
      /\ returned.grid = thread.grid
  BY DEF Returned, Thread
<1>2. returned \in Thread /\ returned.at = "consume"
  BY ThreadsEnd
<1>3. Ended(thread, c) = [returned EXCEPT !.at = "done", !.told = FALSE, !.arc = c,
                             !.signal = c, !.size = c, !.delivered = 0]
  BY DEF Ended
<1> HIDE DEF returned
<1>4. /\ [returned EXCEPT !.told = TRUE].at = "consume"
      /\ [returned EXCEPT !.told = TRUE].size = thread.size
      /\ [returned EXCEPT !.told = TRUE].grid = thread.grid
  BY <1>1, <1>2 DEF Thread
<1>5. Ended(thread, c).told = FALSE
  BY <1>2, <1>3 DEF Thread
<1>6. QED BY <1>1, <1>4, <1>5 DEF returned

LEMMA CallerSizes ==
    ASSUME TypeOK, ServedInv, AnnounceInv, NEW c \in Streams, Caller(c)
    PROVE  AnnounceInv'
<1> USE DEF AnnounceInv
<1>0. /\ stream \in [Streams -> Thread] /\ stream[c] \in Thread
      /\ gridSize \in [Streams -> Sizes]
      /\ \A d \in Streams : stream[d].size \in Streams
      /\ registry # None => registry.progress \in Streams /\ registry.size \in Streams
  <2>1. stream \in [Streams -> Thread] /\ gridSize \in [Streams -> Sizes]
    BY DEF TypeOK
  <2>2. registry # None => registry.progress \in Streams /\ registry.size \in Streams
    BY DEF TypeOK, Entry
  <2>3. QED BY <2>1, <2>2 DEF Thread
<1>1. /\ stream[c].at \in {"idle", "subscribe", "replace", "continue", "insert"}
      /\ registry # None => registry.progress # c
  BY CallerMoves DEF Moves, ServedInv, Consuming, At
<1>2. ASSUME UNCHANGED registry, \A d \in Streams \ {c} : stream'[d] = stream[d],
             registry # None => gridSize'[registry.size] = gridSize[registry.size]
      PROVE  SizeInv'
  BY <1>0, <1>1, <1>2, SameSizesStand DEF SameSizes, At
<1>3. ASSUME UNCHANGED registry, \A d \in Streams \ {c} : stream'[d] = stream[d],
             Fresh(c)' => Fresh(c), stream'[c].size = stream[c].size,
             stream'[c].told = stream[c].told, stream'[c].at # "consume"
      PROVE  SignalArcInv'
  BY <1>0, <1>1, <1>3 DEF SignalArcInv, Fresh, At
<1>4. CASE EnsureListed(c)
  <2>1. /\ \A d \in Streams \ {c} : stream'[d] = stream[d]
        /\ Fresh(c)' => Fresh(c)
        /\ stream'[c].size = stream[c].size /\ stream'[c].told = stream[c].told
        /\ stream'[c].at # "consume"
    BY <1>0, <1>4 DEF EnsureListed, Goto, At, Fresh, Thread
  <2>2. QED BY <1>2, <1>3, <1>4, <2>1 DEF EnsureListed
<1>5. CASE EnsureFails(c)
  <2>1. stream' = [stream EXCEPT ![c] = Ended(@, c)] /\ UNCHANGED <<registry, gridSize>>
    BY <1>5 DEF EnsureFails
  <2>2. \A d \in Streams \ {c} : stream'[d] = stream[d]
    BY <1>0, <2>1
  <2>3. stream'[c].at = "done" /\ ~stream'[c].told
    <3>1. stream'[c] = Ended(stream[c], c)
      BY <1>0, <2>1
    <3>2. Ended(stream[c], c).at = "done"
      BY <1>0, ThreadsEnd
    <3>3. Ended(stream[c], c).told = FALSE
      BY <1>0, SizesEnd
    <3>4. QED BY <3>1, <3>2, <3>3
  <2>4. SignalArcInv'
    BY <1>0, <1>1, <2>1, <2>2, <2>3 DEF SignalArcInv, Fresh, At
  <2>5. QED BY <1>2, <2>1, <2>2, <2>4
<1>6. ASSUME NEW s \in Sessions, NEW size \in Sizes, NEW restored \in BOOLEAN,
             NEW next \in {"replace", "insert"}, Opened(c, s, size, restored, next), Fresh(c),
             UNCHANGED registry
      PROVE  AnnounceInv'
  <2>1. /\ \A d \in Streams \ {c} : stream'[d] = stream[d]
        /\ stream'[c].at = next
        /\ stream'[c].size = stream[c].size /\ stream'[c].told = stream[c].told
    BY <1>0, <1>6 DEF Opened, Thread
  <2>2. registry # None => gridSize'[registry.size] = gridSize[registry.size]
    BY <1>0, <1>6 DEF Opened, SignalArcInv
  <2>3. QED BY <1>2, <1>3, <1>6, <2>1, <2>2
<1>7. ASSUME NEW s \in Sessions, NEW size \in Sizes, Subscribe(c, s, size) PROVE AnnounceInv'
  BY <1>6, <1>7 DEF Subscribe, Fresh, At
<1>8. ASSUME NEW s \in Sessions, NEW size \in Sizes, NEW restored \in BOOLEAN,
             EnsurePrepared(c, s, size, restored)
      PROVE  AnnounceInv'
  BY <1>6, <1>8 DEF EnsurePrepared, Fresh, At
<1>9. CASE Replace(c)
  <2>1. UNCHANGED <<registry, gridSize>>
    BY <1>9 DEF Replace
  <2>2. \/ Goto(c, "insert")
        \/ stream' = [stream EXCEPT ![c].at = "continue", ![c].arc = registry.mirror]
    BY <1>9 DEF Replace
  <2>3. /\ \A d \in Streams \ {c} : stream'[d] = stream[d]
        /\ stream'[c].at \in {"insert", "continue"}
        /\ stream'[c].size = stream[c].size /\ stream'[c].told = stream[c].told
    <3>1. CASE Goto(c, "insert")
      BY <1>0, <3>1 DEF Goto, Thread
    <3>2. CASE stream' = [stream EXCEPT ![c].at = "continue", ![c].arc = registry.mirror]
      BY <1>0, <3>2 DEF Thread
    <3>3. QED BY <2>2, <3>1, <3>2
  <2>4. SizeInv'
    BY <1>2, <2>1, <2>3
  <2>5. ~Fresh(c)'
    BY <2>3 DEF Fresh
  <2>6. SignalArcInv'
    BY <1>3, <2>1, <2>3, <2>5
  <2>7. QED BY <2>4, <2>6
<1>10. CASE Continue(c)
  <2>1. UNCHANGED <<registry, gridSize>> /\ stream[c].at = "continue"
    BY <1>10 DEF Continue, At
  <2>2. /\ \A d \in Streams \ {c} : stream'[d] = stream[d]
        /\ stream'[c].at = "insert"
        /\ stream'[c].told = stream[c].told
        /\ stream'[c].size = IF registry = None THEN stream[c].size ELSE registry.size
    BY <1>0, <1>10 DEF Continue, Thread
  <2>3. SignalArcInv'
    BY <1>0, <2>1, <2>2 DEF SignalArcInv, Fresh, At
  <2>4. QED BY <1>2, <2>1, <2>2, <2>3
<1>11. CASE Insert(c)
  <2>1. /\ registry'.progress = c /\ registry'.size = stream[c].size
        /\ UNCHANGED gridSize /\ stream[c].at = "insert"
        /\ stream' = [stream EXCEPT ![c].at = "consume"]
    BY <1>11 DEF Insert, At, Goto
  <2>2. /\ \A d \in Streams \ {c} : stream'[d] = stream[d]
        /\ stream'[c].at = "consume"
        /\ stream'[c].size = stream[c].size /\ stream'[c].told = stream[c].told
    BY <1>0, <2>1 DEF Thread
  <2>3. ~stream[c].told
    BY <2>1 DEF SignalArcInv
  <2>4. SignalArcInv'
    BY <1>0, <2>1, <2>2 DEF SignalArcInv, Fresh, At
  <2>5. SizeInv'
    BY <2>1, <2>2, <2>3 DEF SizeInv, At
  <2>6. QED BY <2>4, <2>5
<1>12. QED BY <1>4, <1>5, <1>7, <1>8, <1>9, <1>10, <1>11 DEF Caller

LEMMA ConsumerSizes ==
    ASSUME TypeOK, ServedInv, AnnounceInv, NEW c \in Streams, Consumer(c)
    PROVE  AnnounceInv'
<1> USE DEF AnnounceInv
<1>0. /\ stream \in [Streams -> Thread] /\ stream[c] \in Thread
      /\ gridSize \in [Streams -> Sizes]
      /\ \A d \in Streams : stream[d].size \in Streams
      /\ registry # None => /\ registry \in Entry
                            /\ registry.progress \in Streams /\ registry.size \in Streams
  <2>1. stream \in [Streams -> Thread] /\ gridSize \in [Streams -> Sizes]
    BY DEF TypeOK
  <2>2. registry # None => /\ registry \in Entry
                           /\ registry.progress \in Streams /\ registry.size \in Streams
    BY DEF TypeOK, Entry
  <2>3. QED BY <2>1, <2>2 DEF Thread
<1>1. stream[c].at \in Consumes \cup {"evict"}
  BY ConsumerMoves DEF Moves
<1>2. ASSUME stream'[c].at \in Consumes \cup {"evict"},
             \A d \in Streams \ {c} : stream'[d] = stream[d],
             stream'[c].size = stream[c].size,
             registry' # None => registry # None /\ registry'.size = registry.size
      PROVE  SignalArcInv'
  BY <1>0, <1>1, <1>2 DEF SignalArcInv, Fresh, At, Consumes
<1>3. ASSUME \A d \in Streams \ {c} : stream'[d] = stream[d], SameSizes(c),
             stream'[c].at \in Consumes \cup {"evict"},
             UNCHANGED gridSize,
             registry' # None => /\ registry # None
                                 /\ registry'.progress = registry.progress
                                 /\ registry'.size = registry.size
      PROVE  AnnounceInv'
  <2>1. \A d \in Streams : SameSizes(d)
    BY <1>3 DEF SameSizes, At
  <2>2. SizeInv'
    BY <1>0, <1>3, <2>1, SameSizesStand
  <2>3. SignalArcInv'
    BY <1>2, <1>3 DEF SameSizes
  <2>4. QED BY <2>2, <2>3
<1>4. CASE Refuse(c) \/ End(c)
  <2>1. /\ \A d \in Streams \ {c} : stream'[d] = stream[d]
        /\ SameSizes(c) /\ stream'[c].at = "evict"
    BY <1>0, <1>4 DEF Refuse, End, Goto, At, SameSizes, Thread
  <2>2. QED BY <1>3, <1>4, <2>1 DEF Refuse, End
<1>5. CASE AdmitOutput(c)
  <2>1. stream[c].at = "consume" /\ registry # None /\ UNCHANGED gridSize
    BY <1>5 DEF AdmitOutput, At, Owns
  <2>2. registry'.progress = registry.progress /\ registry'.size = registry.size
    BY <1>0, <1>5, <2>1 DEF AdmitOutput, Entry
  <2>3. /\ \A d \in Streams \ {c} : stream'[d] = stream[d]
        /\ stream'[c].at = "feed"
        /\ stream'[c].size = stream[c].size
        /\ stream'[c].told = stream[c].told
        /\ stream'[c].grid = stream[c].grid
    BY <1>0, <1>5 DEF AdmitOutput, Thread
  <2>4. SignalArcInv'
    BY <1>2, <2>1, <2>2, <2>3 DEF Consumes
  <2>5. SizeInv'
    BY <1>0, <2>1, <2>2, <2>3 DEF SizeInv, At
  <2>6. QED BY <2>4, <2>5
<1>6. CASE Feed(c)
  <2>1. /\ \A d \in Streams \ {c} : stream'[d] = stream[d]
        /\ SameSizes(c) /\ stream'[c].at = "publish"
    BY <1>0, <1>6 DEF Feed, Goto, At, SameSizes, Thread
  <2>2. QED BY <1>3, <1>6, <2>1 DEF Feed, Consumes
<1>7. CASE Publish(c)
  <2>1. stream[c].at = "publish" /\ UNCHANGED gridSize
    BY <1>7 DEF Publish, At
  <2>2. CASE ~Owns(c)
    <3>1. Goto(c, "evict") /\ UNCHANGED registry
      BY <1>7, <2>2 DEF Publish
    <3>2. /\ \A d \in Streams \ {c} : stream'[d] = stream[d]
          /\ SameSizes(c) /\ stream'[c].at = "evict"
      BY <1>0, <2>1, <3>1 DEF Goto, At, SameSizes, Thread
    <3>3. QED BY <1>3, <2>1, <3>1, <3>2
  <2>3. CASE Owns(c)
    <3>1. /\ registry' = [registry EXCEPT !.source = stream[c].delivered]
          /\ stream' = [stream EXCEPT ![c] = Returned(@, c)]
          /\ registry # None
      BY <1>7, <2>3 DEF Publish, Owns
    <3>2. registry'.progress = registry.progress /\ registry'.size = registry.size
      BY <1>0, <3>1 DEF Entry
    <3>3. /\ \A d \in Streams \ {c} : stream'[d] = stream[d]
          /\ stream'[c].at = "consume"
          /\ stream'[c].size = stream[c].size
          /\ stream'[c].told = stream[c].told
          /\ stream'[c].grid = stream[c].grid
      BY <1>0, <3>1, ThreadsEnd, SizesEnd
    <3>4. SignalArcInv'
      BY <1>2, <3>1, <3>2, <3>3 DEF Consumes
    <3>5. SizeInv'
      BY <1>0, <2>1, <3>1, <3>2, <3>3 DEF SizeInv, At
    <3>6. QED BY <3>4, <3>5
  <2>4. QED BY <2>2, <2>3
<1>8. ASSUME NEW grid \in Sizes, AdmitResize(c, grid) PROVE AnnounceInv'
  <2>1. UNCHANGED <<registry, gridSize>>
    BY <1>8 DEF AdmitResize
  <2>2. /\ \A d \in Streams \ {c} : stream'[d] = stream[d]
        /\ stream'[c].at = "resize"
        /\ stream'[c].size = stream[c].size
        /\ stream'[c].held = registry.size
    BY <1>0, <1>8 DEF AdmitResize, Thread
  <2>3. SignalArcInv'
    BY <1>2, <2>1, <2>2 DEF Consumes
  <2>4. SizeInv'
    BY <1>0, <2>1, <2>2 DEF SizeInv, At
  <2>5. QED BY <2>3, <2>4
<1>9. CASE ResizeMirror(c)
  <2>1. UNCHANGED <<registry, gridSize>> /\ stream[c].at = "resize"
    BY <1>9 DEF ResizeMirror, At
  <2>2. /\ \A d \in Streams \ {c} : stream'[d] = stream[d]
        /\ stream'[c].at = "announce"
        /\ stream'[c].size = stream[c].size
        /\ stream'[c].held = stream[c].held
    BY <1>0, <1>9 DEF ResizeMirror, Goto, Thread
  <2>3. SignalArcInv'
    BY <1>2, <2>1, <2>2 DEF Consumes
  <2>4. SizeInv'
    BY <1>0, <2>1, <2>2 DEF SizeInv, At
  <2>5. QED BY <2>3, <2>4
<1>10. CASE AnnounceSize(c)
  <2> DEFINE h == stream[c].held
  <2>1. /\ stream[c].at = "announce"
        /\ gridSize' = [gridSize EXCEPT ![h] = stream[c].grid]
        /\ stream'[c] = [Returned(stream[c], c) EXCEPT !.told = TRUE]
        /\ \A d \in Streams \ {c} :
            stream'[d] = [stream[d] EXCEPT !.told = @ /\ stream[d].size # h]
        /\ UNCHANGED registry
    BY <1>10 DEF AnnounceSize, At
  <2>2. h \in Streams
    BY <1>0 DEF Thread
  <2> HIDE DEF h
  <2>3. ASSUME NEW d \in Streams \ {c}
        PROVE  /\ stream'[d].at = stream[d].at
               /\ stream'[d].size = stream[d].size
               /\ stream'[d].held = stream[d].held
               /\ stream'[d].grid = stream[d].grid
               /\ stream'[d].told = (stream[d].told /\ stream[d].size # h)
    <3>1. ASSUME NEW thread \in Thread, NEW told
          PROVE  LET other == [thread EXCEPT !.told = told]
                 IN  /\ other.at = thread.at /\ other.size = thread.size
                     /\ other.held = thread.held /\ other.grid = thread.grid
                     /\ other.told = told
      BY DEF Thread
    <3>2. \E told : /\ stream'[d] = [stream[d] EXCEPT !.told = told]
                    /\ told = (stream[d].told /\ stream[d].size # h)
      BY <2>1, Zenon
    <3>3. stream[d] \in Thread
      BY <1>0
    <3>4. QED BY <3>1, <3>2, <3>3
  <2>4. /\ stream'[c].at = "consume"
        /\ stream'[c].size = stream[c].size /\ stream'[c].grid = stream[c].grid
    <3> DEFINE told == [Returned(stream[c], c) EXCEPT !.told = TRUE]
    <3>1. told.at = "consume" /\ told.size = stream[c].size /\ told.grid = stream[c].grid
      BY <1>0, SizesEnd
    <3>2. stream'[c] = told
      BY <2>1
    <3> HIDE DEF told
    <3>3. QED BY <3>1, <3>2
  <2>5. SignalArcInv'
    <3>1. ~Fresh(c)' /\ ~Fresh(c) /\ ~At(c, "done") /\ ~At(c, "done")'
      BY <2>1, <2>4 DEF Fresh, At
    <3>2. \A d \in Streams : /\ Fresh(d)' <=> Fresh(d)
                             /\ At(d, "done")' <=> At(d, "done")
                             /\ stream'[d].size = stream[d].size
      BY <2>3, <2>4, <3>1 DEF Fresh, At
    <3>3. \A d \in Streams \ {c} : stream'[d].at = stream[d].at
                                   /\ (stream'[d].told => stream[d].told)
      BY <2>3
    <3>4. /\ registry' # None => ~Fresh(registry.size)'
          /\ \A d \in Streams : /\ Fresh(d)' => stream'[d].size = d
                                /\ ~Fresh(d)' /\ ~At(d, "done")' => ~Fresh(stream[d].size)'
      <4>1. registry' # None => ~Fresh(registry.size)'
        BY <1>0, <2>1, <3>2 DEF SignalArcInv
      <4>2. ASSUME NEW d \in Streams
            PROVE  /\ Fresh(d)' => stream'[d].size = d
                   /\ ~Fresh(d)' /\ ~At(d, "done")' => ~Fresh(stream[d].size)'
        <5>1. stream'[d].size = stream[d].size /\ stream[d].size \in Streams
          BY <1>0, <3>2
        <5>2. Fresh(stream[d].size)' <=> Fresh(stream[d].size)
          <6>1. \A e \in Streams : stream'[e].at \in {"idle", "subscribe", "replace"}
                                     <=> stream[e].at \in {"idle", "subscribe", "replace"}
            BY <3>2 DEF Fresh
          <6>2. QED BY <5>1, <6>1 DEF Fresh
        <5>3. /\ Fresh(d) => stream[d].size = d
              /\ ~Fresh(d) /\ ~At(d, "done") => ~Fresh(stream[d].size)
          BY DEF SignalArcInv
        <5>4. (Fresh(d)' <=> Fresh(d)) /\ (At(d, "done")' <=> At(d, "done"))
          BY <3>2
        <5>5. QED BY <5>1, <5>2, <5>3, <5>4
      <4>3. QED BY <4>1, <4>2
    <3>5. \A d \in Streams : Fresh(d)' \/ stream'[d].at \in {"continue", "insert"}
                              => ~stream'[d].told
      BY <2>4, <3>1, <3>2, <3>3 DEF SignalArcInv
    <3>6. QED BY <3>4, <3>5 DEF SignalArcInv
  <2>6. SizeInv'
    <3>1. SUFFICES ASSUME registry # None PROVE SizeInv'
      BY <2>1 DEF SizeInv
    <3>2. CASE registry.progress = c
      <4>1. h = registry.size /\ registry.size = stream[c].size
        BY <2>1, <3>1, <3>2 DEF SizeInv, At, h
      <4>2. gridSize'[registry.size] = stream[c].grid
        BY <1>0, <2>1, <2>2, <4>1
      <4>3. QED BY <2>1, <2>4, <3>2, <4>1, <4>2 DEF SizeInv, At
    <3>3. CASE registry.progress # c
      <4> DEFINE p == registry.progress
      <4>1. p \in Streams \ {c} /\ registry.size = stream[p].size
        BY <1>0, <3>1, <3>3 DEF SizeInv
      <4>2. stream'[p].told => stream[p].told /\ registry.size # h
        BY <2>3, <4>1
      <4>3. registry.size # h => gridSize'[registry.size] = gridSize[registry.size]
        BY <1>0, <2>1, <3>1
      <4>4. QED BY <2>1, <2>3, <4>1, <4>2, <4>3 DEF SizeInv, At
    <3>4. QED BY <3>2, <3>3
  <2>7. QED BY <2>5, <2>6
<1>11. CASE Gap(c) \/ Reopened(c)
  <2>1. registry # None /\ UNCHANGED gridSize
    BY <1>11 DEF Gap, Reopened, Owns
  <2>2. registry'.progress = registry.progress /\ registry'.size = registry.size
    <3>1. CASE Gap(c)
      BY <1>0, <2>1, <3>1 DEF Gap, Entry
    <3>2. CASE Reopened(c)
      BY <1>0, <2>1, <3>2 DEF Reopened, Entry
    <3>3. QED BY <1>11, <3>1, <3>2
  <2>3. /\ \A d \in Streams \ {c} : stream'[d] = stream[d]
        /\ SameSizes(c) /\ stream'[c].at \in {"consume", "evict"}
    <3>1. CASE Gap(c)
      BY <1>0, <3>1 DEF Gap, At, SameSizes, Thread
    <3>2. CASE Reopened(c)
      BY <1>0, <3>2 DEF Reopened, At, SameSizes, Thread
    <3>3. QED BY <1>11, <3>1, <3>2
  <2>4. QED BY <1>3, <2>1, <2>2, <2>3 DEF Consumes
<1>12. CASE Evict(c)
  <2>1. /\ stream[c].at = "evict"
        /\ stream' = [stream EXCEPT ![c] = Ended(@, c)]
        /\ registry' = IF Owns(c) THEN None ELSE registry
        /\ UNCHANGED gridSize
    BY <1>12 DEF Evict, At
  <2>2. stream'[c].at = "done"
    BY <1>0, <2>1, ThreadsEnd
  <2>3. \A d \in Streams \ {c} : stream'[d] = stream[d]
    BY <1>0, <2>1
  <2>4. registry' # None => registry' = registry /\ registry.progress # c
    BY <2>1 DEF Owns, ServedInv
  <2>5. SignalArcInv'
    BY <1>0, <2>1, <2>2, <2>3, <2>4 DEF SignalArcInv, Fresh, At
  <2>6. SizeInv'
    BY <1>0, <2>1, <2>3, <2>4, SameSizesStand DEF SameSizes, At
  <2>7. QED BY <2>5, <2>6
<1>13. QED BY <1>4, <1>5, <1>6, <1>7, <1>8, <1>9, <1>10, <1>11, <1>12 DEF Consumer

LEMMA InitAnnounce == Init => AnnounceInv
<1> SUFFICES ASSUME Init PROVE AnnounceInv
  OBVIOUS
<1>1. registry = None
  BY DEF Init
<1>2. \A c \in Streams : stream[c].at = "idle" /\ stream[c].size = c /\ ~stream[c].told
  <2>1. PICK size \in Sizes, s \in Sessions :
            stream = [c \in Streams |->
                [at |-> "idle", session |-> s, arc |-> c, signal |-> c, size |-> c,
                 restored |-> FALSE, delivered |-> 0, gapped |-> FALSE,
                 held |-> c, dropping |-> FALSE, grid |-> size, told |-> FALSE]]
    BY Zenon DEF Init
  <2>2. QED BY <2>1
<1>3. QED BY <1>1, <1>2 DEF AnnounceInv, SignalArcInv, SizeInv, Fresh

LEMMA AnnounceStep == IInv /\ AnnounceInv /\ [Next]_vars => AnnounceInv'
<1> SUFFICES ASSUME IInv, AnnounceInv, [Next]_vars PROVE AnnounceInv'
  OBVIOUS
<1>1. TypeOK /\ ServedInv
  BY DEF IInv
<1>2. ASSUME NEW c \in Streams, Caller(c) \/ Consumer(c) PROVE AnnounceInv'
  BY <1>1, <1>2, CallerSizes, ConsumerSizes
<1>3. CASE \/ \E grid \in Sizes : Resize(grid)
           \/ \E after \in Awaited : FrameRequest(after)
           \/ WaitForSequence \/ Answered
           \/ UNCHANGED vars
  <2>1. UNCHANGED <<registry, gridSize, stream>>
    BY <1>3 DEF Resize, FrameRequest, WaitForSequence, Answered, vars
  <2>2. QED BY <2>1 DEF AnnounceInv, SignalArcInv, SizeInv, Fresh, At
<1>4. QED BY <1>2, <1>3 DEF Next

\* The size terminal.waitSize answers is the one the entry's source announced last, also
\* on a signal taken over from another session, unless the old session's consumer
\* announced on it since.
THEOREM AnnouncedSizes == Spec => []AnnouncedSizeStands
<1>1. Init => IInv /\ AnnounceInv
  BY InitIInv, InitAnnounce
<1>2. (IInv /\ AnnounceInv) /\ [Next]_vars => (IInv /\ AnnounceInv)'
  BY IInvStep, AnnounceStep
<1>3. AnnounceInv => AnnouncedSizeStands
  BY DEF AnnounceInv, SizeInv, AnnouncedSizeStands
<1>4. QED BY <1>1, <1>2, <1>3, PTL DEF Spec

--------------------------------------------------------------------------------
\* What a mirror draws.

\* A stream's content is in one mirror: its own until its caller installs it.
HomeInv ==
    /\ \A a, b \in Streams : drawnFor[a] # None /\ drawnFor[a] = drawnFor[b] => a = b
    /\ \A c \in Streams : Fresh(c) => drawnFor[c] = c

\* Whose output nobody interfered with, and which lost none.
Clean(c) == c \notin strays /\ ~stream[c].gapped

\* The stream delivers nothing yet; it delivers, or has until now.
Before(c) == Fresh(c) \/ stream[c].at \in {"continue", "insert"}
After(c) == Consuming(c) \/ At(c, "evict")

\* The atomic is at the output delivered last, or about to be fed.
ProgressInv ==
    \A c \in Streams : Clean(c) =>
        /\ Before(c) => progress[c] = 0 /\ stream[c].delivered = 0
        /\ After(c) /\ ~At(c, "feed") => progress[c] = stream[c].delivered
        /\ At(c, "feed") => /\ progress[c] = stream[c].delivered - 1
                            /\ stream[c].held = c
                            /\ stream[c].delivered > 0

\* The first output, and it alone, is dropped after a restore.
DropInv ==
    \A c \in Streams : Clean(c) =>
        /\ At(c, "feed") => (stream[c].dropping <=> stream[c].restored /\ stream[c].delivered = 1)
        /\ registry # None /\ registry.progress = c
              => (registry.drop <=> stream[c].restored /\ stream[c].delivered = 0)

ExactInv == HomeInv /\ ProgressInv /\ DropInv /\ OnlyStraysSpoil

--------------------------------------------------------------------------------
\* The output of session s from first through a sequence.
Output(s, first, through) == [i \in 1..(through - first + 1) |-> <<s, first - 1 + i>>]

First(c) == IF stream[c].restored THEN 2 ELSE 1

LEMMA ExactIsOutput ==
    ASSUME NEW arc \in Streams, NEW c \in Streams
    PROVE  Exact(arc, c)
              <=> mirror[arc].chunks = Output(stream[c].session, First(c), progress[c])
  BY Zenon DEF Exact, Output, First

\* Before the first output there is none to draw.
LEMMA NoOutput ==
    ASSUME NEW s \in Sessions, NEW first \in {1, 2}, NEW through \in Int, through < first
    PROVE  Output(s, first, through) = <<>>
<1>1. 1..(through - first + 1) = {}
  OBVIOUS
<1>2. QED BY <1>1 DEF Output

LEMMA OutputGrows ==
    ASSUME NEW s \in Sessions, NEW first \in {1, 2}, NEW through \in Nat, first <= through
    PROVE  Append(Output(s, first, through - 1), <<s, through>>) = Output(s, first, through)
<1> DEFINE n == through - first
           old == Output(s, first, through - 1)
           new == Output(s, first, through)
<1>1. n \in Nat /\ through - 1 - first + 1 = n /\ through - first + 1 = n + 1
  OBVIOUS
<1>2. old = [i \in 1..n |-> <<s, first - 1 + i>>] /\ new = [i \in 1..(n + 1) |-> <<s, first - 1 + i>>]
  BY <1>1 DEF Output
<1> DEFINE S == Sessions \X Int
           grown == Append(old, <<s, through>>)
<1>3. old \in Seq(S) /\ Len(old) = n /\ \A i \in 1..n : old[i] = <<s, first - 1 + i>>
  BY <1>1, <1>2
<1>4. /\ new \in Seq(S) /\ Len(new) = n + 1
      /\ \A i \in 1..(n + 1) : new[i] = <<s, first - 1 + i>>
  BY <1>1, <1>2
<1>5. <<s, through>> \in S /\ first - 1 + (n + 1) = through
  OBVIOUS
<1> HIDE DEF n, old, new, S
<1>6. /\ grown \in Seq(S) /\ Len(grown) = n + 1
      /\ \A i \in 1..n : grown[i] = old[i]
      /\ grown[n + 1] = <<s, through>>
  BY <1>3, <1>5, AppendProperties
<1> HIDE DEF grown
<1>7. \A i \in 1..(n + 1) : grown[i] = new[i]
  <2>1. \A i \in 1..(n + 1) : i \in 1..n \/ i = n + 1
    BY <1>1
  <2>2. new[n + 1] = <<s, first - 1 + (n + 1)>>
    BY <1>1, <1>4
  <2>3. grown[n + 1] = new[n + 1]
    BY <1>5, <1>6, <2>2
  <2>4. \A i \in 1..n : grown[i] = new[i]
    <3>1. \A i \in 1..n : i \in 1..(n + 1)
      BY <1>1
    <3>2. QED BY <1>3, <1>4, <1>6, <3>1, Zenon
  <2>5. QED BY <2>1, <2>3, <2>4
<1>8. grown = new
  BY <1>4, <1>6, <1>7, SeqEqual
<1>9. QED BY <1>8 DEF grown, new, old

--------------------------------------------------------------------------------
\* Steps that feed nothing, fill nothing and lose nothing.

QuietThread(c) ==
    /\ stream'[c].session = stream[c].session
    /\ stream'[c].restored = stream[c].restored
    /\ stream'[c].gapped = stream[c].gapped
    /\ \/ stream'[c].at = "done"
       \/ /\ stream'[c].delivered = stream[c].delivered
          /\ Fresh(c)' => Fresh(c)
          /\ Before(c)' => Before(c)
          /\ After(c)' => After(c)
          /\ At(c, "feed")' <=> At(c, "feed")
          /\ At(c, "feed") => /\ stream'[c].held = stream[c].held
                              /\ stream'[c].dropping = stream[c].dropping

Quiet ==
    /\ UNCHANGED <<progress, drawnFor, strays>>
    /\ \A arc \in Streams : mirror'[arc].chunks = mirror[arc].chunks
    /\ registry' # None => /\ registry # None
                           /\ registry'.progress = registry.progress
                           /\ registry'.drop = registry.drop
    /\ \A c \in Streams : QuietThread(c)

LEMMA QuietKeepsExact ==
    ASSUME TypeOK, ServedInv', ExactInv, Quiet
    PROVE  ExactInv'
<1> USE DEF Quiet, ExactInv
<1>1. HomeInv'
  BY DEF HomeInv, QuietThread, Fresh
<1>2. ASSUME NEW c \in Streams, Clean(c)' PROVE Clean(c)
  BY <1>2 DEF Clean, QuietThread
<1>3. ProgressInv'
  BY <1>2 DEF ProgressInv, QuietThread, Before, After, Fresh, Consuming, At
<1>4. DropInv'
  <2>1. ASSUME NEW c \in Streams, Clean(c)', At(c, "feed")'
        PROVE  (stream[c].dropping <=> stream[c].restored /\ stream[c].delivered = 1)'
    BY <1>2, <2>1 DEF DropInv, QuietThread, At
  <2>2. ASSUME NEW c \in Streams, Clean(c)', registry' # None, registry'.progress = c
        PROVE  (registry.drop <=> stream[c].restored /\ stream[c].delivered = 0)'
    <3>1. stream'[c].at # "done"
      BY <2>2 DEF ServedInv, Consuming, At
    <3>2. QED BY <1>2, <2>2, <3>1 DEF DropInv, QuietThread
  <2>3. QED BY <2>1, <2>2 DEF DropInv
<1>5. OnlyStraysSpoil'
  <2>1. ASSUME NEW arc \in Streams, NEW c \in Streams, drawnFor[arc] = c, c \notin strays,
               ~stream'[c].gapped
        PROVE  Exact(arc, c)'
    <3>1. Exact(arc, c)
      BY <2>1 DEF OnlyStraysSpoil, QuietThread
    <3>2. QED BY <3>1, Zenon DEF Exact, QuietThread
  <2>2. QED BY <2>1 DEF OnlyStraysSpoil
<1>6. QED BY <1>1, <1>3, <1>4, <1>5

\* A thread that goes from one point to another and touches no more than its handles.
LEMMA ThreadsAreQuiet ==
    ASSUME NEW thread \in Thread, NEW c \in Streams
    PROVE  /\ Returned(thread, c).restored = thread.restored
           /\ Returned(thread, c).gapped = thread.gapped
           /\ Returned(thread, c).delivered = thread.delivered
           /\ Ended(thread, c).restored = thread.restored
           /\ Ended(thread, c).gapped = thread.gapped
<1>1. /\ Returned(thread, c).restored = thread.restored
      /\ Returned(thread, c).gapped = thread.gapped
      /\ Returned(thread, c).delivered = thread.delivered
  BY DEF Returned, Thread
<1>2. ASSUME NEW returned \in Thread
      PROVE  LET ended == [returned EXCEPT !.at = "done", !.told = FALSE, !.arc = c,
                              !.signal = c, !.size = c, !.delivered = 0]
             IN  ended.restored = returned.restored /\ ended.gapped = returned.gapped
  BY DEF Thread
<1>3. /\ Ended(thread, c).restored = thread.restored
      /\ Ended(thread, c).gapped = thread.gapped
  BY <1>1, <1>2, ThreadsEnd DEF Ended
<1>4. QED BY <1>1, <1>3

LEMMA QuietRest ==
    ASSUME NEW c \in Streams, stream'[c] = stream[c]
    PROVE  QuietThread(c)
  BY DEF QuietThread, Before, After, Fresh, Consuming, At

LEMMA QuietEnd ==
    ASSUME NEW c \in Streams, stream[c] \in Thread, stream'[c] = Ended(stream[c], c)
    PROVE  QuietThread(c)
<1>1. /\ stream'[c].at = "done"
      /\ stream'[c].session = stream[c].session
  <2>1. Ended(stream[c], c).at = "done"
    BY ThreadsEnd
  <2>2. Ended(stream[c], c).session = stream[c].session
    BY ThreadsEnd
  <2>3. QED BY <2>1, <2>2, Zenon
<1>2. /\ stream'[c].restored = stream[c].restored
      /\ stream'[c].gapped = stream[c].gapped
  BY ThreadsAreQuiet
<1>3. QED BY <1>1, <1>2 DEF QuietThread

LEMMA QuietReturn ==
    ASSUME NEW c \in Streams, stream[c] \in Thread, stream[c].at \in {"publish", "announce"},
           \/ stream'[c] = Returned(stream[c], c)
           \/ stream'[c] = [Returned(stream[c], c) EXCEPT !.told = TRUE]
    PROVE  QuietThread(c)
<1> DEFINE returned == Returned(stream[c], c)
<1>1. /\ returned \in Thread /\ returned.at = "consume"
      /\ returned.session = stream[c].session
      /\ returned.restored = stream[c].restored
      /\ returned.gapped = stream[c].gapped
      /\ returned.delivered = stream[c].delivered
  BY ThreadsEnd, ThreadsAreQuiet
<1> HIDE DEF returned
<1>2. stream'[c] = returned \/ stream'[c] = [returned EXCEPT !.told = TRUE]
  BY DEF returned
<1>3. /\ stream'[c].at = returned.at
      /\ stream'[c].session = returned.session
      /\ stream'[c].restored = returned.restored
      /\ stream'[c].gapped = returned.gapped
      /\ stream'[c].delivered = returned.delivered
  BY <1>1, <1>2 DEF Thread
<1>4. QED BY <1>1, <1>3 DEF QuietThread, Before, After, Fresh, Consuming, At

LEMMA CallerIsQuiet ==
    ASSUME TypeOK, NEW c \in Streams,
           \/ EnsureListed(c) \/ EnsureFails(c) \/ Continue(c)
           \/ registry = None /\ Replace(c)
    PROVE  Quiet
<1> USE DEF Quiet, QuietThread, Before, After, Fresh, Consuming, At, Goto, history
<1>0. stream \in [Streams -> Thread] /\ stream[c] \in Thread
  BY DEF TypeOK
<1>1. CASE EnsureListed(c)
  BY <1>0, <1>1 DEF EnsureListed, Thread
<1>2. CASE EnsureFails(c)
  <2>1. stream' = [stream EXCEPT ![c] = Ended(@, c)]
    BY <1>2 DEF EnsureFails
  <2>2. \A d \in Streams : QuietThread(d)
    BY <1>0, <2>1, QuietEnd, QuietRest
  <2>3. QED BY <1>2, <2>2 DEF EnsureFails
<1>3. CASE Continue(c)
  BY <1>0, <1>3 DEF Continue, Thread
<1>4. CASE registry = None /\ Replace(c)
  <2>1. stream[c].at = "replace"
    BY <1>4 DEF Replace
  <2>2. Goto(c, "insert") /\ UNCHANGED <<registry, mirror, drawnFor, progress, strays>>
    BY <1>4 DEF Replace
  <2>3. QED BY <1>0, <2>1, <2>2 DEF Thread
<1>5. QED BY <1>1, <1>2, <1>3, <1>4

LEMMA ConsumerIsQuiet ==
    ASSUME TypeOK, NEW c \in Streams,
           \/ Refuse(c) \/ End(c) \/ Evict(c)
           \/ (\E grid \in Sizes : AdmitResize(c, grid)) \/ ResizeMirror(c) \/ AnnounceSize(c)
    PROVE  Quiet
<1> USE DEF Quiet, QuietThread, Before, After, Fresh, Consuming, At, Goto, history
<1>0. stream \in [Streams -> Thread] /\ stream[c] \in Thread
  BY DEF TypeOK
<1>1. CASE Refuse(c) \/ End(c)
  BY <1>0, <1>1 DEF Refuse, End, Thread
<1>2. CASE Evict(c)
  <2>1. stream' = [stream EXCEPT ![c] = Ended(@, c)]
    BY <1>2 DEF Evict
  <2>2. \A d \in Streams : QuietThread(d)
    BY <1>0, <2>1, QuietEnd, QuietRest
  <2>3. QED BY <1>2, <2>2 DEF Evict
<1>3. ASSUME NEW grid \in Sizes, AdmitResize(c, grid) PROVE Quiet
  BY <1>0, <1>3 DEF AdmitResize, Thread
<1>4. CASE ResizeMirror(c)
  <2>1. \A arc \in Streams : mirror'[arc].chunks = mirror[arc].chunks
    BY <1>4 DEF ResizeMirror, TypeOK
  <2>2. QED BY <1>0, <1>4, <2>1 DEF ResizeMirror, Thread
<1>5. CASE AnnounceSize(c)
  <2>1. stream'[c] = [Returned(stream[c], c) EXCEPT !.told = TRUE]
    BY <1>5 DEF AnnounceSize
  <2>2. \A d \in Streams \ {c} :
            stream'[d] = [stream[d] EXCEPT !.told = @ /\ stream[d].size # stream[c].held]
    BY <1>5 DEF AnnounceSize
  <2>3. QuietThread(c)
    BY <1>0, <1>5, <2>1, QuietReturn DEF AnnounceSize
  <2>4. ASSUME NEW d \in Streams \ {c} PROVE QuietThread(d)
    <3>1. stream[d] \in Thread
      BY <1>0
    <3>2. /\ stream'[d].at = stream[d].at
          /\ stream'[d].session = stream[d].session
          /\ stream'[d].restored = stream[d].restored
          /\ stream'[d].gapped = stream[d].gapped
          /\ stream'[d].delivered = stream[d].delivered
          /\ stream'[d].held = stream[d].held
          /\ stream'[d].dropping = stream[d].dropping
      BY <2>2, <3>1 DEF Thread
    <3>3. QED BY <3>2
  <2>5. QED BY <1>5, <2>3, <2>4 DEF AnnounceSize
<1>6. QED BY <1>1, <1>2, <1>3, <1>4, <1>5

LEMMA PublishIsQuiet ==
    ASSUME TypeOK, NEW c \in Streams, Publish(c)
    PROVE  Quiet
<1> USE DEF Quiet, QuietThread, Before, After, Fresh, Consuming, At, Goto, history
<1>0. stream \in [Streams -> Thread] /\ stream[c] \in Thread
  BY DEF TypeOK
<1>1. stream[c].at = "publish" /\ UNCHANGED <<mirror, progress, drawnFor, strays>>
  BY DEF Publish
<1>2. CASE ~Owns(c)
  <2>1. Goto(c, "evict") /\ UNCHANGED registry
    BY <1>2 DEF Publish
  <2>2. QED BY <1>0, <1>1, <2>1 DEF Thread
<1>3. CASE Owns(c)
  <2>1. /\ registry' = [registry EXCEPT !.source = stream[c].delivered]
        /\ stream' = [stream EXCEPT ![c] = Returned(@, c)]
    BY <1>3 DEF Publish
  <2>2. registry \in Entry /\ registry # None
    BY <1>3 DEF Owns, TypeOK
  <2>3. registry'.progress = registry.progress /\ registry'.drop = registry.drop
    BY <2>1, <2>2 DEF Entry
  <2>4. \A d \in Streams : QuietThread(d)
    BY <1>0, <1>1, <2>1, QuietReturn, QuietRest
  <2>5. QED BY <1>1, <2>2, <2>3, <2>4
<1>4. QED BY <1>2, <1>3

LEMMA CommandIsQuiet ==
    ASSUME TypeOK,
           \/ \E grid \in Sizes : Resize(grid)
           \/ \E after \in Awaited : FrameRequest(after)
           \/ WaitForSequence \/ Answered
           \/ UNCHANGED vars
    PROVE  Quiet
<1>1. UNCHANGED <<registry, progress, stream, drawnFor, strays>>
  BY DEF Resize, FrameRequest, WaitForSequence, Answered, vars, history
<1>2. \A arc \in Streams : mirror'[arc].chunks = mirror[arc].chunks
  <2>1. ASSUME NEW grid \in Sizes, Resize(grid)
        PROVE  \A arc \in Streams : mirror'[arc].chunks = mirror[arc].chunks
    <3>1. registry.mirror \in Streams
      BY <2>1 DEF Resize, TypeOK, Entry
    <3>2. QED BY <2>1, <3>1 DEF Resize, TypeOK
  <2>2. ASSUME UNCHANGED mirror
        PROVE  \A arc \in Streams : mirror'[arc].chunks = mirror[arc].chunks
    BY <2>2
  <2>3. QED BY <2>1, <2>2 DEF FrameRequest, WaitForSequence, Answered, vars
<1>3. QED BY <1>1, <1>2 DEF Quiet, QuietThread, Before, After, Fresh, Consuming, At

--------------------------------------------------------------------------------
\* Steps that open a stream, move its content, or put its entry in.

\* While a caller installs its session, no entry is its own.
LEMMA NotYetServed ==
    ASSUME ServedInv, NEW c \in Streams, Before(c)
    PROVE  registry # None => registry.progress # c
  BY DEF ServedInv, Before, Fresh, Consuming, At

LEMMA OpenedKeepsExact ==
    ASSUME TypeOK, ServedInv, ExactInv, NEW c \in Streams, Fresh(c),
           NEW s \in Sessions, NEW size \in Sizes, NEW restored \in BOOLEAN,
           NEW next \in {"replace", "insert"}, Opened(c, s, size, restored, next),
           UNCHANGED <<registry, progress, drawnFor, strays>>
    PROVE  ExactInv'
<1> USE DEF ExactInv
<1>0. stream \in [Streams -> Thread] /\ stream[c] \in Thread
  BY DEF TypeOK
<1>1. /\ stream'[c].at = next
      /\ stream'[c].session = s
      /\ stream'[c].restored = restored
      /\ stream'[c].gapped = stream[c].gapped
      /\ stream'[c].delivered = stream[c].delivered
  BY <1>0 DEF Opened, Thread
<1>2. \A d \in Streams \ {c} : stream'[d] = stream[d]
  BY <1>0 DEF Opened
<1>3. \A arc \in Streams : mirror'[arc].chunks = mirror[arc].chunks
  BY DEF Opened, TypeOK
<1>4. HomeInv'
  BY <1>2 DEF HomeInv, Fresh
<1>5. ProgressInv'
  BY <1>1, <1>2 DEF ProgressInv, Clean, Before, After, Fresh, Consuming, At
<1>6. DropInv'
  <2>1. Before(c)
    BY DEF Before
  <2>2. QED BY <1>1, <1>2, <2>1, NotYetServed DEF DropInv, Clean, At
<1>7. OnlyStraysSpoil'
  <2>1. SUFFICES ASSUME NEW arc \in Streams, NEW d \in Streams,
                        drawnFor[arc] = d, d \notin strays, ~stream'[d].gapped
                 PROVE  Exact(arc, d)'
    BY DEF OnlyStraysSpoil
  <2>2. Exact(arc, d)
    BY <1>1, <1>2, <2>1 DEF OnlyStraysSpoil
  <2>3. CASE d # c
    BY <1>2, <1>3, <2>2, <2>3, Zenon DEF Exact
  <2>4. CASE d = c
    <3>1. progress[c] = 0
      BY <1>1, <2>1, <2>4 DEF ProgressInv, Clean, Before
    <3>2. stream[c].session \in Sessions /\ First(c) \in {1, 2}
      BY <1>0 DEF Thread, First
    <3>3. mirror[arc].chunks = <<>>
      BY <2>2, <2>4, <3>1, <3>2, ExactIsOutput, NoOutput
    <3>4. First(c)' \in {1, 2} /\ progress'[c] = 0
      BY <3>1 DEF First
    <3>5. Output(s, First(c)', 0) = <<>>
      BY <3>4, NoOutput
    <3>6. mirror'[arc].chunks = Output(stream'[c].session, First(c)', progress'[c])
      BY <1>1, <1>3, <3>3, <3>4, <3>5
    <3>7. QED BY <2>4, <3>6, Zenon DEF Exact, Output, First
  <2>5. QED BY <2>3, <2>4
<1>8. QED BY <1>4, <1>5, <1>6, <1>7

LEMMA ReplaceKeepsExact ==
    ASSUME TypeOK, ArcInv, ServedInv, ExactInv, NEW c \in Streams, Replace(c), registry # None
    PROVE  ExactInv'
<1> USE DEF ExactInv
<1> DEFINE a == registry.mirror
<1>0. /\ stream \in [Streams -> Thread] /\ stream[c] \in Thread
      /\ a \in Streams
      /\ drawnFor \in [Streams -> Streams \cup {None}]
      /\ mirror \in [Streams -> [chunks: Seq(Chunk), size: Sizes]]
  BY DEF TypeOK, Entry
<1>1. /\ stream[c].at = "replace"
      /\ stream' = [stream EXCEPT ![c].at = "continue", ![c].arc = a]
      /\ mirror' = [mirror EXCEPT ![a] = mirror[c], ![c].chunks = <<>>]
      /\ drawnFor' = [drawnFor EXCEPT ![a] = c, ![c] = None]
      /\ UNCHANGED <<registry, progress, strays>>
  BY DEF Replace, At
<1>2. a # c /\ ~Fresh(a) /\ drawnFor[c] = c
  BY <1>0, <1>1 DEF ArcInv, Live, HomeInv, Fresh
<1>3. /\ stream'[c].at = "continue"
      /\ stream'[c].session = stream[c].session
      /\ stream'[c].restored = stream[c].restored
      /\ stream'[c].gapped = stream[c].gapped
      /\ stream'[c].delivered = stream[c].delivered
  BY <1>0, <1>1 DEF Thread
<1>4. \A d \in Streams \ {c} : stream'[d] = stream[d]
  BY <1>0, <1>1
<1>5. /\ mirror'[a].chunks = mirror[c].chunks
      /\ \A arc \in Streams \ {a, c} : mirror'[arc] = mirror[arc]
  BY <1>0, <1>1, <1>2
<1>6. /\ drawnFor'[a] = c /\ drawnFor'[c] = None
      /\ \A arc \in Streams \ {a, c} : drawnFor'[arc] = drawnFor[arc]
  BY <1>0, <1>1, <1>2
<1> HIDE DEF a
<1>7. HomeInv'
  <2>1. ASSUME NEW x \in Streams, NEW y \in Streams, drawnFor'[x] # None,
               drawnFor'[x] = drawnFor'[y]
        PROVE  x = y
    <3>1. \A arc \in Streams \ {a, c} : drawnFor[arc] # c
      BY <1>2, RegistryAssumption DEF HomeInv
    <3>2. QED BY <1>6, <2>1, <3>1 DEF HomeInv
  <2>2. ASSUME NEW d \in Streams, Fresh(d)' PROVE drawnFor'[d] = d
    <3>1. d # c /\ Fresh(d)
      BY <1>3, <1>4, <2>2 DEF Fresh
    <3>2. QED BY <1>2, <1>6, <3>1 DEF HomeInv
  <2>3. QED BY <2>1, <2>2 DEF HomeInv
<1>8. ProgressInv'
  <2>1. SUFFICES ASSUME NEW d \in Streams, Clean(d)'
                 PROVE  /\ Before(d)' => progress'[d] = 0 /\ stream'[d].delivered = 0
                        /\ After(d)' /\ ~At(d, "feed")' => progress'[d] = stream'[d].delivered
                        /\ At(d, "feed")' => /\ progress'[d] = stream'[d].delivered - 1
                                             /\ stream'[d].held = d
                                             /\ stream'[d].delivered > 0
    BY DEF ProgressInv
  <2>2. CASE d = c
    <3>1. progress[c] = 0 /\ stream[c].delivered = 0
      BY <1>1, <1>3, <2>1, <2>2 DEF ProgressInv, Clean, Before, Fresh
    <3>2. QED BY <1>1, <1>3, <2>2, <3>1 DEF Before, After, Fresh, Consuming, At
  <2>3. CASE d # c
    <3>1. Clean(d) /\ stream'[d] = stream[d] /\ progress'[d] = progress[d]
      BY <1>1, <1>4, <2>1, <2>3 DEF Clean
    <3>2. QED BY <3>1 DEF ProgressInv, Before, After, Fresh, Consuming, At
  <2>4. QED BY <2>2, <2>3
<1>9. DropInv'
  <2>1. Before(c)
    BY <1>1 DEF Before, Fresh
  <2>2. registry # None => registry.progress # c
    BY <2>1, NotYetServed
  <2>3. SUFFICES ASSUME NEW d \in Streams, Clean(d)'
                 PROVE  /\ At(d, "feed")' => (stream'[d].dropping <=>
                                stream'[d].restored /\ stream'[d].delivered = 1)
                        /\ registry' # None /\ registry'.progress = d => (registry'.drop <=>
                                stream'[d].restored /\ stream'[d].delivered = 0)
    BY DEF DropInv
  <2>4. CASE d = c
    BY <1>1, <1>3, <2>2, <2>4 DEF At
  <2>5. CASE d # c
    <3>1. Clean(d) /\ stream'[d] = stream[d]
      BY <1>1, <1>4, <2>3, <2>5 DEF Clean
    <3>2. QED BY <1>1, <3>1 DEF DropInv, At
  <2>6. QED BY <2>4, <2>5
<1>10. OnlyStraysSpoil'
  <2>1. SUFFICES ASSUME NEW arc \in Streams, NEW d \in Streams,
                        drawnFor'[arc] = d, d \notin strays, ~stream'[d].gapped
                 PROVE  Exact(arc, d)'
    BY <1>1 DEF OnlyStraysSpoil
  <2>2. /\ stream'[d].session = stream[d].session
        /\ stream'[d].restored = stream[d].restored
        /\ ~stream[d].gapped
        /\ progress'[d] = progress[d]
    BY <1>1, <1>3, <1>4, <2>1
  <2>3. CASE arc = a
    <3>1. d = c
      BY <1>6, <2>1, <2>3
    <3>2. Exact(c, c)
      BY <1>2, <2>1, <2>2, <3>1 DEF OnlyStraysSpoil
    <3>3. QED BY <1>5, <2>2, <2>3, <3>1, <3>2, Zenon DEF Exact
  <2>4. CASE arc = c
    BY <1>6, <2>1, <2>4, RegistryAssumption
  <2>5. CASE arc \notin {a, c}
    <3>1. Exact(arc, d)
      BY <1>6, <2>1, <2>2, <2>5 DEF OnlyStraysSpoil
    <3>2. mirror'[arc] = mirror[arc]
      BY <1>5, <2>5
    <3>3. QED BY <2>2, <3>1, <3>2, Zenon DEF Exact
  <2>6. QED BY <2>3, <2>4, <2>5
<1>11. QED BY <1>7, <1>8, <1>9, <1>10

LEMMA InsertKeepsExact ==
    ASSUME TypeOK, ServedInv, ExactInv, NEW c \in Streams, Insert(c)
    PROVE  ExactInv'
<1> USE DEF ExactInv
<1>0. stream \in [Streams -> Thread] /\ stream[c] \in Thread
  BY DEF TypeOK
<1>1. /\ stream[c].at = "insert"
      /\ stream'[c] = [stream[c] EXCEPT !.at = "consume"]
      /\ \A d \in Streams \ {c} : stream'[d] = stream[d]
      /\ registry'.progress = c /\ registry'.drop = stream[c].restored
      /\ UNCHANGED <<mirror, progress, drawnFor, strays>>
  BY <1>0 DEF Insert, At, Goto
<1>2. /\ stream'[c].at = "consume"
      /\ stream'[c].session = stream[c].session
      /\ stream'[c].restored = stream[c].restored
      /\ stream'[c].gapped = stream[c].gapped
      /\ stream'[c].delivered = stream[c].delivered
  BY <1>0, <1>1 DEF Thread
<1>3. HomeInv'
  BY <1>1, <1>2 DEF HomeInv, Fresh
<1>4. Clean(c) => progress[c] = 0 /\ stream[c].delivered = 0
  BY <1>1 DEF ProgressInv, Before
<1>5. ProgressInv'
  <2>1. SUFFICES ASSUME NEW d \in Streams, Clean(d)'
                 PROVE  /\ Before(d)' => progress'[d] = 0 /\ stream'[d].delivered = 0
                        /\ After(d)' /\ ~At(d, "feed")' => progress'[d] = stream'[d].delivered
                        /\ At(d, "feed")' => /\ progress'[d] = stream'[d].delivered - 1
                                             /\ stream'[d].held = d
                                             /\ stream'[d].delivered > 0
    BY DEF ProgressInv
  <2>2. CASE d = c
    <3>1. progress[c] = 0 /\ stream[c].delivered = 0
      BY <1>1, <1>2, <2>1, <2>2 DEF ProgressInv, Clean, Before, Fresh
    <3>2. ~Before(d)' /\ stream'[d].at # "feed"
      BY <1>2, <2>2 DEF Before, Fresh
    <3>3. progress'[d] = 0 /\ stream'[d].delivered = 0
      BY <1>1, <1>2, <2>2, <3>1
    <3>4. QED BY <3>2, <3>3 DEF At
  <2>3. CASE d # c
    <3>1. Clean(d) /\ stream'[d] = stream[d] /\ progress'[d] = progress[d]
      BY <1>1, <2>1, <2>3 DEF Clean
    <3>2. QED BY <3>1 DEF ProgressInv, Before, After, Fresh, Consuming, At
  <2>4. QED BY <2>2, <2>3
<1>6. DropInv'
  <2>1. SUFFICES ASSUME NEW d \in Streams, Clean(d)'
                 PROVE  /\ At(d, "feed")' => (stream'[d].dropping <=>
                                stream'[d].restored /\ stream'[d].delivered = 1)
                        /\ registry' # None /\ registry'.progress = d => (registry'.drop <=>
                                stream'[d].restored /\ stream'[d].delivered = 0)
    BY DEF DropInv
  <2>2. CASE d = c
    <3>1. Clean(c)
      BY <1>1, <1>2, <2>1, <2>2 DEF Clean
    <3>2. ~At(d, "feed")'
      BY <1>2, <2>2 DEF At
    <3>3. registry'.drop = stream'[d].restored /\ stream'[d].delivered = 0
      BY <1>1, <1>2, <1>4, <2>2, <3>1
    <3>4. stream[c].restored \in BOOLEAN
      BY <1>0 DEF Thread
    <3>5. QED BY <1>2, <2>2, <3>2, <3>3, <3>4
  <2>3. CASE d # c
    <3>1. Clean(d) /\ stream'[d] = stream[d]
      BY <1>1, <2>1, <2>3 DEF Clean
    <3>2. QED BY <1>1, <2>3, <3>1 DEF DropInv, At
  <2>4. QED BY <2>2, <2>3
<1>7. OnlyStraysSpoil'
  <2>1. SUFFICES ASSUME NEW arc \in Streams, NEW d \in Streams,
                        drawnFor[arc] = d, d \notin strays, ~stream'[d].gapped
                 PROVE  Exact(arc, d)'
    BY <1>1 DEF OnlyStraysSpoil
  <2>2. Exact(arc, d)
    BY <1>1, <1>2, <2>1 DEF OnlyStraysSpoil
  <2>3. /\ stream'[d].session = stream[d].session
        /\ stream'[d].restored = stream[d].restored
    BY <1>1, <1>2
  <2>4. mirror'[arc].chunks = mirror[arc].chunks /\ progress'[d] = progress[d]
    BY <1>1
  <2>5. QED BY <2>2, <2>3, <2>4, Zenon DEF Exact
<1>8. QED BY <1>3, <1>5, <1>6, <1>7

--------------------------------------------------------------------------------
\* Steps of the consumer that feed output, or lose it.

LEMMA AdmitOutputKeepsExact ==
    ASSUME TypeOK, ExactInv, NEW c \in Streams, AdmitOutput(c)
    PROVE  ExactInv'
<1> USE DEF ExactInv
<1>0. /\ stream \in [Streams -> Thread] /\ stream[c] \in Thread
      /\ stream[c].delivered \in Nat /\ stream[c].restored \in BOOLEAN
  <2>1. stream \in [Streams -> Thread] /\ stream[c] \in Thread
    BY DEF TypeOK
  <2>2. stream[c].delivered \in Sequence /\ stream[c].restored \in BOOLEAN
    BY <2>1 DEF Thread
  <2>3. QED BY <2>1, <2>2 DEF Sequence
<1>1. /\ stream[c].at = "consume" /\ registry # None
      /\ stream' = [stream EXCEPT ![c].at = "feed", ![c].delivered = @ + 1,
                                  ![c].held = registry.progress,
                                  ![c].dropping = registry.drop]
      /\ registry' = [registry EXCEPT !.drop = FALSE]
      /\ strays' = IF registry.progress = c THEN strays ELSE strays \cup {registry.progress, c}
      /\ UNCHANGED <<mirror, progress, drawnFor>>
  BY DEF AdmitOutput, At, Owns
<1>2. /\ stream'[c].at = "feed"
      /\ stream'[c].session = stream[c].session
      /\ stream'[c].restored = stream[c].restored
      /\ stream'[c].gapped = stream[c].gapped
      /\ stream'[c].delivered = stream[c].delivered + 1
      /\ stream'[c].held = registry.progress
      /\ stream'[c].dropping = registry.drop
  BY <1>0, <1>1 DEF Thread
<1>3. \A d \in Streams \ {c} : stream'[d] = stream[d]
  BY <1>0, <1>1
<1>4. registry'.progress = registry.progress /\ registry'.drop = FALSE
  BY <1>1 DEF TypeOK, Entry
<1>5. /\ \A d \in Streams : Clean(d)' => Clean(d)
      /\ Clean(c)' => registry.progress = c
      /\ \A d \in Streams \ {c} : Clean(d)' => registry.progress # d
  BY <1>1, <1>2, <1>3 DEF Clean
<1>6. HomeInv'
  BY <1>1, <1>2, <1>3 DEF HomeInv, Fresh
<1>7. ProgressInv'
  <2>1. SUFFICES ASSUME NEW d \in Streams, Clean(d)'
                 PROVE  /\ Before(d)' => progress'[d] = 0 /\ stream'[d].delivered = 0
                        /\ After(d)' /\ ~At(d, "feed")' => progress'[d] = stream'[d].delivered
                        /\ At(d, "feed")' => /\ progress'[d] = stream'[d].delivered - 1
                                             /\ stream'[d].held = d
                                             /\ stream'[d].delivered > 0
    BY DEF ProgressInv
  <2>2. CASE d = c
    <3>1. progress[c] = stream[c].delivered
      BY <1>1, <1>5, <2>1, <2>2 DEF ProgressInv, After, Consuming, At
    <3>2. /\ progress'[d] = stream'[d].delivered - 1
          /\ stream'[d].held = d
          /\ stream'[d].delivered > 0
      BY <1>0, <1>1, <1>2, <1>5, <2>1, <2>2, <3>1
    <3>3. ~Before(d)' /\ At(d, "feed")'
      BY <1>2, <2>2 DEF Before, Fresh, At
    <3>4. QED BY <3>2, <3>3
  <2>3. CASE d # c
    <3>1. Clean(d) /\ stream'[d] = stream[d] /\ progress'[d] = progress[d]
      BY <1>1, <1>3, <1>5, <2>1, <2>3
    <3>2. QED BY <3>1 DEF ProgressInv, Before, After, Fresh, Consuming, At
  <2>4. QED BY <2>2, <2>3
<1>8. DropInv'
  <2>1. SUFFICES ASSUME NEW d \in Streams, Clean(d)'
                 PROVE  /\ At(d, "feed")' => (stream'[d].dropping <=>
                                stream'[d].restored /\ stream'[d].delivered = 1)
                        /\ registry' # None /\ registry'.progress = d => (registry'.drop <=>
                                stream'[d].restored /\ stream'[d].delivered = 0)
    BY DEF DropInv
  <2>2. CASE d = c
    <3>1. registry.drop <=> stream[c].restored /\ stream[c].delivered = 0
      BY <1>1, <1>5, <2>1, <2>2 DEF DropInv
    <3>2. stream'[d].dropping <=> stream'[d].restored /\ stream'[d].delivered = 1
      BY <1>0, <1>2, <2>2, <3>1
    <3>3. stream'[d].delivered # 0
      BY <1>0, <1>2, <2>2
    <3>4. QED BY <1>4, <3>2, <3>3
  <2>3. CASE d # c
    <3>1. Clean(d) /\ stream'[d] = stream[d] /\ registry'.progress # d
      BY <1>3, <1>4, <1>5, <2>1, <2>3
    <3>2. QED BY <3>1 DEF DropInv, At
  <2>4. QED BY <2>2, <2>3
<1>9. OnlyStraysSpoil'
  <2>1. SUFFICES ASSUME NEW arc \in Streams, NEW d \in Streams,
                        drawnFor[arc] = d, d \notin strays', ~stream'[d].gapped
                 PROVE  Exact(arc, d)'
    BY <1>1 DEF OnlyStraysSpoil
  <2>2. Exact(arc, d)
    BY <1>5, <2>1 DEF OnlyStraysSpoil, Clean
  <2>3. /\ stream'[d].session = stream[d].session
        /\ stream'[d].restored = stream[d].restored
    BY <1>2, <1>3
  <2>4. mirror'[arc].chunks = mirror[arc].chunks /\ progress'[d] = progress[d]
    BY <1>1
  <2>5. QED BY <2>2, <2>3, <2>4, Zenon DEF Exact
<1>10. QED BY <1>6, <1>7, <1>8, <1>9

LEMMA FeedKeepsExact ==
    ASSUME TypeOK, ExactInv, NEW c \in Streams, Feed(c)
    PROVE  ExactInv'
<1> USE DEF ExactInv
<1> DEFINE a == stream[c].arc
           h == stream[c].held
           n == stream[c].delivered
<1>0. /\ stream \in [Streams -> Thread] /\ stream[c] \in Thread
      /\ a \in Streams /\ h \in Streams /\ n \in Nat
      /\ stream[c].restored \in BOOLEAN /\ stream[c].session \in Sessions
      /\ mirror \in [Streams -> [chunks: Seq(Chunk), size: Sizes]]
      /\ progress \in [Streams -> Sequence]
  <2>1. /\ stream \in [Streams -> Thread] /\ stream[c] \in Thread
        /\ mirror \in [Streams -> [chunks: Seq(Chunk), size: Sizes]]
        /\ progress \in [Streams -> Sequence]
    BY DEF TypeOK
  <2>2. /\ a \in Streams /\ h \in Streams /\ n \in Sequence
        /\ stream[c].restored \in BOOLEAN /\ stream[c].session \in Sessions
    BY <2>1 DEF Thread
  <2>3. n \in Nat
    BY <2>2 DEF Sequence
  <2>4. QED BY <2>1, <2>2, <2>3
<1>1. /\ stream[c].at = "feed"
      /\ mirror' = IF stream[c].dropping THEN mirror
                   ELSE [mirror EXCEPT ![a].chunks = Append(@, <<stream[c].session, n>>)]
      /\ progress' = [progress EXCEPT ![h] = n]
      /\ strays' = IF drawnFor[a] = c /\ h = c THEN strays
                   ELSE strays \cup {drawnFor[a], h, c}
      /\ stream' = [stream EXCEPT ![c].at = "publish"]
      /\ UNCHANGED <<registry, drawnFor>>
  BY DEF Feed, At, Goto
<1> HIDE DEF a, h, n
<1>2. /\ stream'[c].at = "publish"
      /\ stream'[c].session = stream[c].session
      /\ stream'[c].restored = stream[c].restored
      /\ stream'[c].gapped = stream[c].gapped
      /\ stream'[c].delivered = n
  BY <1>0, <1>1 DEF Thread, n
<1>3. \A d \in Streams \ {c} : stream'[d] = stream[d]
  BY <1>0, <1>1
<1>4. /\ \A d \in Streams : Clean(d)' => Clean(d)
      /\ Clean(c)' => drawnFor[a] = c /\ h = c
      /\ \A d \in Streams \ {c} : Clean(d)' => drawnFor[a] # d /\ h # d
  BY <1>1, <1>2, <1>3 DEF Clean
<1>5. /\ progress'[h] = n
      /\ \A d \in Streams \ {h} : progress'[d] = progress[d]
  BY <1>0, <1>1
<1>6. /\ \A arc \in Streams \ {a} : mirror'[arc].chunks = mirror[arc].chunks
      /\ mirror'[a].chunks = IF stream[c].dropping THEN mirror[a].chunks
                             ELSE Append(mirror[a].chunks, <<stream[c].session, n>>)
  BY <1>0, <1>1
<1>7. HomeInv'
  BY <1>1, <1>2, <1>3 DEF HomeInv, Fresh
<1>8. ProgressInv'
  <2>1. SUFFICES ASSUME NEW d \in Streams, Clean(d)'
                 PROVE  /\ Before(d)' => progress'[d] = 0 /\ stream'[d].delivered = 0
                        /\ After(d)' /\ ~At(d, "feed")' => progress'[d] = stream'[d].delivered
                        /\ At(d, "feed")' => /\ progress'[d] = stream'[d].delivered - 1
                                             /\ stream'[d].held = d
                                             /\ stream'[d].delivered > 0
    BY DEF ProgressInv
  <2>2. CASE d = c
    <3>1. progress'[d] = stream'[d].delivered
      BY <1>2, <1>4, <1>5, <2>1, <2>2
    <3>2. ~Before(d)' /\ ~At(d, "feed")'
      BY <1>2, <2>2 DEF Before, Fresh, At
    <3>3. QED BY <3>1, <3>2
  <2>3. CASE d # c
    <3>1. Clean(d) /\ stream'[d] = stream[d] /\ progress'[d] = progress[d]
      BY <1>3, <1>4, <1>5, <2>1, <2>3
    <3>2. QED BY <3>1 DEF ProgressInv, Before, After, Fresh, Consuming, At
  <2>4. QED BY <2>2, <2>3
<1>9. DropInv'
  <2>1. SUFFICES ASSUME NEW d \in Streams, Clean(d)'
                 PROVE  /\ At(d, "feed")' => (stream'[d].dropping <=>
                                stream'[d].restored /\ stream'[d].delivered = 1)
                        /\ registry' # None /\ registry'.progress = d => (registry'.drop <=>
                                stream'[d].restored /\ stream'[d].delivered = 0)
    BY DEF DropInv
  <2>2. Clean(d) /\ registry' = registry
    BY <1>1, <1>4, <2>1
  <2>3. CASE d = c
    <3>1. ~At(d, "feed")' /\ stream'[d].restored = stream[d].restored
          /\ stream'[d].delivered = stream[d].delivered
      BY <1>2, <2>3 DEF At, n
    <3>2. QED BY <2>2, <3>1 DEF DropInv
  <2>4. CASE d # c
    <3>1. stream'[d] = stream[d]
      BY <1>3, <2>4
    <3>2. QED BY <2>2, <3>1 DEF DropInv, At
  <2>5. QED BY <2>3, <2>4
<1>10. OnlyStraysSpoil'
  <2>1. SUFFICES ASSUME NEW arc \in Streams, NEW d \in Streams,
                        drawnFor[arc] = d, d \notin strays', ~stream'[d].gapped
                 PROVE  Exact(arc, d)'
    BY <1>1 DEF OnlyStraysSpoil
  <2>2. Clean(d)' /\ Clean(d)
    BY <1>4, <2>1 DEF Clean
  <2>3. Exact(arc, d)
    BY <2>1, <2>2 DEF OnlyStraysSpoil, Clean
  <2>4. CASE d # c
    <3>1. arc # a /\ d # h
      BY <1>4, <2>1, <2>2, <2>4
    <3>2. /\ stream'[d] = stream[d] /\ progress'[d] = progress[d]
          /\ mirror'[arc].chunks = mirror[arc].chunks
      BY <1>3, <1>5, <1>6, <2>4, <3>1
    <3>3. QED BY <2>3, <3>2, Zenon DEF Exact
  <2>5. CASE d = c
    <3>1. arc = a /\ h = c
      <4>1. drawnFor[a] = c /\ h = c
        BY <1>4, <2>2, <2>5
      <4>2. drawnFor[arc] = drawnFor[a] /\ drawnFor[arc] # None
        BY <2>1, <2>5, <4>1, RegistryAssumption
      <4>3. QED BY <1>0, <4>1, <4>2 DEF HomeInv
    <3>2. /\ progress[c] = n - 1 /\ n > 0
          /\ stream[c].dropping <=> stream[c].restored /\ n = 1
      BY <1>1, <2>2, <2>5 DEF ProgressInv, DropInv, At, n
    <3> DEFINE s == stream[c].session
    <3>3. First(c) \in {1, 2} /\ (First(c) = 2 <=> stream[c].restored) /\ s \in Sessions
      BY <1>0 DEF First
    <3>4. mirror[a].chunks = Output(s, First(c), n - 1)
      BY <2>3, <2>5, <3>1, <3>2, ExactIsOutput
    <3> HIDE DEF s
    <3>5. mirror'[a].chunks = Output(s, First(c), n)
      <4>1. CASE stream[c].dropping
        <5>1. n - 1 < First(c) /\ n < First(c) /\ n - 1 \in Int /\ n \in Int
          BY <1>0, <3>2, <3>3, <4>1
        <5>2. Output(s, First(c), n - 1) = <<>> /\ Output(s, First(c), n) = <<>>
          BY <3>3, <5>1, NoOutput
        <5>3. QED BY <1>6, <3>4, <4>1, <5>2
      <4>2. CASE ~stream[c].dropping
        <5>1. First(c) <= n
          BY <1>0, <3>2, <3>3, <4>2
        <5>2. Append(Output(s, First(c), n - 1), <<s, n>>) = Output(s, First(c), n)
          BY <1>0, <3>3, <5>1, OutputGrows
        <5>3. mirror'[a].chunks = Append(mirror[a].chunks, <<s, n>>)
          BY <1>6, <4>2 DEF s
        <5>4. QED BY <3>4, <5>2, <5>3
      <4>3. QED BY <4>1, <4>2
    <3>6. /\ stream'[c].session = s /\ First(c)' = First(c) /\ progress'[c] = n
      BY <1>2, <1>5, <3>1 DEF s, First
    <3>7. mirror'[arc].chunks = Output(stream'[d].session, First(d)', progress'[d])
      BY <2>5, <3>1, <3>5, <3>6
    <3>8. QED BY <3>7, Zenon DEF Exact, Output, First
  <2>6. QED BY <2>4, <2>5
<1>11. QED BY <1>7, <1>8, <1>9, <1>10

\* Nothing is promised of a stream that lost output.
LEMMA LossKeepsExact ==
    ASSUME TypeOK, ExactInv, NEW c \in Streams, Gap(c) \/ Reopened(c)
    PROVE  ExactInv'
<1> USE DEF ExactInv
<1>0. stream \in [Streams -> Thread] /\ stream[c] \in Thread
  BY DEF TypeOK
<1>1. /\ ~Fresh(c)' /\ stream'[c].gapped
      /\ \A d \in Streams \ {c} : stream'[d] = stream[d]
  <2>1. CASE Gap(c)
    BY <1>0, <2>1 DEF Gap, At, Fresh, Thread
  <2>2. CASE Reopened(c)
    BY <1>0, <2>2 DEF Reopened, Fresh, Thread
  <2>3. QED BY <2>1, <2>2
<1>2. /\ registry # None
      /\ registry'.progress = registry.progress
      /\ registry'.drop = registry.drop
  <2>1. registry # None /\ registry \in Entry
    BY DEF Gap, Reopened, Owns, TypeOK
  <2>2. CASE Gap(c)
    BY <2>1, <2>2 DEF Gap, Entry
  <2>3. CASE Reopened(c)
    BY <2>1, <2>3 DEF Reopened, Entry
  <2>4. QED BY <2>1, <2>2, <2>3
<1>3. UNCHANGED <<mirror, progress, drawnFor, strays>>
  BY DEF Gap, Reopened, history
<1>4. \A d \in Streams : Clean(d)' => d # c /\ Clean(d) /\ stream'[d] = stream[d]
  BY <1>1, <1>3 DEF Clean
<1>5. HomeInv'
  BY <1>1, <1>3 DEF HomeInv, Fresh
<1>6. ProgressInv'
  BY <1>3, <1>4 DEF ProgressInv, Before, After, Fresh, Consuming, At
<1>7. DropInv'
  BY <1>2, <1>4 DEF DropInv, At
<1>8. OnlyStraysSpoil'
  <2>1. SUFFICES ASSUME NEW arc \in Streams, NEW d \in Streams,
                        drawnFor[arc] = d, d \notin strays, ~stream'[d].gapped
                 PROVE  Exact(arc, d)'
    BY <1>3 DEF OnlyStraysSpoil
  <2>2. Clean(d) /\ stream'[d] = stream[d]
    BY <1>3, <1>4, <2>1 DEF Clean
  <2>3. Exact(arc, d)
    BY <2>1, <2>2 DEF OnlyStraysSpoil, Clean
  <2>4. QED BY <1>3, <2>2, <2>3, Zenon DEF Exact
<1>9. QED BY <1>5, <1>6, <1>7, <1>8

--------------------------------------------------------------------------------
LEMMA InitExact == Init => ExactInv
<1> SUFFICES ASSUME Init PROVE ExactInv
  OBVIOUS
<1>1. /\ registry = None
      /\ progress = [c \in Streams |-> 0]
      /\ drawnFor = [c \in Streams |-> c]
      /\ \A c \in Streams : mirror[c].chunks = <<>>
  <2>1. PICK size \in Sizes : mirror = [c \in Streams |-> [chunks |-> <<>>, size |-> size]]
    BY Zenon DEF Init
  <2>2. registry = None /\ progress = [c \in Streams |-> 0] /\ drawnFor = [c \in Streams |-> c]
    BY Zenon DEF Init
  <2>3. QED BY <2>1, <2>2
<1>2. \A c \in Streams : /\ stream[c].at = "idle" /\ stream[c].delivered = 0
                         /\ ~stream[c].restored /\ stream[c].session \in Sessions
  <2>1. PICK size \in Sizes : \E s \in Sessions :
            stream = [c \in Streams |->
                [at |-> "idle", session |-> s, arc |-> c, signal |-> c, size |-> c,
                 restored |-> FALSE, delivered |-> 0, gapped |-> FALSE,
                 held |-> c, dropping |-> FALSE, grid |-> size, told |-> FALSE]]
    BY Zenon DEF Init
  <2>2. PICK s \in Sessions :
            stream = [c \in Streams |->
                [at |-> "idle", session |-> s, arc |-> c, signal |-> c, size |-> c,
                 restored |-> FALSE, delivered |-> 0, gapped |-> FALSE,
                 held |-> c, dropping |-> FALSE, grid |-> size, told |-> FALSE]]
    BY <2>1, Zenon
  <2>3. QED BY <2>2
<1>3. HomeInv
  BY <1>1 DEF HomeInv
<1>4. ProgressInv /\ DropInv
  BY <1>1, <1>2 DEF ProgressInv, DropInv, Before, After, Fresh, Consuming, At
<1>5. OnlyStraysSpoil
  <2>1. SUFFICES ASSUME NEW arc \in Streams, NEW c \in Streams PROVE Exact(arc, c)
    BY DEF OnlyStraysSpoil
  <2>2. First(c) \in {1, 2} /\ progress[c] = 0 /\ stream[c].session \in Sessions
    BY <1>1, <1>2 DEF First
  <2>3. Output(stream[c].session, First(c), 0) = <<>>
    BY <2>2, NoOutput
  <2>4. QED BY <1>1, <2>2, <2>3, ExactIsOutput
<1>6. QED BY <1>3, <1>4, <1>5 DEF ExactInv

LEMMA ExactStep == IInv /\ ExactInv /\ [Next]_vars => ExactInv'
<1> SUFFICES ASSUME IInv, ExactInv, [Next]_vars PROVE ExactInv'
  OBVIOUS
<1>1. TypeOK /\ ArcInv /\ ServedInv /\ ServedInv'
  BY IInvStep DEF IInv
<1>2. Quiet => ExactInv'
  BY <1>1, QuietKeepsExact
<1>3. ASSUME NEW c \in Streams, Caller(c) PROVE ExactInv'
  <2>1. CASE EnsureListed(c) \/ EnsureFails(c) \/ Continue(c)
    BY <1>1, <1>2, <2>1, CallerIsQuiet
  <2>2. ASSUME NEW s \in Sessions, NEW size \in Sizes, Subscribe(c, s, size) PROVE ExactInv'
    <3>1. /\ Fresh(c) /\ Opened(c, s, size, FALSE, "insert")
          /\ UNCHANGED <<registry, progress, drawnFor, strays>>
      BY <2>2 DEF Subscribe, At, Fresh, history
    <3>2. QED BY <1>1, <3>1, OpenedKeepsExact
  <2>3. ASSUME NEW s \in Sessions, NEW size \in Sizes, NEW restored \in BOOLEAN,
               EnsurePrepared(c, s, size, restored)
        PROVE  ExactInv'
    <3>1. /\ Fresh(c) /\ Opened(c, s, size, restored, "replace")
          /\ UNCHANGED <<registry, progress, drawnFor, strays>>
      BY <2>3 DEF EnsurePrepared, At, Fresh
    <3>2. QED BY <1>1, <3>1, OpenedKeepsExact
  <2>4. CASE Replace(c)
    BY <1>1, <1>2, <2>4, CallerIsQuiet, ReplaceKeepsExact
  <2>5. CASE Insert(c)
    BY <1>1, <2>5, InsertKeepsExact
  <2>6. QED BY <1>3, <2>1, <2>2, <2>3, <2>4, <2>5 DEF Caller
<1>4. ASSUME NEW c \in Streams, Consumer(c) PROVE ExactInv'
  <2>1. CASE \/ Refuse(c) \/ End(c) \/ Evict(c)
             \/ (\E grid \in Sizes : AdmitResize(c, grid)) \/ ResizeMirror(c) \/ AnnounceSize(c)
    BY <1>1, <1>2, <2>1, ConsumerIsQuiet
  <2>2. CASE Publish(c)
    BY <1>1, <1>2, <2>2, PublishIsQuiet
  <2>3. CASE AdmitOutput(c)
    BY <1>1, <2>3, AdmitOutputKeepsExact
  <2>4. CASE Feed(c)
    BY <1>1, <2>4, FeedKeepsExact
  <2>5. CASE Gap(c) \/ Reopened(c)
    BY <1>1, <2>5, LossKeepsExact
  <2>6. QED BY <1>4, <2>1, <2>2, <2>3, <2>4, <2>5 DEF Consumer
<1>5. CASE \/ \E grid \in Sizes : Resize(grid)
           \/ \E after \in Awaited : FrameRequest(after)
           \/ WaitForSequence \/ Answered
           \/ UNCHANGED vars
  BY <1>1, <1>2, <1>5, CommandIsQuiet
<1>6. QED BY <1>3, <1>4, <1>5 DEF Next

\* While sessions of a pane are installed, replaced, evicted and cut by gaps beside one
\* another, every mirror draws exactly its own stream's output up to the sequence in its
\* atomic, less the one replay a restored checkpoint stands for, unless a consumer that
\* was not its own wrote to it or to that atomic, or took the stream's drop flag.
THEOREM Exactness == Spec => []OnlyStraysSpoil
<1>1. Init => IInv /\ ExactInv
  BY InitIInv, InitExact
<1>2. (IInv /\ ExactInv) /\ [Next]_vars => (IInv /\ ExactInv)'
  BY IInvStep, ExactStep
<1>3. ExactInv => OnlyStraysSpoil
  BY DEF ExactInv
<1>4. QED BY <1>1, <1>2, <1>3, PTL DEF Spec
--------------------------------------------------------------------------------
\* Sessions that follow one another, and one ensureSession at a time.

\* A stream that lost output shows in the entry it is served from.
LossInv ==
    /\ \A c \in Streams : Before(c) => ~stream[c].gapped
    /\ registry # None /\ stream[registry.progress].gapped => registry.gaps

\* The caller has its mirror's place, and its entry is not in yet.
Placing(c) == stream[c].at \in {"continue", "insert"}

\* One ensureSession at a time: the content a caller put in a mirror is there when its
\* entry goes in, and stays until the next caller's does.
ReplacementInv ==
    ~raced =>
        /\ \A c, d \in Streams : Installing(c) /\ Installing(d) => c = d
        /\ \A c \in Streams : Placing(c) => drawnFor[stream[c].arc] = c
        /\ registry # None /\ (\A c \in Streams : ~Placing(c))
              => drawnFor[registry.mirror] = registry.progress

\* One stream at a time: it installs into a pane without an entry, and nobody has
\* another's handles.
Alone ==
    /\ \A c, d \in Streams : Running(c) /\ Running(d) => c = d
    /\ \A c \in Streams : Installing(c) => registry = None

OwnHandles ==
    /\ strays = {}
    /\ \A c \in Streams :
        /\ drawnFor[c] = c /\ stream[c].arc = c /\ stream[c].signal = c
        /\ At(c, "feed") => stream[c].held = c
    /\ registry # None => /\ registry.mirror = registry.progress
                          /\ registry.signal = registry.progress
    /\ request # None => /\ request.mirror = request.progress
                         /\ request.signal = request.progress

\* A signal says no more than the mirror holds, so that a waiter it lets through reads
\* what it waited for.
SignalInv == \A c \in Streams : ~stream[c].gapped => signal[c] <= progress[c]

SerialInv == ~overlap => Alone /\ OwnHandles /\ SignalInv /\ FrameCoversRequest

HandoffInv == LossInv /\ ReplacementInv /\ SerialInv

--------------------------------------------------------------------------------
\* What a step does to the loss flags.
LosesNothing ==
    /\ \A d \in Streams : stream'[d].gapped = stream[d].gapped
    /\ registry' # None => /\ registry # None
                           /\ registry'.progress = registry.progress
                           /\ registry'.gaps = registry.gaps

LEMMA CallerLosses ==
    ASSUME TypeOK, NEW c \in Streams, Caller(c)
    PROVE  \/ LosesNothing
           \/ /\ \A d \in Streams : stream'[d].gapped = stream[d].gapped
              /\ stream[c].at = "insert"
              /\ registry'.progress = c
<1> USE DEF LosesNothing
<1>0. stream \in [Streams -> Thread] /\ stream[c] \in Thread
  BY DEF TypeOK
<1>1. CASE EnsureListed(c)
  BY <1>0, <1>1 DEF EnsureListed, Goto, Thread
<1>2. CASE EnsureFails(c)
  <2>1. stream' = [stream EXCEPT ![c] = Ended(@, c)] /\ UNCHANGED registry
    BY <1>2 DEF EnsureFails
  <2>2. QED BY <1>0, <2>1, ThreadsAreQuiet
<1>3. ASSUME NEW s \in Sessions, NEW size \in Sizes, Subscribe(c, s, size)
      PROVE  LosesNothing
  BY <1>0, <1>3 DEF Subscribe, Opened, Thread
<1>4. ASSUME NEW s \in Sessions, NEW size \in Sizes, NEW restored \in BOOLEAN,
             EnsurePrepared(c, s, size, restored)
      PROVE  LosesNothing
  BY <1>0, <1>4 DEF EnsurePrepared, Opened, Thread
<1>5. CASE Replace(c)
  <2>1. \/ Goto(c, "insert")
        \/ stream' = [stream EXCEPT ![c].at = "continue", ![c].arc = registry.mirror]
    BY <1>5 DEF Replace
  <2>2. UNCHANGED registry
    BY <1>5 DEF Replace
  <2>3. QED BY <1>0, <2>1, <2>2 DEF Goto, Thread
<1>6. CASE Continue(c)
  BY <1>0, <1>6 DEF Continue, Thread
<1>7. CASE Insert(c)
  BY <1>0, <1>7 DEF Insert, At, Goto, Thread
<1>8. QED BY <1>1, <1>2, <1>3, <1>4, <1>5, <1>6, <1>7 DEF Caller

LEMMA ConsumerLosses ==
    ASSUME TypeOK, NEW c \in Streams, Consumer(c)
    PROVE  \/ LosesNothing
           \/ /\ stream[c].at = "consume"
              /\ stream'[c].gapped
              /\ \A d \in Streams \ {c} : stream'[d].gapped = stream[d].gapped
              /\ registry # None
              /\ registry'.progress = registry.progress
              /\ registry'.gaps
<1> USE DEF LosesNothing
<1>0. stream \in [Streams -> Thread] /\ stream[c] \in Thread
  BY DEF TypeOK
<1>1. registry # None => registry \in Entry
  BY DEF TypeOK
<1>2. CASE Refuse(c) \/ End(c)
  BY <1>0, <1>2 DEF Refuse, End, Goto, Thread
<1>3. CASE AdmitOutput(c)
  BY <1>0, <1>1, <1>3 DEF AdmitOutput, Owns, Thread, Entry
<1>4. CASE Feed(c)
  BY <1>0, <1>4 DEF Feed, Goto, Thread
<1>5. CASE Publish(c)
  <2>1. CASE ~Owns(c)
    <3>1. Goto(c, "evict") /\ UNCHANGED registry
      BY <1>5, <2>1 DEF Publish
    <3>2. QED BY <1>0, <3>1 DEF Goto, Thread
  <2>2. CASE Owns(c)
    <3>1. /\ registry' = [registry EXCEPT !.source = stream[c].delivered]
          /\ stream' = [stream EXCEPT ![c] = Returned(@, c)]
      BY <1>5, <2>2 DEF Publish
    <3>2. registry # None /\ registry'.progress = registry.progress
          /\ registry'.gaps = registry.gaps
      BY <1>1, <2>2, <3>1 DEF Entry, Owns
    <3>3. QED BY <1>0, <3>1, <3>2, ThreadsAreQuiet
  <2>3. QED BY <2>1, <2>2
<1>6. ASSUME NEW grid \in Sizes, AdmitResize(c, grid) PROVE LosesNothing
  BY <1>0, <1>6 DEF AdmitResize, Thread
<1>7. CASE ResizeMirror(c)
  BY <1>0, <1>7 DEF ResizeMirror, Goto, Thread
<1>8. CASE AnnounceSize(c)
  <2>1. /\ stream'[c] = [Returned(stream[c], c) EXCEPT !.told = TRUE]
        /\ \A d \in Streams \ {c} :
            stream'[d] = [stream[d] EXCEPT !.told = @ /\ stream[d].size # stream[c].held]
        /\ UNCHANGED registry
    BY <1>8 DEF AnnounceSize
  <2>2. \A d \in Streams \ {c} : stream'[d].gapped = stream[d].gapped
    <3>1. \A d \in Streams : stream[d] \in Thread
      BY <1>0
    <3>2. QED BY <2>1, <3>1 DEF Thread
  <2>3. stream'[c].gapped = stream[c].gapped
    <3>1. Returned(stream[c], c) \in Thread
      BY <1>0, ThreadsEnd
    <3>2. QED BY <1>0, <2>1, <3>1, ThreadsAreQuiet DEF Thread
  <2>4. QED BY <2>1, <2>2, <2>3
<1>9. CASE Gap(c)
  BY <1>0, <1>1, <1>9 DEF Gap, Owns, At, Thread, Entry
<1>10. CASE Reopened(c)
  BY <1>0, <1>1, <1>10 DEF Reopened, Owns, At, Thread, Entry
<1>11. CASE Evict(c)
  <2>1. stream' = [stream EXCEPT ![c] = Ended(@, c)]
    BY <1>11 DEF Evict
  <2>2. QED BY <1>0, <1>11, <2>1, ThreadsAreQuiet DEF Evict
<1>12. QED BY <1>2, <1>3, <1>4, <1>5, <1>6, <1>7, <1>8, <1>9, <1>10, <1>11 DEF Consumer

LEMMA LossStep ==
    ASSUME TypeOK, LossInv, NEW c \in Streams, Caller(c) \/ Consumer(c)
    PROVE  LossInv'
<1> USE DEF LossInv, Before, Fresh
<1>0. registry # None => registry.progress \in Streams
  BY DEF TypeOK, Entry
<1>1. \A d \in Streams : Before(d)' => Before(d)
  BY CallerMoves, ConsumerMoves DEF Moves, Consumes
<1>2. CASE LosesNothing
  BY <1>0, <1>1, <1>2 DEF LosesNothing
<1>3. CASE Caller(c) /\ ~LosesNothing
  BY <1>1, <1>3, CallerLosses
<1>4. CASE Consumer(c) /\ ~LosesNothing
  <2>1. stream[c].at = "consume"
    BY <1>4, ConsumerLosses
  <2>2. ~Before(c)
    BY <2>1
  <2>3. QED BY <1>1, <1>4, <2>2, ConsumerLosses
<1>5. QED BY <1>2, <1>3, <1>4

--------------------------------------------------------------------------------
\* Only the first step of a caller looks for other threads.
LEMMA Histories ==
    ASSUME NEW c \in Streams, Caller(c) \/ Consumer(c)
    PROVE  \/ stream[c].at = "idle" /\ Concurrent(c)
           \/ stream[c].at # "idle" /\ UNCHANGED <<overlap, raced>>
<1>1. CASE Caller(c)
  BY <1>1 DEF Caller, EnsureListed, EnsureFails, Subscribe, EnsurePrepared, Replace, Continue,
              Insert, At, history
<1>2. CASE Consumer(c)
  BY <1>2 DEF Consumer, Refuse, AdmitOutput, Feed, Publish, AdmitResize, ResizeMirror,
              AnnounceSize, Gap, End, Reopened, Evict, At, history
<1>3. QED BY <1>1, <1>2

LEMMA ReplacementStep ==
    ASSUME TypeOK, HomeInv, ArcInv, ReplacementInv, NEW c \in Streams, Caller(c) \/ Consumer(c)
    PROVE  ReplacementInv'
<1> SUFFICES ASSUME ~raced' PROVE ReplacementInv'
  BY DEF ReplacementInv
<1> USE DEF Placing, Installing
<1>0. /\ registry # None => registry.mirror \in Streams
      /\ \A d \in Streams : stream[d].arc \in Streams
      /\ drawnFor \in [Streams -> Streams \cup {None}]
  BY DEF TypeOK, Entry, Thread
<1>1. ~raced /\ (stream[c].at = "idle" => \A d \in Streams \ {c} : ~Installing(d))
  BY Histories DEF Concurrent
<1>2. /\ \A d, e \in Streams : Installing(d) /\ Installing(e) => d = e
      /\ \A d \in Streams : Placing(d) => drawnFor[stream[d].arc] = d
      /\ registry # None /\ (\A d \in Streams : ~Placing(d))
            => drawnFor[registry.mirror] = registry.progress
  BY <1>1 DEF ReplacementInv
<1>3. ASSUME Moves(c, {"idle"}, {"subscribe", "replace"}), UNCHANGED <<registry, drawnFor>>
      PROVE  ReplacementInv'
  BY <1>1, <1>2, <1>3 DEF ReplacementInv, Moves
<1>4. ASSUME Moves(c, {"subscribe", "replace"}, {"insert", "done"}),
             SameArc(c) \/ stream'[c].at = "done", UNCHANGED <<registry, drawnFor>>
      PROVE  ReplacementInv'
  <2>1. stream[c].arc = c /\ drawnFor[c] = c
    BY <1>4 DEF ArcInv, HomeInv, Fresh, Moves
  <2>2. QED BY <1>1, <1>2, <1>4, <2>1 DEF ReplacementInv, Moves, SameArc
<1>5. ASSUME Moves(c, {"replace"}, {"continue"}),
             registry # None,
             stream'[c].arc = registry.mirror,
             drawnFor' = [drawnFor EXCEPT ![registry.mirror] = c, ![c] = None],
             UNCHANGED registry
      PROVE  ReplacementInv'
  <2>1. Fresh(c) /\ registry.mirror # c
    BY <1>5 DEF ArcInv, Live, Fresh, Moves
  <2>2. drawnFor'[registry.mirror] = c
    BY <1>0, <1>5, <2>1
  <2>3. \A d \in Streams \ {c} : ~Installing(d)'
    BY <1>2, <1>5 DEF Moves
  <2>4. QED BY <1>5, <2>2, <2>3 DEF ReplacementInv, Moves
<1>6. ASSUME Moves(c, {"continue"}, {"insert"}), SameArc(c), UNCHANGED <<registry, drawnFor>>
      PROVE  ReplacementInv'
  BY <1>1, <1>2, <1>6 DEF ReplacementInv, Moves, SameArc
<1>7. ASSUME Moves(c, {"insert"}, {"consume"}), SameArc(c),
             registry'.mirror = stream[c].arc, registry'.progress = c, UNCHANGED drawnFor
      PROVE  ReplacementInv'
  BY <1>1, <1>2, <1>7 DEF ReplacementInv, Moves
<1>8. CASE Caller(c)
  <2>1. ASSUME Moves(c, {"subscribe"}, {"insert", "done"}) \/ Moves(c, {"replace"}, {"insert"})
        PROVE  Moves(c, {"subscribe", "replace"}, {"insert", "done"})
    BY <2>1 DEF Moves
  <2>2. QED BY <1>3, <1>4, <1>5, <1>6, <1>7, <1>8, <2>1, CallerMoves
<1>9. ASSUME Moves(c, Consumes, Consumes \cup {"evict"}), SameEntry, UNCHANGED drawnFor
      PROVE  ReplacementInv'
  BY <1>1, <1>2, <1>9 DEF ReplacementInv, Moves, SameEntry, Consumes
<1>10. ASSUME Moves(c, {"evict"}, {"done"}),
              registry' = IF Owns(c) THEN None ELSE registry, UNCHANGED drawnFor
      PROVE  ReplacementInv'
  BY <1>1, <1>2, <1>10 DEF ReplacementInv, Moves
<1>11. CASE Consumer(c)
  BY <1>9, <1>10, <1>11, ConsumerMoves
<1>12. QED BY <1>8, <1>11
--------------------------------------------------------------------------------
\* One stream at a time.

LEMMA AloneStep ==
    ASSUME TypeOK, ServedInv, Alone, NEW c \in Streams, Caller(c) \/ Consumer(c), ~overlap'
    PROVE  Alone'
<1> USE DEF Alone, Running, Installing
<1>1. stream[c].at = "idle" => \A d \in Streams \ {c} : ~Running(d)
  BY Histories DEF Concurrent
<1>2. registry # None => registry.progress \in Streams /\ Running(registry.progress)
  BY DEF ServedInv, Consuming, At, TypeOK, Entry
<1>3. CASE Caller(c)
  <2>1. stream[c].at = "idle" => registry = None
    BY <1>1, <1>2
  <2>2. QED BY <1>1, <1>3, <2>1, CallerMoves DEF Moves
<1>4. CASE Consumer(c)
  BY <1>4, ConsumerMoves DEF Moves, Consumes, SameEntry
<1>5. QED BY <1>3, <1>4

\* The handles stay a stream's own while nothing takes another entry over.
LEMMA SameHandles ==
    ASSUME TypeOK, OwnHandles, UNCHANGED <<drawnFor, strays, request>>,
           \A d \in Streams : /\ stream'[d].arc = stream[d].arc
                              /\ stream'[d].signal = stream[d].signal
                              /\ At(d, "feed")' => At(d, "feed") /\ stream'[d].held = stream[d].held,
           registry' # None => /\ registry # None
                               /\ registry'.mirror = registry.mirror
                               /\ registry'.signal = registry.signal
                               /\ registry'.progress = registry.progress
    PROVE  OwnHandles'
  BY DEF OwnHandles, At

LEMMA HandlesEnd ==
    ASSUME NEW thread \in Thread, NEW c \in Streams
    PROVE  /\ Returned(thread, c).signal = thread.signal
           /\ [Returned(thread, c) EXCEPT !.told = TRUE].at = "consume"
           /\ [Returned(thread, c) EXCEPT !.told = TRUE].arc = thread.arc
           /\ [Returned(thread, c) EXCEPT !.told = TRUE].signal = thread.signal
           /\ Ended(thread, c).arc = c
           /\ Ended(thread, c).signal = c
<1>1. Returned(thread, c).signal = thread.signal
  BY DEF Returned, Thread
<1>2. ASSUME NEW returned \in Thread
      PROVE  /\ [returned EXCEPT !.told = TRUE].at = returned.at
             /\ [returned EXCEPT !.told = TRUE].arc = returned.arc
             /\ [returned EXCEPT !.told = TRUE].signal = returned.signal
  BY DEF Thread
<1>3. /\ [Returned(thread, c) EXCEPT !.told = TRUE].at = "consume"
      /\ [Returned(thread, c) EXCEPT !.told = TRUE].arc = thread.arc
      /\ [Returned(thread, c) EXCEPT !.told = TRUE].signal = thread.signal
  <2> DEFINE returned == Returned(thread, c)
  <2>1. /\ returned \in Thread /\ returned.at = "consume"
        /\ returned.arc = thread.arc /\ returned.signal = thread.signal
    BY <1>1, ThreadsEnd
  <2> HIDE DEF returned
  <2>2. /\ [returned EXCEPT !.told = TRUE].at = "consume"
        /\ [returned EXCEPT !.told = TRUE].arc = thread.arc
        /\ [returned EXCEPT !.told = TRUE].signal = thread.signal
    BY <1>2, <2>1
  <2>3. QED BY <2>2 DEF returned
<1>4. ASSUME NEW returned \in Thread
      PROVE  LET ended == [returned EXCEPT !.at = "done", !.told = FALSE, !.arc = c,
                              !.signal = c, !.size = c, !.delivered = 0]
             IN  ended.arc = c /\ ended.signal = c
  BY DEF Thread
<1>5. Ended(thread, c).arc = c /\ Ended(thread, c).signal = c
  BY <1>4, ThreadsEnd DEF Ended
<1>6. QED BY <1>1, <1>3, <1>5

LEMMA CallerHandles ==
    ASSUME TypeOK, Alone, OwnHandles, NEW c \in Streams, Caller(c)
    PROVE  OwnHandles'
<1>0. stream \in [Streams -> Thread] /\ stream[c] \in Thread
  BY DEF TypeOK
<1> USE DEF history
<1>1. CASE EnsureListed(c)
  <2>1. \A d \in Streams : /\ stream'[d].arc = stream[d].arc
                           /\ stream'[d].signal = stream[d].signal
                           /\ At(d, "feed")' => At(d, "feed") /\ stream'[d].held = stream[d].held
    BY <1>0, <1>1 DEF EnsureListed, At, Goto, Thread
  <2>2. QED BY <1>1, <2>1, SameHandles DEF EnsureListed
<1>2. CASE EnsureFails(c)
  <2>1. stream' = [stream EXCEPT ![c] = Ended(@, c)]
        /\ UNCHANGED <<registry, drawnFor, strays, request>>
    BY <1>2 DEF EnsureFails
  <2>2. stream'[c].arc = c /\ stream'[c].signal = c /\ stream'[c].at = "done"
    <3>1. stream'[c] = Ended(stream[c], c)
      BY <1>0, <2>1
    <3>2. Ended(stream[c], c).arc = c /\ Ended(stream[c], c).signal = c
      BY <1>0, HandlesEnd
    <3>3. Ended(stream[c], c).at = "done"
      BY <1>0, ThreadsEnd
    <3>4. QED BY <3>1, <3>2, <3>3
  <2>3. \A d \in Streams \ {c} : stream'[d] = stream[d]
    BY <1>0, <2>1
  <2>4. QED BY <2>1, <2>2, <2>3 DEF OwnHandles, At
<1>3. ASSUME NEW s \in Sessions, NEW size \in Sizes, NEW restored \in BOOLEAN,
             NEW next \in {"replace", "insert"}, Opened(c, s, size, restored, next),
             UNCHANGED <<registry, drawnFor, strays, request>>
      PROVE  OwnHandles'
  <2>1. \A d \in Streams : /\ stream'[d].arc = stream[d].arc
                           /\ stream'[d].signal = stream[d].signal
                           /\ At(d, "feed")' => At(d, "feed") /\ stream'[d].held = stream[d].held
    BY <1>0, <1>3 DEF Opened, At, Thread
  <2>2. QED BY <1>3, <2>1, SameHandles
<1>4. ASSUME NEW s \in Sessions, NEW size \in Sizes, Subscribe(c, s, size) PROVE OwnHandles'
  BY <1>3, <1>4 DEF Subscribe
<1>5. ASSUME NEW s \in Sessions, NEW size \in Sizes, NEW restored \in BOOLEAN,
             EnsurePrepared(c, s, size, restored)
      PROVE  OwnHandles'
  BY <1>3, <1>5 DEF EnsurePrepared
<1>6. ASSUME registry = None, Goto(c, "insert"), UNCHANGED <<registry, drawnFor, strays, request>>
      PROVE  OwnHandles'
  <2>1. \A d \in Streams : /\ stream'[d].arc = stream[d].arc
                           /\ stream'[d].signal = stream[d].signal
                           /\ At(d, "feed")' => At(d, "feed") /\ stream'[d].held = stream[d].held
    BY <1>0, <1>6 DEF At, Goto, Thread
  <2>2. QED BY <1>6, <2>1, SameHandles
<1>7. CASE Replace(c)
  <2>1. registry = None
    BY <1>7 DEF Replace, Alone, Installing, At
  <2>2. QED BY <1>6, <1>7, <2>1 DEF Replace
<1>8. CASE Continue(c)
  <2>1. registry = None
    BY <1>8 DEF Continue, Alone, Installing, At
  <2>2. Goto(c, "insert")
    BY <1>0, <1>8, <2>1 DEF Continue, Goto
  <2>3. QED BY <1>6, <1>8, <2>1, <2>2 DEF Continue
<1>9. CASE Insert(c)
  <2>1. /\ registry'.mirror = c /\ registry'.signal = c /\ registry'.progress = c
        /\ UNCHANGED <<drawnFor, strays, request>>
    BY <1>9 DEF Insert, OwnHandles
  <2>2. \A d \in Streams : /\ stream'[d].arc = stream[d].arc
                           /\ stream'[d].signal = stream[d].signal
                           /\ At(d, "feed")' => At(d, "feed") /\ stream'[d].held = stream[d].held
    BY <1>0, <1>9 DEF Insert, Goto, At, Thread
  <2>3. QED BY <2>1, <2>2 DEF OwnHandles, At
<1>10. QED BY <1>1, <1>2, <1>4, <1>5, <1>7, <1>8, <1>9 DEF Caller

LEMMA ConsumerHandles ==
    ASSUME TypeOK, ServedInv, Alone, OwnHandles, NEW c \in Streams, Consumer(c)
    PROVE  OwnHandles'
<1>0. stream \in [Streams -> Thread] /\ stream[c] \in Thread
  BY DEF TypeOK
<1> USE DEF history
<1>1. registry # None => registry \in Entry /\ registry.progress = c
  <2>1. Running(c)
    BY ConsumerMoves DEF Moves, Consumes, Running
  <2>2. registry # None => registry.progress \in Streams /\ Running(registry.progress)
    BY DEF ServedInv, Consuming, Running, At, TypeOK, Entry
  <2>3. QED BY <2>1, <2>2 DEF Alone, TypeOK
<1>2. ASSUME UNCHANGED <<drawnFor, strays, request>>,
             stream'[c].arc = stream[c].arc, stream'[c].signal = stream[c].signal,
             stream'[c].at # "feed",
             \A d \in Streams \ {c} : stream'[d] = stream[d],
             registry' # None => /\ registry # None
                                 /\ registry'.mirror = registry.mirror
                                 /\ registry'.signal = registry.signal
                                 /\ registry'.progress = registry.progress
      PROVE  OwnHandles'
  BY <1>2, SameHandles DEF At
<1>3. CASE Refuse(c) \/ End(c)
  <2>1. /\ stream'[c].arc = stream[c].arc /\ stream'[c].signal = stream[c].signal
        /\ stream'[c].at # "feed"
        /\ \A d \in Streams \ {c} : stream'[d] = stream[d]
    BY <1>0, <1>3 DEF Refuse, End, Goto, Thread
  <2>2. QED BY <1>2, <1>3, <2>1 DEF Refuse, End
<1>4. CASE AdmitOutput(c)
  <2>1. /\ registry # None
        /\ registry'.mirror = registry.mirror
        /\ registry'.signal = registry.signal
        /\ registry'.progress = registry.progress
    BY <1>1, <1>4 DEF AdmitOutput, Owns, Entry
  <2>2. /\ stream'[c].arc = stream[c].arc /\ stream'[c].signal = stream[c].signal
        /\ stream'[c].held = c
        /\ \A d \in Streams \ {c} : stream'[d] = stream[d]
    BY <1>0, <1>1, <1>4, <2>1 DEF AdmitOutput, Thread
  <2>3. UNCHANGED <<drawnFor, strays, request>>
    BY <1>1, <1>4, <2>1 DEF AdmitOutput
  <2>4. QED BY <2>1, <2>2, <2>3 DEF OwnHandles, At
<1>5. CASE Feed(c)
  <2>1. UNCHANGED <<registry, drawnFor, strays, request>>
    BY <1>5 DEF Feed, OwnHandles
  <2>2. /\ stream'[c].arc = stream[c].arc /\ stream'[c].signal = stream[c].signal
        /\ stream'[c].at # "feed"
        /\ \A d \in Streams \ {c} : stream'[d] = stream[d]
    BY <1>0, <1>5 DEF Feed, Goto, Thread
  <2>3. QED BY <1>2, <2>1, <2>2
<1>6. CASE Publish(c)
  <2>1. UNCHANGED <<drawnFor, strays, request>>
    BY <1>6 DEF Publish
  <2>2. CASE ~Owns(c)
    <3>1. Goto(c, "evict") /\ UNCHANGED registry
      BY <1>6, <2>2 DEF Publish
    <3>2. /\ stream'[c].arc = stream[c].arc /\ stream'[c].signal = stream[c].signal
          /\ stream'[c].at # "feed"
          /\ \A d \in Streams \ {c} : stream'[d] = stream[d]
      BY <1>0, <3>1 DEF Goto, Thread
    <3>3. QED BY <1>2, <2>1, <3>1, <3>2
  <2>3. CASE Owns(c)
    <3>1. /\ registry' = [registry EXCEPT !.source = stream[c].delivered]
          /\ stream' = [stream EXCEPT ![c] = Returned(@, c)]
      BY <1>6, <2>3 DEF Publish
    <3>2. /\ registry # None
          /\ registry'.mirror = registry.mirror
          /\ registry'.signal = registry.signal
          /\ registry'.progress = registry.progress
      BY <1>1, <2>3, <3>1 DEF Owns, Entry
    <3>3. /\ stream'[c].arc = stream[c].arc /\ stream'[c].signal = stream[c].signal
          /\ stream'[c].at # "feed"
          /\ \A d \in Streams \ {c} : stream'[d] = stream[d]
      BY <1>0, <3>1, ThreadsEnd, HandlesEnd
    <3>4. QED BY <1>2, <2>1, <3>2, <3>3
  <2>4. QED BY <2>2, <2>3
<1>7. ASSUME NEW grid \in Sizes, AdmitResize(c, grid) PROVE OwnHandles'
  <2>1. /\ stream'[c].arc = stream[c].arc /\ stream'[c].signal = stream[c].signal
        /\ stream'[c].at # "feed"
        /\ \A d \in Streams \ {c} : stream'[d] = stream[d]
    BY <1>0, <1>7 DEF AdmitResize, Thread
  <2>2. QED BY <1>2, <1>7, <2>1 DEF AdmitResize
<1>8. CASE ResizeMirror(c)
  <2>1. /\ stream'[c].arc = stream[c].arc /\ stream'[c].signal = stream[c].signal
        /\ stream'[c].at # "feed"
        /\ \A d \in Streams \ {c} : stream'[d] = stream[d]
    BY <1>0, <1>8 DEF ResizeMirror, Goto, Thread
  <2>2. QED BY <1>2, <1>8, <2>1 DEF ResizeMirror
<1>9. CASE AnnounceSize(c)
  <2>1. /\ stream'[c] = [Returned(stream[c], c) EXCEPT !.told = TRUE]
        /\ \A d \in Streams \ {c} :
            stream'[d] = [stream[d] EXCEPT !.told = @ /\ stream[d].size # stream[c].held]
        /\ UNCHANGED <<registry, drawnFor, strays, request>>
    BY <1>9 DEF AnnounceSize
  <2>2. \A d \in Streams \ {c} : /\ stream'[d].at = stream[d].at
                                 /\ stream'[d].arc = stream[d].arc
                                 /\ stream'[d].signal = stream[d].signal
                                 /\ stream'[d].held = stream[d].held
    <3>1. ASSUME NEW thread \in Thread, NEW told
          PROVE  LET other == [thread EXCEPT !.told = told]
                 IN  /\ other.at = thread.at /\ other.arc = thread.arc
                     /\ other.signal = thread.signal /\ other.held = thread.held
      BY DEF Thread
    <3>2. ASSUME NEW d \in Streams \ {c}
          PROVE  /\ stream'[d].at = stream[d].at
                 /\ stream'[d].arc = stream[d].arc
                 /\ stream'[d].signal = stream[d].signal
                 /\ stream'[d].held = stream[d].held
      <4>1. \E told : stream'[d] = [stream[d] EXCEPT !.told = told]
        BY <2>1, Zenon
      <4>2. stream[d] \in Thread
        BY <1>0
      <4>3. QED BY <3>1, <4>1, <4>2
    <3>3. QED BY <3>2
  <2>3. /\ stream'[c].at = "consume"
        /\ stream'[c].arc = stream[c].arc /\ stream'[c].signal = stream[c].signal
    BY <1>0, <2>1, HandlesEnd
  <2>4. \A d \in Streams : /\ stream'[d].arc = stream[d].arc
                           /\ stream'[d].signal = stream[d].signal
                           /\ At(d, "feed")' => At(d, "feed") /\ stream'[d].held = stream[d].held
    BY <2>2, <2>3 DEF At
  <2>5. QED BY <2>1, <2>4, SameHandles
<1>10. CASE Gap(c) \/ Reopened(c)
  <2>1. registry # None
    BY <1>10 DEF Gap, Reopened, Owns
  <2>2. /\ registry'.mirror = registry.mirror
        /\ registry'.signal = registry.signal
        /\ registry'.progress = registry.progress
    <3>1. CASE Gap(c)
      BY <1>1, <2>1, <3>1 DEF Gap, Entry
    <3>2. CASE Reopened(c)
      BY <1>1, <2>1, <3>2 DEF Reopened, Entry
    <3>3. QED BY <1>10, <3>1, <3>2
  <2>3. /\ stream'[c].arc = stream[c].arc /\ stream'[c].signal = stream[c].signal
        /\ stream'[c].at # "feed"
        /\ \A d \in Streams \ {c} : stream'[d] = stream[d]
    <3>1. CASE Gap(c)
      BY <1>0, <3>1 DEF Gap, At, Thread
    <3>2. CASE Reopened(c)
      BY <1>0, <3>2 DEF Reopened, At, Thread
    <3>3. QED BY <1>10, <3>1, <3>2
  <2>4. QED BY <1>2, <1>10, <2>1, <2>2, <2>3 DEF Gap, Reopened
<1>11. CASE Evict(c)
  <2>1. /\ stream' = [stream EXCEPT ![c] = Ended(@, c)]
        /\ registry' = IF Owns(c) THEN None ELSE registry
        /\ UNCHANGED <<drawnFor, strays, request>>
    BY <1>11 DEF Evict
  <2>2. stream'[c].arc = c /\ stream'[c].signal = c /\ stream'[c].at = "done"
    <3>1. stream'[c] = Ended(stream[c], c)
      BY <1>0, <2>1
    <3>2. Ended(stream[c], c).arc = c /\ Ended(stream[c], c).signal = c
      BY <1>0, HandlesEnd
    <3>3. Ended(stream[c], c).at = "done"
      BY <1>0, ThreadsEnd
    <3>4. QED BY <3>1, <3>2, <3>3
  <2>3. \A d \in Streams \ {c} : stream'[d] = stream[d]
    BY <1>0, <2>1
  <2>4. QED BY <2>1, <2>2, <2>3 DEF OwnHandles, At
<1>12. QED BY <1>3, <1>4, <1>5, <1>6, <1>7, <1>8, <1>9, <1>10, <1>11 DEF Consumer
\* A signal is set to what was fed, and a mirror's atomic only goes up; what a gap set
\* it past was not.
LEMMA ConsumerCovers ==
    ASSUME IInv, ExactInv, Alone, OwnHandles, SignalInv, NEW c \in Streams, Consumer(c)
    PROVE  /\ SignalInv'
           /\ \A d \in Streams : ~stream'[d].gapped => /\ ~stream[d].gapped
                                                       /\ progress[d] <= progress'[d]
<1> DEFINE Covers == /\ SignalInv'
                     /\ \A d \in Streams : ~stream'[d].gapped => /\ ~stream[d].gapped
                                                                 /\ progress[d] <= progress'[d]
<1>0. /\ stream \in [Streams -> Thread] /\ stream[c] \in Thread
      /\ signal \in [Streams -> Sequence] /\ progress \in [Streams -> Sequence]
      /\ stream[c].delivered \in Sequence
  <2>1. /\ stream \in [Streams -> Thread] /\ stream[c] \in Thread
        /\ signal \in [Streams -> Sequence] /\ progress \in [Streams -> Sequence]
    BY DEF IInv, TypeOK
  <2>2. QED BY <2>1 DEF Thread
<1>1. \A d \in Streams : ~stream'[d].gapped => ~stream[d].gapped
  BY ConsumerLosses DEF LosesNothing, IInv
<1>2. ~stream[c].gapped => Clean(c)
  BY DEF Clean, OwnHandles
<1>3. ASSUME UNCHANGED <<signal, progress>> PROVE Covers
  BY <1>0, <1>1, <1>3 DEF SignalInv, Sequence
<1>4. CASE Feed(c)
  <2>1. stream[c].at = "feed" /\ stream[c].held = c
    BY <1>4 DEF Feed, OwnHandles, At
  <2>2. /\ UNCHANGED signal
        /\ progress' = [progress EXCEPT ![c] = stream[c].delivered]
    BY <1>4, <2>1 DEF Feed
  <2>3. ~stream[c].gapped => progress[c] = stream[c].delivered - 1
    BY <1>2, <2>1 DEF ExactInv, ProgressInv, At
  <2>4. \A d \in Streams : ~stream[d].gapped => progress[d] <= progress'[d]
    BY <1>0, <2>2, <2>3 DEF Sequence
  <2>5. QED BY <1>0, <1>1, <2>2, <2>4 DEF SignalInv, Sequence
<1>5. registry # None => registry.signal = c
  <2>1. Running(c)
    BY ConsumerMoves DEF Moves, Consumes, Running, IInv
  <2>2. registry # None => registry.progress \in Streams /\ Running(registry.progress)
    BY DEF IInv, ServedInv, Consuming, Running, At, TypeOK, Entry
  <2>3. QED BY <2>1, <2>2 DEF Alone, OwnHandles
<1>6. CASE Publish(c)
  <2>1. stream[c].at = "publish" /\ UNCHANGED progress
    BY <1>6 DEF Publish, At
  <2>2. CASE ~Owns(c)
    BY <1>3, <1>6, <2>1, <2>2 DEF Publish
  <2>3. CASE Owns(c)
    <3>1. signal' = [signal EXCEPT ![c] = stream[c].delivered]
      BY <1>5, <1>6, <2>3 DEF Publish, Owns
    <3>2. ~stream[c].gapped => progress[c] = stream[c].delivered
      BY <1>2, <2>1 DEF ExactInv, ProgressInv, After, Consuming, At
    <3>3. QED BY <1>0, <1>1, <2>1, <3>1, <3>2 DEF SignalInv, Sequence
  <2>4. QED BY <2>2, <2>3
<1>7. CASE Gap(c)
  <2>1. /\ UNCHANGED progress
        /\ signal' = [signal EXCEPT ![c] = stream[c].delivered + 1]
    BY <1>5, <1>7 DEF Gap, Owns
  <2>2. stream'[c].gapped
    BY <1>0, <1>7 DEF Gap, At, Thread
  <2>3. QED BY <1>0, <1>1, <2>1, <2>2 DEF SignalInv, Sequence
<1>8. CASE \/ Refuse(c) \/ End(c) \/ Reopened(c) \/ Evict(c) \/ AdmitOutput(c)
           \/ (\E grid \in Sizes : AdmitResize(c, grid)) \/ ResizeMirror(c) \/ AnnounceSize(c)
  BY <1>3, <1>8 DEF Refuse, End, Reopened, Evict, AdmitOutput, AdmitResize, ResizeMirror,
                    AnnounceSize
<1>9. QED BY <1>4, <1>6, <1>7, <1>8 DEF Consumer

LEMMA CallerCovers ==
    ASSUME TypeOK, SignalInv, NEW c \in Streams, Caller(c)
    PROVE  /\ SignalInv'
           /\ \A d \in Streams : ~stream'[d].gapped => /\ ~stream[d].gapped
                                                       /\ progress[d] <= progress'[d]
<1>1. UNCHANGED <<signal, progress>>
  BY DEF Caller, EnsureListed, EnsureFails, Subscribe, EnsurePrepared, Replace, Continue, Insert
<1>2. \A d \in Streams : stream'[d].gapped = stream[d].gapped
  BY CallerLosses DEF LosesNothing
<1>3. \A d \in Streams : progress[d] \in Int
  BY DEF TypeOK, Sequence
<1>4. QED BY <1>1, <1>2, <1>3 DEF SignalInv

LEMMA SerialStep ==
    ASSUME IInv, ExactInv, SerialInv, NEW c \in Streams, Caller(c) \/ Consumer(c)
    PROVE  SerialInv'
<1> SUFFICES ASSUME ~overlap' PROVE SerialInv'
  BY DEF SerialInv
<1>1. TypeOK /\ ServedInv
  BY DEF IInv
<1>2. Alone /\ OwnHandles /\ SignalInv /\ FrameCoversRequest
  BY Histories DEF SerialInv, Concurrent
<1>3. Alone' /\ OwnHandles'
  BY <1>1, <1>2, AloneStep, CallerHandles, ConsumerHandles
<1>4. /\ SignalInv'
      /\ \A d \in Streams : ~stream'[d].gapped => /\ ~stream[d].gapped
                                                  /\ progress[d] <= progress'[d]
  BY <1>1, <1>2, CallerCovers, ConsumerCovers
<1>5. FrameCoversRequest'
  <2>1. UNCHANGED request
    BY DEF Caller, EnsureListed, EnsureFails, Subscribe, EnsurePrepared, Replace, Continue,
           Insert, Consumer, Refuse, AdmitOutput, Feed, Publish, AdmitResize, ResizeMirror,
           AnnounceSize, Gap, End, Reopened, Evict
  <2>2. SUFFICES ASSUME request # None, request.at = "read", ~stream'[request.progress].gapped
                 PROVE  progress'[request.progress] >= request.after
    BY <2>1 DEF FrameCoversRequest
  <2>3. request \in Request
    BY <1>1, <2>2 DEF TypeOK
  <2>4. request.progress \in Streams /\ request.after \in Int
    <3>1. request.progress \in Streams /\ request.after \in Awaited
      BY <2>3 DEF Request
    <3>2. \A after \in Awaited : after \in 0..MaxSequence
      BY RegistryAssumption
    <3>3. \A after \in 0..MaxSequence : after \in Int
      OBVIOUS
    <3>4. QED BY <3>1, <3>2, <3>3
  <2>5. progress[request.progress] \in Int
    BY <1>1, <2>4 DEF TypeOK, Sequence
  <2>6. progress'[request.progress] \in Int
    <3>1. TypeOK'
      BY <1>1, CallerTypes, ConsumerTypes DEF IInv
    <3>2. progress'[request.progress] \in Sequence
      BY <2>4, <3>1 DEF TypeOK
    <3>3. QED BY <3>2 DEF Sequence
  <2>7. /\ progress[request.progress] >= request.after
        /\ progress[request.progress] <= progress'[request.progress]
    BY <1>2, <1>4, <2>2, <2>4 DEF FrameCoversRequest
  <2>8. QED BY <2>4, <2>5, <2>6, <2>7
<1>6. QED BY <1>3, <1>4, <1>5 DEF SerialInv

\* Commands read the entry and the signal, and write neither.
LEMMA SerialCommand ==
    ASSUME TypeOK, SerialInv,
           \/ \E grid \in Sizes : Resize(grid)
           \/ \E after \in Awaited : FrameRequest(after)
           \/ WaitForSequence \/ Answered
           \/ UNCHANGED vars
    PROVE  SerialInv'
<1> SUFFICES ASSUME ~overlap' PROVE SerialInv'
  BY DEF SerialInv
<1>1. UNCHANGED <<registry, progress, signal, stream, drawnFor, strays, overlap>>
  BY DEF Resize, FrameRequest, WaitForSequence, Answered, vars, history
<1>2. Alone /\ OwnHandles /\ SignalInv /\ FrameCoversRequest
  BY <1>1 DEF SerialInv
<1>3. Alone' /\ SignalInv'
  BY <1>1, <1>2 DEF Alone, SignalInv, Running, Installing
<1>4. ASSUME UNCHANGED request \/ request' = None
      PROVE  OwnHandles' /\ FrameCoversRequest'
  BY <1>1, <1>2, <1>4 DEF OwnHandles, FrameCoversRequest, At
<1>5. ASSUME NEW after \in Awaited, FrameRequest(after)
      PROVE  OwnHandles' /\ FrameCoversRequest'
  BY <1>1, <1>2, <1>5 DEF FrameRequest, OwnHandles, FrameCoversRequest, At
<1>6. ASSUME WaitForSequence PROVE OwnHandles' /\ FrameCoversRequest'
  <2>1. request \in Request
    BY <1>6 DEF WaitForSequence, TypeOK
  <2>2. /\ request'.mirror = request.mirror
        /\ request'.progress = request.progress
        /\ request'.signal = request.signal
        /\ request'.after = request.after
    BY <1>6, <2>1 DEF WaitForSequence, Request
  <2>3. request.progress \in Streams /\ request.after \in Int
    <3>1. request.progress \in Streams /\ request.after \in Awaited
      BY <2>1 DEF Request
    <3>2. \A after \in Awaited : after \in 0..MaxSequence
      BY RegistryAssumption
    <3>3. \A after \in 0..MaxSequence : after \in Int
      OBVIOUS
    <3>4. QED BY <3>1, <3>2, <3>3
  <2>4. signal[request.progress] \in Int /\ progress[request.progress] \in Int
    BY <2>3 DEF TypeOK, Sequence
  <2>5. OwnHandles'
    BY <1>1, <1>2, <1>6, <2>2 DEF WaitForSequence, OwnHandles, At
  <2>6. signal[request.progress] >= request.after
    BY <1>2, <1>6 DEF WaitForSequence, OwnHandles
  <2>7. ~stream[request.progress].gapped => progress[request.progress] >= request.after
    BY <1>2, <2>3, <2>4, <2>6 DEF SignalInv
  <2>8. FrameCoversRequest'
    BY <1>1, <2>2, <2>7 DEF FrameCoversRequest
  <2>9. QED BY <2>5, <2>8
<1>7. OwnHandles' /\ FrameCoversRequest'
  BY <1>4, <1>5, <1>6 DEF Resize, Answered, vars
<1>8. QED BY <1>3, <1>7 DEF SerialInv

--------------------------------------------------------------------------------
LEMMA InitHandoff == Init => HandoffInv
<1> SUFFICES ASSUME Init PROVE HandoffInv
  OBVIOUS
<1>1. /\ registry = None /\ request = None /\ strays = {}
      /\ signal = [c \in Streams |-> 0] /\ progress = [c \in Streams |-> 0]
      /\ drawnFor = [c \in Streams |-> c]
  BY Zenon DEF Init
<1>2. \A c \in Streams : /\ stream[c].at = "idle" /\ ~stream[c].gapped
                         /\ stream[c].arc = c /\ stream[c].signal = c
  <2>1. PICK size \in Sizes : \E s \in Sessions :
            stream = [c \in Streams |->
                [at |-> "idle", session |-> s, arc |-> c, signal |-> c, size |-> c,
                 restored |-> FALSE, delivered |-> 0, gapped |-> FALSE,
                 held |-> c, dropping |-> FALSE, grid |-> size, told |-> FALSE]]
    BY Zenon DEF Init
  <2>2. PICK s \in Sessions :
            stream = [c \in Streams |->
                [at |-> "idle", session |-> s, arc |-> c, signal |-> c, size |-> c,
                 restored |-> FALSE, delivered |-> 0, gapped |-> FALSE,
                 held |-> c, dropping |-> FALSE, grid |-> size, told |-> FALSE]]
    BY <2>1, Zenon
  <2>3. QED BY <2>2
<1>3. LossInv
  BY <1>1, <1>2 DEF LossInv
<1>4. ReplacementInv
  BY <1>1, <1>2 DEF ReplacementInv, Installing, Placing
<1>5. SerialInv
  BY <1>1, <1>2 DEF SerialInv, Alone, OwnHandles, SignalInv, FrameCoversRequest,
                    Running, Installing, At
<1>6. QED BY <1>3, <1>4, <1>5 DEF HandoffInv

LEMMA HandoffStep == IInv /\ ExactInv /\ HandoffInv /\ [Next]_vars => HandoffInv'
<1> SUFFICES ASSUME IInv, ExactInv, HandoffInv, [Next]_vars PROVE HandoffInv'
  OBVIOUS
<1>1. /\ TypeOK /\ ArcInv /\ HomeInv
      /\ LossInv /\ ReplacementInv /\ SerialInv
  BY DEF IInv, ExactInv, HandoffInv
<1>2. ASSUME NEW c \in Streams, Caller(c) \/ Consumer(c) PROVE HandoffInv'
  BY <1>1, <1>2, LossStep, ReplacementStep, SerialStep DEF HandoffInv
<1>3. CASE \/ \E grid \in Sizes : Resize(grid)
           \/ \E after \in Awaited : FrameRequest(after)
           \/ WaitForSequence \/ Answered
           \/ UNCHANGED vars
  <2>1. UNCHANGED <<registry, stream, drawnFor, raced>>
    BY <1>3 DEF Resize, FrameRequest, WaitForSequence, Answered, vars, history
  <2>2. LossInv' /\ ReplacementInv'
    BY <1>1, <2>1 DEF LossInv, ReplacementInv, Before, Fresh, Installing, Placing
  <2>3. QED BY <1>1, <1>3, <2>2, SerialCommand DEF HandoffInv
<1>4. QED BY <1>2, <1>3 DEF Next

LEMMA HandoffInvariance == Spec => [](IInv /\ ExactInv /\ HandoffInv)
<1>1. Init => IInv /\ ExactInv /\ HandoffInv
  BY InitIInv, InitExact, InitHandoff
<1>2. (IInv /\ ExactInv /\ HandoffInv) /\ [Next]_vars => (IInv /\ ExactInv /\ HandoffInv)'
  BY IInvStep, ExactStep, HandoffStep
<1>3. QED BY <1>1, <1>2, PTL DEF Spec

\* While a pane's sessions follow each other, what terminal.rehydrate answers and the
\* frame terminal.frame draws are exact and name their own coordinate, and the frame
\* holds the output its caller waited for: through gaps, dropped replays, reopened
\* sources and requests that outlive their session.
THEOREM SerialHandoffs == Spec => []SerialHandoffIsExact
<1>1. IInv /\ ExactInv /\ HandoffInv => SerialHandoffIsExact
  <2> SUFFICES ASSUME IInv, ExactInv, HandoffInv, ~overlap
               PROVE  RehydrateIsExact /\ FrameIsExact /\ FrameCoversRequest
    BY DEF SerialHandoffIsExact
  <2>1. /\ OwnHandles /\ FrameCoversRequest /\ LossInv /\ OnlyStraysSpoil
        /\ TypeOK
    BY DEF HandoffInv, SerialInv, ExactInv, IInv
  <2>2. RehydrateIsExact
    <3>1. SUFFICES ASSUME registry # None, ~registry.gaps
                   PROVE  Exact(registry.mirror, registry.progress)
      BY DEF RehydrateIsExact
    <3>2. registry.progress \in Streams /\ ~stream[registry.progress].gapped
      BY <2>1, <3>1 DEF LossInv, TypeOK, Entry
    <3>3. registry.mirror = registry.progress /\ drawnFor[registry.mirror] = registry.progress
      BY <2>1, <3>1, <3>2 DEF OwnHandles
    <3>4. QED BY <2>1, <3>2, <3>3 DEF OnlyStraysSpoil, OwnHandles
  <2>3. FrameIsExact
    <3>1. SUFFICES ASSUME request # None, ~stream[request.progress].gapped
                   PROVE  Exact(request.mirror, request.progress)
      BY DEF FrameIsExact
    <3>2. request.progress \in Streams
      BY <2>1, <3>1 DEF TypeOK, Request
    <3>3. request.mirror = request.progress /\ drawnFor[request.mirror] = request.progress
      BY <2>1, <3>1, <3>2 DEF OwnHandles
    <3>4. QED BY <2>1, <3>1, <3>2, <3>3 DEF OnlyStraysSpoil, OwnHandles
  <2>4. QED BY <2>1, <2>2, <2>3
<1>2. QED BY <1>1, HandoffInvariance, PTL

\* A session that replaces a live one ends in an entry whose snapshots are exact, when
\* one ensureSession ran at a time and no output of the old consumer went astray.
THEOREM Replacements == Spec => []ReplacementIsExact
<1>1. IInv /\ ExactInv /\ HandoffInv => ReplacementIsExact
  <2> SUFFICES ASSUME IInv, ExactInv, HandoffInv,
                      registry # None, ~registry.gaps, registry.progress \notin strays, ~raced,
                      \A c \in Streams : ~Installing(c)
               PROVE  Exact(registry.mirror, registry.progress)
    BY DEF ReplacementIsExact
  <2>1. registry.mirror \in Streams /\ registry.progress \in Streams
    BY DEF IInv, TypeOK, Entry
  <2>2. drawnFor[registry.mirror] = registry.progress
    BY DEF HandoffInv, ReplacementInv, Installing, Placing
  <2>3. ~stream[registry.progress].gapped
    BY DEF HandoffInv, LossInv
  <2>4. QED BY <2>1, <2>2, <2>3 DEF ExactInv, OnlyStraysSpoil
<1>2. QED BY <1>1, HandoffInvariance, PTL
================================================================================
