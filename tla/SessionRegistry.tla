---------------------------- MODULE SessionRegistry ----------------------------
(***************************************************************************)
(* One pane of the recovery runtime (src/src/runtime.rs): the registry     *)
(* entry of the pane, the mirrors, sequence atomics and signals its        *)
(* handles point to, the callers of terminal.ensureSession that install a  *)
(* session, the consumer thread of every observation stream, and a         *)
(* terminal.frame request.  Panes share only the locks.                    *)
(*                                                                         *)
(* A step is what one thread does under one lock: the registry mutex, or a *)
(* mirror mutex (alone, or inside the registry's).  The code unlocks       *)
(* between them, and every other thread may run there.                     *)
(*                                                                         *)
(* A stream stands for everything made for it: stream c's fresh mirror,    *)
(* its output atomic and its signals are all named c.  Terminal bytes are  *)
(* numbered chunks: what a mirror draws is the sequence of chunks fed to   *)
(* it since its content was put in.  A checkpoint's paint is not counted:  *)
(* that a replay is drawn over one of the same generation is not seen.     *)
(***************************************************************************)
EXTENDS Integers, Sequences

CONSTANTS
    Streams,      \* observation streams, one per ensureSession that opens one
    Sessions,     \* PTY session numbers (a session is one shell generation)
    Sizes,        \* grid sizes
    MaxSequence,  \* bound on the output sequences of a stream
    Awaited,      \* the afterSequence values frame requests carry
    None          \* no registry entry; no outstanding request

ASSUME RegistryAssumption ==
    /\ MaxSequence \in Nat
    /\ Awaited \subseteq 0..MaxSequence
    /\ None \notin Streams

VARIABLES
    registry,  \* the pane's SessionState, or None
    mirror,    \* mirror arc -> chunks drawn, and grid size
    progress,  \* mirror_output_sequence: the output sequence the mirror holds
    signal,    \* frame_signal: the sequence a waiter may proceed at
    gridSize,  \* size_signal: the size a waiter may proceed at
    stream,    \* stream -> its caller's or consumer's control point and locals
    request,   \* the terminal.frame request being served, or None
    drawnFor,  \* history: mirror arc -> stream it was made or refilled for, or None
    strays,    \* history: streams another consumer's output has gone astray into
    overlap,   \* history: an ensureSession ran beside another stream's threads
    raced,     \* history: an ensureSession ran beside another ensureSession
    latest     \* history: the stream whose entry was inserted last, or None

vars == <<registry, mirror, progress, signal, gridSize, stream, request,
          drawnFor, strays, overlap, raced, latest>>

history == <<drawnFor, strays, overlap, raced, latest>>

Sequence == 0..MaxSequence

Chunk == Sessions \X Sequence

Entry == [session: Sessions, mirror: Streams, progress: Streams, signal: Streams,
          size: Streams, drop: BOOLEAN, gaps: BOOLEAN, source: Sequence]

ControlPoint == {"idle", "subscribe", "replace", "continue", "insert",
                 "consume", "feed", "publish", "resize", "announce", "evict", "done"}

\* The threads of a stream: a caller until the entry is inserted, then a consumer.
Thread == [at: ControlPoint, session: Sessions, arc: Streams, signal: Streams,
           size: Streams, restored: BOOLEAN, delivered: Sequence, gapped: BOOLEAN,
           held: Streams, dropping: BOOLEAN, grid: Sizes,
           told: BOOLEAN]  \* told: history, its size signal holds what it announced

Request == [at: {"wait", "read"}, mirror: Streams, progress: Streams,
            signal: Streams, after: Awaited]

ASSUME NoneAssumption == None \notin Entry /\ None \notin Request

--------------------------------------------------------------------------------
At(c, point) == stream[c].at = point

Goto(c, point) == stream' = [stream EXCEPT ![c].at = point]

Running(c) == stream[c].at \notin {"idle", "done"}

Installing(c) == stream[c].at \in {"subscribe", "replace", "continue", "insert"}

Consuming(c) == stream[c].at \in {"consume", "feed", "publish", "resize", "announce"}

\* The locals of a handler go when it returns, and a thread's with the thread.
Returned(thread, c) == [thread EXCEPT !.at = "consume", !.held = c, !.dropping = FALSE]

Ended(thread, c) == [Returned(thread, c) EXCEPT !.at = "done", !.told = FALSE,
                        !.arc = c, !.signal = c, !.size = c, !.delivered = 0]

\* Mutant of Owns: the mirror arc is taken for the owner's identity.
OwnsByMirror(c) == registry # None /\ registry.mirror = stream[c].arc

\* The registry holds this consumer's session.
Owns(c) == registry # None /\ registry.session = stream[c].session

Init ==
    /\ registry = None
    /\ \E size \in Sizes :
        /\ mirror = [c \in Streams |-> [chunks |-> <<>>, size |-> size]]
        /\ gridSize = [c \in Streams |-> size]
        /\ \E s \in Sessions :
            stream = [c \in Streams |->
                [at |-> "idle", session |-> s, arc |-> c, signal |-> c, size |-> c,
                 restored |-> FALSE, delivered |-> 0, gapped |-> FALSE,
                 held |-> c, dropping |-> FALSE, grid |-> size,
                 told |-> FALSE]]
    /\ progress = [c \in Streams |-> 0]
    /\ signal = [c \in Streams |-> 0]
    /\ request = None
    /\ drawnFor = [c \in Streams |-> c]
    /\ strays = {}
    /\ overlap = FALSE
    /\ raced = FALSE
    /\ latest = None

--------------------------------------------------------------------------------
\* terminal.ensureSession

\* The stream opens on session s, and create_session_mirror makes its mirror.  When
\* a checkpoint of another generation is drawn, the first replayed output will not be.
Opened(c, s, size, restored, next) ==
    /\ stream' = [stream EXCEPT ![c] =
                    [@ EXCEPT !.at = next, !.session = s, !.restored = restored,
                              !.grid = size]]
    /\ mirror' = [mirror EXCEPT ![c].size = size]
    /\ gridSize' = [gridSize EXCEPT ![c] = size]

Concurrent(c) ==
    /\ overlap' = (overlap \/ \E d \in Streams \ {c} : Running(d))
    /\ raced' = (raced \/ \E d \in Streams \ {c} : Installing(d))

\* Without a token: a key already held answers subscribed = false and nothing more.
EnsureListed(c) ==
    /\ At(c, "idle")
    /\ registry = None
    /\ Goto(c, "subscribe")
    /\ Concurrent(c)
    /\ UNCHANGED <<registry, mirror, progress, signal, gridSize, request, drawnFor, strays, latest>>

\* subscribe: the stream and a mirror that waits for the replay, no lock held.
Subscribe(c, s, size) ==
    /\ At(c, "subscribe")
    /\ Opened(c, s, size, FALSE, "insert")
    /\ UNCHANGED <<registry, progress, signal, request, history>>

\* The stream does not open, or the pane's checkpoint cannot be claimed.
EnsureFails(c) ==
    /\ At(c, "subscribe")
    /\ stream' = [stream EXCEPT ![c] = Ended(@, c)]
    /\ UNCHANGED <<registry, mirror, progress, signal, gridSize, request, history>>

\* With a token: the prepared stream delivered its opened frame.  A mirror restored from another
\* shell's checkpoint drops the replay.  One that is not starts empty or, not told apart here,
\* with the paint of its own generation's checkpoint, after which the replay is drawn as well.
EnsurePrepared(c, s, size, restored) ==
    /\ At(c, "idle")
    /\ Opened(c, s, size, restored, "replace")
    /\ Concurrent(c)
    /\ UNCHANGED <<registry, progress, signal, request, drawnFor, strays, latest>>

\* Mutant of Replace: the held mirror keeps the content it has.
ReplaceHandlesOnly(c) ==
    /\ At(c, "replace")
    /\ stream' = [stream EXCEPT ![c].at = IF registry = None THEN "insert" ELSE "continue",
                                ![c].arc = IF registry = None THEN @ ELSE registry.mirror]
    /\ drawnFor' = IF registry = None THEN drawnFor
                   ELSE [drawnFor EXCEPT ![registry.mirror] = c, ![c] = None]
    /\ UNCHANGED <<registry, mirror, progress, signal, gridSize, request, strays, overlap, raced, latest>>

\* subscribe_stream: a key already held keeps its mirror arc, and the fresh content
\* goes into it; both locks are held.
Replace(c) ==
    /\ At(c, "replace")
    /\ \/ /\ registry = None
          /\ Goto(c, "insert")
          /\ UNCHANGED <<mirror, drawnFor>>
       \/ /\ registry # None
          /\ stream' = [stream EXCEPT ![c].at = "continue", ![c].arc = registry.mirror]
          /\ mirror' = [mirror EXCEPT ![registry.mirror] = mirror[c], ![c].chunks = <<>>]
          /\ drawnFor' = [drawnFor EXCEPT ![registry.mirror] = c, ![c] = None]
    /\ UNCHANGED <<registry, progress, signal, gridSize, request, strays, overlap, raced, latest>>

\* continue_state, if the entry is still there: its signals go on being used.
Continue(c) ==
    /\ At(c, "continue")
    /\ stream' = [stream EXCEPT ![c] =
                    IF registry = None THEN [@ EXCEPT !.at = "insert"]
                    ELSE [@ EXCEPT !.at = "insert", !.signal = registry.signal,
                                   !.size = registry.size]]
    /\ UNCHANGED <<registry, mirror, progress, signal, gridSize, request, history>>

\* The entry goes in, over whatever is there, and start_consumer spawns the consumer.
Insert(c) ==
    /\ At(c, "insert")
    /\ registry' = [session |-> stream[c].session, mirror |-> stream[c].arc,
                    progress |-> c, signal |-> stream[c].signal,
                    size |-> stream[c].size, drop |-> stream[c].restored,
                    gaps |-> FALSE, source |-> 0]
    /\ Goto(c, "consume")
    /\ latest' = c
    /\ UNCHANGED <<mirror, progress, signal, gridSize, request, drawnFor, strays, overlap, raced>>

--------------------------------------------------------------------------------
\* consume_observations and apply_observation

\* A frame for a session the registry no longer holds ends the consumer.
Refuse(c) ==
    /\ At(c, "consume")
    /\ ~Owns(c)
    /\ Goto(c, "evict")
    /\ UNCHANGED <<registry, mirror, progress, signal, gridSize, request, history>>

\* Mutant of AdmitOutput: the drop flag is read and left set.
AdmitOutputFlagKept(c) ==
    /\ At(c, "consume")
    /\ Owns(c)
    /\ stream[c].delivered < MaxSequence
    /\ stream' = [stream EXCEPT ![c].at = "feed", ![c].delivered = @ + 1,
                                ![c].held = registry.progress,
                                ![c].dropping = registry.drop]
    /\ strays' = IF registry.progress = c THEN strays ELSE strays \cup {registry.progress, c}
    /\ UNCHANGED <<registry, mirror, progress, signal, gridSize, request, drawnFor, overlap, raced, latest>>

\* Output, first lock: the drop flag is taken and the atomic's handle cloned.
AdmitOutput(c) ==
    /\ At(c, "consume")
    /\ Owns(c)
    /\ stream[c].delivered < MaxSequence
    /\ stream' = [stream EXCEPT ![c].at = "feed", ![c].delivered = @ + 1,
                                ![c].held = registry.progress,
                                ![c].dropping = registry.drop]
    /\ registry' = [registry EXCEPT !.drop = FALSE]
    /\ strays' = IF registry.progress = c THEN strays ELSE strays \cup {registry.progress, c}
    /\ UNCHANGED <<mirror, progress, signal, gridSize, request, drawnFor, overlap, raced, latest>>

\* Output, mirror lock: the engine is fed and the atomic stored.
Feed(c) ==
    LET through == stream[c].delivered
        arc == stream[c].arc
        held == stream[c].held
    IN  /\ At(c, "feed")
        /\ mirror' = IF stream[c].dropping THEN mirror
                     ELSE [mirror EXCEPT ![arc].chunks =
                             Append(@, <<stream[c].session, through>>)]
        /\ progress' = [progress EXCEPT ![held] = through]
        /\ strays' = IF drawnFor[arc] = c /\ held = c THEN strays
                     ELSE strays \cup {drawnFor[arc], held, c}
        /\ Goto(c, "publish")
        /\ UNCHANGED <<registry, signal, gridSize, request, drawnFor, overlap, raced, latest>>

\* Output, registry lock again: the signal moves and every waiter is notified.
Publish(c) ==
    /\ At(c, "publish")
    /\ \/ /\ ~Owns(c)
          /\ Goto(c, "evict")
          /\ UNCHANGED <<registry, signal>>
       \/ /\ Owns(c)
          /\ registry' = [registry EXCEPT !.source = stream[c].delivered]
          /\ signal' = [signal EXCEPT ![registry.signal] = stream[c].delivered]
          /\ stream' = [stream EXCEPT ![c] = Returned(@, c)]
    /\ UNCHANGED <<mirror, progress, gridSize, request, history>>

\* Resize: the registry gives the handles, then the mirror, then the size signal, which
\* another session's entry may have taken over by then.
AdmitResize(c, grid) ==
    /\ At(c, "consume")
    /\ Owns(c)
    /\ stream' = [stream EXCEPT ![c].at = "resize", ![c].grid = grid,
                                ![c].held = registry.size]
    /\ UNCHANGED <<registry, mirror, progress, signal, gridSize, request, history>>

ResizeMirror(c) ==
    /\ At(c, "resize")
    /\ mirror' = [mirror EXCEPT ![stream[c].arc].size = stream[c].grid]
    /\ Goto(c, "announce")
    /\ UNCHANGED <<registry, progress, signal, gridSize, request, history>>

AnnounceSize(c) ==
    /\ At(c, "announce")
    /\ gridSize' = [gridSize EXCEPT ![stream[c].held] = stream[c].grid]
    /\ stream' = [d \in Streams |->
                    IF d = c THEN [Returned(stream[c], c) EXCEPT !.told = TRUE]
                    ELSE [stream[d] EXCEPT !.told = @ /\ stream[d].size # stream[c].held]]
    /\ UNCHANGED <<registry, mirror, progress, signal, request, history>>

\* Mutants of Gap: the missing output is not marked; the signal runs ahead by one.
GapUnmarked(c) ==
    LET through == stream[c].delivered + 1 IN
    /\ At(c, "consume")
    /\ Owns(c)
    /\ through <= MaxSequence
    /\ stream' = [stream EXCEPT ![c].delivered = through]
    /\ registry' = [registry EXCEPT !.source = through]
    /\ signal' = [signal EXCEPT ![registry.signal] = through]
    /\ UNCHANGED <<mirror, progress, gridSize, request, history>>

GapPast(c) ==
    LET through == stream[c].delivered + 1 IN
    /\ At(c, "consume")
    /\ Owns(c)
    /\ through <= MaxSequence
    /\ stream' = [stream EXCEPT ![c].delivered = through, ![c].gapped = TRUE]
    /\ registry' = [registry EXCEPT !.gaps = TRUE, !.source = through]
    /\ signal' = [signal EXCEPT ![registry.signal] = through + 1]
    /\ UNCHANGED <<mirror, progress, gridSize, request, history>>

\* Gap: the source went past a chunk that was not delivered.
Gap(c) ==
    LET through == stream[c].delivered + 1 IN
    /\ At(c, "consume")
    /\ Owns(c)
    /\ through <= MaxSequence
    /\ stream' = [stream EXCEPT ![c].delivered = through, ![c].gapped = TRUE]
    /\ registry' = [registry EXCEPT !.gaps = TRUE, !.source = through]
    /\ signal' = [signal EXCEPT ![registry.signal] = through]
    /\ UNCHANGED <<mirror, progress, gridSize, request, history>>

\* Mutant of End: the consumer goes and leaves its entry.
EndLeavingEntry(c) ==
    /\ At(c, "consume")
    /\ stream' = [stream EXCEPT ![c] = Ended(@, c)]
    /\ UNCHANGED <<registry, mirror, progress, signal, gridSize, request, history>>

\* The stream ends, closed or with the session's end.
End(c) ==
    /\ At(c, "consume")
    /\ Goto(c, "evict")
    /\ UNCHANGED <<registry, mirror, progress, signal, gridSize, request, history>>

\* A second opened frame: the source is not what was subscribed to.
Reopened(c) ==
    /\ At(c, "consume")
    /\ Owns(c)
    /\ registry' = [registry EXCEPT !.gaps = TRUE]
    /\ stream' = [stream EXCEPT ![c].at = "evict", ![c].gapped = TRUE]
    /\ UNCHANGED <<mirror, progress, signal, gridSize, request, history>>

\* remove_session_if_owner
Evict(c) ==
    /\ At(c, "evict")
    /\ registry' = IF Owns(c) THEN None ELSE registry
    /\ stream' = [stream EXCEPT ![c] = Ended(@, c)]
    /\ UNCHANGED <<mirror, progress, signal, gridSize, request, history>>

--------------------------------------------------------------------------------
\* Commands against the entry

\* terminal.resize: the mirror alone, under both locks; PTY and signal follow later.
Resize(grid) ==
    /\ registry # None
    /\ mirror' = [mirror EXCEPT ![registry.mirror].size = grid]
    /\ UNCHANGED <<registry, progress, signal, gridSize, stream, request, history>>

\* terminal.frame: the handles are cloned, and the registry is unlocked.
FrameRequest(after) ==
    /\ request = None
    /\ registry # None
    /\ request' = [at |-> "wait", mirror |-> registry.mirror,
                   progress |-> registry.progress, signal |-> registry.signal,
                   after |-> after]
    /\ UNCHANGED <<registry, mirror, progress, signal, gridSize, stream, history>>

\* wait_for_sequence: without afterSequence (zero here) nothing is waited for.
WaitForSequence ==
    /\ request # None
    /\ request.at = "wait"
    /\ signal[request.signal] >= request.after
    /\ request' = [request EXCEPT !.at = "read"]
    /\ UNCHANGED <<registry, mirror, progress, signal, gridSize, stream, history>>

\* The frame and its sequence are read under the mirror lock and answered; or the
\* deadline passed.
Answered ==
    /\ request # None
    /\ request' = None
    /\ UNCHANGED <<registry, mirror, progress, signal, gridSize, stream, history>>

Caller(c) ==
    \/ EnsureListed(c) \/ EnsureFails(c)
    \/ \E s \in Sessions, size \in Sizes : Subscribe(c, s, size)
    \/ \E s \in Sessions, size \in Sizes, restored \in BOOLEAN :
          EnsurePrepared(c, s, size, restored)
    \/ Replace(c) \/ Continue(c) \/ Insert(c)

Consumer(c) ==
    \/ Refuse(c)
    \/ AdmitOutput(c) \/ Feed(c) \/ Publish(c)
    \/ (\E grid \in Sizes : AdmitResize(c, grid)) \/ ResizeMirror(c) \/ AnnounceSize(c)
    \/ Gap(c) \/ End(c) \/ Reopened(c) \/ Evict(c)

Next ==
    \/ \E c \in Streams : Caller(c) \/ Consumer(c)
    \/ \E grid \in Sizes : Resize(grid)
    \/ \E after \in Awaited : FrameRequest(after)
    \/ WaitForSequence \/ Answered

Spec == Init /\ [][Next]_vars

--------------------------------------------------------------------------------
\* Properties

TypeOK ==
    /\ registry \in Entry \cup {None}
    /\ mirror \in [Streams -> [chunks: Seq(Chunk), size: Sizes]]
    /\ progress \in [Streams -> Sequence]
    /\ signal \in [Streams -> Sequence]
    /\ gridSize \in [Streams -> Sizes]
    /\ stream \in [Streams -> Thread]
    /\ request \in Request \cup {None}
    /\ drawnFor \in [Streams -> Streams \cup {None}]
    /\ strays \subseteq Streams
    /\ overlap \in BOOLEAN
    /\ raced \in BOOLEAN
    /\ latest \in Streams \cup {None}

\* The mirror at `arc` draws exactly the output of stream c's session up to the
\* sequence in c's atomic: nothing twice, nothing missing, nothing of another
\* session.  The replay a restored checkpoint stands for is drawn by the checkpoint.
Exact(arc, c) ==
    LET first == IF stream[c].restored THEN 2 ELSE 1
    IN  mirror[arc].chunks = [i \in 1..(progress[c] - first + 1) |->
                                 <<stream[c].session, first - 1 + i>>]

\* terminal.rehydrate answers, or refuses with SOURCE_GAP; what it answers may be
\* followed by an attach at its uptoSeq without replaying or dropping bytes.
RehydrateIsExact ==
    registry # None /\ ~registry.gaps => Exact(registry.mirror, registry.progress)

\* terminal.frame answers the sequence applied to the mirror it drew.
FrameIsExact ==
    request # None /\ request.at = "read" /\ ~stream[request.progress].gapped
        => Exact(request.mirror, request.progress)

\* The frame holds the output its caller asked to be applied first.
FrameCoversRequest ==
    request # None /\ request.at = "read" /\ ~stream[request.progress].gapped
        => progress[request.progress] >= request.after

\* When a pane's sessions follow each other -- no ensureSession runs while threads
\* of an earlier stream do -- every snapshot is exact and names its own coordinate,
\* through gaps, dropped replays, reopened sources and requests that outlive their
\* session.
SerialHandoffIsExact ==
    ~overlap => RehydrateIsExact /\ FrameIsExact /\ FrameCoversRequest

\* When they do overlap, a mirror draws something else than its stream's output only
\* if another consumer wrote to that mirror or atomic, or took its stream's drop flag:
\* replacement, eviction, dropped replays and late publishes leave the pair exact.
OnlyStraysSpoil ==
    \A arc, c \in Streams :
        drawnFor[arc] = c /\ c \notin strays /\ ~stream[c].gapped => Exact(arc, c)

\* A session that replaces a live one, one ensureSession at a time, ends in an entry
\* whose snapshots are exact, unless output of the old consumer went astray into it.
ReplacementIsExact ==
    /\ registry # None
    /\ ~registry.gaps
    /\ registry.progress \notin strays
    /\ ~raced
    /\ \A c \in Streams : ~Installing(c)
    => Exact(registry.mirror, registry.progress)

\* terminal.waitSize answers the size the entry's source last announced, also through
\* a signal taken over from another session, once the source has announced one and
\* unless the old session's consumer announced after it.
AnnouncedSizeStands ==
    registry # None =>
        LET c == registry.progress
        IN  stream[c].told /\ ~At(c, "resize") /\ ~At(c, "announce")
                => gridSize[registry.size] = stream[c].grid

\* No entry is left to nobody: while the registry holds a session, the consumer of
\* its stream still runs, to feed it or to evict it.
EntryIsServed ==
    registry # None => Running(registry.progress)

\* The newest session of the pane keeps its entry while its consumer runs, whatever the
\* consumers of the sessions before it do, unless another stream observes its session.
NewestKeepsEntry ==
    latest # None /\ Consuming(latest) =>
        \/ Owns(latest)
        \/ \E d \in Streams \ {latest} : ~At(d, "idle") /\ stream[d].session = stream[latest].session

\* A session that takes over an entry's mirror takes over its signals too, so that
\* a render thread wired to the entry is notified of what the mirror then draws.
TakeoverKeepsSignals ==
    registry # None /\ registry.mirror # registry.progress
        => registry.signal # registry.progress /\ registry.size # registry.progress
================================================================================
