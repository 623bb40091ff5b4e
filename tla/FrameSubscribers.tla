--------------------------- MODULE FrameSubscribers ---------------------------
(***************************************************************************)
(* What the subscribers of a pane's frames see (src/src/frame.rs and       *)
(* frame_request in src/src/runtime.rs) while its mirror is fed, resized   *)
(* and refilled: a request reads a frame under the mirror's lock, takes    *)
(* its difference to the subscriber's baseline under the table's, and is   *)
(* answered under the connection's writer lock, each request on a thread   *)
(* of its own.  A row's hash is taken to be the row.                       *)
(***************************************************************************)
EXTENDS RecoveryMirror

CONSTANTS
    Subscribers,     \* names under which frames are asked for
    Requests,        \* threads that serve requests
    Offsets,         \* how far viewers scroll
    Chunks,          \* what the source may deliver as one output
    MaxSubscribers,  \* baselines kept
    MaxFed,          \* bound on the outputs, resizes and replaced sessions
    MaxAsked         \* bound on the requests made

ASSUME SubscribersAssumption ==
    /\ Offsets \subseteq Nat
    /\ Chunks \subseteq Seq(Token)
    /\ MaxSubscribers \in Nat \ {0}
    /\ MaxFed \in Nat
    /\ MaxAsked \in Nat

VARIABLES
    applied,   \* the output sequence the mirror holds
    tick,      \* how many baselines were recorded
    baselines, \* subscriber -> what was sent to it last, or None
    request,   \* thread -> the request it serves, or None
    picture,   \* subscriber -> the picture its viewer has folded, or None
    fed,       \* history: how many outputs, resizes and replaced sessions there were
    asked,     \* history: how many requests were made
    overtaken, \* history: threads with a reply that a later one left before
    astray     \* history: subscribers with a reply lost or overtaken since a full one

vars ==
    <<mirrorVars, applied, tick, baselines, request, picture, fed, asked, overtaken, astray>>

FrameBaseline ==
    [rows: Sizes, alternate: BOOLEAN, offset: Nat, lines: Seq(Nat), last_used: Nat]

Frame == [rows: Sizes, alternate: BOOLEAN, offset: Nat, lines: Seq(Nat), output: 0..MaxFed]

Reply == [full: BOOLEAN, changed: SUBSET Nat]

\* A request in hand: when its baseline was recorded, or 0, and the reply made then.
Request == [subscriber: Subscribers, frame: Frame, made: Nat, reply: Reply \cup {None}]

ASSUME NoRecordAssumption == None \notin FrameBaseline \cup Frame \cup Request

--------------------------------------------------------------------------------
\* delta and apply

\* Mutant of Delta: rows are compared whatever the geometry.
DeltaOfRows(baseline, frame) ==
    IF baseline = None
    THEN [full |-> TRUE, changed |-> DOMAIN frame.lines]
    ELSE [full |-> FALSE,
          changed |-> {y \in DOMAIN frame.lines \cap DOMAIN baseline.lines :
                          frame.lines[y] # baseline.lines[y]}]

\* What the reply names of its frame's rows, besides its header.  Full without a
\* baseline, or when the geometry moved.
Delta(baseline, frame) ==
    IF /\ baseline # None
       /\ baseline.rows = frame.rows
       /\ baseline.alternate = frame.alternate
       /\ baseline.offset = frame.offset
       /\ Len(baseline.lines) = Len(frame.lines)
    THEN [full |-> FALSE,
          changed |-> {y \in DOMAIN frame.lines : frame.lines[y] # baseline.lines[y]}]
    ELSE [full |-> TRUE, changed |-> DOMAIN frame.lines]

\* A full reply replaces the picture; another replaces its header and the rows it names.
Apply(previous, frame, reply) ==
    IF reply.full THEN frame
    ELSE [frame EXCEPT !.lines =
            [y \in reply.changed \cup DOMAIN previous.lines |->
                IF y \in reply.changed THEN frame.lines[y] ELSE previous.lines[y]]]

Subscribed == {s \in Subscribers : baselines[s] # None}

Oldest ==
    CHOOSE s \in Subscribed :
        \A other \in Subscribed : baselines[s].last_used <= baselines[other].last_used

BaselineOf(frame) ==
    [rows |-> frame.rows, alternate |-> frame.alternate, offset |-> frame.offset,
     lines |-> frame.lines, last_used |-> tick + 1]

\* Mutant of Recorded: a full table keeps whom it has.
RecordedWithoutRoom(s, frame) == [baselines EXCEPT ![s] = BaselineOf(frame)]

\* record: the one unused longest makes room for a new one.
Recorded(s, frame) ==
    IF s \notin Subscribed /\ Cardinality(Subscribed) >= MaxSubscribers
    THEN [baselines EXCEPT ![Oldest] = None, ![s] = BaselineOf(frame)]
    ELSE [baselines EXCEPT ![s] = BaselineOf(frame)]

--------------------------------------------------------------------------------
Init ==
    /\ \E rows \in Sizes : NewMirror(rows)
    /\ applied = 0
    /\ tick = 0
    /\ baselines = [s \in Subscribers |-> None]
    /\ request = [r \in Requests |-> None]
    /\ picture = [s \in Subscribers |-> None]
    /\ fed = 0
    /\ asked = 0
    /\ overtaken = {}
    /\ astray = {}

\* An Output frame: the mirror is fed and its sequence stored under its lock.
Output(chunk) ==
    /\ fed < MaxFed
    /\ fed' = fed + 1
    /\ Feed(chunk)
    /\ applied' = applied + 1
    /\ UNCHANGED <<tick, baselines, request, picture, asked, overtaken, astray>>

Resize(rows) ==
    /\ fed < MaxFed
    /\ fed' = fed + 1
    /\ ResizeMirror(rows)
    /\ UNCHANGED <<applied, tick, baselines, request, picture, asked, overtaken, astray>>

\* A session replaces the pane's: the mirror is refilled and the subscribers are kept.
Replace(rows) ==
    /\ fed < MaxFed
    /\ fed' = fed + 1
    /\ RefillMirror(rows)
    /\ applied' = 0
    /\ UNCHANGED <<tick, baselines, request, picture, asked, overtaken, astray>>

FrameRead(offset) ==
    LET at == FrameAt(offset)
    IN  [rows |-> at.rows, alternate |-> at.alternate, offset |-> at.offset,
         lines |-> at.lines, output |-> applied]

\* frame_request: the frame and its sequence, under the mirror's lock.
ReadFrame(r, s, offset) ==
    /\ request[r] = None
    /\ asked < MaxAsked
    /\ asked' = asked + 1
    /\ request' = [request EXCEPT ![r] =
                     [subscriber |-> s, frame |-> FrameRead(offset), made |-> 0, reply |-> None]]
    /\ UNCHANGED <<mirrorVars, applied, tick, baselines, picture, fed, overtaken, astray>>

\* The reply is made and the baseline recorded, under the subscribers' lock.
RecordBaseline(r) ==
    /\ request[r] # None
    /\ request[r].made = 0
    /\ tick' = tick + 1
    /\ LET s == request[r].subscriber
           frame == request[r].frame
       IN  /\ request' = [request EXCEPT ![r].made = tick + 1,
                                         ![r].reply = Delta(baselines[s], frame)]
           /\ baselines' = Recorded(s, frame)
    /\ UNCHANGED <<mirrorVars, applied, picture, fed, asked, overtaken, astray>>

Made(r) == request[r] # None /\ request[r].made > 0

\* Replies to the same subscriber that were made before this one and are still to come.
Earlier(r) ==
    {other \in Requests :
        /\ Made(other)
        /\ request[other].subscriber = request[r].subscriber
        /\ request[other].made < request[r].made}

Replied(r) ==
    /\ Made(r)
    /\ request' = [request EXCEPT ![r] = None]
    /\ overtaken' = (overtaken \cup Earlier(r)) \ {r}
    /\ UNCHANGED <<mirrorVars, applied, tick, baselines, fed, asked>>

\* The reply is written, and the viewer folds it; a viewer without a picture cannot use
\* changed rows.
Answer(r) ==
    LET s == request[r].subscriber
        reply == request[r].reply
        inTurn == r \notin overtaken /\ Earlier(r) = {}
    IN  /\ Replied(r)
        /\ picture' = IF picture[s] = None /\ ~reply.full THEN picture
                      ELSE [picture EXCEPT ![s] = Apply(picture[s], request[r].frame, reply)]
        /\ astray' = IF ~inTurn THEN astray \cup {s}
                     ELSE IF reply.full THEN astray \ {s} ELSE astray

\* The connection is gone; the baseline stays.
Lose(r) ==
    /\ Replied(r)
    /\ astray' = astray \cup {request[r].subscriber}
    /\ UNCHANGED picture

Next ==
    \/ \E chunk \in Chunks : Output(chunk)
    \/ \E rows \in Sizes : Resize(rows) \/ Replace(rows)
    \/ \E r \in Requests :
        \/ \E s \in Subscribers, offset \in Offsets : ReadFrame(r, s, offset)
        \/ RecordBaseline(r) \/ Answer(r) \/ Lose(r)

Spec == Init /\ [][Next]_vars

--------------------------------------------------------------------------------
\* Properties

\* What a viewer may have folded: rows of frames of other sizes too, while it is astray.
Folded(shown) ==
    /\ shown.rows \in Sizes /\ shown.alternate \in BOOLEAN /\ shown.offset \in Nat
    /\ shown.output \in 0..MaxFed
    /\ \A y \in DOMAIN shown.lines : y \in Nat /\ shown.lines[y] \in Nat

TypeOK ==
    /\ MirrorTypeOK
    /\ applied \in 0..fed
    /\ tick \in Nat
    /\ baselines \in [Subscribers -> FrameBaseline \cup {None}]
    /\ \A s \in Subscribed : baselines[s].last_used \in 1..tick
    /\ \A s, t \in Subscribed : baselines[s].last_used = baselines[t].last_used => s = t
    /\ Cardinality(Subscribed) <= MaxSubscribers
    /\ request \in [Requests -> Request \cup {None}]
    /\ \A r \in Requests : Made(r) => request[r].made <= tick /\ request[r].reply \in Reply
    /\ \A s \in Subscribers : picture[s] # None => Folded(picture[s])
    /\ fed \in 0..MaxFed
    /\ asked \in 0..MaxAsked
    /\ overtaken \subseteq {r \in Requests : Made(r)}
    /\ astray \subseteq Subscribers

\* Replies that reach a viewer in the order they were made fold into exactly the frame
\* that was read for the last of them, with its sequence: through resizes, evicted
\* baselines, replaced sessions, and frames of one subscriber that were read in another
\* order.  A viewer that lost a reply sees its frame again after the next full one.
PictureIsTheFrame ==
    [][\A r \in Requests :
          Answer(r) /\ request[r].subscriber \notin astray'
              => picture'[request[r].subscriber] = request[r].frame]_vars
================================================================================
