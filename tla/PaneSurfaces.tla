------------------------------ MODULE PaneSurfaces -----------------------------
(***************************************************************************)
(* The surfaces of one pane, one after another and side by side            *)
(* (SurfaceSessions of src/src/render/session.rs): surface.open calls,     *)
(* each of which puts its control in the place of the one before,          *)
(* surface.close calls, the render thread of every surface, and the        *)
(* channel that all of them and the application share.  On the channel a   *)
(* message names the pane and a slot, never the surface.                   *)
(*                                                                         *)
(* A surface is named after the call that opens it.  What wakes a thread   *)
(* and what it paints is the subject of RenderThread: here it goes round   *)
(* as it likes, painting or not.  Outside src/ is the application, one and *)
(* the same (a new one after a death gets a channel of its own): it shows  *)
(* frames in order on the ring it was sent last and releases the slot      *)
(* before; what it makes of an end is left out.                            *)
(***************************************************************************)
EXTENDS Integers, Sequences, SurfaceRing

CONSTANTS
    Surfaces,   \* surface.open calls of the pane, and what they open
    Closes,     \* surface.close calls of the pane
    MaxFrames   \* bound on the frames signalled

ASSUME SurfacesAssumption == MaxFrames \in Nat /\ None \notin Surfaces \cup Slots

VARIABLES
    panes,      \* the pane's control in the table: a surface, or None
    fonts,      \* the surface whose font choice is recorded for the pane, or None
    open,       \* surface -> control point of its surface.open call, what it superseded
    closing,    \* close -> its control point and the control it found
    stop,       \* the surfaces that are told to stop
    returns,    \* surface -> the slots returned to it
    point,      \* surface -> its render thread's control point
    ring,       \* surface -> its ring, and the slot signalled last
    toApp,      \* messages on their way to the application
    toReader,   \* released slots on their way to the reader thread
    app,        \* the ring the application has and the slot it shows
    frames,     \* frames signalled so far
    late,       \* history: surface -> frames it signalled after it was told to stop
    lastRing,   \* history: the surface whose ring was sent last
    overlapped, \* history: an open or a close began while another was under way
    strayed     \* history: surfaces whose entry a close removed without stopping them

calls == <<panes, fonts, open, closing, lastRing, overlapped, strayed>>
channel == <<toApp, toReader, app>>
threads == <<returns, point, ring, frames, late>>
vars == <<calls, stop, threads, channel>>

Slot == Slots \cup {None}

Init ==
    /\ panes = None /\ fonts = None
    /\ open = [s \in Surfaces |-> [at |-> "new", previous |-> None]]
    /\ closing = [c \in Closes |-> [at |-> "new", found |-> None]]
    /\ stop = {}
    /\ returns = [s \in Surfaces |-> <<>>]
    /\ point = [s \in Surfaces |-> "none"]
    /\ ring = [s \in Surfaces |-> [free |-> Slots, shown |-> None, signalled |-> None]]
    /\ toApp = <<>> /\ toReader = <<>>
    /\ app = [ring |-> None, slot |-> None]
    /\ frames = 0
    /\ late = [s \in Surfaces |-> 0]
    /\ lastRing = None
    /\ overlapped = FALSE /\ strayed = {}

Opening(s) == open[s].at \in {"sent", "inserted", "superseded"}

Closing(c) == closing[c].at \in {"found", "stopped", "removed"}

Busy == (\E s \in Surfaces : Opening(s)) \/ (\E c \in Closes : Closing(c))

Begins == overlapped' = (overlapped \/ Busy)

Goto(s, next) == point' = [point EXCEPT ![s] = next]

--------------------------------------------------------------------------------
\* surface.open

\* The ring goes to the application before anything is changed.
SendRing(s) ==
    /\ open[s].at = "new"
    /\ open' = [open EXCEPT ![s].at = "sent"]
    /\ toApp' = Append(toApp, [kind |-> "ring", surface |-> s])
    /\ lastRing' = s
    /\ Begins
    /\ UNCHANGED <<panes, fonts, closing, stop, threads, toReader, app, strayed>>

\* Mutant of Insert: the surface before is taken for the one whose font is recorded.
InsertByFont(s) ==
    /\ open[s].at = "sent"
    /\ open' = [open EXCEPT ![s] = [at |-> "inserted", previous |-> fonts]]
    /\ panes' = s
    /\ UNCHANGED <<fonts, closing, stop, threads, channel, lastRing, overlapped, strayed>>

\* supersede: the table is the new control's, and hands back the one before.
Insert(s) ==
    /\ open[s].at = "sent"
    /\ open' = [open EXCEPT ![s] = [at |-> "inserted", previous |-> panes]]
    /\ panes' = s
    /\ UNCHANGED <<fonts, closing, stop, threads, channel, lastRing, overlapped, strayed>>

\* The control it handed back is told to stop, outside the table's lock.
StopPrevious(s) ==
    /\ open[s].at = "inserted"
    /\ open' = [open EXCEPT ![s].at = "superseded"]
    /\ stop' = stop \cup ({open[s].previous} \ {None})
    /\ UNCHANGED <<panes, fonts, closing, threads, channel, lastRing, overlapped, strayed>>

\* The font choice is recorded and the render thread starts.
Start(s) ==
    /\ open[s].at = "superseded"
    /\ open' = [open EXCEPT ![s].at = "answered"]
    /\ fonts' = s
    /\ Goto(s, "top")
    /\ UNCHANGED <<panes, closing, stop, returns, ring, frames, late, channel, lastRing,
                   overlapped, strayed>>

--------------------------------------------------------------------------------
\* surface.close; without a control in the table it is refused.

FindControl(c) ==
    /\ closing[c].at = "new"
    /\ panes # None
    /\ closing' = [closing EXCEPT ![c] = [at |-> "found", found |-> panes]]
    /\ Begins
    /\ UNCHANGED <<panes, fonts, open, stop, threads, channel, lastRing, strayed>>

StopFound(c) ==
    /\ closing[c].at = "found"
    /\ closing' = [closing EXCEPT ![c].at = "stopped"]
    /\ stop' = stop \cup {closing[c].found}
    /\ UNCHANGED <<panes, fonts, open, threads, channel, lastRing, overlapped, strayed>>

\* The pane's entry goes, whosever it is by now.
RemovePane(c) ==
    /\ closing[c].at = "stopped"
    /\ closing' = [closing EXCEPT ![c].at = "removed"]
    /\ panes' = None
    /\ strayed' = strayed \cup ({panes} \ {closing[c].found, None})
    /\ UNCHANGED <<fonts, open, stop, threads, channel, lastRing, overlapped>>

\* Mutant of RemoveFont: a closed pane keeps its font.
RemoveNoFont(c) ==
    /\ closing[c].at = "removed"
    /\ closing' = [closing EXCEPT ![c].at = "answered"]
    /\ UNCHANGED <<panes, fonts, open, stop, threads, channel, lastRing, overlapped, strayed>>

RemoveFont(c) ==
    /\ closing[c].at = "removed"
    /\ closing' = [closing EXCEPT ![c].at = "answered"]
    /\ fonts' = None
    /\ UNCHANGED <<panes, open, stop, threads, channel, lastRing, overlapped, strayed>>

--------------------------------------------------------------------------------
\* A render thread's iteration: the stop flag, the returned slots, the paint.

\* The thread of a surface that is told to stop says so and ends.
CheckStop(s) ==
    /\ point[s] = "top"
    /\ \/ /\ s \in stop
          /\ Goto(s, "ended")
          /\ toApp' = Append(toApp, [kind |-> "ended", surface |-> s])
       \/ /\ s \notin stop
          /\ Goto(s, "returns")
          /\ UNCHANGED toApp
    /\ UNCHANGED <<calls, stop, returns, ring, frames, late, toReader, app>>

RouteReturns(s) ==
    /\ point[s] = "returns"
    /\ Goto(s, "paint")
    /\ ring' = [ring EXCEPT ![s] = ReturnAll(@, Range(returns[s]))]
    /\ returns' = [returns EXCEPT ![s] = <<>>]
    /\ UNCHANGED <<calls, stop, frames, late, channel>>

\* Mutant of Paint: the thread paints on without going back to the top.
PaintOn(s, slot) ==
    /\ point[s] = "paint"
    /\ slot \in ring[s].free
    /\ frames < MaxFrames
    /\ frames' = frames + 1
    /\ toApp' = Append(toApp, [kind |-> "frame", surface |-> s, slot |-> slot])
    /\ Goto(s, "returns")
    /\ ring' = [ring EXCEPT ![s].free = @ \ {slot}, ![s].signalled = slot]
    /\ late' = IF s \in stop THEN [late EXCEPT ![s] = @ + 1] ELSE late
    /\ UNCHANGED <<calls, stop, returns, toReader, app>>

\* A free slot is painted and signalled.
Paint(s, slot) ==
    /\ point[s] = "paint"
    /\ slot \in ring[s].free
    /\ frames < MaxFrames
    /\ frames' = frames + 1
    /\ toApp' = Append(toApp, [kind |-> "frame", surface |-> s, slot |-> slot])
    /\ Goto(s, "top")
    /\ ring' = [ring EXCEPT ![s].free = @ \ {slot}, ![s].signalled = slot]
    /\ late' = IF s \in stop THEN [late EXCEPT ![s] = @ + 1] ELSE late
    /\ UNCHANGED <<calls, stop, returns, toReader, app>>

\* Nothing is owed, or nothing can be painted.
Pass(s) ==
    /\ point[s] = "paint"
    /\ Goto(s, "top")
    /\ UNCHANGED <<calls, stop, returns, ring, frames, late, channel>>

--------------------------------------------------------------------------------
\* The application and the reader thread

Release(slot) ==
    IF app.slot \in {None, slot} THEN UNCHANGED toReader
    ELSE toReader' = Append(toReader, app.slot)

Show ==
    LET message == Head(toApp) IN
    /\ toApp # <<>>
    /\ toApp' = Tail(toApp)
    /\ CASE message.kind = "ring"  -> /\ app' = [ring |-> message.surface, slot |-> None]
                                      /\ UNCHANGED toReader
         [] message.kind = "frame" -> /\ app' = [app EXCEPT !.slot = message.slot]
                                      /\ Release(message.slot)
         [] message.kind = "ended" -> UNCHANGED <<app, toReader>>
    /\ UNCHANGED <<calls, stop, threads>>

\* spawn_reader: a released slot goes to the control that is in the table now, if any.  Its
\* list is another lock, taken afterwards: a control that leaves the table in between is one
\* that is told to stop.
Released ==
    /\ toReader # <<>>
    /\ toReader' = Tail(toReader)
    /\ returns' = IF panes = None THEN returns
                  ELSE [returns EXCEPT ![panes] = Append(@, Head(toReader))]
    /\ UNCHANGED <<calls, stop, point, ring, frames, late, toApp, app>>

Open(s) == SendRing(s) \/ Insert(s) \/ StopPrevious(s) \/ Start(s)

Close(c) == FindControl(c) \/ StopFound(c) \/ RemovePane(c) \/ RemoveFont(c)

Iteration(s) ==
    CheckStop(s) \/ RouteReturns(s) \/ (\E slot \in Slots : Paint(s, slot)) \/ Pass(s)

Next ==
    \/ \E s \in Surfaces : Open(s) \/ Iteration(s)
    \/ \E c \in Closes : Close(c)
    \/ Show \/ Released

Spec == Init /\ [][Next]_vars

--------------------------------------------------------------------------------
\* Properties

Message ==
    [kind: {"ring", "ended"}, surface: Surfaces]
    \cup [kind: {"frame"}, surface: Surfaces, slot: Slots]

TypeOK ==
    /\ panes \in Surfaces \cup {None}
    /\ fonts \in Surfaces \cup {None}
    /\ open \in [Surfaces -> [at: {"new", "sent", "inserted", "superseded", "answered"},
                              previous: Surfaces \cup {None}]]
    /\ closing \in [Closes -> [at: {"new", "found", "stopped", "removed", "answered"},
                               found: Surfaces \cup {None}]]
    /\ stop \subseteq Surfaces
    /\ returns \in [Surfaces -> Seq(Slots)]
    /\ point \in [Surfaces -> {"none", "top", "returns", "paint", "ended"}]
    /\ ring \in [Surfaces -> [free: SUBSET Slots, shown: Slot, signalled: Slot]]
    /\ toApp \in Seq(Message)
    /\ toReader \in Seq(Slots)
    /\ app \in [ring: Surfaces \cup {None}, slot: Slot]
    /\ frames \in 0..MaxFrames
    /\ late \in [Surfaces -> Nat]
    /\ lastRing \in Surfaces \cup {None}
    /\ overlapped \in BOOLEAN /\ strayed \subseteq Surfaces

\* Surfaces whose call is answered and that nobody has told to stop.
Running == {s \in Surfaces : open[s].at = "answered" /\ s \notin stop}

\* When opens and closes follow one another, the table, the font that a resize will look up
\* and the ring sent last are of the same surface, which runs, or the pane has none.
SerialCallsAgree ==
    ~Busy /\ ~overlapped =>
        /\ Running = {panes} \ {None}
        /\ fonts = panes
        /\ panes # None => lastRing = panes

\* However opens and closes overlap, no surface is left to run beside the pane's, except one
\* whose own entry was removed by a close that had found another.
NoneRunsBeside == ~Busy => \A s \in Running : panes = s \/ s \in strayed

\* A surface that was told to stop signals one frame more at the most.
OneLateFrame == \A s \in Surfaces : late[s] <= 1
================================================================================
