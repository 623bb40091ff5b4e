----------------------------- MODULE RenderThread -----------------------------
(***************************************************************************)
(* The native surface of one pane (src/src/render/session.rs): its render  *)
(* thread, the PaneControl that surface.* commands steer it by, the frame  *)
(* signal it shares with the pane's consumer, its ring of surfaces, and    *)
(* the two directions of the channel.                                      *)
(*                                                                         *)
(* A step is one atomic access or one critical section.  What is to be     *)
(* painted -- the mirror's viewport under the overlay, theme, dim and      *)
(* focus -- is a scene; a painter's row hashes are the scene they hash.    *)
(* The cursor is steady: nothing wakes the thread but a notification.      *)
(* Outside src/ is the application, which shows frames in order and        *)
(* releases the one before.                                                *)
(***************************************************************************)
EXTENDS Integers, Sequences, SurfaceRing

CONSTANTS
    Scenes,       \* what a surface may show
    Grids,        \* grid sizes of the mirror and of painters
    MaxOutputs,   \* bound on the output the consumer applies
    MaxCommands   \* bound on the surface.* commands; None is also no scene and no painter

ASSUME RenderAssumption ==
    /\ MaxOutputs \in Nat /\ MaxCommands \in Nat
    /\ None \notin Scenes \cup Grids \cup Slots

VARIABLES
    scene,     \* what the mirror and the overlay would have painted
    grid,      \* the mirror's grid
    sequence,  \* the frame signal's value
    feeding,   \* the consumer: "idle", has fed "output", or has made a "resize"
    control,   \* PaneControl: the flags, the pending painter, the returned slots
    waking,    \* a command has stored its change and is yet to wake the thread
    commands,  \* surface.* commands so far
    thread,    \* the render thread's control point and locals, its painter's too
    ring,      \* the surface ring
    toApp,     \* messages on their way to the application
    toReader,  \* released slots on their way to the reader thread
    app,       \* the slot the application shows
    out,       \* history: slots of this ring signalled and not released by the application
    crossed,   \* history: a slot of an earlier ring was returned to a later one
    turns      \* history: iterations since anything reached the thread, two at the most

vars == <<scene, grid, sequence, feeding, control, waking, commands, thread, ring,
          toApp, toReader, app, out, crossed, turns>>

screen == <<ring, toApp, toReader, app, out, crossed>>
input == <<scene, grid, sequence, feeding, waking, commands>>

Slot == Slots \cup {None}

ControlPoint == {"top", "returns", "sequence", "dirty", "grid", "refresh", "paint",
                 "check", "wait", "asleep", "ended"}

At(point) == thread.at = point

--------------------------------------------------------------------------------
FreshRing(n) ==
    [number |-> n, free |-> Slots, shown |-> None, painted |-> [i \in Slots |-> None]]

\* surface.open: the first ring has gone to the application, a full paint is owed.
Init ==
    /\ scene \in Scenes
    /\ grid \in Grids
    /\ sequence = 0
    /\ feeding = "idle"
    /\ control = [dirty |-> TRUE, stop |-> FALSE, paused |-> FALSE, pending |-> None,
                  returns |-> <<>>]
    /\ waking = FALSE
    /\ commands = 0
    /\ \E g \in Grids :
        thread = [at |-> "top", seen |-> 0, progressed |-> 0, dirty |-> FALSE,
                  awaiting |-> FALSE, signalled |-> None, grid |-> g, drawn |-> None,
                  missed |-> FALSE]
    /\ ring = FreshRing(0)
    /\ toApp = <<>>
    /\ toReader = <<>>
    /\ app = None
    /\ out = {}
    /\ crossed = FALSE
    /\ turns = 0

--------------------------------------------------------------------------------
\* The render thread, one iteration after another.

\* notify_all: a thread that does not wait is not woken later.
Notify == thread' = IF At("asleep") THEN [thread EXCEPT !.at = "top"] ELSE thread

End ==
    /\ At("top")
    /\ control.stop
    /\ thread' = [thread EXCEPT !.at = "ended"]
    /\ UNCHANGED <<input, control, screen>>

\* A pending resize replaces painter and ring; the new ring is sent before any frame.
TakePending ==
    /\ At("top")
    /\ ~control.stop
    /\ \/ /\ control.pending = None
          /\ thread' = [thread EXCEPT !.at = "returns"]
          /\ UNCHANGED <<control, screen>>
       \/ /\ control.pending # None
          /\ thread' = [thread EXCEPT !.at = "returns", !.grid = control.pending,
                                      !.drawn = None, !.signalled = None, !.missed = FALSE]
          /\ ring' = FreshRing(ring.number + 1)
          /\ toApp' = Append(toApp, [kind |-> "ring"])
          /\ out' = {}
          /\ control' = [control EXCEPT !.pending = None, !.dirty = TRUE]
          /\ UNCHANGED <<toReader, app, crossed>>
    /\ UNCHANGED input

RouteReturns ==
    LET slots == {returned.slot : returned \in Range(control.returns)}
        held == ReturnAll([signalled |-> thread.signalled, shown |-> ring.shown,
                           free |-> ring.free], slots)
    IN  /\ At("returns")
        /\ thread' = [thread EXCEPT !.at = "sequence", !.signalled = held.signalled]
        /\ ring' = [ring EXCEPT !.shown = held.shown, !.free = held.free]
        /\ control' = [control EXCEPT !.returns = <<>>]
        /\ crossed' = (crossed \/ \E returned \in Range(control.returns) :
                                     returned.ring # ring.number)
        /\ UNCHANGED <<input, toApp, toReader, app, out>>

ReadSequence ==
    /\ At("sequence")
    /\ thread' = [thread EXCEPT !.at = "dirty", !.progressed = sequence]
    /\ UNCHANGED <<input, control, screen>>

SwapDirty ==
    /\ At("dirty")
    /\ thread' = [thread EXCEPT !.at = "grid", !.dirty = control.dirty]
    /\ control' = [control EXCEPT !.dirty = FALSE]
    /\ UNCHANGED <<input, screen>>

\* Mutant of CompareGrid: the grids are compared for an awaited one only.
CompareGridAwaited ==
    LET matches == grid = thread.grid \/ ~thread.awaiting
        owes == \/ thread.progressed # thread.seen
                \/ thread.dirty
                \/ thread.awaiting /\ matches
        read == [thread EXCEPT !.dirty = FALSE, !.progressed = 0]
    IN  /\ At("grid")
        /\ \/ /\ owes /\ ~matches
              /\ thread' = [read EXCEPT !.at = "check", !.seen = thread.progressed]
           \/ /\ owes /\ matches /\ ~control.paused
              /\ thread' = [read EXCEPT !.at = "refresh", !.seen = thread.progressed,
                                        !.awaiting = FALSE]
           \/ /\ owes => matches /\ control.paused
              /\ thread' = [read EXCEPT !.at = "check"]
        /\ UNCHANGED <<input, control, screen>>

\* Mutant of CompareGrid: what was read is not kept as seen while the grid is awaited.
CompareGridUnseen ==
    LET matches == grid = thread.grid
        owes == \/ thread.progressed # thread.seen
                \/ thread.dirty
                \/ thread.awaiting /\ matches
        read == [thread EXCEPT !.dirty = FALSE, !.progressed = 0]
    IN  /\ At("grid")
        /\ \/ /\ owes /\ ~matches
              /\ thread' = [read EXCEPT !.at = "check", !.awaiting = TRUE]
           \/ /\ owes /\ matches /\ ~control.paused
              /\ thread' = [read EXCEPT !.at = "refresh", !.seen = thread.progressed,
                                        !.awaiting = FALSE]
           \/ /\ owes => matches /\ control.paused
              /\ thread' = [read EXCEPT !.at = "check"]
        /\ UNCHANGED <<input, control, screen>>

\* The mirror's grid against the painter's, and what that leaves to do.  What was read
\* so far is not read again.
CompareGrid ==
    LET matches == grid = thread.grid
        owes == \/ thread.progressed # thread.seen
                \/ thread.dirty
                \/ thread.awaiting /\ matches
        read == [thread EXCEPT !.dirty = FALSE, !.progressed = 0]
    IN  /\ At("grid")
        /\ \/ /\ owes /\ ~matches
              /\ thread' = [read EXCEPT !.at = "check", !.seen = thread.progressed,
                                        !.awaiting = TRUE]
           \/ /\ owes /\ matches /\ ~control.paused
              /\ thread' = [read EXCEPT !.at = "refresh", !.seen = thread.progressed,
                                        !.awaiting = FALSE]
           \/ /\ owes => matches /\ control.paused
              /\ thread' = [read EXCEPT !.at = "check"]
        /\ UNCHANGED <<input, control, screen>>

\* The mirror is locked again and its rows are folded into the painter.
Refresh ==
    /\ At("refresh")
    /\ thread' = [thread EXCEPT !.at = "paint", !.drawn = scene]
    /\ UNCHANGED <<input, control, screen>>

\* A row cannot be built: the error is noted and nothing is painted.
RefreshFails ==
    /\ At("refresh")
    /\ thread' = [thread EXCEPT !.at = "check", !.drawn = None, !.missed = TRUE]
    /\ UNCHANGED <<input, control, screen>>

\* Painted rows are signalled; a slot that owed none is handed back, unless the
\* application has moved since the last signal.  That the channel fails to take the frame, or
\* a ring, is left out: the error is noted and the slot stays signalled.
Paint(slot) ==
    /\ At("paint")
    /\ slot \in ring.free
    /\ \/ /\ ring.painted[slot] # thread.drawn \/ thread.signalled = None
          /\ ring' = [ring EXCEPT !.free = @ \ {slot}, !.painted[slot] = thread.drawn]
          /\ toApp' = Append(toApp, [kind |-> "frame", slot |-> slot, ring |-> ring.number])
          /\ out' = out \cup {slot}
          /\ thread' = [thread EXCEPT !.at = "check", !.signalled = slot, !.missed = FALSE]
       \/ /\ ring.painted[slot] = thread.drawn /\ thread.signalled # None
          /\ thread' = [thread EXCEPT !.at = "check",
                            !.missed = ring.painted[thread.signalled] # thread.drawn]
          /\ UNCHANGED <<ring, toApp, out>>
    /\ UNCHANGED <<input, control, toReader, app, crossed>>

\* The paint fails on the device: the slot stays acquired.
PaintFails(slot) ==
    /\ At("paint")
    /\ slot \in ring.free
    /\ ring' = [ring EXCEPT !.free = @ \ {slot}]
    /\ thread' = [thread EXCEPT !.at = "check", !.missed = TRUE]
    /\ UNCHANGED <<input, control, toApp, toReader, app, out, crossed>>

\* No slot is free: the miss is counted.
AcquireMiss ==
    /\ At("paint")
    /\ ring.free = {}
    /\ thread' = [thread EXCEPT !.at = "check", !.missed = TRUE]
    /\ UNCHANGED <<input, control, screen>>

\* Mutant of CheckForWork: the value it finds is taken for seen.
CheckForWorkAdopting ==
    /\ At("check")
    /\ thread' = [thread EXCEPT !.seen = sequence, !.at =
                    IF ~control.dirty /\ ~control.stop THEN "wait" ELSE "top"]
    /\ UNCHANGED <<input, control, screen>>

\* Under the signal's mutex, which the thread then holds until it waits.
CheckForWork ==
    /\ At("check")
    /\ thread' = [thread EXCEPT !.at =
                    IF sequence = thread.seen /\ ~control.dirty /\ ~control.stop
                    THEN "wait" ELSE "top"]
    /\ UNCHANGED <<input, control, screen>>

Wait ==
    /\ At("wait")
    /\ thread' = [thread EXCEPT !.at = "asleep"]
    /\ UNCHANGED <<input, control, screen>>

Iteration ==
    \/ End \/ TakePending \/ RouteReturns \/ ReadSequence \/ SwapDirty \/ CompareGrid
    \/ Refresh \/ RefreshFails
    \/ (\E slot \in Slots : Paint(slot) \/ PaintFails(slot)) \/ AcquireMiss
    \/ CheckForWork \/ Wait

--------------------------------------------------------------------------------
\* The pane's consumer: the mirror first, then the signal.

Feed(s) ==
    /\ feeding = "idle"
    /\ sequence < MaxOutputs
    /\ scene' = s
    /\ feeding' = "output"
    /\ UNCHANGED <<grid, sequence, control, waking, commands, thread, screen>>

Publish ==
    /\ feeding = "output"
    /\ ~At("wait")
    /\ sequence' = sequence + 1
    /\ feeding' = "idle"
    /\ Notify
    /\ UNCHANGED <<scene, grid, control, waking, commands, screen>>

\* A resize to the size the mirror has already changes nothing and is left out.
ResizeMirror(g) ==
    /\ feeding = "idle"
    /\ g # grid
    /\ grid' = g
    /\ feeding' = "resize"
    /\ UNCHANGED <<scene, sequence, control, waking, commands, thread, screen>>

AnnounceResize ==
    /\ feeding = "resize"
    /\ feeding' = "idle"
    /\ Notify
    /\ UNCHANGED <<scene, grid, sequence, control, waking, commands, screen>>

--------------------------------------------------------------------------------
\* surface.* commands: each stores its change, then wakes the thread.

Command(next) ==
    /\ commands < MaxCommands
    /\ commands' = commands + 1
    /\ ~control.stop
    /\ control' = next
    /\ waking' = TRUE
    /\ UNCHANGED <<grid, sequence, feeding, thread, screen>>

\* surface.focus, dim, theme, preedit, scroll, wheel and selection
Overlay(s) ==
    /\ scene' = s
    /\ Command([control EXCEPT !.dirty = TRUE])

SurfaceResize(g) ==
    /\ Command([control EXCEPT !.pending = g, !.dirty = TRUE])
    /\ UNCHANGED scene

SetPaused(paused) ==
    /\ Command([control EXCEPT !.paused = paused, !.dirty = @ \/ ~paused])
    /\ UNCHANGED scene

\* surface.close, or another surface.open of the pane that supersedes this one.
Close ==
    /\ Command([control EXCEPT !.stop = TRUE])
    /\ UNCHANGED scene

Wake ==
    /\ waking
    /\ waking' = FALSE
    /\ Notify
    /\ UNCHANGED <<scene, grid, sequence, feeding, control, commands, screen>>

--------------------------------------------------------------------------------
\* The application and the reader thread.

\* A frame is shown in place of the one before, which is released.  A new ring's
\* surfaces take the place of the old ones.
Show ==
    LET message == Head(toApp) IN
    /\ toApp # <<>>
    /\ toApp' = Tail(toApp)
    /\ IF message.kind = "ring"
       THEN app' = None /\ UNCHANGED <<toReader, out>>
       ELSE /\ app' = message
            /\ IF app = None THEN UNCHANGED <<toReader, out>>
               ELSE /\ toReader' = Append(toReader, [slot |-> app.slot, ring |-> app.ring])
                    /\ out' = IF app.ring = ring.number THEN out \ {app.slot} ELSE out
    /\ UNCHANGED <<input, control, thread, ring, crossed>>

\* spawn_reader: a released slot goes to the pane's control, and the thread is woken.
Released ==
    /\ toReader # <<>>
    /\ toReader' = Tail(toReader)
    /\ control' = [control EXCEPT !.returns = Append(@, Head(toReader))]
    /\ Notify
    /\ UNCHANGED <<input, ring, toApp, app, out, crossed>>

Events ==
    \/ (\E s \in Scenes : Feed(s)) \/ Publish
    \/ (\E g \in Grids : ResizeMirror(g)) \/ AnnounceResize
    \/ (\E s \in Scenes : Overlay(s)) \/ (\E g \in Grids : SurfaceResize(g))
    \/ (\E paused \in BOOLEAN : SetPaused(paused)) \/ Close \/ Wake
    \/ Released

Next ==
    \/ Iteration /\ turns' = IF At("top") /\ turns < 2 THEN turns + 1 ELSE turns
    \/ Events /\ turns' = 0
    \/ Show /\ UNCHANGED turns

Spec == Init /\ [][Next]_vars

--------------------------------------------------------------------------------
\* Properties

Returned == [slot: Slots, ring: 0..MaxCommands]

TypeOK ==
    /\ scene \in Scenes /\ grid \in Grids
    /\ sequence \in 0..MaxOutputs
    /\ feeding \in {"idle", "output", "resize"}
    /\ control \in [dirty: BOOLEAN, stop: BOOLEAN, paused: BOOLEAN,
                    pending: Grids \cup {None}, returns: Seq(Returned)]
    /\ waking \in BOOLEAN
    /\ commands \in 0..MaxCommands
    /\ thread \in [at: ControlPoint, seen: 0..MaxOutputs, progressed: 0..MaxOutputs,
                   dirty: BOOLEAN, awaiting: BOOLEAN, signalled: Slot, grid: Grids,
                   drawn: Scenes \cup {None}, missed: BOOLEAN]
    /\ ring \in [number: 0..MaxCommands, free: SUBSET Slots, shown: Slot,
                 painted: [Slots -> Scenes \cup {None}]]
    /\ toApp \in Seq([kind: {"ring"}] \cup [kind: {"frame"}, slot: Slots, ring: 0..MaxCommands])
    /\ toReader \in Seq(Returned)
    /\ app \in [kind: {"frame"}, slot: Slots, ring: 0..MaxCommands] \cup {None}
    /\ out \subseteq Slots
    /\ crossed \in BOOLEAN
    /\ turns \in 0..2

\* The ring rule: a slot that may be painted is one the application was never sent or
\* has released -- as long as no release crosses a replacement of the ring.
FreeIsReturned == ~crossed => ring.free \cap out = {}

\* The thread reads the rows of a mirror that has its painter's grid: another grid takes an
\* event of this very iteration, a resize after the comparison let go of the mirror's lock.
GridMovesOnlyInTheGap == At("refresh") => grid = thread.grid \/ turns = 0

\* A thread that sleeps has nothing to do, nor will anyone wake it who has made
\* something to do.
AwakeForWork ==
    At("asleep") /\ ~waking /\ feeding = "idle" =>
        /\ ~control.dirty
        /\ ~control.stop
        /\ ~(thread.awaiting /\ grid = thread.grid)

\* When an unpaused thread sleeps with no work left to it, the last frame it signalled
\* shows the scene, unless its last paint found no slot, owed the slot it found nothing
\* or failed.
LastFrameIsTheScene ==
    /\ At("asleep")
    /\ ~waking /\ feeding = "idle"
    /\ ~control.dirty /\ ~control.paused
    /\ sequence = thread.seen
    /\ grid = thread.grid /\ ~thread.awaiting
    /\ ~thread.missed
    => LET last == IF thread.signalled # None THEN thread.signalled ELSE ring.shown
       IN  last # None /\ ring.painted[last] = scene

\* A thread does not poll: one iteration that nothing has reached leaves it to sleep, while
\* it waits for a grid, after a miss or a failure, unless its surface is paused.
RestsAfterEvents == ~control.paused => turns <= 1
================================================================================
