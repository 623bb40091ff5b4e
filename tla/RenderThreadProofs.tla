-------------------------- MODULE RenderThreadProofs --------------------------
(***************************************************************************)
(* That the render thread neither polls nor reads the rows of a mirror of  *)
(* another grid by its own doing, that what it signalled last before it    *)
(* sleeps is the scene, and that it paints no slot the application holds,  *)
(* for any scenes, grids and rings, and any number of outputs and commands.*)
(***************************************************************************)
EXTENDS RenderThread, TLAPS

--------------------------------------------------------------------------------
\* What one iteration leaves behind when nothing reaches the thread.

\* The records that may stand in the thread's place and the control's: of these fields, the
\* flags Boolean, the others whatever they are.
Locals(t) ==
    [at: ControlPoint, seen: {t.seen}, progressed: {t.progressed}, dirty: BOOLEAN,
     awaiting: BOOLEAN, signalled: {t.signalled}, grid: {t.grid}, drawn: {t.drawn},
     missed: BOOLEAN]

Flags(c) ==
    [dirty: BOOLEAN, stop: BOOLEAN, paused: BOOLEAN, pending: {c.pending},
     returns: {c.returns}]

Shape == thread \in Locals(thread) /\ control \in Flags(control) /\ turns \in 0..2

\* What an iteration has already settled at its control point, once nothing has reached the
\* thread since the iteration began.
Settled ==
    /\ ~At("top")
    /\ At("returns") \/ At("sequence") \/ At("dirty") \/ At("grid") => ~control.stop
    /\ At("dirty") \/ At("grid") => thread.progressed = sequence
    /\ At("grid") => ~control.dirty
    /\ At("refresh") \/ At("paint") \/ At("check") =>
        sequence = thread.seen /\ ~control.dirty /\ ~control.stop

\* An unpaused thread that nothing reaches is in the first iteration since something did.
Quiet == ~control.paused /\ turns # 0 => turns = 1 /\ Settled

Inv == Shape /\ GridMovesOnlyInTheGap /\ Quiet

\* An open surface owes its first paint, and no iteration has been made.
LEMMA InitInv == Init => Inv
  BY DEF Init, Inv, Shape, Locals, Flags, ControlPoint, GridMovesOnlyInTheGap, Quiet, At

\* An event keeps the shapes, and starts the count of iterations anew.
LEMMA EventsInv ==
    ASSUME Inv, Events, turns' = 0 PROVE Inv'
  <1>1. thread \in Locals(thread) /\ control \in Flags(control)
    BY DEF Inv, Shape
  <1>2. thread' \in Locals(thread')
    <2>1. Notify => thread' \in Locals(thread')
      BY <1>1 DEF Notify, Locals, ControlPoint
    <2>2. Notify \/ thread' = thread
      BY DEF Events, Feed, Publish, ResizeMirror, AnnounceResize, Overlay, SurfaceResize,
             SetPaused, Close, Command, Wake, Released
    <2> QED
      BY <1>1, <2>1, <2>2
  <1>3. control' \in Flags(control')
    <2>1. ASSUME NEW s \in Scenes, Overlay(s) PROVE control' \in Flags(control')
      BY <1>1, <2>1 DEF Overlay, Command, Flags
    <2>2. ASSUME NEW g \in Grids, SurfaceResize(g) PROVE control' \in Flags(control')
      BY <1>1, <2>2 DEF SurfaceResize, Command, Flags
    <2>3. ASSUME NEW paused \in BOOLEAN, SetPaused(paused)
          PROVE  control' \in Flags(control')
      BY <1>1, <2>3 DEF SetPaused, Command, Flags
    <2>4. CASE Close
      BY <1>1, <2>4 DEF Close, Command, Flags
    <2>5. CASE Released
      BY <1>1, <2>5 DEF Released, Flags
    <2>6. CASE control' = control
      BY <1>1, <2>6
    <2> QED
      BY <2>1, <2>2, <2>3, <2>4, <2>5, <2>6
         DEF Events, Feed, Publish, ResizeMirror, AnnounceResize, Wake
  <1>4. GridMovesOnlyInTheGap' /\ Quiet'
    BY DEF GridMovesOnlyInTheGap, Quiet
  <1> QED
    BY <1>2, <1>3, <1>4 DEF Inv, Shape

\* An iteration's step counts the iteration it begins.
Count == turns' = IF At("top") /\ turns < 2 THEN turns + 1 ELSE turns

\* Leaving the top: a stopped thread ends, another has neither stop nor a pending painter.
LEMMA TopInv ==
    ASSUME Inv, Count, End \/ TakePending PROVE Inv'
  <1> USE DEF Inv, Shape, Locals, Flags, ControlPoint, At, input, screen
  <1>1. turns' \in 0..2 /\ (~control.paused => turns' = 1)
    BY DEF End, TakePending, Count, Quiet, Settled
  <1>2. CASE End
    BY <1>1, <1>2 DEF End, GridMovesOnlyInTheGap, Quiet, Settled
  <1>3. CASE TakePending
    <2>1. Shape' /\ thread'.at = "returns" /\ control'.stop = control.stop
          /\ control'.paused = control.paused /\ ~control.stop
      <3>1. CASE control.pending = None
        BY <1>1, <1>3, <3>1 DEF TakePending
      <3>2. CASE control.pending # None
        BY <1>1, <1>3, <3>2 DEF TakePending
      <3> QED
        BY <3>1, <3>2
    <2> QED
      BY <1>1, <2>1 DEF GridMovesOnlyInTheGap, Quiet, Settled
  <1> QED
    BY <1>2, <1>3

\* Between the top and the paint: what the thread reads is what is there.
LEMMA ReadInv ==
    ASSUME Inv, Count, RouteReturns \/ ReadSequence \/ SwapDirty \/ CompareGrid PROVE Inv'
  <1> USE DEF Inv, Shape, Locals, Flags, ControlPoint, At, input, screen,
              GridMovesOnlyInTheGap, Quiet, Settled
  <1>1. ~At("top") /\ turns' = turns
    BY DEF RouteReturns, ReadSequence, SwapDirty, CompareGrid, Count
  <1>2. CASE RouteReturns
    <2>1. PICK signalled :
            thread' = [thread EXCEPT !.at = "sequence", !.signalled = signalled]
      BY <1>2 DEF RouteReturns
    <2>2. /\ control' = [control EXCEPT !.returns = <<>>]
          /\ thread.at = "returns"
          /\ sequence' = sequence /\ grid' = grid
      BY <1>2 DEF RouteReturns
    <2> QED
      BY <1>1, <2>1, <2>2
  <1>3. CASE ReadSequence
    BY <1>1, <1>3 DEF ReadSequence
  <1>4. CASE SwapDirty
    BY <1>1, <1>4 DEF SwapDirty
  <1>5. CASE CompareGrid
    <2> DEFINE read == [thread EXCEPT !.dirty = FALSE, !.progressed = 0]
    <2>1. thread.at = "grid" /\ control' = control /\ sequence' = sequence /\ grid' = grid
      BY <1>5 DEF CompareGrid
    <2>2. CASE /\ grid # thread.grid
               /\ thread' = [read EXCEPT !.at = "check", !.seen = thread.progressed,
                                         !.awaiting = TRUE]
      BY <1>1, <2>1, <2>2
    <2>3. CASE /\ grid = thread.grid
               /\ thread' = [read EXCEPT !.at = "refresh", !.seen = thread.progressed,
                                         !.awaiting = FALSE]
      BY <1>1, <2>1, <2>3
    <2>4. CASE /\ control.paused \/ thread.progressed = thread.seen
               /\ thread' = [read EXCEPT !.at = "check"]
      BY <1>1, <2>1, <2>4
    <2> QED
      BY <1>5, <2>2, <2>3, <2>4 DEF CompareGrid
  <1> QED
    BY <1>2, <1>3, <1>4, <1>5

\* The paint changes nothing that the thread's next iteration is owed to.
LEMMA PaintInv ==
    ASSUME Inv, Count,
           \/ Refresh \/ RefreshFails \/ AcquireMiss
           \/ \E slot \in Slots : Paint(slot) \/ PaintFails(slot)
    PROVE  Inv'
  <1> USE DEF Inv, Shape, Locals, Flags, ControlPoint, At, input, screen,
              GridMovesOnlyInTheGap, Quiet, Settled
  <1>1. ~At("top") /\ turns' = turns
    BY DEF Refresh, RefreshFails, AcquireMiss, Paint, PaintFails, Count
  <1>2. CASE Refresh
    BY <1>1, <1>2 DEF Refresh
  <1>3. CASE RefreshFails
    BY <1>1, <1>3 DEF RefreshFails
  <1>4. CASE AcquireMiss
    BY <1>1, <1>4 DEF AcquireMiss
  <1>5. ASSUME NEW slot \in Slots, Paint(slot) PROVE Inv'
    <2>1. /\ thread.at = "paint"
          /\ control' = control /\ sequence' = sequence /\ grid' = grid
      BY <1>5 DEF Paint
    <2>2. CASE thread' = [thread EXCEPT !.at = "check", !.signalled = slot, !.missed = FALSE]
      BY <1>1, <2>1, <2>2
    <2>3. CASE thread' = [thread EXCEPT !.at = "check",
                              !.missed = ring.painted[thread.signalled] # thread.drawn]
      BY <1>1, <2>1, <2>3
    <2> QED
      BY <1>5, <2>2, <2>3 DEF Paint
  <1>6. ASSUME NEW slot \in Slots, PaintFails(slot) PROVE Inv'
    BY <1>1, <1>6 DEF PaintFails
  <1> QED
    BY <1>2, <1>3, <1>4, <1>5, <1>6

\* The check sends an unpaused thread that nothing has reached to sleep.
LEMMA CheckInv ==
    ASSUME Inv, Count, CheckForWork \/ Wait PROVE Inv'
  <1> USE DEF Inv, Shape, Locals, Flags, ControlPoint, At, input, screen,
              GridMovesOnlyInTheGap, Quiet, Settled
  <1>1. ~At("top") /\ turns' = turns
    BY DEF CheckForWork, Wait, Count
  <1>2. CASE CheckForWork
    BY <1>1, <1>2 DEF CheckForWork
  <1>3. CASE Wait
    BY <1>1, <1>3 DEF Wait
  <1> QED
    BY <1>2, <1>3

\* Every step keeps the invariant: an iteration's by its control point, and an event's.
LEMMA NextInv ==
    ASSUME Inv, [Next]_vars PROVE Inv'
  <1>1. CASE Iteration /\ Count
    BY <1>1, TopInv, ReadInv, PaintInv, CheckInv DEF Iteration
  <1>2. CASE Events /\ turns' = 0
    BY <1>2, EventsInv
  <1>3. CASE Show /\ UNCHANGED turns
    BY <1>3 DEF Show, input, Inv, Shape, Locals, Flags, ControlPoint, GridMovesOnlyInTheGap,
                Quiet, Settled, At
  <1>4. CASE UNCHANGED vars
    BY <1>4 DEF vars, Inv, Shape, Locals, Flags, ControlPoint, GridMovesOnlyInTheGap,
                Quiet, Settled, At
  <1> QED
    BY <1>1, <1>2, <1>3, <1>4 DEF Next, Count

\* So it holds of every behaviour of the surface.
LEMMA AlwaysInv == Spec => []Inv
  <1>1. Inv /\ [Next]_vars => Inv'
    BY NextInv
  <1> QED
    BY InitInv, <1>1, PTL DEF Spec

\* The thread reads the rows of a mirror that has its painter's grid, unless a resize has
\* come between its comparison of the grids and its second lock of the mirror.
THEOREM ReadsItsOwnGrid == Spec => []GridMovesOnlyInTheGap
  BY AlwaysInv, PTL DEF Inv

\* An unpaused thread does not poll: of what reaches it, one iteration is made at the most
\* before it sleeps, ends or something else reaches it.
THEOREM ThreadRests == Spec => []RestsAfterEvents
  <1>1. Inv => RestsAfterEvents
    BY DEF Inv, Shape, Quiet, RestsAfterEvents
  <1> QED
    BY AlwaysInv, <1>1, PTL

--------------------------------------------------------------------------------
\* What every variable holds.

ControlRecord ==
    [dirty: BOOLEAN, stop: BOOLEAN, paused: BOOLEAN, pending: Grids \cup {None},
     returns: Seq(Returned)]

ThreadRecord ==
    [at: ControlPoint, seen: 0..MaxOutputs, progressed: 0..MaxOutputs, dirty: BOOLEAN,
     awaiting: BOOLEAN, signalled: Slot, grid: Grids, drawn: Scenes \cup {None},
     missed: BOOLEAN]

RingRecord ==
    [number: 0..MaxCommands, free: SUBSET Slots, shown: Slot,
     painted: [Slots -> Scenes \cup {None}]]

Frame == [kind: {"frame"}, slot: Slots, ring: 0..MaxCommands]

Message == [kind: {"ring"}] \cup Frame

\* The thread, what steers it and what it paints into.
StateTyped == control \in ControlRecord /\ thread \in ThreadRecord /\ ring \in RingRecord

InputTyped ==
    /\ scene \in Scenes /\ grid \in Grids
    /\ sequence \in 0..MaxOutputs
    /\ feeding \in {"idle", "output", "resize"}
    /\ feeding = "output" => sequence < MaxOutputs
    /\ waking \in BOOLEAN
    /\ commands \in 0..MaxCommands

ScreenTyped ==
    /\ toApp \in Seq(Message)
    /\ toReader \in Seq(Returned)
    /\ app \in Frame \cup {None}
    /\ out \subseteq Slots
    /\ crossed \in BOOLEAN

\* A ring is replaced for a resize, and the resize that is pending will be one more.
Replacements == ring.number + (IF control.pending = None THEN 0 ELSE 1) <= commands

TypeInv == StateTyped /\ InputTyped /\ ScreenTyped /\ turns \in 0..2 /\ Replacements

LEMMA TypesByPart == TypeInv => TypeOK
  BY DEF TypeInv, StateTyped, InputTyped, ScreenTyped, TypeOK, ControlRecord, ThreadRecord,
         RingRecord, Frame, Message

\* What a RouteReturns makes of the slots that were returned.
Routed ==
    ReturnAll([signalled |-> thread.signalled, shown |-> ring.shown, free |-> ring.free],
              {returned.slot : returned \in Range(control.returns)})

LEMMA RoutedTyped ==
    ASSUME StateTyped
    PROVE  Routed \in [signalled: Slot, shown: Slot, free: SUBSET Slots]
  <1> DEFINE Held == [signalled: Slot, shown: Slot, free: SUBSET Slots]
             held == [signalled |-> thread.signalled, shown |-> ring.shown, free |-> ring.free]
             slots == {returned.slot : returned \in Range(control.returns)}
  <1>1. held \in Held
    BY DEF StateTyped, ThreadRecord, RingRecord
  <1>2. slots \in SUBSET Slots
    <2>1. control.returns \in Seq(Returned)
      BY DEF StateTyped, ControlRecord
    <2>2. Range(control.returns) \subseteq Returned
      BY <2>1 DEF Range
    <2> QED
      BY <2>2 DEF Returned
  <1>3. Routed = ReturnAll(held, slots)
    BY DEF Routed
  <1> HIDE DEF held, slots
  <1>4. MoveOn(held) \in Held
    BY <1>1 DEF MoveOn, Slot
  <1>5. ReturnAll(held, slots) \in Held
    BY <1>1, <1>2, <1>4 DEF ReturnAll
  <1> QED
    BY <1>3, <1>5

LEMMA InitTyped == Init => TypeInv
  <1> SUFFICES ASSUME Init PROVE TypeInv
    OBVIOUS
  <1> USE RenderAssumption
  <1>1. ring \in RingRecord /\ ring.number = 0
    BY DEF Init, FreshRing, RingRecord, Slot
  <1>2. control \in ControlRecord /\ control.pending = None
    BY DEF Init, ControlRecord
  <1>3. thread \in ThreadRecord
    BY DEF Init, ThreadRecord, ControlPoint, Slot
  <1>4. InputTyped /\ commands = 0
    <2>1. sequence = 0 /\ 0 \in 0..MaxOutputs /\ commands = 0 /\ 0 \in 0..MaxCommands
      BY DEF Init
    <2> QED
      BY <2>1 DEF Init, InputTyped
  <1>5. ScreenTyped /\ turns \in 0..2
    <2>1. toApp = <<>> /\ toReader = <<>> /\ app = None /\ out = {} /\ crossed = FALSE
      BY DEF Init
    <2>2. turns \in 0..2
      BY DEF Init
    <2>3. toApp \in Seq(Message) /\ toReader \in Seq(Returned)
      BY <2>1
    <2> QED
      BY <2>1, <2>2, <2>3 DEF ScreenTyped
  <1> QED
    BY <1>1, <1>2, <1>3, <1>4, <1>5 DEF TypeInv, StateTyped, Replacements

LEMMA NotifyTyped ==
    ASSUME StateTyped, Notify PROVE thread' \in ThreadRecord
  BY DEF StateTyped, Notify, ThreadRecord, ControlPoint

\* A command keeps the types, and asks for one replacement at the most.
LEMMA CommandTyped ==
    ASSUME TypeInv, scene' \in Scenes,
           NEW next \in ControlRecord, Command(next), turns' = 0
    PROVE  TypeInv'
  <1> USE DEF TypeInv
  <1>1. control' \in ControlRecord /\ UNCHANGED <<thread, ring>>
    BY DEF Command, screen
  <1>2. InputTyped' /\ commands' = commands + 1
    BY RenderAssumption DEF Command, InputTyped
  <1>3. ScreenTyped'
    BY DEF Command, screen, ScreenTyped
  <1>4. Replacements'
    BY <1>1, <1>2 DEF Replacements, StateTyped, RingRecord, InputTyped
  <1> QED
    BY <1>1, <1>2, <1>3, <1>4 DEF StateTyped

LEMMA EventsTyped ==
    ASSUME TypeInv, Events, turns' = 0 PROVE TypeInv'
  <1> USE DEF TypeInv
  <1>0. control \in ControlRecord /\ thread \in ThreadRecord /\ scene \in Scenes
    BY DEF StateTyped, InputTyped
  <1>1. ASSUME control' = control, ring' = ring, ScreenTyped', InputTyped',
               thread' = thread \/ Notify, commands' = commands
        PROVE  TypeInv'
    BY <1>1, NotifyTyped DEF StateTyped, Replacements
  <1>2. ASSUME NEW s \in Scenes, Feed(s) PROVE TypeInv'
    BY <1>1, <1>2 DEF Feed, InputTyped, ScreenTyped, screen
  <1>3. CASE Publish
    <2>1. sequence' \in 0..MaxOutputs
      BY <1>3, RenderAssumption DEF Publish, InputTyped
    <2> QED
      BY <1>1, <1>3, <2>1 DEF Publish, InputTyped, ScreenTyped, screen
  <1>4. ASSUME NEW g \in Grids, ResizeMirror(g) PROVE TypeInv'
    BY <1>1, <1>4 DEF ResizeMirror, InputTyped, ScreenTyped, screen
  <1>5. CASE AnnounceResize
    BY <1>1, <1>5 DEF AnnounceResize, InputTyped, ScreenTyped, screen
  <1>6. CASE Wake
    BY <1>1, <1>6 DEF Wake, InputTyped, ScreenTyped, screen
  <1>7. ASSUME NEW s \in Scenes, Overlay(s) PROVE TypeInv'
    <2>1. [control EXCEPT !.dirty = TRUE] \in ControlRecord
      BY <1>0 DEF ControlRecord
    <2> QED
      BY <1>7, <2>1, CommandTyped DEF Overlay
  <1>8. ASSUME NEW g \in Grids, SurfaceResize(g) PROVE TypeInv'
    <2>1. [control EXCEPT !.pending = g, !.dirty = TRUE] \in ControlRecord
      BY <1>0 DEF ControlRecord
    <2> QED
      BY <1>0, <1>8, <2>1, CommandTyped DEF SurfaceResize
  <1>9. ASSUME NEW paused \in BOOLEAN, SetPaused(paused) PROVE TypeInv'
    <2>1. [control EXCEPT !.paused = paused, !.dirty = @ \/ ~paused] \in ControlRecord
      BY <1>0 DEF ControlRecord
    <2> QED
      BY <1>0, <1>9, <2>1, CommandTyped DEF SetPaused
  <1>10. CASE Close
    <2>1. [control EXCEPT !.stop = TRUE] \in ControlRecord
      BY <1>0 DEF ControlRecord
    <2> QED
      BY <1>0, <1>10, <2>1, CommandTyped DEF Close
  <1>11. CASE Released
    <2>1. Head(toReader) \in Returned /\ toReader' \in Seq(Returned)
      BY <1>11 DEF Released, ScreenTyped
    <2>2. control' \in ControlRecord /\ control'.pending = control.pending
      <3>1. Append(control.returns, Head(toReader)) \in Seq(Returned)
        BY <1>0, <2>1 DEF ControlRecord
      <3>2. control' = [control EXCEPT !.returns = Append(control.returns, Head(toReader))]
        BY <1>11 DEF Released
      <3> HIDE DEF TypeInv
      <3> QED
        BY <1>0, <3>1, <3>2 DEF ControlRecord
    <2>3. thread' \in ThreadRecord
      BY <1>11, NotifyTyped DEF Released
    <2>4. StateTyped' /\ Replacements'
      BY <1>11, <2>2, <2>3 DEF Released, StateTyped, Replacements, input
    <2>5. InputTyped' /\ ScreenTyped'
      BY <1>11, <2>1 DEF Released, InputTyped, ScreenTyped, input
    <2> QED
      BY <2>4, <2>5
  <1> QED
    BY <1>2, <1>3, <1>4, <1>5, <1>6, <1>7, <1>8, <1>9, <1>10, <1>11 DEF Events

LEMMA TopTyped ==
    ASSUME TypeInv, Count, End \/ TakePending PROVE TypeInv'
  <1> USE DEF TypeInv
  <1>0. control \in ControlRecord /\ thread \in ThreadRecord /\ ring \in RingRecord
    BY DEF StateTyped
  <1>1. turns' \in 0..2 /\ InputTyped' /\ commands' = commands
    BY DEF Count, End, TakePending, InputTyped, input
  <1>2. CASE End \/ (TakePending /\ control.pending = None)
    <2>1. thread' \in ThreadRecord
      BY <1>0, <1>2 DEF End, TakePending, ThreadRecord, ControlPoint
    <2>2. UNCHANGED <<control, screen>>
      BY <1>2 DEF End, TakePending
    <2>3. StateTyped' /\ Replacements'
      BY <1>0, <1>1, <2>1, <2>2 DEF StateTyped, Replacements, screen
    <2>4. ScreenTyped'
      BY <2>2 DEF ScreenTyped, screen
    <2> QED
      BY <1>1, <2>3, <2>4
  <1>3. CASE TakePending /\ control.pending # None
    <2>1. /\ thread' = [thread EXCEPT !.at = "returns", !.grid = control.pending,
                                      !.drawn = None, !.signalled = None, !.missed = FALSE]
          /\ ring' = FreshRing(ring.number + 1)
          /\ toApp' = Append(toApp, [kind |-> "ring"])
          /\ out' = {}
          /\ control' = [control EXCEPT !.pending = None, !.dirty = TRUE]
          /\ UNCHANGED <<toReader, app, crossed>>
      BY <1>3 DEF TakePending
    <2>2. thread' \in ThreadRecord
      BY <1>0, <1>3, <2>1 DEF ThreadRecord, ControlRecord, ControlPoint, Slot
    <2>3. control' \in ControlRecord /\ control'.pending = None
      BY <1>0, <2>1 DEF ControlRecord
    <2>4. ring.number + 1 \in 0..MaxCommands /\ ring.number + 1 <= commands
      BY <1>0, <1>3, RenderAssumption DEF Replacements, RingRecord, InputTyped
    <2>5. ring' \in RingRecord /\ ring'.number = ring.number + 1
      BY <2>1, <2>4 DEF FreshRing, RingRecord, Slot
    <2>6. ScreenTyped'
      BY <2>1 DEF ScreenTyped, Message
    <2>7. Replacements'
      BY <1>1, <2>3, <2>4, <2>5 DEF Replacements, RingRecord
    <2> QED
      BY <1>1, <2>2, <2>3, <2>5, <2>6, <2>7 DEF StateTyped
  <1> QED
    BY <1>2, <1>3

\* Between the top and the paint, and behind it: the thread's own locals.
LEMMA ReadTyped ==
    ASSUME TypeInv, Count,
           \/ RouteReturns \/ ReadSequence \/ SwapDirty \/ CompareGrid
           \/ Refresh \/ RefreshFails \/ AcquireMiss \/ CheckForWork \/ Wait
    PROVE  TypeInv'
  <1> USE DEF TypeInv
  <1>0. control \in ControlRecord /\ thread \in ThreadRecord /\ ring \in RingRecord
    BY DEF StateTyped
  <1>1. turns' \in 0..2 /\ InputTyped' /\ commands' = commands
    BY DEF Count, RouteReturns, ReadSequence, SwapDirty, CompareGrid, Refresh, RefreshFails,
           AcquireMiss, CheckForWork, Wait, InputTyped, input
  <1>2. CASE RouteReturns
    <2>1. /\ thread' = [thread EXCEPT !.at = "sequence", !.signalled = Routed.signalled]
          /\ ring' = [ring EXCEPT !.shown = Routed.shown, !.free = Routed.free]
          /\ control' = [control EXCEPT !.returns = <<>>]
          /\ crossed' = (crossed \/ \E returned \in Range(control.returns) :
                                       returned.ring # ring.number)
          /\ UNCHANGED <<toApp, toReader, app, out>>
      BY <1>2 DEF RouteReturns, Routed
    <2>2. Routed \in [signalled: Slot, shown: Slot, free: SUBSET Slots]
      BY RoutedTyped
    <2>3. thread' \in ThreadRecord
      BY <1>0, <2>1, <2>2 DEF ThreadRecord, ControlPoint
    <2>4. ring' \in RingRecord /\ ring'.number = ring.number
      BY <1>0, <2>1, <2>2 DEF RingRecord
    <2>5. control' \in ControlRecord /\ control'.pending = control.pending
      <3>1. <<>> \in Seq(Returned)
        OBVIOUS
      <3> QED
        BY <1>0, <2>1, <3>1 DEF ControlRecord
    <2>6. ScreenTyped'
      BY <2>1 DEF ScreenTyped
    <2>7. StateTyped' /\ Replacements'
      BY <1>1, <2>3, <2>4, <2>5 DEF StateTyped, Replacements
    <2> QED
      BY <1>1, <2>6, <2>7
  <1>3. ASSUME thread' \in ThreadRecord, control' \in ControlRecord,
               control'.pending = control.pending, UNCHANGED screen
        PROVE  TypeInv'
    <2>1. StateTyped' /\ Replacements'
      BY <1>0, <1>1, <1>3 DEF StateTyped, Replacements, screen
    <2>2. ScreenTyped'
      BY <1>3 DEF ScreenTyped, screen
    <2> QED
      BY <1>1, <2>1, <2>2
  <1>4. CASE ReadSequence
    <2>1. thread' \in ThreadRecord
      BY <1>0, <1>4 DEF ReadSequence, ThreadRecord, ControlPoint, InputTyped
    <2> QED
      BY <1>0, <1>3, <1>4, <2>1 DEF ReadSequence
  <1>5. CASE SwapDirty
    <2>1. thread' \in ThreadRecord
      BY <1>0, <1>5 DEF SwapDirty, ThreadRecord, ControlPoint, ControlRecord
    <2>2. control' \in ControlRecord /\ control'.pending = control.pending
      BY <1>0, <1>5 DEF SwapDirty, ControlRecord
    <2> QED
      BY <1>3, <1>5, <2>1, <2>2 DEF SwapDirty
  <1>6. CASE CompareGrid
    <2> DEFINE read == [thread EXCEPT !.dirty = FALSE, !.progressed = 0]
    <2>1. read \in ThreadRecord /\ thread.progressed \in 0..MaxOutputs
      <3>1. 0 \in 0..MaxOutputs
        BY RenderAssumption
      <3> QED
        BY <1>0, <3>1 DEF ThreadRecord
    <2> HIDE DEF read
    <2>2. \/ thread' = [read EXCEPT !.at = "check", !.seen = thread.progressed,
                                    !.awaiting = TRUE]
          \/ thread' = [read EXCEPT !.at = "refresh", !.seen = thread.progressed,
                                    !.awaiting = FALSE]
          \/ thread' = [read EXCEPT !.at = "check"]
      BY <1>6 DEF CompareGrid, read
    <2>3. thread' \in ThreadRecord
      BY <2>1, <2>2 DEF ThreadRecord, ControlPoint
    <2> QED
      BY <1>0, <1>3, <1>6, <2>3 DEF CompareGrid
  <1>7. CASE Refresh \/ RefreshFails \/ AcquireMiss \/ CheckForWork \/ Wait
    <2>1. thread' \in ThreadRecord
      BY <1>0, <1>7 DEF Refresh, RefreshFails, AcquireMiss, CheckForWork, Wait, ThreadRecord,
                        ControlPoint, InputTyped
    <2> QED
      BY <1>0, <1>3, <1>7, <2>1 DEF Refresh, RefreshFails, AcquireMiss, CheckForWork, Wait
  <1> QED
    BY <1>2, <1>4, <1>5, <1>6, <1>7

LEMMA PaintTyped ==
    ASSUME TypeInv, Count, NEW slot \in Slots, Paint(slot) \/ PaintFails(slot)
    PROVE  TypeInv'
  <1> USE DEF TypeInv
  <1>0. control \in ControlRecord /\ thread \in ThreadRecord /\ ring \in RingRecord
    BY DEF StateTyped
  <1>1. turns' \in 0..2 /\ InputTyped' /\ UNCHANGED <<commands, control>>
    BY DEF Count, Paint, PaintFails, InputTyped, input
  <1>2. thread' \in ThreadRecord
    BY <1>0 DEF Paint, PaintFails, ThreadRecord, ControlPoint, Slot
  <1>3. ring' \in RingRecord /\ ring'.number = ring.number
    <2>1. CASE ring' = [ring EXCEPT !.free = @ \ {slot}, !.painted[slot] = thread.drawn]
      <3>1. [ring.painted EXCEPT ![slot] = thread.drawn] \in [Slots -> Scenes \cup {None}]
        BY <1>0 DEF ThreadRecord, RingRecord
      <3>2. ring' = [ring EXCEPT !.free = ring.free \ {slot},
                                 !.painted = [ring.painted EXCEPT ![slot] = thread.drawn]]
        BY <1>0, <2>1 DEF RingRecord
      <3> QED
        BY <1>0, <3>1, <3>2 DEF RingRecord
    <2>2. CASE ring' = [ring EXCEPT !.free = @ \ {slot}] \/ ring' = ring
      BY <1>0, <2>2 DEF RingRecord
    <2> QED
      BY <2>1, <2>2 DEF Paint, PaintFails
  <1>4. ScreenTyped'
    <2>1. [kind |-> "frame", slot |-> slot, ring |-> ring.number] \in Message
      BY <1>0 DEF RingRecord, Message, Frame
    <2> QED
      BY <2>1 DEF Paint, PaintFails, ScreenTyped
  <1> QED
    BY <1>0, <1>1, <1>2, <1>3, <1>4 DEF StateTyped, Replacements

LEMMA ShowTyped ==
    ASSUME TypeInv, Show, UNCHANGED turns PROVE TypeInv'
  <1> USE DEF TypeInv
  <1>1. StateTyped' /\ InputTyped' /\ Replacements'
    BY DEF Show, StateTyped, InputTyped, Replacements, input
  <1>2. PICK message \in Message : message = Head(toApp)
    BY DEF Show, ScreenTyped
  <1>3. toApp' \in Seq(Message) /\ out' \subseteq Slots /\ UNCHANGED crossed
    BY DEF Show, ScreenTyped
  <1>4. message.kind # "ring" => message \in Frame
    BY DEF Message
  <1>5. app' \in Frame \cup {None}
    BY <1>2, <1>4 DEF Show
  <1>6. app # None => [slot |-> app.slot, ring |-> app.ring] \in Returned
    BY DEF ScreenTyped, Frame, Returned
  <1>7. toReader' \in Seq(Returned)
    <2>1. toReader \in Seq(Returned)
      BY DEF ScreenTyped
    <2>2. \/ toReader' = toReader
          \/ app # None /\ toReader' = Append(toReader, [slot |-> app.slot, ring |-> app.ring])
      BY DEF Show
    <2> QED
      BY <1>6, <2>1, <2>2
  <1> QED
    BY <1>1, <1>3, <1>5, <1>7 DEF ScreenTyped

LEMMA TypeStep ==
    ASSUME TypeInv, [Next]_vars PROVE TypeInv'
  <1>1. CASE Iteration /\ Count
    BY <1>1, TopTyped, ReadTyped, PaintTyped DEF Iteration
  <1>2. CASE Events /\ turns' = 0
    BY <1>2, EventsTyped
  <1>3. CASE Show /\ UNCHANGED turns
    BY <1>3, ShowTyped
  <1>4. CASE UNCHANGED vars
    BY <1>4 DEF vars, TypeInv, StateTyped, InputTyped, ScreenTyped, Replacements
  <1> QED
    BY <1>1, <1>2, <1>3, <1>4 DEF Next, Count

\* Every variable holds what it is declared for: in particular a ring's number is never that
\* of a command that was not made.
THEOREM ThreadTypes == Spec => []TypeOK
  <1>1. TypeInv /\ [Next]_vars => TypeInv'
    BY TypeStep
  <1> QED
    BY InitTyped, <1>1, TypesByPart, PTL DEF Spec

--------------------------------------------------------------------------------
\* What the thread has yet to show.

\* The frame that was signalled last, whether or not the application has moved to it.
Last == IF thread.signalled # None THEN thread.signalled ELSE ring.shown

Current == Last # None /\ ring.painted[Last] = scene

\* Output that was fed or published, or a command's change, will have the thread paint.
Owed == feeding = "output" \/ sequence # thread.seen \/ control.dirty

\* What is drawn is the scene, and so is the frame signalled last, or something is owed.
FreshInv ==
    /\ thread.seen <= sequence /\ thread.progressed <= sequence
    /\ ~At("grid") => ~thread.dirty
    /\ At("paint") => thread.drawn = scene \/ Owed
    /\ ~At("refresh") /\ ~At("paint") /\ ~thread.missed =>
          Current \/ Owed \/ thread.awaiting \/ thread.dirty \/ control.paused

\* The first paint is owed.
LEMMA InitFresh == Init => FreshInv
  <1> SUFFICES ASSUME Init PROVE FreshInv
    OBVIOUS
  <1>1. /\ sequence = 0 /\ control.dirty = TRUE
        /\ thread.at = "top" /\ thread.seen = 0 /\ thread.progressed = 0
        /\ thread.dirty = FALSE
    BY DEF Init
  <1> QED
    BY <1>1 DEF FreshInv, Owed, At

\* An event that changes the scene leaves something owed.
LEMMA EventsFresh ==
    ASSUME TypeInv, FreshInv, Events PROVE FreshInv'
  <1> USE DEF TypeInv
  <1>0. thread \in ThreadRecord /\ control \in ControlRecord
    BY DEF StateTyped
  <1>1. sequence \in Int /\ thread.seen \in Int /\ thread.progressed \in Int
    BY <1>0 DEF InputTyped, ThreadRecord
  <1>2. /\ thread'.seen = thread.seen /\ thread'.progressed = thread.progressed
        /\ thread'.dirty = thread.dirty /\ thread'.awaiting = thread.awaiting
        /\ thread'.signalled = thread.signalled /\ thread'.drawn = thread.drawn
        /\ thread'.missed = thread.missed
        /\ At("grid")' = At("grid") /\ At("refresh")' = At("refresh")
        /\ At("paint")' = At("paint")
    <2>1. thread' = thread \/ (At("asleep") /\ thread' = [thread EXCEPT !.at = "top"])
      BY DEF Events, Feed, Publish, ResizeMirror, AnnounceResize, Overlay, SurfaceResize,
             SetPaused, Close, Command, Wake, Released, Notify
    <2> QED
      BY <1>0, <2>1 DEF ThreadRecord, At
  <1>3. ring' = ring
    BY DEF Events, Feed, Publish, ResizeMirror, AnnounceResize, Overlay, SurfaceResize,
           SetPaused, Close, Command, Wake, Released, screen
  <1>4. sequence' \in {sequence, sequence + 1}
    BY DEF Events, Feed, Publish, ResizeMirror, AnnounceResize, Overlay, SurfaceResize,
           SetPaused, Close, Command, Wake, Released, input
  <1>5. \/ Owed'
        \/ UNCHANGED scene /\ (Owed => Owed') /\ (control.paused => control'.paused)
    <2>1. ASSUME NEW s \in Scenes, Feed(s) PROVE Owed'
      BY <2>1 DEF Feed, Owed
    <2>2. CASE Publish
      BY <1>1, <1>2, <2>2 DEF Publish, Owed, FreshInv
    <2>3. ASSUME NEW s \in Scenes, Overlay(s) PROVE Owed'
      BY <1>0, <2>3 DEF Overlay, Command, Owed, ControlRecord
    <2>4. ASSUME NEW g \in Grids, SurfaceResize(g) PROVE Owed'
      BY <1>0, <2>4 DEF SurfaceResize, Command, Owed, ControlRecord
    <2>5. CASE SetPaused(FALSE)
      BY <1>0, <2>5 DEF SetPaused, Command, Owed, ControlRecord
    <2>6. CASE SetPaused(TRUE)
      BY <1>0, <1>2, <2>6 DEF SetPaused, Command, Owed, ControlRecord
    <2>7. CASE Close
      BY <1>0, <1>2, <2>7 DEF Close, Command, Owed, ControlRecord
    <2>8. CASE Released
      BY <1>0, <1>2, <2>8 DEF Released, Owed, ControlRecord, input
    <2>9. ASSUME NEW g \in Grids, ResizeMirror(g)
          PROVE  UNCHANGED scene /\ (Owed => Owed') /\ (control.paused => control'.paused)
      BY <1>2, <2>9 DEF ResizeMirror, Owed
    <2>10. CASE AnnounceResize \/ Wake
      BY <1>2, <2>10 DEF AnnounceResize, Wake, Owed
    <2> QED
      BY <2>1, <2>2, <2>3, <2>4, <2>5, <2>6, <2>7, <2>8, <2>9, <2>10 DEF Events
  <1>6. UNCHANGED scene => (Current => Current')
    BY <1>2, <1>3 DEF Current, Last
  <1>7. thread'.seen <= sequence' /\ thread'.progressed <= sequence'
    BY <1>1, <1>2, <1>4 DEF FreshInv
  <1>9. At("paint")' => thread'.drawn = scene' \/ Owed'
    BY <1>2, <1>5 DEF FreshInv
  <1>10. ~At("refresh")' /\ ~At("paint")' /\ ~thread'.missed =>
            Current' \/ Owed' \/ thread'.awaiting \/ thread'.dirty \/ control'.paused
    BY <1>2, <1>5, <1>6 DEF FreshInv
  <1> QED
    BY <1>2, <1>7, <1>9, <1>10 DEF FreshInv

\* The steps of an iteration pass on what is owed until it is painted, or missed.
LEMMA IterationFresh ==
    ASSUME TypeInv, FreshInv, Iteration PROVE FreshInv'
  <1> USE DEF TypeInv
  <1>0. thread \in ThreadRecord /\ control \in ControlRecord /\ ring \in RingRecord
    BY DEF StateTyped
  <1>1. UNCHANGED input
    BY DEF Iteration, End, TakePending, RouteReturns, ReadSequence, SwapDirty, CompareGrid,
           Refresh, RefreshFails, Paint, PaintFails, AcquireMiss, CheckForWork, Wait
  <1>2. sequence \in Int /\ 0 <= sequence /\ UNCHANGED <<scene, feeding, sequence>>
    BY <1>1 DEF InputTyped, input
  <1>3. CASE End \/ CheckForWork \/ Wait
    <2>1. PICK at \in {"ended", "wait", "top", "asleep"} : thread' = [thread EXCEPT !.at = at]
      BY <1>3 DEF End, CheckForWork, Wait
    <2>2. UNCHANGED <<control, ring>> /\ (At("top") \/ At("check") \/ At("wait"))
      BY <1>3 DEF End, CheckForWork, Wait, screen
    <2>3. Current' = Current /\ Owed' = Owed
      BY <1>0, <1>2, <2>1, <2>2 DEF Current, Last, Owed, ThreadRecord
    <2> QED
      BY <1>0, <1>2, <2>1, <2>2, <2>3 DEF FreshInv, At, ThreadRecord
  <1>4. CASE TakePending /\ control.pending = None
    <2>1. thread' = [thread EXCEPT !.at = "returns"] /\ UNCHANGED <<control, ring>> /\ At("top")
      BY <1>4 DEF TakePending, screen
    <2>2. Current' = Current /\ Owed' = Owed
      BY <1>0, <1>2, <2>1 DEF Current, Last, Owed, ThreadRecord
    <2> QED
      BY <1>0, <1>2, <2>1, <2>2 DEF FreshInv, At, ThreadRecord
  <1>5. CASE TakePending /\ control.pending # None
    <2>1. /\ thread' = [thread EXCEPT !.at = "returns", !.grid = control.pending,
                                      !.drawn = None, !.signalled = None, !.missed = FALSE]
          /\ control' = [control EXCEPT !.pending = None, !.dirty = TRUE] /\ At("top")
      BY <1>5 DEF TakePending
    <2>2. Owed'
      BY <1>0, <2>1 DEF Owed, ControlRecord
    <2> QED
      BY <1>0, <1>2, <2>1, <2>2 DEF FreshInv, At, ThreadRecord
  <1>6. CASE RouteReturns
    <2>1. /\ thread' = [thread EXCEPT !.at = "sequence", !.signalled = Routed.signalled]
          /\ ring' = [ring EXCEPT !.shown = Routed.shown, !.free = Routed.free]
          /\ control' = [control EXCEPT !.returns = <<>>] /\ At("returns")
      BY <1>6 DEF RouteReturns, Routed
    <2>2. \/ Routed.signalled = thread.signalled /\ Routed.shown = ring.shown
          \/ Routed.signalled = None /\ Routed.shown = Last
      <3> DEFINE held == [signalled |-> thread.signalled, shown |-> ring.shown,
                          free |-> ring.free]
                 slots == {returned.slot : returned \in Range(control.returns)}
      <3>1. \/ Routed = held
            \/ Routed = [MoveOn(held) EXCEPT !.free = @ \cup (slots \ {MoveOn(held).shown})]
        BY DEF Routed, ReturnAll
      <3> HIDE DEF slots
      <3>2. /\ MoveOn(held).signalled = None /\ MoveOn(held).shown = Last
            /\ DOMAIN MoveOn(held) = {"signalled", "shown", "free"}
        BY DEF MoveOn, Last
      <3>3. held.signalled = thread.signalled /\ held.shown = ring.shown
        OBVIOUS
      <3> HIDE DEF held
      <3> QED
        BY <3>1, <3>2, <3>3
    <2>3. Last' = Last /\ ring'.painted = ring.painted
      BY <1>0, <2>1, <2>2 DEF Last, ThreadRecord, RingRecord
    <2>4. Current' = Current
      BY <1>2, <2>3 DEF Current
    <2>5. Owed' = Owed /\ control'.paused = control.paused
      BY <1>0, <1>2, <2>1 DEF Owed, ThreadRecord, ControlRecord
    <2>6. /\ thread'.seen = thread.seen /\ thread'.progressed = thread.progressed
          /\ thread'.dirty = thread.dirty /\ thread'.awaiting = thread.awaiting
          /\ thread'.missed = thread.missed /\ At("sequence")'
      BY <1>0, <2>1 DEF ThreadRecord, At
    <2> QED
      BY <1>2, <2>1, <2>4, <2>5, <2>6 DEF FreshInv, At
  <1>7. CASE ReadSequence
    <2>1. /\ thread' = [thread EXCEPT !.at = "dirty", !.progressed = sequence]
          /\ UNCHANGED <<control, ring>> /\ At("sequence")
      BY <1>7 DEF ReadSequence, screen
    <2>2. Current' = Current /\ Owed' = Owed
      BY <1>0, <1>2, <2>1 DEF Current, Last, Owed, ThreadRecord
    <2> QED
      BY <1>0, <1>2, <2>1, <2>2 DEF FreshInv, At, ThreadRecord
  <1>8. CASE SwapDirty
    <2>1. /\ thread' = [thread EXCEPT !.at = "grid", !.dirty = control.dirty]
          /\ control' = [control EXCEPT !.dirty = FALSE]
          /\ UNCHANGED ring /\ At("dirty")
      BY <1>8 DEF SwapDirty, screen
    <2>2. Current' = Current /\ (Owed => Owed' \/ thread'.dirty)
      BY <1>0, <1>2, <2>1 DEF Current, Last, Owed, ThreadRecord, ControlRecord
    <2> QED
      BY <1>0, <1>2, <2>1, <2>2 DEF FreshInv, At, ThreadRecord, ControlRecord
  <1>9. CASE CompareGrid
    <2> DEFINE read == [thread EXCEPT !.dirty = FALSE, !.progressed = 0]
    <2>1. At("grid") /\ UNCHANGED <<control, ring>>
      BY <1>9 DEF CompareGrid, screen
    <2>2. CASE thread' = [read EXCEPT !.at = "check", !.seen = thread.progressed,
                                      !.awaiting = TRUE]
      BY <1>0, <1>2, <2>1, <2>2 DEF FreshInv, At, ThreadRecord
    <2>3. CASE thread' = [read EXCEPT !.at = "refresh", !.seen = thread.progressed,
                                      !.awaiting = FALSE]
      BY <1>0, <1>2, <2>1, <2>3 DEF FreshInv, At, ThreadRecord
    <2>4. CASE /\ thread' = [read EXCEPT !.at = "check"]
               /\ control.paused \/ ~thread.dirty
      <3>1. Current' = Current /\ Owed' = Owed
        BY <1>0, <1>2, <2>1, <2>4 DEF Current, Last, Owed, ThreadRecord
      <3> QED
        BY <1>0, <1>2, <2>1, <2>4, <3>1 DEF FreshInv, At, ThreadRecord
    <2> QED
      BY <1>9, <2>2, <2>3, <2>4 DEF CompareGrid
  <1>10. CASE Refresh
    BY <1>0, <1>2, <1>10 DEF Refresh, FreshInv, At, ThreadRecord
  <1>11. CASE RefreshFails \/ AcquireMiss
    BY <1>0, <1>2, <1>11 DEF RefreshFails, AcquireMiss, FreshInv, At, ThreadRecord
  <1>12. ASSUME NEW slot \in Slots, PaintFails(slot) PROVE FreshInv'
    BY <1>0, <1>2, <1>12 DEF PaintFails, FreshInv, At, ThreadRecord
  <1>13. ASSUME NEW slot \in Slots, Paint(slot) PROVE FreshInv'
    <2>1. At("paint") /\ UNCHANGED control /\ slot # None
      BY <1>13, RenderAssumption DEF Paint
    <2>2. CASE /\ ring' = [ring EXCEPT !.free = @ \ {slot}, !.painted[slot] = thread.drawn]
               /\ thread' = [thread EXCEPT !.at = "check", !.signalled = slot,
                                           !.missed = FALSE]
      <3>1. Last' = slot /\ ring'.painted[slot] = thread.drawn
        BY <1>0, <2>1, <2>2 DEF Last, ThreadRecord, RingRecord
      <3>2. thread.drawn = scene => Current'
        BY <1>2, <2>1, <3>1 DEF Current
      <3>3. Owed' = Owed
        BY <1>0, <1>2, <2>1, <2>2 DEF Owed, ThreadRecord
      <3> QED
        BY <1>0, <1>2, <2>1, <2>2, <3>2, <3>3 DEF FreshInv, At, ThreadRecord
    <2>3. CASE /\ thread.signalled # None /\ ring' = ring
               /\ thread' = [thread EXCEPT !.at = "check",
                                 !.missed = ring.painted[thread.signalled] # thread.drawn]
      <3>1. Last' = thread.signalled
        BY <1>0, <2>3 DEF Last, ThreadRecord
      <3>2. thread.drawn = scene => Current' \/ thread'.missed
        BY <1>0, <1>2, <2>3, <3>1 DEF Current, ThreadRecord
      <3>3. Owed' = Owed
        BY <1>0, <1>2, <2>1, <2>3 DEF Owed, ThreadRecord
      <3>4. /\ thread'.seen = thread.seen /\ thread'.progressed = thread.progressed
            /\ thread'.dirty = thread.dirty /\ At("check")'
        BY <1>0, <2>3 DEF ThreadRecord, At
      <3> QED
        BY <1>2, <2>1, <3>2, <3>3, <3>4 DEF FreshInv, At
    <2> QED
      BY <1>13, <2>2, <2>3 DEF Paint
  <1> QED
    BY <1>3, <1>4, <1>5, <1>6, <1>7, <1>8, <1>9, <1>10, <1>11, <1>12, <1>13
       DEF Iteration, TakePending

LEMMA FreshStep ==
    ASSUME TypeInv, FreshInv, [Next]_vars PROVE FreshInv'
  <1>1. CASE Iteration
    BY <1>1, IterationFresh
  <1>2. CASE Events
    BY <1>2, EventsFresh
  <1>3. CASE UNCHANGED <<input, control, thread, ring>>
    BY <1>3 DEF input, FreshInv, At, Owed, Current, Last
  <1> QED
    BY <1>1, <1>2, <1>3 DEF Next, Show, vars, input

\* When an unpaused thread sleeps with no work left to it, the last frame it signalled shows
\* the scene, unless its last paint found no slot, owed the slot it found nothing or failed.
THEOREM LastFrame == Spec => []LastFrameIsTheScene
  <1> DEFINE Fresh == TypeInv /\ FreshInv
  <1>1. Init => Fresh
    BY InitTyped, InitFresh
  <1>2. Fresh /\ [Next]_vars => Fresh'
    BY TypeStep, FreshStep
  <1>3. Fresh => LastFrameIsTheScene
    BY DEF FreshInv, LastFrameIsTheScene, Current, Last, Owed, At
  <1> QED
    BY <1>1, <1>2, <1>3, PTL DEF Spec

--------------------------------------------------------------------------------
\* Who holds the slots of this ring.

OfThisRing(i) == toApp[i].kind = "frame" /\ toApp[i].ring = ring.number

\* No message is of a ring to come.
RingsKnown ==
    /\ \A i \in DOMAIN toApp : toApp[i].kind = "frame" => toApp[i].ring <= ring.number
    /\ app # None => app.ring <= ring.number
    /\ \A i \in DOMAIN toReader : toReader[i].ring <= ring.number
    /\ \A i \in DOMAIN control.returns : control.returns[i].ring <= ring.number

\* What is on its way to the application or shown by it is out, each slot once.
SignalledOut ==
    /\ \A i \in DOMAIN toApp : OfThisRing(i) => toApp[i].slot \in out
    /\ \A i, j \in DOMAIN toApp :
          OfThisRing(i) /\ OfThisRing(j) /\ toApp[i].slot = toApp[j].slot => i = j
    /\ app # None /\ app.ring = ring.number =>
          /\ app.slot \in out
          /\ \A i \in DOMAIN toApp : OfThisRing(i) => toApp[i].slot # app.slot

\* What is on its way back is neither out nor free, and comes back once.
ReturnedOnce ==
    /\ \A i \in DOMAIN toReader : toReader[i].ring = ring.number =>
          /\ toReader[i].slot \notin out \cup ring.free
          /\ \A j \in DOMAIN toReader :
                toReader[j].ring = ring.number /\ toReader[j].slot = toReader[i].slot => j = i
          /\ \A j \in DOMAIN control.returns :
                control.returns[j].ring = ring.number =>
                    control.returns[j].slot # toReader[i].slot
    /\ \A i \in DOMAIN control.returns : control.returns[i].ring = ring.number =>
          control.returns[i].slot \notin out \cup ring.free

SlotsInv ==
    /\ RingsKnown
    /\ ~crossed => SignalledOut /\ ReturnedOnce /\ ring.free \cap out = {}

\* A fresh ring is free, and nothing is on its way.
LEMMA InitSlots == Init => SlotsInv
  <1> SUFFICES ASSUME Init PROVE SlotsInv
    OBVIOUS
  <1>1. toApp = <<>> /\ toReader = <<>> /\ app = None /\ out = {} /\ control.returns = <<>>
    BY DEF Init
  <1> QED
    BY <1>1 DEF SlotsInv, RingsKnown, SignalledOut, ReturnedOnce

\* Most steps leave the slots where they are, or keep one of the free ones back.
LEMMA SlotsKept ==
    ASSUME SlotsInv, UNCHANGED <<toApp, toReader, app, out, crossed>>,
           ring'.number = ring.number, ring'.free \subseteq ring.free,
           control'.returns = control.returns
    PROVE  SlotsInv'
  BY DEF SlotsInv, RingsKnown, SignalledOut, ReturnedOnce, OfThisRing

\* Nothing of a ring that replaces another is on its way yet.
LEMMA ReplaceSlots ==
    ASSUME TypeInv, SlotsInv, TakePending, control.pending # None PROVE SlotsInv'
  <1> USE DEF TypeInv
  <1>0. control \in ControlRecord /\ ring \in RingRecord
    BY DEF StateTyped
  <1>1. /\ ring' = FreshRing(ring.number + 1)
        /\ toApp' = Append(toApp, [kind |-> "ring"])
        /\ out' = {}
        /\ control' = [control EXCEPT !.pending = None, !.dirty = TRUE]
        /\ UNCHANGED <<toReader, app, crossed>>
    BY DEF TakePending
  <1>2. ring'.number = ring.number + 1 /\ ring.number \in Int
    BY <1>0, <1>1 DEF FreshRing, RingRecord
  <1>3. control'.returns = control.returns
    BY <1>0, <1>1 DEF ControlRecord
  <1>4. \A i \in DOMAIN toApp' : toApp'[i].kind = "frame" =>
            toApp'[i].ring <= ring.number /\ toApp'[i].ring \in Int
    <2>1. toApp \in Seq(Message)
      BY DEF ScreenTyped
    <2>2. \A i \in DOMAIN toApp' : toApp'[i] = [kind |-> "ring"]
                                   \/ (i \in DOMAIN toApp /\ toApp'[i] = toApp[i])
      BY <1>1, <2>1
    <2>3. \A i \in DOMAIN toApp : toApp[i].kind = "frame" => toApp[i].ring \in Int
      BY <2>1 DEF Message, Frame
    <2> QED
      BY <2>2, <2>3 DEF SlotsInv, RingsKnown
  <1>5. app # None => app.ring <= ring.number /\ app.ring \in Int
    BY DEF SlotsInv, RingsKnown, ScreenTyped, Frame
  <1>6. \A i \in DOMAIN toReader :
            toReader[i].ring <= ring.number /\ toReader[i].ring \in Int
    <2>1. \A i \in DOMAIN toReader : toReader[i] \in Returned
      BY DEF ScreenTyped
    <2> QED
      BY <2>1 DEF SlotsInv, RingsKnown, Returned
  <1>7. \A i \in DOMAIN control.returns :
            control.returns[i].ring <= ring.number /\ control.returns[i].ring \in Int
    <2>1. control.returns \in Seq(Returned)
      BY <1>0 DEF ControlRecord
    <2>2. \A i \in DOMAIN control.returns : control.returns[i] \in Returned
      BY <2>1
    <2> QED
      BY <2>2 DEF SlotsInv, RingsKnown, Returned
  <1>8. RingsKnown'
    BY <1>1, <1>2, <1>3, <1>4, <1>5, <1>6, <1>7 DEF RingsKnown
  <1>9. SignalledOut'
    BY <1>1, <1>2, <1>4, <1>5 DEF SignalledOut, OfThisRing
  <1>10. ReturnedOnce'
    BY <1>1, <1>2, <1>3, <1>6, <1>7 DEF ReturnedOnce
  <1> QED
    BY <1>1, <1>8, <1>9, <1>10 DEF SlotsInv

\* What was returned is free now, but for the slot that is taken for the shown one.
LEMMA RouteSlots ==
    ASSUME TypeInv, SlotsInv, RouteReturns PROVE SlotsInv'
  <1> USE DEF TypeInv
  <1>0. control \in ControlRecord /\ ring \in RingRecord
    BY DEF StateTyped
  <1>1. /\ ring' = [ring EXCEPT !.shown = Routed.shown, !.free = Routed.free]
        /\ control' = [control EXCEPT !.returns = <<>>]
        /\ crossed' = (crossed \/ \E returned \in Range(control.returns) :
                                     returned.ring # ring.number)
        /\ UNCHANGED <<toApp, toReader, app, out>>
    BY DEF RouteReturns, Routed
  <1>2. control'.returns = <<>> /\ ring'.number = ring.number /\ ring'.free = Routed.free
    BY <1>0, <1>1 DEF ControlRecord, RingRecord
  <1>3. Routed.free \subseteq
            ring.free \cup {control.returns[i].slot : i \in DOMAIN control.returns}
    <2> DEFINE held == [signalled |-> thread.signalled, shown |-> ring.shown,
                        free |-> ring.free]
               slots == {returned.slot : returned \in Range(control.returns)}
    <2>1. slots = {control.returns[i].slot : i \in DOMAIN control.returns}
      BY DEF Range
    <2>2. \/ Routed = held
          \/ Routed = [MoveOn(held) EXCEPT !.free = @ \cup (slots \ {MoveOn(held).shown})]
      BY DEF Routed, ReturnAll
    <2> HIDE DEF slots
    <2>3. MoveOn(held).free = ring.free /\ DOMAIN MoveOn(held) = {"signalled", "shown", "free"}
      BY DEF MoveOn
    <2>4. held.free = ring.free
      OBVIOUS
    <2> HIDE DEF held
    <2> QED
      BY <2>1, <2>2, <2>3, <2>4
  <1>4. RingsKnown'
    BY <1>1, <1>2 DEF SlotsInv, RingsKnown
  <1>5. ASSUME ~crossed' PROVE SignalledOut' /\ ReturnedOnce' /\ (ring.free \cap out)' = {}
    <2>1. SignalledOut /\ ReturnedOnce /\ ring.free \cap out = {}
      BY <1>1, <1>5 DEF SlotsInv
    <2>2. \A i \in DOMAIN control.returns : control.returns[i].ring = ring.number
      BY <1>1, <1>5 DEF Range
    <2>3. SignalledOut'
      BY <1>1, <1>2, <2>1 DEF SignalledOut, OfThisRing
    <2>4. ReturnedOnce'
      BY <1>1, <1>2, <1>3, <2>1, <2>2 DEF ReturnedOnce
    <2>5. (ring.free \cap out)' = {}
      BY <1>1, <1>2, <1>3, <2>1, <2>2 DEF ReturnedOnce
    <2> QED
      BY <2>3, <2>4, <2>5
  <1> QED
    BY <1>4, <1>5 DEF SlotsInv

\* A painted slot was free, so it was not on its way anywhere.
LEMMA PaintSlots ==
    ASSUME TypeInv, SlotsInv, NEW slot \in Slots, Paint(slot) PROVE SlotsInv'
  <1> USE DEF TypeInv
  <1>0. control' = control /\ ring \in RingRecord /\ slot \in ring.free
        /\ UNCHANGED <<toReader, app, crossed>>
    BY DEF StateTyped, Paint
  <1>1. CASE UNCHANGED <<ring, toApp, out>>
    BY <1>0, <1>1, SlotsKept
  <1>2. CASE /\ ring' = [ring EXCEPT !.free = @ \ {slot}, !.painted[slot] = thread.drawn]
             /\ toApp' = Append(toApp, [kind |-> "frame", slot |-> slot, ring |-> ring.number])
             /\ out' = out \cup {slot}
    <2>1. ring'.number = ring.number /\ ring'.free = ring.free \ {slot} /\ ring.number \in Int
      BY <1>0, <1>2 DEF RingRecord
    <2>2. toApp \in Seq(Message)
      BY DEF ScreenTyped
    <2>3. /\ DOMAIN toApp' = 1..Len(toApp) + 1 /\ DOMAIN toApp = 1..Len(toApp)
          /\ Len(toApp) \in Nat
          /\ \A i \in DOMAIN toApp : toApp'[i] = toApp[i]
          /\ toApp'[Len(toApp) + 1]
                = [kind |-> "frame", slot |-> slot, ring |-> ring.number]
      BY <1>2, <2>2
    <2>4. RingsKnown'
      BY <1>0, <2>1, <2>3 DEF SlotsInv, RingsKnown
    <2>5. ASSUME ~crossed' PROVE SignalledOut' /\ ReturnedOnce' /\ (ring.free \cap out)' = {}
      <3>1. SignalledOut /\ ReturnedOnce /\ ring.free \cap out = {}
        BY <1>0, <2>5 DEF SlotsInv
      <3>2. \A i \in DOMAIN toApp : OfThisRing(i) => toApp[i].slot # slot
        BY <1>0, <3>1 DEF SignalledOut
      <3>3. \A i \in DOMAIN toApp' : OfThisRing(i)' =>
              \/ i = Len(toApp) + 1 /\ toApp'[i].slot = slot
              \/ i \in DOMAIN toApp /\ OfThisRing(i) /\ toApp'[i] = toApp[i]
        BY <2>1, <2>3 DEF OfThisRing
      <3>4. SignalledOut'
        BY <1>0, <1>2, <2>1, <3>1, <3>2, <3>3 DEF SignalledOut
      <3>5. ReturnedOnce'
        BY <1>0, <1>2, <2>1, <3>1 DEF ReturnedOnce
      <3> QED
        BY <1>2, <2>1, <3>1, <3>4, <3>5
    <2> QED
      BY <2>4, <2>5 DEF SlotsInv
  <1> QED
    BY <1>1, <1>2 DEF Paint

\* The application gives back what it showed, once.
LEMMA ShowSlots ==
    ASSUME TypeInv, SlotsInv, Show PROVE SlotsInv'
  <1> USE DEF TypeInv
  <1>0. UNCHANGED <<control, ring, crossed>>
    BY DEF Show
  <1>1. toApp \in Seq(Message) /\ toApp # <<>> /\ toApp' = Tail(toApp)
    BY DEF Show, ScreenTyped
  <1>2. \A i \in DOMAIN toApp' : i + 1 \in DOMAIN toApp /\ i + 1 # 1 /\ toApp'[i] = toApp[i + 1]
    BY <1>1
  <1>3. 1 \in DOMAIN toApp /\ Head(toApp) = toApp[1] /\ DOMAIN toApp \subseteq Int
        /\ DOMAIN toApp' \subseteq Int
    BY <1>1
  <1>4. toApp[1] \in Message
    BY <1>1, <1>3
  <1>5. \A i \in DOMAIN toApp' : toApp'[i].kind = "frame" => toApp'[i].ring <= ring.number
    BY <1>2 DEF SlotsInv, RingsKnown
  <1>6. CASE toApp[1].kind = "ring"
    <2>1. app' = None /\ UNCHANGED <<toReader, out>>
      BY <1>3, <1>6 DEF Show
    <2>2. RingsKnown'
      BY <1>0, <1>5, <2>1 DEF SlotsInv, RingsKnown
    <2>3. ~crossed' => SignalledOut'
      BY <1>0, <1>2, <1>3, <2>1 DEF SlotsInv, SignalledOut, OfThisRing
    <2>4. ~crossed' => ReturnedOnce' /\ (ring.free \cap out)' = {}
      BY <1>0, <2>1 DEF SlotsInv, ReturnedOnce
    <2> QED
      BY <2>2, <2>3, <2>4 DEF SlotsInv
  <1>7. CASE toApp[1].kind = "frame"
    <2>1. app' = toApp[1] /\ toApp[1] \in Frame
      BY <1>3, <1>4, <1>7 DEF Show, Message
    <2>2. app' # None => app'.ring <= ring.number
      BY <1>3, <1>7, <2>1 DEF SlotsInv, RingsKnown
    <2>3. CASE app = None
      <3>1. UNCHANGED <<toReader, out>>
        BY <1>3, <1>7, <2>3 DEF Show
      <3>2. RingsKnown'
        BY <1>0, <1>5, <2>2, <3>1 DEF SlotsInv, RingsKnown
      <3>3. ~crossed' => SignalledOut'
        BY <1>0, <1>2, <1>3, <1>7, <2>1, <3>1 DEF SlotsInv, SignalledOut, OfThisRing
      <3>4. ~crossed' => ReturnedOnce' /\ (ring.free \cap out)' = {}
        BY <1>0, <3>1 DEF SlotsInv, ReturnedOnce
      <3> QED
        BY <3>2, <3>3, <3>4 DEF SlotsInv
    <2>4. CASE app # None
      <3> DEFINE back == [slot |-> app.slot, ring |-> app.ring]
      <3>1. /\ toReader' = Append(toReader, back)
            /\ out' = IF app.ring = ring.number THEN out \ {app.slot} ELSE out
        BY <1>3, <1>7, <2>4 DEF Show
      <3>2. toReader \in Seq(Returned)
        BY DEF ScreenTyped
      <3>3. /\ \A i \in DOMAIN toReader' :
                  \/ i = Len(toReader) + 1 /\ toReader'[i] = back
                  \/ i \in DOMAIN toReader /\ toReader'[i] = toReader[i]
            /\ Len(toReader) + 1 \notin DOMAIN toReader
        BY <3>1, <3>2
      <3>4. RingsKnown'
        BY <1>0, <1>5, <2>2, <2>4, <3>3 DEF SlotsInv, RingsKnown
      <3>5. ASSUME ~crossed' PROVE SignalledOut'
        <4>1. SignalledOut
          BY <1>0, <3>5 DEF SlotsInv
        <4>2. \A i \in DOMAIN toApp : OfThisRing(i) => toApp[i].slot \in out'
          BY <2>4, <3>1, <4>1 DEF SignalledOut
        <4>3. \A i \in DOMAIN toApp' : OfThisRing(i)' => OfThisRing(i + 1)
          BY <1>0, <1>2 DEF OfThisRing
        <4>4. \A i, j \in DOMAIN toApp' : i + 1 = j + 1 => i = j
          BY <1>3
        <4>5. \A i \in DOMAIN toApp' : OfThisRing(i)' => toApp'[i].slot \in out'
          BY <1>2, <4>2, <4>3
        <4>6. \A i, j \in DOMAIN toApp' :
                OfThisRing(i)' /\ OfThisRing(j)' /\ toApp'[i].slot = toApp'[j].slot
                    => i = j
          BY <1>2, <4>1, <4>3, <4>4 DEF SignalledOut
        <4>7. app'.ring = ring'.number => OfThisRing(1)
          BY <1>0, <1>7, <2>1 DEF OfThisRing
        <4>8. app'.ring = ring'.number => app'.slot \in out'
                /\ \A i \in DOMAIN toApp' : OfThisRing(i)' => toApp'[i].slot # app'.slot
          BY <1>2, <1>3, <2>1, <4>1, <4>2, <4>3, <4>7 DEF SignalledOut
        <4> QED
          BY <4>5, <4>6, <4>8 DEF SignalledOut
      <3>6. ASSUME ~crossed' PROVE ReturnedOnce' /\ (ring.free \cap out)' = {}
        <4>1. SignalledOut /\ ReturnedOnce /\ ring.free \cap out = {}
          BY <1>0, <3>6 DEF SlotsInv
        <4>2. back.slot = app.slot /\ back.ring = app.ring
          OBVIOUS
        <4>3. back.ring = ring.number =>
                back.slot \in out /\ back.slot \notin out' \cup ring.free
          BY <2>4, <3>1, <4>1, <4>2 DEF SignalledOut
        <4>4. out' \subseteq out
          BY <3>1
        <4> HIDE DEF back
        <4> QED
          BY <1>0, <3>3, <4>1, <4>3, <4>4 DEF ReturnedOnce
      <3> QED
        BY <3>4, <3>5, <3>6 DEF SlotsInv
    <2> QED
      BY <2>3, <2>4
  <1> QED
    BY <1>4, <1>6, <1>7 DEF Message, Frame

\* The reader thread passes on what came back.
LEMMA ReleasedSlots ==
    ASSUME TypeInv, SlotsInv, Released PROVE SlotsInv'
  <1> USE DEF TypeInv
  <1>0. control \in ControlRecord /\ UNCHANGED <<ring, toApp, app, out, crossed>>
    BY DEF StateTyped, Released
  <1>1. toReader \in Seq(Returned) /\ toReader # <<>> /\ toReader' = Tail(toReader)
    BY DEF Released, ScreenTyped
  <1>2. /\ \A i \in DOMAIN toReader' :
              i + 1 \in DOMAIN toReader /\ i + 1 # 1 /\ toReader'[i] = toReader[i + 1]
        /\ \A i, j \in DOMAIN toReader' : i + 1 = j + 1 => i = j
    BY <1>1
  <1>3. 1 \in DOMAIN toReader /\ Head(toReader) = toReader[1]
    BY <1>1
  <1>4. control'.returns = Append(control.returns, toReader[1])
    BY <1>0, <1>3 DEF Released, ControlRecord
  <1>5. control.returns \in Seq(Returned)
    BY <1>0 DEF ControlRecord
  <1>6. \A i \in DOMAIN control'.returns :
            \/ control'.returns[i] = toReader[1]
            \/ i \in DOMAIN control.returns /\ control'.returns[i] = control.returns[i]
    BY <1>4, <1>5
  <1>7. RingsKnown'
    BY <1>0, <1>2, <1>3, <1>6 DEF SlotsInv, RingsKnown
  <1>8. ASSUME ~crossed' PROVE SignalledOut' /\ ReturnedOnce' /\ (ring.free \cap out)' = {}
    <2>1. SignalledOut /\ ReturnedOnce /\ ring.free \cap out = {}
      BY <1>0, <1>8 DEF SlotsInv
    <2>2. SignalledOut'
      BY <1>0, <2>1 DEF SignalledOut, OfThisRing
    <2>3. ReturnedOnce'
      BY <1>0, <1>2, <1>3, <1>6, <2>1 DEF ReturnedOnce
    <2> QED
      BY <1>0, <2>1, <2>2, <2>3
  <1> QED
    BY <1>7, <1>8 DEF SlotsInv

LEMMA SlotsStep ==
    ASSUME TypeInv, SlotsInv, [Next]_vars PROVE SlotsInv'
  <1> USE DEF TypeInv
  <1>0. control \in ControlRecord /\ ring \in RingRecord
    BY DEF StateTyped
  <1>1. CASE UNCHANGED <<ring, toApp, toReader, app, out, crossed>>
             /\ control'.returns = control.returns
    BY <1>1, SlotsKept
  <1>2. CASE Iteration
    <2>1. CASE TakePending /\ control.pending # None
      BY <2>1, ReplaceSlots
    <2>2. CASE RouteReturns
      BY <2>2, RouteSlots
    <2>3. ASSUME NEW slot \in Slots, PaintFails(slot) PROVE SlotsInv'
      <3>1. ring'.number = ring.number /\ ring'.free \subseteq ring.free
        BY <1>0, <2>3 DEF PaintFails, RingRecord
      <3> QED
        BY <2>3, <3>1, SlotsKept DEF PaintFails
    <2>4. CASE TakePending /\ control.pending = None
      BY <1>1, <2>4 DEF TakePending, screen
    <2>5. CASE SwapDirty
      BY <1>0, <1>1, <2>5 DEF SwapDirty, screen, ControlRecord
    <2>6. CASE \/ End \/ ReadSequence \/ CompareGrid \/ Refresh \/ RefreshFails
               \/ AcquireMiss \/ CheckForWork \/ Wait
      BY <1>1, <2>6 DEF End, ReadSequence, CompareGrid, Refresh, RefreshFails, AcquireMiss,
                        CheckForWork, Wait, screen
    <2> QED
      BY <1>2, <2>1, <2>2, <2>3, <2>4, <2>5, <2>6, PaintSlots DEF Iteration
  <1>3. CASE Events
    <2>1. CASE Released
      BY <2>1, ReleasedSlots
    <2>2. ASSUME NEW next, Command(next), next.returns = control.returns PROVE SlotsInv'
      BY <1>1, <2>2 DEF Command, screen
    <2>3. CASE (\E s \in Scenes : Overlay(s)) \/ (\E g \in Grids : SurfaceResize(g))
               \/ (\E paused \in BOOLEAN : SetPaused(paused)) \/ Close
      BY <1>0, <2>2, <2>3 DEF Overlay, SurfaceResize, SetPaused, Close, ControlRecord
    <2>4. CASE (\E s \in Scenes : Feed(s)) \/ Publish \/ (\E g \in Grids : ResizeMirror(g))
               \/ AnnounceResize \/ Wake
      BY <1>1, <2>4 DEF Feed, Publish, ResizeMirror, AnnounceResize, Wake, screen
    <2> QED
      BY <1>3, <2>1, <2>3, <2>4 DEF Events
  <1>4. CASE UNCHANGED vars
    BY <1>1, <1>4 DEF vars
  <1> QED
    BY <1>2, <1>3, <1>4, ShowSlots DEF Next

\* As long as no release crosses a replacement of the ring, a slot that may be painted is one
\* the application was never sent or has released.
THEOREM FreeSlots == Spec => []FreeIsReturned
  <1> DEFINE Held == TypeInv /\ SlotsInv
  <1>1. Init => Held
    BY InitTyped, InitSlots
  <1>2. Held /\ [Next]_vars => Held'
    BY TypeStep, SlotsStep
  <1>3. Held => FreeIsReturned
    BY DEF SlotsInv, FreeIsReturned
  <1> QED
    BY <1>1, <1>2, <1>3, PTL DEF Spec
================================================================================
