---------------------------- MODULE PaintedSurface ----------------------------
(***************************************************************************)
(* What a pane's surface shows: the mirror's viewport with its selection,  *)
(* the overlay and colours surface.* commands set (render/session.rs), the *)
(* painter that hashes rows (RowPainter), its glyph atlas (GlyphAtlas) and *)
(* the surfaces of its ring, each with the rows it was last painted with.  *)
(*                                                                         *)
(* A step is one atomic access or one critical section.  How the thread is *)
(* woken, which slot is free and the grid handshake are RenderThread's: a  *)
(* thread here iterates whenever it likes and takes any slot.  Outside     *)
(* src/ is the engine behind the mirror: its lines, history and selection. *)
(***************************************************************************)
EXTENDS RowPainter

CONSTANTS
    Written,   \* what a program writes in the first column of a line
    Compositions,  \* [text, caret] of an IME composition
    Styles,        \* [shape, blinking] of the cursor
    Bases, Overs,  \* the theme's colours; what a program puts over them
    Dims,          \* amounts of light taken off
    Spots,         \* <<row, column>> of the cursor
    Strokes,       \* [id, kind] that a selection command may carry
    Points,        \* <<row, column>> of the viewport it may carry
    Clients,       \* threads that serve commands
    Slots,         \* the surfaces of the ring
    MaxHistory,    \* the engine's scrollback
    MaxEvents      \* bound on output and commands

\* A style and a base to begin with; a page's glyphs are those of what is written.
ASSUME SurfaceAssumption ==
    /\ MaxHistory \in Nat /\ MaxEvents \in Nat
    /\ Written \subseteq Glyphs
    /\ Compositions \subseteq [text: Seq(Glyphs), caret: Nat]
    /\ Styles \subseteq [shape: DOMAIN ShapeBits, blinking: BOOLEAN]
    /\ \E style \in Styles : ~style.blinking
    /\ Bases # {} /\ None \in Overs /\ 0 \in Dims
    /\ Spots \subseteq Row \X Column
    /\ Points \subseteq Row \X Column

\* What a row's cells show, on the painter and on a slot.
RowPicture ==
    [cells: [Column -> Glyphs \cup {Blank, Spacer, Missing}],
     cursor: [col: Column, look: DOMAIN ShapeBits \cup {"hollow"}] \cup {None},
     selected: SUBSET Column, palette: [base: Bases, over: Overs], dim: Dims]

Line == -MaxHistory..Rows - 1

Point == Line \X Column

\* What tells absence from what is there.
ASSUME SurfaceNoneAssumption ==
    /\ None \notin Compositions \cup (Int \X Column) \cup RowPicture
    /\ None \notin [col: Column, look: DOMAIN ShapeBits \cup {"hollow"}] \cup Column
    /\ Glyphs \cap {Blank, Spacer, Missing} = {}

VARIABLES
    mirror,     \* lines, history, cursor and its style, colours a program set
    selection,  \* the mirror's: the gesture that owns it, and the engine's own selection
    control,    \* PaneControl: focus, dim, theme base, offset, preedit, selection snapshot
    client,     \* per command thread: where it is and what it has read
    thread,     \* the render thread's control point, the offset and composition it read
    painter,
    targets,    \* what each slot of the ring shows
    events,     \* output and commands so far
    shrunk,     \* history: the mirror's history has lost lines
    unplaced    \* history: characters that were once refused a slot in this atlas

vars == <<mirror, selection, control, client, thread, painter, targets, atlas,
          events, shrunk, unplaced>>

At(point) == thread.at = point

Idle == [at |-> "idle"]

\* MirrorSelection of a fresh mirror; mover is the id of the gesture that moved it last.
NoSelection == [id |-> None, kind |-> None, open |-> FALSE, sequence |-> 0,
                anchor |-> None, head |-> None, mover |-> None]

Inactive(sequence) == [id |-> None, kind |-> None, sequence |-> sequence]

\* surface.open of a pane whose mirror has shown nothing yet.
Init ==
    /\ mirror = [text |-> [l \in Line |-> Blank], history |-> 0, row |-> 0, col |-> 0,
                 style |-> CHOOSE style \in Styles : ~style.blinking, shown |-> TRUE, over |-> None]
    /\ selection = NoSelection
    /\ LET base == CHOOSE base \in Bases : TRUE
       IN  /\ control = [focused |-> TRUE, dim |-> 0, base |-> base, offset |-> 0,
                         preedit |-> None, selection |-> Inactive(0)]
           /\ painter = NewPainter(base)
    /\ client = [c \in Clients |-> Idle]
    /\ thread = [at |-> "control", offset |-> 0, composition |-> None]
    /\ targets = [slot \in Slots |-> FreshTarget]
    /\ AtlasInit
    /\ events = 0
    /\ shrunk = FALSE
    /\ unplaced = {}

--------------------------------------------------------------------------------
\* Output: the consumer feeds the engine under the mirror's lock.

painting == <<thread, painter, targets, atlas, unplaced>>

Event == events < MaxEvents /\ events' = events + 1

Fed(next) ==
    /\ Event
    /\ next # mirror
    /\ mirror' = next
    /\ UNCHANGED <<control, client, painting>>

Write ==
    /\ \E row \in Row, character \in Written : Fed([mirror EXCEPT !.text[row] = character])
    /\ UNCHANGED <<selection, shrunk>>

MoveCursor ==
    /\ \E spot \in Spots : Fed([mirror EXCEPT !.row = spot[1], !.col = spot[2]])
    /\ UNCHANGED <<selection, shrunk>>

StyleCursor ==
    /\ \/ \E style \in Styles : Fed([mirror EXCEPT !.style = style])
       \/ Fed([mirror EXCEPT !.shown = ~@])
    /\ UNCHANGED <<selection, shrunk>>

Recolour ==
    /\ \E over \in Overs : Fed([mirror EXCEPT !.over = over])
    /\ UNCHANGED <<selection, shrunk>>

\* The engine drops a selection that reaches above its history.
Within(held, history) ==
    IF held.anchor # None /\ (held.anchor[1] < -history \/ held.head[1] < -history)
    THEN [held EXCEPT !.anchor = None, !.head = None, !.mover = None]
    ELSE held

Up(held) ==
    IF held.anchor = None THEN held
    ELSE [held EXCEPT !.anchor = <<@[1] - 1, @[2]>>, !.head = <<@[1] - 1, @[2]>>]

\* Lines and the selection on them move up; the oldest is forgotten at the limit.
Linefeed ==
    LET history == IF mirror.history < MaxHistory THEN mirror.history + 1 ELSE MaxHistory
    IN  /\ Fed([mirror EXCEPT
                  !.text = [l \in Line |-> IF l = Rows - 1 \/ l < -history THEN Blank ELSE @[l + 1]],
                  !.history = history])
        /\ selection' = Within(Up(selection), history)
        /\ UNCHANGED shrunk

EraseHistory ==
    /\ mirror.history > 0
    /\ Fed([mirror EXCEPT !.text = [l \in Line |-> IF l < 0 THEN Blank ELSE @[l]],
                          !.history = 0])
    /\ selection' = Within(selection, 0)
    /\ shrunk' = TRUE

\* A rehydrate or a checkpoint's replay puts another mirror in this one's place.
ReplaceMirror ==
    /\ Fed([mirror EXCEPT !.text = [l \in Line |-> Blank], !.history = 0, !.row = 0, !.col = 0,
                          !.shown = TRUE, !.over = None])
    /\ selection' = NoSelection
    /\ shrunk' = TRUE

Output ==
    \/ Write \/ MoveCursor \/ StyleCursor \/ Recolour
    \/ Linefeed \/ EraseHistory \/ ReplaceMirror

--------------------------------------------------------------------------------
\* surface.* commands.  Those that store one value are one step.

Set(next) ==
    /\ Event
    /\ next # control
    /\ control' = next
    /\ UNCHANGED <<mirror, selection, client, shrunk, painting>>

Focus == Set([control EXCEPT !.focused = ~@])

Dim == \E dim \in Dims : Set([control EXCEPT !.dim = dim])

Theme == \E base \in Bases : Set([control EXCEPT !.base = base])

Preedit == \E composition \in Compositions \cup {None} :
               Set([control EXCEPT !.preedit = composition])

\* What a command thread does to what it keeps and to the control.
Serve(c, next, held) ==
    /\ client' = [client EXCEPT ![c] = next]
    /\ control' = held
    /\ UNCHANGED <<mirror, shrunk, painting>>

\* surface.scroll, and surface.wheel that no program takes: the history first, ...
ReadHistory(c) ==
    /\ client[c] = Idle
    /\ Event
    /\ Serve(c, [at |-> "clamp", history |-> mirror.history], control)
    /\ UNCHANGED selection

\* Mutant of ScrollTo: the wanted offset is not clamped from above.
ScrollToUnclamped(c, wanted) ==
    /\ client[c].at = "clamp"
    /\ Serve(c, Idle, [control EXCEPT !.offset = IF wanted < 0 THEN 0 ELSE wanted])
    /\ UNCHANGED <<selection, events>>

\* ... and under the overlay's lock the offset, an edge, a distance or a place, clamped to it.
ScrollTo(c, wanted) ==
    LET history == client[c].history IN
    /\ client[c].at = "clamp"
    /\ Serve(c, Idle, [control EXCEPT !.offset = IF wanted < 0 THEN 0
                                                 ELSE IF wanted > history THEN history
                                                 ELSE wanted])
    /\ UNCHANGED <<selection, events>>

\* surface.selection reads the offset, ...
ReadOffset(c) ==
    /\ client[c] = Idle
    /\ Event
    /\ Serve(c, [at |-> "select", offset |-> control.offset], control)
    /\ UNCHANGED selection

\* selection_snapshot
Snapshot(held) ==
    IF held.anchor = None THEN Inactive(held.sequence)
    ELSE [id |-> held.id, kind |-> held.kind, sequence |-> held.sequence]

\* What selection_command leaves, its snapshot on its way to the control.
Selected(c, held) ==
    /\ client[c].at = "select"
    /\ selection' = held
    /\ Serve(c, [at |-> "store", snapshot |-> Snapshot(held)], control)
    /\ UNCHANGED events

LineOf(c, point) == <<point[1] - client[c].offset, point[2]>>

\* ... then commands the mirror under its lock.  A gesture that begins takes the pane.
Begin(c, stroke, point) ==
    Selected(c, [id |-> stroke.id, kind |-> stroke.kind, open |-> TRUE,
                 sequence |-> selection.sequence + 1, anchor |-> LineOf(c, point),
                 head |-> LineOf(c, point), mover |-> stroke.id])

Owns(stroke) == selection.open /\ selection.id = stroke.id

\* Mutant of Update: any gesture of the kind moves an open selection.
UpdateByAnyone(c, stroke, point, last) ==
    /\ selection.open /\ selection.kind = stroke.kind
    /\ selection.anchor # None
    /\ Selected(c, [selection EXCEPT !.head = LineOf(c, point), !.mover = stroke.id,
                                     !.open = ~last, !.sequence = @ + 1])

\* The owner moves its end of the selection, and may close it.  The engine has nothing to
\* move once it dropped the selection.
Update(c, stroke, point, last) ==
    /\ Owns(stroke) /\ selection.kind = stroke.kind
    /\ selection.anchor # None
    /\ Selected(c, [selection EXCEPT !.head = LineOf(c, point), !.mover = stroke.id,
                                     !.open = ~last, !.sequence = @ + 1])

Clear(c) == Selected(c, [NoSelection EXCEPT !.sequence = selection.sequence + 1])

Read(c) == Selected(c, selection)

\* STALE_GESTURE, SELECTION_KIND_CHANGED, or the engine's refusal.
Refuse(c) ==
    /\ client[c].at = "select"
    /\ Serve(c, Idle, control)
    /\ UNCHANGED <<selection, events>>

\* ... and keeps the snapshot in the control.
StoreSnapshot(c) ==
    /\ client[c].at = "store"
    /\ Serve(c, Idle, [control EXCEPT !.selection = client[c].snapshot])
    /\ UNCHANGED <<selection, events>>

Served(c) ==
    \/ ReadHistory(c)
    \/ \E wanted \in -1..MaxHistory + 1 : ScrollTo(c, wanted)
    \/ ReadOffset(c)
    \/ \E stroke \in Strokes, point \in Points :
          \/ Begin(c, stroke, point)
          \/ \E last \in BOOLEAN : Update(c, stroke, point, last)
    \/ Clear(c) \/ Read(c) \/ Refuse(c)
    \/ StoreSnapshot(c)

Command == Focus \/ Dim \/ Theme \/ Preedit \/ \E c \in Clients : Served(c)

--------------------------------------------------------------------------------
\* The render thread

Goes(next) ==
    /\ thread' = next
    /\ UNCHANGED <<mirror, selection, control, client, shrunk>>

\* A pending resize brings a painter, its atlas and a ring of fresh surfaces.
TakePending ==
    /\ At("control")
    /\ Event
    /\ \E base \in Bases : painter' = NewPainter(base)
    /\ targets' = [slot \in Slots |-> FreshTarget]
    /\ atlas' = EmptyPage
    /\ unplaced' = {}
    /\ Goes(thread)

\* The theme, the dim and the overlay in turn.  A command stores one of them, so what is read
\* apart is what is read at once after the same commands in another order.
ReadControl ==
    /\ At("control")
    /\ painter' = SetDim(SetBasePalette(painter, control.base), control.dim)
    /\ Goes([at |-> "refresh", offset |-> control.offset, composition |-> control.preedit])
    /\ UNCHANGED <<targets, atlas, events, unplaced>>

\* selection_range: the columns of a line between the ends of the selection.
RangeOn(line) ==
    LET ends == {selection.anchor, selection.head}
        Before(s, t) == s[1] < t[1] \/ (s[1] = t[1] /\ s[2] <= t[2])
        first == CHOOSE s \in ends : \A t \in ends : Before(s, t)
        last == CHOOSE t \in ends : \A s \in ends : Before(s, t)
    IN  IF selection.anchor = None \/ line \notin first[1]..last[1] THEN None
        ELSE <<IF line = first[1] THEN first[2] ELSE 0, IF line = last[1] THEN last[2] ELSE Cols - 1>>

\* A focused surface's cursor blinks with its style, wherever in its phase it is.
Phases ==
    IF mirror.style.blinking /\ control.focused /\ mirror.shown
       /\ thread.offset = 0 /\ thread.composition = None
    THEN BOOLEAN ELSE {TRUE}

\* What refresh looks up of the rows, the cursor on or off.
Asked(on) ==
    [row \in Row |->
        LET line == row - thread.offset
            here == thread.offset = 0 /\ mirror.row = row
            composed == here /\ thread.composition # None
        IN  [line |-> IF line \in Line THEN mirror.text[line] ELSE Blank,
             composition |-> IF composed THEN thread.composition ELSE None,
             selection |-> RangeOn(line),
             cursor |-> [col |-> mirror.col, shape |-> mirror.style.shape,
                         blinking |-> mirror.style.blinking],
             shown |-> here /\ mirror.shown /\ on /\ ~composed,
             focused |-> control.focused]]

\* The rows a slot is owed are painted on it.  Or no slot is free; or the paint fails, and its
\* slot stays acquired and is never painted again.
Paint(slot, p) == targets' = [targets EXCEPT ![slot] = Painted(p, @)]

PaintMissed == UNCHANGED targets

\* Under the mirror's lock, the focus read within it, rows are hashed and the stale ones
\* built; painting follows, which reads nothing another thread writes.  A glyph that is not
\* on the page yet may fail to be rastered.
Refresh ==
    /\ At("refresh")
    /\ \E on \in Phases :
        LET resolved == Resolve(painter, mirror.over)
            asked == Asked(on)
            hashes == Hashes(resolved, asked)
            pictures == Pictures(resolved, asked, hashes)
            wanted == Wanted(pictures)
        IN  \E failed \in SUBSET (wanted \ Registered(atlas)) :
            LET packed == RefreshedAtlas(pictures, atlas,
                              [glyph \in Glyphs |-> IF glyph \in failed THEN "no raster" ELSE "ok"])
                fresh == Refreshed(resolved, pictures, hashes, packed)
            IN  /\ atlas' = packed
                /\ painter' = fresh
                /\ unplaced' = unplaced \cup (wanted \ Registered(packed))
                /\ (\E slot \in Slots : Paint(slot, fresh)) \/ PaintMissed
    /\ Goes([at |-> "control", offset |-> 0, composition |-> None])
    /\ UNCHANGED events

Iteration == TakePending \/ ReadControl \/ Refresh

Next == Output \/ Command \/ Iteration

Spec == Init /\ [][Next]_vars

--------------------------------------------------------------------------------
\* Properties

Ids == {stroke.id : stroke \in Strokes} \cup {None}

Kinds == {stroke.kind : stroke \in Strokes} \cup {None}

ShownSelection == [id: Ids, kind: Kinds, sequence: Nat]

ClientState ==
    {Idle} \cup [at: {"clamp"}, history: 0..MaxHistory] \cup [at: {"select"}, offset: 0..MaxHistory]
           \cup [at: {"store"}, snapshot: ShownSelection]

Mirrors == [text: [Line -> Written \cup {Blank}], history: 0..MaxHistory, row: Row, col: Column,
            style: Styles, shown: BOOLEAN, over: Overs]

Selections == [id: Ids, kind: Kinds, open: BOOLEAN, sequence: Nat,
               anchor: Point \cup {None}, head: Point \cup {None}, mover: Ids]

Controls == [focused: BOOLEAN, dim: Dims, base: Bases, offset: 0..MaxHistory,
             preedit: Compositions \cup {None}, selection: ShownSelection]

Threads == [at: {"control", "refresh"}, offset: 0..MaxHistory, composition: Compositions \cup {None}]

\* A painter and a slot whose rows have hashes of a set.
Painters(hashes) ==
    [base: Bases, palette: [base: Bases, over: Overs], paletteRevision: Nat, dim: Dims,
     dimRevision: Nat, cells: [Row -> RowPicture \cup {None}], hashes: [Row -> hashes]]

Targets(hashes) == [painted: [Row -> hashes], pixels: [Row -> RowPicture \cup {None}]]

TypeOK ==
    /\ mirror \in Mirrors
    /\ selection \in Selections /\ (selection.anchor = None <=> selection.head = None)
    /\ control \in Controls
    /\ client \in [Clients -> ClientState]
    /\ thread \in Threads
    /\ painter \in Painters({painter.hashes[row] : row \in Row})
    /\ targets = [slot \in Slots |-> targets[slot]]
    /\ \A slot \in Slots :
          targets[slot] \in Targets({targets[slot].painted[row] : row \in Row})
    /\ unplaced \subseteq Glyphs
    /\ events \in 0..MaxEvents /\ shrunk \in BOOLEAN

\* Pixels or cells of a row show a picture; characters that once found no slot may lack.
Shows(cells, picture, lacking) ==
    LET Excused(x) ==
            \/ picture.cells[x] \in lacking
            \/ picture.cells[x] = Spacer /\ picture.cells[x - 1] \in lacking
    IN  /\ cells # None
        /\ [cells EXCEPT !.cells = picture.cells] = picture
        /\ \A x \in Column : cells.cells[x] = picture.cells[x] \/ Excused(x)

\* Cursors the mirror may have.
Cursors == {[col |-> x, shape |-> style.shape, blinking |-> style.blinking] :
               x \in Column, style \in Styles}

\* What may be asked of a row.
Asks == [line: Written \cup {Blank}, composition: Compositions \cup {None},
         selection: (Column \X Column) \cup {None}, cursor: Cursors,
         shown: BOOLEAN, focused: BOOLEAN]

\* Cells are what an earlier asking was painted as, in the colours of a revision of the palette
\* and the dim of now, that the arithmetic of row_hash cannot tell from this one.
Confused(p, asked, cells) ==
    /\ cells # None /\ cells.dim = p.dim
    /\ \E before \in Asks, revision \in 0..p.paletteRevision :
          /\ Hashed(revision, p.dimRevision, before)
                = Hashed(p.paletteRevision, p.dimRevision, asked)
          /\ revision = p.paletteRevision => cells.palette = p.palette
          /\ Shows(cells, Picture(cells, before), unplaced)

\* A refresh now would not have a row painted again on a slot.
Skipped(p, asked, slot, row) ==
    LET hash == targets[slot].painted[row] IN hash # None /\ hash = RowHash(p, asked)

\* "Two rows with the same hash paint identically, so an equal hash skips the row": a row that
\* is not painted again on some slot, because the slot has its hash, shows what the mirror, the
\* overlay, the colours, the dim and the focus ask for.
SkippedPixelsAreCurrent ==
    At("refresh") =>
        LET resolved == Resolve(painter, mirror.over) IN
        \A on \in Phases, slot \in Slots, row \in Row :
            LET asked == Asked(on)[row] IN
            Skipped(resolved, asked, slot, row) =>
                Shows(targets[slot].pixels[row], Picture(resolved, asked), unplaced)

\* Whatever is steered while the thread iterates, and however long a slot was away: a row that
\* is not painted again on it is current, or shows an asking whose hash is the same number.
\* Nothing a row is painted from is missing from its hash, and no hash outlives its colours.
StaleOnlyByCollision ==
    At("refresh") =>
        LET resolved == Resolve(painter, mirror.over) IN
        \A on \in Phases, slot \in Slots, row \in Row :
            LET asked == Asked(on)[row] IN
            Skipped(resolved, asked, slot, row) =>
                \/ Shows(targets[slot].pixels[row], Picture(resolved, asked), unplaced)
                \/ Confused(resolved, asked, targets[slot].pixels[row])

\* The offset scrolled to, and the one the thread carries from the overlay's lock to the
\* mirror's, reach no line above the history, though the history is read before either; only
\* a mirror whose history shrank is read beyond it.
ScrolledLinesExist ==
    ~shrunk => control.offset <= mirror.history /\ thread.offset <= mirror.history

\* Of gestures that overlap, the selection on the pane was last moved by the one that began
\* last.
SelectionIsTheOwners == selection.anchor # None => selection.mover = selection.id
================================================================================
