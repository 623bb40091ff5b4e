# A verification project for the terminal recovery kit

These modules model the shared runtime of the terminal sidecars (`src/src`): what it promises about a
pane's terminal state when sessions are replaced, processes die, callers race and frames are dropped.
TLC checks the modules on small instances; TLAPS proves every invariant the passing runs check, and the
refinement of the checkpoint store, for every instance.

## The system

A sidecar process observes the PTY owner's sessions over a socket and keeps, for every pane, a
*mirror*: a terminal engine fed with the session's output. Callers ask it for snapshots (rehydrate),
frames, sizes and a native surface; it archives the mirror's paint in an encrypted checkpoint.

| Part | Source | State it keeps | Operations |
| --- | --- | --- | --- |
| checkpoint store | `checkpoint.rs` | per pane an owner file (also the file lock) and an archive file | `claim_generation`, `write`, `read`, `remove` |
| session registry | `runtime.rs` 32-690 | pane key -> entry: session, mirror arc, sequence atomic, signals, gap count, drop flag | ensureSession, rehydrate, frame, resize, waitSize, archived, retire, status, surface.* |
| observation consumer | `runtime.rs` 866-1046 | one thread per stream; locals | Output, Resize, Gap, End, Opened; eviction |
| checkpoint worker | `runtime.rs` 1048-1112 | one thread per stream; the latest event | coalesce 250 ms, write, final |
| mode worker, prepared observers | `runtime.rs` 306-338, 849-864, `modes.rs` | a channel of reports; token -> stream | report, prepare, expire, consume |
| service and dispatch | `runtime.rs` 1114-1401, `proto.rs`, `lib.rs` | socket, token file, writer lock per connection | accept, authenticate, dispatch a thread per request |
| control client, observation stream | `daemon.rs` | a connection; next expected sequences | request with one reconnect, decode frames |
| frame deltas | `frame.rs` | subscriber -> baseline, at most eight | delta, apply, LRU |
| recovery mirror | `mirror.rs` | engine, frozen primary screen, selection gesture | feed, paints, selection, frame |
| render thread | `render/session.rs`, `surface_ring.rs` | flags, pending painter, returned slots, ring | surface.*; the loop; the reader |
| painter, atlas, instances | `render/painter.rs`, `atlas.rs`, `instances.rs` | palette and dim with their revisions, cells and a hash per row, per slot the hashes painted; a page and its glyphs | set_base_palette, set_dim, refresh, paint_into, ensure |
| native bridge, channel | `render/native.rs`, `render_darwin.m`, `channel.rs` | surfaces, a socket | paint, encode |

Parts interact by shared handles rather than messages: an entry's mirror, atomic and signals are
reference-counted, cloned out of the registry under its mutex and used after it is unlocked. A session that
replaces another under the same key puts its mirror *into* the old arc and takes the old signals over, so
that a render thread wired to them goes on. Locks nest registry -> mirror, registry -> signal and
mirror -> checkpoint file lock.

What is hard here, and what each part must get right (`PROJECT.json` lists each hazard at its line):

* *checkpoint store*: several processes, failures and deaths between any two system calls. An acknowledged
  position must stay readable; a claim that returned must shut every other generation out.
* *registry and consumers*: handles used after the unlock, two ensureSession calls at once, an old
  consumer in flight while its mirror is replaced, an entry evicted half way through a takeover. A snapshot
  must name the sequence its paint holds; no live entry may be lost or orphaned.
* *checkpoint worker*: an event's label against the paint taken later; what a disconnect loses.
* *render thread*: flags stored outside the mutex the thread waits under, a grid that changes between two
  locks, slots that do not come back, a ring replaced while releases are on their way. A sleeping thread
  must have nothing to do and the last frame must show the scene.
* *prepared observers, control client, mode worker*: timeouts against late answers, a request sent twice,
  reports that overtake one another. A stream must never be held twice or leak, and a command must end.
* *painter and atlas*: a row is skipped when its hash says so, on three surfaces that are each behind by
  something else; colours, dim, overlay and mirror are read under four locks. What is skipped must be current.
* *frame deltas, mirror*: out-of-order baselines, split escape sequences, gesture ownership.

## Modules

### CheckpointStore, CheckpointArchive, CheckpointPositions

`CheckpointStore` is `checkpoint.rs` for one pane (panes share no file). Every system call that another
thread or the lock-free `read` can observe is a step: `Acquire` is `lock.lock()`, `Truncate` and `Stamp` are
the two halves of `write_claimed_generation`, `Refuse`/`Admit` the owner check, `Skip`/`Advance` the
position check, `CreateTemporary`, `Fill`, `Rename` and `WriteFails` are `atomic_write`. `Crash` ends all
threads of a process: the system drops their file locks, the files stay. Threads belong to processes, so
the lock is checked across processes as well as threads. Sealing, names and header bytes are abstracted: an
archive is its position, or torn.

`CheckpointArchive` is what that amounts to for one pane when every call is one step: a holder, an archived
checkpoint, `Claim`, `Disown`, `Commit`, `Erase`. The refinement mapping gives the pane to the claimant as
soon as the owner file is emptied, since the lock hides the file until it is stamped.

README.md of the repository says that the `(generation, sequence)` position only advances; the code and
`tests/checkpoint.rs` select a generation by ownership and order only the sequences of one generation, and
that is what `CheckpointPositions` says.

### SessionRegistry

One pane of `runtime.rs`. A *stream* is one observation stream and names everything made for it: its fresh
mirror arc, its sequence atomic, its frame and size signals. So an entry whose `mirror` field is `c1` and
`progress` field is `c2` is a session of stream `c2` that lives in the arc made for `c1`. A step is what one
thread does under one lock.

| Actions | Code |
| --- | --- |
| `EnsureListed`, `EnsureFails`, `Subscribe` | ensure_session without a token, subscribe up to the mirror |
| `EnsurePrepared` | ensure_session with a token, up to the mirror |
| `Replace`, `Continue`, `Insert` | the three registry locks of subscribe_stream, start_consumer |
| `AdmitOutput`, `Feed`, `Publish`, `Refuse` | an Output frame: registry, mirror, registry |
| `AdmitResize`, `ResizeMirror`, `AnnounceSize` | a Resize frame |
| `Gap`, `End`, `Reopened`, `Evict` | the other frames, remove_session_if_owner |
| `FrameRequest`, `WaitForSequence`, `Answered` | terminal.frame |
| `Resize` | terminal.resize |

A mirror draws the sequence of output chunks fed to it since its content was put in; a chunk is its session
and output sequence. The checkpoint a mirror may start from is the flag `restored`: the replay it stands
for is what the drop flag swallows. It stands for another shell's checkpoint. One of the same generation
(runtime.rs 717-723, the test at 1815-1838) is fed with the flag down, so the replay is drawn after its
paint: the steps are those of an empty mirror, and that the mirror shows the archived paint as well is not
in the model, whose exactness is of what is drawn after the paint. Rehydrate is one step of the code (both locks are held), so it is a
state predicate: `RehydrateIsExact` says what it would answer. History variables record which stream a
mirror was last filled for, which streams' mirrors, atomics or drop flags another consumer touched
(`strays`), and whether callers overlapped.

### RenderThread, SurfaceRing

`SurfaceRing` is `surface_ring.rs` as the thread uses it. The thread takes the slots that came back one after
another; `ReturnAll` says at once what all of them leave of the ring, and `ReturnOneMore` (proved in
`PaneSurfacesProofs`) that it is the same.

One surface of `render/session.rs`: the render thread's loop, the commands, the reader thread, the pane's
consumer as far as it moves the mirror and the frame signal, and the application as the code uses it (it
shows frames in order and releases the slot shown before; `surface_ring.rs` calls the contract crate's ring
state, which is not in the repository and is modelled by these calls: a free slot is acquired, the shown one
is not released). Every command of the surface is a store, then a notification; the thread's iteration is
split at every atomic and every lock, and between `CheckForWork` and `Wait` it holds the signal's mutex,
which keeps `Publish` out and nothing else. What would be painted is a *scene*, and a painter's row hashes
and a slot's painted rows are the scene they stand for (`PaintedSurface` looks into that). The cursor is
steady: with a blinking one the wait has a deadline, which hides a lost notification for one blink.

`turns` counts the iterations since anything reached the thread. `RestsAfterEvents` is the thread's promise
not to poll, said as safety: after one iteration that nothing disturbed it sleeps, whatever it could not
paint. A paused surface is exempt, and does poll: `last_seen` is not advanced while it is paused (session.rs
1096-1102), so the check at 1206 fails until it is resumed, although README.md of the repository says that
such a surface waits for events only. `GridMovesOnlyInTheGap` says that the rows are read from a mirror of
another grid only after a resize between the two locks of lines 1086 and 1112, where the comment above wants
it never to happen.

### PaneSurfaces

The surfaces of one pane, one after another and side by side. surface.open is `SendRing`, `Insert` and
`StopPrevious` (the two halves of `supersede`) and `Start`; surface.close is `FindControl`, `StopFound`,
`RemovePane` and `RemoveFont`: the table, the fonts and the stop flag are each under a lock of their own or
none. A render thread is `CheckStop`, `RouteReturns`, `Paint` or `Pass`, and goes round as it likes, since
what wakes it is `RenderThread`'s subject. All of them share the channel, on which messages name the pane
and never the surface. The application stays the same throughout: one that comes back after a death gets
a channel of its own, on which nothing of the old surface's is sent again.

`SerialCallsAgree` is what calls that do not overlap leave: table, font and the ring sent last are of one
surface, the one that runs. `NoneRunsBeside` says how far overlapping calls keep it: no surface runs beside the
one in the table but those in `strayed`. A surface strays when a close that found the one before it removes
its entry (session.rs 864 removes by the pane's name alone): it runs on, and no command and no released slot
finds it, although the comment at 1241-1243 has the newer open win. `OneLateFrame` bounds what a superseded
thread still sends. It cannot say none: the ring of an open is sent (464) before the thread of the surface
before is told to stop, so a frame of the old surface may reach an application that has the new ring, and
name a slot the new thread holds for free.

### PaintedSurface, RowPainter, GlyphAtlas

What `RenderThread` calls a scene. `GlyphAtlas` is `atlas.rs`: `Shelf`, `HasRoom` and `Place` are
`AtlasPage::place`, `Ensure` is the registry around it. `RowPainter` has the painter as operators on its
record: `Picture` is what `build_row` draws of a row -- composition, selection, cursor, palette and dim over
the line, its colours not computed --, `Built` what comes of it with the glyphs at hand, `RowHash` what
`refresh` hashes, `Stale`/`Refreshed` the rows it builds, `Owed`/`Painted` what a slot is brought up to date
with. `Hashed` is the arithmetic of that hash, as far as it can coincide for reasons of its own and not by an
accident of 64 bits. A row's own FNV hash is the row. The palette's revision and the cursor are multiples of
one constant (painter.rs 210, 216): of the high bits the model keeps which multiples are left (`Multiples`),
the low twelve are computed (`LowMixed`). The folds of composition and selection go on from there (`Fold`),
in digits, so that no number is cut. The dim has a constant of its own and is kept apart. The low bits of
the line and the dim are taken as 0: others turn some additions of the cursor's bits into subtractions.

`PaintedSurface` puts them between the actors: the consumer's output (`Write`, `MoveCursor`, `StyleCursor`,
`Recolour`, `Linefeed`, `EraseHistory`), a replaced mirror, the commands, which store one value (`Focus`,
`Dim`, `Theme`, `Preedit`) or go through two locks (`ReadHistory` and `ScrollTo` for surface.scroll and
surface.wheel; `ReadOffset`, then `Begin`, `Update`, `Clear`, `Read` or `Refuse` for surface.selection, then
`StoreSnapshot`), and the render thread (`TakePending`, `ReadControl`, `Refresh`). Two reductions are in the
thread's steps, both at accesses that commute: theme, dim and overlay are read in one step, since a command
stores only one of them; painting follows the refresh in its step, since it touches nothing another thread
does. A line has one character, in its first column. surface.wheel that a program takes and surface.pointer
change no state and are not there; the wheel's fractions of a cell are left out.

`SkippedPixelsAreCurrent` is what the comment at painter.rs 455-456 says, "Two rows with the same hash paint
identically, so an equal hash skips the row": whenever the thread is about to refresh, every row that would
be skipped on some slot shows what it ought to. The code does not keep it (`row_hash_collision`):

- the cursor's column is added to a constant and its style xor-ed onto that (216-224), so a steady and a
  blinking block one column apart may be one number, `0x..7C16 ^ 0x11 = 0x..7C17 ^ 0x10`. This is what the
  run shows: between two refreshes the cursor moves a column and its style changes;
- a selection is folded to `31 * (start + 1) + end + 1` (235-238), so the columns 0 to 33 and 1 to 2 are both
  65: every row of 34 columns or more has such pairs;
- whether the surface has the focus is the bit `0x40` (225): a focused cursor in column 75 is an unfocused
  one in column 11;
- 210 and 216 xor the same constant: palette revision 1 with a steady underline cursor in column 32, or a
  steady bar in column 16, is revision 0 without a cursor.

`StaleOnlyByCollision` is what the code does keep, with the same styles, and what makes the hash worth
having: a skipped row is current, or shows some asking (`Asks`) that `Hashed` takes to the same number, in
the dim of now and, if under the present revision, in the present colours. So nothing that a row is painted
from is missing from the hash, no slot is forgotten however long it is away, and colours never change under
a revision. (The first case is an instance of the second, and the one TLC tries first.) The property speaks
of `Hashed` and not of what the painter stores, so that a painter which hashes less breaks it. Both
properties exempt a character that was once refused by the atlas or the rasteriser: such a cell stays blank
until its row changes, though instances.rs 128-129 says that the row redraws when the atlas catches up.

### ControlClient and PaneObservers

`ControlClient` is the runtime's one connection to the PTY owner: `Request` takes the mutex and sends,
`Reconnect` greets a new connection and sends again, once, `GiveUp`, `Refused` and `Served` end it. The
owner is external: it may end a connection before it serves, or after it served and before the reply arrives
(`ServedInVain`), which is when the resend repeats a thing done.

`PaneObservers` extends it with one pane's observers: terminal.prepareSession (`Prepare`, `PrepareAnswered`,
`Connect`, `Keep`) with the thread that sleeps thirty seconds (`Expire`), terminal.ensureSession with a token
(`Take`, `HelperReturns`, `Receive`, `TimeOut`) and without (`EnsureListed`, `Listed`, `Observe`), the part
of subscribe_stream that asks for recorded modes (`AskModes`, `Subscribed`), the consumer's mode reports
(`Consume`) and the mode worker. The session's output is its mode changes, and the owner retains a tail of
it. The registry's own locks are `SessionRegistry`'s; here inserting an entry is one step.

`LeftBehind` bounds what the resend costs: every observer the owner keeps for nobody is paid for by an ended
connection or a failed connect. `RecordIsNewest` exempts a record last written by another stream's worker,
and `ModesAreRestored` a change that was neither in the record nor in the retained tail, and mirrors with two
consumers.

### CheckpointWorker

How a pane's checkpoints come about. It extends `CheckpointArchive`: the store is taken at the promise that
`CheckpointStore` is proved to keep, so a call of it is one step (`Claim`, `Commit`), and the worker's
properties hold of the store's code as well. A session here is one PTY generation, opened once and with a
token, and goes through `ClaimGeneration`, `CreateMirror` (which may draw the archive and set the drop flag),
`InstallMirror` and `InsertEntry`; its consumer (`Admit`, `Feed`, `Publish`, `Gap`, `End`, `Closed`, `Evict`)
puts events on the worker's queue; the worker takes one (`Receive`), replaces it by later ones until 250 ms
are over, writes (`WriteLatest`), and stops after the last event or when nobody can send (`Abandon`).
`Archive` and `Retire` are the commands. The mirror is the set of chunks drawn in it, `painted` the set an
archived paint shows, and `Screen` what it ought to show. The mirror's lock is held from the paint to the end
of the write, which is why they are one step. A death of the process is left to `CheckpointStore`: nothing of
this module outlives it but the archive.

`ArchiveIsItsLabel` does not hold when two ensureSession calls of a pane overlap (`raced`): both claim, and
the one that claimed last may have its mirror refilled by the other. It exempts that case, and mirrors into
which an old consumer's in-flight output went (`strays`), as the registry's properties do.

### RecoveryMirror and FrameSubscribers

`RecoveryMirror` is `mirror.rs` without its selection gestures, which are in `PaintedSurface`. The output is a stream of five kinds of
tokens, cut between any two: a feed that ends in a lone `ESC` or `ESC [`, or within a mode number, which
`classify_alt_enter` also waits for, is below them. The engine behind the adapter's trait is modelled as far as the code relies on it
(which token switches screens, what is printed on which). `Feed` holds back a tail that `NeedsMore`, freezes
the primary screen before a sequence that `Enters` the alternate one, and lets it go; `ResizeMirror` is the trait's own `resize_with_replay`
(177-179), which only resizes; an adapter that overrides it to fill a new engine would lose a sequence the old
one was in the middle of, and none is in the repository. `Rehydrate` and
`FrameAt` are what callers are given. A history engine, `sent`, is given every token as it comes.

`FrameSubscribers` extends it with `frame.rs` and `terminal.frame`: `ReadFrame`, `RecordBaseline` and
`Answer` are the mirror's lock, the subscribers' lock and the connection's writer lock, and requests are
answered by threads that overtake one another (`dispatch_response`). `Lose` is a connection that is gone. The
viewer folds replies with `Apply`, the reference fold. A baseline holds one hash per row in the code and the
row here; `tick` dates it, in the table (`last_used`, by which `Oldest` is found) and as a history in the
request (`made`), which tells replies that overtake one another. A session that replaces the pane's is one step: the steps of that are `SessionRegistry`'s, as is the
wait for `afterSequence`. `PictureIsTheFrame` is about replies written in the order in which their baselines
were recorded; the code records a baseline before the reply is written, so a viewer that loses a reply, or
gets two in the other order, folds changed rows onto a picture they were not taken against until its next
full reply (`astray`).

## Runs

| Run | Question | Bounds |
| --- | --- | --- |
| `checkpoint_store` | Do acknowledged positions stay, do claims exclude, is the promise implemented? | 3 threads, 2 processes, 2 generations, 2 sequences, 1 death |
| `session_registry` | Which snapshots are exact, what alone spoils them, who keeps the entry? | 2 streams, 2 sessions, sequences to 2, a frame request after 1 |
| `checkpoint_worker` | Is an archive what its label says, and is a session's end archived? | 2 generations, one with 2 outputs and one with 1, 1 store failure |
| `render_thread` | Ring rule; is the last frame the scene when the thread sleeps; does it rest; which grid does it read? | 3 slots, 2 scenes, 2 grids, 2 outputs, 1 command |
| `pane_surfaces` | Do table, font, channel and threads agree; does a replaced surface stop? | 2 opens, 2 closes, 2 slots, 3 frames |
| `painted_surface` | May a row that is not painted again be stale but by a collision of hashes; do scrolled lines exist; whose is the selection; do glyphs overlap? | 2 rows, 3 columns, 1 line of history, 3 glyphs on a page for two, a steady and a blinking block cursor, 3 strokes, 1 slot, 1 command thread, 3 events |
| `pty_client` | Who holds a stream; what does a resend repeat; which report is recorded; does every command end? | 2 calls, 1 ended connection, 1 mode change, fair scheduling |
| `frame_subscribers` | Are both screens restored, and do replies fold into the frame? | 2 subscribers, room for 1, 2 threads, 3 requests, 3 outputs, resizes or replaced sessions, 2 sizes, parameter lists of 1 looked at |
| `rehydrate_handoff` | A rehydrate during a replacement (violation) | sequences to 1 |
| `takeover_signals` | An eviction during a takeover (violation) | sequences to 1 |
| `render_wakeup` | A notification between check and wait (violation) | 1 output, 1 command |
| `row_hash_collision` | Two rows of one hash that paint differently (violation) | those of `painted_surface` |

Why the bounds are enough. The store needs two writers of one generation and a rival in another process to
race, and one death leaves every file state a death can leave. The registry's hazards are between an old and
a new stream; sequences to 2 let a dropped replay be followed by live output, a gap by a delivered chunk,
and a request wait across a replacement. Of the worker's two
sessions either may replace the other, so the replacement as well as the replaced one is the one whose two
outputs coalesce, or whose second output follows a dropped replay. With three slots, the first paint, two outputs and a command make
the fourth frame miss a slot. The painter's slots do not affect one another, so one that may be missed stands
for each of a ring's; three events change what is painted, how, and where the view is, or make two gestures
overlap; three columns hold a wide composition and one cut off at the edge; the page is full after two of its
glyphs, in either order. Of two opens and two closes any call may be overtaken by
another of either kind; a third frame is one that follows a slot's return. Two calls are a token's maker and its user, two observers of a pane at once, or one
after another; one ended connection is found by the request under way or the next.
Three requests let a subscriber be evicted and come back, or one request overtake another after a full one;
three outputs cut a sequence at each of its tokens, enter the alternate screen twice, or enter and leave it.
Parameter lists in the code are looked at up to 32 bytes; a bound of one lets the run exceed it.
`SYMMETRY` is used only for safety properties whose subjects are interchangeable.

Deadlock is not checked in the registry, render, surface, frame, client and painter runs: a pane whose streams
have ended, a surface whose thread sleeps or has ended, or a pane nobody writes to or asks about, with every bound used up, has
really stopped.

Fairness: only `FairSpec` of `PaneObservers` states any. A request under way is served, refused or cut off; a
thread that has been answered goes on; one that needs the client's mutex gets it in the end (strong fairness:
the mutex is free again and again, and every holder of it is between a request and its reply). Nothing is
asked of the streams: an opened frame may never come, an expiry thread may sleep for ever.

What the violation runs found. A rehydrate may fall between the replacement of a mirror and the insertion
of its entry; a takeover may lose its signals; notifications without the mutex are lost; rows that paint
differently may have one hash. `PROJECT.json` quotes,
for each, what the repository says instead. The exemptions of the other properties, each named above or at
its definition, say how far the same code is right.

## Proofs

`CheckpointStoreProofs` proves, for any constants that satisfy `PositionAssumption` and `StoreAssumption`:
`TypeCorrect`, `AcknowledgedStaysReadable`, `GrantExcludes` and `Implementation`. They rest on one inductive
invariant, `IInv` (`Invariance`). The properties are not inductive themselves: that a rename is an owner's
forward commit needs that the check made three steps before still holds, so `IInv` says that a thread past
the lock holds it, that the holder past `Admit` is the owner, that past `Advance` the archive does not hold
its position, and that only a whole temporary file is renamed; and it ties the two histories to the files.
Each conjunct has a step lemma over all actions. `Implementation` shows that a step changes the abstract
holder or archive only as `CheckpointArchive` allows.

`SessionRegistryProofs` proves, for any constants that satisfy `RegistryAssumption` and `NoneAssumption`
(`None` is no stream, entry or request): `TypeCorrect`, `EntriesAreServed` and `NewestKeeps`. Their `IInv`
(`Invariance`) adds three facts. *Arcs* (`ArcInv`): the arc of the entry and of every running thread is
drawn for some stream that has given its mirror a place, so a takeover's left-over arc is nobody's; type
correctness itself needs it, since what an output spoils is found through its arc. *Entries* (`ServedInv`):
the consumer of the entry's stream is between its first frame and its eviction, and the entry bears its
session number, which is all that `remove_session_if_owner` compares; so the entry is found again by it.
*The newest* (`NewestInv`): its entry is lost only to a stream that is already open on the same session.
`AnnouncedSizes` (`AnnouncedSizeStands`) rests on where a size signal can be (`SignalArcInv`: a caller
without a place keeps its own to itself and has told nobody) and on the entry and its consumer having the
same one, which holds what was announced unless the consumer is on the way to announce (`SizeInv`). It is
proved only: no run has two sizes, which would make the registry's states too many.

On top of it the module proves `Exactness` (`OnlyStraysSpoil`), with `ExactInv`: a stream's content is in one mirror at a time (`HomeInv`); its atomic equals what was delivered, or is one behind while
an output is on its way to the engine with the stream's own atomic in hand (`ProgressInv`); and the drop
flag, in the entry or already taken by a thread, is set exactly for the first output after a restore
(`DropInv`). All of it is said of streams that nobody interfered with and that lost nothing. Steps that
feed, fill and lose nothing are collected in `Quiet` and dealt with once; the seven others have a lemma
each. `OutputGrows` is the fact about sequences behind `Feed`. `SerialHandoffs` (`SerialHandoffIsExact`) and
`Replacements` (`ReplacementIsExact`) drop the exemptions under what the histories `overlap` and `raced`
record: streams one after another keep their own handles (`OwnHandles`, so nothing strays), a signal never
says more than the mirror holds, and a loss shows in the entry it is served from (`LossInv`); with one
installation at a time, the content a caller put into a mirror is still there when its entry goes in, and
until the next caller's does (`ReplacementInv`).

`RenderThreadProofs` proves `ThreadRests` (`RestsAfterEvents`) and `ReadsItsOwnGrid`
(`GridMovesOnlyInTheGap`) for any scenes, grids and rings and any number of outputs and commands. Their
`Inv` says, for each control point, what an iteration that nothing has reached since it began has settled
there (`Settled`): past the top the thread is not stopped, past the signal `progressed` is the signal's
value, past the swap no full paint is owed, and past the comparison all of it is seen, on each of its three
branches. So the check finds nothing, and the thread sleeps. An event starts the count anew, so only the
thread's own steps have to be argued. `ThreadTypes` (`TypeOK`) needs that a ring is replaced only for a
resize a command has asked for (`Replacements`), which bounds its number. `LastFrame`
(`LastFrameIsTheScene`): the frame signalled last shows the scene, or something will have the thread paint
again, said for every control point of the iteration (`FreshInv`). `FreeSlots` (`FreeIsReturned`): while no
release crosses a replacement, a slot of the current ring is in one of three places: free, out with the
application, or on its way back, and in each only once (`SignalledOut`, `ReturnedOnce`).

`PaneSurfacesProofs` proves `OneSurfaceRuns` (`NoneRunsBeside`) and `SupersededFallsSilent` (`OneLateFrame`)
for any numbers of opens, closes, slots and frames. The first rests on `Accounted`: a surface that was ever
put into the table is in it, or has been told to stop, or some open has it in hand and will tell it; a close
that reached the removal has stopped what it found, so only a `strayed` surface is forgotten. The second
rests on where a thread that signalled after its stop can be: at the top of its loop, where it looks, or at
its end. `SerialCalls` (`SerialCallsAgree`): while no two calls overlap, `Agreed` says for each point of the
one that runs what it has made of table, font and ring so far; `HandInv` that what a call stops was
installed, overlaps or not. `SurfaceTypes` is `TypeOK`.

`PaneObserversProofs` proves `OneHolder` (`StreamHasOneHolder`) for any set of commands that `None` is not
in. A call holds a stream while its helper thread waits for it, while the message with it is under way, and
while its own thread claims and restores; `OnePlace` says that each stream that is not closed is with
exactly one such call, or its maker, the table or its consumer, and `Phases` which control points go with
which: a helper outlives its caller only before anything was sent, so that a timeout cannot leave a stream
in a message nobody receives. Every action moves one stream from one place to the next, in a lemma of its
own; `OneIsCounted` turns that into the counted set.

On top of it the module proves `TypeCorrect`, `NewestIsRecorded` (`RecordIsNewest`) and `RestoredAsRecorded`
(`ModesAreRestored`), from the same assumptions and `ChangesAssumption`. `Bound` ties the mutex to the
thread that waits for an answer and the reply to what was recorded, `Pending` finds the last report at the
end of the queue, in the worker's hands or on record, and `Worked` needs `OnePlace`: a stream is consumed
once, so the worker that starts with its consumer has never written. `NothingAhead` and `NotBehind` bound
what a mirror shows from both sides, by what has happened and by what its stream has delivered; `Begun` says
that what is consumed was opened, so that its beginning no longer moves. `ResendsArePaid` (`LeftBehind`)
counts: `Paid` bounds the tokens by the connections that ended, the calls that hold a token or failed with
one, and the one on its way to its call. `Calls` may be infinite; that the calls counted are finitely many
is part of the invariant.

`CheckpointWorkerProofs` proves `WorkerTypes` (`TypeOK`), `ArchivesAreTheirLabel` (`ArchiveIsItsLabel`) and
`EndsAreArchived` (`EndIsArchived`) for any number of sessions, from `PositionAssumption` and
`WorkerAssumption`. `WorkInv` is what needs no history: a session's drop flag is up exactly until the first
output after a restore, its queue holds only what was drawn and ends with the final event if it finished
(`SessionInv`, `QueueInv`), the entry is a consuming session's (`EntryInv`). `ScreenInv`: as long as
installations do not overlap, the holder is the one who installs, and its mirror shows its `Screen`, as far
as it was delivered. A write puts the holder's mirror under the atomic's sequence, which is not ahead of it,
so it is its label (`PaintIsItsLabel`), and stays it while the base of a session that has its mirror no
longer moves (`ContentKept`).

`FrameSubscribersProofs` proves the four properties of its run for any sizes, chunks, subscribers, threads and
numbers of requests, from `MirrorAssumption`, `SubscribersAssumption` and `NoRecordAssumption`. What an engine
makes of a sequence is a recursive function, so facts about it go by induction, in first-order form: a set of
indices with 0 and every successor is all of them (`Induction`), since a least index outside would follow one
inside (`Least`, from the library's well-founded minimum); and a function by steps exists (`Recursion`), so
that `Steps` is one (`StepsAre`). `FedTogether`, that feeding two sequences in turn is feeding their
concatenation, then gives `HeldOnlyDelays` (`HeldIsOnlyDelay`). `SnapshotsRestore` (`RehydrateRestores`) needs
more of the cut. What is held back starts a sequence and is looked at again with what follows (`Boundary`),
and what comes before the cut ends outside of every sequence that could still enter; so whenever the engine enters
the alternate screen within the bound, `Enters` finds the sequence in the same feed (`LooksFrozen`), and the
frozen screen is the primary one (`FrozenIsPrimary`), which nothing is printed on until it is back.

`SubscriberTypes` (`TypeOK`) includes that a pane has no more baselines than there is room for.
`PicturesAreFrames` (`PictureIsTheFrame`) rests on a chain. `Shown(s, m)` is the frame a viewer will have
folded once the replies made before `m` have come: the frame of the last one still to come, or the picture if
there is none; nothing, if that one was overtaken or the viewer is astray. `ReplyInv`: a reply with changed
rows makes its frame of what is shown before it; `BaselineInv`: the baseline has the rows of what is shown
after all of them, for the next difference. A reply that comes in its turn, out of it or not at all changes
`Shown` for none of the later ones, or empties it (`ShownReplied`).

`PaintedSurfaceProofs` proves `SlotsStayApart` (`AtlasIsPacked` of `AtlasSpec`) for any glyphs, sizes and page
that satisfy `AtlasAssumption`, and any failures. The property is not inductive: a new slot must be apart from
all earlier ones, so `Packed` says that every slot lies above the open shelf, or on it and to the left of its
cursor within its height, and a step is split by whether the glyph goes to the open shelf or the next. A row
ensures its glyphs, and a refresh its rows, by recursive functions (`EnsuredPacked`, `RefreshedPacked`, with
`Induction` and `Recursion` as above), so the atlas of a pane is packed as well (`PaneIsPacked`).

On top of it the module proves the rest of its run for any grid, output, commands and ring, from
`GridAssumption`, `SurfaceAssumption` and `SurfaceNoneAssumption`: `PaintTypes` (`TypeOK`), for which a
composition has to stay in its row (`ComposedTyped`) and the engine to drop a selection that leaves its lines
(`MovedSelection`); `OwnersMove` (`SelectionIsTheOwners`); `ScrolledLines` (`ScrolledLinesExist`), whose
`ScrollInv` adds the history a command carries between its two locks. `SkippedRows`
(`StaleOnlyByCollision`) has no hypothesis on styles, compositions or the width of the grid. `Faithful` says
what a hash stands for, of the painter's own cells and of every slot's: some asking of that hash, under
revisions that have been, whose picture is shown but for characters that were refused, in the painter's
palette and dim if the revisions are the present ones. A change of colours takes a revision no hash has
(`ResolvedLater`, `SetDimLater`), a refresh builds what it hashes (`RefreshedFaithful`), a paint copies both
(`PaintFaithful`); a row whose hash is the one a refresh computes then shows an asking of the same number
(`SkippedIsConfused`).

Only model-checked: liveness (`CallsEnd`), which is out of the prover's reach. Only proved: `AnnouncedSizes`.

## Not modelled, and the plan

Not modelled: what an application makes of a superseded surface's end, which names only the pane; the
lock order between registry, mirrors and file locks; calls that cannot open, lock or read a checkpoint's
files, which change none; messages that a surface's channel fails to take, whose slot stays signalled; the
blink's deadline; surface.measure, surface.read and
surface.state, which only read; terminal.waitSize, a bounded wait over the size signal; the bytes of
observation frames and the check for gaps in them.

Left out for good: encryption, JSON, colours and pixels, the native bridge, the conformance harness and
socket set-up. They have no interleaving of their own, and what they do to the state above is in the actions.
