---------------------------- MODULE RecoveryMirror ----------------------------
(***************************************************************************)
(* The mirror of one pane (src/src/mirror.rs): a terminal engine fed with  *)
(* the session's output, the primary screen frozen when the alternate one  *)
(* is entered, and the tail of a feed that may be the first half of the    *)
(* sequence that enters it.  The engine is the adapter's; what is modelled *)
(* of it is when it switches screens, and what is printed on which.        *)
(*                                                                         *)
(* Output is a stream of tokens, cut between any two: the start of a       *)
(* private mode sequence (ESC [ ?), a parameter that names an alternate    *)
(* screen, the finals h and l, and text, which prints a line or is another *)
(* final.  A cut within ESC [ ? or within a number is below the tokens.    *)
(***************************************************************************)
EXTENDS Integers, SequencesExt

CONSTANTS
    Sizes,       \* grid sizes, as numbers of rows
    ParamBound,  \* the longest parameter list that is looked at
    None         \* no screen is frozen

ASSUME MirrorAssumption ==
    /\ Sizes \subseteq Nat \ {0}
    /\ ParamBound \in Nat

VARIABLES
    engine,  \* its screens, and the sequence it is in the middle of
    frozen,  \* the primary screen as it was when the alternate one was entered, or None
    held,    \* tokens kept back from the engine
    sent     \* history: an engine given every token as it comes

mirrorVars == <<engine, frozen, held, sent>>

Token == {"start", "alternate", "set", "reset", "text"}

Screen == [alternate: BOOLEAN, lines: Nat]

--------------------------------------------------------------------------------
\* The engine

Engine == [params: -1..(ParamBound + 1),  \* of the sequence it is in, or -1
           entered: 0..(ParamBound + 1),  \* of the sequence that entered the alternate screen
           primary: Nat, drawn: Nat, rows: Sizes]

NewEngine(rows) == [params |-> -1, entered |-> 0, primary |-> 0, drawn |-> 0, rows |-> rows]

Alternate(e) == e.entered > 0

Printed(e) == IF Alternate(e) THEN [e EXCEPT !.drawn = @ + 1] ELSE [e EXCEPT !.primary = @ + 1]

\* The engine after a token; outside of a sequence, any but a start is text.  A list of
\* parameters longer than ParamBound is only known to be that.
Taken(e, token) ==
    CASE token = "start" -> [e EXCEPT !.params = 0]
      [] token # "start" /\ e.params = -1 -> Printed(e)
      [] token = "alternate" /\ e.params \in 0..ParamBound -> [e EXCEPT !.params = @ + 1]
      [] token = "alternate" /\ e.params > ParamBound -> e
      [] token = "set" /\ e.params > 0 /\ ~Alternate(e) ->
            [e EXCEPT !.params = -1, !.entered = e.params, !.drawn = 0]
      [] token = "reset" /\ e.params > 0 -> [e EXCEPT !.params = -1, !.entered = 0]
      [] OTHER -> [e EXCEPT !.params = -1]

\* The engine before the first token, and after each.
Steps(e, data) ==
    LET after[i \in 0..Len(data)] == IF i = 0 THEN e ELSE Taken(after[i - 1], data[i])
    IN  after

Fed(e, data) == Steps(e, data)[Len(data)]

\* What paint_primary reads: the lines of the active screen.
Active(e) == [alternate |-> Alternate(e), lines |-> IF Alternate(e) THEN e.drawn ELSE e.primary]

HistorySize(e) == IF Alternate(e) \/ e.primary < e.rows THEN 0 ELSE e.primary - e.rows

--------------------------------------------------------------------------------
\* classify_alt_enter

Parameters(data, first, last) ==
    last - first < ParamBound /\ \A i \in first..last : data[i] = "alternate"

\* The tail from i may yet turn out to enter the alternate screen.  That a lone ESC, ESC [ or
\* half a number may too is not modelled.
NeedsMore(data, i) == data[i] = "start" /\ Parameters(data, i + 1, Len(data))

\* The token at i ends a sequence that enters it.
Enters(data, i) ==
    data[i] = "set" /\ \E start \in 1..(i - 2) :
        data[start] = "start" /\ Parameters(data, start + 1, i - 1)

\* Mutant of Freezes: a second sequence freezes again.
FreezesAgain(e, data, i) == Enters(data, i)

\* The active screen is painted unless it is the alternate one.
Freezes(e, data, i) == Enters(data, i) /\ ~Alternate(e)

\* feed's loop over what is not held back.
Looks(data) ==
    LET e == Steps(engine, data)
        kept[i \in 0..Len(data)] ==
            IF i = 0 THEN frozen
            ELSE IF Freezes(e[i - 1], data, i) THEN Active(e[i - 1]) ELSE kept[i - 1]
    IN  kept

Looked(data) == [engine |-> Fed(engine, data), frozen |-> Looks(data)[Len(data)]]

\* Where feed returns, keeping the rest.
Cut(data) ==
    LET cuts == {i \in 1..Len(data) : NeedsMore(data, i)}
    IN  IF cuts = {} THEN Len(data) ELSE (CHOOSE i \in cuts : TRUE) - 1

NewMirror(rows) ==
    /\ engine = NewEngine(rows)
    /\ frozen = None
    /\ held = <<>>
    /\ sent = NewEngine(rows)

\* Mutant of Feed: what was kept back is fed, and kept.
FeedHeldTwice(chunk) ==
    LET data == held \o chunk
        cut == Cut(data)
        seen == Looked(SubSeq(data, 1, cut))
    IN  /\ engine' = seen.engine
        /\ held' = IF cut = Len(data) THEN held ELSE SubSeq(data, cut + 1, Len(data))
        /\ frozen' = IF held' = <<>> /\ ~Alternate(engine') THEN None ELSE seen.frozen
        /\ sent' = Fed(sent, chunk)

\* feed: a tail that needs more is held back, and the frozen screen kept over it.
Feed(chunk) ==
    LET data == held \o chunk
        cut == Cut(data)
        seen == Looked(SubSeq(data, 1, cut))
    IN  /\ engine' = seen.engine
        /\ held' = SubSeq(data, cut + 1, Len(data))
        /\ frozen' = IF held' = <<>> /\ ~Alternate(engine') THEN None ELSE seen.frozen
        /\ sent' = Fed(sent, chunk)

\* resize: the engine is resized, as by the trait's own resize_with_replay.  An adapter may
\* override that to fill a new engine with rehydrate's paint, which knows no sequence the old
\* one was in the middle of; no adapter is in the repository.
ResizeMirror(rows) ==
    /\ engine' = [engine EXCEPT !.rows = rows]
    /\ sent' = [sent EXCEPT !.rows = rows]
    /\ UNCHANGED <<frozen, held>>

\* A replacing session's fresh mirror is moved in.
RefillMirror(rows) ==
    /\ engine' = NewEngine(rows)
    /\ frozen' = None
    /\ held' = <<>>
    /\ sent' = NewEngine(rows)

\* rehydrate: the frozen primary screen, if there is one, then the active one.
Rehydrate ==
    [primary |-> IF Alternate(engine) THEN frozen ELSE Active(engine),
     active |-> Active(engine)]

\* frame_at: the viewport, scrolled into history; a row is the line on it, or 0.
FrameAt(offset) ==
    LET scrolled == IF offset > HistorySize(engine) THEN HistorySize(engine) ELSE offset
        screen == Active(engine)
        top == (IF Alternate(engine) THEN 0 ELSE HistorySize(engine)) - scrolled
    IN  [rows |-> engine.rows, alternate |-> screen.alternate, offset |-> scrolled,
         lines |-> [y \in 1..engine.rows |-> IF top + y <= screen.lines THEN top + y ELSE 0]]

--------------------------------------------------------------------------------
\* Properties

MirrorTypeOK ==
    /\ engine \in Engine
    /\ sent \in Engine
    /\ frozen \in Screen \cup {None}
    /\ held # <<>> => Len(held) <= ParamBound + 1 /\ NeedsMore(held, 1)

\* Wherever the output is cut into frames, the engine is fed exactly what came: what is
\* held back is a tail of it, not lost and not fed twice.
HeldIsOnlyDelay == Fed(engine, held) = sent

\* A snapshot restores both screens: while the alternate one is active, the frozen paint
\* is the primary screen under it, wherever the sequence that entered it was cut, and it
\* is let go once the primary one is back.  Sequences longer than are looked at go unseen.
RehydrateRestores ==
    /\ engine.entered <= ParamBound =>
          Rehydrate.primary = [alternate |-> FALSE, lines |-> engine.primary]
    /\ ~Alternate(engine) /\ held = <<>> => frozen = None
================================================================================
