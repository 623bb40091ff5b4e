------------------------------ MODULE RowPainter ------------------------------
(***************************************************************************)
(* How a painter turns a mirror's viewport into rows of cells, which rows  *)
(* it builds anew and which a surface is owed (src/src/render/painter.rs   *)
(* and instances.rs), as operators on the painter's state.                 *)
(*                                                                         *)
(* A line of the mirror holds one character, in its first column: a line   *)
(* is that character.  A character is the bytes it is encoded in.  A cell  *)
(* is what decides its colours and its glyph: the character, the selection *)
(* and the cursor on it, the palette and the dim; the colours themselves   *)
(* are not computed.                                                       *)
(***************************************************************************)
EXTENDS GlyphAtlas, Integers, SequencesExt

CONSTANTS
    Rows, Cols,  \* the grid of mirror and painter
    None         \* no row, no hash, no composition, no colours

ASSUME GridAssumption == Rows \in Nat \ {0} /\ Cols \in Nat \ {0}

Row == 0..Rows - 1
Column == 0..Cols - 1

\* What a cell shows that no character stands for.
Blank == <<>>
Spacer == <<0>>
Missing == <<0, 0>>  \* a character whose glyph is not in the atlas

--------------------------------------------------------------------------------
\* build_row

Wide(character) == Len(character) >= 3

\* A composition over the cells from the cursor's column on, and where its caret is.
Composed(cells, composition, start) ==
    LET text == composition.text
        Put(held, character, index) ==
            LET spills == Wide(character) /\ held.col + 1 < Cols
            IN  IF held.col >= Cols THEN held
                ELSE [cells |-> [x \in Column |->
                                    IF x = held.col THEN character
                                    ELSE IF spills /\ x = held.col + 1 THEN Spacer
                                    ELSE held.cells[x]],
                      col |-> held.col + (IF spills THEN 2 ELSE 1),
                      caret |-> IF index = composition.caret THEN held.col ELSE held.caret]
        placed[i \in 0..Len(text)] ==
            IF i = 0 THEN [cells |-> cells, col |-> start, caret |-> None]
            ELSE Put(placed[i - 1], text[i], i - 1)
        last == placed[Len(text)]
    IN  [cells |-> last.cells,
         caret |-> IF last.caret # None THEN last.caret
                   ELSE IF last.col < Cols THEN last.col ELSE Cols - 1]

\* What is to be painted of a row.  asked: the line, the composition and the selection on it
\* or None, the mirror's cursor, whether it is shown on this row, and the surface's focus.
Picture(p, asked) ==
    LET line == [x \in Column |-> IF x = 0 THEN asked.line ELSE Blank]
        over == IF asked.composition = None THEN [cells |-> line, caret |-> None]
                ELSE Composed(line, asked.composition, asked.cursor.col)
        selected == IF asked.selection = None THEN {}
                    ELSE Column \cap (asked.selection[1]..asked.selection[2])
        cursor == IF asked.composition # None THEN [col |-> over.caret, look |-> "bar"]
                  ELSE IF ~asked.shown \/ asked.cursor.col \notin Column THEN None
                  ELSE [col |-> asked.cursor.col,
                        look |-> IF asked.focused THEN asked.cursor.shape ELSE "hollow"]
    IN  [cells |-> over.cells,
         cursor |-> cursor,
         selected |-> IF cursor # None /\ cursor.look = "block" THEN selected \ {cursor.col}
                      ELSE selected,
         palette |-> p.palette,
         dim |-> p.dim]

\* The cells of a row ensure their glyphs, from left to right.
Ensured(a, picture, outcomes) ==
    LET after[x \in 0..Cols] ==
            IF x = 0 THEN a
            ELSE IF picture.cells[x - 1] \in {Blank, Spacer} THEN after[x - 1]
            ELSE Ensure(after[x - 1], picture.cells[x - 1], outcomes[picture.cells[x - 1]])
    IN  after[Cols]

\* A character without a glyph paints its background only, and so does what it spills into.
\* Whether the atlas has it is known once the whole row has been ensured: a slot stays.
Built(a, picture) ==
    LET Lacks(x) == picture.cells[x] \notin Registered(a) \cup {Blank, Spacer}
    IN  [picture EXCEPT !.cells =
            [x \in Column |-> IF Lacks(x) THEN Missing
                              ELSE IF picture.cells[x] = Spacer /\ x > 0 /\ Lacks(x - 1) THEN Blank
                              ELSE picture.cells[x]]]

--------------------------------------------------------------------------------
\* row_hash and what refresh folds into it

\* hash * 31 + value, from the left over a number of values: as digits to the base of 31, the
\* first of which is what exceeds them, so that equal numbers are equal digits.
Fold(hash, values) ==
    FoldRight(LAMBDA value, digits :
                  <<value + Head(digits) \div 31, Head(digits) % 31>> \o Tail(digits),
              <<hash>> \o values, <<0>>)

\* What a row's hash folds in: the composition with its cursor, then the selection.
Overlaid(asked) ==
    LET composition == asked.composition
        selected == asked.selection
        bytes == FlattenSeq(composition.text)
    IN  (IF composition = None THEN <<>>
         ELSE <<composition.caret>> \o [i \in DOMAIN bytes |-> bytes[i] + 1]
                 \o <<asked.cursor.col + 1>>)
        \o (IF selected = None THEN <<>> ELSE <<selected[1] + 1, selected[2] + 1>>)

ShapeBits == [block |-> 16, underline |-> 32, bar |-> 48]

\* The low bits of 0x9E37_79B9_7F4A_7C15: below 1003, no column carries into the others.
LowBits == 12
Golden == 3093

\* Of three numbers of that many bits, from the lowest: their sum without a carry.
Xor(a, b, c) ==
    LET from[i \in 0..LowBits] ==
            IF i = LowBits THEN 0
            ELSE (2 * from[i + 1]) + (((a \div 2^i) + (b \div 2^i) + (c \div 2^i)) % 2)
    IN  from[0]

\* What the low bits are xor-ed with for the cursor's look: the focus has a bit of its own.
LookBits(cursor, focused) ==
    ShapeBits[cursor.shape] + (IF cursor.blinking THEN 1 ELSE 0) + (IF focused THEN 0 ELSE 64)

LowMixed(paletteRevision, asked) ==
    Xor((paletteRevision * Golden) % 2^LowBits,
        IF asked.shown THEN Golden + asked.cursor.col ELSE 0,
        IF asked.shown THEN LookBits(asked.cursor, asked.focused) ELSE 0)

\* The constant that a palette's revision is a multiple of is xor-ed once more for a cursor:
\* of the high bits, which multiples are left.
Multiples(revision, shown) ==
    {m \in {revision, 1} : (m = revision /\ m # 0) # (m = 1 /\ shown)}

\* A line's own hash, the palette's and the dim's revisions and the cursor are xor-ed, the
\* composition and the selection folded in.  The high bits, random in the code, tell lines,
\* dims and multiples apart.  The low bits of the line and the dim are taken as 0.
Hashed(paletteRevision, dimRevision, asked) ==
    [line |-> asked.line,
     dim |-> dimRevision,
     palette |-> Multiples(paletteRevision, asked.shown),
     digits |-> Fold(LowMixed(paletteRevision, asked), Overlaid(asked))]

\* Mutant of RowHash: whether the surface has the focus is not hashed.
RowHashUnfocused(p, asked) ==
    Hashed(p.paletteRevision, p.dimRevision, [asked EXCEPT !.focused = TRUE])

RowHash(p, asked) == Hashed(p.paletteRevision, p.dimRevision, asked)

--------------------------------------------------------------------------------
\* The painter

Unhashed == [r \in Row |-> None]

NewPainter(base) ==
    [base |-> base, palette |-> [base |-> base, over |-> None], paletteRevision |-> 0,
     dim |-> 0, dimRevision |-> 0, cells |-> Unhashed, hashes |-> Unhashed]

SetBasePalette(p, base) == [p EXCEPT !.base = base]

\* Mutant of SetDim: every row is built again, under the hash it had.
SetDimUnhashed(p, dim) ==
    IF dim = p.dim THEN p ELSE [p EXCEPT !.dim = dim, !.hashes = Unhashed]

SetDim(p, dim) ==
    IF dim = p.dim THEN p
    ELSE [p EXCEPT !.dim = dim, !.dimRevision = @ + 1, !.hashes = Unhashed]

\* refresh: the program's colours over the theme's; a change owes every row.
Resolve(p, over) ==
    LET effective == [base |-> p.base, over |-> over]
    IN  IF p.palette = effective THEN p
        ELSE [p EXCEPT !.palette = effective, !.paletteRevision = @ + 1, !.hashes = Unhashed]

\* refresh: the rows whose hash differs are built, from the top, and ensure their glyphs.
Hashes(p, asked) == [r \in Row |-> RowHash(p, asked[r])]

Stale(p, hashes) == {r \in Row : p.hashes[r] # hashes[r]}

\* The pictures of the rows built.
Pictures(p, asked, hashes) == [r \in Stale(p, hashes) |-> Picture(p, asked[r])]

\* The characters they need a glyph for.
Wanted(pictures) ==
    {pictures[r].cells[x] : r \in DOMAIN pictures, x \in Column} \ {Blank, Spacer}

RefreshedAtlas(pictures, a, outcomes) ==
    LET after[r \in 0..Rows] ==
            IF r = 0 THEN a
            ELSE IF r - 1 \notin DOMAIN pictures THEN after[r - 1]
            ELSE Ensured(after[r - 1], pictures[r - 1], outcomes)
    IN  after[Rows]

Refreshed(p, pictures, hashes, a) ==
    [p EXCEPT !.cells = [r \in Row |-> IF r \in DOMAIN pictures THEN Built(a, pictures[r]) ELSE @[r]],
              !.hashes = hashes]

\* paint_into: a surface is owed the rows it does not show under their hash.
Owed(p, target) == {r \in Row : target.painted[r] # p.hashes[r]}

Painted(p, target) ==
    [painted |-> [r \in Row |-> p.hashes[r]],
     pixels |-> [r \in Row |-> IF r \in Owed(p, target) THEN p.cells[r] ELSE target.pixels[r]]]

FreshTarget == [painted |-> Unhashed, pixels |-> Unhashed]
================================================================================
