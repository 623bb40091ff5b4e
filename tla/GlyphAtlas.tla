------------------------------ MODULE GlyphAtlas ------------------------------
(***************************************************************************)
(* The glyph atlas of a painter (src/src/render/atlas.rs): one square page *)
(* filled shelf by shelf, append-only, and the registry of the slots on    *)
(* it.  A glyph has the size its raster has; that raster and the upload of *)
(* the bitmap may fail.                                                    *)
(***************************************************************************)
EXTENDS Naturals

CONSTANTS
    Glyphs,    \* keys: a face, a device size and a codepoint
    Size,      \* glyph -> the width and height of its bitmap
    PageSize   \* the side of the page

ASSUME AtlasAssumption ==
    /\ PageSize \in Nat
    /\ Size \in [Glyphs -> [w: Nat, h: Nat]]

VARIABLE atlas  \* the open shelf's y, height h and next free x; the slots registered

Slot == [glyph: Glyphs, x: Nat, y: Nat]

Outcome == {"ok", "no raster", "no upload"}

EmptyPage == [y |-> 0, h |-> 0, x |-> 0, slots |-> {}]

Registered(a) == {slot.glyph : slot \in a.slots}

Width(slot) == Size[slot.glyph].w
Height(slot) == Size[slot.glyph].h

\* The shelf a bitmap of width w goes to: the open one, or the next below it.
Shelf(a, w) ==
    IF a.x + w > PageSize
    THEN [y |-> a.y + a.h, h |-> 0, x |-> 0, slots |-> a.slots]
    ELSE a

HasRoom(a, w, h) ==
    /\ w <= PageSize /\ h <= PageSize
    /\ Shelf(a, w).y + h <= PageSize

\* AtlasPage::place takes the spot at the shelf's cursor; the registry is then slots.
Place(shelf, w, h, slots) ==
    [y |-> shelf.y, h |-> IF h > shelf.h THEN h ELSE shelf.h, x |-> shelf.x + w, slots |-> slots]

SlotAt(shelf, glyph) == [glyph |-> glyph, x |-> shelf.x, y |-> shelf.y]

\* Mutant of Ensure: the cursor of a full shelf goes back to its start, and the shelf stays.
EnsureOnOneShelf(a, glyph, outcome) ==
    LET w == Size[glyph].w
        h == Size[glyph].h
        shelf == [Shelf(a, w) EXCEPT !.y = a.y]
    IN  IF glyph \in Registered(a) \/ outcome # "ok" \/ ~HasRoom(a, w, h) THEN a
        ELSE Place(shelf, w, h, a.slots \cup {SlotAt(shelf, glyph)})

\* Atlas::ensure.  A bitmap that is placed and cannot be uploaded keeps its room.
Ensure(a, glyph, outcome) ==
    LET w == Size[glyph].w
        h == Size[glyph].h
        shelf == Shelf(a, w)
    IN  IF glyph \in Registered(a) \/ outcome = "no raster" \/ ~HasRoom(a, w, h) THEN a
        ELSE Place(shelf, w, h, IF outcome = "no upload" THEN a.slots
                                ELSE a.slots \cup {SlotAt(shelf, glyph)})

AtlasInit == atlas = EmptyPage

AtlasNext == \E glyph \in Glyphs, outcome \in Outcome : atlas' = Ensure(atlas, glyph, outcome)

AtlasSpec == AtlasInit /\ [][AtlasNext]_atlas

Apart(s, t) ==
    \/ s.x + Width(s) <= t.x \/ t.x + Width(t) <= s.x
    \/ s.y + Height(s) <= t.y \/ t.y + Height(t) <= s.y

\* A glyph has one slot, on the page, and no slot covers a part of another: a glyph's upload
\* never spoils the coverage of a row that is already painted.
AtlasIsPacked ==
    /\ \A s \in atlas.slots : s.x + Width(s) <= PageSize /\ s.y + Height(s) <= PageSize
    /\ \A s, t \in atlas.slots : s # t => s.glyph # t.glyph /\ Apart(s, t)
================================================================================
