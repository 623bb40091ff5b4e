------------------------- MODULE PaintedSurfaceProofs -------------------------
(***************************************************************************)
(* For any grid, glyphs, page, ring, commands and output: the slots of the *)
(* atlas are on its page and apart, gestures keep their owner, lines that  *)
(* are scrolled to exist, and a row that is not painted again shows what a *)
(* row of its hash asks for.                                               *)
(***************************************************************************)
EXTENDS PaintedSurface, NaturalsInduction, WellFoundedInduction, TLAPS

--------------------------------------------------------------------------------
\* Induction: the natural numbers are well-founded, so a set of them has a least one.

Smaller == OpToRel(<, Nat)

LEMMA Least ==
    ASSUME NEW S \in SUBSET Nat, S # {}
    PROVE  \E n \in S : \A m \in S : n <= m
  <1>1. PICK n \in S : \A m \in S : <<m, n>> \notin Smaller
    <2>1. IsWellFoundedOn(Smaller, Nat)
      BY NatLessThanWellFounded DEF Smaller
    <2> QED
      BY <2>1, WFMin
  <1>2. \A m, k \in Nat : m < k => <<m, k>> \in Smaller
    BY DEF Smaller, OpToRel
  <1>3. \A m \in S : ~(m < n)
    BY <1>1, <1>2
  <1> QED
    BY <1>3

\* What is so at 0 and goes from each index to the next is so at all.
LEMMA Induction ==
    ASSUME NEW n \in Nat, NEW S, 0 \in S, \A i \in 1..n : i - 1 \in S => i \in S
    PROVE  \A i \in 0..n : i \in S
  <1> SUFFICES ASSUME NEW j \in 0..n, j \notin S PROVE FALSE
    OBVIOUS
  <1> DEFINE Bad == {i \in 0..n : i \notin S}
  <1>1. Bad \in SUBSET Nat /\ Bad # {}
    OBVIOUS
  <1>2. PICK i \in Bad : \A m \in Bad : i <= m
    BY <1>1, Least
  <1>3. i \in 1..n
    BY <1>2
  <1>4. i - 1 \in 0..n /\ i - 1 \notin Bad
    BY <1>2, <1>3
  <1> QED
    BY <1>2, <1>3, <1>4

\* A function that is defined by its value before, as far as n, is there.
LEMMA Recursion ==
    ASSUME NEW S, NEW x \in S, NEW n \in Nat, NEW next \in [1..n -> [S -> S]]
    PROVE  \E f \in [0..n -> S] :
              /\ f[0] = x
              /\ \A i \in 1..n : f[i] = next[i][f[i - 1]]
  <1> DEFINE Is(f, k) ==
                /\ f \in [0..k -> S]
                /\ f[0] = x
                /\ \A i \in 1..k : f[i] = next[i][f[i - 1]]
             Good == {k \in 0..n : \E f : Is(f, k)}
  <1>1. 0 \in Good
    <2>1. Is([i \in 0..0 |-> x], 0)
      OBVIOUS
    <2> HIDE DEF Is
    <2> QED
      BY <2>1
  <1>2. ASSUME NEW k \in 1..n, k - 1 \in Good PROVE k \in Good
    <2>1. PICK f : Is(f, k - 1)
      BY <1>2
    <2> DEFINE g == [i \in 0..k |-> IF i = k THEN next[k][f[k - 1]] ELSE f[i]]
    <2>2. next[k][f[k - 1]] \in S
      BY <2>1
    <2>3. g \in [0..k -> S] /\ g[0] = x
      BY <2>1, <2>2
    <2>4. \A i \in 1..k : g[i] = next[i][g[i - 1]]
      BY <2>1
    <2>5. Is(g, k)
      BY <2>3, <2>4
    <2> HIDE DEF Is, g
    <2> QED
      BY <2>5
  <1> HIDE DEF Is
  <1>3. n \in Good
    <2> HIDE DEF Good
    <2>1. \A i \in 0..n : i \in Good
      BY <1>1, <1>2, Induction
    <2> QED
      BY <2>1
  <1> QED
    BY <1>3 DEF Is

--------------------------------------------------------------------------------
\* The atlas

Kept(a) ==
    /\ a \in [y: Nat, h: Nat, x: Nat, slots: SUBSET Slot]
    /\ \A s \in a.slots : s.x + Width(s) <= PageSize

\* The slots of closed shelves end above the open one; those of the open shelf end left of
\* its cursor and within its height.
Shelved(a) ==
    \A s \in a.slots :
        \/ s.y + Height(s) <= a.y
        \/ (s.y = a.y /\ Height(s) <= a.h /\ s.x + Width(s) <= a.x)

Separate(a) == \A s, t \in a.slots : s # t => s.glyph # t.glyph /\ Apart(s, t)

Packed(a) == Kept(a) /\ a.y + a.h <= PageSize /\ Shelved(a) /\ Separate(a)

\* A bitmap's width and height are natural numbers.
LEMMA SizeType ==
    ASSUME NEW glyph \in Glyphs PROVE Size[glyph].w \in Nat /\ Size[glyph].h \in Nat
  BY AtlasAssumption

\* Closing a shelf keeps the page packed, and leaves nothing on the shelf it opens.
LEMMA ShelfPacked ==
    ASSUME NEW a, Packed(a), NEW w \in Nat, NEW h \in Nat, HasRoom(a, w, h)
    PROVE  /\ Packed(Shelf(a, w))
           /\ Shelf(a, w).slots = a.slots
           /\ Shelf(a, w).x + w <= PageSize
           /\ Shelf(a, w).y + h <= PageSize
  <1> USE AtlasAssumption
  <1>1. a \in [y: Nat, h: Nat, x: Nat, slots: SUBSET Slot]
    BY DEF Packed, Kept
  <1>2. CASE a.x + w > PageSize
    <2> DEFINE shelf == [y |-> a.y + a.h, h |-> 0, x |-> 0, slots |-> a.slots]
    <2>1. Shelf(a, w) = shelf
      BY <1>2 DEF Shelf
    <2>2. /\ shelf \in [y: Nat, h: Nat, x: Nat, slots: SUBSET Slot]
          /\ shelf.y = a.y + a.h /\ shelf.h = 0 /\ shelf.x = 0 /\ shelf.slots = a.slots
      BY <1>1
    <2>3. Shelved(shelf)
      <3> SUFFICES ASSUME NEW s \in a.slots PROVE s.y + Height(s) <= a.y + a.h
        BY <2>2 DEF Shelved
      <3>1. s.y \in Nat /\ Height(s) \in Nat
        BY <1>1, SizeType DEF Slot, Height
      <3> QED
        BY <3>1, <1>1 DEF Packed, Shelved
    <2>4. Kept(shelf) /\ Separate(shelf)
      BY <2>2 DEF Packed, Kept, Separate
    <2>5. shelf.y + shelf.h <= PageSize
      BY <1>1, <2>2 DEF Packed
    <2>6. shelf.x + w <= PageSize /\ shelf.y + h <= PageSize
      BY <2>1, <2>2 DEF HasRoom
    <2> QED
      BY <2>1, <2>2, <2>3, <2>4, <2>5, <2>6 DEF Packed
  <1>3. CASE ~(a.x + w > PageSize)
    <2>1. Shelf(a, w) = a
      BY <1>3 DEF Shelf
    <2>2. a.x + w <= PageSize
      BY <1>1, <1>3
    <2> QED
      BY <2>1, <2>2 DEF HasRoom
  <1> QED
    BY <1>2, <1>3

\* Placing a bitmap on a shelf with room keeps the page packed, and what it takes is free.
LEMMA PlacePacked ==
    ASSUME NEW a, Packed(a), NEW w \in Nat, NEW h \in Nat,
           a.x + w <= PageSize, a.y + h <= PageSize
    PROVE  LET placed == Place(a, w, h, a.slots) IN
           /\ Packed(placed) /\ placed.slots = a.slots
           /\ placed.y = a.y /\ placed.x = a.x + w /\ placed.h \in Nat /\ h <= placed.h
  <1> USE AtlasAssumption
  <1> DEFINE placed == Place(a, w, h, a.slots)
  <1>1. a \in [y: Nat, h: Nat, x: Nat, slots: SUBSET Slot]
    BY DEF Packed, Kept
  <1>2. /\ placed \in [y: Nat, h: Nat, x: Nat, slots: SUBSET Slot]
        /\ placed.y = a.y /\ placed.x = a.x + w /\ placed.slots = a.slots
        /\ placed.h = IF h > a.h THEN h ELSE a.h
    BY <1>1 DEF Place
  <1> HIDE DEF placed
  <1>3. a.h <= placed.h /\ h <= placed.h /\ placed.y + placed.h <= PageSize
    BY <1>1, <1>2 DEF Packed
  <1>4. Shelved(placed)
    <2> SUFFICES ASSUME NEW s \in a.slots
                 PROVE  \/ s.y + Height(s) <= a.y
                        \/ (s.y = a.y /\ Height(s) <= placed.h /\ s.x + Width(s) <= a.x + w)
      BY <1>2 DEF Shelved
    <2>1. s.x \in Nat /\ s.y \in Nat /\ Height(s) \in Nat /\ Width(s) \in Nat
      BY <1>1, SizeType DEF Slot, Height, Width
    <2>2. \/ s.y + Height(s) <= a.y
          \/ (s.y = a.y /\ Height(s) <= a.h /\ s.x + Width(s) <= a.x)
      BY DEF Packed, Shelved
    <2> QED
      BY <1>1, <1>2, <1>3, <2>1, <2>2
  <1>5. Kept(placed) /\ Separate(placed)
    BY <1>2 DEF Packed, Kept, Separate
  <1>6. Packed(placed)
    BY <1>3, <1>4, <1>5 DEF Packed
  <1> QED
    BY <1>2, <1>3, <1>6 DEF placed

\* The slot of what was placed is apart from those that were there.
LEMMA RegisterPacked ==
    ASSUME NEW shelf, Packed(shelf), NEW glyph \in Glyphs, glyph \notin Registered(shelf),
           shelf.x + Size[glyph].w <= PageSize, shelf.y + Size[glyph].h <= PageSize
    PROVE  Packed(Place(shelf, Size[glyph].w, Size[glyph].h,
                        shelf.slots \cup {SlotAt(shelf, glyph)}))
  <1> USE AtlasAssumption
  <1> DEFINE w == Size[glyph].w
             h == Size[glyph].h
             placed == Place(shelf, w, h, shelf.slots)
             new == SlotAt(shelf, glyph)
             result == Place(shelf, w, h, shelf.slots \cup {new})
  <1>0. w \in Nat /\ h \in Nat
    BY SizeType
  <1>1. shelf \in [y: Nat, h: Nat, x: Nat, slots: SUBSET Slot]
    BY DEF Packed, Kept
  <1>2. /\ Packed(placed) /\ placed.slots = shelf.slots
        /\ placed.y = shelf.y /\ placed.x = shelf.x + w
        /\ placed.h \in Nat /\ h <= placed.h
    BY <1>0, PlacePacked
  <1>3. /\ new \in Slot /\ new.glyph = glyph /\ new.x = shelf.x /\ new.y = shelf.y
        /\ Width(new) = w /\ Height(new) = h
    BY <1>1 DEF Slot, SlotAt, Width, Height
  <1>4. /\ result.y = shelf.y /\ result.h = placed.h /\ result.x = shelf.x + w
        /\ result.slots = shelf.slots \cup {new}
        /\ result = [y |-> result.y, h |-> result.h, x |-> result.x, slots |-> result.slots]
    BY DEF Place
  <1> HIDE DEF placed, new, result, w, h
  <1>5. result \in [y: Nat, h: Nat, x: Nat, slots: SUBSET Slot]
    <2>1. result.y \in Nat /\ result.h \in Nat /\ result.x \in Nat
      BY <1>0, <1>1, <1>2, <1>4
    <2>2. result.slots \in SUBSET Slot
      BY <1>1, <1>3, <1>4
    <2> QED
      BY <1>4, <2>1, <2>2
  <1>6. Kept(result)
    <2>1. new.x + Width(new) <= PageSize
      BY <1>3 DEF w
    <2>2. \A s \in shelf.slots : s.x + Width(s) <= PageSize
      BY DEF Packed, Kept
    <2> QED
      BY <1>4, <1>5, <2>1, <2>2 DEF Kept
  <1>7. Shelved(result)
    <2>1. \A s \in shelf.slots :
             \/ s.y + Height(s) <= shelf.y
             \/ (s.y = shelf.y /\ Height(s) <= placed.h /\ s.x + Width(s) <= shelf.x + w)
      BY <1>2 DEF Packed, Shelved
    <2>2. new.y = shelf.y /\ Height(new) <= placed.h /\ new.x + Width(new) <= shelf.x + w
      BY <1>0, <1>1, <1>2, <1>3
    <2> QED
      BY <1>4, <2>1, <2>2 DEF Shelved
  <1>8. \A s \in shelf.slots : s.glyph # glyph
    BY DEF Registered
  <1>9. \A s \in shelf.slots : Apart(s, new) /\ Apart(new, s)
    <2> SUFFICES ASSUME NEW s \in shelf.slots PROVE Apart(s, new) /\ Apart(new, s)
      OBVIOUS
    <2>1. \/ s.y + Height(s) <= shelf.y
          \/ s.x + Width(s) <= shelf.x
      BY DEF Packed, Shelved
    <2> QED
      BY <1>3, <2>1 DEF Apart
  <1>10. Separate(result)
    <2>1. \A s, t \in shelf.slots : s # t => s.glyph # t.glyph /\ Apart(s, t)
      BY DEF Packed, Separate
    <2> QED
      BY <1>3, <1>4, <1>8, <1>9, <2>1 DEF Separate
  <1>11. result.y + result.h <= PageSize
    BY <1>2, <1>4 DEF Packed
  <1>12. Packed(result)
    BY <1>6, <1>7, <1>10, <1>11 DEF Packed
  <1> QED
    BY <1>12 DEF result, new, w, h

\* Ensuring a glyph keeps an atlas packed, whether it is new, finds room, or fails.
LEMMA EnsurePacked ==
    ASSUME NEW a, Packed(a), NEW glyph \in Glyphs, NEW outcome \in Outcome
    PROVE  Packed(Ensure(a, glyph, outcome))
  <1> DEFINE w == Size[glyph].w
             h == Size[glyph].h
             shelf == Shelf(a, w)
             refused == glyph \in Registered(a) \/ outcome = "no raster" \/ ~HasRoom(a, w, h)
  <1>0. w \in Nat /\ h \in Nat
    BY SizeType
  <1>1. CASE refused
    BY <1>1 DEF Ensure
  <1>2. CASE ~refused
    <2>1. /\ Packed(shelf) /\ shelf.slots = a.slots
          /\ shelf.x + w <= PageSize /\ shelf.y + h <= PageSize
      BY <1>0, <1>2, ShelfPacked
    <2>2. glyph \notin Registered(shelf)
      BY <1>2, <2>1 DEF Registered
    <2>3. Packed(Place(shelf, w, h, a.slots))
      BY <1>0, <2>1, PlacePacked
    <2>4. Packed(Place(shelf, w, h, a.slots \cup {SlotAt(shelf, glyph)}))
      BY <2>1, <2>2, RegisterPacked
    <2> QED
      BY <1>2, <2>3, <2>4 DEF Ensure
  <1> QED
    BY <1>1, <1>2

\* A packed atlas has its slots on the page and apart.
LEMMA PackedIsPacked == Packed(atlas) => AtlasIsPacked
  <1> SUFFICES ASSUME Packed(atlas), NEW s \in atlas.slots
               PROVE  s.y + Height(s) <= PageSize
    BY DEF Packed, Kept, Separate, AtlasIsPacked
  <1>1. /\ atlas.y \in Nat /\ atlas.h \in Nat /\ s.y \in Nat /\ Height(s) \in Nat
        /\ PageSize \in Nat
    BY AtlasAssumption, SizeType DEF Packed, Kept, Slot, Height
  <1>2. s.y + Height(s) <= atlas.y \/ (s.y = atlas.y /\ Height(s) <= atlas.h)
    BY DEF Packed, Shelved
  <1> QED
    BY <1>1, <1>2 DEF Packed

\* Whatever glyphs are asked for, and whichever of them fail, every slot stays on the page
\* and no two of them overlap.
THEOREM SlotsStayApart == AtlasSpec => []AtlasIsPacked
  <1>1. AtlasInit => Packed(atlas)
    BY AtlasAssumption
    DEF AtlasInit, EmptyPage, Packed, Kept, Shelved, Separate, Slot
  <1>2. Packed(atlas) /\ [AtlasNext]_atlas => Packed(atlas)'
    <2> SUFFICES ASSUME Packed(atlas), [AtlasNext]_atlas PROVE Packed(atlas)'
      OBVIOUS
    <2>1. CASE AtlasNext
      <3>1. PICK glyph \in Glyphs, outcome \in Outcome : atlas' = Ensure(atlas, glyph, outcome)
        BY <2>1 DEF AtlasNext
      <3>2. Packed(Ensure(atlas, glyph, outcome))
        BY EnsurePacked
      <3> QED
        BY <3>1, <3>2 DEF Packed, Kept, Shelved, Separate
    <2>2. CASE UNCHANGED atlas
      BY <2>2 DEF Packed, Kept, Shelved, Separate
    <2> QED
      BY <2>1, <2>2
  <1>3. Packed(atlas) => AtlasIsPacked
    BY PackedIsPacked
  <1> QED
    BY <1>1, <1>2, <1>3, PTL DEF AtlasSpec

--------------------------------------------------------------------------------
\* Rows

Packings == {a \in [y: Nat, h: Nat, x: Nat, slots: SUBSET Slot] : Packed(a)}

LEMMA PackedIsPacking == ASSUME NEW a PROVE Packed(a) <=> a \in Packings
  BY DEF Packings, Packed, Kept

\* A cell of what is asked, before the atlas is.
Cell == Glyphs \cup {Blank, Spacer}

LEMMA GridFacts ==
    /\ Rows \in Nat /\ Rows > 0 /\ Cols \in Nat /\ Cols > 0
    /\ Row \subseteq Nat /\ Column \subseteq Nat /\ 0 \in Column /\ Cols - 1 \in Column
  BY GridAssumption DEF Row, Column

LEMMA EnsuredPacked ==
    ASSUME NEW a \in Packings, NEW picture, picture.cells \in [Column -> Cell],
           NEW outcomes \in [Glyphs -> Outcome]
    PROVE  Ensured(a, picture, outcomes) \in Packings
  <1> DEFINE G(d, x) == IF picture.cells[x - 1] \in {Blank, Spacer} THEN d
                        ELSE Ensure(d, picture.cells[x - 1], outcomes[picture.cells[x - 1]])
             Is(f) == f = [x \in 0..Cols |-> IF x = 0 THEN a ELSE G(f[x - 1], x)]
             next == [x \in 1..Cols |-> [d \in Packings |-> G(d, x)]]
  <1>1. Cols \in Nat
    BY GridFacts
  <1>2. ASSUME NEW x \in 1..Cols, NEW d \in Packings PROVE G(d, x) \in Packings
    <2>1. picture.cells[x - 1] \in Cell
      BY GridAssumption DEF Column
    <2>2. CASE picture.cells[x - 1] \in Glyphs
      <3>1. Packed(d) /\ outcomes[picture.cells[x - 1]] \in Outcome
        BY <2>2, PackedIsPacking
      <3> QED
        BY <2>2, <3>1, EnsurePacked, PackedIsPacking
    <2> QED
      BY <2>1, <2>2 DEF Cell
  <1> HIDE DEF G
  <1>3. next \in [1..Cols -> [Packings -> Packings]]
    BY <1>2
  <1>4. PICK f \in [0..Cols -> Packings] :
          f[0] = a /\ \A x \in 1..Cols : f[x] = next[x][f[x - 1]]
    <2> HIDE DEF next
    <2> QED
      BY ONLY <1>1, <1>3, a \in Packings, Recursion, SMTT(30)
  <1>5. ASSUME NEW x \in 1..Cols PROVE f[x] = G(f[x - 1], x)
    <2>1. f[x - 1] \in Packings /\ f[x] = next[x][f[x - 1]]
      BY <1>1, <1>4
    <2> QED
      BY <2>1
  <1>6. Is(f)
    BY <1>1, <1>4, <1>5
  <1> DEFINE chosen == CHOOSE h : Is(h)
  <1>7. Ensured(a, picture, outcomes) = chosen[Cols]
    BY DEF Ensured, G
  <1>8. Is(chosen)
    <2> HIDE DEF Is
    <2> QED
      BY <1>6
  <1>9. chosen[0] = a /\ \A x \in 1..Cols : chosen[x] = G(chosen[x - 1], x)
    <2> HIDE DEF chosen
    <2> QED
      BY <1>1, <1>8
  <1> DEFINE Good == {x \in 0..Cols : chosen[x] \in Packings}
  <1> HIDE DEF chosen
  <1>10. \A x \in 0..Cols : x \in Good
    <2>1. 0 \in Good /\ \A x \in 1..Cols : x - 1 \in Good => x \in Good
      BY <1>1, <1>2, <1>9
    <2> HIDE DEF Good
    <2> QED
      BY <1>1, <2>1, Induction
  <1> QED
    BY <1>1, <1>7, <1>10

LEMMA RefreshedPacked ==
    ASSUME NEW a \in Packings, NEW pictures,
           \A r \in DOMAIN pictures : pictures[r].cells \in [Column -> Cell],
           NEW outcomes \in [Glyphs -> Outcome]
    PROVE  RefreshedAtlas(pictures, a, outcomes) \in Packings
  <1> DEFINE G(d, r) == IF r - 1 \notin DOMAIN pictures THEN d
                        ELSE Ensured(d, pictures[r - 1], outcomes)
             Is(f) == f = [r \in 0..Rows |-> IF r = 0 THEN a ELSE G(f[r - 1], r)]
             next == [r \in 1..Rows |-> [d \in Packings |-> G(d, r)]]
  <1>1. Rows \in Nat
    BY GridFacts
  <1>2. ASSUME NEW r \in 1..Rows, NEW d \in Packings PROVE G(d, r) \in Packings
    BY EnsuredPacked
  <1> HIDE DEF G
  <1>3. next \in [1..Rows -> [Packings -> Packings]]
    BY <1>2
  <1>4. PICK f \in [0..Rows -> Packings] :
          f[0] = a /\ \A r \in 1..Rows : f[r] = next[r][f[r - 1]]
    <2> HIDE DEF next
    <2> QED
      BY ONLY <1>1, <1>3, a \in Packings, Recursion, SMTT(30)
  <1>5. ASSUME NEW r \in 1..Rows PROVE f[r] = G(f[r - 1], r)
    <2>1. f[r - 1] \in Packings /\ f[r] = next[r][f[r - 1]]
      BY <1>1, <1>4
    <2> QED
      BY <2>1
  <1>6. Is(f)
    BY <1>1, <1>4, <1>5
  <1> DEFINE chosen == CHOOSE h : Is(h)
  <1>7. RefreshedAtlas(pictures, a, outcomes) = chosen[Rows]
    BY DEF RefreshedAtlas, G
  <1>8. Is(chosen)
    <2> HIDE DEF Is
    <2> QED
      BY <1>6
  <1>9. chosen[0] = a /\ \A r \in 1..Rows : chosen[r] = G(chosen[r - 1], r)
    <2> HIDE DEF chosen
    <2> QED
      BY <1>1, <1>8
  <1> DEFINE Good == {r \in 0..Rows : chosen[r] \in Packings}
  <1> HIDE DEF chosen
  <1>10. \A r \in 0..Rows : r \in Good
    <2>1. 0 \in Good /\ \A r \in 1..Rows : r - 1 \in Good => r \in Good
      BY <1>1, <1>2, <1>9
    <2> HIDE DEF Good
    <2> QED
      BY <1>1, <2>1, Induction
  <1> QED
    BY <1>1, <1>7, <1>10

\* Where a composition is, on its way over the cells.
Placings == [cells: [Column -> Cell], col: Nat, caret: Column \cup {None}]

\* A composition puts characters into cells of the row, and its caret into one.
LEMMA ComposedTyped ==
    ASSUME NEW cells \in [Column -> Cell], NEW composition \in Compositions, NEW start \in Column
    PROVE  /\ Composed(cells, composition, start).cells \in [Column -> Cell]
           /\ Composed(cells, composition, start).caret \in Column
  <1> DEFINE text == composition.text
  <1>0. PICK n \in Nat : n = Len(text)
    BY SurfaceAssumption
  <1> DEFINE first == [cells |-> cells, col |-> start, caret |-> None]
             Spills(held, character) == Wide(character) /\ held.col + 1 < Cols
             G(held, i) ==
                IF held.col >= Cols THEN held
                ELSE [cells |-> [x \in Column |->
                                    IF x = held.col THEN text[i]
                                    ELSE IF Spills(held, text[i]) /\ x = held.col + 1 THEN Spacer
                                    ELSE held.cells[x]],
                      col |-> held.col + (IF Spills(held, text[i]) THEN 2 ELSE 1),
                      caret |-> IF i - 1 = composition.caret THEN held.col ELSE held.caret]
             Is(f) == f = [i \in 0..n |-> IF i = 0 THEN first ELSE G(f[i - 1], i)]
             next == [i \in 1..n |-> [held \in Placings |-> G(held, i)]]
  <1>1. \A i \in 1..n : text[i] \in Glyphs
    BY <1>0, SurfaceAssumption
  <1>2. ASSUME NEW i \in 1..n, NEW held \in Placings PROVE G(held, i) \in Placings
    <2> USE DEF Placings
    <2>1. CASE held.col >= Cols
      BY <2>1
    <2>2. CASE ~(held.col >= Cols)
      <3>1. held.col \in Column
        BY <2>2, GridAssumption DEF Column
      <3>2. text[i] \in Cell /\ Spacer \in Cell
        BY <1>1 DEF Cell
      <3>3. [x \in Column |->
                IF x = held.col THEN text[i]
                ELSE IF Spills(held, text[i]) /\ x = held.col + 1 THEN Spacer
                ELSE held.cells[x]] \in [Column -> Cell]
        BY <3>2
      <3> HIDE DEF Spills
      <3> QED
        BY <2>2, <3>1, <3>3
    <2> QED
      BY <2>1, <2>2
  <1>3. first \in Placings
    BY GridFacts DEF Placings
  <1> HIDE DEF G, first
  <1>4. next \in [1..n -> [Placings -> Placings]]
    BY <1>2
  <1>5. PICK f \in [0..n -> Placings] : f[0] = first /\ \A i \in 1..n : f[i] = next[i][f[i - 1]]
    <2> HIDE DEF next
    <2> QED
      BY n \in Nat, <1>3, <1>4, Recursion
  <1>6. ASSUME NEW i \in 1..n PROVE f[i] = G(f[i - 1], i)
    <2>1. f[i - 1] \in Placings /\ f[i] = next[i][f[i - 1]]
      <3> HIDE DEF next
      <3> QED
        BY <1>0, <1>5
    <2> QED
      BY <2>1
  <1>7. Is(f)
    BY <1>0, <1>5, <1>6
  <1> DEFINE chosen == CHOOSE h : Is(h)
             last == chosen[n]
  <1>8. Composed(cells, composition, start)
            = [cells |-> last.cells,
               caret |-> IF last.caret # None THEN last.caret
                         ELSE IF last.col < Cols THEN last.col ELSE Cols - 1]
    BY <1>0 DEF Composed, G, first
  <1>9. Is(chosen)
    <2> HIDE DEF Is
    <2> QED
      BY <1>7
  <1>10. chosen[0] = first /\ \A i \in 1..n : chosen[i] = G(chosen[i - 1], i)
    <2> HIDE DEF chosen
    <2> QED
      BY n \in Nat, <1>9
  <1> DEFINE Good == {i \in 0..n : chosen[i] \in Placings}
  <1> HIDE DEF chosen
  <1>11. \A i \in 0..n : i \in Good
    <2>1. 0 \in Good /\ \A i \in 1..n : i - 1 \in Good => i \in Good
      BY <1>0, <1>2, <1>3, <1>10
    <2> HIDE DEF Good
    <2> QED
      BY <1>0, <2>1, Induction
  <1>12. last \in Placings
    BY <1>0, <1>11
  <1>13. last.cells \in [Column -> Cell] /\ last.col \in Nat /\ last.caret \in Column \cup {None}
    BY <1>12 DEF Placings
  <1> HIDE DEF last
  <1> QED
    BY <1>8, <1>13, GridAssumption DEF Column

Looks == [col: Column, look: DOMAIN ShapeBits \cup {"hollow"}]

LEMMA CursorTyped ==
    ASSUME NEW cursor \in Cursors
    PROVE  cursor.col \in Column /\ cursor.shape \in DOMAIN ShapeBits /\ cursor.blinking \in BOOLEAN
  BY SurfaceAssumption DEF Cursors

LEMMA PictureTyped ==
    ASSUME NEW p, p.palette \in [base: Bases, over: Overs], p.dim \in Dims, NEW asked \in Asks
    PROVE  /\ Picture(p, asked) \in RowPicture
           /\ Picture(p, asked).cells \in [Column -> Cell]
  <1> DEFINE line == [x \in Column |-> IF x = 0 THEN asked.line ELSE Blank]
             over == IF asked.composition = None THEN [cells |-> line, caret |-> None]
                     ELSE Composed(line, asked.composition, asked.cursor.col)
             selected == IF asked.selection = None THEN {}
                         ELSE Column \cap (asked.selection[1]..asked.selection[2])
             cursor == IF asked.composition # None THEN [col |-> over.caret, look |-> "bar"]
                       ELSE IF ~asked.shown \/ asked.cursor.col \notin Column THEN None
                       ELSE [col |-> asked.cursor.col,
                             look |-> IF asked.focused THEN asked.cursor.shape ELSE "hollow"]
             covered == IF cursor # None /\ cursor.look = "block" THEN selected \ {cursor.col}
                        ELSE selected
  <1>1. asked.cursor.col \in Column /\ asked.cursor.shape \in DOMAIN ShapeBits
    BY CursorTyped DEF Asks
  <1>2. line \in [Column -> Cell]
    BY SurfaceAssumption DEF Cell, Asks
  <1>3. over.cells \in [Column -> Cell] /\ (asked.composition # None => over.caret \in Column)
    <2> HIDE DEF line
    <2>1. CASE asked.composition = None
      BY <1>2, <2>1
    <2>2. CASE asked.composition # None
      BY <1>1, <1>2, <2>2, ComposedTyped DEF Asks
    <2> QED
      BY <2>1, <2>2
  <1> HIDE DEF over
  <1>4. cursor \in Looks \cup {None}
    BY <1>1, <1>3 DEF Looks, ShapeBits
  <1>5. covered \in SUBSET Column
    OBVIOUS
  <1>6. Picture(p, asked) = [cells |-> over.cells, cursor |-> cursor, selected |-> covered,
                             palette |-> p.palette, dim |-> p.dim]
    BY DEF Picture, over
  <1> HIDE DEF cursor, covered
  <1> QED
    BY <1>3, <1>4, <1>5, <1>6 DEF RowPicture, Looks, Cell

\* What is kept of a character whose glyph is there, or would be if it had a slot.
LEMMA BuiltTyped ==
    ASSUME NEW a, NEW picture \in RowPicture
    PROVE  Built(a, picture) \in RowPicture
  BY DEF Built, RowPicture

\* A row that is built shows what was asked of it, but for characters without a glyph.
LEMMA BuiltShows ==
    ASSUME NEW a, NEW picture \in RowPicture, picture.cells \in [Column -> Cell], NEW lacking,
           \A x \in Column : picture.cells[x] \notin {Blank, Spacer} \cup Registered(a)
                                => picture.cells[x] \in lacking
    PROVE  Shows(Built(a, picture), picture, lacking)
  <1> DEFINE Lacks(x) == picture.cells[x] \notin Registered(a) \cup {Blank, Spacer}
             cells == [x \in Column |-> IF Lacks(x) THEN Missing
                                       ELSE IF picture.cells[x] = Spacer /\ x > 0 /\ Lacks(x - 1)
                                            THEN Blank
                                       ELSE picture.cells[x]]
  <1>1. Built(a, picture) = [cells |-> cells, cursor |-> picture.cursor,
                             selected |-> picture.selected, palette |-> picture.palette,
                             dim |-> picture.dim]
    BY DEF Built, RowPicture
  <1>2. ASSUME NEW x \in Column
        PROVE  \/ cells[x] = picture.cells[x]
               \/ picture.cells[x] \in lacking
               \/ picture.cells[x] = Spacer /\ picture.cells[x - 1] \in lacking
    <2>1. x > 0 => x - 1 \in Column
      BY GridAssumption DEF Column
    <2> QED
      BY <2>1
  <1> HIDE DEF cells
  <1>3. Built(a, picture) # None
    BY BuiltTyped, SurfaceNoneAssumption
  <1>4. [Built(a, picture) EXCEPT !.cells = picture.cells] = picture
    BY <1>1 DEF RowPicture
  <1> QED
    BY <1>1, <1>2, <1>3, <1>4 DEF Shows

--------------------------------------------------------------------------------
\* Types

LEMMA LineFacts ==
    /\ Line \subseteq Int /\ Row \subseteq Line /\ Row \subseteq Int /\ 0 \in Row
    /\ \A l \in Line : l # Rows - 1 => l + 1 \in Line
  BY GridAssumption, SurfaceAssumption DEF Line, Row

\* What the engine does to a selection as lines go.
LEMMA MovedSelection ==
    ASSUME NEW held \in Selections, held.anchor = None <=> held.head = None,
           NEW history \in 0..MaxHistory
    PROVE  /\ Within(held, history) \in Selections
           /\ Within(held, history).anchor = None <=> Within(held, history).head = None
           /\ Within(Up(held), history) \in Selections
           /\ Within(Up(held), history).anchor = None <=> Within(Up(held), history).head = None
  <1>1. None \in Ids
    BY DEF Ids
  <1>2. held = [id |-> held.id, kind |-> held.kind, open |-> held.open, sequence |-> held.sequence,
                anchor |-> held.anchor, head |-> held.head, mover |-> held.mover]
    BY DEF Selections
  <1>3. ASSUME NEW h, h.anchor = None <=> h.head = None,
               h = [id |-> held.id, kind |-> held.kind, open |-> held.open,
                    sequence |-> held.sequence, anchor |-> h.anchor, head |-> h.head,
                    mover |-> held.mover],
               h.anchor # None => /\ h.anchor[1] >= -history => h.anchor \in Point
                                  /\ h.head[1] >= -history => h.head \in Point
                                  /\ h.anchor[1] \in Int /\ h.head[1] \in Int
        PROVE  Within(h, history) \in Selections
                /\ (Within(h, history).anchor = None <=> Within(h, history).head = None)
    <2>1. CASE h.anchor # None /\ (h.anchor[1] < -history \/ h.head[1] < -history)
      <3>0. Within(h, history) = [h EXCEPT !.anchor = None, !.head = None, !.mover = None]
        BY <2>1 DEF Within
      <3>1. Within(h, history) = [id |-> held.id, kind |-> held.kind, open |-> held.open,
                                  sequence |-> held.sequence, anchor |-> None, head |-> None,
                                  mover |-> None]
        <4> DEFINE a == h.anchor
                   b == h.head
        <4>1. h = [id |-> held.id, kind |-> held.kind, open |-> held.open,
                   sequence |-> held.sequence, anchor |-> a, head |-> b, mover |-> held.mover]
          BY <1>3
        <4> HIDE DEF a, b
        <4> QED
          BY ONLY <3>0, <4>1
      <3>2. /\ held.id \in Ids /\ held.kind \in Kinds /\ held.open \in BOOLEAN
            /\ held.sequence \in Nat
        BY DEF Selections
      <3>3. [id |-> held.id, kind |-> held.kind, open |-> held.open, sequence |-> held.sequence,
             anchor |-> None, head |-> None, mover |-> None] \in Selections
        BY <1>1, <3>2 DEF Selections
      <3> QED
        BY <3>1, <3>3
    <2>2. CASE ~(h.anchor # None /\ (h.anchor[1] < -history \/ h.head[1] < -history))
      <3>1. Within(h, history) = h
        BY <2>2 DEF Within
      <3>2. h.anchor \in Point \cup {None} /\ h.head \in Point \cup {None}
        BY <1>3, <2>2
      <3> QED
        BY <1>3, <3>1, <3>2 DEF Selections
    <2> QED
      BY <2>1, <2>2
  <1>4. held.anchor # None => held.anchor \in Point /\ held.head \in Point
    BY DEF Selections
  <1>5. \A point \in Point : point[1] \in Line /\ point[2] \in Column /\ point[1] \in Int
    BY LineFacts DEF Point
  <1>6. Within(held, history) \in Selections
          /\ (Within(held, history).anchor = None <=> Within(held, history).head = None)
    BY <1>2, <1>3, <1>4, <1>5
  <1>7. CASE held.anchor = None
    BY <1>6, <1>7 DEF Up
  <1>8. CASE held.anchor # None
    <2> DEFINE anchor == <<held.anchor[1] - 1, held.anchor[2]>>
               head == <<held.head[1] - 1, held.head[2]>>
    <2>1. Up(held) = [id |-> held.id, kind |-> held.kind, open |-> held.open,
                      sequence |-> held.sequence, anchor |-> anchor, head |-> head,
                      mover |-> held.mover]
      BY <1>2, <1>8 DEF Up
    <2>2. ASSUME NEW point \in Point, point[1] - 1 >= -history
          PROVE  <<point[1] - 1, point[2]>> \in Point
      <3>1. point[1] - 1 \in Line
        BY <1>5, <2>2, GridAssumption, SurfaceAssumption DEF Line
      <3> QED
        BY <1>5, <3>1 DEF Point
    <2>3. anchor[1] = held.anchor[1] - 1 /\ head[1] = held.head[1] - 1
      OBVIOUS
    <2>4. anchor # None /\ head # None
      BY <1>4, <1>5, <1>8, SurfaceNoneAssumption
    <2>5. /\ anchor[1] >= -history => anchor \in Point
          /\ head[1] >= -history => head \in Point
          /\ anchor[1] \in Int /\ head[1] \in Int
      BY <1>4, <1>5, <1>8, <2>2, <2>3
    <2> HIDE DEF anchor, head
    <2>6. Up(held).anchor = anchor /\ Up(held).head = head
      BY <2>1
    <2>7. Up(held) = [id |-> held.id, kind |-> held.kind, open |-> held.open,
                      sequence |-> held.sequence, anchor |-> Up(held).anchor,
                      head |-> Up(held).head, mover |-> held.mover]
      BY <2>1, <2>6
    <2>8. /\ Up(held).anchor = None <=> Up(held).head = None
          /\ Up(held).anchor # None =>
                /\ Up(held).anchor[1] >= -history => Up(held).anchor \in Point
                /\ Up(held).head[1] >= -history => Up(held).head \in Point
                /\ Up(held).anchor[1] \in Int /\ Up(held).head[1] \in Int
      BY <2>4, <2>5, <2>6
    <2> QED
      BY <1>6, <1>3, <2>7, <2>8
  <1> QED
    BY <1>6, <1>7, <1>8

LEMMA EventTyped == ASSUME TypeOK, Event PROVE events' \in 0..MaxEvents
  BY SurfaceAssumption DEF TypeOK, Event

LEMMA OutputTyped ==
    ASSUME TypeOK, Output
    PROVE  /\ mirror' \in Mirrors /\ shrunk' \in BOOLEAN /\ events' \in 0..MaxEvents
           /\ selection' \in Selections /\ (selection'.anchor = None <=> selection'.head = None)
           /\ UNCHANGED <<control, client, painting>>
  <1>1. /\ mirror \in Mirrors /\ selection \in Selections /\ shrunk \in BOOLEAN
        /\ selection.anchor = None <=> selection.head = None
    BY DEF TypeOK
  <1>2. ASSUME NEW next, Fed(next)
        PROVE  /\ events' \in 0..MaxEvents /\ mirror' = next
               /\ UNCHANGED <<control, client, painting>>
    BY <1>2, EventTyped DEF Fed
  <1>3. CASE Write
    <2>1. PICK row \in Row, character \in Written : Fed([mirror EXCEPT !.text[row] = character])
      BY <1>3 DEF Write
    <2>2. [mirror EXCEPT !.text[row] = character] \in Mirrors
      BY <1>1, LineFacts DEF Mirrors
    <2> QED
      BY <1>1, <1>2, <1>3, <2>1, <2>2 DEF Write
  <1>4. CASE MoveCursor
    <2>1. PICK spot \in Spots : Fed([mirror EXCEPT !.row = spot[1], !.col = spot[2]])
      BY <1>4 DEF MoveCursor
    <2>2. spot[1] \in Row /\ spot[2] \in Column
      BY SurfaceAssumption
    <2>3. [mirror EXCEPT !.row = spot[1], !.col = spot[2]] \in Mirrors
      BY <1>1, <2>2 DEF Mirrors
    <2> QED
      BY <1>1, <1>2, <1>4, <2>1, <2>3 DEF MoveCursor
  <1>5. CASE StyleCursor
    <2>1. PICK next \in Mirrors : Fed(next)
      <3>1. \A style \in Styles : [mirror EXCEPT !.style = style] \in Mirrors
        BY <1>1 DEF Mirrors
      <3>2. [mirror EXCEPT !.shown = ~@] \in Mirrors
        BY <1>1 DEF Mirrors
      <3> QED
        BY <1>5, <3>1, <3>2 DEF StyleCursor
    <2> QED
      BY <1>1, <1>2, <1>5, <2>1 DEF StyleCursor
  <1>6. CASE Recolour
    <2>1. PICK over \in Overs : Fed([mirror EXCEPT !.over = over])
      BY <1>6 DEF Recolour
    <2>2. [mirror EXCEPT !.over = over] \in Mirrors
      BY <1>1 DEF Mirrors
    <2> QED
      BY <1>1, <1>2, <1>6, <2>1, <2>2 DEF Recolour
  <1>7. CASE Linefeed
    <2> DEFINE history == IF mirror.history < MaxHistory THEN mirror.history + 1 ELSE MaxHistory
               text == [l \in Line |-> IF l = Rows - 1 \/ l < -history THEN Blank
                                     ELSE mirror.text[l + 1]]
               next == [mirror EXCEPT !.text = text, !.history = history]
    <2>1. Fed(next) /\ selection' = Within(Up(selection), history) /\ UNCHANGED shrunk
      BY <1>7 DEF Linefeed
    <2>2. history \in 0..MaxHistory
      BY <1>1, SurfaceAssumption DEF Mirrors
    <2>3. mirror.text \in [Line -> Written \cup {Blank}]
      BY <1>1 DEF Mirrors
    <2>4. text \in [Line -> Written \cup {Blank}]
      BY <2>3, LineFacts
    <2> HIDE DEF history, text
    <2>5. next \in Mirrors
      BY <1>1, <2>2, <2>4 DEF Mirrors
    <2> HIDE DEF next
    <2> QED
      BY <1>1, <1>2, <2>1, <2>2, <2>5, MovedSelection
  <1>8. CASE EraseHistory
    <2> DEFINE next == [mirror EXCEPT !.text = [l \in Line |-> IF l < 0 THEN Blank ELSE @[l]],
                                      !.history = 0]
    <2>1. Fed(next) /\ selection' = Within(selection, 0) /\ shrunk' = TRUE
      BY <1>8 DEF EraseHistory
    <2>2. 0 \in 0..MaxHistory
      BY SurfaceAssumption
    <2>3. next \in Mirrors
      BY <1>1, <2>2 DEF Mirrors
    <2> HIDE DEF next
    <2> QED
      BY <1>1, <1>2, <2>1, <2>2, <2>3, MovedSelection
  <1>9. CASE ReplaceMirror
    <2> DEFINE next == [mirror EXCEPT !.text = [l \in Line |-> Blank], !.history = 0,
                                      !.row = 0, !.col = 0, !.shown = TRUE, !.over = None]
    <2>1. Fed(next) /\ selection' = NoSelection /\ shrunk' = TRUE
      BY <1>9 DEF ReplaceMirror
    <2>2. 0 \in 0..MaxHistory /\ 0 \in Row /\ 0 \in Column /\ None \in Overs
      BY SurfaceAssumption, LineFacts, GridFacts
    <2>3. next \in Mirrors
      BY <1>1, <2>2 DEF Mirrors
    <2>4. NoSelection \in Selections /\ NoSelection.anchor = None /\ NoSelection.head = None
      BY DEF NoSelection, Selections, Ids, Kinds
    <2> HIDE DEF next
    <2> QED
      BY <1>1, <1>2, <2>1, <2>3, <2>4
  <1> QED
    BY <1>3, <1>4, <1>5, <1>6, <1>7, <1>8, <1>9 DEF Output

\* What a command thread carries from one lock to the next.
LEMMA Carried ==
    ASSUME NEW state \in ClientState
    PROVE  /\ state.at = "clamp" => state.history \in 0..MaxHistory
           /\ state.at = "select" => state.offset \in 0..MaxHistory
           /\ state.at = "store" => state.snapshot \in ShownSelection
  BY DEF ClientState, Idle

\* What a thread may carry.
LEMMA Carries ==
    /\ Idle \in ClientState
    /\ \A history \in 0..MaxHistory : [at |-> "clamp", history |-> history] \in ClientState
    /\ \A offset \in 0..MaxHistory : [at |-> "select", offset |-> offset] \in ClientState
    /\ \A shown \in ShownSelection : [at |-> "store", snapshot |-> shown] \in ClientState
  BY DEF ClientState

\* Each step of a command, by what it writes.
LEMMA ServedTyped ==
    ASSUME TypeOK, NEW c \in Clients, Served(c)
    PROVE  /\ client' \in [Clients -> ClientState] /\ control' \in Controls
           /\ selection' \in Selections /\ (selection'.anchor = None <=> selection'.head = None)
           /\ events' \in 0..MaxEvents
           /\ UNCHANGED <<mirror, shrunk, painting>>
  <1>1. /\ mirror \in Mirrors /\ selection \in Selections /\ control \in Controls
        /\ selection.anchor = None <=> selection.head = None
        /\ client \in [Clients -> ClientState] /\ client[c] \in ClientState
        /\ events \in 0..MaxEvents
    BY DEF TypeOK
  <1>2. ASSUME NEW next \in ClientState, NEW held \in Controls, Serve(c, next, held)
        PROVE  /\ client' \in [Clients -> ClientState] /\ control' \in Controls
               /\ UNCHANGED <<mirror, shrunk, painting>>
    BY <1>1, <1>2 DEF Serve
  <1>3. CASE ReadHistory(c)
    <2>1. mirror.history \in 0..MaxHistory
      BY <1>1 DEF Mirrors
    <2> QED
      BY <1>1, <1>2, <1>3, <2>1, Carries, EventTyped DEF ReadHistory
  <1>4. ASSUME NEW wanted \in -1..MaxHistory + 1, ScrollTo(c, wanted)
        PROVE  /\ client' \in [Clients -> ClientState] /\ control' \in Controls
               /\ UNCHANGED <<mirror, shrunk, painting, selection, events>>
    <2> DEFINE offset == IF wanted < 0 THEN 0
                         ELSE IF wanted > client[c].history THEN client[c].history
                         ELSE wanted
    <2>1. client[c].history \in 0..MaxHistory
      BY <1>1, <1>4, Carried DEF ScrollTo
    <2>2. offset \in 0..MaxHistory
      BY <2>1, SurfaceAssumption
    <2>3. Serve(c, Idle, [control EXCEPT !.offset = offset])
      BY <1>4 DEF ScrollTo
    <2> HIDE DEF offset
    <2>4. [control EXCEPT !.offset = offset] \in Controls
      BY <1>1, <2>2 DEF Controls
    <2> QED
      BY <1>2, <1>4, <2>3, <2>4, Carries DEF ScrollTo
  <1>5. CASE ReadOffset(c)
    <2>1. control.offset \in 0..MaxHistory
      BY <1>1 DEF Controls
    <2> QED
      BY <1>1, <1>2, <1>5, <2>1, Carries, EventTyped DEF ReadOffset
  <1>6. ASSUME NEW held \in Selections, held.anchor = None <=> held.head = None, Selected(c, held)
        PROVE  /\ client' \in [Clients -> ClientState] /\ control' \in Controls
               /\ selection' = held
               /\ UNCHANGED <<mirror, shrunk, painting, events>>
    <2>1. Snapshot(held) \in ShownSelection
      BY DEF Snapshot, Inactive, ShownSelection, Selections, Ids, Kinds
    <2> QED
      BY <1>1, <1>2, <1>6, <2>1, Carries DEF Selected
  <1>7. ASSUME NEW point \in Points, client[c].at = "select"
        PROVE  LineOf(c, point) \in Point
    <2>1. point[1] \in Row /\ point[2] \in Column
      BY SurfaceAssumption
    <2>2. client[c].offset \in 0..MaxHistory
      BY <1>1, <1>7, Carried
    <2>3. point[1] - client[c].offset \in Line
      BY <2>1, <2>2, GridAssumption, SurfaceAssumption DEF Line, Row
    <2> QED
      BY <2>1, <2>3 DEF LineOf, Point
  <1>8. ASSUME NEW stroke \in Strokes PROVE stroke.id \in Ids /\ stroke.kind \in Kinds
    BY DEF Ids, Kinds
  <1>9. None \notin Point /\ selection.sequence + 1 \in Nat
    BY <1>1, SurfaceNoneAssumption, LineFacts DEF Point, Selections
  <1>10. ASSUME NEW stroke \in Strokes, NEW point \in Points, Begin(c, stroke, point)
         PROVE  \E held \in Selections : (held.anchor = None <=> held.head = None) /\ Selected(c, held)
    <2> DEFINE held == [id |-> stroke.id, kind |-> stroke.kind, open |-> TRUE,
                        sequence |-> selection.sequence + 1, anchor |-> LineOf(c, point),
                        head |-> LineOf(c, point), mover |-> stroke.id]
    <2>1. Selected(c, held)
      BY <1>10 DEF Begin
    <2>2. LineOf(c, point) \in Point
      BY <1>7, <2>1 DEF Selected
    <2>3. held \in Selections /\ held.anchor # None /\ held.head # None
      BY <1>8, <1>9, <2>2 DEF Selections
    <2> QED
      BY <2>1, <2>3
  <1>11. ASSUME NEW stroke \in Strokes, NEW point \in Points, NEW last \in BOOLEAN,
                Update(c, stroke, point, last)
         PROVE  \E held \in Selections : (held.anchor = None <=> held.head = None) /\ Selected(c, held)
    <2> DEFINE held == [selection EXCEPT !.head = LineOf(c, point), !.mover = stroke.id,
                                         !.open = ~last, !.sequence = @ + 1]
    <2>1. Selected(c, held) /\ selection.anchor # None
      BY <1>11 DEF Update
    <2>2. LineOf(c, point) \in Point
      BY <1>7, <2>1 DEF Selected
    <2>3. held \in Selections
      BY <1>1, <1>8, <1>9, <2>2 DEF Selections
    <2>4. held.anchor # None /\ held.head # None
      BY <1>1, <1>9, <2>1, <2>2 DEF Selections
    <2> QED
      BY <2>1, <2>3, <2>4
  <1>12. CASE Clear(c)
    <2> DEFINE held == [NoSelection EXCEPT !.sequence = selection.sequence + 1]
    <2>1. held \in Selections /\ held.anchor = None /\ held.head = None
      BY <1>9 DEF NoSelection, Selections, Ids, Kinds
    <2>2. Selected(c, held)
      BY <1>12 DEF Clear
    <2> HIDE DEF held
    <2> QED
      BY <1>1, <1>6, <2>1, <2>2
  <1>13. CASE Read(c)
    BY <1>1, <1>6, <1>13 DEF Read
  <1>14. CASE Refuse(c)
    BY <1>1, <1>2, <1>14, Carries DEF Refuse
  <1>15. CASE StoreSnapshot(c)
    <2>1. client[c].snapshot \in ShownSelection
      BY <1>1, <1>15, Carried DEF StoreSnapshot
    <2>2. [control EXCEPT !.selection = client[c].snapshot] \in Controls
      BY <1>1, <2>1 DEF Controls
    <2> QED
      BY <1>1, <1>2, <1>15, <2>2, Carries DEF StoreSnapshot
  <1>16. CASE \E stroke \in Strokes, point \in Points :
                 \/ Begin(c, stroke, point)
                 \/ \E last \in BOOLEAN : Update(c, stroke, point, last)
    <2>1. PICK held \in Selections : (held.anchor = None <=> held.head = None) /\ Selected(c, held)
      BY <1>10, <1>11, <1>16
    <2> QED
      BY <1>1, <1>6, <2>1
  <1> QED
    BY <1>1, <1>3, <1>4, <1>5, <1>12, <1>13, <1>14, <1>15, <1>16 DEF Served

LEMMA CommandTyped ==
    ASSUME TypeOK, Command
    PROVE  /\ client' \in [Clients -> ClientState] /\ control' \in Controls
           /\ selection' \in Selections /\ (selection'.anchor = None <=> selection'.head = None)
           /\ events' \in 0..MaxEvents
           /\ UNCHANGED <<mirror, shrunk, painting>>
  <1>1. /\ selection \in Selections /\ control \in Controls
        /\ selection.anchor = None <=> selection.head = None
        /\ client \in [Clients -> ClientState]
    BY DEF TypeOK
  <1>2. CASE \E c \in Clients : Served(c)
    BY <1>2, ServedTyped
  <1>3. CASE Focus \/ Dim \/ Theme \/ Preedit
    <2>1. PICK next \in Controls : Set(next)
      <3>1. [control EXCEPT !.focused = ~@] \in Controls
        BY <1>1 DEF Controls
      <3>2. \A dim \in Dims : [control EXCEPT !.dim = dim] \in Controls
        BY <1>1 DEF Controls
      <3>3. \A base \in Bases : [control EXCEPT !.base = base] \in Controls
        BY <1>1 DEF Controls
      <3>4. \A composition \in Compositions \cup {None} :
               [control EXCEPT !.preedit = composition] \in Controls
        BY <1>1 DEF Controls
      <3> QED
        BY <1>3, <3>1, <3>2, <3>3, <3>4 DEF Focus, Dim, Theme, Preedit
    <2> QED
      BY <1>1, <2>1, EventTyped DEF Set
  <1> QED
    BY <1>2, <1>3 DEF Command

\* The columns of a line within the selection are columns of the grid.
LEMMA RangeTyped ==
    ASSUME TypeOK, NEW line \in Int
    PROVE  RangeOn(line) \in (Column \X Column) \cup {None}
  <1> DEFINE ends == {selection.anchor, selection.head}
             Before(s, t) == s[1] < t[1] \/ (s[1] = t[1] /\ s[2] <= t[2])
             IsFirst(s) == s \in ends /\ \A t \in ends : Before(s, t)
             IsLast(s) == s \in ends /\ \A t \in ends : Before(t, s)
             first == CHOOSE s \in ends : \A t \in ends : Before(s, t)
             last == CHOOSE s \in ends : \A t \in ends : Before(t, s)
  <1>1. CASE selection.anchor = None
    BY <1>1 DEF RangeOn
  <1>2. CASE selection.anchor # None
    <2>1. \A s \in ends : s[1] \in Int /\ s[2] \in Column /\ s[2] \in Int
      BY <1>2, LineFacts, GridFacts DEF TypeOK, Selections, Point
    <2>2. \E s : IsFirst(s)
      BY <2>1
    <2>3. \E s : IsLast(s)
      BY <2>1
    <2>4. first \in ends /\ last \in ends
      BY <2>2, <2>3
    <2>5. first[2] \in Column /\ last[2] \in Column
      <3> HIDE DEF first, last, ends
      <3> QED
        BY <2>1, <2>4
    <2>6. RangeOn(line)
            = IF line \notin first[1]..last[1] THEN None
              ELSE <<IF line = first[1] THEN first[2] ELSE 0,
                     IF line = last[1] THEN last[2] ELSE Cols - 1>>
      BY <1>2 DEF RangeOn
    <2> HIDE DEF first, last
    <2> QED
      BY <2>5, <2>6, GridFacts
  <1> QED
    BY <1>1, <1>2

LEMMA AskedTyped == ASSUME TypeOK, NEW on \in BOOLEAN PROVE Asked(on) \in [Row -> Asks]
  <1> SUFFICES ASSUME NEW row \in Row PROVE Asked(on)[row] \in Asks
    BY DEF Asked
  <1> DEFINE line == row - thread.offset
             here == thread.offset = 0 /\ mirror.row = row
             composed == here /\ thread.composition # None
  <1>1. mirror \in Mirrors /\ thread \in Threads /\ control \in Controls
    BY DEF TypeOK
  <1>2. line \in Int
    BY <1>1, LineFacts DEF Threads
  <1>3. (IF line \in Line THEN mirror.text[line] ELSE Blank) \in Written \cup {Blank}
    BY <1>1 DEF Mirrors
  <1>4. (IF composed THEN thread.composition ELSE None) \in Compositions \cup {None}
    BY <1>1 DEF Threads
  <1>5. RangeOn(line) \in (Column \X Column) \cup {None}
    BY <1>2, RangeTyped
  <1>6. [col |-> mirror.col, shape |-> mirror.style.shape, blinking |-> mirror.style.blinking]
          \in Cursors
    BY <1>1 DEF Mirrors, Cursors
  <1>7. (here /\ mirror.shown /\ on /\ ~composed) \in BOOLEAN /\ control.focused \in BOOLEAN
    BY <1>1 DEF Controls
  <1>8. Asked(on)[row] =
          [line |-> IF line \in Line THEN mirror.text[line] ELSE Blank,
           composition |-> IF composed THEN thread.composition ELSE None,
           selection |-> RangeOn(line),
           cursor |-> [col |-> mirror.col, shape |-> mirror.style.shape,
                       blinking |-> mirror.style.blinking],
           shown |-> here /\ mirror.shown /\ on /\ ~composed,
           focused |-> control.focused]
    BY DEF Asked
  <1> HIDE DEF line, here, composed
  <1> QED
    BY <1>3, <1>4, <1>5, <1>6, <1>7, <1>8 DEF Asks

\* The pictures of the rows that a refresh builds, and what they need.
LEMMA PicturesTyped ==
    ASSUME NEW p, p.palette \in [base: Bases, over: Overs], p.dim \in Dims,
           NEW asked \in [Row -> Asks], NEW hashes
    PROVE  LET pictures == Pictures(p, asked, hashes) IN
           /\ DOMAIN pictures = Stale(p, hashes)
           /\ \A r \in DOMAIN pictures : /\ pictures[r] = Picture(p, asked[r])
                                         /\ pictures[r] \in RowPicture
                                         /\ pictures[r].cells \in [Column -> Cell]
           /\ Wanted(pictures) \subseteq Glyphs
  <1> DEFINE pictures == Pictures(p, asked, hashes)
  <1>1. Stale(p, hashes) \subseteq Row
    BY DEF Stale
  <1>2. DOMAIN pictures = Stale(p, hashes)
          /\ \A r \in DOMAIN pictures : pictures[r] = Picture(p, asked[r])
    BY DEF Pictures
  <1> HIDE DEF pictures
  <1>3. \A r \in DOMAIN pictures : pictures[r] \in RowPicture /\ pictures[r].cells \in [Column -> Cell]
    BY <1>1, <1>2, PictureTyped
  <1>4. Wanted(pictures) \subseteq Glyphs
    BY <1>3 DEF Wanted, Cell
  <1> QED
    BY <1>2, <1>3, <1>4 DEF pictures

\* A refresh by what it asks of the rows and what rastering does.
LEMMA Refreshes ==
    ASSUME TypeOK, Refresh
    PROVE  \E asked \in [Row -> Asks], outcomes \in [Glyphs -> Outcome] :
              LET resolved == Resolve(painter, mirror.over)
                  hashes == Hashes(resolved, asked)
                  pictures == Pictures(resolved, asked, hashes)
                  packed == RefreshedAtlas(pictures, atlas, outcomes)
                  fresh == Refreshed(resolved, pictures, hashes, packed)
              IN  /\ atlas' = packed
                  /\ painter' = fresh
                  /\ unplaced' = unplaced \cup (Wanted(pictures) \ Registered(packed))
                  /\ (\E slot \in Slots : Paint(slot, fresh)) \/ PaintMissed
  <1> DEFINE resolved == Resolve(painter, mirror.over)
             H(asked) == Hashes(resolved, asked)
             P(asked) == Pictures(resolved, asked, H(asked))
             O(failed) == [glyph \in Glyphs |-> IF glyph \in failed THEN "no raster" ELSE "ok"]
             A(asked, outcomes) == RefreshedAtlas(P(asked), atlas, outcomes)
             F(asked, outcomes) == Refreshed(resolved, P(asked), H(asked), A(asked, outcomes))
  <1>1. PICK on \in Phases : \E failed :
           /\ atlas' = A(Asked(on), O(failed))
           /\ painter' = F(Asked(on), O(failed))
           /\ unplaced' = unplaced
                            \cup (Wanted(P(Asked(on))) \ Registered(A(Asked(on), O(failed))))
           /\ (\E slot \in Slots : Paint(slot, F(Asked(on), O(failed)))) \/ PaintMissed
    BY DEF Refresh
  <1>2. on \in BOOLEAN
    BY DEF Phases
  <1>3. PICK failed :
           /\ atlas' = A(Asked(on), O(failed))
           /\ painter' = F(Asked(on), O(failed))
           /\ unplaced' = unplaced
                            \cup (Wanted(P(Asked(on))) \ Registered(A(Asked(on), O(failed))))
           /\ (\E slot \in Slots : Paint(slot, F(Asked(on), O(failed)))) \/ PaintMissed
    BY <1>1
  <1>4. Asked(on) \in [Row -> Asks]
    BY <1>2, AskedTyped
  <1>5. O(failed) \in [Glyphs -> Outcome]
    BY DEF Outcome
  <1> QED
    BY <1>3, <1>4, <1>5

\* Whatever set their hashes are of, they are of those they have.
LEMMA OwnHashes ==
    ASSUME NEW H
    PROVE  /\ \A p \in Painters(H) : p \in Painters({p.hashes[row] : row \in Row})
           /\ \A target \in Targets(H) : target \in Targets({target.painted[row] : row \in Row})
  <1>1. ASSUME NEW p \in Painters(H) PROVE p \in Painters({p.hashes[row] : row \in Row})
    <2>1. p.hashes \in [Row -> {p.hashes[row] : row \in Row}]
      BY DEF Painters
    <2> DEFINE O == {p.hashes[row] : row \in Row}
    <2> HIDE DEF O
    <2> QED
      BY <2>1 DEF Painters, O
  <1>2. ASSUME NEW t \in Targets(H) PROVE t \in Targets({t.painted[row] : row \in Row})
    <2>1. t.painted \in [Row -> {t.painted[row] : row \in Row}]
      BY DEF Targets
    <2> QED
      BY <2>1 DEF Targets
  <1> QED
    BY <1>1, <1>2

LEMMA Unhashing == ASSUME NEW H, None \in H PROVE Unhashed \in [Row -> H]
  BY DEF Unhashed

LEMMA SetDimTyped ==
    ASSUME NEW H, None \in H, NEW p \in Painters(H), NEW base \in Bases, NEW dim \in Dims
    PROVE  SetDim(SetBasePalette(p, base), dim) \in Painters(H)
  <1>1. SetBasePalette(p, base) \in Painters(H)
    BY DEF SetBasePalette, Painters
  <1>2. ASSUME NEW q \in Painters(H)
        PROVE  [q EXCEPT !.dim = dim, !.dimRevision = @ + 1, !.hashes = Unhashed] \in Painters(H)
    <2>1. Unhashed \in [Row -> H] /\ q.dimRevision + 1 \in Nat
      BY Unhashing DEF Painters
    <2> QED
      BY <2>1 DEF Painters
  <1> QED
    BY <1>1, <1>2 DEF SetDim

LEMMA ResolveTyped ==
    ASSUME NEW H, None \in H, NEW p \in Painters(H), NEW over \in Overs
    PROVE  Resolve(p, over) \in Painters(H)
  <1>1. [base |-> p.base, over |-> over] \in [base: Bases, over: Overs]
    BY DEF Painters
  <1>2. ASSUME NEW effective \in [base: Bases, over: Overs]
        PROVE  [p EXCEPT !.palette = effective, !.paletteRevision = @ + 1, !.hashes = Unhashed]
                 \in Painters(H)
    <2>1. Unhashed \in [Row -> H] /\ p.paletteRevision + 1 \in Nat
      BY Unhashing DEF Painters
    <2> QED
      BY <2>1 DEF Painters
  <1> QED
    BY <1>1, <1>2 DEF Resolve

LEMMA RefreshedTyped ==
    ASSUME NEW H, NEW p \in Painters(H), NEW asked \in [Row -> Asks], NEW a
    PROVE  LET hashes == Hashes(p, asked)
               pictures == Pictures(p, asked, hashes)
           IN  Refreshed(p, pictures, hashes, a) \in Painters({hashes[row] : row \in Row})
  <1> DEFINE hashes == Hashes(p, asked)
             pictures == Pictures(p, asked, hashes)
             cells == [r \in Row |-> IF r \in DOMAIN pictures THEN Built(a, pictures[r])
                                     ELSE p.cells[r]]
  <1>1. p.palette \in [base: Bases, over: Overs] /\ p.dim \in Dims
    BY DEF Painters
  <1>2. \A r \in DOMAIN pictures : pictures[r] \in RowPicture
    BY <1>1, PicturesTyped
  <1>3. p.cells \in [Row -> RowPicture \cup {None}]
    BY DEF Painters
  <1> HIDE DEF pictures
  <1>4. cells \in [Row -> RowPicture \cup {None}]
    BY <1>2, <1>3, BuiltTyped
  <1>5. hashes \in [Row -> {hashes[row] : row \in Row}]
    BY DEF Hashes
  <1>6. Refreshed(p, pictures, hashes, a) = [p EXCEPT !.cells = cells, !.hashes = hashes]
    BY DEF Refreshed
  <1> DEFINE O == {hashes[row] : row \in Row}
  <1> HIDE DEF cells, hashes
  <1>7. ASSUME NEW S, hashes \in [Row -> S]
        PROVE  [p EXCEPT !.cells = cells, !.hashes = hashes] \in Painters(S)
    BY <1>4, <1>7 DEF Painters
  <1>8. Refreshed(p, pictures, hashes, a) \in Painters(O)
    <2> HIDE DEF O
    <2>1. hashes \in [Row -> O]
      BY <1>5 DEF O
    <2> QED
      BY <1>6, <1>7, <2>1
  <1> QED
    BY <1>8 DEF hashes, pictures

LEMMA PaintedTyped ==
    ASSUME NEW H, NEW p \in Painters(H), NEW G, NEW target \in Targets(G)
    PROVE  Painted(p, target) \in Targets(H)
  <1>1. p.hashes \in [Row -> H] /\ p.cells \in [Row -> RowPicture \cup {None}]
    BY DEF Painters
  <1>2. target.pixels \in [Row -> RowPicture \cup {None}]
    BY DEF Targets
  <1>3. [r \in Row |-> p.hashes[r]] \in [Row -> H]
    BY <1>1
  <1>4. [r \in Row |-> IF r \in Owed(p, target) THEN p.cells[r] ELSE target.pixels[r]]
          \in [Row -> RowPicture \cup {None}]
    BY <1>1, <1>2
  <1> QED
    BY <1>3, <1>4 DEF Painted, Targets

LEMMA FreshTyped ==
    /\ \A base \in Bases : NewPainter(base) \in Painters({None})
    /\ FreshTarget \in Targets({None})
  <1>1. Unhashed \in [Row -> {None}] /\ Unhashed \in [Row -> RowPicture \cup {None}]
    BY DEF Unhashed
  <1>2. None \in Overs /\ 0 \in Dims
    BY SurfaceAssumption
  <1> QED
    BY <1>1, <1>2 DEF NewPainter, FreshTarget, Painters, Targets

\* The painter and the slots are typed whatever their hashes are.
Drawn(p, shown) ==
    /\ p \in Painters({p.hashes[row] : row \in Row})
    /\ shown = [slot \in Slots |-> shown[slot]]
    /\ \A slot \in Slots : shown[slot] \in Targets({shown[slot].painted[row] : row \in Row})

LEMMA PaintDrawn ==
    ASSUME NEW H, NEW p \in Painters(H), NEW shown,
           shown = [slot \in Slots |-> shown[slot]],
           \A slot \in Slots : shown[slot] \in Targets({shown[slot].painted[row] : row \in Row}),
           NEW slot \in Slots
    PROVE  Drawn(p, [shown EXCEPT ![slot] = Painted(p, @)])
  <1> DEFINE next == [shown EXCEPT ![slot] = Painted(p, @)]
  <1>1. Painted(p, shown[slot]) \in Targets(H)
    BY PaintedTyped
  <1>2. next[slot] = Painted(p, shown[slot]) /\ \A t \in Slots \ {slot} : next[t] = shown[t]
    OBVIOUS
  <1>3. next = [t \in Slots |-> next[t]]
    OBVIOUS
  <1> HIDE DEF next
  <1>4. \A t \in Slots : next[t] \in Targets({next[t].painted[row] : row \in Row})
    BY <1>1, <1>2, OwnHashes
  <1>5. p \in Painters({p.hashes[row] : row \in Row})
    BY OwnHashes
  <1>6. Drawn(p, next)
    BY <1>3, <1>4, <1>5 DEF Drawn
  <1> QED
    BY <1>6 DEF next

LEMMA RefreshTyped ==
    ASSUME TypeOK, Refresh
    PROVE  unplaced' \subseteq Glyphs /\ Drawn(painter', targets')
  <1> DEFINE resolved == Resolve(painter, mirror.over)
             H == {painter.hashes[row] : row \in Row} \cup {None}
  <1>1. PICK asked \in [Row -> Asks], outcomes \in [Glyphs -> Outcome] :
              LET hashes == Hashes(resolved, asked)
                  pictures == Pictures(resolved, asked, hashes)
                  packed == RefreshedAtlas(pictures, atlas, outcomes)
                  fresh == Refreshed(resolved, pictures, hashes, packed)
              IN  /\ atlas' = packed
                  /\ painter' = fresh
                  /\ unplaced' = unplaced \cup (Wanted(pictures) \ Registered(packed))
                  /\ (\E slot \in Slots : Paint(slot, fresh)) \/ PaintMissed
    BY Refreshes
  <1> DEFINE hashes == Hashes(resolved, asked)
             pictures == Pictures(resolved, asked, hashes)
             packed == RefreshedAtlas(pictures, atlas, outcomes)
             fresh == Refreshed(resolved, pictures, hashes, packed)
             G == {hashes[row] : row \in Row}
  <1>2. painter \in Painters(H)
    BY DEF TypeOK, Painters
  <1>3. resolved \in Painters(H)
    BY <1>2, ResolveTyped DEF TypeOK, Mirrors
  <1>4. resolved.palette \in [base: Bases, over: Overs] /\ resolved.dim \in Dims
    BY <1>3 DEF Painters
  <1> HIDE DEF resolved
  <1>5. fresh \in Painters(G)
    BY <1>3, RefreshedTyped
  <1>6. Wanted(pictures) \subseteq Glyphs
    BY <1>4, PicturesTyped
  <1>7. unplaced' = unplaced \cup (Wanted(pictures) \ Registered(packed))
    BY <1>1
  <1>8. painter' = fresh /\ ((\E slot \in Slots : Paint(slot, fresh)) \/ PaintMissed)
    BY <1>1
  <1>9. unplaced' \subseteq Glyphs
    <2> HIDE DEF pictures, packed
    <2> QED
      BY <1>6, <1>7 DEF TypeOK
  <1> HIDE DEF fresh, G
  <1>10. CASE \E slot \in Slots : Paint(slot, fresh)
    <2>1. PICK slot \in Slots : targets' = [targets EXCEPT ![slot] = Painted(fresh, @)]
      BY <1>10 DEF Paint
    <2>2. /\ targets = [s \in Slots |-> targets[s]]
          /\ \A s \in Slots : targets[s] \in Targets({targets[s].painted[row] : row \in Row})
      BY DEF TypeOK
    <2>3. Drawn(fresh, [targets EXCEPT ![slot] = Painted(fresh, @)])
      BY <1>5, <2>2, PaintDrawn
    <2> QED
      BY <1>8, <1>9, <2>1, <2>3
  <1>11. CASE PaintMissed
    <2>1. targets' = targets
      BY <1>11 DEF PaintMissed
    <2>2. fresh \in Painters({fresh.hashes[row] : row \in Row})
      BY <1>5, OwnHashes
    <2>3. Drawn(fresh, targets)
      BY <2>2 DEF Drawn, TypeOK
    <2> QED
      BY <1>8, <1>9, <2>1, <2>3
  <1> QED
    BY <1>8, <1>10, <1>11

LEMMA IterationTyped ==
    ASSUME TypeOK, Iteration
    PROVE  /\ thread' \in Threads /\ unplaced' \subseteq Glyphs /\ events' \in 0..MaxEvents
           /\ Drawn(painter', targets')
           /\ UNCHANGED <<mirror, selection, control, client, shrunk>>
  <1>1. /\ thread \in Threads /\ unplaced \subseteq Glyphs /\ control \in Controls
        /\ events \in 0..MaxEvents /\ Drawn(painter, targets)
    BY DEF TypeOK, Drawn
  <1>2. CASE TakePending
    <2>1. PICK base \in Bases : painter' = NewPainter(base)
      BY <1>2 DEF TakePending
    <2>2. painter' \in Painters({painter'.hashes[row] : row \in Row})
      BY <2>1, FreshTyped, OwnHashes
    <2>3. FreshTarget \in Targets({FreshTarget.painted[row] : row \in Row})
      BY FreshTyped, OwnHashes
    <2>4. targets' = [slot \in Slots |-> FreshTarget]
      BY <1>2 DEF TakePending
    <2>5. Drawn(painter', targets')
      <3>1. \A slot \in Slots : targets'[slot] = FreshTarget
        BY <2>4
      <3>2. targets' = [slot \in Slots |-> targets'[slot]]
        BY <2>4
      <3> QED
        BY <2>2, <2>3, <3>1, <3>2 DEF Drawn
    <2> QED
      BY <1>1, <1>2, <2>5, EventTyped DEF TakePending, Goes
  <1>3. CASE ReadControl
    <2> DEFINE H == {painter.hashes[row] : row \in Row} \cup {None}
               next == SetDim(SetBasePalette(painter, control.base), control.dim)
    <2>1. painter \in Painters(H)
      BY DEF TypeOK, Painters
    <2>2. control.base \in Bases /\ control.dim \in Dims /\ control.offset \in 0..MaxHistory
            /\ control.preedit \in Compositions \cup {None}
      BY <1>1 DEF Controls
    <2>3. next \in Painters(H)
      BY <2>1, <2>2, SetDimTyped
    <2>4. next \in Painters({next.hashes[row] : row \in Row})
      <3> HIDE DEF next, H
      <3> QED
        BY <2>3, OwnHashes
    <2>5. painter' = next /\ UNCHANGED <<targets, events, unplaced>>
            /\ Goes([at |-> "refresh", offset |-> control.offset, composition |-> control.preedit])
      BY <1>3 DEF ReadControl
    <2> HIDE DEF next
    <2>6. Drawn(painter', targets')
      BY <1>1, <2>4, <2>5 DEF Drawn
    <2>7. [at |-> "refresh", offset |-> control.offset, composition |-> control.preedit] \in Threads
      BY <2>2 DEF Threads
    <2> QED
      BY <1>1, <2>5, <2>6, <2>7 DEF Goes
  <1>4. CASE Refresh
    <2>1. [at |-> "control", offset |-> 0, composition |-> None] \in Threads
      BY SurfaceAssumption DEF Threads
    <2> QED
      BY <1>1, <1>4, <2>1, RefreshTyped DEF Refresh, Goes
  <1> QED
    BY <1>2, <1>3, <1>4 DEF Iteration

LEMMA InitTyped == Init => TypeOK
  <1> SUFFICES ASSUME Init PROVE TypeOK
    OBVIOUS
  <1>1. 0 \in Row /\ 0 \in Column /\ 0 \in 0..MaxHistory /\ 0 \in 0..MaxEvents
    BY SurfaceAssumption, LineFacts, GridFacts
  <1>2. PICK style \in Styles : style = CHOOSE s \in Styles : ~s.blinking
    BY SurfaceAssumption
  <1>3. PICK base \in Bases : base = CHOOSE b \in Bases : TRUE
    BY SurfaceAssumption
  <1>4. mirror \in Mirrors
    BY <1>1, <1>2, SurfaceAssumption DEF Init, Mirrors
  <1>5. selection \in Selections /\ selection.anchor = None /\ selection.head = None
    BY DEF Init, NoSelection, Selections, Ids, Kinds
  <1>6. control \in Controls
    <2>1. Inactive(0) \in ShownSelection
      BY DEF Inactive, ShownSelection, Ids, Kinds
    <2> QED
      BY <1>1, <1>3, <2>1, SurfaceAssumption DEF Init, Controls
  <1>7. client \in [Clients -> ClientState] /\ thread \in Threads
    BY <1>1, Carries DEF Init, Threads
  <1>8. painter \in Painters({painter.hashes[row] : row \in Row})
    <2>1. painter = NewPainter(base)
      BY <1>3 DEF Init
    <2> QED
      BY <2>1, FreshTyped, OwnHashes
  <1>9. /\ targets = [slot \in Slots |-> targets[slot]]
        /\ \A slot \in Slots :
              targets[slot] \in Targets({targets[slot].painted[row] : row \in Row})
    <2>1. targets = [slot \in Slots |-> FreshTarget]
      BY DEF Init
    <2>2. FreshTarget \in Targets({FreshTarget.painted[row] : row \in Row})
      BY FreshTyped, OwnHashes
    <2> QED
      BY <2>1, <2>2
  <1> QED
    BY <1>1, <1>4, <1>5, <1>6, <1>7, <1>8, <1>9 DEF Init, TypeOK

LEMMA StepTyped == TypeOK /\ [Next]_vars => TypeOK'
  <1> SUFFICES ASSUME TypeOK, [Next]_vars PROVE TypeOK'
    OBVIOUS
  <1>1. CASE Output
    BY <1>1, OutputTyped DEF TypeOK, painting
  <1>2. CASE Command
    BY <1>2, CommandTyped DEF TypeOK, painting
  <1>3. CASE Iteration
    BY <1>3, IterationTyped DEF TypeOK, Drawn
  <1>4. CASE UNCHANGED vars
    BY <1>4 DEF TypeOK, vars
  <1> QED
    BY <1>1, <1>2, <1>3, <1>4 DEF Next

\* Whatever is written, commanded and painted, the mirror's lines and cursor are in the grid,
\* a selection is on lines that can be, and the painter and every slot hold rows of the grid's
\* width in the colours of a theme.
THEOREM PaintTypes == Spec => []TypeOK
  BY InitTyped, StepTyped, PTL DEF Spec

--------------------------------------------------------------------------------
\* Scrolling and gestures

\* A history that a thread has read is there as long as none was lost.
ScrollInv ==
    ~shrunk => /\ control.offset <= mirror.history /\ thread.offset <= mirror.history
               /\ \A c \in Clients : client[c].at = "clamp" => client[c].history <= mirror.history

\* Output loses history only where it is said to.
LEMMA HistoryGrows ==
    ASSUME TypeOK, Output, ~shrunk'
    PROVE  ~shrunk /\ mirror.history <= mirror'.history
  <1>1. mirror \in Mirrors /\ mirror.history \in Nat /\ MaxHistory \in Nat
          /\ mirror.history <= MaxHistory
    BY SurfaceAssumption DEF TypeOK, Mirrors
  <1>2. ASSUME NEW next, Fed(next) PROVE mirror' = next
    BY <1>2 DEF Fed
  <1>3. CASE Write
    <2>1. PICK row \in Row, character \in Written : mirror' = [mirror EXCEPT !.text[row] = character]
      BY <1>2, <1>3 DEF Write
    <2> QED
      BY <1>1, <1>3, <2>1 DEF Write, Mirrors
  <1>4. CASE MoveCursor
    <2>1. PICK spot \in Spots : mirror' = [mirror EXCEPT !.row = spot[1], !.col = spot[2]]
      BY <1>2, <1>4 DEF MoveCursor
    <2> QED
      BY <1>1, <1>4, <2>1 DEF MoveCursor, Mirrors
  <1>5. CASE StyleCursor
    <2>1. \/ \E style \in Styles : mirror' = [mirror EXCEPT !.style = style]
          \/ mirror' = [mirror EXCEPT !.shown = ~@]
      BY <1>2, <1>5 DEF StyleCursor
    <2> QED
      BY <1>1, <1>5, <2>1 DEF StyleCursor, Mirrors
  <1>6. CASE Recolour
    <2>1. PICK over \in Overs : mirror' = [mirror EXCEPT !.over = over]
      BY <1>2, <1>6 DEF Recolour
    <2> QED
      BY <1>1, <1>6, <2>1 DEF Recolour, Mirrors
  <1>7. CASE Linefeed
    <2> DEFINE history == IF mirror.history < MaxHistory THEN mirror.history + 1 ELSE MaxHistory
               text == [l \in Line |-> IF l = Rows - 1 \/ l < -history THEN Blank
                                     ELSE mirror.text[l + 1]]
    <2>1. mirror' = [mirror EXCEPT !.text = text, !.history = history] /\ UNCHANGED shrunk
      BY <1>2, <1>7 DEF Linefeed
    <2>2. mirror.history <= history
      BY <1>1
    <2> HIDE DEF history, text
    <2> QED
      BY <1>1, <2>1, <2>2 DEF Mirrors
  <1> QED
    BY <1>3, <1>4, <1>5, <1>6, <1>7 DEF Output, EraseHistory, ReplaceMirror

\* An offset that is stored is clamped to a history that was there.
LEMMA ServedScrolls ==
    ASSUME TypeOK, ScrollInv, NEW c \in Clients, Served(c), ~shrunk
    PROVE  /\ control'.offset <= mirror.history
           /\ \A d \in Clients : client'[d].at = "clamp" => client'[d].history <= mirror.history
  <1>1. /\ mirror.history \in Nat /\ control \in Controls /\ client \in [Clients -> ClientState]
        /\ control.offset <= mirror.history
        /\ \A d \in Clients : client[d].at = "clamp" => client[d].history <= mirror.history
    BY SurfaceAssumption DEF TypeOK, Mirrors, ScrollInv
  <1>2. ASSUME NEW next, NEW held, Serve(c, next, held),
               next.at = "clamp" => next.history <= mirror.history,
               held.offset <= mirror.history
        PROVE  /\ control'.offset <= mirror.history
               /\ \A d \in Clients : client'[d].at = "clamp" => client'[d].history <= mirror.history
    BY <1>1, <1>2 DEF Serve
  <1>3. CASE ReadHistory(c)
    BY <1>1, <1>2, <1>3 DEF ReadHistory
  <1>4. ASSUME NEW wanted \in -1..MaxHistory + 1, ScrollTo(c, wanted)
        PROVE  /\ control'.offset <= mirror.history
               /\ \A d \in Clients : client'[d].at = "clamp" => client'[d].history <= mirror.history
    <2> DEFINE offset == IF wanted < 0 THEN 0
                         ELSE IF wanted > client[c].history THEN client[c].history
                         ELSE wanted
    <2>1. client[c].history \in 0..MaxHistory /\ client[c].history <= mirror.history
      BY <1>1, <1>4, Carried DEF ScrollTo
    <2>2. offset <= mirror.history
      BY <1>1, <2>1, SurfaceAssumption
    <2>3. Serve(c, Idle, [control EXCEPT !.offset = offset])
      BY <1>4 DEF ScrollTo
    <2> HIDE DEF offset
    <2>4. [control EXCEPT !.offset = offset].offset = offset
      BY <1>1 DEF Controls
    <2> QED
      BY <1>2, <2>2, <2>3, <2>4 DEF Idle
  <1>5. CASE ReadOffset(c)
    BY <1>1, <1>2, <1>5 DEF ReadOffset
  <1>6. ASSUME NEW held, Selected(c, held)
        PROVE  /\ control'.offset <= mirror.history
               /\ \A d \in Clients : client'[d].at = "clamp" => client'[d].history <= mirror.history
    BY <1>1, <1>2, <1>6 DEF Selected
  <1>7. CASE Refuse(c)
    BY <1>1, <1>2, <1>7 DEF Refuse, Idle
  <1>8. CASE StoreSnapshot(c)
    <2>1. [control EXCEPT !.selection = client[c].snapshot].offset = control.offset
      BY <1>1 DEF Controls
    <2> QED
      BY <1>1, <1>2, <1>8, <2>1 DEF StoreSnapshot, Idle
  <1>9. CASE \E stroke \in Strokes, point \in Points :
                 \/ Begin(c, stroke, point)
                 \/ \E last \in BOOLEAN : Update(c, stroke, point, last)
    BY <1>6, <1>9 DEF Begin, Update
  <1>10. CASE Clear(c) \/ Read(c)
    BY <1>6, <1>10 DEF Clear, Read
  <1> QED
    BY <1>3, <1>4, <1>5, <1>7, <1>8, <1>9, <1>10 DEF Served

LEMMA StepScrolls == TypeOK /\ ScrollInv /\ [Next]_vars => ScrollInv'
  <1> SUFFICES ASSUME TypeOK, ScrollInv, [Next]_vars, ~shrunk'
               PROVE  /\ control'.offset <= mirror'.history /\ thread'.offset <= mirror'.history
                      /\ \A c \in Clients :
                            client'[c].at = "clamp" => client'[c].history <= mirror'.history
    BY DEF ScrollInv
  <1>1. /\ mirror.history \in Nat /\ control.offset \in Nat /\ thread.offset \in Nat
        /\ control \in Controls /\ client \in [Clients -> ClientState]
    BY SurfaceAssumption DEF TypeOK, Mirrors, Controls, Threads
  <1>2. CASE Output
    <2>1. ~shrunk /\ mirror.history <= mirror'.history /\ mirror' \in Mirrors
            /\ UNCHANGED <<control, client, thread>>
      BY <1>2, HistoryGrows, OutputTyped DEF painting
    <2>2. mirror'.history \in Nat
      BY <2>1, SurfaceAssumption DEF Mirrors
    <2>3. \A c \in Clients : client[c].at = "clamp" => client[c].history \in Nat
      BY <1>1, Carried, SurfaceAssumption
    <2> QED
      BY <1>1, <2>1, <2>2, <2>3 DEF ScrollInv
  <1>3. CASE Focus \/ Dim \/ Theme \/ Preedit
    <2>1. control'.offset = control.offset /\ UNCHANGED <<mirror, client, shrunk, painting>>
      <3>1. ASSUME NEW next, Set(next), next.offset = control.offset
            PROVE  control'.offset = control.offset /\ UNCHANGED <<mirror, client, shrunk, painting>>
        BY <3>1 DEF Set
      <3>2. CASE Focus
        <4>1. [control EXCEPT !.focused = ~@].offset = control.offset
          BY <1>1 DEF Controls
        <4> QED
          BY <3>1, <3>2, <4>1 DEF Focus
      <3>3. CASE Dim
        <4>1. \A dim : [control EXCEPT !.dim = dim].offset = control.offset
          BY <1>1 DEF Controls
        <4> QED
          BY <3>1, <3>3, <4>1 DEF Dim
      <3>4. CASE Theme
        <4>1. \A base : [control EXCEPT !.base = base].offset = control.offset
          BY <1>1 DEF Controls
        <4> QED
          BY <3>1, <3>4, <4>1 DEF Theme
      <3>5. CASE Preedit
        <4>1. \A composition : [control EXCEPT !.preedit = composition].offset = control.offset
          BY <1>1 DEF Controls
        <4> QED
          BY <3>1, <3>5, <4>1 DEF Preedit
      <3> QED
        BY <1>3, <3>2, <3>3, <3>4, <3>5
    <2> QED
      BY <2>1 DEF ScrollInv, painting
  <1>4. CASE \E c \in Clients : Served(c)
    BY <1>4, ServedScrolls, ServedTyped DEF ScrollInv, painting
  <1>5. CASE Iteration
    <2>1. UNCHANGED <<mirror, control, client, shrunk>>
      BY <1>5, IterationTyped
    <2>2. thread'.offset <= mirror.history
      <3>1. control.offset <= mirror.history /\ thread.offset <= mirror.history
        BY <2>1 DEF ScrollInv
      <3>2. CASE TakePending
        BY <3>1, <3>2 DEF TakePending, Goes
      <3>3. CASE ReadControl
        BY <3>1, <3>3 DEF ReadControl, Goes
      <3>4. CASE Refresh
        <4>1. Goes([at |-> "control", offset |-> 0, composition |-> None])
          BY <3>4 DEF Refresh
        <4>2. thread'.offset = 0
          BY <4>1 DEF Goes
        <4> QED
          BY <1>1, <4>2
      <3> QED
        BY <1>5, <3>2, <3>3, <3>4 DEF Iteration
    <2> QED
      BY <2>1, <2>2 DEF ScrollInv
  <1>6. CASE UNCHANGED vars
    BY <1>6 DEF vars, ScrollInv
  <1> QED
    BY <1>2, <1>3, <1>4, <1>5, <1>6 DEF Next, Command

\* Though the history is read before the overlay is locked, and the overlay before the mirror
\* is, no line above the history is looked up unless the history shrank.
THEOREM ScrolledLines == Spec => []ScrolledLinesExist
  <1>1. Init => ScrollInv
    <2> SUFFICES ASSUME Init PROVE ScrollInv
      OBVIOUS
    <2>1. mirror.history = 0 /\ control.offset = 0 /\ thread.offset = 0
            /\ \A c \in Clients : client[c].at = "idle"
      BY DEF Init, Idle
    <2> QED
      BY <2>1 DEF ScrollInv
  <1>2. ScrollInv => ScrolledLinesExist
    BY DEF ScrollInv, ScrolledLinesExist
  <1> QED
    BY <1>1, <1>2, PaintTypes, StepScrolls, PTL DEF Spec

LEMMA StepOwned == TypeOK /\ SelectionIsTheOwners /\ [Next]_vars => SelectionIsTheOwners'
  <1> SUFFICES ASSUME TypeOK, SelectionIsTheOwners, [Next]_vars PROVE SelectionIsTheOwners'
    OBVIOUS
  <1>1. selection \in Selections
    BY DEF TypeOK
  <1>2. ASSUME NEW held \in Selections, NEW history, held.anchor # None => held.mover = held.id
        PROVE  /\ Within(held, history).anchor # None =>
                     Within(held, history).mover = Within(held, history).id
               /\ Up(held).anchor # None => Up(held).mover = Up(held).id
    BY <1>2 DEF Within, Up, Selections
  <1>3. CASE Output
    <2>1. CASE Linefeed
      <3>1. PICK history : selection' = Within(Up(selection), history)
        BY <2>1 DEF Linefeed
      <3>2. Up(selection).anchor # None => Up(selection).mover = Up(selection).id
        BY <1>1, <1>2 DEF SelectionIsTheOwners
      <3>3. CASE Within(Up(selection), history) = Up(selection)
        BY <3>1, <3>2, <3>3 DEF SelectionIsTheOwners
      <3>4. CASE Within(Up(selection), history) # Up(selection)
        <4>1. Within(Up(selection), history)
                = [Up(selection) EXCEPT !.anchor = None, !.head = None, !.mover = None]
          BY <3>4 DEF Within
        <4>2. "anchor" \in DOMAIN Up(selection)
          BY <1>1 DEF Up, Selections
        <4>3. Within(Up(selection), history).anchor = None
          BY <4>1, <4>2
        <4> QED
          BY <3>1, <4>3 DEF SelectionIsTheOwners
      <3> QED
        BY <3>3, <3>4
    <2>2. CASE EraseHistory
      BY <1>1, <1>2, <2>2 DEF EraseHistory, SelectionIsTheOwners
    <2>3. CASE ReplaceMirror
      BY <2>3 DEF ReplaceMirror, NoSelection, SelectionIsTheOwners
    <2> QED
      BY <1>3, <2>1, <2>2, <2>3
      DEF Output, Write, MoveCursor, StyleCursor, Recolour, SelectionIsTheOwners
  <1>4. ASSUME NEW c \in Clients, Served(c) PROVE SelectionIsTheOwners'
    <2>1. ASSUME NEW stroke \in Strokes, NEW point \in Points, Begin(c, stroke, point)
          PROVE  SelectionIsTheOwners'
      BY <2>1 DEF Begin, Selected, SelectionIsTheOwners
    <2>2. ASSUME NEW stroke \in Strokes, NEW point \in Points, NEW last \in BOOLEAN,
                 Update(c, stroke, point, last)
          PROVE  SelectionIsTheOwners'
      <3>1. selection' = [selection EXCEPT !.head = LineOf(c, point), !.mover = stroke.id,
                                           !.open = ~last, !.sequence = @ + 1]
              /\ selection.id = stroke.id
        BY <2>2 DEF Update, Selected, Owns
      <3>2. selection'.mover = stroke.id /\ selection'.id = stroke.id
        BY <1>1, <3>1 DEF Selections
      <3> QED
        BY <3>2 DEF SelectionIsTheOwners
    <2>3. CASE Clear(c)
      BY <2>3 DEF Clear, Selected, NoSelection, SelectionIsTheOwners
    <2>4. CASE Read(c)
      BY <2>4 DEF Read, Selected, SelectionIsTheOwners
    <2>5. CASE UNCHANGED selection
      BY <2>5 DEF SelectionIsTheOwners
    <2>6. ASSUME NEW wanted \in -1..MaxHistory + 1, ScrollTo(c, wanted) PROVE UNCHANGED selection
      BY <2>6 DEF ScrollTo
    <2>7. ReadHistory(c) \/ ReadOffset(c) \/ Refuse(c) \/ StoreSnapshot(c) => UNCHANGED selection
      BY DEF ReadHistory, ReadOffset, Refuse, StoreSnapshot
    <2> QED
      BY <1>4, <2>1, <2>2, <2>3, <2>4, <2>5, <2>6, <2>7 DEF Served
  <1>5. CASE Focus \/ Dim \/ Theme \/ Preedit
    BY <1>5 DEF Focus, Dim, Theme, Preedit, Set, SelectionIsTheOwners
  <1>6. CASE Iteration
    BY <1>6, IterationTyped DEF SelectionIsTheOwners
  <1>7. CASE UNCHANGED vars
    BY <1>7 DEF vars, SelectionIsTheOwners
  <1> QED
    BY <1>3, <1>4, <1>5, <1>6, <1>7 DEF Next, Command

\* However commands of several clients overlap, only the gesture that took the pane moves the
\* selection it began.
THEOREM OwnersMove == Spec => []SelectionIsTheOwners
  <1>1. Init => SelectionIsTheOwners
    BY DEF Init, NoSelection, SelectionIsTheOwners
  <1> QED
    BY <1>1, PaintTypes, StepOwned, PTL DEF Spec

--------------------------------------------------------------------------------
\* The atlas of the pane

LEMMA EmptyPacked == EmptyPage \in Packings
  BY AtlasAssumption DEF EmptyPage, Packings, Packed, Kept, Shelved, Separate, Slot

PackedInv == atlas \in Packings

LEMMA StepPacked == TypeOK /\ PackedInv /\ [Next]_vars => PackedInv'
  <1> SUFFICES ASSUME TypeOK, atlas \in Packings, [Next]_vars PROVE atlas' \in Packings
    BY DEF PackedInv
  <1>1. CASE Output
    BY <1>1, OutputTyped DEF painting
  <1>2. CASE Command
    BY <1>2, CommandTyped DEF painting
  <1>3. CASE TakePending
    BY <1>3, EmptyPacked DEF TakePending
  <1>4. CASE ReadControl
    BY <1>4 DEF ReadControl
  <1>5. CASE Refresh
    <2> DEFINE resolved == Resolve(painter, mirror.over)
               H == {painter.hashes[row] : row \in Row} \cup {None}
    <2>1. PICK asked \in [Row -> Asks], outcomes \in [Glyphs -> Outcome] :
             atlas' = RefreshedAtlas(Pictures(resolved, asked, Hashes(resolved, asked)),
                                     atlas, outcomes)
      BY <1>5, Refreshes
    <2>2. painter \in Painters(H)
      BY DEF TypeOK, Painters
    <2>3. resolved \in Painters(H)
      BY <2>2, ResolveTyped DEF TypeOK, Mirrors
    <2>4. resolved.palette \in [base: Bases, over: Overs] /\ resolved.dim \in Dims
      BY <2>3 DEF Painters
    <2> HIDE DEF resolved
    <2> DEFINE pictures == Pictures(resolved, asked, Hashes(resolved, asked))
    <2>5. \A r \in DOMAIN pictures : pictures[r].cells \in [Column -> Cell]
      BY <2>4, PicturesTyped
    <2> HIDE DEF pictures
    <2>6. RefreshedAtlas(pictures, atlas, outcomes) \in Packings
      BY <2>5, RefreshedPacked
    <2> QED
      BY <2>1, <2>6 DEF pictures
  <1>6. CASE UNCHANGED vars
    BY <1>6 DEF vars
  <1> QED
    BY <1>1, <1>2, <1>3, <1>4, <1>5, <1>6 DEF Next, Iteration

\* Whatever a pane shows, the glyphs of its rows keep slots of their own on the page.
THEOREM PaneIsPacked == Spec => []AtlasIsPacked
  <1>1. Init => PackedInv
    BY EmptyPacked DEF Init, AtlasInit, PackedInv
  <1>2. PackedInv => AtlasIsPacked
    BY PackedIsPacking, PackedIsPacked DEF PackedInv
  <1> QED
    BY <1>1, <1>2, PaintTypes, StepPacked, PTL DEF Spec

--------------------------------------------------------------------------------
\* Rows that are not painted again

\* Cells under a hash are what some asking of that hash was painted as: in the colours they have,
\* and these are the painter's if they are of its revisions.
Faithful(p, lacking, hash, cells) ==
    hash # None =>
        \E before \in Asks, revision \in 0..p.paletteRevision, dim \in 0..p.dimRevision :
            /\ hash = Hashed(revision, dim, before)
            /\ revision = p.paletteRevision => cells.palette = p.palette
            /\ dim = p.dimRevision => cells.dim = p.dim
            /\ Shows(cells, Picture(cells, before), lacking)

AllFaithful(p, shown, lacking) ==
    /\ \A r \in Row : Faithful(p, lacking, p.hashes[r], p.cells[r])
    /\ \A slot \in Slots, r \in Row :
          Faithful(p, lacking, shown[slot].painted[r], shown[slot].pixels[r])

PaintInv == AllFaithful(painter, targets, unplaced)

\* A painter whose colours are those of p, or have revisions that p has not had.
Later(p, q) ==
    /\ \/ q.paletteRevision = p.paletteRevision /\ q.palette = p.palette
       \/ q.paletteRevision > p.paletteRevision
    /\ \/ q.dimRevision = p.dimRevision /\ q.dim = p.dim
       \/ q.dimRevision > p.dimRevision

LEMMA ShowsMore ==
    ASSUME NEW cells, NEW picture, NEW lacking, NEW more, lacking \subseteq more,
           Shows(cells, picture, lacking)
    PROVE  Shows(cells, picture, more)
  BY DEF Shows

LEMMA StillFaithful ==
    ASSUME NEW H, NEW p \in Painters(H), NEW G, NEW q \in Painters(G), Later(p, q),
           NEW lacking, NEW more, lacking \subseteq more, NEW hash, NEW cells,
           Faithful(p, lacking, hash, cells)
    PROVE  Faithful(q, more, hash, cells)
  <1> SUFFICES ASSUME hash # None PROVE Faithful(q, more, hash, cells)
    BY DEF Faithful
  <1>1. /\ p.paletteRevision \in Nat /\ q.paletteRevision \in Nat
        /\ p.dimRevision \in Nat /\ q.dimRevision \in Nat
    BY DEF Painters
  <1>2. PICK before \in Asks, revision \in 0..p.paletteRevision, dim \in 0..p.dimRevision :
            /\ hash = Hashed(revision, dim, before)
            /\ revision = p.paletteRevision => cells.palette = p.palette
            /\ dim = p.dimRevision => cells.dim = p.dim
            /\ Shows(cells, Picture(cells, before), lacking)
    BY DEF Faithful
  <1>3. /\ revision \in 0..q.paletteRevision
        /\ revision = q.paletteRevision => cells.palette = q.palette
    BY <1>1, <1>2 DEF Later
  <1>4. /\ dim \in 0..q.dimRevision
        /\ dim = q.dimRevision => cells.dim = q.dim
    BY <1>1, <1>2 DEF Later
  <1>5. Shows(cells, Picture(cells, before), more)
    BY <1>2, ShowsMore
  <1> QED
    BY <1>2, <1>3, <1>4, <1>5 DEF Faithful

\* A row that shows what is asked, under its hash.
LEMMA RowFaithful ==
    ASSUME NEW H, NEW p \in Painters(H), NEW asked \in Asks, NEW cells, NEW lacking,
           Shows(cells, Picture(p, asked), lacking)
    PROVE  Faithful(p, lacking, RowHash(p, asked), cells)
  <1>1. Picture(p, asked).palette = p.palette /\ Picture(p, asked).dim = p.dim
          /\ "palette" \in DOMAIN Picture(p, asked) /\ "dim" \in DOMAIN Picture(p, asked)
    BY DEF Picture
  <1>2. [cells EXCEPT !.cells = Picture(p, asked).cells] = Picture(p, asked)
    BY DEF Shows
  <1>3. cells.palette = p.palette /\ cells.dim = p.dim
    BY <1>1, <1>2
  <1>4. Picture(cells, asked) = Picture(p, asked)
    BY <1>3 DEF Picture
  <1>5. p.paletteRevision \in Nat /\ p.dimRevision \in Nat
    BY DEF Painters
  <1> QED
    BY <1>3, <1>4, <1>5 DEF Faithful, RowHash

\* What is painted is what the painter has.
LEMMA PaintFaithful ==
    ASSUME NEW p, NEW shown, NEW lacking, shown = [s \in Slots |-> shown[s]],
           AllFaithful(p, shown, lacking), NEW slot \in Slots
    PROVE  AllFaithful(p, [shown EXCEPT ![slot] = Painted(p, @)], lacking)
  <1> DEFINE next == [shown EXCEPT ![slot] = Painted(p, @)]
  <1>1. next[slot] = Painted(p, shown[slot]) /\ \A s \in Slots \ {slot} : next[s] = shown[s]
    OBVIOUS
  <1>2. ASSUME NEW r \in Row
        PROVE  Faithful(p, lacking, next[slot].painted[r], next[slot].pixels[r])
    <2>1. /\ next[slot].painted[r] = p.hashes[r]
          /\ next[slot].pixels[r] = IF r \in Owed(p, shown[slot]) THEN p.cells[r]
                                    ELSE shown[slot].pixels[r]
      BY <1>1 DEF Painted
    <2>2. CASE r \in Owed(p, shown[slot])
      BY <2>1, <2>2 DEF AllFaithful
    <2>3. CASE r \notin Owed(p, shown[slot])
      <3>1. shown[slot].painted[r] = p.hashes[r]
        BY <2>3 DEF Owed
      <3> QED
        BY <2>1, <2>3, <3>1 DEF AllFaithful
    <2> QED
      BY <2>2, <2>3
  <1> HIDE DEF next
  <1>3. AllFaithful(p, next, lacking)
    BY <1>1, <1>2 DEF AllFaithful
  <1> QED
    BY <1>3 DEF next

\* Colours are resolved, and a dim is set, under a revision of its own.
LEMMA ResolvedLater ==
    ASSUME NEW H, NEW p \in Painters(H), NEW over
    PROVE  LET q == Resolve(p, over) IN
           /\ Later(p, q) /\ q.cells = p.cells
           /\ \A r \in Row : q.hashes[r] \in {None, p.hashes[r]}
           /\ q.paletteRevision = p.paletteRevision => q.palette = p.palette
           /\ q.dimRevision = p.dimRevision /\ q.dim = p.dim
  <1> DEFINE effective == [base |-> p.base, over |-> over]
             q == [p EXCEPT !.palette = effective, !.paletteRevision = @ + 1, !.hashes = Unhashed]
  <1>1. p.paletteRevision \in Nat
    BY DEF Painters
  <1>2. CASE p.palette = effective
    BY <1>2 DEF Resolve, Later
  <1>3. CASE p.palette # effective
    <2>1. Resolve(p, over) = q
      BY <1>3 DEF Resolve
    <2> HIDE DEF effective
    <2>2. /\ q.paletteRevision = p.paletteRevision + 1 /\ q.cells = p.cells
          /\ q.dimRevision = p.dimRevision /\ q.dim = p.dim /\ q.hashes = Unhashed
      BY DEF Painters
    <2> HIDE DEF q
    <2> QED
      BY <1>1, <2>1, <2>2 DEF Later, Unhashed
  <1> QED
    BY <1>2, <1>3

LEMMA SetDimLater ==
    ASSUME NEW H, NEW p \in Painters(H), NEW base, NEW dim
    PROVE  LET q == SetDim(SetBasePalette(p, base), dim) IN
           /\ Later(p, q) /\ q.cells = p.cells
           /\ \A r \in Row : q.hashes[r] \in {None, p.hashes[r]}
  <1> DEFINE b == SetBasePalette(p, base)
             q == [b EXCEPT !.dim = dim, !.dimRevision = @ + 1, !.hashes = Unhashed]
  <1>1. p.dimRevision \in Nat
    BY DEF Painters
  <1>2. /\ b.palette = p.palette /\ b.paletteRevision = p.paletteRevision /\ b.dim = p.dim
        /\ b.dimRevision = p.dimRevision /\ b.cells = p.cells /\ b.hashes = p.hashes
        /\ DOMAIN b = DOMAIN p
    BY DEF SetBasePalette, Painters
  <1> HIDE DEF b
  <1>3. CASE dim = b.dim
    BY <1>2, <1>3 DEF SetDim, Later, b
  <1>4. CASE dim # b.dim
    <2>1. SetDim(b, dim) = q
      BY <1>4 DEF SetDim
    <2>2. /\ q.paletteRevision = b.paletteRevision /\ q.palette = b.palette
          /\ q.dimRevision = b.dimRevision + 1 /\ q.cells = b.cells /\ q.hashes = Unhashed
      BY <1>2 DEF Painters
    <2> HIDE DEF q
    <2> QED
      BY <1>1, <1>2, <2>1, <2>2 DEF Later, Unhashed, b
  <1> QED
    BY <1>3, <1>4

\* A painter that kept its cells, and each hash or none, is as faithful.
LEMMA KeptFaithful ==
    ASSUME NEW H, NEW p \in Painters(H), NEW G, NEW q \in Painters(G), Later(p, q),
           q.cells = p.cells, \A r \in Row : q.hashes[r] \in {None, p.hashes[r]},
           NEW shown, NEW lacking, AllFaithful(p, shown, lacking)
    PROVE  AllFaithful(q, shown, lacking)
  <1>1. ASSUME NEW r \in Row PROVE Faithful(q, lacking, q.hashes[r], q.cells[r])
    <2>1. CASE q.hashes[r] = None
      BY <2>1 DEF Faithful
    <2>2. CASE q.hashes[r] = p.hashes[r]
      <3>1. Faithful(p, lacking, p.hashes[r], p.cells[r])
        BY DEF AllFaithful
      <3> QED
        BY <2>2, <3>1, StillFaithful
    <2> QED
      BY <2>1, <2>2
  <1>2. ASSUME NEW slot \in Slots, NEW r \in Row
        PROVE  Faithful(q, lacking, shown[slot].painted[r], shown[slot].pixels[r])
    <2>1. Faithful(p, lacking, shown[slot].painted[r], shown[slot].pixels[r])
      BY DEF AllFaithful
    <2> QED
      BY <2>1, StillFaithful
  <1> QED
    BY <1>1, <1>2 DEF AllFaithful

\* The rows a refresh builds show what it asks, and those it skips already did.
LEMMA RefreshedFaithful ==
    ASSUME NEW H, NEW p \in Painters(H), NEW shown, NEW lacking, AllFaithful(p, shown, lacking),
           NEW asked \in [Row -> Asks], NEW a
    PROVE  LET hashes == Hashes(p, asked)
               pictures == Pictures(p, asked, hashes)
               more == lacking \cup (Wanted(pictures) \ Registered(a))
           IN  AllFaithful(Refreshed(p, pictures, hashes, a), shown, more)
  <1> DEFINE hashes == Hashes(p, asked)
             pictures == Pictures(p, asked, hashes)
             more == lacking \cup (Wanted(pictures) \ Registered(a))
             q == Refreshed(p, pictures, hashes, a)
  <1>1. p.palette \in [base: Bases, over: Overs] /\ p.dim \in Dims
    BY DEF Painters
  <1>2. \A r \in Row : hashes[r] = RowHash(p, asked[r])
    BY DEF Hashes
  <1>3. /\ DOMAIN pictures = Stale(p, hashes)
        /\ \A r \in DOMAIN pictures : /\ pictures[r] = Picture(p, asked[r])
                                      /\ pictures[r] \in RowPicture
                                      /\ pictures[r].cells \in [Column -> Cell]
    BY <1>1, PicturesTyped
  <1>4. q \in Painters({hashes[row] : row \in Row})
    BY RefreshedTyped
  <1>5. /\ q.hashes = hashes
        /\ q.cells = [r \in Row |-> IF r \in DOMAIN pictures THEN Built(a, pictures[r])
                                    ELSE p.cells[r]]
        /\ q.paletteRevision = p.paletteRevision /\ q.palette = p.palette
        /\ q.dimRevision = p.dimRevision /\ q.dim = p.dim
    <2> HIDE DEF hashes, pictures
    <2> QED
      BY DEF Refreshed, Painters
  <1>6. Later(p, q)
    <2> HIDE DEF q
    <2> QED
      BY <1>5 DEF Later
  <1>7. \A r \in DOMAIN pictures, x \in Column :
           pictures[r].cells[x] \notin {Blank, Spacer} \cup Registered(a)
             => pictures[r].cells[x] \in more
    <2> HIDE DEF pictures
    <2> QED
      BY DEF Wanted
  <1> HIDE DEF q, pictures, hashes, more
  <1>8. lacking \subseteq more
    BY DEF more
  <1>9. ASSUME NEW r \in Row PROVE Faithful(q, more, q.hashes[r], q.cells[r])
    <2>1. CASE r \in DOMAIN pictures
      <3>1. q.cells[r] = Built(a, pictures[r])
        BY <1>5, <2>1
      <3>2. Shows(q.cells[r], Picture(p, asked[r]), more)
        BY <1>3, <1>7, <2>1, <3>1, BuiltShows
      <3>3. Faithful(p, more, RowHash(p, asked[r]), q.cells[r])
        BY <3>2, RowFaithful
      <3>4. Faithful(q, more, RowHash(p, asked[r]), q.cells[r])
        BY <1>4, <1>6, <3>3, StillFaithful
      <3> QED
        BY <1>2, <1>5, <3>4
    <2>2. CASE r \notin DOMAIN pictures
      <3>1. q.cells[r] = p.cells[r] /\ q.hashes[r] = p.hashes[r]
        BY <1>3, <1>5, <2>2 DEF Stale
      <3>2. Faithful(p, lacking, p.hashes[r], p.cells[r])
        BY DEF AllFaithful
      <3> QED
        BY <1>4, <1>6, <1>8, <3>1, <3>2, StillFaithful
    <2> QED
      BY <2>1, <2>2
  <1>10. ASSUME NEW slot \in Slots, NEW r \in Row
         PROVE  Faithful(q, more, shown[slot].painted[r], shown[slot].pixels[r])
    <2>1. Faithful(p, lacking, shown[slot].painted[r], shown[slot].pixels[r])
      BY DEF AllFaithful
    <2> QED
      BY <1>4, <1>6, <1>8, <2>1, StillFaithful
  <1>11. AllFaithful(q, shown, more)
    BY <1>9, <1>10 DEF AllFaithful
  <1> QED
    BY <1>11 DEF q, pictures, hashes, more

LEMMA FreshFaithful ==
    ASSUME NEW base \in Bases, NEW lacking
    PROVE  AllFaithful(NewPainter(base), [slot \in Slots |-> FreshTarget], lacking)
  BY DEF AllFaithful, Faithful, NewPainter, FreshTarget, Unhashed

LEMMA InitPainted == Init => PaintInv
  <1> SUFFICES ASSUME Init PROVE AllFaithful(painter, targets, unplaced)
    BY DEF PaintInv
  <1>1. PICK base \in Bases : base = CHOOSE b \in Bases : TRUE
    BY SurfaceAssumption
  <1>2. painter = NewPainter(base) /\ targets = [slot \in Slots |-> FreshTarget]
    BY <1>1 DEF Init
  <1> QED
    BY <1>2, FreshFaithful

LEMMA StepPainted == TypeOK /\ PaintInv /\ [Next]_vars => PaintInv'
  <1> SUFFICES ASSUME TypeOK, AllFaithful(painter, targets, unplaced), [Next]_vars
               PROVE  AllFaithful(painter', targets', unplaced')
    BY DEF PaintInv
  <1> DEFINE H == {painter.hashes[row] : row \in Row} \cup {None}
  <1>1. painter \in Painters(H) /\ targets = [slot \in Slots |-> targets[slot]]
    BY DEF TypeOK, Painters
  <1>2. CASE Output
    BY <1>2, OutputTyped DEF painting
  <1>3. CASE Command
    BY <1>3, CommandTyped DEF painting
  <1>4. CASE TakePending
    <2>1. PICK base \in Bases : painter' = NewPainter(base)
      BY <1>4 DEF TakePending
    <2>2. targets' = [slot \in Slots |-> FreshTarget]
      BY <1>4 DEF TakePending
    <2> QED
      BY <2>1, <2>2, FreshFaithful
  <1>5. CASE ReadControl
    <2> DEFINE q == SetDim(SetBasePalette(painter, control.base), control.dim)
    <2>1. painter' = q /\ UNCHANGED <<targets, unplaced>>
      BY <1>5 DEF ReadControl
    <2>2. q \in Painters(H)
      BY <1>1, SetDimTyped DEF TypeOK, Controls
    <2>3. Later(painter, q) /\ q.cells = painter.cells
            /\ \A r \in Row : q.hashes[r] \in {None, painter.hashes[r]}
      BY <1>1, SetDimLater
    <2> HIDE DEF q, H
    <2>4. AllFaithful(q, targets, unplaced)
      BY <1>1, <2>2, <2>3, KeptFaithful
    <2> QED
      BY <2>1, <2>4
  <1>6. CASE Refresh
    <2> DEFINE resolved == Resolve(painter, mirror.over)
    <2>1. PICK asked \in [Row -> Asks], outcomes \in [Glyphs -> Outcome] :
              LET hashes == Hashes(resolved, asked)
                  pictures == Pictures(resolved, asked, hashes)
                  packed == RefreshedAtlas(pictures, atlas, outcomes)
                  fresh == Refreshed(resolved, pictures, hashes, packed)
              IN  /\ atlas' = packed
                  /\ painter' = fresh
                  /\ unplaced' = unplaced \cup (Wanted(pictures) \ Registered(packed))
                  /\ (\E slot \in Slots : Paint(slot, fresh)) \/ PaintMissed
      BY <1>6, Refreshes
    <2>2. resolved \in Painters(H)
      BY <1>1, ResolveTyped DEF TypeOK, Mirrors
    <2>3. Later(painter, resolved) /\ resolved.cells = painter.cells
            /\ \A r \in Row : resolved.hashes[r] \in {None, painter.hashes[r]}
      BY <1>1, ResolvedLater
    <2> HIDE DEF resolved, H
    <2>4. AllFaithful(resolved, targets, unplaced)
      BY <1>1, <2>2, <2>3, KeptFaithful
    <2> DEFINE hashes == Hashes(resolved, asked)
               pictures == Pictures(resolved, asked, hashes)
               packed == RefreshedAtlas(pictures, atlas, outcomes)
               fresh == Refreshed(resolved, pictures, hashes, packed)
               more == unplaced \cup (Wanted(pictures) \ Registered(packed))
    <2>5. AllFaithful(fresh, targets, more)
      BY <2>2, <2>4, RefreshedFaithful
    <2>6. painter' = fresh /\ unplaced' = more
            /\ ((\E slot \in Slots : Paint(slot, fresh)) \/ PaintMissed)
      BY <2>1
    <2> HIDE DEF fresh, more
    <2>7. CASE \E slot \in Slots : Paint(slot, fresh)
      <3>1. PICK slot \in Slots : targets' = [targets EXCEPT ![slot] = Painted(fresh, @)]
        BY <2>7 DEF Paint
      <3>2. AllFaithful(fresh, [targets EXCEPT ![slot] = Painted(fresh, @)], more)
        BY <1>1, <2>5, PaintFaithful
      <3> QED
        BY <2>6, <3>1, <3>2
    <2>8. CASE PaintMissed
      BY <2>5, <2>6, <2>8 DEF PaintMissed
    <2> QED
      BY <2>6, <2>7, <2>8
  <1>7. CASE UNCHANGED vars
    BY <1>7 DEF vars
  <1> QED
    BY <1>2, <1>3, <1>4, <1>5, <1>6, <1>7 DEF Next, Iteration

\* A row whose hash is what a refresh asks for shows an asking of that hash, in the dim of now.
LEMMA SkippedIsConfused ==
    ASSUME NEW H, NEW p \in Painters(H), NEW asked \in Asks, NEW hash, hash # None, NEW cells,
           Faithful(p, unplaced, hash, cells), hash = RowHash(p, asked)
    PROVE  Confused(p, asked, cells)
  <1>1. p.paletteRevision \in Nat /\ p.dimRevision \in Nat
    BY DEF Painters
  <1>2. PICK before \in Asks, revision \in 0..p.paletteRevision, dim \in 0..p.dimRevision :
            /\ hash = Hashed(revision, dim, before)
            /\ revision = p.paletteRevision => cells.palette = p.palette
            /\ dim = p.dimRevision => cells.dim = p.dim
            /\ Shows(cells, Picture(cells, before), unplaced)
    BY DEF Faithful
  <1>3. hash = Hashed(p.paletteRevision, p.dimRevision, asked)
    BY DEF RowHash
  <1>4. dim = p.dimRevision
    BY <1>2, <1>3 DEF Hashed
  <1>5. cells # None /\ cells.dim = p.dim
    BY <1>2, <1>4 DEF Shows
  <1> QED
    BY <1>2, <1>3, <1>4, <1>5 DEF Confused

\* A row that is not painted again on some slot shows what is asked of it, or an asking that
\* row_hash takes to the same number: nothing else a row is painted from, on whichever slot and
\* however long ago, can have changed under its hash.
THEOREM SkippedRows == Spec => []StaleOnlyByCollision
  <1>1. TypeOK /\ PaintInv => StaleOnlyByCollision
    <2> DEFINE resolved == Resolve(painter, mirror.over)
               H == {painter.hashes[r] : r \in Row} \cup {None}
    <2> SUFFICES ASSUME TypeOK, PaintInv, NEW on \in Phases, NEW slot \in Slots, NEW row \in Row,
                        Skipped(resolved, Asked(on)[row], slot, row)
                 PROVE  Confused(resolved, Asked(on)[row], targets[slot].pixels[row])
      BY DEF StaleOnlyByCollision
    <2>1. painter \in Painters(H)
      BY DEF TypeOK, Painters
    <2>2. resolved \in Painters(H)
      BY <2>1, ResolveTyped DEF TypeOK, Mirrors
    <2>3. Asked(on)[row] \in Asks
      <3>1. on \in BOOLEAN
        BY DEF Phases
      <3> QED
        BY <3>1, AskedTyped
    <2>4. Faithful(painter, unplaced, targets[slot].painted[row], targets[slot].pixels[row])
      BY DEF PaintInv, AllFaithful
    <2>5. Later(painter, resolved)
      BY <2>1, ResolvedLater
    <2> HIDE DEF resolved, H
    <2>6. Faithful(resolved, unplaced, targets[slot].painted[row], targets[slot].pixels[row])
      BY <2>1, <2>2, <2>4, <2>5, StillFaithful
    <2> QED
      BY <2>2, <2>3, <2>6, SkippedIsConfused DEF Skipped
  <1> QED
    BY <1>1, InitPainted, StepPainted, PaintTypes, PTL DEF Spec
================================================================================
