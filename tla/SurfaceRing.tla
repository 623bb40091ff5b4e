------------------------------ MODULE SurfaceRing ------------------------------
(***************************************************************************)
(* The ring of surfaces that a render thread paints and the application    *)
(* shows (src/src/render/surface_ring.rs), as the thread sees it: which    *)
(* slots it may paint, which it takes for the shown one, and which it      *)
(* signalled last.  The rule itself is in the contract crate, outside src/:*)
(* a slot that is taken for the shown one is not released.                 *)
(***************************************************************************)
EXTENDS Functions

CONSTANTS
    Slots,  \* the surfaces of a ring
    None    \* no slot

\* ring.shown: the application moved onto the slot signalled last.
MoveOn(held) ==
    IF held.signalled = None THEN held
    ELSE [held EXCEPT !.signalled = None, !.shown = held.signalled]

\* Mutant of ReturnAll: the slot shown before is freed, whatever was returned.
ReturnPrevious(held, slots) ==
    IF slots = {} THEN held ELSE [MoveOn(held) EXCEPT !.free = @ \cup {held.shown}]

\* Mutant of ReturnAll: the slots to display and to release are swapped.
ReturnSwapped(held, slots) ==
    IF slots = {} THEN held
    ELSE [held EXCEPT !.signalled = None, !.shown = CHOOSE slot \in slots : TRUE,
                      !.free = @ \cup ({held.signalled} \ {None})]

\* What the slots returned since the last iteration leave.  The first of them means that the
\* application moved on; then each is released that is not the shown one, in any order.
ReturnAll(held, slots) ==
    IF slots = {} THEN held
    ELSE [MoveOn(held) EXCEPT !.free = @ \cup (slots \ {MoveOn(held).shown})]
================================================================================
