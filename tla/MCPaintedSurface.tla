--------------------------- MODULE MCPaintedSurface ---------------------------
(* A grid of two rows and three columns over one line of history, a page that holds two of *)
(* the three glyphs, and a gesture of another kind among the strokes.                      *)
EXTENDS PaintedSurface

MCGlyphs == {<<1>>, <<5>>, <<7, 7, 7>>}

MCSize == [glyph \in MCGlyphs |-> IF Len(glyph) = 3 THEN [w |-> 3, h |-> 2] ELSE [w |-> 1, h |-> 1]]

MCWritten == {<<1>>}

MCCompositions == {[text |-> <<<<7, 7, 7>>>>, caret |-> 0],
                   [text |-> <<<<5>>>>, caret |-> 1]}

\* The first two are one hash in columns 1 and 2.
MCStyles == {[shape |-> "block", blinking |-> FALSE], [shape |-> "block", blinking |-> TRUE]}

MCDims == {0, 1}

MCOvers == {None, "over"}

MCStrokes == {[id |-> 1, kind |-> "simple"], [id |-> 2, kind |-> "simple"], [id |-> 1, kind |-> "lines"]}

MCSpots == {<<0, 1>>, <<0, 2>>, <<1, 0>>}

MCPoints == {<<0, 0>>, <<Rows - 1, Cols - 1>>}

=====
