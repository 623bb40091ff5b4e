---------------------------- MODULE MCRenderThread ----------------------------
\* RenderThread with scenes, grids and slots that are interchangeable.
EXTENDS RenderThread, TLC

Interchangeable == Permutations(Scenes) \cup Permutations(Slots) \cup Permutations(Grids)

================================================================================
