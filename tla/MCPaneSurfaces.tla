---------------------------- MODULE MCPaneSurfaces -----------------------------
\* PaneSurfaces with its constants from the configuration, and its symmetry.
EXTENDS PaneSurfaces, TLC

Interchangeable == Permutations(Surfaces) \cup Permutations(Closes) \cup Permutations(Slots)
================================================================================
