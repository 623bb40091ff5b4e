---------------------------- MODULE MCPaneObservers ----------------------------
\* PaneObservers with its constants from the configuration.  No symmetry: liveness is checked.
EXTENDS PaneObservers

================================================================================
