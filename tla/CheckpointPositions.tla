-------------------------- MODULE CheckpointPositions --------------------------
(***************************************************************************)
(* The coordinate a checkpoint carries and how two of them compare.  A     *)
(* generation names one shell of a pane and has no order; only the output  *)
(* sequences of one generation are ordered (src/src/checkpoint.rs, commit).*)
(***************************************************************************)
EXTENDS Integers

CONSTANTS
    Generations,  \* the PTY generations that may hold the pane
    Sequences,    \* the output sequences a checkpoint may carry
    NoOwner,      \* nobody owns the pane
    Absent        \* there is no archived checkpoint

Position == [generation: Generations, sequence: Sequences]

ASSUME PositionAssumption ==
    /\ Sequences \subseteq Nat
    /\ NoOwner \notin Generations
    /\ Absent \notin Position

\* `archive` already carries this generation at this sequence or later.
Holds(archive, position) ==
    /\ archive # Absent
    /\ archive.generation = position.generation
    /\ archive.sequence >= position.sequence
================================================================================
