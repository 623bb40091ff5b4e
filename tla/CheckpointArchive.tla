--------------------------- MODULE CheckpointArchive ---------------------------
(***************************************************************************)
(* What the checkpoint store promises about one pane, with every call made *)
(* in one step.  A pane's archive belongs to one PTY generation at a time: *)
(* only the generation that owns the pane replaces the archive, and it     *)
(* only ever replaces its own archive with a later one.  Ownership passes  *)
(* by claim, whatever the generations' numbers are.                        *)
(*                                                                         *)
(* CheckpointStore is the code; its refinement of this module is checked   *)
(* by TLC and proved in CheckpointStoreProofs.                             *)
(***************************************************************************)
EXTENDS CheckpointPositions

VARIABLES
    holder,       \* the generation that owns the pane, or NoOwner
    archived      \* the checkpoint a reader finds, or Absent

archiveVars == <<holder, archived>>

ArchiveInit == holder = NoOwner /\ archived = Absent

\* A new generation takes the pane over; what is archived stays readable.
Claim(g) == holder' = g /\ archived' = archived

\* The pane is left without owner: a removal started, or a claim was cut short.
Disown == holder' = NoOwner /\ archived' = archived

\* The owner moves the archive forward.
Commit(position) ==
    /\ holder = position.generation
    /\ ~Holds(archived, position)
    /\ archived' = position
    /\ holder' = holder

\* Only an unowned pane loses its archive.
Erase == holder = NoOwner /\ archived' = Absent /\ holder' = holder

ArchiveNext ==
    \/ \E g \in Generations : Claim(g)
    \/ Disown
    \/ \E position \in Position : Commit(position)
    \/ Erase

ArchiveSpec == ArchiveInit /\ [][ArchiveNext]_archiveVars
================================================================================
