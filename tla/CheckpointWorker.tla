--------------------------- MODULE CheckpointWorker ---------------------------
(***************************************************************************)
(* How a pane's checkpoints come about (src/src/runtime.rs): sessions that *)
(* claim the pane and install their mirror, the consumer of each, which    *)
(* reports what it applied, the checkpoint worker of each, which coalesces *)
(* the reports and writes the mirror's paint, and terminal.archive and     *)
(* terminal.retire.  The store is taken at its promise, CheckpointArchive, *)
(* which CheckpointStore is proved to implement; so a call of it is a step.*)
(*                                                                         *)
(* A session is its PTY generation here, opened once.  A mirror is the set *)
(* of output chunks drawn in it.  The mirror's lock makes a paint one step *)
(* with the write that stores it.                                          *)
(***************************************************************************)
EXTENDS CheckpointArchive, Sequences

CONSTANTS
    LastOutput,   \* session -> bound on what its stream delivers
    MaxFailures,  \* bound on the store's failures
    None          \* no registry entry

ASSUME WorkerAssumption ==
    /\ LastOutput \in [Generations -> Nat]
    /\ \A g \in Generations : 0..LastOutput[g] \subseteq Sequences
    /\ MaxFailures \in Nat
    /\ None \notin Generations

VARIABLES
    entry,     \* the registry entry: its session, its mirror arc, its source sequence
    drawn,     \* mirror arc -> chunks drawn in it; an arc is named after its first session
    session,   \* session -> its caller's or consumer's control point and locals
    queue,     \* session -> checkpoint events on their way to its worker
    worker,    \* session -> its worker's control point and the latest event
    failures,  \* store calls that failed so far
    painted,   \* history: the chunks the archived paint shows
    drawnFor,  \* history: mirror arc -> the session its content is of
    strays,    \* history: sessions into whose mirror another session's output went
    raced      \* history: two sessions were being installed at once

vars == <<entry, drawn, session, queue, worker, failures, holder, archived, painted,
          drawnFor, strays, raced>>

store == <<holder, archived, painted, failures>>
history == <<drawnFor, strays, raced>>

Event == [final: BOOLEAN, sequence: Sequences]

\* A worker without an event.
Waiting == [at |-> "receive", final |-> FALSE, sequence |-> 0]
Stopped == [Waiting EXCEPT !.at = "done"]

At(g, point) == session[g].at = point

Goto(g, here, there) ==
    /\ At(g, here)
    /\ session' = [session EXCEPT ![g].at = there]

Owns(g) == entry # None /\ entry.generation = g

Installing(g) == session[g].at \in {"create", "replace", "insert"}

\* Its consumer's end of the channel is gone.
Disconnected(g) == At(g, "evict") \/ At(g, "done")

Init ==
    /\ ArchiveInit
    /\ entry = None
    /\ drawn = [g \in Generations |-> {}]
    /\ session = [g \in Generations |->
                    [at |-> "idle", arc |-> g, base |-> {}, restored |-> FALSE, drop |-> FALSE,
                     delivered |-> 0, applied |-> 0, gapped |-> FALSE, finished |-> FALSE]]
    /\ queue = [g \in Generations |-> <<>>]
    /\ worker = [g \in Generations |-> Waiting]
    /\ failures = 0
    /\ painted = {}
    /\ drawnFor = [g \in Generations |-> g]
    /\ strays = {}
    /\ raced = FALSE

--------------------------------------------------------------------------------
\* terminal.ensureSession with a token: claim, then the mirror, then the entry.

ClaimGeneration(g) ==
    /\ Goto(g, "idle", "create")
    /\ Claim(g)
    /\ raced' = (raced \/ \E other \in Generations : Installing(other))
    /\ UNCHANGED <<entry, drawn, queue, worker, failures, painted, drawnFor, strays>>

\* The claim fails, perhaps after it emptied the owner file; the session is not observed.
ClaimFails(g) ==
    /\ Goto(g, "idle", "done")
    /\ failures < MaxFailures
    /\ failures' = failures + 1
    /\ holder' \in {holder, NoOwner}
    /\ UNCHANGED <<entry, drawn, queue, worker, archived, painted, history>>

\* create_session_mirror: the mirror starts with the archive, if there is one and it
\* can be read, as its history; the session's first output, the replay of what was
\* archived, will then not be drawn.
CreateMirror(g) ==
    /\ At(g, "create")
    /\ \/ /\ archived # Absent
          /\ session' = [session EXCEPT ![g].at = "replace", ![g].base = painted,
                                        ![g].restored = TRUE, ![g].drop = TRUE]
       \/ session' = [session EXCEPT ![g].at = "replace"]
    /\ UNCHANGED <<entry, drawn, queue, worker, store, history>>

\* A mirror that an entry holds is refilled with the new session's content.
InstallMirror(g) ==
    LET arc == IF entry = None THEN g ELSE entry.arc IN
    /\ At(g, "replace")
    /\ session' = [session EXCEPT ![g].at = "insert", ![g].arc = arc]
    /\ drawn' = [drawn EXCEPT ![arc] = session[g].base]
    /\ drawnFor' = [drawnFor EXCEPT ![arc] = g]
    /\ UNCHANGED <<entry, queue, worker, store, strays, raced>>

InsertEntry(g) ==
    /\ Goto(g, "insert", "consume")
    /\ entry' = [generation |-> g, arc |-> session[g].arc, source |-> 0]
    /\ UNCHANGED <<drawn, queue, worker, store, history>>

--------------------------------------------------------------------------------
\* The consumer

Admit(g) ==
    /\ At(g, "consume")
    /\ Owns(g)
    /\ session[g].delivered < LastOutput[g]
    /\ session' = [session EXCEPT ![g].at = "feed", ![g].delivered = @ + 1]
    /\ UNCHANGED <<entry, drawn, queue, worker, store, history>>

\* Mutant of Feed: the position after the output for the position through it.
FeedPast(g) ==
    LET arc == session[g].arc
        output == <<g, session[g].delivered>>
    IN
    /\ At(g, "feed")
    /\ session' = [session EXCEPT ![g].at = "publish", ![g].drop = FALSE,
                                  ![g].applied = session[g].delivered + 1]
    /\ drawn' = IF session[g].drop THEN drawn ELSE [drawn EXCEPT ![arc] = @ \cup {output}]
    /\ strays' = strays \cup ({drawnFor[arc]} \ {g})
    /\ UNCHANGED <<entry, queue, worker, store, drawnFor, raced>>

\* The output is drawn, unless it is the replay that follows a restore.
Feed(g) ==
    LET arc == session[g].arc
        output == <<g, session[g].delivered>>
    IN
    /\ At(g, "feed")
    /\ session' = [session EXCEPT ![g].at = "publish", ![g].drop = FALSE,
                                  ![g].applied = session[g].delivered]
    /\ drawn' = IF session[g].drop THEN drawn ELSE [drawn EXCEPT ![arc] = @ \cup {output}]
    /\ strays' = strays \cup ({drawnFor[arc]} \ {g})
    /\ UNCHANGED <<entry, queue, worker, store, drawnFor, raced>>

\* The source's position moves and the worker is told.
Publish(g) ==
    /\ At(g, "publish")
    /\ \/ /\ Owns(g)
          /\ session' = [session EXCEPT ![g].at = "consume"]
          /\ entry' = [entry EXCEPT !.source = session[g].delivered]
          /\ queue' = [queue EXCEPT ![g] =
                          Append(@, [final |-> FALSE, sequence |-> session[g].delivered])]
       \/ /\ ~Owns(g)
          /\ session' = [session EXCEPT ![g].at = "evict"]
          /\ UNCHANGED <<entry, queue>>
    /\ UNCHANGED <<drawn, worker, store, history>>

Gap(g) ==
    /\ At(g, "consume")
    /\ Owns(g)
    /\ session[g].delivered < LastOutput[g]
    /\ session' = [session EXCEPT ![g].delivered = @ + 1, ![g].gapped = TRUE]
    /\ entry' = [entry EXCEPT !.source = session[g].delivered + 1]
    /\ UNCHANGED <<drawn, queue, worker, store, history>>

\* Mutant of End: the worker is told of one more report, not of the last.
EndAsReport(g) ==
    /\ At(g, "consume")
    /\ Owns(g)
    /\ queue' = [queue EXCEPT ![g] = Append(@, [final |-> FALSE, sequence |-> entry.source])]
    /\ session' = [session EXCEPT ![g].at = "evict", ![g].finished = TRUE]
    /\ UNCHANGED <<entry, drawn, worker, store, history>>

\* The session's end: the worker is told of the source's last position.
End(g) ==
    /\ At(g, "consume")
    /\ Owns(g)
    /\ queue' = [queue EXCEPT ![g] = Append(@, [final |-> TRUE, sequence |-> entry.source])]
    /\ session' = [session EXCEPT ![g].at = "evict", ![g].finished = TRUE]
    /\ UNCHANGED <<entry, drawn, worker, store, history>>

\* The stream closes or fails, or its session is no longer the entry's.
Closed(g) ==
    /\ Goto(g, "consume", "evict")
    /\ UNCHANGED <<entry, drawn, queue, worker, store, history>>

Evict(g) ==
    /\ At(g, "evict")
    /\ session' = [session EXCEPT ![g].at = "done", ![g].applied = 0, ![g].drop = FALSE]
    /\ entry' = IF Owns(g) THEN None ELSE entry
    /\ UNCHANGED <<drawn, queue, worker, store, history>>

--------------------------------------------------------------------------------
\* Writes

\* Mutant of Write: whoever asks is taken for the owner.
WriteUnowned(g, arc, sequence) ==
    /\ ~Holds(archived, [generation |-> g, sequence |-> sequence])
    /\ archived' = [generation |-> g, sequence |-> sequence]
    /\ painted' = drawn[arc]
    /\ UNCHANGED holder

\* store.write of what the mirror at arc draws: refused, skipped, or committed.
Write(g, arc, sequence) ==
    LET position == [generation |-> g, sequence |-> sequence] IN
    \/ /\ Commit(position)
       /\ painted' = drawn[arc]
    \/ /\ holder # g \/ Holds(archived, position)
       /\ UNCHANGED <<holder, archived, painted>>

\* A worker that has its last event takes no more.
Listening(g) ==
    \/ worker[g].at = "receive"
    \/ worker[g].at = "coalesce" /\ ~worker[g].final

\* checkpoint_worker: the first event starts 250 ms, the last one in them counts.
Receive(g) ==
    /\ Listening(g)
    /\ queue[g] # <<>>
    /\ worker' = [worker EXCEPT ![g] =
                    [at |-> "coalesce", final |-> Head(queue[g]).final,
                     sequence |-> Head(queue[g]).sequence]]
    /\ queue' = [queue EXCEPT ![g] = Tail(@)]
    /\ UNCHANGED <<entry, drawn, session, store, history>>

\* The time is over, or the event was the last, and the mirror is painted and written.
WriteLatest(g) ==
    /\ worker[g].at = "coalesce"
    /\ worker' = [worker EXCEPT ![g] = IF @.final THEN Stopped ELSE Waiting]
    /\ \/ /\ Write(g, session[g].arc, worker[g].sequence)
          /\ UNCHANGED failures
       \/ /\ failures < MaxFailures
          /\ failures' = failures + 1
          /\ UNCHANGED <<holder, archived, painted>>
    /\ UNCHANGED <<entry, drawn, session, queue, history>>

\* Nobody will send again: the worker ends, with whatever it was coalescing.
Abandon(g) ==
    /\ Listening(g)
    /\ queue[g] = <<>>
    /\ Disconnected(g)
    /\ worker' = [worker EXCEPT ![g] = Stopped]
    /\ UNCHANGED <<entry, drawn, session, queue, store, history>>

\* terminal.archive: the entry's generation, its atomic and its mirror, under both locks.  A
\* store call that fails is answered, and changes nothing.
Archive ==
    /\ entry # None
    /\ Write(entry.generation, entry.arc, session[entry.generation].applied)
    /\ UNCHANGED <<entry, drawn, session, queue, worker, failures, history>>

\* terminal.retire: the owner goes, and then the file, unless that fails.
Retire ==
    /\ holder' = NoOwner
    /\ \/ archived' = Absent /\ painted' = {}
       \/ UNCHANGED <<archived, painted>>
    /\ UNCHANGED <<entry, drawn, session, queue, worker, failures, history>>

Installer(g) ==
    \/ ClaimGeneration(g) \/ ClaimFails(g)
    \/ CreateMirror(g) \/ InstallMirror(g) \/ InsertEntry(g)

Consumer(g) ==
    Admit(g) \/ Feed(g) \/ Publish(g) \/ Gap(g) \/ End(g) \/ Closed(g) \/ Evict(g)

Worker(g) == Receive(g) \/ WriteLatest(g) \/ Abandon(g)

Next ==
    \/ \E g \in Generations : Installer(g) \/ Consumer(g) \/ Worker(g)
    \/ Archive \/ Retire

Spec == Init /\ [][Next]_vars

--------------------------------------------------------------------------------
\* Properties

TypeOK ==
    /\ entry \in [generation: Generations, arc: Generations, source: Sequences] \cup {None}
    /\ drawn \in [Generations -> SUBSET (Generations \X Sequences)]
    /\ session \in [Generations ->
                     [at: {"idle", "create", "replace", "insert", "consume", "feed",
                           "publish", "evict", "done"},
                      arc: Generations, base: SUBSET (Generations \X Sequences),
                      restored: BOOLEAN, drop: BOOLEAN, delivered: Sequences, applied: Sequences,
                      gapped: BOOLEAN, finished: BOOLEAN]]
    /\ queue \in [Generations -> Seq(Event)]
    /\ worker \in [Generations -> [at: {"receive", "coalesce", "done"}, final: BOOLEAN,
                                   sequence: Sequences]]
    /\ failures \in 0..MaxFailures
    /\ holder \in Generations \cup {NoOwner}
    /\ archived \in Position \cup {Absent}
    /\ painted \subseteq Generations \X Sequences
    /\ drawnFor \in [Generations -> Generations]
    /\ strays \subseteq Generations
    /\ raced \in BOOLEAN

\* What the paint of g's mirror shows once it has applied g's output through a
\* sequence, and no output was lost: what it was restored with, and then all of its
\* own output but the replay.
Screen(g, through) ==
    LET first == IF session[g].restored THEN 2 ELSE 1
    IN  session[g].base \cup {g} \X {s \in Sequences : first <= s /\ s <= through}

\* An archived checkpoint is what its label says: the paint is the screen of its
\* generation, at its sequence or later, although the label is older than the paint,
\* the worker of a replaced session shares the replacement's mirror, and
\* terminal.archive writes beside the workers.
ArchiveIsItsLabel ==
    \A g \in Generations \ strays :
        archived # Absent /\ archived.generation = g /\ ~session[g].gapped /\ ~raced
            => \E through \in Sequences :
                  archived.sequence <= through /\ painted = Screen(g, through)

\* The worker of a session that ended stops with its last output archived, whatever it
\* was coalescing when the end came and the consumer went, unless another owner has
\* the pane or the store has failed.
EndIsArchived ==
    \A g \in Generations :
        session[g].finished /\ worker[g].at = "done"
            => \/ Holds(archived, [generation |-> g, sequence |-> session[g].delivered])
               \/ holder # g
               \/ failures > 0
================================================================================
