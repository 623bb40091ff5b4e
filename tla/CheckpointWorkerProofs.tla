------------------------- MODULE CheckpointWorkerProofs -------------------------
(***************************************************************************)
(* That a checkpoint is the screen its label says, and that the last output*)
(* of a session that ended is archived, for any number of sessions that    *)
(* take a pane over from one another, whatever they deliver, lose or fail  *)
(* to write, and whenever terminal.archive and terminal.retire come.       *)
(***************************************************************************)
EXTENDS CheckpointWorker, TLAPS

--------------------------------------------------------------------------------
\* What every variable holds.

Chunks == Generations \X Sequences

EntryRecord == [generation: Generations, arc: Generations, source: Sequences]

SessionRecord ==
    [at: {"idle", "create", "replace", "insert", "consume", "feed", "publish", "evict", "done"},
     arc: Generations, base: SUBSET Chunks, restored: BOOLEAN, drop: BOOLEAN,
     delivered: Sequences, applied: Sequences, gapped: BOOLEAN, finished: BOOLEAN]

WorkerRecord == [at: {"receive", "coalesce", "done"}, final: BOOLEAN, sequence: Sequences]

SessionTyped == session \in [Generations -> SessionRecord]

PaneTyped == entry \in EntryRecord \cup {None} /\ drawn \in [Generations -> SUBSET Chunks]

WorkTyped ==
    /\ queue \in [Generations -> Seq(Event)]
    /\ worker \in [Generations -> WorkerRecord]

StoreTyped ==
    /\ failures \in 0..MaxFailures
    /\ holder \in Generations \cup {NoOwner}
    /\ archived \in Position \cup {Absent}
    /\ painted \subseteq Chunks

HistoryTyped ==
    /\ drawnFor \in [Generations -> Generations]
    /\ strays \subseteq Generations
    /\ raced \in BOOLEAN

LEMMA TypesByPart ==
    /\ TypeOK <=> SessionTyped /\ PaneTyped /\ WorkTyped /\ StoreTyped /\ HistoryTyped
    /\ (SessionTyped /\ PaneTyped /\ WorkTyped /\ StoreTyped /\ HistoryTyped)' => TypeOK'
  BY DEF TypeOK, SessionTyped, PaneTyped, WorkTyped, StoreTyped, HistoryTyped, Chunks,
         EntryRecord, SessionRecord, WorkerRecord

\* What is delivered can be a checkpoint's sequence.
LEMMA Sequence ==
    /\ \A s \in Sequences : s \in Nat
    /\ \A g \in Generations :
          /\ LastOutput[g] \in Nat /\ 0 \in Sequences
          /\ \A n \in Nat : n <= LastOutput[g] => n \in Sequences
  <1>1. Sequences \subseteq Nat
    BY PositionAssumption
  <1>2. ASSUME NEW g \in Generations
        PROVE  /\ LastOutput[g] \in Nat /\ 0 \in Sequences
               /\ \A n \in Nat : n <= LastOutput[g] => n \in Sequences
    BY WorkerAssumption
  <1> QED
    BY <1>1, <1>2

LEMMA InitTyped == Init => TypeOK
  <1> SUFFICES ASSUME Init PROVE TypeOK
    OBVIOUS
  <1>1. SessionTyped
    BY Sequence DEF Init, SessionTyped, SessionRecord
  <1>2. PaneTyped
    BY DEF Init, PaneTyped
  <1>3. WorkTyped
    BY Sequence DEF Init, WorkTyped, WorkerRecord, Waiting
  <1>4. StoreTyped
    BY WorkerAssumption DEF Init, ArchiveInit, StoreTyped
  <1>5. HistoryTyped
    BY DEF Init, HistoryTyped
  <1> QED
    BY <1>1, <1>2, <1>3, <1>4, <1>5, TypesByPart

LEMMA RecordTyped ==
    ASSUME SessionTyped, NEW g \in Generations, NEW record \in SessionRecord,
           session' = [session EXCEPT ![g] = record]
    PROVE  SessionTyped'
  BY DEF SessionTyped

\* The session's own steps.
LEMMA InstallerTyped ==
    ASSUME TypeOK, NEW g \in Generations, Installer(g) PROVE TypeOK'
  <1> USE TypesByPart
  <1>1. session[g] \in SessionRecord /\ entry \in EntryRecord \cup {None}
    BY DEF SessionTyped, PaneTyped
  <1>2. WorkTyped'
    BY DEF Installer, ClaimGeneration, ClaimFails, CreateMirror, InstallMirror, InsertEntry,
           WorkTyped
  <1>3. CASE ClaimGeneration(g)
    <2>1. SessionTyped'
      BY <1>3 DEF ClaimGeneration, Goto, SessionTyped, SessionRecord
    <2>2. PaneTyped'
      BY <1>3 DEF ClaimGeneration, PaneTyped
    <2>3. StoreTyped'
      BY <1>3 DEF ClaimGeneration, Claim, StoreTyped
    <2>4. HistoryTyped'
      BY <1>3 DEF ClaimGeneration, HistoryTyped
    <2> QED
      BY <1>2, <2>1, <2>2, <2>3, <2>4, TypesByPart
  <1>4. CASE ClaimFails(g)
    <2>1. SessionTyped'
      BY <1>4 DEF ClaimFails, Goto, SessionTyped, SessionRecord
    <2>2. PaneTyped' /\ HistoryTyped'
      BY <1>4 DEF ClaimFails, PaneTyped, HistoryTyped, history
    <2>3. failures' \in 0..MaxFailures
      BY <1>4, WorkerAssumption DEF ClaimFails, StoreTyped
    <2>4. StoreTyped'
      BY <1>4, <2>3 DEF ClaimFails, StoreTyped
    <2> QED
      BY <1>2, <2>1, <2>2, <2>4, TypesByPart
  <1>5. CASE CreateMirror(g)
    <2>1. SessionTyped'
      <3>1. painted \in SUBSET Chunks
        BY DEF StoreTyped
      <3>2. session' \in {[session EXCEPT ![g].at = "replace"],
                          [session EXCEPT ![g].at = "replace", ![g].base = painted,
                                          ![g].restored = TRUE, ![g].drop = TRUE]}
        BY <1>5 DEF CreateMirror
      <3> QED
        BY <3>1, <3>2 DEF SessionTyped, SessionRecord
    <2>2. PaneTyped' /\ StoreTyped' /\ HistoryTyped'
      BY <1>5 DEF CreateMirror, PaneTyped, StoreTyped, HistoryTyped, store, history
    <2> QED
      BY <1>2, <2>1, <2>2, TypesByPart
  <1>6. CASE InstallMirror(g)
    <2>1. PICK arc \in Generations :
            /\ session' = [session EXCEPT ![g].at = "insert", ![g].arc = arc]
            /\ drawn' = [drawn EXCEPT ![arc] = session[g].base]
            /\ drawnFor' = [drawnFor EXCEPT ![arc] = g]
      BY <1>1, <1>6 DEF InstallMirror, EntryRecord
    <2>2. SessionTyped'
      <3> DEFINE record == [session[g] EXCEPT !.at = "insert", !.arc = arc]
      <3>1. record \in SessionRecord
        BY <1>1 DEF SessionRecord
      <3>2. session' = [session EXCEPT ![g] = record]
        BY <2>1 DEF SessionTyped
      <3> QED
        BY <3>1, <3>2, RecordTyped
    <2>3. PaneTyped'
      BY <1>1, <1>6, <2>1 DEF InstallMirror, PaneTyped, SessionRecord
    <2>4. StoreTyped'
      BY <1>6 DEF InstallMirror, StoreTyped, store
    <2>5. HistoryTyped'
      <3>1. drawnFor' \in [Generations -> Generations]
        BY <2>1 DEF HistoryTyped
      <3> QED
        BY <1>6, <3>1 DEF InstallMirror, HistoryTyped
    <2> QED
      BY <1>2, <2>2, <2>3, <2>4, <2>5, TypesByPart
  <1>7. CASE InsertEntry(g)
    <2>1. SessionTyped'
      BY <1>7 DEF InsertEntry, Goto, SessionTyped, SessionRecord
    <2>2. PaneTyped'
      BY <1>1, <1>7, Sequence DEF InsertEntry, PaneTyped, EntryRecord, SessionRecord
    <2>3. StoreTyped' /\ HistoryTyped'
      BY <1>7 DEF InsertEntry, StoreTyped, HistoryTyped, store, history
    <2> QED
      BY <1>2, <2>1, <2>2, <2>3, TypesByPart
  <1> QED
    BY <1>3, <1>4, <1>5, <1>6, <1>7 DEF Installer

LEMMA ConsumerTyped ==
    ASSUME TypeOK, NEW g \in Generations, Consumer(g) PROVE TypeOK'
  <1> USE TypesByPart
  <1>1. session[g] \in SessionRecord /\ entry \in EntryRecord \cup {None}
    BY DEF SessionTyped, PaneTyped
  <1>2. session[g].delivered \in Sequences /\ session[g].delivered \in Nat
    BY <1>1, Sequence DEF SessionRecord
  <1>3. StoreTyped'
    BY DEF Consumer, Admit, Feed, Publish, Gap, End, Closed, Evict, StoreTyped, store
  <1>4. CASE Admit(g) \/ Closed(g)
    <2>1. SessionTyped'
      <3>1. CASE Admit(g)
        <4>1. session[g].delivered + 1 \in Sequences
          BY <1>2, <3>1, Sequence DEF Admit
        <4> DEFINE record == [session[g] EXCEPT !.at = "feed", !.delivered = @ + 1]
        <4>2. record \in SessionRecord
          BY <1>1, <4>1 DEF SessionRecord
        <4>3. session' = [session EXCEPT ![g] = record]
          BY <3>1 DEF Admit, SessionTyped
        <4> QED
          BY <4>2, <4>3, RecordTyped
      <3>2. CASE Closed(g)
        BY <3>2 DEF Closed, Goto, SessionTyped, SessionRecord
      <3> QED
        BY <1>4, <3>1, <3>2
    <2>2. PaneTyped' /\ WorkTyped' /\ HistoryTyped'
      BY <1>4 DEF Admit, Closed, PaneTyped, WorkTyped, HistoryTyped, history
    <2> QED
      BY <1>3, <2>1, <2>2, TypesByPart
  <1>5. CASE Feed(g)
    <2>1. SessionTyped'
      <3> DEFINE record == [session[g] EXCEPT !.at = "publish", !.drop = FALSE,
                                                 !.applied = session[g].delivered]
      <3>1. record \in SessionRecord
        BY <1>1, <1>2 DEF SessionRecord
      <3>2. session' = [session EXCEPT ![g] = record]
        BY <1>5 DEF Feed, SessionTyped
      <3> QED
        BY <3>1, <3>2, RecordTyped
    <2>2. drawn' \in [Generations -> SUBSET Chunks]
      <3>1. <<g, session[g].delivered>> \in Chunks
        BY <1>2 DEF Chunks
      <3> QED
        BY <1>5, <3>1 DEF Feed, PaneTyped
    <2>3. strays' \subseteq Generations
      BY <1>1, <1>5 DEF Feed, HistoryTyped, SessionRecord
    <2>4. PaneTyped' /\ WorkTyped' /\ HistoryTyped'
      BY <1>5, <2>2, <2>3 DEF Feed, PaneTyped, WorkTyped, HistoryTyped
    <2> QED
      BY <1>3, <2>1, <2>4, TypesByPart
  <1>6. CASE Publish(g)
    <2>1. SessionTyped'
      BY <1>6 DEF Publish, SessionTyped, SessionRecord
    <2>2. entry' \in EntryRecord \cup {None}
      BY <1>1, <1>2, <1>6 DEF Publish, Owns, EntryRecord
    <2>3. queue' \in [Generations -> Seq(Event)]
      <3>1. [final |-> FALSE, sequence |-> session[g].delivered] \in Event
        BY <1>2 DEF Event
      <3>2. CASE queue' = [queue EXCEPT ![g] =
                      Append(@, [final |-> FALSE, sequence |-> session[g].delivered])]
        <4>1. queue[g] \in Seq(Event)
          BY DEF WorkTyped
        <4>2. Append(queue[g], [final |-> FALSE, sequence |-> session[g].delivered])
                \in Seq(Event)
          BY <3>1, <4>1
        <4> QED
          BY <3>2, <4>2 DEF WorkTyped
      <3>3. CASE UNCHANGED queue
        BY <3>3 DEF WorkTyped
      <3> QED
        BY <1>6, <3>2, <3>3 DEF Publish
    <2>4. PaneTyped' /\ WorkTyped' /\ HistoryTyped'
      BY <1>6, <2>2, <2>3 DEF Publish, PaneTyped, WorkTyped, HistoryTyped, history
    <2> QED
      BY <1>3, <2>1, <2>4, TypesByPart
  <1>7. CASE Gap(g)
    <2>1. session[g].delivered + 1 \in Sequences
      BY <1>2, <1>7, Sequence DEF Gap
    <2>2. SessionTyped'
      <3> DEFINE record == [session[g] EXCEPT !.delivered = @ + 1, !.gapped = TRUE]
      <3>1. record \in SessionRecord
        BY <1>1, <2>1 DEF SessionRecord
      <3>2. session' = [session EXCEPT ![g] = record]
        BY <1>7 DEF Gap, SessionTyped
      <3> QED
        BY <3>1, <3>2, RecordTyped
    <2>3. entry' \in EntryRecord \cup {None}
      BY <1>1, <1>7, <2>1 DEF Gap, Owns, EntryRecord
    <2>4. PaneTyped' /\ WorkTyped' /\ HistoryTyped'
      BY <1>7, <2>3 DEF Gap, PaneTyped, WorkTyped, HistoryTyped, history
    <2> QED
      BY <1>3, <2>2, <2>4, TypesByPart
  <1>8. CASE End(g)
    <2>1. SessionTyped'
      <3> DEFINE record == [session[g] EXCEPT !.at = "evict", !.finished = TRUE]
      <3>1. record \in SessionRecord
        BY <1>1 DEF SessionRecord
      <3>2. session' = [session EXCEPT ![g] = record]
        BY <1>8 DEF End, SessionTyped
      <3> QED
        BY <3>1, <3>2, RecordTyped
    <2>2. queue' \in [Generations -> Seq(Event)]
      <3>1. [final |-> TRUE, sequence |-> entry.source] \in Event
        BY <1>1, <1>8 DEF Event, EntryRecord, End, Owns
      <3> QED
        BY <1>8, <3>1 DEF End, WorkTyped
    <2>3. PaneTyped' /\ WorkTyped' /\ HistoryTyped'
      BY <1>8, <2>2 DEF End, PaneTyped, WorkTyped, HistoryTyped, history
    <2> QED
      BY <1>3, <2>1, <2>3, TypesByPart
  <1>9. CASE Evict(g)
    <2>1. SessionTyped'
      <3> DEFINE record == [session[g] EXCEPT !.at = "done", !.applied = 0, !.drop = FALSE]
      <3>1. record \in SessionRecord
        BY <1>1, Sequence DEF SessionRecord
      <3>2. session' = [session EXCEPT ![g] = record]
        BY <1>9 DEF Evict, SessionTyped
      <3> QED
        BY <3>1, <3>2, RecordTyped
    <2>2. PaneTyped' /\ WorkTyped' /\ HistoryTyped'
      BY <1>9 DEF Evict, PaneTyped, WorkTyped, HistoryTyped, history
    <2> QED
      BY <1>3, <2>1, <2>2, TypesByPart
  <1> QED
    BY <1>4, <1>5, <1>6, <1>7, <1>8, <1>9 DEF Consumer

\* A write stores what a mirror draws, or nothing.
LEMMA WriteTyped ==
    ASSUME TypeOK, NEW g \in Generations, NEW arc \in Generations, NEW sequence \in Sequences,
           Write(g, arc, sequence), failures' = failures
    PROVE  StoreTyped'
  <1>1. [generation |-> g, sequence |-> sequence] \in Position
    BY DEF Position
  <1> QED
    BY <1>1, TypesByPart DEF Write, Commit, StoreTyped, PaneTyped

LEMMA WorkerTyped ==
    ASSUME TypeOK, NEW g \in Generations, Worker(g) PROVE TypeOK'
  <1> USE TypesByPart
  <1>1. worker[g] \in WorkerRecord /\ queue[g] \in Seq(Event) /\ session[g] \in SessionRecord
    BY DEF WorkTyped, SessionTyped
  <1>2. Waiting \in WorkerRecord /\ Stopped \in WorkerRecord
    BY Sequence DEF Waiting, Stopped, WorkerRecord
  <1>3. SessionTyped' /\ PaneTyped' /\ HistoryTyped'
    BY DEF Worker, Receive, WriteLatest, Abandon, SessionTyped, PaneTyped, HistoryTyped, history
  <1>4. CASE Receive(g)
    <2>1. Head(queue[g]) \in Event /\ Tail(queue[g]) \in Seq(Event)
      BY <1>1, <1>4 DEF Receive
    <2>2. WorkTyped'
      BY <1>4, <2>1 DEF Receive, WorkTyped, WorkerRecord, Event
    <2>3. StoreTyped'
      BY <1>4 DEF Receive, StoreTyped, store
    <2> QED
      BY <1>3, <2>2, <2>3, TypesByPart
  <1>5. CASE WriteLatest(g)
    <2>1. WorkTyped'
      BY <1>2, <1>5 DEF WriteLatest, WorkTyped
    <2>2. StoreTyped'
      <3>1. CASE Write(g, session[g].arc, worker[g].sequence) /\ UNCHANGED failures
        <4>1. session[g].arc \in Generations /\ worker[g].sequence \in Sequences
          BY <1>1 DEF SessionRecord, WorkerRecord
        <4> QED
          BY <3>1, <4>1, WriteTyped
      <3>2. CASE /\ failures < MaxFailures
                 /\ failures' = failures + 1
                 /\ UNCHANGED <<holder, archived, painted>>
        BY <3>2, WorkerAssumption DEF StoreTyped
      <3> QED
        BY <1>5, <3>1, <3>2 DEF WriteLatest
    <2> QED
      BY <1>3, <2>1, <2>2, TypesByPart
  <1>6. CASE Abandon(g)
    <2>1. WorkTyped' /\ StoreTyped'
      BY <1>2, <1>6 DEF Abandon, WorkTyped, StoreTyped, store
    <2> QED
      BY <1>3, <2>1, TypesByPart
  <1> QED
    BY <1>4, <1>5, <1>6 DEF Worker

LEMMA CommandsTyped ==
    ASSUME TypeOK, Archive \/ Retire PROVE TypeOK'
  <1> USE TypesByPart
  <1>1. SessionTyped' /\ PaneTyped' /\ WorkTyped' /\ HistoryTyped'
    BY DEF Archive, Retire, SessionTyped, PaneTyped, WorkTyped, HistoryTyped, history
  <1>2. CASE Archive
    <2>1. entry \in EntryRecord
      BY <1>2 DEF Archive, PaneTyped
    <2>2. entry.generation \in Generations /\ entry.arc \in Generations
      BY <2>1 DEF EntryRecord
    <2>3. session[entry.generation].applied \in Sequences
      BY <2>2 DEF SessionTyped, SessionRecord
    <2> QED
      BY <1>1, <1>2, <2>2, <2>3, WriteTyped, TypesByPart DEF Archive
  <1>3. CASE Retire
    BY <1>1, <1>3, TypesByPart DEF Retire, StoreTyped
  <1> QED
    BY <1>2, <1>3

LEMMA TypeStep ==
    ASSUME TypeOK, [Next]_vars PROVE TypeOK'
  <1>1. CASE Next
    BY <1>1, InstallerTyped, ConsumerTyped, WorkerTyped, CommandsTyped DEF Next
  <1>2. CASE UNCHANGED vars
    BY <1>2 DEF vars, TypeOK
  <1> QED
    BY <1>1, <1>2

\* Every variable holds what it is declared for: in particular what is archived is a
\* checkpoint of a session's own output.
THEOREM WorkerTypes == Spec => []TypeOK
  <1>1. TypeOK /\ [Next]_vars => TypeOK'
    BY TypeStep
  <1> QED
    BY InitTyped, <1>1, PTL DEF Spec

--------------------------------------------------------------------------------
\* What a session, its queue and its worker are up to.

\* What g's mirror would have applied by now: all that was delivered, but for what is in
\* hand.
Through(g) == IF At(g, "feed") THEN session[g].delivered - 1 ELSE session[g].delivered

\* Sessions that have put their content into a mirror.
Past(g) == ~At(g, "idle") /\ ~At(g, "create") /\ ~At(g, "replace")

\* A session begins with nothing delivered; the replay that follows a restore is the first
\* thing it is delivered.
SessionInv(g) ==
    LET held == session[g] IN
    /\ held.delivered <= LastOutput[g]
    /\ held.applied <= Through(g)
    /\ At(g, "idle") \/ At(g, "create") => ~held.restored /\ ~held.drop
    /\ ~Past(g) \/ At(g, "insert") => held.delivered = 0 /\ ~held.gapped /\ ~held.finished
    /\ At(g, "feed") => held.delivered >= 1
    /\ held.finished => At(g, "evict") \/ At(g, "done")
    /\ ~At(g, "done") /\ ~held.gapped => (held.drop <=> held.restored /\ Through(g) = 0)

\* What the worker is told has been drawn; what it is told last is all there was.
QueueInv(g) ==
    LET last == Len(queue[g]) IN
    /\ ~Past(g) \/ At(g, "insert") => queue[g] = <<>> /\ worker[g].at = "receive"
    /\ \A i \in 1..last : queue[g][i].sequence <= Through(g)
    /\ \A i \in 1..last : queue[g][i].final <=> session[g].finished /\ i = last
    /\ queue[g] # <<>> /\ session[g].finished => queue[g][last].sequence = session[g].delivered
    /\ worker[g].at = "done" => Disconnected(g)
    /\ worker[g].at = "coalesce" => worker[g].sequence <= Through(g)
    /\ worker[g].final =>
          /\ worker[g].at = "coalesce" /\ session[g].finished /\ queue[g] = <<>>
          /\ worker[g].sequence = session[g].delivered
    /\ session[g].finished /\ queue[g] = <<>> => worker[g].final \/ worker[g].at = "done"

\* The entry is of a session that consumes, and of its mirror.
EntryInv ==
    entry # None =>
        /\ Past(entry.generation) /\ ~At(entry.generation, "insert")
        /\ ~At(entry.generation, "done")
        /\ entry.arc = session[entry.generation].arc
        /\ At(entry.generation, "consume") => entry.source = session[entry.generation].delivered

\* Nobody holds the pane who has not claimed it, and what is archived was a mirror's.
HolderInv ==
    /\ \A g \in Generations : holder = g => ~At(g, "idle")
    /\ archived # Absent => Past(archived.generation)

WorkInv ==
    /\ \A g \in Generations : SessionInv(g) /\ QueueInv(g)
    /\ EntryInv
    /\ HolderInv

--------------------------------------------------------------------------------
\* Every step keeps what a session, its queue and its worker are up to.

LEMMA InitWork == Init => WorkInv
  <1> SUFFICES ASSUME Init PROVE WorkInv
    OBVIOUS
  <1>1. ASSUME NEW g \in Generations PROVE SessionInv(g) /\ QueueInv(g)
    <2>1. /\ session[g] = [at |-> "idle", arc |-> g, base |-> {}, restored |-> FALSE,
                           drop |-> FALSE, delivered |-> 0, applied |-> 0, gapped |-> FALSE,
                           finished |-> FALSE]
          /\ queue[g] = <<>> /\ worker[g] = [at |-> "receive", final |-> FALSE, sequence |-> 0]
      BY DEF Init, Waiting
    <2> QED
      BY <2>1, Sequence DEF SessionInv, QueueInv, Through, Past, At
  <1>2. EntryInv /\ HolderInv
    BY PositionAssumption DEF Init, ArchiveInit, EntryInv, HolderInv, At
  <1> QED
    BY <1>1, <1>2 DEF WorkInv

LEMMA AppendIs ==
    ASSUME NEW S, NEW s \in Seq(S), NEW e \in S
    PROVE  /\ Len(Append(s, e)) = Len(s) + 1 /\ Append(s, e) # <<>> /\ Len(s) \in Nat
           /\ Append(s, e)[Len(s) + 1] = e
           /\ \A i \in 1..Len(s) : Append(s, e)[i] = s[i]
  OBVIOUS

LEMMA EmptyIs ==
    ASSUME NEW S, NEW s \in Seq(S) PROVE s = <<>> <=> Len(s) = 0
  OBVIOUS

\* What nobody touches stays as it is.
LEMMA OthersWork ==
    ASSUME NEW h \in Generations, SessionInv(h), QueueInv(h),
           session'[h] = session[h], queue'[h] = queue[h], worker'[h] = worker[h]
    PROVE  SessionInv(h)' /\ QueueInv(h)'
  BY DEF SessionInv, QueueInv, Through, Past, At, Disconnected

\* A session that has yet to consume has told its worker nothing.
LEMMA InstallerWork ==
    ASSUME TypeOK, WorkInv, NEW g \in Generations, Installer(g) PROVE WorkInv'
  <1>0. session \in [Generations -> SessionRecord] /\ session[g] \in SessionRecord
    BY TypesByPart DEF SessionTyped
  <1>1. /\ \A h \in Generations \ {g} : session'[h] = session[h]
        /\ queue' = queue /\ worker' = worker
    BY <1>0 DEF Installer, ClaimGeneration, ClaimFails, CreateMirror, InstallMirror,
                InsertEntry, Goto
  <1>2. /\ At(g, "idle") \/ At(g, "create") \/ At(g, "replace") \/ At(g, "insert")
        /\ session'[g].delivered = session[g].delivered
        /\ session'[g].applied = session[g].applied
        /\ session'[g].gapped = session[g].gapped
        /\ session'[g].finished = session[g].finished
    BY <1>0 DEF Installer, ClaimGeneration, ClaimFails, CreateMirror, InstallMirror,
                InsertEntry, Goto, At, SessionRecord
  <1>3. SessionInv(g) /\ QueueInv(g)
    BY DEF WorkInv
  <1>4. /\ session[g].delivered = 0 /\ ~session[g].gapped /\ ~session[g].finished
        /\ queue[g] = <<>> /\ worker[g].at = "receive" /\ ~worker[g].final
        /\ session[g].applied <= 0 /\ 0 <= LastOutput[g]
    BY <1>2, <1>3, Sequence DEF SessionInv, QueueInv, Past, At, Through
  <1>5. QueueInv(g)'
    BY <1>1, <1>2, <1>4 DEF QueueInv
  <1>6. SessionInv(g)'
    <2>1. CASE ClaimGeneration(g) \/ ClaimFails(g) \/ InsertEntry(g)
      <3>1. PICK to \in {"create", "done", "consume"} :
                session' = [session EXCEPT ![g].at = to]
        BY <2>1 DEF ClaimGeneration, ClaimFails, InsertEntry, Goto
      <3>2. /\ session'[g].at = to /\ session'[g].drop = session[g].drop
            /\ session'[g].restored = session[g].restored
        BY <1>0, <3>1 DEF SessionRecord
      <3>3. to = "create" => ~session[g].drop /\ ~session[g].restored
        BY <1>0, <1>3, <2>1, <3>1
           DEF ClaimGeneration, ClaimFails, InsertEntry, Goto, At, SessionInv, SessionRecord
      <3>4. session[g].drop <=> session[g].restored
        BY <1>2, <1>3, <1>4 DEF SessionInv, At, Through
      <3> QED
        BY <1>2, <1>4, <3>2, <3>3, <3>4 DEF SessionInv, Through, Past, At
    <2>2. CASE CreateMirror(g)
      <3>1. session'[g].at = "replace" /\ (session'[g].drop <=> session'[g].restored)
        <4>1. ~session[g].drop /\ ~session[g].restored
          BY <1>3, <2>2 DEF CreateMirror, SessionInv
        <4> QED
          BY <1>0, <2>2, <4>1 DEF CreateMirror, SessionRecord
      <3> QED
        BY <1>2, <1>4, <3>1 DEF SessionInv, Through, Past, At
    <2>3. CASE InstallMirror(g)
      <3>1. /\ session'[g].at = "insert" /\ session'[g].drop = session[g].drop
            /\ session'[g].restored = session[g].restored
        BY <1>0, <2>3 DEF InstallMirror, SessionRecord
      <3>2. session[g].drop <=> session[g].restored
        BY <1>2, <1>3, <1>4 DEF SessionInv, At, Through
      <3> QED
        BY <1>2, <1>4, <3>1, <3>2 DEF SessionInv, Through, Past, At
    <2> QED
      BY <2>1, <2>2, <2>3 DEF Installer
  <1>7. \A h \in Generations : SessionInv(h)' /\ QueueInv(h)'
    BY <1>1, <1>5, <1>6, OthersWork DEF WorkInv
  <1>8. EntryInv'
    <2>1. CASE InsertEntry(g)
      <3>1. /\ entry' = [generation |-> g, arc |-> session[g].arc, source |-> 0]
            /\ session'[g].at = "consume" /\ session'[g].arc = session[g].arc
        BY <1>0, <2>1 DEF InsertEntry, Goto, SessionRecord
      <3> QED
        BY <1>2, <1>4, <3>1 DEF EntryInv, Past, At
    <2>2. CASE entry' = entry
      <3>1. ASSUME entry # None
            PROVE  entry.generation \in Generations /\ entry.generation # g
        <4>1. entry.generation \in Generations
          BY <3>1, TypesByPart DEF PaneTyped, EntryRecord
        <4> QED
          BY <1>2, <3>1, <4>1 DEF WorkInv, EntryInv, Past
      <3> QED
        BY <1>1, <2>2, <3>1 DEF WorkInv, EntryInv, Past, At
    <2> QED
      BY <2>1, <2>2 DEF Installer, ClaimGeneration, ClaimFails, CreateMirror, InstallMirror
  <1>9. HolderInv'
    <2>1. ~At(g, "idle")'
      BY <1>0 DEF Installer, ClaimGeneration, ClaimFails, CreateMirror, InstallMirror,
                  InsertEntry, Goto, At, SessionRecord
    <2>2. holder' \in {holder, g, NoOwner} /\ archived' = archived
      BY DEF Installer, ClaimGeneration, ClaimFails, CreateMirror, InstallMirror, InsertEntry,
             Claim, store
    <2>3. Past(g) => Past(g)'
      BY <1>0 DEF Installer, ClaimGeneration, ClaimFails, CreateMirror, InstallMirror,
                  InsertEntry, Goto, At, SessionRecord, Past
    <2>4. \A h \in Generations : Past(h) => Past(h)'
      BY <1>1, <2>3 DEF Past, At
    <2>5. archived # Absent => archived.generation \in Generations
      BY TypesByPart DEF StoreTyped, Position
    <2>6. \A h \in Generations : ~At(h, "idle") => ~At(h, "idle")'
      BY <1>1, <2>1 DEF At
    <2>7. \A h \in Generations : holder' = h => holder = h \/ h = g
      BY <2>2, PositionAssumption
    <2> QED
      BY <2>1, <2>2, <2>4, <2>5, <2>6, <2>7 DEF WorkInv, HolderInv
  <1> QED
    BY <1>7, <1>8, <1>9 DEF WorkInv
\* The consumer tells the worker what it has drawn, and no more than that.
LEMMA ConsumerWork ==
    ASSUME TypeOK, WorkInv, NEW g \in Generations, Consumer(g) PROVE WorkInv'
  <1>0. /\ session \in [Generations -> SessionRecord] /\ session[g] \in SessionRecord
        /\ queue \in [Generations -> Seq(Event)] /\ queue[g] \in Seq(Event)
        /\ worker[g] \in WorkerRecord
    BY TypesByPart DEF SessionTyped, WorkTyped
  <1>1. /\ \A h \in Generations \ {g} : session'[h] = session[h] /\ queue'[h] = queue[h]
        /\ worker' = worker /\ UNCHANGED <<holder, archived>>
    BY <1>0 DEF Consumer, Admit, Feed, Publish, Gap, End, Closed, Evict, Goto, store
  <1>2. SessionInv(g) /\ QueueInv(g) /\ EntryInv
    BY DEF WorkInv
  <1>3. /\ session[g].delivered \in Int /\ session[g].applied \in Int
        /\ LastOutput[g] \in Int /\ worker[g].sequence \in Int
        /\ \A i \in 1..Len(queue[g]) : queue[g][i].sequence \in Int
    <2>1. session[g].delivered \in Sequences /\ session[g].applied \in Sequences
          /\ worker[g].sequence \in Sequences
      BY <1>0 DEF SessionRecord, WorkerRecord
    <2>2. \A i \in 1..Len(queue[g]) : queue[g][i] \in Event
      BY <1>0
    <2>3. \A i \in 1..Len(queue[g]) : queue[g][i].sequence \in Sequences
      BY <2>2 DEF Event
    <2> QED
      BY <2>1, <2>3, Sequence
  <1>4. /\ At(g, "consume") \/ At(g, "feed") \/ At(g, "publish") \/ At(g, "evict")
        /\ ~At(g, "evict") => ~session[g].finished
    BY <1>2 DEF Consumer, Admit, Feed, Publish, Gap, End, Closed, Evict, Goto, At, SessionInv
  <1>5. Past(g)
    BY <1>4 DEF Past, At
  <1> DEFINE point == session'[g].at
  <1>6. HolderInv'
    <2>1. point \in {"consume", "feed", "publish", "evict", "done"}
      BY <1>0 DEF Consumer, Admit, Feed, Publish, Gap, End, Closed, Evict, Goto, At,
                  SessionRecord
    <2>2. Past(g)' /\ ~At(g, "idle")'
      BY <2>1 DEF Past, At
    <2>3. archived # Absent => archived.generation \in Generations
      BY TypesByPart DEF StoreTyped, Position
    <2> QED
      BY <1>1, <2>2, <2>3 DEF WorkInv, HolderInv, Past, At
  <1>7. ASSUME SessionInv(g)', QueueInv(g)', EntryInv' PROVE WorkInv'
    BY <1>1, <1>6, <1>7, OthersWork DEF WorkInv
  <1>8. ASSUME entry' = entry, ~At(g, "done")', Past(g)', ~At(g, "insert")',
               session'[g].arc = session[g].arc,
               Owns(g) /\ At(g, "consume")' => entry.source = session'[g].delivered
        PROVE  EntryInv'
    <2>1. entry # None => entry.generation \in Generations
      BY TypesByPart DEF PaneTyped, EntryRecord
    <2> QED
      BY <1>1, <1>2, <1>8, <2>1 DEF EntryInv, Past, At, Owns
  <1>9. CASE Admit(g)
    <2>1. /\ session' = [session EXCEPT ![g].at = "feed", ![g].delivered = @ + 1]
          /\ session[g].delivered < LastOutput[g] /\ At(g, "consume")
          /\ queue' = queue /\ entry' = entry
      BY <1>9 DEF Admit
    <2>2. session'[g] = [session[g] EXCEPT !.at = "feed", !.delivered = @ + 1]
      BY <1>0, <2>1
    <2>3. Through(g)' = Through(g)
      BY <1>0, <1>3, <2>1, <2>2 DEF Through, At, SessionRecord
    <2>4. SessionInv(g)'
      BY <1>0, <1>2, <1>3, <2>1, <2>2, <2>3, Sequence
         DEF SessionInv, Past, At, SessionRecord, Through
    <2>5. QueueInv(g)'
      BY <1>0, <1>1, <1>2, <1>4, <2>1, <2>2, <2>3
         DEF QueueInv, Past, At, SessionRecord, Disconnected
    <2>6. EntryInv'
      BY <1>0, <1>8, <2>1, <2>2 DEF Past, At, SessionRecord
    <2> QED
      BY <1>7, <2>4, <2>5, <2>6
  <1>10. CASE Feed(g)
    <2>1. /\ At(g, "feed") /\ queue' = queue /\ entry' = entry
          /\ session' = [session EXCEPT ![g].at = "publish", ![g].drop = FALSE,
                                        ![g].applied = session[g].delivered]
      BY <1>10 DEF Feed
    <2>2. session'[g] = [session[g] EXCEPT !.at = "publish", !.drop = FALSE,
                                           !.applied = session[g].delivered]
      BY <1>0, <2>1
    <2>3. Through(g)' = session[g].delivered /\ Through(g) = session[g].delivered - 1
          /\ session[g].delivered >= 1
      BY <1>0, <1>2, <2>1, <2>2 DEF Through, At, SessionRecord, SessionInv
    <2>4. SessionInv(g)'
      BY <1>0, <1>2, <1>3, <1>4, <2>1, <2>2, <2>3 DEF SessionInv, Past, At, SessionRecord
    <2>5. QueueInv(g)'
      BY <1>0, <1>1, <1>2, <1>3, <1>4, <2>1, <2>2, <2>3
         DEF QueueInv, Past, At, SessionRecord, Disconnected
    <2>6. EntryInv'
      BY <1>0, <1>8, <2>1, <2>2 DEF Past, At, SessionRecord
    <2> QED
      BY <1>7, <2>4, <2>5, <2>6
  <1>11. CASE Publish(g) /\ Owns(g)
    <2> DEFINE told == [final |-> FALSE, sequence |-> session[g].delivered]
    <2>1. /\ At(g, "publish") /\ session' = [session EXCEPT ![g].at = "consume"]
          /\ entry' = [entry EXCEPT !.source = session[g].delivered]
          /\ queue' = [queue EXCEPT ![g] = Append(@, told)]
      BY <1>11 DEF Publish
    <2>2. session'[g] = [session[g] EXCEPT !.at = "consume"]
      BY <1>0, <2>1
    <2>3. Through(g)' = session[g].delivered /\ Through(g) = session[g].delivered
      BY <1>0, <2>1, <2>2 DEF Through, At, SessionRecord
    <2>4. SessionInv(g)'
      BY <1>0, <1>2, <1>3, <1>4, <2>1, <2>2, <2>3 DEF SessionInv, Past, At, SessionRecord
    <2>5. QueueInv(g)'
      <3>1. queue'[g] = Append(queue[g], told)
        BY <1>0, <2>1
      <3>2. /\ Len(queue'[g]) = Len(queue[g]) + 1 /\ queue'[g] # <<>>
            /\ queue'[g][Len(queue'[g])] = told /\ Len(queue[g]) \in Nat
            /\ \A i \in 1..Len(queue'[g]) :
                  i # Len(queue'[g]) => i \in 1..Len(queue[g]) /\ queue'[g][i] = queue[g][i]
        <4>1. told \in Event
          BY <1>0 DEF Event, SessionRecord
        <4> HIDE DEF told
        <4>2. Len(queue'[g]) = Len(queue[g]) + 1 /\ queue'[g] # <<>> /\ Len(queue[g]) \in Nat
              /\ queue'[g][Len(queue[g]) + 1] = told
              /\ \A i \in 1..Len(queue[g]) : queue'[g][i] = queue[g][i]
          BY <1>0, <3>1, <4>1, AppendIs
        <4> QED
          BY <4>2
      <3>3. /\ session'[g].at = "consume" /\ session'[g].finished = session[g].finished
            /\ session'[g].delivered = session[g].delivered /\ ~session[g].finished
            /\ session[g].at = "publish"
        BY <1>0, <1>4, <2>1, <2>2 DEF SessionRecord, At
      <3>4. ~told.final /\ told.sequence = session[g].delivered
        OBVIOUS
      <3> HIDE DEF told
      <3>5. \A i \in 1..Len(queue'[g]) :
                /\ queue'[g][i].sequence <= session[g].delivered
                /\ queue'[g][i].final <=> session'[g].finished /\ i = Len(queue'[g])
        <4>1. \A i \in 1..Len(queue[g]) :
                  queue[g][i].sequence <= session[g].delivered /\ ~queue[g][i].final
          BY <1>2, <2>3, <3>3 DEF QueueInv
        <4> SUFFICES ASSUME NEW i \in 1..Len(queue'[g])
                     PROVE  /\ queue'[g][i].sequence <= session[g].delivered
                            /\ queue'[g][i].final <=> session'[g].finished /\ i = Len(queue'[g])
          OBVIOUS
        <4>2. CASE i = Len(queue'[g])
          BY <1>3, <3>2, <3>3, <3>4, <4>2
        <4>3. CASE i # Len(queue'[g])
          <5>1. i \in 1..Len(queue[g]) /\ queue'[g][i] = queue[g][i]
            BY <3>2, <4>3
          <5> QED
            BY <4>1, <4>3, <5>1
        <4> QED
          BY <4>2, <4>3
      <3>6. worker[g].at # "done" /\ ~worker[g].final
        BY <1>2, <3>3 DEF QueueInv, Disconnected, At
      <3>7. worker[g].at = "coalesce" => worker[g].sequence <= session[g].delivered
        BY <1>2, <2>3 DEF QueueInv
      <3>8. Past(g)' /\ ~At(g, "insert")'
        BY <3>3 DEF Past, At
      <3> QED
        BY <1>1, <2>3, <3>2, <3>3, <3>4, <3>5, <3>6, <3>7, <3>8 DEF QueueInv
    <2>6. EntryInv'
      <3>1. entry \in EntryRecord /\ entry.generation = g /\ entry # None
        BY <1>11, TypesByPart DEF PaneTyped, Owns
      <3>2. entry'.generation = g /\ entry'.arc = entry.arc
            /\ entry'.source = session[g].delivered
        BY <2>1, <3>1 DEF EntryRecord
      <3> QED
        BY <1>0, <1>2, <2>2, <3>1, <3>2 DEF EntryInv, Past, At, SessionRecord
    <2> QED
      BY <1>7, <2>4, <2>5, <2>6
  <1>12. CASE (Publish(g) /\ ~Owns(g)) \/ Closed(g)
    <2>1. /\ At(g, "publish") \/ At(g, "consume")
          /\ session' = [session EXCEPT ![g].at = "evict"] /\ entry' = entry /\ queue' = queue
      BY <1>12 DEF Publish, Closed, Goto
    <2>2. session'[g] = [session[g] EXCEPT !.at = "evict"]
      BY <1>0, <2>1
    <2>3. Through(g)' = session[g].delivered /\ Through(g) = session[g].delivered
      BY <1>0, <2>1, <2>2 DEF Through, At, SessionRecord
    <2>4. SessionInv(g)'
      BY <1>0, <1>2, <1>3, <1>4, <2>1, <2>2, <2>3 DEF SessionInv, Past, At, SessionRecord
    <2>5. QueueInv(g)'
      BY <1>0, <1>1, <1>2, <1>4, <2>1, <2>2, <2>3
         DEF QueueInv, Past, At, SessionRecord, Disconnected
    <2>6. EntryInv'
      BY <1>0, <1>8, <2>1, <2>2 DEF Past, At, SessionRecord
    <2> QED
      BY <1>7, <2>4, <2>5, <2>6
  <1>13. CASE Gap(g)
    <2>1. /\ At(g, "consume") /\ Owns(g) /\ queue' = queue
          /\ session[g].delivered < LastOutput[g]
          /\ session' = [session EXCEPT ![g].delivered = @ + 1, ![g].gapped = TRUE]
          /\ entry' = [entry EXCEPT !.source = session[g].delivered + 1]
      BY <1>13 DEF Gap
    <2>2. session'[g] = [session[g] EXCEPT !.delivered = @ + 1, !.gapped = TRUE]
      BY <1>0, <2>1
    <2>3. Through(g)' = session[g].delivered + 1 /\ Through(g) = session[g].delivered
      BY <1>0, <2>1, <2>2 DEF Through, At, SessionRecord
    <2>4. SessionInv(g)'
      BY <1>0, <1>2, <1>3, <1>4, <2>1, <2>2, <2>3 DEF SessionInv, Past, At, SessionRecord
    <2>5. QueueInv(g)'
      BY <1>0, <1>1, <1>2, <1>3, <1>4, <2>1, <2>2, <2>3
         DEF QueueInv, Past, At, SessionRecord, Disconnected
    <2>6. EntryInv'
      <3>1. entry \in EntryRecord /\ entry.generation = g /\ entry # None
        BY <2>1, TypesByPart DEF PaneTyped, Owns
      <3>2. entry'.generation = g /\ entry'.arc = entry.arc
            /\ entry'.source = session[g].delivered + 1
        BY <2>1, <3>1 DEF EntryRecord
      <3> QED
        BY <1>0, <1>2, <2>1, <2>2, <3>1, <3>2 DEF EntryInv, Past, At, SessionRecord
    <2> QED
      BY <1>7, <2>4, <2>5, <2>6
  <1>14. CASE End(g)
    <2> DEFINE told == [final |-> TRUE, sequence |-> entry.source]
    <2>1. /\ At(g, "consume") /\ Owns(g) /\ entry' = entry
          /\ queue' = [queue EXCEPT ![g] = Append(@, told)]
          /\ session' = [session EXCEPT ![g].at = "evict", ![g].finished = TRUE]
      BY <1>14 DEF End
    <2>2. session'[g] = [session[g] EXCEPT !.at = "evict", !.finished = TRUE]
      BY <1>0, <2>1
    <2>3. Through(g)' = session[g].delivered /\ Through(g) = session[g].delivered
      BY <1>0, <2>1, <2>2 DEF Through, At, SessionRecord
    <2>4. SessionInv(g)'
      BY <1>0, <1>2, <1>3, <1>4, <2>1, <2>2, <2>3 DEF SessionInv, Past, At, SessionRecord
    <2>5. QueueInv(g)'
      <3>1. queue'[g] = Append(queue[g], told)
        BY <1>0, <2>1
      <3>2. /\ Len(queue'[g]) = Len(queue[g]) + 1 /\ queue'[g] # <<>>
            /\ queue'[g][Len(queue'[g])] = told /\ Len(queue[g]) \in Nat
            /\ \A i \in 1..Len(queue'[g]) :
                  i # Len(queue'[g]) => i \in 1..Len(queue[g]) /\ queue'[g][i] = queue[g][i]
        <4>1. told \in Event
          BY <2>1, TypesByPart DEF Event, PaneTyped, EntryRecord, Owns
        <4> HIDE DEF told
        <4>2. Len(queue'[g]) = Len(queue[g]) + 1 /\ queue'[g] # <<>> /\ Len(queue[g]) \in Nat
              /\ queue'[g][Len(queue[g]) + 1] = told
              /\ \A i \in 1..Len(queue[g]) : queue'[g][i] = queue[g][i]
          BY <1>0, <3>1, <4>1, AppendIs
        <4> QED
          BY <4>2
      <3>3. /\ session'[g].at = "evict" /\ session'[g].finished
            /\ session'[g].delivered = session[g].delivered /\ ~session[g].finished
            /\ session[g].at = "consume"
        BY <1>0, <1>4, <2>1, <2>2 DEF SessionRecord, At
      <3>4. told.final /\ told.sequence = session[g].delivered
        BY <1>2, <2>1 DEF EntryInv, Owns
      <3> HIDE DEF told
      <3>5. \A i \in 1..Len(queue'[g]) :
                /\ queue'[g][i].sequence <= session[g].delivered
                /\ queue'[g][i].final <=> session'[g].finished /\ i = Len(queue'[g])
        <4>1. \A i \in 1..Len(queue[g]) :
                  queue[g][i].sequence <= session[g].delivered /\ ~queue[g][i].final
          BY <1>2, <2>3, <3>3 DEF QueueInv
        <4> SUFFICES ASSUME NEW i \in 1..Len(queue'[g])
                     PROVE  /\ queue'[g][i].sequence <= session[g].delivered
                            /\ queue'[g][i].final <=> session'[g].finished /\ i = Len(queue'[g])
          OBVIOUS
        <4>2. CASE i = Len(queue'[g])
          BY <1>3, <3>2, <3>3, <3>4, <4>2
        <4>3. CASE i # Len(queue'[g])
          <5>1. i \in 1..Len(queue[g]) /\ queue'[g][i] = queue[g][i]
            BY <3>2, <4>3
          <5> QED
            BY <4>1, <4>3, <5>1
        <4> QED
          BY <4>2, <4>3
      <3>6. worker[g].at # "done" /\ ~worker[g].final
        BY <1>2, <3>3 DEF QueueInv, Disconnected, At
      <3>7. worker[g].at = "coalesce" => worker[g].sequence <= session[g].delivered
        BY <1>2, <2>3 DEF QueueInv
      <3>8. Past(g)' /\ ~At(g, "insert")'
        BY <3>3 DEF Past, At
      <3> QED
        BY <1>1, <2>3, <3>2, <3>3, <3>4, <3>5, <3>6, <3>7, <3>8 DEF QueueInv
    <2>6. EntryInv'
      BY <1>0, <1>8, <2>1, <2>2 DEF Past, At, SessionRecord
    <2> QED
      BY <1>7, <2>4, <2>5, <2>6
  <1>15. CASE Evict(g)
    <2>1. /\ At(g, "evict") /\ queue' = queue
          /\ session' = [session EXCEPT ![g].at = "done", ![g].applied = 0,
                                        ![g].drop = FALSE]
          /\ entry' = IF Owns(g) THEN None ELSE entry
      BY <1>15 DEF Evict
    <2>2. session'[g] = [session[g] EXCEPT !.at = "done", !.applied = 0, !.drop = FALSE]
      BY <1>0, <2>1
    <2>3. Through(g)' = session[g].delivered /\ Through(g) = session[g].delivered
          /\ 0 <= session[g].delivered
      <3>1. session[g].delivered \in Nat
        BY <1>0, Sequence DEF SessionRecord
      <3> QED
        BY <1>0, <2>1, <2>2, <3>1 DEF Through, At, SessionRecord
    <2>4. SessionInv(g)'
      BY <1>0, <1>2, <1>3, <1>4, <2>1, <2>2, <2>3 DEF SessionInv, Past, At, SessionRecord
    <2>5. QueueInv(g)'
      BY <1>0, <1>1, <1>2, <1>4, <2>1, <2>2, <2>3
         DEF QueueInv, Past, At, SessionRecord, Disconnected
    <2>6. EntryInv'
      <3>1. entry # None => entry.generation \in Generations
        BY TypesByPart DEF PaneTyped, EntryRecord
      <3> QED
        BY <1>1, <1>2, <2>1, <3>1 DEF EntryInv, Past, At, Owns
    <2> QED
      BY <1>7, <2>4, <2>5, <2>6
  <1> QED
    BY <1>9, <1>10, <1>11, <1>12, <1>13, <1>14, <1>15 DEF Consumer

\* Writes move neither sessions nor the entry.
LEMMA StoreWork ==
    ASSUME TypeOK, WorkInv, UNCHANGED <<session, queue, worker, entry>>,
           holder' \in {holder, NoOwner},
           archived' # Absent => archived' = archived \/ Past(archived'.generation)
    PROVE  WorkInv'
  <1>1. \A g \in Generations : SessionInv(g)' /\ QueueInv(g)'
    BY OthersWork DEF WorkInv
  <1>2. EntryInv'
    BY DEF WorkInv, EntryInv, Past, At
  <1>3. HolderInv'
    BY PositionAssumption DEF WorkInv, HolderInv, Past, At
  <1> QED
    BY <1>1, <1>2, <1>3 DEF WorkInv

\* The worker takes what it is told in order, and ends with the last of it.
LEMMA WorkerWork ==
    ASSUME TypeOK, WorkInv, NEW g \in Generations, Worker(g) PROVE WorkInv'
  <1>0. /\ queue \in [Generations -> Seq(Event)] /\ queue[g] \in Seq(Event)
        /\ worker \in [Generations -> WorkerRecord] /\ worker[g] \in WorkerRecord
    BY TypesByPart DEF WorkTyped
  <1>1. /\ \A h \in Generations \ {g} : queue'[h] = queue[h] /\ worker'[h] = worker[h]
        /\ session' = session /\ entry' = entry
    BY <1>0 DEF Worker, Receive, WriteLatest, Abandon
  <1>2. SessionInv(g) /\ QueueInv(g)
    BY DEF WorkInv
  <1>3. \A h \in Generations : SessionInv(h)'
    BY <1>1 DEF WorkInv, SessionInv, Past, At, Through
  <1>4. EntryInv'
    BY <1>1 DEF WorkInv, EntryInv, Past, At
  <1>5. HolderInv'
    <2>1. \A h \in Generations : Past(h)' = Past(h) /\ At(h, "idle")' = At(h, "idle")
      BY <1>1 DEF Past, At
    <2>2. holder' = holder
          /\ (archived' = archived \/ (archived'.generation = g /\ worker[g].at = "coalesce"))
      BY DEF Worker, Receive, WriteLatest, Abandon, Write, Commit, store
    <2>3. worker[g].at = "coalesce" => Past(g)
      BY <1>2 DEF QueueInv
    <2>4. archived # Absent => archived.generation \in Generations
      BY TypesByPart DEF StoreTyped, Position
    <2> QED
      BY <2>1, <2>2, <2>3, <2>4 DEF WorkInv, HolderInv
  <1>6. QueueInv(g)'
    <2>1. CASE Receive(g)
      <3>1. /\ queue[g] # <<>> /\ queue'[g] = Tail(queue[g])
            /\ worker'[g] = [at |-> "coalesce", final |-> Head(queue[g]).final,
                             sequence |-> Head(queue[g]).sequence]
        BY <1>0, <2>1 DEF Receive
      <3>2. /\ Len(queue'[g]) = Len(queue[g]) - 1 /\ Len(queue[g]) \in Nat
            /\ Len(queue[g]) # 0 /\ Head(queue[g]) = queue[g][1] /\ queue'[g] \in Seq(Event)
            /\ \A i \in 1..Len(queue'[g]) :
                  i + 1 \in 1..Len(queue[g]) /\ queue'[g][i] = queue[g][i + 1]
        BY <1>0, <3>1
      <3>3. queue'[g] = <<>> <=> Len(queue[g]) = 1
        <4>1. queue'[g] = <<>> <=> Len(queue'[g]) = 0
          BY <3>2, EmptyIs
        <4> QED
          BY <3>2, <4>1
      <3>4. /\ worker'[g].at = "coalesce" /\ worker'[g].final = queue[g][1].final
            /\ worker'[g].sequence = queue[g][1].sequence
        BY <3>1, <3>2
      <3>5. Through(g)' = Through(g) /\ Past(g)' = Past(g) /\ At(g, "insert")' = At(g, "insert")
        BY <1>1 DEF Through, Past, At
      <3>6. \A i \in 1..Len(queue'[g]) :
                /\ queue'[g][i].sequence <= Through(g)
                /\ queue'[g][i].final <=> session[g].finished /\ i = Len(queue'[g])
        BY <1>2, <3>2 DEF QueueInv
      <3>7. /\ queue[g][1].sequence <= Through(g)
            /\ queue[g][1].final <=> session[g].finished /\ Len(queue[g]) = 1
            /\ Len(queue[g]) = 1 /\ session[g].finished
                    => queue[g][1].sequence = session[g].delivered
        <4>1. 1 \in 1..Len(queue[g])
          BY <3>2
        <4> QED
          BY <1>2, <3>1, <4>1 DEF QueueInv
      <3>8. queue'[g] # <<>> /\ session[g].finished
                => queue'[g][Len(queue'[g])].sequence = session[g].delivered
        BY <1>2, <3>1, <3>2, <3>3 DEF QueueInv
      <3>9. Past(g) /\ ~At(g, "insert")
        BY <1>2, <3>1 DEF QueueInv
      <3> QED
        BY <1>1, <3>3, <3>4, <3>5, <3>6, <3>7, <3>8, <3>9 DEF QueueInv
    <2>2. CASE WriteLatest(g)
      <3>1. /\ worker[g].at = "coalesce" /\ queue' = queue
            /\ worker'[g] = IF worker[g].final THEN Stopped ELSE Waiting
        BY <1>0, <2>2 DEF WriteLatest
      <3>2. CASE worker[g].final
        <4>1. worker'[g].at = "done" /\ ~worker'[g].final
          BY <3>1, <3>2 DEF Stopped, Waiting
        <4>2. session[g].finished /\ Disconnected(g)
          BY <1>2, <3>2 DEF QueueInv, SessionInv, Disconnected
        <4> QED
          BY <1>1, <1>2, <3>1, <4>1, <4>2 DEF QueueInv, Through, Past, At, Disconnected
      <3>3. CASE ~worker[g].final
        <4>1. worker'[g].at = "receive" /\ ~worker'[g].final
          BY <3>1, <3>3 DEF Waiting
        <4> QED
          BY <1>1, <1>2, <3>1, <3>3, <4>1 DEF QueueInv, Through, Past, At, Disconnected
      <3> QED
        BY <3>2, <3>3
    <2>3. CASE Abandon(g)
      <3>1. /\ Listening(g) /\ queue' = queue /\ queue[g] = <<>> /\ Disconnected(g)
            /\ worker'[g].at = "done" /\ ~worker'[g].final
        BY <1>0, <2>3 DEF Abandon, Stopped, Waiting
      <3> QED
        BY <1>1, <1>2, <3>1 DEF QueueInv, Through, Past, At, Disconnected, Listening
    <2> QED
      BY <2>1, <2>2, <2>3 DEF Worker
  <1>7. \A h \in Generations : QueueInv(h)'
    BY <1>1, <1>6 DEF WorkInv, QueueInv, Through, Past, At, Disconnected
  <1> QED
    BY <1>3, <1>4, <1>5, <1>7 DEF WorkInv

LEMMA WorkStep ==
    ASSUME TypeOK, WorkInv, [Next]_vars PROVE WorkInv'
  <1>1. CASE Archive
    <2>1. entry # None /\ UNCHANGED <<session, queue, worker, entry>>
          /\ Write(entry.generation, entry.arc, session[entry.generation].applied)
      BY <1>1 DEF Archive
    <2>2. Past(entry.generation)
      BY <2>1 DEF WorkInv, EntryInv
    <2>3. holder' = holder /\ (archived' = archived \/ archived'.generation = entry.generation)
      BY <2>1 DEF Write, Commit
    <2> QED
      BY <2>1, <2>2, <2>3, StoreWork
  <1>2. CASE Retire
    BY <1>2, StoreWork DEF Retire
  <1>3. CASE UNCHANGED vars
    BY <1>3, StoreWork DEF vars
  <1> QED
    BY <1>1, <1>2, <1>3, InstallerWork, ConsumerWork, WorkerWork DEF Next

--------------------------------------------------------------------------------
\* Whose content a mirror has, and what the archive shows of it.

\* As long as installations do not overlap, the pane's holder is the one who installs, and
\* the mirror of a holder that has installed it shows its screen.
ScreenInv ==
    ~raced =>
        /\ \A g, h \in Generations : Installing(g) /\ Installing(h) => g = h
        /\ \A g \in Generations : Installing(g) => holder \in {g, NoOwner}
        /\ \A g \in Generations : holder = g /\ Past(g) =>
              /\ drawnFor[session[g].arc] = g
              /\ g \notin strays /\ ~session[g].gapped =>
                    drawn[session[g].arc] = Screen(g, Through(g))

\* A screen, as a function of what its session keeps.
Drawing(base, restored, g, through) ==
    base \cup {g} \X {s \in Sequences : (IF restored THEN 2 ELSE 1) <= s /\ s <= through}

LEMMA ScreenIsDrawing ==
    ASSUME NEW g \in Generations
    PROVE  /\ Screen(g, Through(g))
                = Drawing(session[g].base, session[g].restored, g, Through(g))
           /\ Screen(g, Through(g))'
                = Drawing(session'[g].base, session'[g].restored, g, Through(g)')
           /\ \A n : Screen(g, n) = Drawing(session[g].base, session[g].restored, g, n)
           /\ \A n : Screen(g, n)' = Drawing(session'[g].base, session'[g].restored, g, n)
  BY DEF Screen, Drawing

LEMMA DrawingGrows ==
    ASSUME NEW base, NEW restored \in BOOLEAN, NEW g, NEW n \in Sequences
    PROVE  /\ n >= (IF restored THEN 2 ELSE 1) =>
                Drawing(base, restored, g, n)
                    = Drawing(base, restored, g, n - 1) \cup {<<g, n>>}
           /\ n < (IF restored THEN 2 ELSE 1) =>
                Drawing(base, restored, g, n) = base /\ Drawing(base, restored, g, n - 1) = base
  <1>1. \A s \in Sequences : s \in Nat
    BY Sequence
  <1>2. CASE n >= (IF restored THEN 2 ELSE 1)
    <2>1. {s \in Sequences : (IF restored THEN 2 ELSE 1) <= s /\ s <= n}
            = {s \in Sequences : (IF restored THEN 2 ELSE 1) <= s /\ s <= n - 1} \cup {n}
      BY <1>1, <1>2
    <2> QED
      BY <1>1, <1>2, <2>1 DEF Drawing
  <1>3. CASE n < (IF restored THEN 2 ELSE 1)
    <2>1. \A m \in {n, n - 1} :
            {s \in Sequences : (IF restored THEN 2 ELSE 1) <= s /\ s <= m} = {}
      BY <1>1, <1>3
    <2>2. \A m \in {n, n - 1} : Drawing(base, restored, g, m) = base
      BY <2>1 DEF Drawing
    <2> QED
      BY <1>1, <1>3, <2>2
  <1> QED
    BY <1>1, <1>2, <1>3

\* What the holder's mirror shows.
Shown(g) ==
    /\ drawnFor[session[g].arc] = g
    /\ g \notin strays /\ ~session[g].gapped => drawn[session[g].arc] = Screen(g, Through(g))

LEMMA InitScreen == Init => ScreenInv /\ ArchiveIsItsLabel /\ EndIsArchived
  <1> SUFFICES ASSUME Init PROVE ScreenInv /\ ArchiveIsItsLabel /\ EndIsArchived
    OBVIOUS
  <1>1. \A g \in Generations : session[g].at = "idle" /\ session[g].finished = FALSE
    BY DEF Init
  <1>2. holder = NoOwner /\ archived = Absent
    BY DEF Init, ArchiveInit
  <1> QED
    BY <1>1, <1>2, PositionAssumption
       DEF ScreenInv, ArchiveIsItsLabel, EndIsArchived, Installing

\* A session whose holding, mirror and content do not change shows what it showed.
LEMMA ShownKept ==
    ASSUME NEW h \in Generations, Shown(h),
           session'[h].arc = session[h].arc, session'[h].base = session[h].base,
           session'[h].restored = session[h].restored,
           session'[h].gapped = session[h].gapped, Through(h)' = Through(h),
           drawn'[session[h].arc] = drawn[session[h].arc],
           drawnFor'[session[h].arc] = drawnFor[session[h].arc], strays \subseteq strays'
    PROVE  Shown(h)'
  <1>1. Screen(h, Through(h))' = Screen(h, Through(h))
    BY ScreenIsDrawing
  <1> QED
    BY <1>1 DEF Shown

\* An installation: the claim makes its session the holder, and the mirror gets its content.
LEMMA InstallerScreen ==
    ASSUME TypeOK, WorkInv, ScreenInv, NEW g \in Generations, Installer(g), ~raced'
    PROVE  ScreenInv'
  <1>0. /\ session \in [Generations -> SessionRecord] /\ session[g] \in SessionRecord
        /\ drawn \in [Generations -> SUBSET Chunks] /\ drawnFor \in [Generations -> Generations]
        /\ entry # None => entry.arc \in Generations
    BY TypesByPart DEF SessionTyped, PaneTyped, HistoryTyped, EntryRecord
  <1>1. \A h \in Generations \ {g} : session'[h] = session[h]
    BY <1>0 DEF Installer, ClaimGeneration, ClaimFails, CreateMirror, InstallMirror,
                InsertEntry, Goto
  <1>2. ~raced
    BY DEF Installer, ClaimGeneration, ClaimFails, CreateMirror, InstallMirror, InsertEntry,
           history
  <1>3. /\ \A h, i \in Generations : Installing(h) /\ Installing(i) => h = i
        /\ \A h \in Generations : Installing(h) => holder \in {h, NoOwner}
        /\ \A h \in Generations : holder = h /\ Past(h) => Shown(h)
    BY <1>2 DEF ScreenInv, Shown
  <1>4. \A h \in Generations \ {g} :
            /\ Installing(h)' = Installing(h) /\ Past(h)' = Past(h)
            /\ Through(h)' = Through(h)
    BY <1>1 DEF Installing, Past, At, Through
  <1>5. ASSUME \A h, i \in Generations : Installing(h)' /\ Installing(i)' => h = i,
               \A h \in Generations : Installing(h)' => holder' \in {h, NoOwner},
               \A h \in Generations : holder' = h /\ Past(h)' => Shown(h)'
        PROVE  ScreenInv'
    BY <1>5 DEF ScreenInv, Shown
  <1>6. ASSUME UNCHANGED <<drawn, drawnFor, strays>>, NEW h \in Generations \ {g}, Shown(h)
        PROVE  Shown(h)'
    BY <1>1, <1>4, <1>6, ShownKept
  <1>7. SessionInv(g) /\ HolderInv
    BY DEF WorkInv
  <1>8. CASE ClaimGeneration(g)
    <2>1. \A h \in Generations : ~Installing(h)
      BY <1>8 DEF ClaimGeneration
    <2>2. holder' = g /\ session'[g].at = "create"
      BY <1>0, <1>8 DEF ClaimGeneration, Claim, Goto, SessionRecord
    <2>3. ~Past(g)'
      BY <2>2 DEF Past, At
    <2> QED
      BY <1>4, <1>5, <2>1, <2>2, <2>3
  <1>9. CASE ClaimFails(g)
    <2>1. /\ holder' \in {holder, NoOwner} /\ session[g].at = "idle"
          /\ session'[g].at = "done" /\ UNCHANGED <<drawn, drawnFor, strays>>
      BY <1>0, <1>9 DEF ClaimFails, Goto, At, SessionRecord, history
    <2>2. holder # g
      BY <1>7, <2>1 DEF HolderInv, At
    <2>3. ~Installing(g)'
      BY <2>1 DEF Installing
    <2> QED
      BY <1>3, <1>4, <1>5, <1>6, <2>1, <2>2, <2>3, PositionAssumption
  <1>10. CASE CreateMirror(g)
    <2>1. /\ session[g].at = "create" /\ session'[g].at = "replace"
          /\ UNCHANGED <<holder, drawn, drawnFor, strays>>
      BY <1>0, <1>10 DEF CreateMirror, At, SessionRecord, store, history
    <2>2. Installing(g) /\ ~Past(g)'
      BY <2>1 DEF Installing, Past, At
    <2> QED
      BY <1>3, <1>4, <1>5, <1>6, <2>1, <2>2
  <1>11. CASE InstallMirror(g)
    <2>1. PICK arc \in Generations :
            /\ session' = [session EXCEPT ![g].at = "insert", ![g].arc = arc]
            /\ drawn' = [drawn EXCEPT ![arc] = session[g].base]
            /\ drawnFor' = [drawnFor EXCEPT ![arc] = g]
            /\ session[g].at = "replace" /\ holder' = holder
      BY <1>0, <1>11 DEF InstallMirror, At, store
    <2>2. /\ session'[g].arc = arc /\ session'[g].at = "insert"
          /\ session'[g].base = session[g].base /\ session'[g].delivered = 0
          /\ session'[g].restored = session[g].restored /\ session[g].restored \in BOOLEAN
      BY <1>0, <1>7, <2>1 DEF SessionRecord, SessionInv, Past, At
    <2>3. Installing(g)
      BY <2>1 DEF Installing
    <2>4. Through(g)' = 0
      BY <2>2 DEF Through, At
    <2>5. Shown(g)'
      <3>1. drawnFor'[session'[g].arc] = g /\ drawn'[session'[g].arc] = session[g].base
        BY <1>0, <2>1, <2>2
      <3>2. Screen(g, Through(g))' = Drawing(session[g].base, session[g].restored, g, 0)
        BY <2>2, <2>4, ScreenIsDrawing
      <3>3. 0 \in Sequences
        BY Sequence
      <3>4. Drawing(session[g].base, session[g].restored, g, 0) = session[g].base
        BY <2>2, <3>3, DrawingGrows
      <3> QED
        BY <3>1, <3>2, <3>4 DEF Shown
    <2>6. \A h \in Generations : holder' = h => h = g
      BY <1>3, <2>1, <2>3, PositionAssumption
    <2> QED
      BY <1>3, <1>4, <1>5, <2>1, <2>3, <2>5, <2>6
  <1>12. CASE InsertEntry(g)
    <2>1. /\ session[g].at = "insert" /\ session' = [session EXCEPT ![g].at = "consume"]
          /\ UNCHANGED <<holder, drawn, drawnFor, strays>>
      BY <1>0, <1>12 DEF InsertEntry, Goto, At, store, history
    <2>2. session'[g] = [session[g] EXCEPT !.at = "consume"]
      BY <1>0, <2>1
    <2>3. ~Installing(g)' /\ Past(g) /\ Through(g)' = Through(g)
      BY <1>0, <2>1, <2>2 DEF Installing, Past, At, Through, SessionRecord
    <2>4. Shown(g) => Shown(g)'
      BY <1>0, <2>1, <2>2, <2>3, ShownKept DEF SessionRecord
    <2> QED
      BY <1>3, <1>4, <1>5, <1>6, <2>1, <2>3, <2>4
  <1> QED
    BY <1>8, <1>9, <1>10, <1>11, <1>12 DEF Installer

\* A consumer draws its own output, and whoever draws in another's mirror makes it stray.
LEMMA ConsumerScreen ==
    ASSUME TypeOK, WorkInv, ScreenInv, NEW g \in Generations, Consumer(g), ~raced'
    PROVE  ScreenInv'
  <1>0. /\ session \in [Generations -> SessionRecord] /\ session[g] \in SessionRecord
        /\ drawn \in [Generations -> SUBSET Chunks]
    BY TypesByPart DEF SessionTyped, PaneTyped
  <1>1. /\ \A h \in Generations \ {g} : session'[h] = session[h]
        /\ UNCHANGED <<holder, drawnFor, raced>> /\ strays \subseteq strays'
    BY <1>0 DEF Consumer, Admit, Feed, Publish, Gap, End, Closed, Evict, Goto, store, history
  <1>2. /\ \A h, i \in Generations : Installing(h) /\ Installing(i) => h = i
        /\ \A h \in Generations : Installing(h) => holder \in {h, NoOwner}
        /\ \A h \in Generations : holder = h /\ Past(h) => Shown(h)
    BY <1>1 DEF ScreenInv, Shown
  <1>3. /\ session[g].at \in {"consume", "feed", "publish", "evict"}
        /\ session'[g].at \in {"consume", "feed", "publish", "evict", "done"}
    BY <1>0 DEF Consumer, Admit, Feed, Publish, Gap, End, Closed, Evict, Goto, At, SessionRecord
  <1>4. ~Installing(g)' /\ Past(g)
    BY <1>3 DEF Installing, Past, At
  <1>5. \A h \in Generations \ {g} :
            /\ Installing(h)' = Installing(h) /\ Past(h)' = Past(h)
            /\ Through(h)' = Through(h)
    BY <1>1 DEF Installing, Past, At, Through
  <1>6. SessionInv(g)
    BY DEF WorkInv
  <1>7. session[g].delivered \in Nat /\ session[g].delivered \in Sequences
        /\ session[g].arc \in Generations /\ session[g].restored \in BOOLEAN
        /\ session[g].drop \in BOOLEAN
    BY <1>0, Sequence DEF SessionRecord
  <1>8. ASSUME \A h \in Generations : Shown(h) => Shown(h)' PROVE ScreenInv'
    BY <1>1, <1>2, <1>4, <1>5, <1>8 DEF ScreenInv, Shown
  <1>9. ASSUME drawn' = drawn, Shown(g) => Shown(g)' PROVE ScreenInv'
    BY <1>1, <1>5, <1>8, <1>9, ShownKept
  <1>10. CASE Feed(g)
    <2> DEFINE arc == session[g].arc
               output == <<g, session[g].delivered>>
    <2>1. /\ session' = [session EXCEPT ![g].at = "publish", ![g].drop = FALSE,
                                        ![g].applied = session[g].delivered]
          /\ drawn' = IF session[g].drop THEN drawn
                      ELSE [drawn EXCEPT ![arc] = @ \cup {output}]
          /\ strays' = strays \cup ({drawnFor[arc]} \ {g})
          /\ session[g].at = "feed"
      BY <1>10 DEF Feed, At
    <2>2. /\ session'[g].at = "publish" /\ session'[g].arc = arc
          /\ session'[g].base = session[g].base /\ session'[g].restored = session[g].restored
          /\ session'[g].gapped = session[g].gapped
          /\ session'[g].delivered = session[g].delivered
      BY <1>0, <2>1 DEF SessionRecord
    <2>3. Through(g)' = session[g].delivered /\ Through(g) = session[g].delivered - 1
      BY <2>1, <2>2 DEF Through, At
    <2>4. ASSUME NEW h \in Generations \ {g}, Shown(h) PROVE Shown(h)'
      <3>1. CASE session[h].arc = arc
        <4>1. h \in strays' /\ drawnFor'[session'[h].arc] = h
          BY <1>1, <2>1, <2>4, <3>1 DEF Shown
        <4> QED
          BY <4>1 DEF Shown
      <3>2. CASE session[h].arc # arc
        <4>1. drawn'[session[h].arc] = drawn[session[h].arc]
          BY <1>0, <2>1, <3>2 DEF SessionRecord
        <4> QED
          BY <1>1, <1>5, <2>4, <4>1, ShownKept
      <3> QED
        BY <3>1, <3>2
    <2>5. ASSUME Shown(g) PROVE Shown(g)'
      <3>1. drawnFor'[session'[g].arc] = g
        BY <1>1, <2>2, <2>5 DEF Shown
      <3>2. ASSUME g \notin strays', ~session'[g].gapped
            PROVE  drawn'[session'[g].arc] = Screen(g, Through(g))'
        <4>1. drawn[arc] = Drawing(session[g].base, session[g].restored, g,
                                   session[g].delivered - 1)
          <5>1. drawn[arc] = Screen(g, Through(g))
            BY <1>1, <2>2, <2>5, <3>2 DEF Shown
          <5> QED
            BY <2>3, <5>1, ScreenIsDrawing
        <4>2. Screen(g, Through(g))' = Drawing(session[g].base, session[g].restored, g,
                                               session[g].delivered)
          BY <2>2, <2>3, ScreenIsDrawing
        <4>3. session[g].drop <=> session[g].restored /\ session[g].delivered = 1
          BY <1>6, <1>7, <2>1, <2>2, <2>3, <3>2 DEF SessionInv, At
        <4>4. session[g].delivered >= 1
          BY <1>6, <2>1 DEF SessionInv, At
        <4>5. CASE session[g].drop
          <5>1. session[g].delivered < (IF session[g].restored THEN 2 ELSE 1)
            BY <1>7, <4>3, <4>5
          <5>2. /\ Drawing(session[g].base, session[g].restored, g, session[g].delivered)
                        = session[g].base
                /\ Drawing(session[g].base, session[g].restored, g, session[g].delivered - 1)
                        = session[g].base
            <6> DEFINE last == session[g].delivered
                       restored == session[g].restored
            <6>1. last \in Sequences /\ restored \in BOOLEAN /\ last < (IF restored THEN 2 ELSE 1)
              BY <1>7, <5>1
            <6> HIDE DEF last, restored
            <6>2. /\ Drawing(session[g].base, restored, g, last) = session[g].base
                  /\ Drawing(session[g].base, restored, g, last - 1) = session[g].base
              BY <6>1, DrawingGrows
            <6> QED
              BY <6>2 DEF last, restored
          <5>3. drawn' = drawn /\ session'[g].arc = arc
            BY <2>1, <2>2, <4>5
          <5> QED
            BY <4>1, <4>2, <5>2, <5>3
        <4>6. CASE ~session[g].drop
          <5>1. session[g].delivered >= (IF session[g].restored THEN 2 ELSE 1)
            BY <1>7, <4>3, <4>4, <4>6
          <5>2. Drawing(session[g].base, session[g].restored, g, session[g].delivered)
                  = Drawing(session[g].base, session[g].restored, g, session[g].delivered - 1)
                        \cup {output}
            BY <1>7, <5>1, DrawingGrows
          <5>3. drawn'[arc] = drawn[arc] \cup {output}
            BY <1>0, <1>7, <2>1, <4>6
          <5> QED
            BY <2>2, <4>1, <4>2, <5>2, <5>3
        <4> QED
          BY <4>5, <4>6
      <3> QED
        BY <3>1, <3>2 DEF Shown
    <2> QED
      BY <1>8, <2>4, <2>5
  <1>11. CASE Gap(g)
    <2>1. /\ session' = [session EXCEPT ![g].delivered = @ + 1, ![g].gapped = TRUE]
          /\ drawn' = drawn
      BY <1>11 DEF Gap
    <2>2. session'[g].gapped /\ session'[g].arc = session[g].arc
      BY <1>0, <2>1 DEF SessionRecord
    <2> QED
      BY <1>1, <1>9, <2>1, <2>2 DEF Shown
  <1>12. CASE Admit(g)
    <2>1. /\ session' = [session EXCEPT ![g].at = "feed", ![g].delivered = @ + 1]
          /\ drawn' = drawn /\ session[g].at = "consume"
      BY <1>12 DEF Admit, At
    <2>2. session'[g] = [session[g] EXCEPT !.at = "feed", !.delivered = @ + 1]
      BY <1>0, <2>1
    <2>3. Through(g)' = Through(g)
      BY <1>0, <1>7, <2>1, <2>2 DEF Through, At, SessionRecord
    <2>4. Shown(g) => Shown(g)'
      BY <1>0, <1>1, <2>1, <2>2, <2>3, ShownKept DEF SessionRecord
    <2> QED
      BY <1>9, <2>1, <2>4
  <1>13. CASE Publish(g) \/ End(g) \/ Closed(g) \/ Evict(g)
    <2>1. drawn' = drawn
      BY <1>13 DEF Publish, End, Closed, Evict
    <2>2. /\ session'[g].arc = session[g].arc /\ session'[g].base = session[g].base
          /\ session'[g].restored = session[g].restored
          /\ session'[g].gapped = session[g].gapped
          /\ session'[g].delivered = session[g].delivered
          /\ session[g].at # "feed" /\ session'[g].at # "feed"
      BY <1>0, <1>13 DEF Publish, End, Closed, Evict, Goto, At, SessionRecord
    <2>3. Through(g)' = Through(g)
      BY <2>2 DEF Through, At
    <2>4. Shown(g) => Shown(g)'
      BY <1>1, <2>1, <2>2, <2>3, ShownKept
    <2> QED
      BY <1>9, <2>1, <2>4
  <1> QED
    BY <1>10, <1>11, <1>12, <1>13 DEF Consumer

LEMMA ScreenStep ==
    ASSUME TypeOK, WorkInv, ScreenInv, [Next]_vars PROVE ScreenInv'
  <1> SUFFICES ASSUME ~raced' PROVE ScreenInv'
    BY DEF ScreenInv
  <1>1. ASSUME UNCHANGED <<session, drawn, history>>, holder' \in {holder, NoOwner}
        PROVE  ScreenInv'
    <2>1. \A h \in Generations : /\ Installing(h)' = Installing(h) /\ Past(h)' = Past(h)
                                 /\ Through(h)' = Through(h)
      BY <1>1 DEF Installing, Past, At, Through
    <2>2. \A h \in Generations : Shown(h) => Shown(h)'
      BY <1>1, <2>1, ShownKept DEF history
    <2> QED
      BY <1>1, <2>1, <2>2, PositionAssumption DEF ScreenInv, Shown, history
  <1>2. CASE (\E g \in Generations : Worker(g)) \/ Archive \/ Retire \/ UNCHANGED vars
    BY <1>1, <1>2 DEF Worker, Receive, WriteLatest, Abandon, Archive, Retire, Write, Commit,
                      vars, store, history
  <1> QED
    BY <1>2, InstallerScreen, ConsumerScreen DEF Next

--------------------------------------------------------------------------------
\* The archive.

\* A worker that stops at a session's end has just written the last output, or found it
\* archived; afterwards only another owner writes something that is not later.
LEMMA EndStep ==
    ASSUME TypeOK, WorkInv, EndIsArchived, [Next]_vars PROVE EndIsArchived'
  <1> SUFFICES ASSUME NEW h \in Generations, session'[h].finished, worker'[h].at = "done",
                      holder' = h, ~(failures' > 0)
               PROVE  Holds(archived', [generation |-> h, sequence |-> session'[h].delivered])
    BY DEF EndIsArchived
  <1>0. /\ session \in [Generations -> SessionRecord] /\ worker \in [Generations -> WorkerRecord]
        /\ failures \in Nat /\ h # NoOwner
        /\ archived # Absent => archived.sequence \in Nat
        /\ \A g \in Generations : session[g].delivered \in Nat /\ session[g].applied \in Nat
    <2>1. SessionTyped /\ WorkTyped /\ StoreTyped
      BY TypesByPart
    <2>2. failures \in Nat /\ h # NoOwner
      BY <2>1, WorkerAssumption, PositionAssumption DEF StoreTyped
    <2>3. archived # Absent => archived.sequence \in Nat
      BY <2>1, Sequence DEF StoreTyped, Position
    <2>4. \A g \in Generations : session[g].delivered \in Nat /\ session[g].applied \in Nat
      BY <2>1, Sequence DEF SessionTyped, SessionRecord
    <2> QED
      BY <2>1, <2>2, <2>3, <2>4 DEF SessionTyped, WorkTyped
  <1>1. SessionInv(h) /\ QueueInv(h)
    BY DEF WorkInv
  <1>2. ASSUME session[h].finished, session'[h].delivered = session[h].delivered,
               worker[h].at = "done", holder = h, failures' = failures
        PROVE  Holds(archived, [generation |-> h, sequence |-> session'[h].delivered])
    BY <1>2 DEF EndIsArchived
  <1>3. ASSUME NEW g \in Generations, Installer(g)
        PROVE  Holds(archived', [generation |-> h, sequence |-> session'[h].delivered])
    <2>1. worker' = worker /\ archived' = archived
      BY <1>3 DEF Installer, ClaimGeneration, Claim, ClaimFails, CreateMirror, InstallMirror,
                  InsertEntry, store
    <2>2. g # h
      <3>1. \/ At(g, "idle") \/ At(g, "create") \/ At(g, "replace") \/ At(g, "insert")
        BY <1>3 DEF Installer, ClaimGeneration, ClaimFails, CreateMirror, InstallMirror,
                    InsertEntry, Goto
      <3>2. session'[g].finished = session[g].finished
        BY <1>0, <1>3 DEF Installer, ClaimGeneration, ClaimFails, CreateMirror, InstallMirror,
                          InsertEntry, Goto, SessionRecord
      <3> QED
        BY <1>1, <3>1, <3>2 DEF SessionInv, Past
    <2>3. session'[h] = session[h]
      BY <1>0, <1>3, <2>2 DEF Installer, ClaimGeneration, ClaimFails, CreateMirror,
                              InstallMirror, InsertEntry, Goto
    <2>4. holder = h
      BY <1>0, <1>3, <2>2 DEF Installer, ClaimGeneration, Claim, ClaimFails, CreateMirror,
                              InstallMirror, InsertEntry, store
    <2>5. failures' = failures
      BY <1>0, <1>3 DEF Installer, ClaimGeneration, ClaimFails, CreateMirror, InstallMirror,
                        InsertEntry, store
    <2> QED
      BY <1>2, <2>1, <2>3, <2>4, <2>5
  <1>4. ASSUME NEW g \in Generations, Consumer(g)
        PROVE  Holds(archived', [generation |-> h, sequence |-> session'[h].delivered])
    <2>1. UNCHANGED <<worker, archived, holder, failures>>
      BY <1>4 DEF Consumer, Admit, Feed, Publish, Gap, End, Closed, Evict, store
    <2>2. Disconnected(h)
      BY <1>1, <2>1 DEF QueueInv
    <2>3. CASE g = h
      <3>1. Evict(h)
        BY <1>4, <2>2, <2>3 DEF Consumer, Admit, Feed, Publish, Gap, End, Closed, Disconnected,
                                Goto, At
      <3>2. /\ session[h].finished
            /\ session'[h].delivered = session[h].delivered
        <4>1. session' = [session EXCEPT ![h].at = "done", ![h].applied = 0,
                                      ![h].drop = FALSE]
          BY <1>0, <3>1 DEF Evict
        <4>2. session'[h] = [session[h] EXCEPT !.at = "done", !.applied = 0, !.drop = FALSE]
          BY <1>0, <4>1
        <4> QED
          BY <1>0, <4>2 DEF SessionRecord
      <3>3. worker[h].at = "done" /\ holder = h /\ failures' = failures
        BY <2>1
      <3> QED
        BY <1>2, <2>1, <3>2, <3>3
    <2>4. CASE g # h
      <3>1. session'[h] = session[h]
        BY <1>0, <1>4, <2>4 DEF Consumer, Admit, Feed, Publish, Gap, End, Closed, Evict, Goto
      <3> QED
        BY <1>2, <2>1, <3>1
    <2> QED
      BY <2>3, <2>4
  <1>5. ASSUME NEW g \in Generations, Worker(g)
        PROVE  Holds(archived', [generation |-> h, sequence |-> session'[h].delivered])
    <2>1. session' = session /\ holder = h
      BY <1>5 DEF Worker, Receive, WriteLatest, Abandon, Write, Commit, store
    <2>2. failures' = failures /\ (archived' = archived \/ holder = g)
      BY <1>0, <1>5 DEF Worker, Receive, WriteLatest, Abandon, Write, Commit, store
    <2>3. CASE g # h
      <3>1. worker'[h] = worker[h] /\ archived' = archived
        BY <1>0, <1>5, <2>1, <2>2, <2>3 DEF Worker, Receive, WriteLatest, Abandon
      <3> QED
        BY <1>2, <2>1, <2>2, <3>1
    <2>4. CASE g = h
      <3>1. ~Receive(h)
        BY <1>0 DEF Receive
      <3>2. ~Abandon(h)
        <4>1. session[h].finished /\ queue[h] = <<>> => worker[h].final \/ worker[h].at = "done"
          BY <1>1 DEF QueueInv
        <4>2. worker[h].final => worker[h].at = "coalesce"
          BY <1>1 DEF QueueInv
        <4> QED
          BY <2>1, <4>1, <4>2 DEF Abandon, Listening
      <3>3. WriteLatest(h)
        BY <1>5, <2>4, <3>1, <3>2 DEF Worker
      <3>4. worker[h].final
        BY <1>0, <3>3 DEF WriteLatest, Waiting
      <3>5. worker[h].sequence = session'[h].delivered
        BY <1>1, <2>1, <3>4 DEF QueueInv
      <3> DEFINE position == [generation |-> h, sequence |-> session'[h].delivered]
      <3>6. Write(h, session[h].arc, session'[h].delivered)
        BY <1>0, <2>2, <3>3, <3>5 DEF WriteLatest
      <3>7. CASE archived' = position
        <4>1. position \in Position
          BY <1>0, <2>1, TypesByPart DEF Position, SessionTyped, SessionRecord
        <4> QED
          BY <1>0, <2>1, <3>7, <4>1, PositionAssumption DEF Holds
      <3>8. CASE archived' = archived /\ Holds(archived, position)
        BY <3>8
      <3> QED
        BY <2>1, <3>6, <3>7, <3>8 DEF Write, Commit
    <2> QED
      BY <2>3, <2>4
  <1>6. CASE Archive
    <2> DEFINE position == [generation |-> entry.generation,
                            sequence |-> session[entry.generation].applied]
    <2>1. /\ UNCHANGED <<session, worker, failures>> /\ holder = h
          /\ entry # None
          /\ archived' = archived \/ (holder = position.generation
                                      /\ ~Holds(archived, position) /\ archived' = position)
      BY <1>6 DEF Archive, Write, Commit
    <2>2. Holds(archived, [generation |-> h, sequence |-> session[h].delivered])
      BY <1>2, <2>1
    <2>3. CASE archived' = archived
      BY <2>1, <2>2, <2>3
    <2>4. CASE holder = position.generation /\ ~Holds(archived, position)
                /\ archived' = position
      <3>1. entry.generation = h /\ position = [generation |-> h, sequence |-> session[h].applied]
        BY <2>1, <2>4
      <3>2. archived.sequence < session[h].applied
        BY <1>0, <2>2, <2>4, <3>1 DEF Holds
      <3>3. position \in Position
        BY <1>0, <3>1, TypesByPart DEF Position, SessionTyped, SessionRecord
      <3> QED
        BY <1>0, <2>1, <2>2, <2>4, <3>1, <3>2, <3>3, PositionAssumption DEF Holds
    <2> QED
      BY <2>1, <2>3, <2>4
  <1>7. ~Retire
    BY <1>0 DEF Retire
  <1>8. CASE UNCHANGED vars
    BY <1>2, <1>8 DEF vars
  <1> QED
    BY <1>3, <1>4, <1>5, <1>6, <1>7, <1>8 DEF Next

\* Where the content of a mirror's session comes from is settled before it has a mirror.
LEMMA ContentKept ==
    ASSUME TypeOK, [Next]_vars, NEW h \in Generations, Past(h)
    PROVE  /\ session'[h].base = session[h].base /\ session'[h].restored = session[h].restored
           /\ session[h].gapped => session'[h].gapped
           /\ strays \subseteq strays' /\ (raced => raced')
           /\ \A n : Screen(h, n)' = Screen(h, n)
  <1>0. session \in [Generations -> SessionRecord]
    BY TypesByPart DEF SessionTyped
  <1>1. ASSUME NEW g \in Generations, Installer(g)
        PROVE  /\ session'[h].base = session[h].base
               /\ session'[h].restored = session[h].restored
               /\ session'[h].gapped = session[h].gapped
    BY <1>0, <1>1 DEF Installer, ClaimGeneration, ClaimFails, CreateMirror, InstallMirror,
                      InsertEntry, Goto, Past, At, SessionRecord
  <1>2. ASSUME NEW g \in Generations, Consumer(g)
        PROVE  /\ session'[h].base = session[h].base
               /\ session'[h].restored = session[h].restored
               /\ session[h].gapped => session'[h].gapped
    BY <1>0, <1>2 DEF Consumer, Admit, Feed, Publish, Gap, End, Closed, Evict, Goto, SessionRecord
  <1>3. ASSUME ~\E g \in Generations : Installer(g) \/ Consumer(g) PROVE session' = session
    BY <1>3 DEF Next, vars, Worker, Receive, WriteLatest, Abandon, Archive, Retire
  <1>4. /\ session'[h].base = session[h].base /\ session'[h].restored = session[h].restored
        /\ session[h].gapped => session'[h].gapped
    BY <1>1, <1>2, <1>3
  <1>5. strays \subseteq strays' /\ (raced => raced')
    <2>1. ASSUME NEW g \in Generations, Installer(g)
          PROVE  strays \subseteq strays' /\ (raced => raced')
      <3>1. CASE ClaimGeneration(g)
        <4>1. strays' = strays
          BY <3>1 DEF ClaimGeneration
        <4>2. raced => raced'
          BY <3>1, Zenon DEF ClaimGeneration
        <4> QED
          BY <4>1, <4>2
      <3>2. CASE ClaimFails(g) \/ CreateMirror(g) \/ InstallMirror(g) \/ InsertEntry(g)
        BY <3>2 DEF ClaimFails, CreateMirror, InstallMirror, InsertEntry, history
      <3> QED
        BY <2>1, <3>1, <3>2 DEF Installer
    <2>2. ASSUME NEW g \in Generations, Consumer(g)
          PROVE  strays \subseteq strays' /\ (raced => raced')
      BY <2>2 DEF Consumer, Admit, Feed, Publish, Gap, End, Closed, Evict, history
    <2>3. ASSUME ~\E g \in Generations : Installer(g) \/ Consumer(g)
          PROVE  strays' = strays /\ raced' = raced
      BY <2>3 DEF Next, vars, Worker, Receive, WriteLatest, Abandon, Archive, Retire, history
    <2> QED
      BY <2>1, <2>2, <2>3
  <1>6. \A n : Screen(h, n)' = Screen(h, n)
    BY <1>4 DEF Screen
  <1> QED
    BY <1>4, <1>5, <1>6

\* What the holder's mirror shows is what it has applied, and that may be a label.
LEMMA PaintIsItsLabel ==
    ASSUME TypeOK, WorkInv, ScreenInv, NEW g \in Generations \ strays, holder = g, Past(g),
           ~session[g].gapped, ~raced, NEW n \in Nat, n <= Through(g)
    PROVE  \E through \in Sequences :
              n <= through /\ drawn[session[g].arc] = Screen(g, through)
  <1>1. drawn[session[g].arc] = Screen(g, Through(g))
    BY DEF ScreenInv
  <1>2. SessionInv(g) /\ session[g].delivered \in Nat
    BY TypesByPart, Sequence DEF WorkInv, SessionTyped, SessionRecord
  <1>3. Through(g) \in Nat /\ Through(g) <= LastOutput[g] /\ LastOutput[g] \in Nat
    BY <1>2, Sequence DEF SessionInv, Through
  <1>4. Through(g) \in Sequences
    BY <1>3, Sequence
  <1> QED
    BY <1>1, <1>4

LEMMA LabelStep ==
    ASSUME TypeOK, WorkInv, ScreenInv, ArchiveIsItsLabel, [Next]_vars PROVE ArchiveIsItsLabel'
  <1> SUFFICES ASSUME NEW h \in Generations \ strays', archived' # Absent,
                      archived'.generation = h, ~session'[h].gapped, ~raced'
               PROVE  \E through \in Sequences :
                         archived'.sequence <= through /\ painted' = Screen(h, through)'
    BY DEF ArchiveIsItsLabel
  <1>1. CASE UNCHANGED <<archived, painted>>
    <2>1. Past(h)
      BY <1>1 DEF WorkInv, HolderInv
    <2>2. /\ h \in Generations \ strays /\ ~session[h].gapped /\ ~raced
          /\ \A n : Screen(h, n)' = Screen(h, n)
      BY <2>1, ContentKept
    <2>3. PICK through \in Sequences :
              archived.sequence <= through /\ painted = Screen(h, through)
      BY <1>1, <2>2 DEF ArchiveIsItsLabel
    <2> QED
      BY <1>1, <2>2, <2>3
  <1>2. ASSUME NEW g \in Generations, NEW sequence \in Nat, Past(g), sequence <= Through(g),
               Write(g, session[g].arc, sequence)
        PROVE  \E through \in Sequences :
                  archived'.sequence <= through /\ painted' = Screen(h, through)'
    <2>1. CASE UNCHANGED <<archived, painted>>
      BY <1>1, <2>1
    <2>2. CASE /\ holder = g /\ archived' = [generation |-> g, sequence |-> sequence]
               /\ painted' = drawn[session[g].arc]
      <3>1. g = h
        BY <2>2
      <3>2. /\ h \in Generations \ strays /\ ~session[h].gapped /\ ~raced
            /\ \A n : Screen(h, n)' = Screen(h, n)
        BY <1>2, <3>1, ContentKept
      <3>3. PICK through \in Sequences :
                sequence <= through /\ drawn[session[g].arc] = Screen(g, through)
        BY <1>2, <2>2, <3>1, <3>2, PaintIsItsLabel
      <3> QED
        BY <2>2, <3>1, <3>2, <3>3
    <2> QED
      BY <1>2, <2>1, <2>2 DEF Write, Commit
  <1>3. ASSUME NEW g \in Generations, Worker(g), ~UNCHANGED <<archived, painted>>
        PROVE  \E through \in Sequences :
                  archived'.sequence <= through /\ painted' = Screen(h, through)'
    <2>1. worker[g].at = "coalesce" /\ Write(g, session[g].arc, worker[g].sequence)
      BY <1>3 DEF Worker, Receive, WriteLatest, Abandon, store
    <2>2. Past(g) /\ worker[g].sequence <= Through(g)
      BY <2>1 DEF WorkInv, QueueInv
    <2>3. worker[g].sequence \in Nat
      BY TypesByPart, Sequence DEF WorkTyped, WorkerRecord
    <2> QED
      BY <1>2, <2>1, <2>2, <2>3
  <1>4. CASE Archive
    <2> DEFINE g == entry.generation
    <2>1. entry # None /\ Write(g, entry.arc, session[g].applied)
      BY <1>4 DEF Archive
    <2>2. g \in Generations /\ session[g].applied \in Nat
      BY <2>1, TypesByPart, Sequence
         DEF PaneTyped, EntryRecord, SessionTyped, SessionRecord
    <2>3. Past(g) /\ entry.arc = session[g].arc /\ session[g].applied <= Through(g)
      BY <2>1, <2>2 DEF WorkInv, EntryInv, SessionInv
    <2> HIDE DEF g
    <2> QED
      BY <1>2, <2>1, <2>2, <2>3
  <1>5. CASE Retire
    BY <1>1, <1>5 DEF Retire
  <1>6. ASSUME NEW g \in Generations, Installer(g) \/ Consumer(g)
        PROVE  UNCHANGED <<archived, painted>>
    BY <1>6 DEF Installer, ClaimGeneration, Claim, ClaimFails, CreateMirror, InstallMirror,
                InsertEntry, Consumer, Admit, Feed, Publish, Gap, End, Closed, Evict, store
  <1>7. CASE UNCHANGED vars
    BY <1>1, <1>7 DEF vars
  <1> QED
    BY <1>1, <1>3, <1>4, <1>5, <1>6, <1>7 DEF Next

--------------------------------------------------------------------------------
\* Together they are inductive.

WorkerInv == TypeOK /\ WorkInv /\ ScreenInv /\ ArchiveIsItsLabel /\ EndIsArchived

LEMMA WorkerInvariant == Spec => []WorkerInv
  <1>1. Init => WorkerInv
    BY InitTyped, InitWork, InitScreen DEF WorkerInv
  <1>2. WorkerInv /\ [Next]_vars => WorkerInv'
    BY TypeStep, WorkStep, ScreenStep, LabelStep, EndStep DEF WorkerInv
  <1> QED
    BY <1>1, <1>2, PTL DEF Spec

\* checkpoint_worker, write_mirror_checkpoint and terminal.archive: as long as the pane's
\* sessions do not install at once, what is archived under a generation and a sequence is
\* that generation's screen at that sequence or later, unless output of its own was lost or
\* another session's got into its mirror.
THEOREM ArchivesAreTheirLabel == Spec => []ArchiveIsItsLabel
  <1>1. WorkerInv => ArchiveIsItsLabel
    BY DEF WorkerInv
  <1> QED
    BY <1>1, WorkerInvariant, PTL

\* checkpoint_worker: whatever it was waiting for or coalescing when the end came, the
\* worker of a session that ended stops only after its last output is archived, unless
\* another session owns the pane or a call of the store has failed.
THEOREM EndsAreArchived == Spec => []EndIsArchived
  <1>1. WorkerInv => EndIsArchived
    BY DEF WorkerInv
  <1> QED
    BY <1>1, WorkerInvariant, PTL
================================================================================
