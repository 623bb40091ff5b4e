----------------------------- MODULE PaneObservers -----------------------------
(***************************************************************************)
(* How the runtime comes by the observation streams of a pane, and what it *)
(* tells the owner in return (src/src/runtime.rs over src/src/daemon.rs):  *)
(* terminal.prepareSession and its thirty second timers, the two ways of   *)
(* terminal.ensureSession with the helper thread and the ten second wait   *)
(* for the opened frame, and the mode worker of every consumer.            *)
(*                                                                         *)
(* One PTY session is observed.  Its output is the mode changes in it: the *)
(* n-th change leaves the terminal in modes n, and a replay begins at the  *)
(* first change the owner retains.  A stream bears the name of the call    *)
(* that opened it, as does a mirror.  What the registry and the mirrors go *)
(* through between an answer and a consumer, and the replay a checkpoint   *)
(* of another generation has dropped, are the subject of SessionRegistry;  *)
(* here putting the pane's entry in is one step.                           *)
(***************************************************************************)
EXTENDS ControlClient, FiniteSets

CONSTANT MaxChanges  \* bound on the mode changes of the session

ASSUME ChangesAssumption == MaxChanges \in Nat

VARIABLES
    owner,       \* the PTY owner: tokens, the session's changes, the recorded report
    call,        \* call -> its command, control point, token and stream
    stream,      \* stream -> its connection, and the next change it delivers
    prepared,    \* the prepared table: streams whose token is not yet used
    timers,      \* streams whose expiry thread still sleeps
    helper,      \* call -> the helper thread that awaits the opened frame for it
    consumer,    \* stream -> its consumer's locals and its mode worker
    mirror,      \* mirror -> the modes it is in
    registered   \* the mirror of the pane's entry in the registry, or None

observers == <<owner, call, stream, prepared, timers, helper, consumer, mirror, registered>>
vars == <<client, observers>>

Change == 0..MaxChanges

\* Every mode report is a change number; none is sent before the first frame.
Report == Change \cup {None}

\* lost is history: neither the replay nor the record held the modes before the first frame.
Idle == [on |-> FALSE, mirror |-> None, sent |-> None, queue |-> <<>>, worker |-> "off",
         sending |-> None, failed |-> FALSE, lost |-> FALSE]

Init ==
    /\ ClientInit
    /\ owner = [issued |-> 0, tokens |-> {}, changes |-> 0, retained |-> 1,
                record |-> None, writer |-> None]
    /\ call = [c \in Calls |-> [op |-> None, at |-> "new", token |-> None, stream |-> c]]
    /\ stream = [c \in Calls |-> [at |-> "none", next |-> 1]]
    /\ prepared = {}
    /\ timers = {}
    /\ helper = [c \in Calls |-> "none"]
    /\ consumer = [c \in Calls |-> Idle]
    /\ mirror = [c \in Calls |-> 0]
    /\ registered = None

At(c, point) == call[c].at = point

Goto(c, point) == call' = [call EXCEPT ![c].at = point]

Starts(c, op, point) ==
    /\ At(c, "new")
    /\ call' = [call EXCEPT ![c].op = op, ![c].at = point]

Drop(s) == stream' = [stream EXCEPT ![s].at = "dropped"]

--------------------------------------------------------------------------------
\* terminal.prepareSession

Prepare(c) ==
    /\ Starts(c, "prepare", "asking")
    /\ Request(<<c, "call">>, "prepare")
    /\ UNCHANGED <<owner, stream, prepared, timers, helper, consumer, mirror, registered>>

\* prepare_observer returns; a refusal or a second ended connection is the answer.
PrepareAnswered(c) ==
    /\ At(c, "asking") /\ call[c].op = "prepare"
    /\ Done(<<c, "call">>)
    /\ Release
    /\ call' = [call EXCEPT ![c].token = control.reply,
                            ![c].at = IF control.reply = None THEN "failed" ELSE "connect"]
    /\ UNCHANGED <<owner, stream, prepared, timers, helper, consumer, mirror, registered>>

\* Mutant of Connect: a connect that fails prepares another observer.
ConnectStartsOver(c) ==
    /\ At(c, "connect")
    /\ \/ /\ call[c].token \in owner.tokens
          /\ owner' = [owner EXCEPT !.tokens = @ \ {call[c].token}]
          /\ stream' = [stream EXCEPT ![c].at = "attached"]
          /\ Goto(c, "keep")
       \/ Goto(c, "new") /\ UNCHANGED <<owner, stream>>
    /\ UNCHANGED <<client, prepared, timers, helper, consumer, mirror, registered>>

\* PreparedObservationStream::connect, on a connection of its own.
Connect(c) ==
    /\ At(c, "connect")
    /\ \/ /\ call[c].token \in owner.tokens
          /\ owner' = [owner EXCEPT !.tokens = @ \ {call[c].token}]
          /\ stream' = [stream EXCEPT ![c].at = "attached"]
          /\ Goto(c, "keep")
       \/ Goto(c, "failed") /\ UNCHANGED <<owner, stream>>
    /\ UNCHANGED <<client, prepared, timers, helper, consumer, mirror, registered>>

\* The stream goes into the table, and its expiry thread starts.
Keep(c) ==
    /\ At(c, "keep")
    /\ prepared' = prepared \cup {c}
    /\ timers' = timers \cup {c}
    /\ Goto(c, "prepared")
    /\ UNCHANGED <<client, owner, stream, helper, consumer, mirror, registered>>

\* Thirty seconds on, whatever has become of the token.
Expire(c) ==
    /\ c \in timers
    /\ timers' = timers \ {c}
    /\ prepared' = prepared \ {c}
    /\ IF c \in prepared THEN Drop(c) ELSE UNCHANGED stream
    /\ UNCHANGED <<client, owner, call, helper, consumer, mirror, registered>>

--------------------------------------------------------------------------------
\* terminal.ensureSession with a token

\* Mutant of Take: the stream is used and its token left in the table.
TakeByReference(c, s) ==
    /\ At(c, "new")
    /\ At(s, "prepared")
    /\ s \in prepared
    /\ helper' = [helper EXCEPT ![c] = "waiting"]
    /\ call' = [call EXCEPT ![c] = [@ EXCEPT !.op = "token", !.at = "wait", !.stream = s]]
    /\ UNCHANGED <<client, owner, stream, prepared, timers, consumer, mirror, registered>>

\* The table gives the stream up, once, and a helper thread awaits its opened frame.
\* A token that is not there is answered OBSERVER_NOT_READY.
Take(c, s) ==
    /\ At(c, "new")
    /\ At(s, "prepared")
    /\ \/ /\ s \in prepared
          /\ prepared' = prepared \ {s}
          /\ helper' = [helper EXCEPT ![c] = "waiting"]
          /\ call' = [call EXCEPT ![c] = [@ EXCEPT !.op = "token", !.at = "wait", !.stream = s]]
       \/ /\ s \notin prepared
          /\ call' = [call EXCEPT ![c] = [@ EXCEPT !.op = "token", !.at = "failed"]]
          /\ UNCHANGED <<prepared, helper>>
    /\ UNCHANGED <<client, owner, stream, timers, consumer, mirror, registered>>

\* receive_opened returns.  A caller that has gone has dropped the receiver, and the
\* stream is dropped with the message; so is a stream that has ended.
HelperReturns(c) ==
    LET s == call[c].stream IN
    /\ helper[c] = "waiting"
    /\ stream[s].at \in {"opened", "ended"}
    /\ IF stream[s].at = "opened" /\ At(c, "wait")
       THEN helper' = [helper EXCEPT ![c] = "sent"] /\ UNCHANGED stream
       ELSE helper' = [helper EXCEPT ![c] = "failed"] /\ Drop(s)
    /\ UNCHANGED <<client, owner, call, prepared, timers, consumer, mirror, registered>>

\* recv_timeout returns what was sent, or OBSERVER_OPEN_FAILED.
Receive(c) ==
    /\ At(c, "wait")
    /\ helper[c] \in {"sent", "failed"}
    /\ helper' = [helper EXCEPT ![c] = "none"]
    /\ Goto(c, IF helper[c] = "sent" THEN "claim" ELSE "failed")
    /\ UNCHANGED <<client, owner, stream, prepared, timers, consumer, mirror, registered>>

\* Mutant of TimeOut: recv without a timeout, which never gives up.
TimeOutNever(c) ==
    /\ At(c, "wait")
    /\ helper[c] = "failed"
    /\ Goto(c, "failed")
    /\ UNCHANGED <<client, owner, stream, prepared, timers, helper, consumer, mirror, registered>>

\* Ten seconds have passed and nothing was sent; the helper goes on waiting.
TimeOut(c) ==
    /\ At(c, "wait")
    /\ helper[c] = "waiting"
    /\ Goto(c, "failed")
    /\ UNCHANGED <<client, owner, stream, prepared, timers, helper, consumer, mirror, registered>>

--------------------------------------------------------------------------------
\* terminal.ensureSession without a token

EnsureListed(c) ==
    /\ Starts(c, "listed", "asking")
    /\ Request(<<c, "call">>, "sessions")
    /\ UNCHANGED <<owner, stream, prepared, timers, helper, consumer, mirror, registered>>

\* list_sessions returns: PTY_UNAVAILABLE, NOT_FOUND, or a session; a pane the registry
\* holds is answered subscribed = false.
Listed(c) ==
    /\ At(c, "asking") /\ call[c].op = "listed"
    /\ Done(<<c, "call">>)
    /\ Release
    /\ Goto(c, IF control.reply \in {None, 0} THEN "failed"
               ELSE IF registered # None THEN "answered" ELSE "observe")
    /\ UNCHANGED <<owner, stream, prepared, timers, helper, consumer, mirror, registered>>

\* ObservationStream::subscribe: the response opens the stream.
Observe(c) ==
    /\ At(c, "observe")
    /\ \/ /\ stream' = [stream EXCEPT ![c] = [at |-> "opened", next |-> owner.retained]]
          /\ Goto(c, "claim")
       \/ Goto(c, "failed") /\ UNCHANGED stream
    /\ UNCHANGED <<client, owner, prepared, timers, helper, consumer, mirror, registered>>

--------------------------------------------------------------------------------
\* Both ways: subscribe and subscribe_stream, up to the consumer.

\* The generation is claimed, then recorded_modes asks the owner.
AskModes(c) ==
    /\ At(c, "claim")
    /\ Request(<<c, "call">>, "modes")
    /\ Goto(c, "modes")
    /\ UNCHANGED <<owner, stream, prepared, timers, helper, consumer, mirror, registered>>

ClaimFails(c) ==
    /\ At(c, "claim")
    /\ Goto(c, "failed")
    /\ Drop(call[c].stream)
    /\ UNCHANGED <<client, owner, prepared, timers, helper, consumer, mirror, registered>>

Restored == IF control.reply = None THEN 0 ELSE control.reply

\* The pane's mirror: a token's stream takes over the one the registry holds, and what it
\* holds is replaced; without a token the mirror is a new one.
MirrorOf(c) ==
    IF call[c].op = "token" /\ registered # None THEN registered ELSE call[c].stream

Started(c) ==
    [consumer EXCEPT ![call[c].stream] =
        [Idle EXCEPT !.on = TRUE, !.worker = "idle", !.mirror = MirrorOf(c),
                     !.lost = Restored < stream[call[c].stream].next - 1]]

\* Mutant of Subscribed: what the owner has recorded is not applied.
SubscribedFresh(c) ==
    /\ At(c, "modes")
    /\ Done(<<c, "call">>)
    /\ Release
    /\ Goto(c, "answered")
    /\ registered' = MirrorOf(c)
    /\ mirror' = [mirror EXCEPT ![MirrorOf(c)] = 0]
    /\ consumer' = Started(c)
    /\ UNCHANGED <<owner, stream, prepared, timers, helper>>

\* The fresh mirror is put into the recorded modes, or into none when the read failed or
\* nothing is recorded; then the entry goes in and the consumer starts.
Subscribed(c) ==
    /\ At(c, "modes")
    /\ Done(<<c, "call">>)
    /\ Release
    /\ Goto(c, "answered")
    /\ registered' = MirrorOf(c)
    /\ mirror' = [mirror EXCEPT ![MirrorOf(c)] = Restored]
    /\ consumer' = Started(c)
    /\ UNCHANGED <<owner, stream, prepared, timers, helper>>

--------------------------------------------------------------------------------
\* consume_observations and start_mode_worker

\* After a frame: a report that differs from the last one sent goes to the worker.
Reported(s, modes) ==
    IF consumer[s].sent = modes THEN consumer
    ELSE [consumer EXCEPT ![s].sent = modes, ![s].queue = Append(@, modes)]

\* A frame that changes the modes, and one that does not.
Consume(s) ==
    /\ consumer[s].on /\ registered # None
    /\ stream[s].at = "opened"
    /\ \/ /\ stream[s].next <= owner.changes
          /\ mirror' = [mirror EXCEPT ![consumer[s].mirror] = stream[s].next]
          /\ stream' = [stream EXCEPT ![s].next = @ + 1]
       \/ UNCHANGED <<mirror, stream>>
    /\ consumer' = Reported(s, mirror'[consumer[s].mirror])
    /\ UNCHANGED <<client, owner, call, prepared, timers, helper, registered>>

\* The stream has ended, or the frame finds no entry of its session: the consumer takes
\* the pane's entry with it, and the worker sends what it still has.
ConsumerEnds(s) ==
    /\ consumer[s].on
    /\ \/ stream[s].at = "ended"
       \/ stream[s].at = "opened" /\ registered = None
    /\ consumer' = [consumer EXCEPT ![s].on = FALSE]
    /\ registered' = None
    /\ Drop(s)
    /\ UNCHANGED <<client, owner, call, prepared, timers, helper, mirror>>

\* Mutant of WorkerTakes: the first report is sent, the later ones are dropped.
WorkerTakesFirst(s) ==
    /\ consumer[s].worker = "idle"
    /\ consumer[s].queue # <<>>
    /\ consumer' = [consumer EXCEPT ![s].worker = "locking", ![s].queue = <<>>,
                                    ![s].sending = Head(consumer[s].queue)]
    /\ UNCHANGED <<client, owner, call, stream, prepared, timers, helper, mirror, registered>>

\* The latest report supersedes those queued before it.
WorkerTakes(s) ==
    /\ consumer[s].worker = "idle"
    /\ consumer[s].queue # <<>>
    /\ consumer' = [consumer EXCEPT ![s].worker = "locking", ![s].queue = <<>>,
                                    ![s].sending = consumer[s].queue[Len(consumer[s].queue)]]
    /\ UNCHANGED <<client, owner, call, stream, prepared, timers, helper, mirror, registered>>

WorkerRequests(s) ==
    /\ consumer[s].worker = "locking"
    /\ Request(<<s, "worker">>, "record")
    /\ consumer' = [consumer EXCEPT ![s].worker = "sending"]
    /\ UNCHANGED <<owner, call, stream, prepared, timers, helper, mirror, registered>>

\* The outcome is not looked at.
WorkerReturns(s) ==
    /\ consumer[s].worker = "sending"
    /\ Done(<<s, "worker">>)
    /\ Release
    /\ consumer' = [consumer EXCEPT ![s].worker = "idle", ![s].sending = None,
                                    ![s].failed = control.reply = None]
    /\ UNCHANGED <<owner, call, stream, prepared, timers, helper, mirror, registered>>

--------------------------------------------------------------------------------
\* The owner

\* What serving a request does to the owner, and what it may reply: pty.sessions lists the
\* pane's session (1) or does not (0).
Effect ==
    CASE control.command = "prepare" ->
            [owner EXCEPT !.issued = @ + 1, !.tokens = @ \cup {owner.issued + 1}]
      [] control.command = "record" ->
            [owner EXCEPT !.record = consumer[control.by[1]].sending, !.writer = control.by[1]]
      [] OTHER -> owner

Replies ==
    CASE control.command = "prepare"  -> {owner.issued + 1}
      [] control.command = "sessions" -> {0, 1}
      [] control.command = "modes"    -> {owner.record}
      [] control.command = "record"   -> {0}

Serve ==
    /\ control.at = "sent"
    /\ owner' = Effect
    /\ (\E reply \in Replies : Served(reply)) \/ ServedInVain
    /\ UNCHANGED <<call, stream, prepared, timers, helper, consumer, mirror, registered>>

\* The session comes up; a prepared stream is told, with the replay that it begins at.
Open(s) ==
    /\ stream[s].at = "attached"
    /\ stream' = [stream EXCEPT ![s] = [at |-> "opened", next |-> owner.retained]]
    /\ UNCHANGED <<client, owner, call, prepared, timers, helper, consumer, mirror, registered>>

EndStream(s) ==
    /\ stream[s].at \in {"attached", "opened"}
    /\ stream' = [stream EXCEPT ![s].at = "ended"]
    /\ UNCHANGED <<client, owner, call, prepared, timers, helper, consumer, mirror, registered>>

\* The session changes its modes; the owner gives up the oldest output it retains.
Emit ==
    /\ \/ /\ owner.changes < MaxChanges
          /\ owner' = [owner EXCEPT !.changes = @ + 1]
       \/ /\ owner.retained <= owner.changes
          /\ owner' = [owner EXCEPT !.retained = @ + 1]
    /\ UNCHANGED <<client, call, stream, prepared, timers, helper, consumer, mirror, registered>>

\* What the thread of call c does once it is started.
Step(c) ==
    \/ PrepareAnswered(c) \/ Connect(c) \/ Keep(c)
    \/ Receive(c) \/ TimeOut(c)
    \/ Listed(c) \/ Observe(c)
    \/ AskModes(c) \/ ClaimFails(c) \/ Subscribed(c)

Start(c) == Prepare(c) \/ EnsureListed(c) \/ \E s \in Calls : Take(c, s)

Worker(s) == WorkerTakes(s) \/ WorkerRequests(s) \/ WorkerReturns(s)

\* The request under way comes to an end, one way or the other.
Exchange == Serve \/ (Connection /\ UNCHANGED observers)

Next ==
    \/ Exchange \/ Emit
    \/ \E c \in Calls :
        \/ Start(c) \/ Step(c) \/ Expire(c) \/ HelperReturns(c)
        \/ Consume(c) \/ ConsumerEnds(c) \/ Worker(c)
        \/ Open(c) \/ EndStream(c)

Spec == Init /\ [][Next]_vars

\* Threads run, and one that waits for the mutex gets it in the end; the owner answers a
\* request or ends its connection.  Nothing is asked of the streams it opens.
FairSpec ==
    /\ Spec
    /\ WF_vars(Exchange /\ control.at # "free")
    /\ \A c \in Calls : SF_vars(Step(c)) /\ WF_vars(WorkerReturns(c))

--------------------------------------------------------------------------------
\* Properties

OwnerTypeOK ==
    owner \in [issued: Nat, tokens: SUBSET (1..owner.issued), changes: Change,
               retained: 1..MaxChanges + 1, record: Report, writer: Calls \cup {None}]

CallTypeOK ==
    call \in [Calls -> [op: {"prepare", "token", "listed", None},
                        at: {"new", "asking", "connect", "keep", "prepared", "wait", "claim",
                             "observe", "modes", "answered", "failed"},
                        token: Nat \cup {None}, stream: Calls]]

StreamTypeOK ==
    stream \in [Calls -> [at: {"none", "attached", "opened", "ended", "dropped"},
                          next: 1..MaxChanges + 1]]

TableTypeOK ==
    /\ prepared \subseteq Calls
    /\ timers \subseteq Calls
    /\ helper \in [Calls -> {"none", "waiting", "sent", "failed"}]

ConsumerTypeOK ==
    consumer \in [Calls -> [on: BOOLEAN, mirror: Calls \cup {None}, sent: Report,
                            queue: Seq(Change), worker: {"off", "idle", "locking", "sending"},
                            sending: Report, failed: BOOLEAN, lost: BOOLEAN]]

MirrorTypeOK == mirror \in [Calls -> Change] /\ registered \in Calls \cup {None}

TypeOK ==
    /\ ClientTypeOK /\ OwnerTypeOK /\ CallTypeOK /\ StreamTypeOK
    /\ TableTypeOK /\ ConsumerTypeOK /\ MirrorTypeOK

Uses(c, s) == call[c].stream = s /\ call[c].at \in {"claim", "modes"}

\* Who holds stream s: its maker, the table, a helper or its message, a caller, a consumer.
Holders(s) ==
    { <<"maker", s>> : x \in {s} \cap {c \in Calls : At(c, "keep")} }
    \cup { <<"table", s>> : x \in {s} \cap prepared }
    \cup { <<"helper", c>> : c \in {d \in Calls : call[d].stream = s /\ helper[d] \in {"waiting", "sent"}} }
    \cup { <<"caller", c>> : c \in {d \in Calls : Uses(d, s)} }
    \cup { <<"consumer", s>> : x \in {s} \cap {c \in Calls : consumer[c].on} }

\* An observation stream is in one place, from its making until it is closed, and a closed
\* one in none: expiry, timeout and a second use of the token neither share nor lose it.
StreamHasOneHolder ==
    \A s \in Calls :
        Cardinality(Holders(s)) = IF stream[s].at \in {"attached", "opened", "ended"} THEN 1 ELSE 0

\* Every observer the owner prepared and nobody will ever connect was paid for with an
\* ended connection, a failed connect or the call that is about to connect.
LeftBehind ==
    Cardinality(owner.tokens) <=
        ends + Cardinality({c \in Calls : At(c, "connect")
                                \/ (At(c, "failed") /\ call[c].op = "prepare")
                                \/ control.by = <<c, "call">>})

\* When a worker rests with nothing queued and its last request got through, and no other
\* stream's worker has written since, the record is the report its consumer sent last:
\* coalescing and resending do not leave the owner with an older one.
RecordIsNewest ==
    \A s \in Calls :
        LET held == consumer[s] IN
        held.worker = "idle" /\ held.queue = <<>> /\ ~held.failed /\ owner.writer = s
        => owner.record = held.sent

\* A mirror of one consumer's own that has drawn all the session wrote is in its modes, if
\* the last change was in the replay or in the record when it was read.
ModesAreRestored ==
    \A s \in Calls :
        LET held == consumer[s] IN
        /\ held.on /\ ~held.lost /\ stream[s].next > owner.changes
        /\ \A other \in Calls \ {s} : consumer[other].mirror # held.mirror
        => mirror[held.mirror] = owner.changes

\* Every command is answered, whatever becomes of the stream it waits for: the opened frame
\* that never comes does not hold the thread.
CallsEnd ==
    \A c \in Calls :
        ~At(c, "new") ~> call[c].at \in {"prepared", "answered", "failed"}
================================================================================
