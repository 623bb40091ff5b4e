---------------------------- MODULE CheckpointStore ----------------------------
(***************************************************************************)
(* The encrypted checkpoint of one pane (src/src/checkpoint.rs): the owner *)
(* file that is also the lock file, the archive file, and the threads of   *)
(* several sidecar processes that claim, write and remove.  Panes have     *)
(* their own files and share nothing, so one pane is enough.               *)
(*                                                                         *)
(* Every system call that another thread, or a reader without the lock,    *)
(* could observe is a step of its own, and every fallible one may fail.    *)
(* Sealing (encryption, serialisation) has no effect and is left out: an   *)
(* archive is the position it carries.  A crash is the death of one        *)
(* process: its file locks are released, the files keep what was written.  *)
(***************************************************************************)
EXTENDS CheckpointPositions

CONSTANTS
    Threads,      \* the threads that call the store
    Processes,    \* the processes they belong to
    ProcessOf,    \* thread -> process
    MaxCrashes,   \* bound on process deaths
    NoThread,     \* nobody holds the file lock
    TornOwner,    \* an owner file that is neither empty nor one number
    TornFile,     \* an archive file that is not a whole checkpoint
    NoCall        \* a thread outside the store

ASSUME StoreAssumption ==
    /\ ProcessOf \in [Threads -> Processes]
    /\ MaxCrashes \in Nat
    /\ NoThread \notin Threads
    /\ TornOwner \notin Generations \cup {NoOwner}
    /\ TornFile \notin Position \cup {Absent}

VARIABLES
    lock,      \* the thread whose flock on the owner file is granted
    owner,     \* what the owner file holds
    archive,   \* what the archive path holds
    pc,        \* the next step of each thread
    call,      \* the arguments of each thread's call
    temporary, \* each thread's own temporary file
    crashes,   \* process deaths so far
    granted,   \* history: the generation whose claim returned and still stands
    promised   \* history: the newest position a write acknowledged

vars == <<lock, owner, archive, pc, call, temporary, crashes, granted, promised>>

--------------------------------------------------------------------------------
\* The calls and the control points of a thread inside one.

Write(g, s) == [kind |-> "write", generation |-> g, sequence |-> s]
Claim(g) == [kind |-> "claim", generation |-> g]
Remove == [kind |-> "remove"]

Calls ==
    {Write(g, s) : g \in Generations, s \in Sequences}
        \cup {Claim(g) : g \in Generations} \cup {Remove}

Locked == {"truncate", "stamp", "unlink", "owner", "position", "create", "fill", "rename"}

PositionOf(c) == [generation |-> c.generation, sequence |-> c.sequence]

Goto(t, here, there) == pc[t] = here /\ pc' = [pc EXCEPT ![t] = there]

\* A call that ends, whatever it returns, drops the lock file.
Return(t) ==
    /\ pc' = [pc EXCEPT ![t] = "idle"]
    /\ call' = [call EXCEPT ![t] = NoCall]
    /\ lock' = NoThread

Init ==
    /\ lock = NoThread
    /\ owner = NoOwner
    /\ archive = Absent
    /\ pc = [t \in Threads |-> "idle"]
    /\ call = [t \in Threads |-> NoCall]
    /\ temporary = [t \in Threads |-> "none"]
    /\ crashes = 0
    /\ granted = NoOwner
    /\ promised = Absent

\* A caller enters write, claim_generation or remove and asks for the lock.
Begin(t, c) ==
    /\ Goto(t, "idle", "lock")
    /\ call' = [call EXCEPT ![t] = c]
    /\ UNCHANGED <<lock, owner, archive, temporary, crashes, granted, promised>>

\* Mutant of Acquire: the lock file is opened and never locked.
AcquireUnlocked(t) ==
    /\ Goto(t, "lock", IF call[t].kind = "write" THEN "owner" ELSE "truncate")
    /\ lock' = t
    /\ UNCHANGED <<owner, archive, call, temporary, crashes, granted, promised>>

\* lock.lock(): blocks until no thread of any process holds the file lock.  A call that cannot
\* open, lock or read a file returns before it has changed any, and is left out.
Acquire(t) ==
    /\ lock = NoThread
    /\ Goto(t, "lock", IF call[t].kind = "write" THEN "owner" ELSE "truncate")
    /\ lock' = t
    /\ UNCHANGED <<owner, archive, call, temporary, crashes, granted, promised>>

--------------------------------------------------------------------------------
\* claim_generation and remove

\* set_len(0): from here until the number is stamped nobody owns the pane.
Truncate(t) ==
    /\ Goto(t, "truncate", IF call[t].kind = "claim" THEN "stamp" ELSE "unlink")
    /\ owner' = NoOwner
    /\ granted' = NoOwner
    /\ UNCHANGED <<lock, archive, call, temporary, crashes, promised>>

Stamp(t) ==
    /\ pc[t] = "stamp"
    /\ owner' = call[t].generation
    /\ granted' = call[t].generation
    /\ Return(t)
    /\ UNCHANGED <<archive, temporary, crashes, promised>>

\* Mutant of StampFails: the error is dropped and the claim taken for granted.
StampFailsUnnoticed(t) ==
    /\ pc[t] = "stamp"
    /\ owner' \in {NoOwner, TornOwner, call[t].generation}
    /\ granted' = owner'
    /\ Return(t)
    /\ UNCHANGED <<archive, temporary, crashes, promised>>

\* write_all or sync_all fails; the file keeps any part of the number.
StampFails(t) ==
    /\ pc[t] = "stamp"
    /\ owner' \in {NoOwner, TornOwner, call[t].generation}
    /\ Return(t)
    /\ UNCHANGED <<archive, temporary, crashes, granted, promised>>

Unlink(t) ==
    /\ pc[t] = "unlink"
    /\ archive' = Absent
    /\ promised' = Absent
    /\ Return(t)
    /\ UNCHANGED <<owner, temporary, crashes, granted>>

\* set_len fails, or a removal's sync or unlink does: the call stops where it is.
CallFails(t) ==
    /\ pc[t] \in {"truncate", "unlink"}
    /\ Return(t)
    /\ UNCHANGED <<owner, archive, temporary, crashes, granted, promised>>

--------------------------------------------------------------------------------
\* write: commit and atomic_write

\* A later acknowledgement of the same generation never lowers the promise.
Acknowledge(position) ==
    promised' = IF Holds(promised, position) THEN promised ELSE position

\* The position in the archive's header; a file without a whole header has none.
committed_position == IF archive = TornFile THEN Absent ELSE archive

\* Another generation, or nobody, owns the pane, or its owner file is torn.
Refuse(t) ==
    /\ pc[t] = "owner"
    /\ owner # call[t].generation
    /\ Return(t)
    /\ UNCHANGED <<owner, archive, temporary, crashes, granted, promised>>

\* Mutant of Admit: any number in the owner file lets the write through.
AdmitAnyOwner(t) ==
    /\ Goto(t, "owner", "position")
    /\ owner \in Generations
    /\ UNCHANGED <<lock, owner, archive, call, temporary, crashes, granted, promised>>

Admit(t) ==
    /\ Goto(t, "owner", "position")
    /\ owner = call[t].generation
    /\ UNCHANGED <<lock, owner, archive, call, temporary, crashes, granted, promised>>

\* The file already carries this generation at this sequence or later.
Skip(t) ==
    /\ pc[t] = "position"
    /\ Holds(committed_position, PositionOf(call[t]))
    /\ Acknowledge(PositionOf(call[t]))
    /\ Return(t)
    /\ UNCHANGED <<owner, archive, temporary, crashes, granted>>

\* Mutant of Advance: the archive's position is not compared.
AdvanceAlways(t) ==
    /\ Goto(t, "position", "create")
    /\ UNCHANGED <<lock, owner, archive, call, temporary, crashes, granted, promised>>

Advance(t) ==
    /\ Goto(t, "position", "create")
    /\ ~Holds(committed_position, PositionOf(call[t]))
    /\ UNCHANGED <<lock, owner, archive, call, temporary, crashes, granted, promised>>

\* create_new with a name drawn from the sealed bytes: no two writes share one.
CreateTemporary(t) ==
    /\ Goto(t, "create", "fill")
    /\ temporary' = [temporary EXCEPT ![t] = "partial"]
    /\ UNCHANGED <<lock, owner, archive, call, crashes, granted, promised>>

\* write_all and sync_all
Fill(t) ==
    /\ Goto(t, "fill", "rename")
    /\ temporary' = [temporary EXCEPT ![t] = "whole"]
    /\ UNCHANGED <<lock, owner, archive, call, crashes, granted, promised>>

\* rename puts whatever the temporary file holds at the archive's path.  The
\* history forgets a promise of another generation, which this one supersedes.
Rename(t) ==
    /\ pc[t] = "rename"
    /\ archive' = IF temporary[t] = "whole" THEN PositionOf(call[t]) ELSE TornFile
    /\ temporary' = [temporary EXCEPT ![t] = "none"]
    /\ Acknowledge(PositionOf(call[t]))
    /\ Return(t)
    /\ UNCHANGED <<owner, crashes, granted>>

\* Any of these steps fails: the temporary file goes, the archive stays.
WriteFails(t) ==
    /\ pc[t] \in {"create", "fill", "rename"}
    /\ temporary' = [temporary EXCEPT ![t] = "none"]
    /\ Return(t)
    /\ UNCHANGED <<owner, archive, crashes, granted, promised>>

--------------------------------------------------------------------------------
\* A sidecar process dies between two steps.  Its threads end, the system drops
\* its file locks, and its temporary file stays behind under a name nobody uses.
Crash(p) ==
    LET dead == {t \in Threads : ProcessOf[t] = p} IN
    /\ crashes < MaxCrashes
    /\ crashes' = crashes + 1
    /\ pc' = [t \in Threads |-> IF t \in dead THEN "idle" ELSE pc[t]]
    /\ call' = [t \in Threads |-> IF t \in dead THEN NoCall ELSE call[t]]
    /\ temporary' = [t \in Threads |-> IF t \in dead THEN "none" ELSE temporary[t]]
    /\ lock' = IF lock \in dead THEN NoThread ELSE lock
    /\ UNCHANGED <<owner, archive, granted, promised>>

Step(t) ==
    \/ \E c \in Calls : Begin(t, c)
    \/ Acquire(t)
    \/ Truncate(t) \/ Stamp(t) \/ StampFails(t) \/ Unlink(t) \/ CallFails(t)
    \/ Refuse(t) \/ Admit(t) \/ Skip(t) \/ Advance(t)
    \/ CreateTemporary(t) \/ Fill(t) \/ Rename(t) \/ WriteFails(t)

Next ==
    \/ \E t \in Threads : Step(t)
    \/ \E p \in Processes : Crash(p)

Spec == Init /\ [][Next]_vars

--------------------------------------------------------------------------------
\* Properties

\* What read() answers, without the lock: a missing file is no checkpoint, one
\* that does not authenticate is an error.
read ==
    IF archive = Absent THEN "none" ELSE IF archive = TornFile THEN "corrupt" ELSE archive

TypeOK ==
    /\ lock \in Threads \cup {NoThread}
    /\ owner \in Generations \cup {NoOwner, TornOwner}
    /\ archive \in Position \cup {Absent, TornFile}
    /\ pc \in [Threads -> Locked \cup {"idle", "lock"}]
    /\ call \in [Threads -> Calls \cup {NoCall}]
    /\ temporary \in [Threads -> {"none", "partial", "whole"}]
    /\ crashes \in 0..MaxCrashes
    /\ granted \in Generations \cup {NoOwner}
    /\ promised \in Position \cup {Absent}

\* A position that write() acknowledged stays readable, whole, at that sequence or
\* later, until another generation commits or the pane is removed: no failed
\* write, crash, skipped commit or claim in between takes it away.
AcknowledgedIsReadable ==
    promised # Absent => /\ read \in Position
                         /\ Holds(read, promised)

\* Once a claim has returned and until the next claim or removal reaches the
\* owner file, nothing but the claimant's writes lands -- not even a write of the
\* previous owner that was admitted, created its file and filled it before.
GrantExcludesOthers ==
    [][archive' \notin {archive, Absent}
         => granted \in {NoOwner, archive'.generation}]_vars

\* The pane's owner as the promised behaviour sees it.  A claim takes effect when
\* it empties the file, because the lock hides the file until it is stamped.
holder ==
    IF lock # NoThread /\ pc[lock] = "stamp" THEN call[lock].generation
    ELSE IF owner = TornOwner THEN NoOwner ELSE owner

Archive == INSTANCE CheckpointArchive WITH holder <- holder, archived <- archive

\* The store implements the archive's promise: every step of every thread, failed
\* call and crash is a claim, a disowning, an owner's forward commit, an erasure of
\* an unowned pane, or nothing.
ImplementsArchive == Archive!ArchiveSpec
================================================================================
