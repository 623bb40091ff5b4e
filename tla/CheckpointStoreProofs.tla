------------------------- MODULE CheckpointStoreProofs -------------------------
(***************************************************************************)
(* For every set of threads, processes, generations and sequences: the     *)
(* store's types, the two histories' properties, and that it implements    *)
(* CheckpointArchive.  The file lock makes everything a holder has read    *)
(* still true when it acts on it; IInv says what each holder has read.     *)
(***************************************************************************)
EXTENDS CheckpointStore, TLAPS

\* Exactly the holder of the file lock is between lock() and its return.
LockInv == \A t \in Threads : lock = t <=> pc[t] \in Locked

Admitted == {"position", "create", "fill", "rename"}

\* Every control point belongs to the calls that reach it.
CallInv == \A t \in Threads :
    /\ pc[t] # "idle" => call[t] \in Calls
    /\ pc[t] \in Admitted \cup {"owner"} => call[t].kind = "write"
    /\ pc[t] = "truncate" => call[t].kind # "write"
    /\ pc[t] = "stamp" => call[t].kind = "claim"
    /\ pc[t] = "unlink" => call[t].kind = "remove"

\* What a holder has read or written is still so.
ReadInv == \A t \in Threads :
    /\ pc[t] \in Admitted => owner = call[t].generation
    /\ pc[t] \in Admitted \ {"position"} => ~Holds(archive, PositionOf(call[t]))
    /\ pc[t] = "rename" => temporary[t] = "whole"
    /\ pc[t] \in {"stamp", "unlink"} => owner = NoOwner

HistoryInv ==
    /\ granted # NoOwner => owner = granted
    /\ archive # TornFile
    /\ promised # Absent => Holds(archive, promised)

IInv == TypeOK /\ LockInv /\ CallInv /\ ReadInv /\ HistoryInv

--------------------------------------------------------------------------------
\* A write call carries a position, a claim a generation.
LEMMA CallArguments ==
    ASSUME NEW c \in Calls
    PROVE  /\ c.kind \in {"write", "claim", "remove"}
           /\ c.kind = "write" => /\ c.generation \in Generations
                                  /\ c.sequence \in Sequences
                                  /\ PositionOf(c) \in Position
           /\ c.kind = "claim" => c.generation \in Generations
  BY DEF Calls, Write, Claim, Remove, PositionOf, Position

\* A position is held by itself, and by whatever holds a position that holds it.
LEMMA HoldsIsOrder ==
    ASSUME NEW a \in Position, NEW b \in Position, NEW c \in Position
    PROVE  /\ Holds(a, a)
           /\ Holds(a, b) /\ Holds(b, c) => Holds(a, c)
<1>1. a # Absent
  BY PositionAssumption
<1>2. a.sequence \in Sequences /\ b.sequence \in Sequences /\ c.sequence \in Sequences
  BY DEF Position
<1>3. \A s \in Sequences : s \in Int
  BY PositionAssumption
<1>4. a.sequence \in Int /\ b.sequence \in Int /\ c.sequence \in Int
  BY <1>2, <1>3
<1>5. QED BY <1>1, <1>4 DEF Holds

LEMMA InitIInv == Init => IInv
  BY StoreAssumption, PositionAssumption
     DEF Init, IInv, TypeOK, LockInv, CallInv, ReadInv, HistoryInv, Locked, Admitted

--------------------------------------------------------------------------------
\* Each step preserves the types.
LEMMA TypeStep ==
    ASSUME IInv, [Next]_vars
    PROVE  TypeOK'
<1> USE StoreAssumption, PositionAssumption DEF IInv, TypeOK, Goto, Return
<1>1. ASSUME NEW t \in Threads, NEW c \in Calls, Begin(t, c) PROVE TypeOK'
  BY <1>1 DEF Begin
<1>2. ASSUME NEW t \in Threads, Acquire(t) PROVE TypeOK'
  BY <1>2 DEF Acquire, Locked
<1>3. ASSUME NEW t \in Threads, Truncate(t) PROVE TypeOK'
  BY <1>3 DEF Truncate, Locked
<1>4. ASSUME NEW t \in Threads, Stamp(t) \/ StampFails(t) PROVE TypeOK'
  <2>1. call[t].generation \in Generations
    BY <1>4, CallArguments DEF Stamp, StampFails, CallInv
  <2>2. QED BY <1>4, <2>1 DEF Stamp, StampFails, Locked
<1>5. ASSUME NEW t \in Threads, Unlink(t) \/ CallFails(t) \/ Refuse(t) PROVE TypeOK'
  BY <1>5 DEF Unlink, CallFails, Refuse, Locked
<1>6. ASSUME NEW t \in Threads, Admit(t) \/ Advance(t) \/ CreateTemporary(t) \/ Fill(t)
      PROVE  TypeOK'
  BY <1>6 DEF Admit, Advance, CreateTemporary, Fill, Locked
<1>7. ASSUME NEW t \in Threads, Skip(t) \/ Rename(t) PROVE TypeOK'
  <2>1. PositionOf(call[t]) \in Position
    BY <1>7, CallArguments DEF Skip, Rename, CallInv, Admitted
  <2>2. QED BY <1>7, <2>1 DEF Skip, Rename, Acknowledge, Locked
<1>8. ASSUME NEW t \in Threads, WriteFails(t) PROVE TypeOK'
  BY <1>8 DEF WriteFails, Locked
<1>9. ASSUME NEW p \in Processes, Crash(p) PROVE TypeOK'
  BY <1>9 DEF Crash
<1>10. CASE UNCHANGED vars
  BY <1>10 DEF vars
<1>11. QED
  BY <1>1, <1>2, <1>3, <1>4, <1>5, <1>6, <1>7, <1>8, <1>9, <1>10 DEF Next, Step

--------------------------------------------------------------------------------
\* Each step keeps the lock exclusive.
LEMMA LockStep ==
    ASSUME IInv, [Next]_vars
    PROVE  LockInv'
<1> USE StoreAssumption DEF IInv, TypeOK, LockInv, Goto, Return, Locked
<1>1. ASSUME NEW t \in Threads, NEW c \in Calls, Begin(t, c) PROVE LockInv'
  BY <1>1 DEF Begin
<1>2. ASSUME NEW t \in Threads, Acquire(t) PROVE LockInv'
  BY <1>2 DEF Acquire
<1>3. ASSUME NEW t \in Threads, Truncate(t) PROVE LockInv'
  BY <1>3 DEF Truncate
<1>4. ASSUME NEW t \in Threads,
             Stamp(t) \/ StampFails(t) \/ Unlink(t) \/ CallFails(t) \/ Refuse(t)
      PROVE  LockInv'
  BY <1>4 DEF Stamp, StampFails, Unlink, CallFails, Refuse
<1>5. ASSUME NEW t \in Threads, Admit(t) \/ Advance(t) \/ CreateTemporary(t) \/ Fill(t)
      PROVE  LockInv'
  BY <1>5 DEF Admit, Advance, CreateTemporary, Fill
<1>6. ASSUME NEW t \in Threads, Skip(t) \/ Rename(t) \/ WriteFails(t) PROVE LockInv'
  BY <1>6 DEF Skip, Rename, WriteFails
<1>7. ASSUME NEW p \in Processes, Crash(p) PROVE LockInv'
  BY <1>7 DEF Crash
<1>8. CASE UNCHANGED vars
  BY <1>8 DEF vars
<1>9. QED
  BY <1>1, <1>2, <1>3, <1>4, <1>5, <1>6, <1>7, <1>8 DEF Next, Step

\* Each step leaves every thread at a control point of its own call.
LEMMA CallStep ==
    ASSUME IInv, [Next]_vars
    PROVE  CallInv'
<1> USE DEF IInv, TypeOK, CallInv, Goto, Return, Locked, Admitted
<1>1. ASSUME NEW t \in Threads, NEW c \in Calls, Begin(t, c) PROVE CallInv'
  BY <1>1 DEF Begin
<1>2. ASSUME NEW t \in Threads, Acquire(t) PROVE CallInv'
  BY <1>2 DEF Acquire
<1>3. ASSUME NEW t \in Threads, Truncate(t) PROVE CallInv'
  <2>1. call[t].kind \in {"claim", "remove"}
    BY <1>3, CallArguments DEF Truncate
  <2>2. QED BY <1>3, <2>1 DEF Truncate
<1>4. ASSUME NEW t \in Threads,
             Stamp(t) \/ StampFails(t) \/ Unlink(t) \/ CallFails(t) \/ Refuse(t)
      PROVE  CallInv'
  BY <1>4 DEF Stamp, StampFails, Unlink, CallFails, Refuse
<1>5. ASSUME NEW t \in Threads, Admit(t) \/ Advance(t) \/ CreateTemporary(t) \/ Fill(t)
      PROVE  CallInv'
  BY <1>5 DEF Admit, Advance, CreateTemporary, Fill
<1>6. ASSUME NEW t \in Threads, Skip(t) \/ Rename(t) \/ WriteFails(t) PROVE CallInv'
  BY <1>6 DEF Skip, Rename, WriteFails
<1>7. ASSUME NEW p \in Processes, Crash(p) PROVE CallInv'
  BY <1>7 DEF Crash
<1>8. CASE UNCHANGED vars
  BY <1>8 DEF vars
<1>9. QED
  BY <1>1, <1>2, <1>3, <1>4, <1>5, <1>6, <1>7, <1>8 DEF Next, Step

--------------------------------------------------------------------------------
\* Each step that changes a file is the lock holder's, so no other thread is at a
\* control point that relies on the file.
LEMMA ReadStep ==
    ASSUME IInv, [Next]_vars
    PROVE  ReadInv'
<1> USE StoreAssumption DEF IInv, TypeOK, LockInv, ReadInv, Goto, Return, Locked, Admitted
<1>1. ASSUME NEW t \in Threads, NEW c \in Calls, Begin(t, c) PROVE ReadInv'
  BY <1>1 DEF Begin
<1>2. ASSUME NEW t \in Threads, Acquire(t) PROVE ReadInv'
  BY <1>2 DEF Acquire
<1>3. ASSUME NEW t \in Threads, Truncate(t) PROVE ReadInv'
  BY <1>3 DEF Truncate
<1>4. ASSUME NEW t \in Threads, Stamp(t) \/ StampFails(t) \/ Unlink(t) PROVE ReadInv'
  BY <1>4 DEF Stamp, StampFails, Unlink
<1>5. ASSUME NEW t \in Threads, CallFails(t) \/ Refuse(t) \/ Skip(t) PROVE ReadInv'
  BY <1>5 DEF CallFails, Refuse, Skip
<1>6. ASSUME NEW t \in Threads, Admit(t) PROVE ReadInv'
  BY <1>6 DEF Admit
<1>7. ASSUME NEW t \in Threads, Advance(t) PROVE ReadInv'
  <2>1. committed_position = archive
    BY DEF committed_position, HistoryInv
  <2>2. QED BY <1>7, <2>1 DEF Advance
<1>8. ASSUME NEW t \in Threads, CreateTemporary(t) \/ Fill(t) PROVE ReadInv'
  BY <1>8 DEF CreateTemporary, Fill
<1>9. ASSUME NEW t \in Threads, Rename(t) \/ WriteFails(t) PROVE ReadInv'
  BY <1>9 DEF Rename, WriteFails
<1>10. ASSUME NEW p \in Processes, Crash(p) PROVE ReadInv'
  BY <1>10 DEF Crash
<1>11. CASE UNCHANGED vars
  BY <1>11 DEF vars
<1>12. QED
  BY <1>1, <1>2, <1>3, <1>4, <1>5, <1>6, <1>7, <1>8, <1>9, <1>10, <1>11 DEF Next, Step

\* Each step keeps the granted claim in force and the acknowledged write readable.
LEMMA HistoryStep ==
    ASSUME IInv, [Next]_vars
    PROVE  HistoryInv'
<1> USE StoreAssumption, PositionAssumption DEF IInv, TypeOK, HistoryInv, Goto, Return
<1>1. ASSUME NEW t \in Threads, NEW c \in Calls, Begin(t, c) PROVE HistoryInv'
  BY <1>1 DEF Begin
<1>2. ASSUME NEW t \in Threads,
             Acquire(t) \/ Refuse(t) \/ CallFails(t) \/ Admit(t) \/ Advance(t)
      PROVE  HistoryInv'
  BY <1>2 DEF Acquire, Refuse, CallFails, Admit, Advance
<1>3. ASSUME NEW t \in Threads, Truncate(t) \/ Stamp(t) PROVE HistoryInv'
  BY <1>3 DEF Truncate, Stamp
<1>4. ASSUME NEW t \in Threads, StampFails(t) PROVE HistoryInv'
  BY <1>4 DEF StampFails, ReadInv
<1>5. ASSUME NEW t \in Threads, Unlink(t) PROVE HistoryInv'
  BY <1>5 DEF Unlink
<1>6. ASSUME NEW t \in Threads, Skip(t) PROVE HistoryInv'
  <2>1. committed_position = archive
    BY DEF committed_position
  <2>2. Holds(archive, PositionOf(call[t]))
    BY <1>6, <2>1 DEF Skip
  <2>3. QED BY <1>6, <2>2 DEF Skip, Acknowledge
<1>7. ASSUME NEW t \in Threads, Rename(t) PROVE HistoryInv'
  <2> DEFINE position == PositionOf(call[t])
  <2>1. position \in Position
    BY <1>7, CallArguments DEF Rename, CallInv, Admitted
  <2>2. archive' = position
    BY <1>7 DEF Rename, ReadInv
  <2>3. ~Holds(archive, position)
    BY <1>7 DEF Rename, ReadInv, Admitted
  <2>4. ~Holds(promised, position)
    <3>1. CASE promised = Absent
      BY <3>1 DEF Holds
    <3>2. CASE promised # Absent
      <4>1. archive \in Position /\ promised \in Position /\ Holds(archive, promised)
        BY <3>2 DEF Holds
      <4>2. QED BY <4>1, <2>1, <2>3, HoldsIsOrder
    <3>3. QED BY <3>1, <3>2
  <2>5. promised' = position
    BY <1>7, <2>4 DEF Rename, Acknowledge
  <2>6. Holds(archive', promised')
    BY <2>1, <2>2, <2>5, HoldsIsOrder
  <2>7. QED BY <1>7, <2>1, <2>2, <2>6 DEF Rename
<1>8. ASSUME NEW t \in Threads, CreateTemporary(t) \/ Fill(t) \/ WriteFails(t)
      PROVE  HistoryInv'
  BY <1>8 DEF CreateTemporary, Fill, WriteFails
<1>9. ASSUME NEW p \in Processes, Crash(p) PROVE HistoryInv'
  BY <1>9 DEF Crash
<1>10. CASE UNCHANGED vars
  BY <1>10 DEF vars
<1>11. QED
  BY <1>1, <1>2, <1>3, <1>4, <1>5, <1>6, <1>7, <1>8, <1>9, <1>10 DEF Next, Step

\* The inductive invariant: what each holder of the lock has read is still so.
THEOREM Invariance == Spec => []IInv
<1>1. IInv /\ [Next]_vars => IInv'
  BY TypeStep, LockStep, CallStep, ReadStep, HistoryStep DEF IInv
<1>2. QED BY InitIInv, <1>1, PTL DEF Spec

\* Type correctness of the store.
THEOREM TypeCorrect == Spec => []TypeOK
<1>1. IInv => TypeOK
  BY DEF IInv
<1>2. QED BY Invariance, <1>1, PTL

\* An acknowledged write stays readable: no failed or skipped write, crash or claim
\* of any thread takes it away, only another generation's commit or a removal.
THEOREM AcknowledgedStaysReadable == Spec => []AcknowledgedIsReadable
<1>1. IInv => AcknowledgedIsReadable
  <2> SUFFICES ASSUME IInv, promised # Absent
               PROVE  read \in Position /\ Holds(read, promised)
    BY DEF AcknowledgedIsReadable
  <2>1. Holds(archive, promised) /\ archive # TornFile
    BY DEF IInv, HistoryInv
  <2>2. archive # Absent
    BY <2>1 DEF Holds
  <2>3. read = archive
    BY <2>1, <2>2 DEF read
  <2>4. QED BY <2>1, <2>2, <2>3 DEF IInv, TypeOK
<1>2. QED BY Invariance, <1>1, PTL

\* The archive is replaced only by a rename, by the owner, and forward.
LEMMA ReplacedByOwner ==
    ASSUME IInv, [Next]_vars, archive' \notin {archive, Absent}
    PROVE  \E t \in Threads : /\ Rename(t)
                              /\ archive' = PositionOf(call[t])
                              /\ archive' \in Position
                              /\ owner = archive'.generation
                              /\ ~Holds(archive, archive')
<1>1. PICK t \in Threads : Rename(t)
  BY DEF Next, Step, vars, Begin, Acquire, Truncate, Stamp, StampFails, Unlink, CallFails,
         Refuse, Admit, Skip, Advance, CreateTemporary, Fill, WriteFails, Crash
<1>2. call[t] \in Calls /\ call[t].kind = "write"
  BY <1>1 DEF Rename, IInv, CallInv, Admitted
<1>3. archive' = PositionOf(call[t]) /\ owner = call[t].generation
  BY <1>1 DEF Rename, IInv, ReadInv, Admitted
<1>4. ~Holds(archive, PositionOf(call[t]))
  BY <1>1 DEF Rename, IInv, ReadInv, Admitted
<1>5. QED BY <1>1, <1>2, <1>3, <1>4, CallArguments DEF PositionOf

\* While a returned claim stands, only the claimant's writes land.
THEOREM GrantExcludes == Spec => GrantExcludesOthers
<1>1. IInv /\ [Next]_vars
        => [archive' \notin {archive, Absent}
              => granted \in {NoOwner, archive'.generation}]_vars
  <2> SUFFICES ASSUME IInv, [Next]_vars, archive' \notin {archive, Absent}
               PROVE  granted \in {NoOwner, archive'.generation}
    OBVIOUS
  <2>1. owner = archive'.generation
    BY ReplacedByOwner
  <2>2. QED BY <2>1 DEF IInv, HistoryInv
<1>2. QED BY Invariance, <1>1, PTL DEF Spec, GrantExcludesOthers

--------------------------------------------------------------------------------
\* The store implements the archive it promises.
LEMMA InitImplements == Init => Archive!ArchiveInit
  BY StoreAssumption DEF Init, Archive!ArchiveInit, holder

\* A step that leaves the owner file and the stamping thread alone is invisible in
\* the owner.
LEMMA HolderKept ==
    ASSUME IInv, IInv', UNCHANGED owner,
           \A t \in Threads : \/ pc[t] # "stamp" /\ pc'[t] # "stamp"
                              \/ /\ pc[t] = "stamp" /\ pc'[t] = "stamp"
                                 /\ call'[t] = call[t]
    PROVE  holder' = holder
  BY StoreAssumption DEF holder, IInv, TypeOK, LockInv, Locked

\* Outside a claim the owner is what the file says.
LEMMA HolderIsOwner ==
    ASSUME IInv, NEW t \in Threads, lock = t, pc[t] # "stamp"
    PROVE  holder = IF owner = TornOwner THEN NoOwner ELSE owner
  BY StoreAssumption DEF holder, IInv, TypeOK

\* Inside one, it is the claimant.
LEMMA HolderIsClaimant ==
    ASSUME IInv, NEW t \in Threads, pc[t] = "stamp"
    PROVE  holder = call[t].generation /\ holder \in Generations
<1>1. lock = t
  BY DEF IInv, LockInv, Locked
<1>2. call[t] \in Calls /\ call[t].kind = "claim"
  BY DEF IInv, CallInv
<1>3. QED BY <1>1, <1>2, CallArguments, StoreAssumption DEF holder

\* Every step is a step of the promised archive, or invisible.
LEMMA StepImplements ==
    ASSUME IInv, IInv', [Next]_vars
    PROVE  [Archive!ArchiveNext]_(Archive!archiveVars)
<1> USE StoreAssumption, PositionAssumption
<1>1. ASSUME NEW t \in Threads, NEW c \in Calls, Begin(t, c)
      PROVE  UNCHANGED <<holder, archive>>
  <2>1. pc[t] = "idle" /\ pc' = [pc EXCEPT ![t] = "lock"] /\ UNCHANGED <<owner, archive>>
    BY <1>1 DEF Begin, Goto
  <2>2. \A u \in Threads : u # t => pc'[u] = pc[u] /\ call'[u] = call[u]
    BY <1>1 DEF Begin, Goto, IInv, TypeOK
  <2>3. holder' = holder
    BY <2>1, <2>2, HolderKept DEF IInv, TypeOK
  <2>4. QED BY <2>1, <2>3
<1>2. ASSUME NEW t \in Threads, Acquire(t) PROVE UNCHANGED <<holder, archive>>
  <2>1. lock = NoThread /\ lock' = t /\ UNCHANGED <<owner, archive>>
    BY <1>2 DEF Acquire
  <2>2. pc'[t] # "stamp"
    BY <1>2 DEF Acquire, Goto, IInv, TypeOK
  <2>3. QED BY <2>1, <2>2 DEF holder
<1>3. ASSUME NEW t \in Threads, Truncate(t) PROVE Archive!ArchiveNext
  <2>1. lock = t /\ UNCHANGED <<lock, archive, call>> /\ owner' = NoOwner /\ pc[t] = "truncate"
    BY <1>3 DEF Truncate, Goto, IInv, LockInv, Locked
  <2>2. CASE call[t].kind = "claim"
    <3>1. pc'[t] = "stamp"
      BY <1>3, <2>2 DEF Truncate, Goto, IInv, TypeOK
    <3>2. holder' = call[t].generation /\ holder' \in Generations
      BY <2>1, <2>2, <3>1, CallArguments DEF holder, IInv, CallInv
    <3>3. QED BY <2>1, <3>2 DEF Archive!ArchiveNext, Archive!Claim
  <2>3. CASE call[t].kind # "claim"
    <3>1. pc'[t] = "unlink"
      BY <1>3, <2>3 DEF Truncate, Goto, IInv, TypeOK
    <3>2. holder' = NoOwner
      BY <2>1, <3>1 DEF holder
    <3>3. QED BY <2>1, <3>2 DEF Archive!ArchiveNext, Archive!Disown
  <2>4. QED BY <2>2, <2>3
<1>4. ASSUME NEW t \in Threads, Stamp(t) PROVE UNCHANGED <<holder, archive>>
  <2>1. lock' = NoThread /\ owner' = call[t].generation /\ UNCHANGED archive /\ pc[t] = "stamp"
    BY <1>4 DEF Stamp, Return
  <2>2. holder = call[t].generation /\ holder \in Generations
    BY <2>1, HolderIsClaimant
  <2>3. holder' = call[t].generation
    BY <2>1, <2>2 DEF holder
  <2>4. QED BY <2>1, <2>2, <2>3
<1>5. ASSUME NEW t \in Threads, StampFails(t)
      PROVE  Archive!ArchiveNext \/ UNCHANGED <<holder, archive>>
  <2>1. /\ lock' = NoThread /\ UNCHANGED archive /\ pc[t] = "stamp"
        /\ owner' \in {NoOwner, TornOwner, call[t].generation}
    BY <1>5 DEF StampFails, Return
  <2>2. holder = call[t].generation /\ holder \in Generations
    BY <2>1, HolderIsClaimant
  <2>3. holder' = NoOwner \/ holder' = call[t].generation
    BY <2>1, <2>2 DEF holder
  <2>4. QED BY <2>1, <2>2, <2>3 DEF Archive!ArchiveNext, Archive!Disown
<1>6. ASSUME NEW t \in Threads, Unlink(t) PROVE Archive!ArchiveNext
  <2>1. /\ lock = t /\ pc[t] = "unlink" /\ owner = NoOwner
        /\ lock' = NoThread /\ UNCHANGED owner /\ archive' = Absent
    BY <1>6 DEF Unlink, Return, IInv, LockInv, ReadInv, Locked
  <2>2. holder = NoOwner /\ holder' = NoOwner
    BY <2>1, HolderIsOwner DEF holder
  <2>3. QED BY <2>1, <2>2 DEF Archive!ArchiveNext, Archive!Erase
<1>7. ASSUME NEW t \in Threads,
             CallFails(t) \/ Refuse(t) \/ Skip(t) \/ WriteFails(t)
      PROVE  UNCHANGED <<holder, archive>>
  <2>1. /\ lock = t /\ pc[t] # "stamp"
        /\ lock' = NoThread /\ UNCHANGED <<owner, archive>>
    BY <1>7 DEF CallFails, Refuse, Skip, WriteFails, Return, IInv, LockInv, Locked
  <2>2. holder' = IF owner = TornOwner THEN NoOwner ELSE owner
    BY <2>1 DEF holder
  <2>3. QED BY <2>1, <2>2, HolderIsOwner
<1>8. ASSUME NEW t \in Threads,
             Admit(t) \/ Advance(t) \/ CreateTemporary(t) \/ Fill(t)
      PROVE  UNCHANGED <<holder, archive>>
  <2>1. /\ lock = t /\ pc[t] # "stamp" /\ pc'[t] # "stamp"
        /\ UNCHANGED <<lock, owner, archive>>
    BY <1>8 DEF Admit, Advance, CreateTemporary, Fill, Goto, IInv, TypeOK, LockInv, Locked
  <2>2. holder' = IF owner = TornOwner THEN NoOwner ELSE owner
    BY <2>1 DEF holder
  <2>3. QED BY <2>1, <2>2, HolderIsOwner
<1>9. ASSUME NEW t \in Threads, Rename(t) PROVE Archive!ArchiveNext
  <2> DEFINE position == PositionOf(call[t])
  <2>1. /\ lock = t /\ pc[t] = "rename" /\ lock' = NoThread /\ UNCHANGED owner
        /\ archive' = position /\ owner = call[t].generation /\ ~Holds(archive, position)
    BY <1>9 DEF Rename, Return, IInv, LockInv, ReadInv, Locked, Admitted
  <2>2. call[t].generation \in Generations /\ position \in Position
    BY <2>1, CallArguments DEF IInv, CallInv, Admitted
  <2>3. owner # TornOwner /\ position.generation = call[t].generation
    BY <2>1, <2>2 DEF PositionOf
  <2>4. holder = position.generation /\ holder' = holder
    BY <2>1, <2>3, HolderIsOwner DEF holder
  <2>5. Archive!Commit(position)
    BY <2>1, <2>4 DEF Archive!Commit, Archive!Holds, Holds
  <2>6. QED BY <2>2, <2>5 DEF Archive!ArchiveNext, Archive!Position, Position
<1>10. ASSUME NEW p \in Processes, Crash(p)
       PROVE  Archive!ArchiveNext \/ UNCHANGED <<holder, archive>>
  <2>1. UNCHANGED <<owner, archive>>
    BY <1>10 DEF Crash
  <2>2. \A u \in Threads : \/ pc'[u] = "idle"
                           \/ pc'[u] = pc[u] /\ call'[u] = call[u]
    BY <1>10 DEF Crash
  <2>3. CASE \E t \in Threads : pc[t] = "stamp" /\ pc'[t] # "stamp"
    <3>1. PICK t \in Threads : pc[t] = "stamp" /\ pc'[t] # "stamp"
      BY <2>3
    <3>2. lock = t /\ owner = NoOwner
      BY <3>1 DEF IInv, LockInv, ReadInv, Locked
    <3>3. lock' = NoThread
      BY <1>10, <2>2, <3>1, <3>2 DEF Crash, IInv, TypeOK
    <3>4. holder' = NoOwner
      BY <2>1, <3>2, <3>3 DEF holder
    <3>5. QED BY <2>1, <3>4 DEF Archive!ArchiveNext, Archive!Disown
  <2>4. CASE \A t \in Threads : pc[t] = "stamp" => pc'[t] = "stamp"
    <3>1. holder' = holder
      BY <2>1, <2>2, <2>4, HolderKept
    <3>2. QED BY <2>1, <3>1
  <2>5. QED BY <2>3, <2>4
<1>11. CASE UNCHANGED vars
  BY <1>11 DEF vars, holder, Archive!archiveVars
<1>12. QED
  BY <1>1, <1>2, <1>3, <1>4, <1>5, <1>6, <1>7, <1>8, <1>9, <1>10, <1>11
     DEF Next, Step, Archive!archiveVars

\* The threads of every process, their failures and crashes included, together do
\* no more than the promised archive does.
THEOREM Implementation == Spec => ImplementsArchive
<1>1. IInv /\ IInv' /\ [Next]_vars => [Archive!ArchiveNext]_(Archive!archiveVars)
  BY StepImplements
<1>2. QED
  BY InitImplements, Invariance, <1>1, PTL DEF Spec, ImplementsArchive, Archive!ArchiveSpec
================================================================================
