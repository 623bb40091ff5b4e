-------------------------- MODULE PaneObserversProofs --------------------------
(***************************************************************************)
(* That the variables of PaneObservers keep their types, that an           *)
(* observation stream is in one place from its making until it is closed,  *)
(* that a mode worker that rests has left the latest report of its         *)
(* consumer on record, that a fresh mirror is put into the modes it should *)
(* be in, and that the owner keeps no observer for nobody that was not paid*)
(* for, for any number of commands, mode changes, refusals and ended       *)
(* connections, and whenever timers expire and waits time out.             *)
(***************************************************************************)
EXTENDS PaneObservers, FiniteSetTheorems, TLAPS

--------------------------------------------------------------------------------
\* What the argument needs of the types: the fields that are written one by one.
Shape ==
    /\ DOMAIN call = Calls
    /\ \A c \in Calls :
        DOMAIN call[c] = {"op", "at", "token", "stream"} /\ call[c].stream \in Calls
    /\ DOMAIN stream = Calls
    /\ \A s \in Calls : DOMAIN stream[s] = {"at", "next"}
    /\ DOMAIN helper = Calls
    /\ DOMAIN consumer = Calls
    /\ \A s \in Calls : DOMAIN consumer[s] = DOMAIN Idle
    /\ prepared \subseteq Calls

Live(s) == stream[s].at \in {"attached", "opened", "ended"}

Consumed(s) == consumer[s].on

\* A call has a stream: its helper thread, the message to it, or the call's own thread.
Helps(c, s) == call[c].stream = s /\ helper[c] \in {"waiting", "sent"}

Has(c, s) == Helps(c, s) \/ Uses(c, s)

\* A stream that is not closed is somewhere, and in one place.
Placed(s) ==
    /\ Live(s) <=> At(s, "keep") \/ s \in prepared \/ (\E c \in Calls : Has(c, s)) \/ Consumed(s)
    /\ At(s, "keep") => s \notin prepared /\ ~Consumed(s)
    /\ s \in prepared => ~Consumed(s)
    /\ \A c \in Calls : Has(c, s) =>
        /\ ~At(s, "keep") /\ s \notin prepared /\ ~Consumed(s)
        /\ \A d \in Calls : Has(d, s) => d = c

OnePlace == \A s \in Calls : Placed(s)

\* A helper thread is for a call that waits, or gave up waiting before anything was sent; and
\* what a call is about to open has not been opened.
Phases ==
    \A c \in Calls :
        /\ helper[c] \in {"waiting", "sent", "failed"} => call[c].at \in {"wait", "failed"}
        /\ helper[c] = "sent" => At(c, "wait")
        /\ call[c].at \in {"new", "asking", "connect", "observe"} =>
            call[c].stream = c /\ stream[c].at = "none"

HolderInv == Shape /\ OnePlace /\ Phases

\* No stream has been opened.
LEMMA InitHolder == Init => HolderInv
  <1> SUFFICES ASSUME Init PROVE HolderInv
    OBVIOUS
  <1>1. Shape
    BY DEF Init, Shape, Idle
  <1>2. OnePlace
    BY DEF Init, OnePlace, Placed, Live, Consumed, Has, Helps, Uses, At, Idle
  <1>3. Phases
    BY DEF Init, Phases, At
  <1> QED
    BY <1>1, <1>2, <1>3 DEF HolderInv

\* Who holds what is a matter of six views of the state.
LEMMA Undisturbed ==
    ASSUME HolderInv, Shape',
           prepared' = prepared,
           \A c \in Calls :
              /\ call'[c].at = call[c].at
              /\ call'[c].stream = call[c].stream
              /\ helper'[c] = helper[c]
              /\ stream[c].at = "none" <=> stream'[c].at = "none"
              /\ Live(c) <=> Live(c)'
              /\ Consumed(c) <=> Consumed(c)'
    PROVE  HolderInv'
  <1>1. OnePlace'
    BY DEF HolderInv, OnePlace, Placed, Has, Helps, Uses, At
  <1>2. Phases'
    BY DEF HolderInv, Phases, At
  <1> QED
    BY <1>1, <1>2 DEF HolderInv

\* A call that starts without a token has opened nothing.
LEMMA PrepareHolder ==
    ASSUME HolderInv, NEW c \in Calls, Prepare(c) \/ EnsureListed(c) PROVE HolderInv'
  <1>1. Shape'
    BY DEF HolderInv, Shape, Prepare, EnsureListed, Starts
  <1>2. OnePlace'
    BY DEF HolderInv, Shape, OnePlace, Placed, Phases, Live, Consumed, Has, Helps, Uses, At,
           Prepare, EnsureListed, Starts
  <1>3. Phases'
    BY DEF HolderInv, Shape, OnePlace, Placed, Phases, Live, At,
           Prepare, EnsureListed, Starts
  <1> QED
    BY <1>1, <1>2, <1>3 DEF HolderInv

\* The token is not a stream yet.
LEMMA PrepareAnsweredHolder ==
    ASSUME HolderInv, NEW c \in Calls, PrepareAnswered(c) PROVE HolderInv'
  <1>1. Shape'
    BY DEF HolderInv, Shape, PrepareAnswered
  <1>2. OnePlace'
    BY DEF HolderInv, Shape, OnePlace, Placed, Phases, Live, Consumed, Has, Helps, Uses, At,
           PrepareAnswered
  <1>3. Phases'
    BY DEF HolderInv, Shape, OnePlace, Placed, Phases, Live, At,
           PrepareAnswered
  <1> QED
    BY <1>1, <1>2, <1>3 DEF HolderInv

\* The stream of the call is made, in its maker's hands.
LEMMA ConnectHolder ==
    ASSUME HolderInv, NEW c \in Calls, Connect(c) PROVE HolderInv'
  <1>1. Shape'
    BY DEF HolderInv, Shape, Connect, Goto
  <1>2. call[c].stream = c /\ stream[c].at = "none" /\ helper[c] \notin {"waiting", "sent"}
    BY DEF HolderInv, Phases, At, Connect
  <1>3. ~At(c, "keep") /\ c \notin prepared /\ ~Consumed(c) /\ (\A d \in Calls : ~Has(d, c))
    BY <1>2 DEF HolderInv, OnePlace, Placed, Live
  <1>4. /\ \A d \in Calls : call'[d].stream = call[d].stream /\ helper'[d] = helper[d]
        /\ \A d \in Calls \ {c} : call'[d].at = call[d].at /\ stream'[d] = stream[d]
        /\ \A d \in Calls : Consumed(d)' <=> Consumed(d)
        /\ prepared' = prepared
    BY DEF HolderInv, Shape, Connect, Goto, Consumed
  <1>5. \/ call'[c].at = "keep" /\ Live(c)'
        \/ call'[c].at = "failed" /\ stream'[c].at = "none"
    BY <1>2 DEF HolderInv, Shape, Connect, Goto, Live
  <1>6. OnePlace'
    <2>1. ASSUME NEW s \in Calls, s # c PROVE Placed(s)'
      <3>1. Placed(s) /\ (Live(s)' <=> Live(s)) /\ (At(s, "keep")' <=> At(s, "keep"))
        BY <1>4, <2>1 DEF HolderInv, OnePlace, Live, At
      <3>2. ASSUME NEW d \in Calls PROVE Has(d, s)' <=> Has(d, s)
        BY <1>2, <1>4, <2>1 DEF Has, Helps, Uses
      <3> QED
        BY <1>4, <2>1, <3>1, <3>2 DEF Placed
    <2>2. Placed(c)'
      <3>1. ASSUME NEW d \in Calls PROVE Has(d, c)' => d = c /\ call'[c].at = "claim"
        BY <1>2, <1>3, <1>4, <1>5 DEF Has, Helps, Uses
      <3>2. call'[c].at = "claim" => Has(c, c)'
        BY <1>2, <1>4 DEF Has, Uses
      <3>3. CASE call'[c].at = "keep" /\ Live(c)'
        BY <1>3, <1>4, <3>1, <3>2, <3>3 DEF Placed, At
      <3>4. CASE call'[c].at = "failed" /\ stream'[c].at = "none"
        BY <1>3, <1>4, <3>1, <3>4 DEF Placed, At, Live
      <3> QED
        BY <1>5, <3>3, <3>4
    <2> QED
      BY <2>1, <2>2 DEF OnePlace
  <1>7. Phases'
    BY <1>2, <1>4, <1>5 DEF HolderInv, Phases, At, Connect
  <1> QED
    BY <1>1, <1>6, <1>7 DEF HolderInv

\* From the maker to the table.
LEMMA KeepHolder ==
    ASSUME HolderInv, NEW c \in Calls, Keep(c) PROVE HolderInv'
  <1>1. Shape'
    BY DEF HolderInv, Shape, Keep, Goto
  <1>2. OnePlace'
    BY DEF HolderInv, Shape, OnePlace, Placed, Phases, Live, Consumed, Has, Helps, Uses, At,
           Keep, Goto
  <1>3. Phases'
    BY DEF HolderInv, Shape, OnePlace, Placed, Phases, Live, At,
           Keep, Goto
  <1> QED
    BY <1>1, <1>2, <1>3 DEF HolderInv

\* A stream that expires was in the table and nowhere else.
LEMMA ExpireHolder ==
    ASSUME HolderInv, NEW c \in Calls, Expire(c) PROVE HolderInv'
  <1>1. Shape'
    BY DEF HolderInv, Shape, Expire, Drop
  <1>2. OnePlace'
    BY DEF HolderInv, Shape, OnePlace, Placed, Phases, Live, Consumed, Has, Helps, Uses, At,
           Expire, Drop
  <1>3. Phases'
    BY DEF HolderInv, Shape, OnePlace, Placed, Phases, Live, At,
           Expire, Drop
  <1> QED
    BY <1>1, <1>2, <1>3 DEF HolderInv

\* From the table to the helper thread of the call that took it.
LEMMA TakeHolder ==
    ASSUME HolderInv, NEW c \in Calls, NEW s \in Calls, Take(c, s) PROVE HolderInv'
  <1>1. call[c].stream = c /\ stream[c].at = "none" /\ helper[c] \notin {"waiting", "sent"}
    BY DEF HolderInv, Phases, At, Take
  <1>2. /\ stream' = stream /\ consumer' = consumer
        /\ \A d \in Calls \ {c} : call'[d] = call[d] /\ helper'[d] = helper[d]
    BY DEF HolderInv, Shape, Take
  <1>3. CASE s \in prepared
    <2> DEFINE taken == [call[c] EXCEPT !.op = "token", !.at = "wait", !.stream = s]
    <2>a. call' = [call EXCEPT ![c] = taken] /\ helper' = [helper EXCEPT ![c] = "waiting"]
          /\ prepared' = prepared \ {s}
      BY <1>3 DEF Take
    <2>b. taken.at = "wait" /\ taken.stream = s /\ DOMAIN taken = DOMAIN call[c]
      BY DEF HolderInv, Shape
    <2> HIDE DEF taken
    <2>1. /\ call'[c].at = "wait" /\ call'[c].stream = s /\ helper'[c] = "waiting"
          /\ prepared' = prepared \ {s}
      BY <2>a, <2>b DEF HolderInv, Shape
    <2>2. Shape'
      BY <1>2, <2>a, <2>b DEF HolderInv, Shape
    <2>3. Live(s) /\ ~At(s, "keep") /\ ~Consumed(s) /\ (\A d \in Calls : ~Has(d, s))
      BY <1>3 DEF HolderInv, OnePlace, Placed
    <2>4. OnePlace'
      BY <1>1, <1>2, <2>1, <2>3
      DEF HolderInv, OnePlace, Placed, Live, Consumed, Has, Helps, Uses, At, Take
    <2>5. Phases'
      BY <1>2, <2>1 DEF HolderInv, Phases, At, Take
    <2> QED
      BY <2>2, <2>4, <2>5 DEF HolderInv
  <1>4. CASE s \notin prepared
    <2> DEFINE refused == [call[c] EXCEPT !.op = "token", !.at = "failed"]
    <2>a. call' = [call EXCEPT ![c] = refused] /\ helper' = helper /\ prepared' = prepared
      BY <1>4 DEF Take
    <2>b. refused.at = "failed" /\ refused.stream = c /\ DOMAIN refused = DOMAIN call[c]
      BY <1>1 DEF HolderInv, Shape
    <2> HIDE DEF refused
    <2>1. /\ call'[c].at = "failed" /\ call'[c].stream = c /\ helper' = helper
          /\ prepared' = prepared
      BY <2>a, <2>b DEF HolderInv, Shape
    <2>2. Shape'
      BY <1>2, <2>a, <2>b DEF HolderInv, Shape
    <2>3. OnePlace'
      BY <1>1, <1>2, <2>1 DEF HolderInv, OnePlace, Placed, Live, Consumed, Has, Helps, Uses, At, Take
    <2>4. Phases'
      BY <1>1, <1>2, <2>1 DEF HolderInv, Phases, At, Take
    <2> QED
      BY <2>2, <2>3, <2>4 DEF HolderInv
  <1> QED
    BY <1>3, <1>4

\* From the helper into its message, or closed.
LEMMA HelperReturnsHolder ==
    ASSUME HolderInv, NEW c \in Calls, HelperReturns(c) PROVE HolderInv'
  <1>1. Shape'
    BY DEF HolderInv, Shape, HelperReturns, Drop
  <1>2. OnePlace'
    BY DEF HolderInv, Shape, OnePlace, Placed, Phases, Live, Consumed, Has, Helps, Uses, At,
           HelperReturns, Drop
  <1>3. Phases'
    BY DEF HolderInv, Shape, OnePlace, Placed, Phases, Live, At,
           HelperReturns, Drop
  <1> QED
    BY <1>1, <1>2, <1>3 DEF HolderInv

\* From the message to the caller.
LEMMA ReceiveHolder ==
    ASSUME HolderInv, NEW c \in Calls, Receive(c) PROVE HolderInv'
  <1>1. Shape'
    BY DEF HolderInv, Shape, Receive, Goto
  <1>2. OnePlace'
    BY DEF HolderInv, Shape, OnePlace, Placed, Phases, Live, Consumed, Has, Helps, Uses, At,
           Receive, Goto
  <1>3. Phases'
    BY DEF HolderInv, Shape, OnePlace, Placed, Phases, Live, At,
           Receive, Goto
  <1> QED
    BY <1>1, <1>2, <1>3 DEF HolderInv

\* The caller leaves, the helper keeps what it waits for.
LEMMA TimeOutHolder ==
    ASSUME HolderInv, NEW c \in Calls, TimeOut(c) PROVE HolderInv'
  <1>1. Shape'
    BY DEF HolderInv, Shape, TimeOut, Goto
  <1>2. OnePlace'
    BY DEF HolderInv, Shape, OnePlace, Placed, Phases, Live, Consumed, Has, Helps, Uses, At,
           TimeOut, Goto
  <1>3. Phases'
    BY DEF HolderInv, Shape, OnePlace, Placed, Phases, Live, At,
           TimeOut, Goto
  <1> QED
    BY <1>1, <1>2, <1>3 DEF HolderInv

\* A list opens nothing.
LEMMA ListedHolder ==
    ASSUME HolderInv, NEW c \in Calls, Listed(c) PROVE HolderInv'
  <1>1. Shape'
    BY DEF HolderInv, Shape, Listed, Goto
  <1>2. OnePlace'
    BY DEF HolderInv, Shape, OnePlace, Placed, Phases, Live, Consumed, Has, Helps, Uses, At,
           Listed, Goto
  <1>3. Phases'
    BY DEF HolderInv, Shape, OnePlace, Placed, Phases, Live, At,
           Listed, Goto
  <1> QED
    BY <1>1, <1>2, <1>3 DEF HolderInv

\* The stream of the call is made, and in use by it.
LEMMA ObserveHolder ==
    ASSUME HolderInv, NEW c \in Calls, Observe(c) PROVE HolderInv'
  <1>1. Shape'
    BY DEF HolderInv, Shape, Observe, Goto
  <1>2. call[c].stream = c /\ stream[c].at = "none" /\ helper[c] \notin {"waiting", "sent"}
    BY DEF HolderInv, Phases, At, Observe
  <1>3. ~At(c, "keep") /\ c \notin prepared /\ ~Consumed(c) /\ (\A d \in Calls : ~Has(d, c))
    BY <1>2 DEF HolderInv, OnePlace, Placed, Live
  <1>4. /\ \A d \in Calls : call'[d].stream = call[d].stream /\ helper'[d] = helper[d]
        /\ \A d \in Calls \ {c} : call'[d].at = call[d].at /\ stream'[d] = stream[d]
        /\ \A d \in Calls : Consumed(d)' <=> Consumed(d)
        /\ prepared' = prepared
    BY DEF HolderInv, Shape, Observe, Goto, Consumed
  <1>5. \/ call'[c].at = "claim" /\ Live(c)'
        \/ call'[c].at = "failed" /\ stream'[c].at = "none"
    BY <1>2 DEF HolderInv, Shape, Observe, Goto, Live
  <1>6. OnePlace'
    <2>1. ASSUME NEW s \in Calls, s # c PROVE Placed(s)'
      <3>1. Placed(s) /\ (Live(s)' <=> Live(s)) /\ (At(s, "keep")' <=> At(s, "keep"))
        BY <1>4, <2>1 DEF HolderInv, OnePlace, Live, At
      <3>2. ASSUME NEW d \in Calls PROVE Has(d, s)' <=> Has(d, s)
        BY <1>2, <1>4, <2>1 DEF Has, Helps, Uses
      <3> QED
        BY <1>4, <2>1, <3>1, <3>2 DEF Placed
    <2>2. Placed(c)'
      <3>1. ASSUME NEW d \in Calls PROVE Has(d, c)' => d = c /\ call'[c].at = "claim"
        BY <1>2, <1>3, <1>4, <1>5 DEF Has, Helps, Uses
      <3>2. call'[c].at = "claim" => Has(c, c)'
        BY <1>2, <1>4 DEF Has, Uses
      <3>3. CASE call'[c].at = "claim" /\ Live(c)'
        BY <1>3, <1>4, <3>1, <3>2, <3>3 DEF Placed, At
      <3>4. CASE call'[c].at = "failed" /\ stream'[c].at = "none"
        BY <1>3, <1>4, <3>1, <3>4 DEF Placed, At, Live
      <3> QED
        BY <1>5, <3>3, <3>4
    <2> QED
      BY <2>1, <2>2 DEF OnePlace
  <1>7. Phases'
    BY <1>2, <1>4, <1>5 DEF HolderInv, Phases, At, Observe
  <1> QED
    BY <1>1, <1>6, <1>7 DEF HolderInv

\* The caller goes on with the stream it has.
LEMMA AskModesHolder ==
    ASSUME HolderInv, NEW c \in Calls, AskModes(c) PROVE HolderInv'
  <1>1. Shape'
    BY DEF HolderInv, Shape, AskModes, Goto
  <1>2. OnePlace'
    BY DEF HolderInv, Shape, OnePlace, Placed, Phases, Live, Consumed, Has, Helps, Uses, At,
           AskModes, Goto
  <1>3. Phases'
    BY DEF HolderInv, Shape, OnePlace, Placed, Phases, Live, At,
           AskModes, Goto
  <1> QED
    BY <1>1, <1>2, <1>3 DEF HolderInv

\* The caller closes the stream it has.
LEMMA ClaimFailsHolder ==
    ASSUME HolderInv, NEW c \in Calls, ClaimFails(c) PROVE HolderInv'
  <1>1. Shape'
    BY DEF HolderInv, Shape, ClaimFails, Goto, Drop
  <1>2. OnePlace'
    BY DEF HolderInv, Shape, OnePlace, Placed, Phases, Live, Consumed, Has, Helps, Uses, At,
           ClaimFails, Goto, Drop
  <1>3. Live(call[c].stream)
    BY DEF HolderInv, Shape, OnePlace, Placed, Has, Uses, At, ClaimFails
  <1>4. Phases'
    BY <1>3 DEF HolderInv, Shape, Phases, Live, At, ClaimFails, Goto, Drop
  <1> QED
    BY <1>1, <1>2, <1>4 DEF HolderInv

\* From the caller to the consumer.
LEMMA SubscribedHolder ==
    ASSUME HolderInv, NEW c \in Calls, Subscribed(c) PROVE HolderInv'
  <1>1. Shape'
    BY DEF HolderInv, Shape, Subscribed, Goto, Started, Idle
  <1>2. OnePlace'
    BY DEF HolderInv, Shape, OnePlace, Placed, Phases, Live, Consumed, Has, Helps, Uses, At,
           Subscribed, Goto, Started, Idle
  <1>3. Phases'
    BY DEF HolderInv, Shape, OnePlace, Placed, Phases, Live, At,
           Subscribed, Goto, Started, Idle
  <1> QED
    BY <1>1, <1>2, <1>3 DEF HolderInv

\* The consumer closes the stream it has.
LEMMA ConsumerEndsHolder ==
    ASSUME HolderInv, NEW s \in Calls, ConsumerEnds(s) PROVE HolderInv'
  <1>1. Shape'
    BY DEF HolderInv, Shape, ConsumerEnds, Drop, Idle
  <1>2. OnePlace'
    BY DEF HolderInv, Shape, OnePlace, Placed, Phases, Live, Consumed, Has, Helps, Uses, At,
           ConsumerEnds, Drop, Idle
  <1>3. Phases'
    BY DEF HolderInv, Shape, OnePlace, Placed, Phases, Live, At,
           ConsumerEnds, Drop, Idle
  <1> QED
    BY <1>1, <1>2, <1>3 DEF HolderInv

\* Frames, mode workers and the owner leave every stream where it is.
LEMMA ElsewhereHolder ==
    ASSUME HolderInv, NEW s \in Calls,
           Consume(s) \/ Worker(s) \/ Open(s) \/ EndStream(s)
    PROVE  HolderInv'
  <1>1. Shape'
    BY DEF HolderInv, Shape, Idle, Consume, Reported, Worker, WorkerTakes, WorkerRequests,
           WorkerReturns, Open, EndStream
  <1>2. call' = call /\ helper' = helper /\ prepared' = prepared
    BY DEF Consume, Worker, WorkerTakes, WorkerRequests, WorkerReturns, Open, EndStream
  <1>3. ASSUME NEW c \in Calls
        PROVE  /\ stream[c].at = "none" <=> stream'[c].at = "none"
               /\ Live(c) <=> Live(c)'
    BY DEF HolderInv, Shape, Live, Consume, Worker, WorkerTakes, WorkerRequests,
           WorkerReturns, Open, EndStream
  <1>4. ASSUME NEW c \in Calls PROVE Consumed(c) <=> Consumed(c)'
    BY DEF HolderInv, Shape, Idle, Consumed, Consume, Reported, Worker, WorkerTakes,
           WorkerRequests, WorkerReturns, Open, EndStream
  <1> QED
    BY <1>1, <1>2, <1>3, <1>4, Undisturbed

\* A step that changes none of the five variables.
LEMMA UntouchedHolder ==
    ASSUME HolderInv, UNCHANGED <<call, stream, prepared, helper, consumer>> PROVE HolderInv'
  <1>1. Shape'
    BY DEF HolderInv, Shape, Idle
  <1> QED
    BY <1>1, Undisturbed DEF Live, Consumed

\* Every step keeps every stream in one place.
LEMMA NextHolder == HolderInv /\ [Next]_vars => HolderInv'
  <1> SUFFICES ASSUME HolderInv, [Next]_vars PROVE HolderInv'
    OBVIOUS
  <1>1. CASE Exchange \/ Emit \/ UNCHANGED vars
    BY <1>1, UntouchedHolder DEF Exchange, Serve, Emit, vars, observers
  <1>2. ASSUME NEW c \in Calls, Start(c) \/ Step(c) \/ Expire(c) \/ HelperReturns(c)
        PROVE  HolderInv'
    <2>1. CASE Start(c)
      BY <2>1, PrepareHolder, TakeHolder DEF Start
    <2>2. CASE Step(c)
      BY <2>2, PrepareAnsweredHolder, ConnectHolder, KeepHolder, ReceiveHolder, TimeOutHolder,
         ListedHolder, ObserveHolder, AskModesHolder, ClaimFailsHolder, SubscribedHolder
      DEF Step
    <2> QED
      BY <1>2, <2>1, <2>2, ExpireHolder, HelperReturnsHolder
  <1>3. ASSUME NEW s \in Calls,
               Consume(s) \/ ConsumerEnds(s) \/ Worker(s) \/ Open(s) \/ EndStream(s)
        PROVE  HolderInv'
    BY <1>3, ElsewhereHolder, ConsumerEndsHolder
  <1> QED
    BY <1>1, <1>2, <1>3 DEF Next

--------------------------------------------------------------------------------
\* What holds a stream, as the counted set: one element, or none.
LEMMA OneIsCounted ==
    ASSUME HolderInv PROVE StreamHasOneHolder
  <1> SUFFICES ASSUME NEW s \in Calls
               PROVE  Cardinality(Holders(s)) = IF Live(s) THEN 1 ELSE 0
    BY DEF StreamHasOneHolder, Live
  <1>1. Holders(s) = { h \in {<<"maker", s>>} : At(s, "keep") }
                     \cup { h \in {<<"table", s>>} : s \in prepared }
                     \cup { <<"helper", c>> : c \in {d \in Calls : Helps(d, s)} }
                     \cup { <<"caller", c>> : c \in {d \in Calls : Uses(d, s)} }
                     \cup { h \in {<<"consumer", s>>} : consumer[s].on }
    BY DEF Holders, Helps
  <1>2. CASE ~Live(s)
    <2>1. Holders(s) = {}
      BY <1>1, <1>2 DEF HolderInv, OnePlace, Placed, Has, Consumed
    <2> QED
      BY <1>2, <2>1, FS_EmptySet
  <1>3. CASE Live(s)
    <2>0. \A h : Holders(s) = {h} => Cardinality(Holders(s)) = 1
      BY FS_Singleton
    <2>1. CASE At(s, "keep")
      <3>1. s \notin prepared /\ ~consumer[s].on /\ (\A c \in Calls : ~Helps(c, s) /\ ~Uses(c, s))
        BY <2>1 DEF HolderInv, OnePlace, Placed, Has, Consumed
      <3>2. Holders(s) = {<<"maker", s>>}
        BY <1>1, <2>1, <3>1
      <3> QED
        BY <1>3, <2>0, <3>2
    <2>2. CASE s \in prepared
      <3>1. ~At(s, "keep") /\ ~consumer[s].on /\ (\A c \in Calls : ~Helps(c, s) /\ ~Uses(c, s))
        BY <2>2 DEF HolderInv, OnePlace, Placed, Has, Consumed
      <3>2. Holders(s) = {<<"table", s>>}
        BY <1>1, <2>2, <3>1
      <3> QED
        BY <1>3, <2>0, <3>2
    <2>3. CASE consumer[s].on
      <3>1. ~At(s, "keep") /\ s \notin prepared /\ (\A c \in Calls : ~Helps(c, s) /\ ~Uses(c, s))
        BY <2>3 DEF HolderInv, OnePlace, Placed, Has, Consumed
      <3>2. Holders(s) = {<<"consumer", s>>}
        BY <1>1, <2>3, <3>1
      <3> QED
        BY <1>3, <2>0, <3>2
    <2>4. ASSUME NEW c \in Calls, Has(c, s) PROVE Cardinality(Holders(s)) = 1
      <3>1. /\ ~At(s, "keep") /\ s \notin prepared /\ ~consumer[s].on
            /\ \A d \in Calls : Helps(d, s) \/ Uses(d, s) => d = c
        BY <2>4 DEF HolderInv, OnePlace, Placed, Has, Consumed
      <3>2. ~(Helps(c, s) /\ Uses(c, s))
        BY DEF HolderInv, Phases, Helps, Uses
      <3>3. CASE Helps(c, s)
        <4>1. Holders(s) = {<<"helper", c>>}
          BY <1>1, <3>1, <3>2, <3>3
        <4> QED
          BY <2>0, <4>1
      <3>4. CASE Uses(c, s)
        <4>1. Holders(s) = {<<"caller", c>>}
          BY <1>1, <3>1, <3>2, <3>4
        <4> QED
          BY <2>0, <4>1
      <3> QED
        BY <2>4, <3>3, <3>4 DEF Has
    <2> QED
      BY <1>3, <2>1, <2>2, <2>3, <2>4 DEF HolderInv, OnePlace, Placed, Consumed
  <1> QED
    BY <1>2, <1>3

\* An observation stream is in one place, from its making until it is closed, and a closed
\* one in none (PreparedObservationStream and ObservationStream, moved between the threads of
\* src/src/runtime.rs), whatever the number of commands and the timing of their waits.
THEOREM OneHolder == Spec => []StreamHasOneHolder
  <1>1. Spec => []HolderInv
    BY InitHolder, NextHolder, PTL DEF Spec
  <1> QED
    BY <1>1, OneIsCounted, PTL

--------------------------------------------------------------------------------
\* The mutex is held by a thread that waits for an answer, and by no other; what has been
\* served is counted, and what a reply says of the record is so.
Bound ==
    /\ control.at # "free" => \E c \in Calls :
        \/ /\ control.by = <<c, "call">>
           /\ \/ call[c].at = "asking" /\ control.command \in {"prepare", "sessions"}
              \/ call[c].at = "modes" /\ control.command = "modes"
        \/ /\ control.by = <<c, "worker">>
           /\ consumer[c].worker = "sending" /\ control.command = "record"
    /\ \A c \in Calls :
        /\ call[c].at \in {"asking", "modes"} =>
            control.at # "free" /\ control.by = <<c, "call">>
        /\ consumer[c].worker = "sending" =>
            control.at # "free" /\ control.by = <<c, "worker">>
    /\ control.at = "sent" => executed < control.attempt /\ control.reply = None
    /\ control.at = "ended" => executed <= control.attempt /\ control.reply = None
    /\ control.at = "done" /\ control.command = "modes" => control.reply \in Report
    /\ control.at = "done" /\ control.command = "record" /\ control.reply # None =>
        /\ owner.writer = control.by[1]
        /\ owner.record = consumer[control.by[1]].sending

\* A worker starts with its consumer and outlives it; a stream that was consumed is not
\* consumed again, and who never worked never wrote.
Worked ==
    \A s \in Calls :
        LET held == consumer[s] IN
        /\ held.worker = "off" => ~held.on /\ held.queue = <<>> /\ owner.writer # s
        /\ held.worker # "off" => held.on \/ stream[s].at = "dropped"
        /\ held.on => held.mirror \in Calls

\* The last report is at the end of the queue, in the worker's hands, or on record.
Pending ==
    \A s \in Calls :
        LET held == consumer[s] IN
        /\ held.queue # <<>> => held.queue[Len(held.queue)] = held.sent
        /\ held.queue = <<>> /\ held.worker \in {"locking", "sending"} => held.sending = held.sent
        /\ held.queue = <<>> /\ held.worker = "idle" /\ ~held.failed /\ owner.writer = s =>
            owner.record = held.sent

RecordInv == TypeOK /\ Bound /\ Worked /\ Pending

\* No request has been made.
LEMMA InitRecord == Init => RecordInv
  <1> SUFFICES ASSUME Init PROVE RecordInv
    OBVIOUS
  <1>1. ClientTypeOK /\ OwnerTypeOK /\ CallTypeOK
    BY ClientAssumption, ChangesAssumption
    DEF Init, ClientInit, Unlocked, ClientTypeOK, OwnerTypeOK, CallTypeOK, Report, Change
  <1>2. StreamTypeOK /\ TableTypeOK /\ ConsumerTypeOK /\ MirrorTypeOK
    BY ChangesAssumption
    DEF Init, Idle, StreamTypeOK, TableTypeOK, ConsumerTypeOK, MirrorTypeOK, Report, Change
  <1>3. Bound
    BY DEF Init, ClientInit, Unlocked, Idle, Bound
  <1>4. Worked
    BY ClientAssumption DEF Init, Idle, Worked
  <1>5. Pending
    BY DEF Init, Idle, Pending
  <1> QED
    BY <1>1, <1>2, <1>3, <1>4, <1>5 DEF RecordInv, TypeOK

--------------------------------------------------------------------------------
\* Steps of a thread that neither make a request nor end one leave the mutex, the consumers
\* and the record alone.
LEMMA AsideRecord ==
    ASSUME RecordInv, UNCHANGED <<control, ends, up, executed, consumer, mirror, registered>>,
           OwnerTypeOK', CallTypeOK', StreamTypeOK', TableTypeOK',
           owner'.writer = owner.writer, owner'.record = owner.record,
           \A c \in Calls :
              /\ call[c].at \in {"asking", "modes"} \/ call'[c].at \in {"asking", "modes"}
                    => call'[c].at = call[c].at
              /\ stream[c].at = "dropped" => stream'[c].at = "dropped"
    PROVE  RecordInv'
  <1>1. ClientTypeOK' /\ ConsumerTypeOK' /\ MirrorTypeOK'
    BY DEF RecordInv, TypeOK, ClientTypeOK, ConsumerTypeOK, MirrorTypeOK
  <1>2. Bound'
    BY DEF RecordInv, Bound
  <1>3. Worked'
    BY DEF RecordInv, Worked
  <1>4. Pending'
    BY DEF RecordInv, Pending
  <1> QED
    BY <1>1, <1>2, <1>3, <1>4 DEF RecordInv, TypeOK

\* A connection of the stream's own.
LEMMA ConnectRecord ==
    ASSUME HolderInv, RecordInv, NEW c \in Calls, Connect(c) PROVE RecordInv'
  <1>1. UNCHANGED <<control, ends, up, executed, consumer, mirror, registered>>
    BY DEF client, At, Connect, Goto
  <1>2. OwnerTypeOK' /\ owner'.writer = owner.writer /\ owner'.record = owner.record
    BY ChangesAssumption DEF RecordInv, TypeOK, OwnerTypeOK, Change, At, Connect, Goto
  <1>3. CallTypeOK'
    BY DEF RecordInv, TypeOK, CallTypeOK, At, Connect, Goto
  <1>4. StreamTypeOK'
    BY ChangesAssumption DEF RecordInv, TypeOK, OwnerTypeOK, StreamTypeOK, At, Connect, Goto
  <1>5. TableTypeOK'
    BY DEF RecordInv, TypeOK, TableTypeOK, At, Connect, Goto
  <1>6. ASSUME NEW d \in Calls
        PROVE  /\ call[d].at \in {"asking", "modes"} \/ call'[d].at \in {"asking", "modes"}
                    => call'[d].at = call[d].at
               /\ stream[d].at = "dropped" => stream'[d].at = "dropped"
    BY DEF HolderInv, Shape, Phases, At, Connect, Goto
  <1> QED
    BY <1>1, <1>2, <1>3, <1>4, <1>5, <1>6, AsideRecord

\* The table.
LEMMA KeepRecord ==
    ASSUME HolderInv, RecordInv, NEW c \in Calls, Keep(c) PROVE RecordInv'
  <1>1. UNCHANGED <<control, ends, up, executed, consumer, mirror, registered>>
    BY DEF client, At, Keep, Goto
  <1>2. OwnerTypeOK' /\ owner'.writer = owner.writer /\ owner'.record = owner.record
    BY ChangesAssumption DEF RecordInv, TypeOK, OwnerTypeOK, Change, At, Keep, Goto
  <1>3. CallTypeOK'
    BY DEF RecordInv, TypeOK, CallTypeOK, At, Keep, Goto
  <1>4. StreamTypeOK'
    BY ChangesAssumption DEF RecordInv, TypeOK, OwnerTypeOK, StreamTypeOK, At, Keep, Goto
  <1>5. TableTypeOK'
    BY DEF RecordInv, TypeOK, TableTypeOK, At, Keep, Goto
  <1>6. ASSUME NEW d \in Calls
        PROVE  /\ call[d].at \in {"asking", "modes"} \/ call'[d].at \in {"asking", "modes"}
                    => call'[d].at = call[d].at
               /\ stream[d].at = "dropped" => stream'[d].at = "dropped"
    BY DEF HolderInv, Shape, Phases, At, Keep, Goto
  <1> QED
    BY <1>1, <1>2, <1>3, <1>4, <1>5, <1>6, AsideRecord

\* The timers.
LEMMA ExpireRecord ==
    ASSUME HolderInv, RecordInv, NEW c \in Calls, Expire(c) PROVE RecordInv'
  <1>1. UNCHANGED <<control, ends, up, executed, consumer, mirror, registered>>
    BY DEF client, Expire, Drop
  <1>2. OwnerTypeOK' /\ owner'.writer = owner.writer /\ owner'.record = owner.record
    BY ChangesAssumption DEF RecordInv, TypeOK, OwnerTypeOK, Change, Expire, Drop
  <1>3. CallTypeOK'
    BY DEF RecordInv, TypeOK, CallTypeOK, Expire, Drop
  <1>4. StreamTypeOK'
    BY ChangesAssumption DEF RecordInv, TypeOK, OwnerTypeOK, StreamTypeOK, Expire, Drop
  <1>5. TableTypeOK'
    BY DEF RecordInv, TypeOK, TableTypeOK, Expire, Drop
  <1>6. ASSUME NEW d \in Calls
        PROVE  /\ call[d].at \in {"asking", "modes"} \/ call'[d].at \in {"asking", "modes"}
                    => call'[d].at = call[d].at
               /\ stream[d].at = "dropped" => stream'[d].at = "dropped"
    BY DEF HolderInv, Shape, Phases, Expire, Drop
  <1> QED
    BY <1>1, <1>2, <1>3, <1>4, <1>5, <1>6, AsideRecord

\* The table, the other way.
LEMMA TakeRecord ==
    ASSUME HolderInv, RecordInv, NEW c \in Calls, NEW s \in Calls, Take(c, s) PROVE RecordInv'
  <1>1. UNCHANGED <<control, ends, up, executed, consumer, mirror, registered>>
    BY DEF client, At, Take
  <1>2. OwnerTypeOK' /\ owner'.writer = owner.writer /\ owner'.record = owner.record
    BY ChangesAssumption DEF RecordInv, TypeOK, OwnerTypeOK, Change, At, Take
  <1> DEFINE taken == [call[c] EXCEPT !.op = "token", !.at = "wait", !.stream = s]
             refused == [call[c] EXCEPT !.op = "token", !.at = "failed"]
  <1>a. call' = [call EXCEPT ![c] = taken] \/ call' = [call EXCEPT ![c] = refused]
    BY DEF Take
  <1>b. /\ taken \in [op: {"token"}, at: {"wait"}, token: Nat \cup {None}, stream: Calls]
        /\ refused \in [op: {"token"}, at: {"failed"}, token: Nat \cup {None}, stream: Calls]
    <2>1. call[c] \in [op: {"prepare", "token", "listed", None},
                       at: {"new", "asking", "connect", "keep", "prepared", "wait", "claim",
                            "observe", "modes", "answered", "failed"},
                       token: Nat \cup {None}, stream: Calls]
      BY DEF RecordInv, TypeOK, CallTypeOK
    <2> QED
      BY <2>1
  <1> HIDE DEF taken, refused
  <1>3. CallTypeOK'
    BY <1>a, <1>b DEF RecordInv, TypeOK, CallTypeOK
  <1>4. StreamTypeOK'
    BY ChangesAssumption DEF RecordInv, TypeOK, OwnerTypeOK, StreamTypeOK, At, Take
  <1>5. TableTypeOK'
    BY DEF RecordInv, TypeOK, TableTypeOK, At, Take
  <1>6. ASSUME NEW d \in Calls
        PROVE  /\ call[d].at \in {"asking", "modes"} \/ call'[d].at \in {"asking", "modes"}
                    => call'[d].at = call[d].at
               /\ stream[d].at = "dropped" => stream'[d].at = "dropped"
    BY <1>a, <1>b DEF RecordInv, TypeOK, CallTypeOK, At, Take
  <1> QED
    BY <1>1, <1>2, <1>3, <1>4, <1>5, <1>6, AsideRecord

\* The helper thread.
LEMMA HelperReturnsRecord ==
    ASSUME HolderInv, RecordInv, NEW c \in Calls, HelperReturns(c) PROVE RecordInv'
  <1>1. UNCHANGED <<control, ends, up, executed, consumer, mirror, registered>>
    BY DEF client, At, HelperReturns, Drop
  <1>2. OwnerTypeOK' /\ owner'.writer = owner.writer /\ owner'.record = owner.record
    BY ChangesAssumption DEF RecordInv, TypeOK, OwnerTypeOK, Change, At, HelperReturns, Drop
  <1>3. CallTypeOK'
    BY DEF RecordInv, TypeOK, CallTypeOK, At, HelperReturns, Drop
  <1>4. StreamTypeOK'
    BY ChangesAssumption DEF RecordInv, TypeOK, OwnerTypeOK, StreamTypeOK, At, HelperReturns, Drop
  <1>5. TableTypeOK'
    BY DEF RecordInv, TypeOK, TableTypeOK, At, HelperReturns, Drop
  <1>6. ASSUME NEW d \in Calls
        PROVE  /\ call[d].at \in {"asking", "modes"} \/ call'[d].at \in {"asking", "modes"}
                    => call'[d].at = call[d].at
               /\ stream[d].at = "dropped" => stream'[d].at = "dropped"
    BY DEF HolderInv, Shape, Phases, At, HelperReturns, Drop
  <1> QED
    BY <1>1, <1>2, <1>3, <1>4, <1>5, <1>6, AsideRecord

\* The wait for it.
LEMMA ReceiveRecord ==
    ASSUME HolderInv, RecordInv, NEW c \in Calls, Receive(c) \/ TimeOut(c) PROVE RecordInv'
  <1>1. UNCHANGED <<control, ends, up, executed, consumer, mirror, registered>>
    BY DEF client, At, Receive, TimeOut, Goto
  <1>2. OwnerTypeOK' /\ owner'.writer = owner.writer /\ owner'.record = owner.record
    BY ChangesAssumption DEF RecordInv, TypeOK, OwnerTypeOK, Change, At, Receive, TimeOut, Goto
  <1>3. CallTypeOK'
    BY DEF RecordInv, TypeOK, CallTypeOK, At, Receive, TimeOut, Goto
  <1>4. StreamTypeOK'
    BY ChangesAssumption DEF RecordInv, TypeOK, OwnerTypeOK, StreamTypeOK, At, Receive, TimeOut, Goto
  <1>5. TableTypeOK'
    BY DEF RecordInv, TypeOK, TableTypeOK, At, Receive, TimeOut, Goto
  <1>6. ASSUME NEW d \in Calls
        PROVE  /\ call[d].at \in {"asking", "modes"} \/ call'[d].at \in {"asking", "modes"}
                    => call'[d].at = call[d].at
               /\ stream[d].at = "dropped" => stream'[d].at = "dropped"
    BY DEF HolderInv, Shape, Phases, At, Receive, TimeOut, Goto
  <1> QED
    BY <1>1, <1>2, <1>3, <1>4, <1>5, <1>6, AsideRecord

\* The other way to a stream.
LEMMA ObserveRecord ==
    ASSUME HolderInv, RecordInv, NEW c \in Calls, Observe(c) PROVE RecordInv'
  <1>1. UNCHANGED <<control, ends, up, executed, consumer, mirror, registered>>
    BY DEF client, At, Observe, Goto
  <1>2. OwnerTypeOK' /\ owner'.writer = owner.writer /\ owner'.record = owner.record
    BY ChangesAssumption DEF RecordInv, TypeOK, OwnerTypeOK, Change, At, Observe, Goto
  <1>3. CallTypeOK'
    BY DEF RecordInv, TypeOK, CallTypeOK, At, Observe, Goto
  <1>4. StreamTypeOK'
    BY ChangesAssumption DEF RecordInv, TypeOK, OwnerTypeOK, StreamTypeOK, At, Observe, Goto
  <1>5. TableTypeOK'
    BY DEF RecordInv, TypeOK, TableTypeOK, At, Observe, Goto
  <1>6. ASSUME NEW d \in Calls
        PROVE  /\ call[d].at \in {"asking", "modes"} \/ call'[d].at \in {"asking", "modes"}
                    => call'[d].at = call[d].at
               /\ stream[d].at = "dropped" => stream'[d].at = "dropped"
    BY DEF HolderInv, Shape, Phases, At, Observe, Goto
  <1> QED
    BY <1>1, <1>2, <1>3, <1>4, <1>5, <1>6, AsideRecord

\* A claim that fails.
LEMMA ClaimFailsRecord ==
    ASSUME HolderInv, RecordInv, NEW c \in Calls, ClaimFails(c) PROVE RecordInv'
  <1>1. UNCHANGED <<control, ends, up, executed, consumer, mirror, registered>>
    BY DEF client, At, ClaimFails, Goto, Drop
  <1>2. OwnerTypeOK' /\ owner'.writer = owner.writer /\ owner'.record = owner.record
    BY ChangesAssumption DEF RecordInv, TypeOK, OwnerTypeOK, Change, At, ClaimFails, Goto, Drop
  <1>3. CallTypeOK'
    BY DEF RecordInv, TypeOK, CallTypeOK, At, ClaimFails, Goto, Drop
  <1>4. StreamTypeOK'
    BY ChangesAssumption DEF RecordInv, TypeOK, OwnerTypeOK, StreamTypeOK, At, ClaimFails, Goto, Drop
  <1>5. TableTypeOK'
    BY DEF RecordInv, TypeOK, TableTypeOK, At, ClaimFails, Goto, Drop
  <1>6. ASSUME NEW d \in Calls
        PROVE  /\ call[d].at \in {"asking", "modes"} \/ call'[d].at \in {"asking", "modes"}
                    => call'[d].at = call[d].at
               /\ stream[d].at = "dropped" => stream'[d].at = "dropped"
    BY DEF HolderInv, Shape, Phases, At, ClaimFails, Goto, Drop
  <1> QED
    BY <1>1, <1>2, <1>3, <1>4, <1>5, <1>6, AsideRecord

\* The owner's end of a stream.
LEMMA OpenRecord ==
    ASSUME HolderInv, RecordInv, NEW s \in Calls, Open(s) \/ EndStream(s) PROVE RecordInv'
  <1>1. UNCHANGED <<control, ends, up, executed, consumer, mirror, registered>>
    BY DEF client, Open, EndStream
  <1>2. OwnerTypeOK' /\ owner'.writer = owner.writer /\ owner'.record = owner.record
    BY ChangesAssumption DEF RecordInv, TypeOK, OwnerTypeOK, Change, Open, EndStream
  <1>3. CallTypeOK'
    BY DEF RecordInv, TypeOK, CallTypeOK, Open, EndStream
  <1>4. StreamTypeOK'
    BY ChangesAssumption DEF RecordInv, TypeOK, OwnerTypeOK, StreamTypeOK, Open, EndStream
  <1>5. TableTypeOK'
    BY DEF RecordInv, TypeOK, TableTypeOK, Open, EndStream
  <1>6. ASSUME NEW d \in Calls
        PROVE  /\ call[d].at \in {"asking", "modes"} \/ call'[d].at \in {"asking", "modes"}
                    => call'[d].at = call[d].at
               /\ stream[d].at = "dropped" => stream'[d].at = "dropped"
    BY DEF HolderInv, Shape, Phases, Open, EndStream
  <1> QED
    BY <1>1, <1>2, <1>3, <1>4, <1>5, <1>6, AsideRecord

\* The session goes on.
LEMMA EmitRecord ==
    ASSUME HolderInv, RecordInv, Emit PROVE RecordInv'
  <1>1. UNCHANGED <<control, ends, up, executed, consumer, mirror, registered>>
    BY DEF client, Emit
  <1>2. OwnerTypeOK' /\ owner'.writer = owner.writer /\ owner'.record = owner.record
    BY ChangesAssumption DEF RecordInv, TypeOK, OwnerTypeOK, Change, Emit
  <1>3. CallTypeOK'
    BY DEF RecordInv, TypeOK, CallTypeOK, Emit
  <1>4. StreamTypeOK'
    BY ChangesAssumption DEF RecordInv, TypeOK, OwnerTypeOK, StreamTypeOK, Emit
  <1>5. TableTypeOK'
    BY DEF RecordInv, TypeOK, TableTypeOK, Emit
  <1>6. ASSUME NEW d \in Calls
        PROVE  /\ call[d].at \in {"asking", "modes"} \/ call'[d].at \in {"asking", "modes"}
                    => call'[d].at = call[d].at
               /\ stream[d].at = "dropped" => stream'[d].at = "dropped"
    BY DEF HolderInv, Shape, Phases, Emit
  <1> QED
    BY <1>1, <1>2, <1>3, <1>4, <1>5, <1>6, AsideRecord

--------------------------------------------------------------------------------
\* Steps that leave the consumers and the record alone, whatever they do to the mutex.
LEMMA QuietRecord ==
    ASSUME RecordInv, UNCHANGED <<stream, consumer>>,
           owner'.writer = owner.writer, owner'.record = owner.record
    PROVE  Worked' /\ Pending'
  BY DEF RecordInv, Worked, Pending

\* A call's request takes the mutex that nobody has.
LEMMA AsksRecord ==
    ASSUME RecordInv, NEW c \in Calls, Prepare(c) \/ EnsureListed(c) \/ AskModes(c)
    PROVE  RecordInv'
  <1>1. ClientTypeOK'
    BY DEF RecordInv, TypeOK, ClientTypeOK, Thread, Prepare, EnsureListed, AskModes, Request
  <1>2. /\ UNCHANGED <<owner, stream, prepared, timers, helper, consumer, mirror, registered>>
        /\ CallTypeOK'
    BY DEF RecordInv, TypeOK, CallTypeOK, Prepare, EnsureListed, AskModes, Starts, Goto
  <1>3. /\ OwnerTypeOK' /\ StreamTypeOK' /\ TableTypeOK' /\ ConsumerTypeOK' /\ MirrorTypeOK'
        /\ Worked' /\ Pending'
    BY <1>2, QuietRecord
    DEF RecordInv, TypeOK, OwnerTypeOK, StreamTypeOK, TableTypeOK, ConsumerTypeOK, MirrorTypeOK
  <1>4. Bound'
    <2>1. \A d \in Calls :
            call[d].at \notin {"asking", "modes"} /\ consumer[d].worker # "sending"
      BY DEF RecordInv, Bound, Prepare, EnsureListed, AskModes, Request
    <2>2. /\ control'.at \in {"sent", "ended"} /\ control'.attempt = 1
          /\ control'.by = <<c, "call">> /\ control'.reply = None /\ executed' = 0
          /\ \A d \in Calls \ {c} : call'[d] = call[d]
          /\ \/ call'[c].at = "asking" /\ control'.command \in {"prepare", "sessions"}
             \/ call'[c].at = "modes" /\ control'.command = "modes"
      BY DEF RecordInv, TypeOK, CallTypeOK, Prepare, EnsureListed, AskModes, Starts, Goto, Request
    <2> QED
      BY <1>2, <2>1, <2>2 DEF Bound
  <1> QED
    BY <1>1, <1>2, <1>3, <1>4 DEF RecordInv, TypeOK

\* A call that has its answer gives the mutex back.
LEMMA AnsweredRecord ==
    ASSUME RecordInv, NEW c \in Calls, PrepareAnswered(c) \/ Listed(c) PROVE RecordInv'
  <1>1. ClientTypeOK' /\ control' = Unlocked
    BY DEF RecordInv, TypeOK, ClientTypeOK, Thread, PrepareAnswered, Listed, Release, Unlocked
  <1>2. /\ UNCHANGED <<owner, stream, prepared, timers, helper, consumer, mirror, registered>>
        /\ CallTypeOK'
    BY DEF RecordInv, TypeOK, ClientTypeOK, CallTypeOK, PrepareAnswered, Listed, Goto
  <1>3. /\ OwnerTypeOK' /\ StreamTypeOK' /\ TableTypeOK' /\ ConsumerTypeOK' /\ MirrorTypeOK'
        /\ Worked' /\ Pending'
    BY <1>2, QuietRecord
    DEF RecordInv, TypeOK, OwnerTypeOK, StreamTypeOK, TableTypeOK, ConsumerTypeOK, MirrorTypeOK
  <1>4. Bound'
    <2>1. \A d \in Calls : /\ call[d].at \in {"asking", "modes"} => d = c
                           /\ consumer[d].worker # "sending"
      BY DEF RecordInv, Bound, PrepareAnswered, Listed, Done
    <2>2. /\ call'[c].at \notin {"asking", "modes"}
          /\ \A d \in Calls \ {c} : call'[d] = call[d]
      BY DEF RecordInv, TypeOK, CallTypeOK, PrepareAnswered, Listed, Goto
    <2> QED
      BY <1>1, <1>2, <2>1, <2>2 DEF Bound, Unlocked
  <1> QED
    BY <1>1, <1>2, <1>3, <1>4 DEF RecordInv, TypeOK

\* The client's types, field by field.
LEMMA ClientTypes ==
    ASSUME ClientTypeOK,
           \/ control' = control
           \/ \E at \in {"free", "sent", "ended", "done"} : control' = [control EXCEPT !.at = at]
           \/ \E at \in {"free", "sent", "ended", "done"}, attempt \in 1..2 :
                control' = [control EXCEPT !.at = at, !.attempt = attempt]
           \/ \E at \in {"free", "sent", "ended", "done"}, reply \in Nat \cup {None} :
                control' = [control EXCEPT !.at = at, !.reply = reply],
           up' \in BOOLEAN, ends' \in 0..MaxEnds, executed' \in 0..2
    PROVE  ClientTypeOK'
  BY DEF ClientTypeOK

\* The request under way: sent again, refused, cut off or given up.
LEMMA ConnectionRecord ==
    ASSUME RecordInv, Connection, UNCHANGED observers PROVE RecordInv'
  <1>1. ClientTypeOK'
    <2>1. ClientTypeOK /\ (control.at = "sent" => executed < control.attempt)
      BY DEF RecordInv, TypeOK, Bound
    <2>2. CASE Refused
      BY <2>1, <2>2 DEF ClientTypeOK, Refused
    <2>3. CASE EndConnection
      <3>1. up' \in BOOLEAN /\ ends' \in 0..MaxEnds /\ executed' \in 0..2
        <4>1. ends \in 0..MaxEnds /\ executed \in 0..2
          BY <2>1 DEF ClientTypeOK
        <4>2. up' = FALSE /\ ends < MaxEnds /\ ends' = ends + 1 /\ executed' = executed
          BY <2>3 DEF EndConnection
        <4>3. ends' \in 0..MaxEnds /\ executed' \in 0..2
          BY <4>1, <4>2, ClientAssumption
        <4> QED
          BY <4>2, <4>3, Zenon
      <3>2. control' = control \/ control' = [control EXCEPT !.at = "ended"]
        BY <2>3 DEF EndConnection
      <3> QED
        BY <2>1, <3>1, <3>2, ClientTypes
    <2>4. CASE Reconnect
      <3>1. up' \in BOOLEAN /\ ends' \in 0..MaxEnds /\ executed' \in 0..2 /\ 2 \in 1..2
        BY <2>1, <2>4 DEF ClientTypeOK, Reconnect
      <3>2. control' = [control EXCEPT !.at = "sent", !.attempt = 2]
        BY <2>4 DEF Reconnect
      <3> QED
        BY <2>1, <3>1, <3>2, ClientTypes
    <2>5. CASE GiveUp
      BY <2>1, <2>5 DEF ClientTypeOK, GiveUp
    <2> QED
      BY <2>2, <2>3, <2>4, <2>5 DEF Connection
  <1>2. UNCHANGED <<owner, call, stream, prepared, timers, helper, consumer, mirror, registered>>
    BY DEF observers
  <1>3. /\ OwnerTypeOK' /\ CallTypeOK' /\ StreamTypeOK' /\ TableTypeOK' /\ ConsumerTypeOK'
        /\ MirrorTypeOK' /\ Worked' /\ Pending'
    BY <1>2, QuietRecord
    DEF RecordInv, TypeOK, OwnerTypeOK, CallTypeOK, StreamTypeOK, TableTypeOK, ConsumerTypeOK,
        MirrorTypeOK
  <1>4. Bound'
    <2>1. /\ control'.by = control.by /\ control'.command = control.command
          /\ control'.reply = control.reply
          /\ control'.at = "free" <=> control.at = "free"
      BY DEF RecordInv, TypeOK, ClientTypeOK, Connection, Refused, EndConnection, Reconnect, GiveUp
    <2>2. /\ control'.at = "sent" => executed' < control'.attempt /\ control'.reply = None
          /\ control'.at = "ended" => executed' <= control'.attempt /\ control'.reply = None
      <3>1. /\ ClientTypeOK
            /\ control.at = "sent" => executed < control.attempt /\ control.reply = None
            /\ control.at = "ended" => executed <= control.attempt /\ control.reply = None
        BY DEF RecordInv, TypeOK, Bound
      <3>2. CASE Refused
        BY <3>1, <3>2 DEF ClientTypeOK, Refused
      <3>3. CASE EndConnection
        BY <3>1, <3>3 DEF ClientTypeOK, EndConnection
      <3>4. CASE Reconnect
        BY <3>1, <3>4 DEF ClientTypeOK, Reconnect
      <3>5. CASE GiveUp
        BY <3>1, <3>5 DEF ClientTypeOK, GiveUp
      <3> QED
        BY <3>2, <3>3, <3>4, <3>5 DEF Connection
    <2>3. control'.at = "done" => control' = control \/ control'.reply = None
      BY <2>1 DEF RecordInv, TypeOK, ClientTypeOK, Bound, Connection, Refused, EndConnection,
             Reconnect, GiveUp
    <2> QED
      BY <1>2, <2>1, <2>2, <2>3 DEF RecordInv, Bound, Report
  <1> QED
    BY <1>1, <1>2, <1>3, <1>4 DEF RecordInv, TypeOK

\* What the owner does when it serves a request.
LEMMA ServeRecord ==
    ASSUME RecordInv, Serve PROVE RecordInv'
  <1>1. /\ control.at = "sent" /\ executed < control.attempt /\ control.reply = None
        /\ executed' = executed + 1
        /\ UNCHANGED <<call, stream, prepared, timers, helper, consumer, mirror, registered>>
    BY DEF RecordInv, Bound, Serve, Served, ServedInVain
  <1>2. control.command = "record" =>
            \E s \in Calls : control.by = <<s, "worker">> /\ consumer[s].worker = "sending"
    BY <1>1 DEF RecordInv, Bound
  <1>3. OwnerTypeOK'
    <2>1. CASE control.command = "prepare"
      <3> DEFINE tokens == owner.tokens \cup {owner.issued + 1}
      <3>1. owner' = [owner EXCEPT !.issued = owner.issued + 1, !.tokens = tokens]
        BY <2>1 DEF Serve, Effect
      <3>2. owner.issued + 1 \in Nat /\ tokens \in SUBSET (1..owner.issued + 1)
        BY DEF RecordInv, TypeOK, OwnerTypeOK
      <3> HIDE DEF tokens
      <3> QED
        BY <3>1, <3>2 DEF RecordInv, TypeOK, OwnerTypeOK
    <2>2. CASE control.command = "record"
      <3>1. control.by[1] \in Calls /\ consumer[control.by[1]].sending \in Report
        BY <1>2, <2>2 DEF RecordInv, TypeOK, ConsumerTypeOK
      <3> QED
        BY <2>2, <3>1 DEF RecordInv, TypeOK, OwnerTypeOK, Serve, Effect
    <2>3. CASE control.command \notin {"prepare", "record"}
      BY <2>3 DEF RecordInv, TypeOK, OwnerTypeOK, Serve, Effect
    <2> QED
      BY <2>1, <2>2, <2>3
  <1>4. /\ control'.by = control.by /\ control'.command = control.command
        /\ control'.attempt = control.attempt
        /\ \/ control'.at = "done" /\ control'.reply \in Replies
           \/ control'.at = "ended" /\ control'.reply = None
    BY <1>1 DEF RecordInv, TypeOK, ClientTypeOK, Serve, Served, ServedInVain
  <1>5. ClientTypeOK'
    <2>1. Replies \subseteq Nat \cup {None}
      <3>1. /\ control.command \in {"prepare", "sessions", "modes", "record"}
            /\ owner.issued + 1 \in Nat /\ owner.record \in Nat \cup {None}
        BY <1>1, ChangesAssumption
        DEF RecordInv, TypeOK, Bound, OwnerTypeOK, Report, Change
      <3> QED
        BY <3>1 DEF Replies
    <2>2. ClientTypeOK /\ executed < control.attempt
      BY <1>1 DEF RecordInv, TypeOK
    <2>3. up' \in BOOLEAN /\ ends' \in 0..MaxEnds /\ executed' \in 0..2
      <3>1. up \in BOOLEAN /\ ends \in 0..MaxEnds /\ executed \in 0..1
        BY <2>2 DEF ClientTypeOK
      <3>2. \/ up' = up /\ ends' = ends
            \/ up' = FALSE /\ ends < MaxEnds /\ ends' = ends + 1
        BY DEF Serve, Served, ServedInVain
      <3>3. up' \in BOOLEAN
        BY <3>1, <3>2, Zenon
      <3>4. ends' \in 0..MaxEnds /\ executed' \in 0..2
        BY <1>1, <3>1, <3>2, ClientAssumption
      <3> QED
        BY <3>3, <3>4
    <2>4. \/ control' = [control EXCEPT !.at = "ended"]
          \/ \E reply \in Replies : control' = [control EXCEPT !.at = "done", !.reply = reply]
      BY DEF Serve, Served, ServedInVain
    <2> QED
      BY <2>1, <2>2, <2>3, <2>4, ClientTypes
  <1>6. /\ CallTypeOK' /\ StreamTypeOK' /\ TableTypeOK' /\ ConsumerTypeOK' /\ MirrorTypeOK'
    BY <1>1
    DEF RecordInv, TypeOK, CallTypeOK, StreamTypeOK, TableTypeOK, ConsumerTypeOK, MirrorTypeOK
  <1>7. \/ /\ control.command = "record"
           /\ owner'.writer = control.by[1]
           /\ owner'.record = consumer[control.by[1]].sending
        \/ /\ control.command # "record"
           /\ owner'.writer = owner.writer /\ owner'.record = owner.record
    BY <1>1 DEF RecordInv, TypeOK, OwnerTypeOK, Serve, Effect
  <1>8. Bound'
    <2>1. control.command = "modes" => Replies \subseteq Report
      BY DEF RecordInv, TypeOK, OwnerTypeOK, Replies
    <2>2. executed' <= control'.attempt
      BY <1>1, <1>4 DEF RecordInv, TypeOK, ClientTypeOK
    <2> QED
      BY <1>1, <1>4, <1>7, <2>1, <2>2 DEF RecordInv, Bound
  <1>9. Worked' /\ Pending'
    BY <1>1, <1>2, <1>7 DEF RecordInv, Worked, Pending
  <1> QED
    BY <1>3, <1>5, <1>6, <1>8, <1>9 DEF RecordInv, TypeOK

--------------------------------------------------------------------------------
\* The steps that change a consumer.

\* What a consumer may become: the fields keep their types.
Consumers == [on: BOOLEAN, mirror: Calls \cup {None}, sent: Report, queue: Seq(Change),
              worker: {"off", "idle", "locking", "sending"}, sending: Report,
              failed: BOOLEAN, lost: BOOLEAN]

\* What keeps the worker of consumer s in step with it, when the consumer becomes held.
Continues(s, held) ==
    /\ \A c \in Calls : stream[c].at = "dropped" => stream'[c].at = "dropped"
    /\ \/ held.worker = consumer[s].worker
       \/ consumer[s].worker = "idle" /\ held.worker = "locking"
    /\ held.sending = consumer[s].sending \/ held.worker = "locking"
    /\ held.worker = "off" => ~held.on /\ held.queue = <<>>
    /\ held.worker # "off" => held.on \/ stream'[s].at = "dropped"
    /\ held.on => held.mirror \in Calls
    /\ held.queue # <<>> => held.queue[Len(held.queue)] = held.sent
    /\ held.queue = <<>> /\ held.worker \in {"locking", "sending"} => held.sending = held.sent
    /\ held.queue = <<>> /\ held.worker = "idle" =>
        /\ held.sent = consumer[s].sent /\ held.failed = consumer[s].failed
        /\ consumer[s].queue = <<>>

\* A step that changes consumer s alone, and neither the mutex nor the record.
LEMMA OneConsumer ==
    ASSUME RecordInv, NEW s \in Calls, NEW held \in Consumers,
           consumer' = [consumer EXCEPT ![s] = held],
           UNCHANGED <<control, up, ends, executed, owner, call, prepared, timers, helper>>,
           StreamTypeOK', MirrorTypeOK',
           Continues(s, held)
    PROVE  RecordInv'
  <1>1. /\ consumer'[s] = held /\ \A c \in Calls \ {s} : consumer'[c] = consumer[c]
        /\ ConsumerTypeOK'
    BY DEF RecordInv, TypeOK, ConsumerTypeOK, Consumers
  <1>2. ClientTypeOK' /\ OwnerTypeOK' /\ CallTypeOK' /\ TableTypeOK'
    BY DEF RecordInv, TypeOK, ClientTypeOK, OwnerTypeOK, CallTypeOK, TableTypeOK
  <1>3. Bound'
    <2>1. ASSUME NEW c \in Calls
          PROVE  /\ consumer'[c].worker = "sending" <=> consumer[c].worker = "sending"
                 /\ consumer[c].worker = "sending" => consumer'[c].sending = consumer[c].sending
      BY <1>1 DEF Continues
    <2>2. control.at = "done" /\ control.command = "record" =>
            \E c \in Calls : control.by = <<c, "worker">> /\ consumer[c].worker = "sending"
      BY DEF RecordInv, Bound
    <2> QED
      BY <2>1, <2>2 DEF RecordInv, Bound
  <1>4. Worked'
    BY <1>1 DEF RecordInv, Worked, Continues
  <1>5. Pending'
    BY <1>1 DEF RecordInv, Pending, Continues
  <1> QED
    BY <1>1, <1>2, <1>3, <1>4, <1>5 DEF RecordInv, TypeOK

\* A frame: a report that is new goes to the end of the queue.
LEMMA ConsumeRecord ==
    ASSUME RecordInv, NEW s \in Calls, Consume(s) PROVE RecordInv'
  <1> DEFINE modes == mirror'[consumer[s].mirror]
             asked == [consumer[s] EXCEPT !.sent = modes, !.queue = Append(@, modes)]
  <1>1. consumer[s] \in Consumers /\ consumer[s].on /\ consumer[s].mirror \in Calls
    BY DEF RecordInv, TypeOK, ConsumerTypeOK, Consumers, Worked, Consume
  <1>2. /\ UNCHANGED <<control, up, ends, executed, owner, call, prepared, timers, helper>>
        /\ registered' = registered
    BY DEF Consume, client
  <1>3. StreamTypeOK' /\ MirrorTypeOK'
    BY <1>1, ChangesAssumption
    DEF RecordInv, TypeOK, StreamTypeOK, MirrorTypeOK, OwnerTypeOK, Change, Consume
  <1>4. ASSUME NEW c \in Calls PROVE stream'[c].at = stream[c].at
    BY DEF RecordInv, TypeOK, StreamTypeOK, Consume
  <1>5. modes \in Change
    BY <1>1, <1>3 DEF MirrorTypeOK
  <1>6. CASE consumer[s].sent = modes
    <2>1. UNCHANGED consumer
      BY <1>6 DEF Consume, Reported
    <2>2. ClientTypeOK' /\ OwnerTypeOK' /\ CallTypeOK' /\ TableTypeOK' /\ ConsumerTypeOK'
      BY <1>2, <2>1
      DEF RecordInv, TypeOK, ClientTypeOK, OwnerTypeOK, CallTypeOK, TableTypeOK, ConsumerTypeOK
    <2>3. Bound'
      BY <1>2, <2>1 DEF RecordInv, Bound
    <2>4. Worked'
      BY <1>2, <1>4, <2>1 DEF RecordInv, Worked
    <2>5. Pending'
      BY <1>2, <2>1 DEF RecordInv, Pending
    <2> QED
      BY <1>3, <2>2, <2>3, <2>4, <2>5 DEF RecordInv, TypeOK
  <1>7. CASE consumer[s].sent # modes
    <2>1. consumer' = [consumer EXCEPT ![s].sent = modes, ![s].queue = Append(@, modes)]
      BY <1>7 DEF Consume, Reported
    <2>2. /\ asked \in Consumers /\ asked.worker = consumer[s].worker /\ asked.on
          /\ asked.sending = consumer[s].sending /\ asked.mirror \in Calls
          /\ asked.queue # <<>> /\ asked.queue[Len(asked.queue)] = asked.sent
      <3> DEFINE queue == consumer[s].queue
                 longer == Append(queue, modes)
      <3>1. queue \in Seq(Change) /\ modes \in Change /\ modes \in Report
        BY <1>1, <1>5 DEF Consumers, Report
      <3>2. /\ asked = [consumer[s] EXCEPT !.sent = modes, !.queue = longer]
            /\ consumer' = [consumer EXCEPT ![s] = asked]
        BY <2>1 DEF RecordInv, TypeOK, ConsumerTypeOK
      <3> HIDE DEF modes, queue, asked
      <3>3. longer \in Seq(Change) /\ longer # <<>> /\ longer[Len(longer)] = modes
        BY <3>1
      <3> HIDE DEF longer
      <3> QED
        BY <1>1, <3>1, <3>2, <3>3 DEF Consumers
    <2>3. consumer' = [consumer EXCEPT ![s] = asked]
      BY <2>1 DEF RecordInv, TypeOK, ConsumerTypeOK
    <2>4. consumer[s].worker # "off"
      BY <1>1 DEF RecordInv, Worked
    <2> HIDE DEF modes, asked
    <2>5. Continues(s, asked)
      <3>1. \A c \in Calls : stream[c].at = "dropped" => stream'[c].at = "dropped"
        BY <1>4
      <3>2. asked.worker # "off"
        BY <2>2, <2>4
      <3> QED
        BY <2>2, <3>1, <3>2 DEF Continues
    <2> QED
      BY <1>2, <1>3, <2>2, <2>3, <2>5, OneConsumer
  <1> QED
    BY <1>6, <1>7

\* The consumer is gone; its worker goes on.
LEMMA ConsumerEndsRecord ==
    ASSUME RecordInv, NEW s \in Calls, ConsumerEnds(s) PROVE RecordInv'
  <1> DEFINE left == [consumer[s] EXCEPT !.on = FALSE]
  <1>1. consumer[s] \in Consumers
    BY DEF RecordInv, TypeOK, ConsumerTypeOK, Consumers
  <1>2. /\ UNCHANGED <<control, up, ends, executed, owner, call, prepared, timers, helper>>
        /\ mirror' = mirror /\ registered' = None
    BY DEF ConsumerEnds, client
  <1>3. StreamTypeOK' /\ MirrorTypeOK' /\ stream'[s].at = "dropped"
    BY <1>2 DEF RecordInv, TypeOK, StreamTypeOK, MirrorTypeOK, ConsumerEnds, Drop
  <1>4. ASSUME NEW c \in Calls, stream[c].at = "dropped" PROVE stream'[c].at = "dropped"
    BY <1>4 DEF RecordInv, TypeOK, StreamTypeOK, ConsumerEnds, Drop
  <1>5. consumer' = [consumer EXCEPT ![s] = left]
    BY DEF RecordInv, TypeOK, ConsumerTypeOK, ConsumerEnds
  <1>6. /\ left \in Consumers /\ ~left.on /\ left.queue = consumer[s].queue
        /\ left.worker = consumer[s].worker /\ left.sending = consumer[s].sending
        /\ left.sent = consumer[s].sent /\ left.failed = consumer[s].failed
    BY <1>1 DEF Consumers
  <1>7. /\ consumer[s].worker = "off" => consumer[s].queue = <<>>
        /\ consumer[s].queue # <<>> =>
                consumer[s].queue[Len(consumer[s].queue)] = consumer[s].sent
        /\ consumer[s].queue = <<>> /\ consumer[s].worker \in {"locking", "sending"} =>
                consumer[s].sending = consumer[s].sent
    BY DEF RecordInv, Worked, Pending
  <1> HIDE DEF left
  <1>8. Continues(s, left)
    <2>1. \A c \in Calls : stream[c].at = "dropped" => stream'[c].at = "dropped"
      BY <1>4
    <2>2. left.worker = "off" => left.queue = <<>>
      BY <1>6, <1>7
    <2>3. left.queue # <<>> => left.queue[Len(left.queue)] = left.sent
      BY <1>6, <1>7
    <2>4. left.queue = <<>> /\ left.worker \in {"locking", "sending"} => left.sending = left.sent
      BY <1>6, <1>7
    <2> QED
      BY <1>3, <1>6, <2>1, <2>2, <2>3, <2>4 DEF Continues
  <1> QED
    BY <1>2, <1>3, <1>5, <1>6, <1>8, OneConsumer

\* The worker takes what is at the end of the queue.
LEMMA WorkerTakesRecord ==
    ASSUME RecordInv, NEW s \in Calls, WorkerTakes(s) PROVE RecordInv'
  <1> DEFINE last == consumer[s].queue[Len(consumer[s].queue)]
             took == [consumer[s] EXCEPT !.worker = "locking", !.queue = <<>>, !.sending = last]
  <1>1. consumer[s] \in Consumers /\ last \in Report /\ last = consumer[s].sent
    BY DEF RecordInv, TypeOK, ConsumerTypeOK, Consumers, Pending, WorkerTakes
  <1>2. /\ UNCHANGED <<control, up, ends, executed, owner, call, prepared, timers, helper>>
        /\ UNCHANGED <<stream, mirror, registered>>
    BY DEF WorkerTakes, client
  <1>3. StreamTypeOK' /\ MirrorTypeOK'
    BY <1>2 DEF RecordInv, TypeOK, StreamTypeOK, MirrorTypeOK
  <1>4. consumer' = [consumer EXCEPT ![s] = took]
    BY DEF RecordInv, TypeOK, ConsumerTypeOK, WorkerTakes
  <1> HIDE DEF last
  <1>5. /\ took \in Consumers /\ took.on = consumer[s].on /\ took.queue = <<>>
        /\ took.worker = "locking" /\ took.sending = last /\ took.sent = consumer[s].sent
        /\ took.mirror = consumer[s].mirror
    <2>1. <<>> \in Seq(Change)
      OBVIOUS
    <2> QED
      BY <1>1, <2>1 DEF Consumers
  <1>6. /\ consumer[s].worker = "idle" /\ (consumer[s].on \/ stream[s].at = "dropped")
        /\ consumer[s].on => consumer[s].mirror \in Calls
    BY DEF RecordInv, Worked, WorkerTakes
  <1> HIDE DEF took
  <1>7. Continues(s, took)
    BY <1>1, <1>2, <1>5, <1>6 DEF Continues
  <1> QED
    BY <1>2, <1>3, <1>4, <1>5, <1>7, OneConsumer

\* The worker's request takes the mutex.
LEMMA WorkerRequestsRecord ==
    ASSUME RecordInv, NEW s \in Calls, WorkerRequests(s) PROVE RecordInv'
  <1>1. /\ control'.at \in {"sent", "ended"} /\ control'.attempt = 1
        /\ control'.by = <<s, "worker">> /\ control'.command = "record"
        /\ control'.reply = None /\ executed' = 0 /\ control.at = "free"
    BY DEF WorkerRequests, Request
  <1>2. ClientTypeOK'
    BY DEF RecordInv, TypeOK, ClientTypeOK, Thread, WorkerRequests, Request
  <1>3. /\ UNCHANGED <<owner, call, stream, prepared, timers, helper, mirror, registered>>
        /\ ConsumerTypeOK'
    BY DEF RecordInv, TypeOK, ConsumerTypeOK, WorkerRequests
  <1>4. OwnerTypeOK' /\ CallTypeOK' /\ StreamTypeOK' /\ TableTypeOK' /\ MirrorTypeOK'
    BY <1>3
    DEF RecordInv, TypeOK, OwnerTypeOK, CallTypeOK, StreamTypeOK, TableTypeOK, MirrorTypeOK
  <1>5. /\ consumer[s].worker = "locking" /\ consumer'[s].worker = "sending"
        /\ \A c \in Calls : /\ c # s => consumer'[c].worker = consumer[c].worker
                            /\ consumer'[c].on = consumer[c].on
                            /\ consumer'[c].mirror = consumer[c].mirror
                            /\ consumer'[c].queue = consumer[c].queue
                            /\ consumer'[c].sending = consumer[c].sending
                            /\ consumer'[c].sent = consumer[c].sent
                            /\ consumer'[c].failed = consumer[c].failed
    BY DEF RecordInv, TypeOK, ConsumerTypeOK, WorkerRequests
  <1>6. Bound'
    BY <1>1, <1>3, <1>5 DEF RecordInv, Bound
  <1>7. Worked'
    BY <1>3, <1>5 DEF RecordInv, Worked
  <1>8. Pending'
    BY <1>3, <1>5 DEF RecordInv, Pending
  <1> QED
    BY <1>2, <1>3, <1>4, <1>6, <1>7, <1>8 DEF RecordInv, TypeOK

\* The request has ended, and the worker knows nothing of how.
LEMMA WorkerReturnsRecord ==
    ASSUME RecordInv, NEW s \in Calls, WorkerReturns(s) PROVE RecordInv'
  <1>1. /\ control' = Unlocked /\ control.at = "done" /\ control.by = <<s, "worker">>
        /\ executed' = 0 /\ up' = up /\ ends' = ends
    BY DEF WorkerReturns, Done, Release
  <1>2. ClientTypeOK'
    BY <1>1 DEF RecordInv, TypeOK, ClientTypeOK, Unlocked
  <1>3. /\ UNCHANGED <<owner, call, stream, prepared, timers, helper, mirror, registered>>
        /\ ConsumerTypeOK'
    <2> DEFINE failed == control.reply = None
               back == [consumer[s] EXCEPT !.worker = "idle", !.sending = None, !.failed = failed]
    <2>1. failed \in BOOLEAN /\ None \in Report /\ consumer[s] \in Consumers
      BY DEF Report, RecordInv, TypeOK, ConsumerTypeOK, Consumers
    <2>2. consumer' = [consumer EXCEPT ![s] = back]
      BY DEF RecordInv, TypeOK, ConsumerTypeOK, WorkerReturns
    <2> HIDE DEF failed
    <2>3. failed = TRUE => back \in Consumers
      BY <2>1 DEF Consumers
    <2>4. failed = FALSE => back \in Consumers
      BY <2>1 DEF Consumers
    <2>5. back \in Consumers
      BY <2>1, <2>3, <2>4
    <2> HIDE DEF back
    <2>6. ConsumerTypeOK'
      BY <2>2, <2>5 DEF RecordInv, TypeOK, ConsumerTypeOK, Consumers
    <2> QED
      BY <2>6 DEF WorkerReturns
  <1>4. OwnerTypeOK' /\ CallTypeOK' /\ StreamTypeOK' /\ TableTypeOK' /\ MirrorTypeOK'
    BY <1>3
    DEF RecordInv, TypeOK, OwnerTypeOK, CallTypeOK, StreamTypeOK, TableTypeOK, MirrorTypeOK
  <1>5. /\ consumer[s].worker = "sending" /\ consumer'[s].worker = "idle"
        /\ consumer'[s].failed <=> control.reply = None
        /\ \A c \in Calls : /\ c # s => consumer'[c] = consumer[c]
                            /\ consumer'[c].on = consumer[c].on
                            /\ consumer'[c].mirror = consumer[c].mirror
                            /\ consumer'[c].queue = consumer[c].queue
                            /\ consumer'[c].sent = consumer[c].sent
    BY DEF RecordInv, TypeOK, ConsumerTypeOK, WorkerReturns
  <1>6. Bound'
    <2>1. \A c \in Calls : /\ call[c].at \notin {"asking", "modes"}
                           /\ consumer[c].worker = "sending" => c = s
      BY <1>1 DEF RecordInv, Bound
    <2> QED
      BY <1>1, <1>3, <1>5, <2>1 DEF Bound, Unlocked
  <1>7. Worked'
    BY <1>3, <1>5 DEF RecordInv, Worked
  <1>8. Pending'
    <2>1. control.reply # None => owner.record = consumer[s].sending
      BY <1>1 DEF RecordInv, Bound
    <2> QED
      BY <1>3, <1>5, <2>1 DEF RecordInv, Pending
  <1> QED
    BY <1>2, <1>3, <1>4, <1>6, <1>7, <1>8 DEF RecordInv, TypeOK

\* A stream's one consumer, and its worker with it.
LEMMA SubscribedRecord ==
    ASSUME HolderInv, RecordInv, NEW c \in Calls, Subscribed(c) PROVE RecordInv'
  <1> DEFINE s == call[c].stream
             of == MirrorOf(c)
             lost == Restored < stream[s].next - 1
             fresh == [Idle EXCEPT !.on = TRUE, !.worker = "idle", !.mirror = of, !.lost = lost]
  <1>1. /\ control' = Unlocked /\ control.at = "done" /\ control.by = <<c, "call">>
        /\ executed' = 0 /\ up' = up /\ ends' = ends
    BY DEF Subscribed, Done, Release
  <1>2. ClientTypeOK'
    BY <1>1 DEF RecordInv, TypeOK, ClientTypeOK, Unlocked
  <1>3. /\ UNCHANGED <<owner, stream, prepared, timers, helper>>
        /\ CallTypeOK'
    BY DEF RecordInv, TypeOK, CallTypeOK, Subscribed, Goto
  <1>4. OwnerTypeOK' /\ StreamTypeOK' /\ TableTypeOK'
    BY <1>3 DEF RecordInv, TypeOK, OwnerTypeOK, StreamTypeOK, TableTypeOK
  <1>5. /\ s \in Calls /\ MirrorOf(c) \in Calls
        /\ consumer[s].worker = "off" /\ owner.writer # s
    <2>1. Live(s) /\ ~Consumed(s) /\ s \in Calls
      BY DEF HolderInv, Shape, OnePlace, Placed, Has, Uses, Subscribed, At
    <2> QED
      BY <2>1 DEF RecordInv, TypeOK, MirrorTypeOK, MirrorOf, Worked, Live, Consumed
  <1>6. Restored \in Change
    <2>1. control.command = "modes"
      BY <1>1 DEF RecordInv, Bound, Subscribed, At
    <2> QED
      BY <1>1, <2>1, ChangesAssumption DEF RecordInv, Bound, Restored, Report, Change
  <1>7. MirrorTypeOK'
    BY <1>5, <1>6 DEF RecordInv, TypeOK, MirrorTypeOK, Subscribed
  <1>8. /\ fresh \in Consumers /\ fresh.on /\ fresh.worker = "idle" /\ fresh.queue = <<>>
        /\ fresh.mirror \in Calls
    <2>1. lost \in BOOLEAN /\ of \in Calls /\ <<>> \in Seq(Change) /\ None \in Report
      BY <1>5 DEF Report
    <2> HIDE DEF lost, of
    <2>2. CASE lost = TRUE
      BY <2>1, <2>2 DEF Idle, Consumers
    <2>3. CASE lost = FALSE
      BY <2>1, <2>3 DEF Idle, Consumers
    <2> QED
      BY <2>1, <2>2, <2>3
  <1>9. /\ consumer' = [consumer EXCEPT ![s] = fresh]
        /\ call'[c].at = "answered" /\ \A d \in Calls \ {c} : call'[d] = call[d]
    BY DEF RecordInv, TypeOK, CallTypeOK, Subscribed, Started, Goto
  <1> HIDE DEF fresh, s
  <1>10. /\ ConsumerTypeOK' /\ consumer'[s] = fresh
         /\ \A d \in Calls : d # s => consumer'[d] = consumer[d]
    BY <1>5, <1>8, <1>9 DEF RecordInv, TypeOK, ConsumerTypeOK, Consumers
  <1>11. Bound'
    <2>1. \A d \in Calls : /\ call[d].at \in {"asking", "modes"} => d = c
                           /\ consumer[d].worker # "sending"
      BY <1>1 DEF RecordInv, Bound
    <2> QED
      BY <1>1, <1>8, <1>9, <1>10, <2>1 DEF Bound, Unlocked
  <1>12. Worked'
    BY <1>3, <1>8, <1>10 DEF RecordInv, Worked
  <1>13. Pending'
    BY <1>3, <1>5, <1>8, <1>10 DEF RecordInv, Pending
  <1> QED
    BY <1>2, <1>3, <1>4, <1>7, <1>10, <1>11, <1>12, <1>13 DEF RecordInv, TypeOK

\* A stuttering step.
LEMMA StutterRecord ==
    ASSUME RecordInv, UNCHANGED vars PROVE RecordInv'
  <1>1. UNCHANGED <<control, up, ends, executed, owner, call, stream, prepared, timers, helper,
                    consumer, mirror, registered>>
    BY DEF vars, client, observers
  <1>2. Bound' /\ Worked' /\ Pending'
    BY <1>1 DEF RecordInv, Bound, Worked, Pending
  <1>3. TypeOK'
    BY <1>1 DEF RecordInv, TypeOK, ClientTypeOK, OwnerTypeOK, CallTypeOK, StreamTypeOK,
                TableTypeOK, ConsumerTypeOK, MirrorTypeOK
  <1> QED
    BY <1>2, <1>3 DEF RecordInv

\* Every step keeps what is on record in step with the workers.
LEMMA NextRecord == HolderInv /\ RecordInv /\ [Next]_vars => RecordInv'
  <1> SUFFICES ASSUME HolderInv, RecordInv, [Next]_vars PROVE RecordInv'
    OBVIOUS
  <1>1. CASE Exchange \/ Emit \/ UNCHANGED vars
    BY <1>1, ServeRecord, ConnectionRecord, EmitRecord, StutterRecord DEF Exchange
  <1>2. ASSUME NEW c \in Calls, Start(c) \/ Step(c) \/ Expire(c) \/ HelperReturns(c)
        PROVE  RecordInv'
    <2>1. CASE Start(c)
      BY <2>1, AsksRecord, TakeRecord DEF Start
    <2>2. CASE Step(c)
      BY <2>2, AnsweredRecord, ConnectRecord, KeepRecord, ReceiveRecord, ObserveRecord,
         AsksRecord, ClaimFailsRecord, SubscribedRecord
      DEF Step
    <2> QED
      BY <1>2, <2>1, <2>2, ExpireRecord, HelperReturnsRecord
  <1>3. ASSUME NEW s \in Calls,
               Consume(s) \/ ConsumerEnds(s) \/ Worker(s) \/ Open(s) \/ EndStream(s)
        PROVE  RecordInv'
    BY <1>3, ConsumeRecord, ConsumerEndsRecord, WorkerTakesRecord, WorkerRequestsRecord,
       WorkerReturnsRecord, OpenRecord
    DEF Worker
  <1> QED
    BY <1>1, <1>2, <1>3 DEF Next

--------------------------------------------------------------------------------
\* A stream that is being consumed, or about to be, has been opened.
Begun ==
    /\ \A c \in Calls : helper[c] = "sent" \/ call[c].at \in {"claim", "modes"} =>
        stream[call[c].stream].at # "attached"
    /\ \A s \in Calls : consumer[s].on => stream[s].at # "attached"

\* Steps that open no stream and hand none on.
LEMMA UntouchedBegun ==
    ASSUME Begun, UNCHANGED <<call, stream, helper, consumer>> PROVE Begun'
  BY DEF Begun

\* A request hands nothing on.
LEMMA AsksBegun ==
    ASSUME HolderInv, Begun, NEW c \in Calls, Prepare(c) \/ EnsureListed(c) \/ AskModes(c) PROVE Begun'
  BY DEF HolderInv, Shape, OnePlace, Placed, Phases, Begun, Live, Consumed, Has, Helps, Uses, At,
         Prepare, EnsureListed, AskModes, Starts, Goto

\* Nor does its answer.
LEMMA AnsweredBegun ==
    ASSUME HolderInv, Begun, NEW c \in Calls, PrepareAnswered(c) \/ Listed(c) PROVE Begun'
  BY DEF HolderInv, Shape, OnePlace, Placed, Phases, Begun, Live, Consumed, Has, Helps, Uses, At,
         PrepareAnswered, Listed, Goto

\* What is attached is in its maker's hands.
LEMMA ConnectBegun ==
    ASSUME HolderInv, Begun, NEW c \in Calls, Connect(c) PROVE Begun'
  BY DEF HolderInv, Shape, OnePlace, Placed, Phases, Begun, Live, Consumed, Has, Helps, Uses, At,
         Connect, Goto

\* The table consumes nothing.
LEMMA TableBegun ==
    ASSUME HolderInv, Begun, NEW c \in Calls, Keep(c) \/ Expire(c) PROVE Begun'
  BY DEF HolderInv, Shape, OnePlace, Placed, Phases, Begun, Live, Consumed, Has, Helps, Uses, At,
         Keep, Expire, Goto, Drop

\* The helper hands on what was opened.
LEMMA HelperReturnsBegun ==
    ASSUME HolderInv, Begun, NEW c \in Calls, HelperReturns(c) PROVE Begun'
  BY DEF HolderInv, Shape, OnePlace, Placed, Phases, Begun, Live, Consumed, Has, Helps, Uses, At,
         HelperReturns, Drop

\* The caller gets what the helper sent.
LEMMA ReceiveBegun ==
    ASSUME HolderInv, Begun, NEW c \in Calls, Receive(c) \/ TimeOut(c) PROVE Begun'
  BY DEF HolderInv, Shape, OnePlace, Placed, Phases, Begun, Live, Consumed, Has, Helps, Uses, At,
         Receive, TimeOut, Goto

\* The response opens the stream.
LEMMA ObserveBegun ==
    ASSUME HolderInv, Begun, NEW c \in Calls, Observe(c) PROVE Begun'
  BY DEF HolderInv, Shape, OnePlace, Placed, Phases, Begun, Live, Consumed, Has, Helps, Uses, At,
         Observe, Goto

\* A stream that is closed.
LEMMA ClaimFailsBegun ==
    ASSUME HolderInv, Begun, NEW c \in Calls, ClaimFails(c) PROVE Begun'
  BY DEF HolderInv, Shape, OnePlace, Placed, Phases, Begun, Live, Consumed, Has, Helps, Uses, At,
         ClaimFails, Goto, Drop

\* The consumer gets what the caller has.
LEMMA SubscribedBegun ==
    ASSUME HolderInv, Begun, NEW c \in Calls, Subscribed(c) PROVE Begun'
  BY DEF HolderInv, Shape, OnePlace, Placed, Phases, Begun, Live, Consumed, Has, Helps, Uses, At,
         Subscribed, Goto, Started, Idle

\* The consumer keeps it, or closes it.
LEMMA ConsumerBegun ==
    ASSUME HolderInv, Begun, NEW s \in Calls, Consume(s) \/ ConsumerEnds(s) PROVE Begun'
  BY DEF HolderInv, Shape, OnePlace, Placed, Phases, Begun, Live, Consumed, Has, Helps, Uses, At,
         Consume, Reported, ConsumerEnds, Drop, Idle

\* Its worker does not touch it.
LEMMA WorkerBegun ==
    ASSUME HolderInv, Begun, NEW s \in Calls, Worker(s) PROVE Begun'
  BY DEF HolderInv, Shape, OnePlace, Placed, Phases, Begun, Live, Consumed, Has, Helps, Uses, At,
         Worker, WorkerTakes, WorkerRequests, WorkerReturns, Idle

\* Nothing is attached again.
LEMMA OpenBegun ==
    ASSUME HolderInv, Begun, NEW s \in Calls, Open(s) \/ EndStream(s) PROVE Begun'
  BY DEF HolderInv, Shape, OnePlace, Placed, Phases, Begun, Live, Consumed, Has, Helps, Uses, At,
         Open, EndStream

\* A helper thread that has been given a stream has sent nothing yet.
LEMMA TakeBegun ==
    ASSUME HolderInv, RecordInv, Begun, NEW c \in Calls, NEW s \in Calls, Take(c, s) PROVE Begun'
  <1>1. /\ helper'[c] # "sent" /\ call'[c].at \notin {"claim", "modes"}
        /\ \A d \in Calls \ {c} : helper'[d] = helper[d] /\ call'[d] = call[d]
        /\ UNCHANGED <<stream, consumer>>
    <2>1. helper[c] # "sent"
      BY DEF HolderInv, Phases, At, Take
    <2> DEFINE taken == [call[c] EXCEPT !.op = "token", !.at = "wait", !.stream = s]
               refused == [call[c] EXCEPT !.op = "token", !.at = "failed"]
    <2>2. call' = [call EXCEPT ![c] = taken] \/ call' = [call EXCEPT ![c] = refused]
      BY DEF Take
    <2>3. taken.at = "wait" /\ refused.at = "failed"
      BY DEF HolderInv, Shape
    <2> HIDE DEF taken, refused
    <2>4. /\ call'[c].at \in {"wait", "failed"}
          /\ \A d \in Calls \ {c} : call'[d] = call[d]
      BY <2>2, <2>3 DEF HolderInv, Shape
    <2>5. helper' = [helper EXCEPT ![c] = "waiting"] \/ helper' = helper
      BY DEF Take
    <2>6. helper'[c] # "sent" /\ \A d \in Calls \ {c} : helper'[d] = helper[d]
      BY <2>1, <2>5 DEF HolderInv, Shape
    <2> QED
      BY <2>4, <2>6 DEF Take
  <1> QED
    BY <1>1 DEF Begun

\* Every step keeps what is consumed opened.
LEMMA NextBegun == HolderInv /\ RecordInv /\ Begun /\ [Next]_vars => Begun'
  <1> SUFFICES ASSUME HolderInv, RecordInv, Begun, [Next]_vars PROVE Begun'
    OBVIOUS
  <1>1. CASE Exchange \/ Emit \/ UNCHANGED vars
    BY <1>1, UntouchedBegun DEF Exchange, Serve, Emit, vars, observers
  <1>2. ASSUME NEW c \in Calls, Start(c) \/ Step(c) \/ Expire(c) \/ HelperReturns(c)
        PROVE  Begun'
    <2>1. CASE Start(c)
      BY <2>1, AsksBegun, TakeBegun DEF Start
    <2>2. CASE Step(c)
      BY <2>2, AnsweredBegun, ConnectBegun, TableBegun, ReceiveBegun, ObserveBegun, AsksBegun,
         ClaimFailsBegun, SubscribedBegun
      DEF Step
    <2> QED
      BY <1>2, <2>1, <2>2, TableBegun, HelperReturnsBegun
  <1>3. ASSUME NEW s \in Calls,
               Consume(s) \/ ConsumerEnds(s) \/ Worker(s) \/ Open(s) \/ EndStream(s)
        PROVE  Begun'
    BY <1>3, ConsumerBegun, WorkerBegun, OpenBegun
  <1> QED
    BY <1>1, <1>2, <1>3 DEF Next

--------------------------------------------------------------------------------
\* No mirror shows, no thread reports and no record holds a change before it has happened.
Known(modes) == modes = None \/ modes <= owner.changes

NothingAhead ==
    /\ owner.retained <= owner.changes + 1
    /\ \A s \in Calls :
        /\ stream[s].next <= owner.changes + 1
        /\ mirror[s] <= owner.changes
        /\ Known(consumer[s].sent) /\ Known(consumer[s].sending)
    /\ Known(owner.record)
    /\ control.at = "done" /\ control.command = "modes" => Known(control.reply)

\* A mirror of one consumer's own is in the modes its stream has come to, or in later ones
\* that the record had when it was read.
Own(s) == \A other \in Calls \ {s} : consumer[other].mirror # consumer[s].mirror

NotBehind ==
    \A s \in Calls :
        /\ consumer[s].worker = "off" => consumer[s].mirror = None
        /\ consumer[s].on /\ ~consumer[s].lost /\ Own(s) =>
            stream[s].next - 1 <= mirror[consumer[s].mirror]

RestoreInv == Begun /\ NothingAhead /\ NotBehind

\* Nothing has been written.
LEMMA InitRestore == Init => RestoreInv
  <1> SUFFICES ASSUME Init PROVE RestoreInv
    OBVIOUS
  <1>1. Begun
    BY DEF Init, Begun, Idle
  <1>2. NothingAhead
    BY ChangesAssumption DEF Init, ClientInit, Unlocked, Idle, NothingAhead, Known
  <1>3. NotBehind
    BY DEF Init, NotBehind, Idle
  <1> QED
    BY <1>1, <1>2, <1>3 DEF RestoreInv

\* Steps that neither write nor read: what was known is known.
LEMMA Unread ==
    ASSUME RestoreInv, Begun', UNCHANGED mirror,
           owner'.changes = owner.changes, owner'.retained = owner.retained,
           owner'.record = owner.record,
           \A s \in Calls :
              /\ stream'[s].next = stream[s].next
              /\ consumer'[s].mirror = consumer[s].mirror
              /\ consumer'[s].lost = consumer[s].lost
              /\ consumer'[s].on => consumer[s].on
              /\ consumer'[s].worker = "off" => consumer[s].worker = "off"
              /\ consumer'[s].sent = consumer[s].sent
              /\ consumer'[s].sending \in {None, consumer[s].sending, consumer[s].sent},
           control'.at = "done" /\ control'.command = "modes" =>
              control' = control \/ control'.reply = None
    PROVE  RestoreInv'
  <1>1. NothingAhead'
    BY DEF RestoreInv, NothingAhead, Known
  <1>2. NotBehind'
    <2>1. ASSUME NEW s \in Calls PROVE Own(s)' <=> Own(s)
      BY DEF Own
    <2> QED
      BY <2>1 DEF RestoreInv, NotBehind
  <1> QED
    BY <1>1, <1>2 DEF RestoreInv

\* Most of a call's steps.
LEMMA CallRestore ==
    ASSUME HolderInv, RecordInv, RestoreInv, Begun', NEW c \in Calls,
           \/ Prepare(c) \/ EnsureListed(c) \/ (\E s \in Calls : Take(c, s))
           \/ PrepareAnswered(c) \/ Connect(c) \/ Keep(c) \/ Receive(c) \/ TimeOut(c)
           \/ Listed(c) \/ AskModes(c) \/ ClaimFails(c) \/ Expire(c) \/ HelperReturns(c)
           \/ EndStream(c)
    PROVE  RestoreInv'
  <1>1. /\ UNCHANGED <<mirror, consumer>>
        /\ owner'.changes = owner.changes /\ owner'.retained = owner.retained
        /\ owner'.record = owner.record
    BY DEF RecordInv, TypeOK, OwnerTypeOK, Prepare, EnsureListed, Take, PrepareAnswered, Connect,
           Keep, Receive, TimeOut, Listed, AskModes, ClaimFails, Expire, HelperReturns, EndStream
  <1>2. \A s \in Calls : stream'[s].next = stream[s].next
    <2>1. CASE Connect(c) \/ ClaimFails(c) \/ Expire(c) \/ HelperReturns(c) \/ EndStream(c)
      BY <2>1 DEF HolderInv, Shape, Connect, ClaimFails, Expire, HelperReturns, EndStream, Drop
    <2>2. CASE \/ Prepare(c) \/ EnsureListed(c) \/ (\E s \in Calls : Take(c, s)) \/ Listed(c)
               \/ PrepareAnswered(c) \/ Keep(c) \/ Receive(c) \/ TimeOut(c) \/ AskModes(c)
      <3>1. UNCHANGED stream
        BY <2>2
        DEF Prepare, EnsureListed, Take, Listed, PrepareAnswered, Keep, Receive, TimeOut, AskModes
      <3> QED
        BY <3>1
    <2> QED
      BY <2>1, <2>2
  <1>3. control' = control \/ control'.at # "done"
    <2>1. CASE Prepare(c) \/ EnsureListed(c) \/ AskModes(c)
      BY <2>1 DEF Prepare, EnsureListed, AskModes, Request
    <2>2. CASE PrepareAnswered(c) \/ Listed(c)
      BY <2>2 DEF PrepareAnswered, Listed, Release, Unlocked
    <2>3. CASE \/ (\E s \in Calls : Take(c, s)) \/ Connect(c) \/ Keep(c) \/ Receive(c)
               \/ TimeOut(c) \/ ClaimFails(c) \/ Expire(c) \/ HelperReturns(c) \/ EndStream(c)
      <3>1. UNCHANGED client
        BY <2>3 DEF Take, Connect, Keep, Receive, TimeOut, ClaimFails, Expire, HelperReturns,
                    EndStream
      <3> QED
        BY <3>1 DEF client
    <2> QED
      BY <2>1, <2>2, <2>3
  <1> QED
    BY <1>1, <1>2, <1>3, Unread

\* The worker's steps, and the consumer's last.
LEMMA WorkerRestore ==
    ASSUME HolderInv, RecordInv, RestoreInv, Begun', NEW s \in Calls, Worker(s) \/ ConsumerEnds(s)
    PROVE  RestoreInv'
  <1>1. UNCHANGED <<mirror, owner>>
    BY DEF Worker, WorkerTakes, WorkerRequests, WorkerReturns, ConsumerEnds
  <1>2. ASSUME NEW d \in Calls PROVE stream'[d].next = stream[d].next
    BY DEF HolderInv, Shape, Worker, WorkerTakes, WorkerRequests, WorkerReturns, ConsumerEnds, Drop
  <1>3. control' = control \/ control'.at # "done"
    BY DEF client, Worker, WorkerTakes, WorkerRequests, WorkerReturns, ConsumerEnds, Request,
           Release, Unlocked
  <1>4. WorkerTakes(s) => consumer[s].queue[Len(consumer[s].queue)] = consumer[s].sent
    BY DEF RecordInv, Pending, WorkerTakes
  <1>5. ASSUME NEW d \in Calls
        PROVE  /\ consumer'[d].mirror = consumer[d].mirror
               /\ consumer'[d].lost = consumer[d].lost
               /\ consumer'[d].on => consumer[d].on
               /\ consumer'[d].worker = "off" => consumer[d].worker = "off"
               /\ consumer'[d].sent = consumer[d].sent
               /\ consumer'[d].sending \in {None, consumer[d].sending, consumer[d].sent}
    BY <1>4 DEF HolderInv, Shape, Idle, Worker, WorkerTakes, WorkerRequests, WorkerReturns,
                ConsumerEnds
  <1> QED
    BY <1>1, <1>2, <1>3, <1>5, Unread

\* A stream that is opened begins at the first change the owner retains; nobody consumes it.
LEMMA OpenRestore ==
    ASSUME HolderInv, RestoreInv, Begun', NEW s \in Calls, Observe(s) \/ Open(s)
    PROVE  RestoreInv'
  <1>1. UNCHANGED <<control, owner, mirror, consumer>> /\ ~consumer[s].on
    <2>1. Observe(s) => ~consumer[s].on
      BY DEF HolderInv, OnePlace, Placed, Phases, Live, Consumed, At, Observe
    <2> QED
      BY <2>1 DEF RestoreInv, Begun, Observe, Open, client
  <1>2. ASSUME NEW d \in Calls
        PROVE  \/ stream'[d].next = stream[d].next
               \/ d = s /\ stream'[d].next = owner.retained
    BY DEF HolderInv, Shape, Observe, Open
  <1>3. NothingAhead'
    BY <1>1, <1>2 DEF RestoreInv, NothingAhead, Known
  <1>4. NotBehind'
    <2>1. ASSUME NEW d \in Calls PROVE Own(d)' <=> Own(d)
      BY <1>1 DEF Own
    <2> QED
      BY <1>1, <1>2, <2>1 DEF RestoreInv, NotBehind
  <1> QED
    BY <1>3, <1>4 DEF RestoreInv

\* The owner's steps: a reply of the record is of what is known, and what happens is more.
LEMMA OwnerRestore ==
    ASSUME HolderInv, RecordInv, RestoreInv, Begun', Exchange \/ Emit
    PROVE  RestoreInv'
  <1>1. UNCHANGED <<call, stream, prepared, timers, helper, consumer, mirror, registered>>
    BY DEF Exchange, Serve, Emit, observers
  <1>2. /\ owner.changes \in Nat /\ owner'.changes \in Nat /\ owner.retained \in Nat
        /\ owner.changes <= owner'.changes /\ owner'.retained <= owner'.changes + 1
        /\ owner'.retained \in Nat
        /\ \/ owner'.record = owner.record
           \/ control.command = "record" /\ owner'.record = consumer[control.by[1]].sending
    <2>1. CASE Exchange
      <3>1. /\ owner.changes \in Nat /\ owner.retained \in Nat
            /\ owner.retained <= owner.changes + 1
        BY ChangesAssumption
        DEF RestoreInv, NothingAhead, RecordInv, TypeOK, OwnerTypeOK, Change
      <3>2. /\ owner'.changes = owner.changes /\ owner'.retained = owner.retained
            /\ \/ owner'.record = owner.record
               \/ control.command = "record"
                    /\ owner'.record = consumer[control.by[1]].sending
        <4>1. owner' = Effect \/ owner' = owner
          BY <2>1 DEF Exchange, Serve, observers
        <4>2. CASE control.command = "prepare"
          BY <4>1, <4>2 DEF RecordInv, TypeOK, OwnerTypeOK, Effect
        <4>3. CASE control.command = "record"
          BY <4>1, <4>3 DEF RecordInv, TypeOK, OwnerTypeOK, Effect
        <4>4. CASE control.command \notin {"prepare", "record"}
          BY <4>1, <4>4 DEF Effect
        <4> QED
          BY <4>2, <4>3, <4>4
      <3> QED
        BY <3>1, <3>2
    <2>2. CASE Emit
      BY <2>2, ChangesAssumption
      DEF RestoreInv, NothingAhead, RecordInv, TypeOK, OwnerTypeOK, Change, Emit
    <2> QED
      BY <2>1, <2>2
  <1>3. ASSUME NEW r, r \in Report, Known(r) PROVE Known(r)'
    BY <1>2, <1>3, ChangesAssumption DEF Known, Report, Change
  <1>4. owner'.record # owner.record =>
            \E s \in Calls : owner'.record = consumer[s].sending
    <2>1. owner'.record # owner.record => control.at = "sent" /\ control.command = "record"
      BY <1>2 DEF RecordInv, TypeOK, OwnerTypeOK, Exchange, Serve, Emit, observers
    <2>2. control.at = "sent" /\ control.command = "record" => control.by[1] \in Calls
      BY DEF RecordInv, Bound
    <2> QED
      BY <1>2, <2>1, <2>2
  <1>5. Known(owner.record)' /\ owner.record \in Report /\ owner'.record \in Report
    BY <1>3, <1>4
    DEF RestoreInv, NothingAhead, RecordInv, TypeOK, OwnerTypeOK, ConsumerTypeOK, Known
  <1>6. control'.at = "done" /\ control'.command = "modes" => Known(control.reply)'
    <2>1. CASE Serve
      <3>1. /\ control'.command = control.command /\ owner' = Effect
            /\ control'.at = "done" => control'.reply \in Replies
        BY <2>1 DEF RecordInv, TypeOK, ClientTypeOK, Serve, Served, ServedInVain
      <3>2. control.command = "modes" => Replies = {owner.record} /\ Effect = owner
        BY DEF Replies, Effect
      <3> QED
        BY <3>1, <3>2 DEF RestoreInv, NothingAhead, Known
    <2>2. CASE (Connection \/ UNCHANGED client) /\ ~Serve
      <3>1. control'.at = "done" => control' = control \/ control'.reply = None
        BY <2>2 DEF RecordInv, TypeOK, ClientTypeOK, Bound, client, Connection, Refused,
                    EndConnection, Reconnect, GiveUp
      <3>2. control.at = "done" /\ control.command = "modes" =>
                control.reply \in Report /\ Known(control.reply)
        BY DEF RestoreInv, NothingAhead, RecordInv, Bound
      <3> QED
        BY <1>3, <3>1, <3>2 DEF Known
    <2> QED
      BY <2>1, <2>2 DEF Exchange, Emit
  <1>7. NothingAhead'
    <2>1. ASSUME NEW s \in Calls
          PROVE  /\ stream'[s].next <= owner'.changes + 1
                 /\ mirror'[s] <= owner'.changes
                 /\ Known(consumer[s].sent)' /\ Known(consumer[s].sending)'
      <3>1. /\ stream[s].next \in Nat /\ mirror[s] \in Nat
            /\ consumer[s].sent \in Report /\ consumer[s].sending \in Report
        BY ChangesAssumption
        DEF RecordInv, TypeOK, StreamTypeOK, MirrorTypeOK, ConsumerTypeOK, Change
      <3> QED
        BY <1>1, <1>2, <1>3, <3>1 DEF RestoreInv, NothingAhead, Known
    <2> QED
      BY <1>2, <1>5, <1>6, <2>1 DEF NothingAhead
  <1>8. NotBehind'
    BY <1>1 DEF RestoreInv, NotBehind, Own
  <1> QED
    BY <1>7, <1>8 DEF RestoreInv

\* A change that is drawn is the one the stream has come to.
LEMMA ConsumeRestore ==
    ASSUME HolderInv, RecordInv, RestoreInv, Begun', NEW s \in Calls, Consume(s)
    PROVE  RestoreInv'
  <1> DEFINE m == consumer[s].mirror
  <1>1. /\ consumer[s].on /\ m \in Calls /\ UNCHANGED <<control, owner>>
        /\ mirror \in [Calls -> Change] /\ owner.changes \in Change
        /\ \A d \in Calls : stream[d].next \in Nat
    BY ChangesAssumption
    DEF RecordInv, TypeOK, MirrorTypeOK, StreamTypeOK, OwnerTypeOK, Worked, Consume, client
  <1>2. \/ /\ stream[s].next <= owner.changes
           /\ mirror'[m] = stream[s].next /\ stream'[s].next = stream[s].next + 1
        \/ mirror'[m] = mirror[m] /\ stream'[s].next = stream[s].next
    BY <1>1 DEF HolderInv, Shape, Consume
  <1>3. ASSUME NEW d \in Calls
        PROVE  /\ d # m => mirror'[d] = mirror[d]
               /\ d # s => stream'[d].next = stream[d].next
    BY <1>1 DEF HolderInv, Shape, Consume
  <1>4. ASSUME NEW d \in Calls
        PROVE  /\ consumer'[d].mirror = consumer[d].mirror
               /\ consumer'[d].lost = consumer[d].lost /\ consumer'[d].on = consumer[d].on
               /\ consumer'[d].worker = consumer[d].worker
               /\ consumer'[d].sent \in {consumer[d].sent, mirror'[m]}
               /\ consumer'[d].sending = consumer[d].sending
    BY DEF HolderInv, Shape, Idle, Consume, Reported
  <1>5. mirror'[m] <= owner.changes
    BY <1>1, <1>2 DEF RestoreInv, NothingAhead
  <1>6. NothingAhead'
    BY <1>1, <1>2, <1>3, <1>4, <1>5, ChangesAssumption
    DEF RestoreInv, NothingAhead, Known, Change
  <1>7. NotBehind'
    <2>1. ASSUME NEW d \in Calls PROVE Own(d)' <=> Own(d)
      BY <1>4 DEF Own
    <2>2. ASSUME NEW d \in Calls, consumer[d].on, ~consumer[d].lost, Own(d)
          PROVE  stream'[d].next - 1 <= mirror'[consumer[d].mirror]
      <3>1. stream[d].next - 1 <= mirror[consumer[d].mirror] /\ consumer[d].mirror \in Calls
        BY <2>2 DEF RestoreInv, NotBehind, RecordInv, Worked
      <3>2. CASE d = s
        BY <1>1, <1>2, <3>1, <3>2
      <3>3. CASE d # s
        BY <1>3, <2>2, <3>1, <3>3 DEF Own
      <3> QED
        BY <3>2, <3>3
    <2> QED
      BY <1>4, <2>1, <2>2 DEF RestoreInv, NotBehind
  <1> QED
    BY <1>6, <1>7 DEF RestoreInv

\* The recorded modes, read after the stream was opened, are no less than what the replay
\* leaves out, or the consumer knows that they are lost.
LEMMA SubscribedRestore ==
    ASSUME HolderInv, RecordInv, RestoreInv, Begun', NEW c \in Calls, Subscribed(c)
    PROVE  RestoreInv'
  <1> DEFINE s == call[c].stream
             of == MirrorOf(c)
             lost == Restored < stream[s].next - 1
  <1>1. /\ control'.at = "free" /\ control.at = "done" /\ control.by = <<c, "call">>
        /\ UNCHANGED <<owner, stream>>
        /\ mirror' = [mirror EXCEPT ![of] = Restored]
    BY DEF Subscribed, Done, Release, Unlocked
  <1>2. s \in Calls /\ of \in Calls /\ consumer[s].worker = "off" /\ consumer[s].mirror = None
    <2>1. Live(s) /\ ~Consumed(s) /\ s \in Calls
      BY DEF HolderInv, Shape, OnePlace, Placed, Has, Uses, Subscribed, At
    <2>2. consumer[s].worker = "off"
      BY <2>1 DEF RecordInv, Worked, Live, Consumed
    <2> QED
      BY <2>1, <2>2 DEF RecordInv, TypeOK, MirrorTypeOK, MirrorOf, RestoreInv, NotBehind
  <1>3. Restored \in Nat /\ Restored <= owner.changes /\ stream[s].next \in Nat
    <2>1. control.command = "modes"
      BY <1>1 DEF RecordInv, Bound, Subscribed, At
    <2>2. /\ control.reply \in Report /\ Known(control.reply)
          /\ owner.changes \in Nat /\ stream[s].next \in Nat
      BY <1>1, <1>2, <2>1, ChangesAssumption
      DEF RecordInv, Bound, RestoreInv, NothingAhead, TypeOK, OwnerTypeOK, StreamTypeOK, Change
    <2> QED
      BY <2>2, ChangesAssumption DEF Restored, Known, Report, Change
  <1>4. /\ mirror'[of] = Restored /\ \A m \in Calls \ {of} : mirror'[m] = mirror[m]
    BY <1>1, <1>2 DEF RecordInv, TypeOK, MirrorTypeOK
  <1>5. /\ consumer'[s].on /\ consumer'[s].worker = "idle" /\ consumer'[s].mirror = of
        /\ consumer'[s].lost = lost /\ consumer'[s].sent = None /\ consumer'[s].sending = None
        /\ \A d \in Calls \ {s} : consumer'[d] = consumer[d]
    BY <1>2 DEF HolderInv, Shape, Subscribed, Started, Idle
  <1> HIDE DEF s, of
  <1>6. NothingAhead'
    BY <1>1, <1>2, <1>3, <1>4, <1>5 DEF RestoreInv, NothingAhead, Known
  <1>7. NotBehind'
    <2>1. ~lost => stream'[s].next - 1 <= mirror'[of]
      BY <1>1, <1>3, <1>4
    <2>2. ASSUME NEW d \in Calls, d # s, consumer[d].on, ~consumer[d].lost, Own(d)'
          PROVE  stream'[d].next - 1 <= mirror'[consumer[d].mirror]
      <3>1. consumer[d].mirror \in Calls
        BY <2>2 DEF RecordInv, Worked
      <3>2. Own(d)
        BY <1>2, <1>5, <2>2, <3>1, ClientAssumption DEF Own
      <3>3. consumer[d].mirror # of
        BY <1>2, <1>5, <2>2 DEF Own
      <3>4. stream[d].next - 1 <= mirror[consumer[d].mirror]
        BY <2>2, <3>2 DEF RestoreInv, NotBehind
      <3> QED
        BY <1>1, <1>4, <3>1, <3>3, <3>4
    <2> HIDE DEF lost
    <2> QED
      BY <1>5, <2>1, <2>2 DEF RestoreInv, NotBehind
  <1> QED
    BY <1>6, <1>7 DEF RestoreInv

\* Every step.
LEMMA NextRestore == HolderInv /\ RecordInv /\ RestoreInv /\ [Next]_vars => RestoreInv'
  <1> SUFFICES ASSUME HolderInv, RecordInv, RestoreInv, [Next]_vars PROVE RestoreInv'
    OBVIOUS
  <1>1. Begun'
    BY NextBegun DEF RestoreInv
  <1>2. CASE UNCHANGED vars
    BY <1>1, <1>2, Unread DEF vars, client, observers
  <1>3. CASE Exchange \/ Emit
    BY <1>1, <1>3, OwnerRestore
  <1>4. ASSUME NEW c \in Calls, Start(c) \/ Step(c) \/ Expire(c) \/ HelperReturns(c)
        PROVE  RestoreInv'
    <2>1. CASE Subscribed(c) \/ Observe(c)
      BY <1>1, <2>1, SubscribedRestore, OpenRestore
    <2>2. CASE ~Subscribed(c) /\ ~Observe(c)
      BY <1>1, <1>4, <2>2, CallRestore DEF Start, Step
    <2> QED
      BY <2>1, <2>2
  <1>5. ASSUME NEW s \in Calls,
               Consume(s) \/ ConsumerEnds(s) \/ Worker(s) \/ Open(s) \/ EndStream(s)
        PROVE  RestoreInv'
    BY <1>1, <1>5, ConsumeRestore, WorkerRestore, OpenRestore, CallRestore
  <1> QED
    BY <1>2, <1>3, <1>4, <1>5 DEF Next

--------------------------------------------------------------------------------
\* The three invariants together: the record's needs to know who has a stream, and what a
\* mirror shows, what was recorded.
LEMMA RecordInvariance == Spec => [](HolderInv /\ RecordInv /\ RestoreInv)
  <1>1. Init => HolderInv /\ RecordInv /\ RestoreInv
    BY InitHolder, InitRecord, InitRestore
  <1>2. HolderInv /\ RecordInv /\ RestoreInv /\ [Next]_vars => (HolderInv /\ RecordInv /\ RestoreInv)'
    BY NextHolder, NextRecord, NextRestore
  <1> QED
    BY <1>1, <1>2, PTL DEF Spec

\* Every variable of the client and of the observers keeps its type: in particular a request
\* is served at most twice, and never a third time.
THEOREM TypeCorrect == Spec => []TypeOK
  <1>1. RecordInv => TypeOK
    BY DEF RecordInv
  <1> QED
    BY <1>1, RecordInvariance, PTL

\* A mode worker that rests after a request that got through has left its consumer's latest
\* report on record (start_mode_worker of src/src/runtime.rs, over ControlClient::request),
\* unless another stream's worker has written since.
THEOREM NewestIsRecorded == Spec => []RecordIsNewest
  <1>1. RecordInv => RecordIsNewest
    BY DEF RecordInv, Pending, RecordIsNewest
  <1> QED
    BY <1>1, RecordInvariance, PTL

\* A mirror of one consumer's own that has drawn everything is in the session's modes, unless
\* they were in neither the replay nor the record (recorded_modes and subscribe of
\* src/src/runtime.rs).
THEOREM RestoredAsRecorded == Spec => []ModesAreRestored
  <1>1. HolderInv /\ RecordInv /\ RestoreInv => ModesAreRestored
    <2> SUFFICES ASSUME HolderInv, RecordInv, RestoreInv, NEW s \in Calls,
                        consumer[s].on, ~consumer[s].lost, stream[s].next > owner.changes, Own(s)
                 PROVE  mirror[consumer[s].mirror] = owner.changes
      BY DEF ModesAreRestored, Own
    <2>1. /\ consumer[s].mirror \in Calls /\ mirror[consumer[s].mirror] \in Nat
          /\ owner.changes \in Nat /\ stream[s].next \in Nat
      BY ChangesAssumption
      DEF RecordInv, Worked, TypeOK, MirrorTypeOK, OwnerTypeOK, StreamTypeOK, Change
    <2>2. /\ stream[s].next - 1 <= mirror[consumer[s].mirror]
          /\ mirror[consumer[s].mirror] <= owner.changes
      BY <2>1 DEF RestoreInv, NotBehind, NothingAhead
    <2> QED
      BY <2>1, <2>2
  <1> QED
    BY <1>1, RecordInvariance, PTL

--------------------------------------------------------------------------------
\* What the owner prepared for nobody.

\* Calls that have a token to connect with, or had and failed.
Unconnected ==
    {c \in Calls : At(c, "connect") \/ (At(c, "failed") /\ call[c].op = "prepare")}

\* A token on its way to the call that asked for it.
Coming == IF control.at = "done" /\ control.command = "prepare" THEN 1 ELSE 0

\* Who asks for an observer, and no other, has asked to prepare.
Asked ==
    \A c \in Calls :
        /\ At(c, "asking") => (call[c].op = "prepare" <=> control.command = "prepare")
        /\ At(c, "connect") => call[c].op = "prepare"

\* A token left over by an ended connection is paid for at once; the one that the call gets
\* is paid for as long as it comes, and then by the call.
Paid ==
    /\ IsFiniteSet(owner.tokens) /\ IsFiniteSet(Unconnected)
    /\ Cardinality(owner.tokens) <= ends + Cardinality(Unconnected) + Coming

PaidInv == Asked /\ Paid

LEMMA InitPaid == Init => PaidInv
  <1> SUFFICES ASSUME Init PROVE PaidInv
    OBVIOUS
  <1>1. /\ owner.tokens = {} /\ ends = 0 /\ control.at = "free"
        /\ \A c \in Calls : call[c].at = "new"
    BY DEF Init, ClientInit, Unlocked
  <1>2. Unconnected = {} /\ Coming = 0
    BY <1>1 DEF Unconnected, Coming, At
  <1> QED
    BY <1>1, <1>2, FS_EmptySet DEF PaidInv, Asked, Paid, At

\* No call gives up what pays, and what comes or is gone for good is accounted for.
LEMMA PaidKept ==
    ASSUME Paid, NEW c \in Calls, owner'.tokens = owner.tokens,
           Unconnected \subseteq Unconnected', Unconnected' \subseteq Unconnected \cup {c},
           ends \in Nat, ends' \in Nat, ends + Coming <= ends' + Coming'
    PROVE  Paid'
  <1>1. IsFiniteSet(Unconnected \cup {c})
    BY FS_AddElement DEF Paid
  <1>2. IsFiniteSet(Unconnected')
    BY <1>1, FS_Subset
  <1>3. Cardinality(Unconnected) <= Cardinality(Unconnected')
    BY <1>2, FS_Subset
  <1>4. /\ Cardinality(Unconnected) \in Nat /\ Cardinality(Unconnected') \in Nat
        /\ Cardinality(owner.tokens) \in Nat
    BY <1>2, FS_CardinalityType DEF Paid
  <1>5. Coming \in Nat /\ Coming' \in Nat
    BY DEF Coming
  <1> QED
    BY <1>2, <1>3, <1>4, <1>5 DEF Paid

\* The call that asked gets the token, or a refusal.
LEMMA AnswerPaid ==
    ASSUME HolderInv, RecordInv, PaidInv, NEW c \in Calls, PrepareAnswered(c) PROVE Paid'
  <1>1. /\ owner' = owner /\ ends' = ends /\ At(c, "asking")
        /\ control' = Unlocked /\ call[c].op = "prepare"
        /\ \A d \in Calls \ {c} : call'[d] = call[d]
    BY DEF HolderInv, Shape, PrepareAnswered, Release
  <1>2. call'[c].at \in {"connect", "failed"} /\ call'[c].op = "prepare"
    BY <1>1 DEF RecordInv, TypeOK, CallTypeOK, PrepareAnswered
  <1>3. Unconnected' = Unconnected \cup {c} /\ c \notin Unconnected
    BY <1>1, <1>2 DEF Unconnected, At
  <1>4. /\ IsFiniteSet(Unconnected')
        /\ Cardinality(Unconnected') = Cardinality(Unconnected) + 1
    BY <1>3, FS_AddElement DEF PaidInv, Paid
  <1>5. Coming' = 0 /\ Coming \in 0..1
    BY <1>1 DEF Coming, Unlocked
  <1>6. /\ Cardinality(Unconnected) \in Nat /\ Cardinality(owner.tokens) \in Nat /\ ends \in Nat
    BY FS_CardinalityType DEF PaidInv, Paid, RecordInv, TypeOK, ClientTypeOK
  <1> QED
    BY <1>1, <1>4, <1>5, <1>6 DEF PaidInv, Paid

\* A token that is used is the owner's no longer.
LEMMA ConnectPaid ==
    ASSUME HolderInv, RecordInv, PaidInv, NEW c \in Calls, Connect(c) PROVE Paid'
  <1>1. /\ UNCHANGED <<ends, control>> /\ At(c, "connect")
        /\ \A d \in Calls \ {c} : call'[d] = call[d]
        /\ call'[c].op = call[c].op
    BY DEF HolderInv, Shape, Connect, Goto, client
  <1>2. ends \in Nat /\ Coming' = Coming /\ Coming \in 0..1
    BY <1>1 DEF Coming, RecordInv, TypeOK, ClientTypeOK
  <1>3. CASE call'[c].at = "failed" /\ UNCHANGED owner
    <2>1. Unconnected' = Unconnected
      BY <1>1, <1>3 DEF Unconnected, At, PaidInv, Asked
    <2> QED
      BY <1>1, <1>2, <1>3, <2>1 DEF PaidInv, Paid
  <1>4. CASE /\ call'[c].at = "keep" /\ call[c].token \in owner.tokens
             /\ owner'.tokens = owner.tokens \ {call[c].token}
    <2>1. Unconnected' = Unconnected \ {c} /\ c \in Unconnected
      BY <1>1, <1>4 DEF Unconnected, At
    <2>2. /\ IsFiniteSet(Unconnected')
          /\ Cardinality(Unconnected') = Cardinality(Unconnected) - 1
      BY <2>1, FS_RemoveElement DEF PaidInv, Paid
    <2>3. /\ IsFiniteSet(owner'.tokens)
          /\ Cardinality(owner'.tokens) = Cardinality(owner.tokens) - 1
      BY <1>4, FS_RemoveElement DEF PaidInv, Paid
    <2>4. Cardinality(Unconnected) \in Nat /\ Cardinality(owner.tokens) \in Nat
      BY FS_CardinalityType DEF PaidInv, Paid
    <2> QED
      BY <1>1, <1>2, <2>2, <2>3, <2>4 DEF PaidInv, Paid
  <1>5. \/ call'[c].at = "failed" /\ UNCHANGED owner
        \/ /\ call'[c].at = "keep" /\ call[c].token \in owner.tokens
           /\ owner'.tokens = owner.tokens \ {call[c].token}
    BY DEF HolderInv, Shape, RecordInv, TypeOK, OwnerTypeOK, Connect, Goto
  <1> QED
    BY <1>3, <1>4, <1>5

\* A token that is made is on its way, or an end of the connection pays for it.
LEMMA ServePaid ==
    ASSUME HolderInv, RecordInv, PaidInv, Serve PROVE Paid'
  <1>1. UNCHANGED call /\ control.at = "sent" /\ Coming = 0
    BY DEF Serve, Coming
  <1>2. Unconnected' = Unconnected
    BY <1>1 DEF Unconnected, At
  <1>3. /\ control'.command = control.command
        /\ \/ control'.at = "done" /\ ends' = ends
           \/ control'.at = "ended" /\ ends' = ends + 1
    BY DEF Serve, Served, ServedInVain, RecordInv, TypeOK, ClientTypeOK
  <1>4. ends \in Nat /\ ends' \in Nat
    BY <1>3 DEF RecordInv, TypeOK, ClientTypeOK
  <1>5. /\ IsFiniteSet(owner.tokens) /\ IsFiniteSet(Unconnected)
        /\ Cardinality(owner.tokens) \in Nat /\ Cardinality(Unconnected) \in Nat
        /\ Cardinality(owner.tokens) <= ends + Cardinality(Unconnected)
    BY <1>1, <1>4, FS_CardinalityType DEF PaidInv, Paid
  <1>6. CASE control.command = "prepare"
    <2>1. owner'.tokens = owner.tokens \cup {owner.issued + 1}
      BY <1>6 DEF Serve, Effect, RecordInv, TypeOK, OwnerTypeOK
    <2>2. /\ IsFiniteSet(owner'.tokens)
          /\ Cardinality(owner'.tokens) \in Nat
          /\ Cardinality(owner'.tokens) <= Cardinality(owner.tokens) + 1
      <3> DEFINE token == owner.issued + 1
      <3>1. owner'.tokens = owner.tokens \cup {token}
        BY <2>1
      <3> HIDE DEF token
      <3>2. /\ IsFiniteSet(owner.tokens \cup {token})
            /\ Cardinality(owner.tokens \cup {token})
                  \in {Cardinality(owner.tokens), Cardinality(owner.tokens) + 1}
        BY <1>5, FS_AddElement
      <3> QED
        BY <1>5, <3>1, <3>2
    <2>3. Cardinality(owner'.tokens) <= ends + Cardinality(Unconnected) + 1
      BY <1>4, <1>5, <2>2
    <2>4. CASE control'.at = "done" /\ ends' = ends
      <3>1. Coming' = 1
        BY <1>3, <1>6, <2>4 DEF Coming
      <3> QED
        BY <1>2, <1>5, <2>2, <2>3, <2>4, <3>1 DEF Paid
    <2>5. CASE control'.at = "ended" /\ ends' = ends + 1
      <3>1. Coming' = 0
        BY <2>5 DEF Coming
      <3>2. Cardinality(owner'.tokens) <= ends' + Cardinality(Unconnected) + 0
        BY <1>4, <1>5, <2>2, <2>3, <2>5
      <3> QED
        BY <1>2, <1>5, <2>2, <3>1, <3>2 DEF Paid
    <2> QED
      BY <1>3, <2>4, <2>5
  <1>7. CASE control.command # "prepare"
    <2>1. owner'.tokens = owner.tokens
      BY <1>7 DEF Serve, Effect, RecordInv, TypeOK, OwnerTypeOK
    <2>2. Coming' = 0
      BY <1>3, <1>7 DEF Coming
    <2> QED
      BY <1>2, <1>3, <1>4, <1>5, <2>1, <2>2 DEF Paid
  <1> QED
    BY <1>6, <1>7

\* Every other step keeps the tokens, and what pays for them.
LEMMA QuietPaid ==
    ASSUME RecordInv, PaidInv, NEW c \in Calls, owner'.tokens = owner.tokens, ends' = ends,
           Coming' = Coming,
           \A d \in Calls : call'[d].op = call[d].op \/ At(d, "new"),
           \A d \in Calls : \/ call'[d].at = call[d].at
                           \/ (d = c /\ call[c].at \notin {"connect", "failed"})
    PROVE  Paid'
  <1>1. Unconnected \subseteq Unconnected' /\ Unconnected' \subseteq Unconnected \cup {c}
    BY DEF Unconnected, At
  <1>2. ends \in Nat /\ Coming \in 0..1
    BY DEF Coming, RecordInv, TypeOK, ClientTypeOK
  <1> QED
    BY <1>1, <1>2, PaidKept DEF PaidInv

\* Calls and requests that do not change leave what was asked.
LEMMA AskedKept ==
    ASSUME Asked, NEW c \in Calls,
           \A d \in Calls \ {c} : call'[d].op = call[d].op /\ call'[d].at = call[d].at,
           \A d \in Calls \ {c} : At(d, "asking") => control'.command = control.command,
           At(c, "asking")' => (call'[c].op = "prepare" <=> control'.command = "prepare"),
           At(c, "connect")' => call'[c].op = "prepare"
    PROVE  Asked'
  BY DEF Asked, At

\* A request is made when nobody asks, and comes to its end with the call that made it.
LEMMA CallAsked ==
    ASSUME HolderInv, RecordInv, Asked, NEW c \in Calls, Start(c) \/ Step(c)
    PROVE  Asked'
  <1>0. /\ call \in [Calls -> [op: {"prepare", "token", "listed", None},
                               at: {"new", "asking", "connect", "keep", "prepared", "wait",
                                    "claim", "observe", "modes", "answered", "failed"},
                               token: Nat \cup {None}, stream: Calls]]
        /\ \A d \in Calls : At(d, "asking") => control.at # "free" /\ control.by = <<d, "call">>
    BY DEF RecordInv, TypeOK, CallTypeOK, Bound, At
  <1>1. \A d \in Calls \ {c} : call'[d].op = call[d].op /\ call'[d].at = call[d].at
    BY <1>0 DEF Start, Prepare, EnsureListed, Take, Starts, Step, PrepareAnswered, Connect, Keep,
                Receive, TimeOut, Listed, Observe, AskModes, ClaimFails, Subscribed, Goto
  <1>2. ASSUME NEW d \in Calls \ {c}, At(d, "asking") PROVE control' = control
    <2>1. control.at # "free" /\ control.by # <<c, "call">>
      BY <1>0, <1>2
    <2> QED
      BY <2>1 DEF Start, Prepare, EnsureListed, Take, Step, PrepareAnswered, Connect, Keep,
                  Receive, TimeOut, Listed, Observe, AskModes, ClaimFails, Subscribed, Request,
                  Done, client
  <1>3. /\ At(c, "asking")' => (call'[c].op = "prepare" <=> control'.command = "prepare")
        /\ At(c, "connect")' => call'[c].op = "prepare"
    <2>1. CASE Prepare(c)
      BY <1>0, <2>1 DEF Prepare, Starts, Request, At
    <2>2. CASE EnsureListed(c)
      BY <1>0, <2>2 DEF EnsureListed, Starts, Request, At
    <2>3. ASSUME NEW s \in Calls, Take(c, s) PROVE call'[c].at \in {"wait", "failed"}
      <3> DEFINE taken == [call[c] EXCEPT !.op = "token", !.at = "wait", !.stream = s]
                 refused == [call[c] EXCEPT !.op = "token", !.at = "failed"]
      <3>1. taken.at = "wait" /\ refused.at = "failed"
        BY <1>0
      <3>2. call' = [call EXCEPT ![c] = taken] \/ call' = [call EXCEPT ![c] = refused]
        BY <2>3 DEF Take
      <3> HIDE DEF taken, refused
      <3> QED
        BY <1>0, <3>1, <3>2
    <2>4. CASE PrepareAnswered(c)
      BY <1>0, <2>4 DEF PrepareAnswered, At
    <2>5. CASE Step(c) /\ ~PrepareAnswered(c)
      BY <1>0, <2>5 DEF Step, Connect, Keep, Receive, TimeOut, Listed, Observe, AskModes,
                        ClaimFails, Subscribed, Goto, At
    <2> QED
      BY <2>1, <2>2, <2>3, <2>4, <2>5 DEF Start, At
  <1> QED
    BY <1>1, <1>2, <1>3, AskedKept

\* Everyone else asks nothing of the sort.
LEMMA OthersAsked ==
    ASSUME HolderInv, RecordInv, Asked, [Next]_vars,
           ~\E c \in Calls : Start(c) \/ Step(c)
    PROVE  Asked' /\ UNCHANGED call
  <1>1. /\ \A d \in Calls : At(d, "asking") => control.at # "free" /\ control.by = <<d, "call">>
        /\ control \in [by: Thread \cup {None},
                        command: {"prepare", "sessions", "modes", "record", None},
                        attempt: 1..2, at: {"free", "sent", "ended", "done"},
                        reply: Nat \cup {None}]
    BY DEF RecordInv, TypeOK, ClientTypeOK, Bound, At
  <1>2. UNCHANGED call
    BY DEF Next, Exchange, Serve, Emit, Expire, HelperReturns, Consume, ConsumerEnds, Worker,
           WorkerTakes, WorkerRequests, WorkerReturns, Open, EndStream, observers, vars
  <1>3. ASSUME NEW s \in Calls, Worker(s), NEW d \in Calls, At(d, "asking")
        PROVE  control' = control
    <2>1. control.at # "free" /\ control.by # <<s, "worker">>
      BY <1>1, <1>3
    <2> QED
      BY <1>3, <2>1 DEF Worker, WorkerTakes, WorkerRequests, WorkerReturns, Request, Done, client
  <1>6. ASSUME NEW d \in Calls, At(d, "asking") PROVE control'.command = control.command
    <2>1. CASE Serve
      BY <1>1, <2>1 DEF Serve, Served, ServedInVain
    <2>2. CASE Connection
      BY <1>1, <2>2 DEF Connection, Refused, EndConnection, Reconnect, GiveUp
    <2>3. CASE ~Serve /\ ~Connection /\ ~\E s \in Calls : Worker(s)
      BY <2>3 DEF Next, Exchange, Emit, Expire, HelperReturns, Consume, ConsumerEnds, Open,
                  EndStream, client, vars
    <2> QED
      BY <1>3, <1>6, <2>1, <2>2, <2>3
  <1> QED
    BY <1>2, <1>6 DEF Asked, At

\* What a call gives up when it goes on pays for nothing: at most the mutex.
LEMMA CallPaid ==
    ASSUME HolderInv, RecordInv, PaidInv, NEW c \in Calls, Start(c) \/ Step(c)
    PROVE  Paid'
  <1>0. /\ call \in [Calls -> [op: {"prepare", "token", "listed", None},
                               at: {"new", "asking", "connect", "keep", "prepared", "wait",
                                    "claim", "observe", "modes", "answered", "failed"},
                               token: Nat \cup {None}, stream: Calls]]
        /\ \A d \in Calls : At(d, "asking") => control.by = <<d, "call">>
        /\ At(c, "modes") /\ control.at = "done" => control.command = "modes"
    BY DEF RecordInv, TypeOK, CallTypeOK, Bound, At
  <1>1. CASE PrepareAnswered(c) \/ Connect(c)
    BY <1>1, AnswerPaid, ConnectPaid
  <1>2. CASE (Start(c) \/ Step(c)) /\ ~PrepareAnswered(c) /\ ~Connect(c)
    <2>1. owner' = owner /\ ends' = ends
      BY <1>2 DEF Start, Prepare, EnsureListed, Take, Step, Keep, Receive, TimeOut, Listed,
                  Observe, AskModes, ClaimFails, Subscribed, Request, Release, client
    <2>2. Coming' = Coming
      <3>1. CASE Prepare(c) \/ EnsureListed(c) \/ AskModes(c)
        BY <3>1 DEF Prepare, EnsureListed, AskModes, Request, Coming
      <3>2. CASE Listed(c)
        <4>1. control.command # "prepare"
          BY <3>2 DEF Listed, PaidInv, Asked
        <4> QED
          BY <3>2, <4>1 DEF Listed, Release, Unlocked, Coming
      <3>3. CASE Subscribed(c)
        <4>1. control.command # "prepare"
          BY <1>0, <3>3 DEF Subscribed, Done
        <4> QED
          BY <3>3, <4>1 DEF Subscribed, Release, Unlocked, Coming
      <3>4. CASE \/ Keep(c) \/ Receive(c) \/ TimeOut(c) \/ Observe(c) \/ ClaimFails(c)
                 \/ \E s \in Calls : Take(c, s)
        BY <3>4 DEF Keep, Receive, TimeOut, Observe, ClaimFails, Take, client, Coming
      <3> QED
        BY <1>2, <3>1, <3>2, <3>3, <3>4 DEF Start, Step
    <2>3. /\ call[c].at \notin {"connect", "failed"}
          /\ \A d \in Calls \ {c} : call'[d] = call[d]
          /\ At(c, "new") \/ call'[c].op = call[c].op
      <3>1. CASE Prepare(c) \/ EnsureListed(c)
        BY <1>0, <3>1 DEF Prepare, EnsureListed, Starts, At
      <3>2. ASSUME NEW s \in Calls, Take(c, s)
            PROVE  At(c, "new") /\ \A d \in Calls \ {c} : call'[d] = call[d]
        BY <1>0, <3>2 DEF Take
      <3>3. CASE \/ Keep(c) \/ Receive(c) \/ TimeOut(c) \/ Listed(c) \/ Observe(c)
                 \/ AskModes(c) \/ ClaimFails(c) \/ Subscribed(c)
        <4>1. \E point \in {"prepared", "claim", "failed", "answered", "observe", "modes"} :
                  Goto(c, point)
          BY <3>3 DEF Keep, Receive, TimeOut, Listed, Observe, AskModes, ClaimFails, Subscribed
        <4>2. call[c].at \notin {"connect", "failed"}
          BY <3>3 DEF Keep, Receive, TimeOut, Listed, Observe, AskModes, ClaimFails,
                      Subscribed, At
        <4> QED
          BY <1>0, <4>1, <4>2 DEF Goto
      <3> QED
        BY <1>2, <3>1, <3>2, <3>3 DEF Start, Step, At
    <2> QED
      BY <2>1, <2>2, <2>3, QuietPaid
  <1> QED
    BY <1>1, <1>2

LEMMA OthersPaid ==
    ASSUME HolderInv, RecordInv, PaidInv, [Next]_vars, UNCHANGED call,
           ~\E c \in Calls : Start(c) \/ Step(c)
    PROVE  Paid'
  <1>1. CASE Serve
    BY <1>1, ServePaid
  <1>2. Unconnected' = Unconnected
    BY DEF Unconnected, At
  <1>3. Coming \in 0..1 /\ Coming' \in 0..1 /\ ends \in Nat
    BY DEF Coming, RecordInv, TypeOK, ClientTypeOK
  <1>4. ASSUME owner'.tokens = owner.tokens, ends' \in {ends, ends + 1},
               ends + Coming <= ends' + Coming'
        PROVE  Paid'
    <2>1. ends' \in Nat /\ Cardinality(Unconnected) \in Nat /\ Cardinality(owner.tokens) \in Nat
      BY <1>3, <1>4, FS_CardinalityType DEF PaidInv, Paid
    <2>2. Cardinality(owner.tokens) <= ends' + Cardinality(Unconnected) + Coming'
      <3>1. Cardinality(owner.tokens) <= (ends + Coming) + Cardinality(Unconnected)
        BY <1>3, <2>1 DEF PaidInv, Paid
      <3>2. (ends + Coming) + Cardinality(Unconnected)
              <= ends' + Cardinality(Unconnected) + Coming'
        BY <1>3, <1>4, <2>1
      <3> QED
        BY <1>3, <2>1, <3>1, <3>2
    <2> QED
      BY <1>2, <1>4, <2>2 DEF PaidInv, Paid
  <1>5. CASE Connection /\ UNCHANGED observers
    <2>1. owner' = owner /\ control'.command = control.command
      BY <1>5 DEF Connection, Refused, EndConnection, Reconnect, GiveUp, observers, RecordInv,
                  TypeOK, ClientTypeOK
    <2>2. control.at # "done" => Coming = 0
      BY DEF Coming
    <2>3. CASE Refused \/ Reconnect \/ GiveUp
      <3>1. ends' = ends /\ Coming = 0
        BY <2>2, <2>3 DEF Refused, Reconnect, GiveUp
      <3>2. PICK coming \in 0..1 : coming = Coming'
        BY <1>3
      <3>3. ends + Coming <= ends' + coming
        BY <1>3, <3>1
      <3> QED
        BY <1>4, <2>1, <3>1, <3>2, <3>3
    <2>4. CASE EndConnection
      <3>1. ends' = ends + 1
        BY <2>4 DEF EndConnection
      <3>2. PICK coming \in 0..1 : coming = Coming'
        BY <1>3
      <3>3. ends + Coming <= ends' + coming
        BY <1>3, <3>1
      <3> QED
        BY <1>4, <2>1, <3>1, <3>2, <3>3
    <2> QED
      BY <1>5, <2>3, <2>4 DEF Connection
  <1>6. ASSUME NEW s \in Calls, Worker(s) PROVE Paid'
    <2>1. owner' = owner /\ ends' = ends
      BY <1>6 DEF Worker, WorkerTakes, WorkerRequests, WorkerReturns, Request, Release, client
    <2>2. Coming' = Coming
      <3>1. CASE WorkerTakes(s)
        BY <3>1 DEF WorkerTakes, client, Coming
      <3>2. CASE WorkerRequests(s)
        BY <3>2 DEF WorkerRequests, Request, Coming
      <3>3. CASE WorkerReturns(s)
        <4>1. control.command = "record"
          BY <3>3 DEF WorkerReturns, Done, RecordInv, Bound
        <4> QED
          BY <3>3, <4>1 DEF WorkerReturns, Release, Unlocked, Coming
      <3> QED
        BY <1>6, <3>1, <3>2, <3>3 DEF Worker
    <2> QED
      BY <1>3, <1>4, <2>1, <2>2
  <1>7. CASE ~Exchange /\ ~\E s \in Calls : Worker(s)
    <2>1. /\ owner'.tokens = owner.tokens /\ UNCHANGED client
      BY <1>7 DEF Next, Emit, Expire, HelperReturns, Consume, ConsumerEnds, Open,
                  EndStream, RecordInv, TypeOK, OwnerTypeOK, observers, vars
    <2> QED
      BY <1>3, <1>4, <2>1 DEF client, Coming
  <1> QED
    BY <1>1, <1>5, <1>6, <1>7 DEF Next, Exchange

LEMMA PaidStep ==
    ASSUME HolderInv, RecordInv, PaidInv, [Next]_vars PROVE PaidInv'
  <1>1. ASSUME NEW c \in Calls, Start(c) \/ Step(c) PROVE PaidInv'
    BY <1>1, CallAsked, CallPaid DEF PaidInv
  <1>2. CASE ~\E c \in Calls : Start(c) \/ Step(c)
    BY <1>2, OthersAsked, OthersPaid DEF PaidInv
  <1> QED
    BY <1>1, <1>2

\* prepare_observer over ControlClient::request, which may send it twice: whatever the owner
\* prepared and nobody will connect was paid for with an ended connection, a failed connect,
\* or the call that is about to connect, for any number of commands and ends.
THEOREM ResendsArePaid == Spec => []LeftBehind
  <1>1. HolderInv /\ RecordInv /\ PaidInv => LeftBehind
    <2> SUFFICES ASSUME HolderInv, RecordInv, PaidInv PROVE LeftBehind
      OBVIOUS
    <2> DEFINE paying == {c \in Calls : \/ At(c, "connect")
                                        \/ At(c, "failed") /\ call[c].op = "prepare"
                                        \/ control.by = <<c, "call">>}
    <2>1. /\ IsFiniteSet(Unconnected) /\ Cardinality(Unconnected) \in Nat
          /\ Cardinality(owner.tokens) \in Nat /\ ends \in Nat
      BY FS_CardinalityType DEF PaidInv, Paid, RecordInv, TypeOK, ClientTypeOK
    <2>2. IsFiniteSet(paying)
      <3>1. CASE \E c \in Calls : control.by = <<c, "call">>
        <4>1. PICK c \in Calls : control.by = <<c, "call">>
          BY <3>1
        <4>2. paying \subseteq Unconnected \cup {c}
          BY <4>1 DEF Unconnected
        <4>3. IsFiniteSet(Unconnected \cup {c})
          BY <2>1, FS_AddElement
        <4> HIDE DEF paying
        <4> QED
          BY <4>2, <4>3, FS_Subset
      <3>2. CASE ~\E c \in Calls : control.by = <<c, "call">>
        <4>1. paying \subseteq Unconnected
          BY <3>2 DEF Unconnected
        <4> HIDE DEF paying
        <4> QED
          BY <2>1, <4>1, FS_Subset
      <3> QED
        BY <3>1, <3>2
    <2>3. Cardinality(Unconnected) <= Cardinality(paying) /\ Cardinality(paying) \in Nat
      <3>1. Unconnected \subseteq paying
        BY DEF Unconnected
      <3> QED
        BY <2>2, <3>1, FS_Subset, FS_CardinalityType
    <2>4. CASE Coming = 1
      <3>1. PICK c \in Calls : control.by = <<c, "call">> /\ call[c].at = "asking"
        BY <2>4 DEF Coming, RecordInv, Bound
      <3>2. Unconnected \cup {c} \subseteq paying /\ c \notin Unconnected
        BY <3>1 DEF Unconnected, At
      <3>3. Cardinality(Unconnected) + 1 <= Cardinality(paying)
        <4> DEFINE more == Unconnected \cup {c}
        <4>1. Cardinality(more) = Cardinality(Unconnected) + 1
          BY <2>1, <3>2, FS_AddElement
        <4> HIDE DEF paying
        <4>2. Cardinality(more) <= Cardinality(paying)
          BY <2>2, <3>2, FS_Subset
        <4> QED
          BY <4>1, <4>2
      <3> QED
        BY <2>1, <2>3, <2>4, <3>3 DEF PaidInv, Paid, LeftBehind
    <2>5. CASE Coming = 0
      BY <2>1, <2>3, <2>5 DEF PaidInv, Paid, LeftBehind
    <2> QED
      BY <2>4, <2>5 DEF Coming
  <1>2. Spec => []PaidInv
    <2>1. HolderInv /\ RecordInv /\ PaidInv /\ [Next]_vars => PaidInv'
      BY PaidStep
    <2> QED
      BY InitPaid, RecordInvariance, <2>1, PTL DEF Spec
  <1> QED
    BY <1>1, <1>2, RecordInvariance, PTL

================================================================================
