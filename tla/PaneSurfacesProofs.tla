-------------------------- MODULE PaneSurfacesProofs ---------------------------
(***************************************************************************)
(* That opening and closing the surfaces of a pane leaves none to run      *)
(* beside the pane's own, that a superseded one falls silent, and what the *)
(* calls agree on when they follow one another, for any numbers of calls   *)
(* and slots.                                                              *)
(***************************************************************************)
EXTENDS PaneSurfaces, TLAPS

--------------------------------------------------------------------------------
\* Who is left to run.

OpenCall ==
    [at: {"new", "sent", "inserted", "superseded", "answered"}, previous: Surfaces \cup {None}]

CloseCall ==
    [at: {"new", "found", "stopped", "removed", "answered"}, found: Surfaces \cup {None}]

CallTypes ==
    /\ open \in [Surfaces -> OpenCall]
    /\ closing \in [Closes -> CloseCall]
    /\ panes \in Surfaces \cup {None}
    /\ strayed \subseteq Surfaces

\* Surfaces that were put into the table.
Installed(s) == open[s].at \in {"inserted", "superseded", "answered"}

\* A call has the surface in hand and will tell it to stop.
Superseding(s) == \E t \in Surfaces : open[t].at = "inserted" /\ open[t].previous = s

\* An installed surface is the pane's, is told to stop or is about to be, or a close that had
\* found another has removed it; one that removes what it found has stopped it.
Accounted ==
    /\ \A s \in Surfaces : Installed(s) =>
          panes = s \/ s \in stop \/ s \in strayed \/ Superseding(s)
    /\ \A c \in Closes : closing[c].at = "stopped" => closing[c].found \in stop
    /\ panes # None => Installed(panes)

TableInv == CallTypes /\ Accounted

\* No call has been made.
LEMMA InitTable == Init => TableInv
  <1> SUFFICES ASSUME Init PROVE TableInv
    OBVIOUS
  <1>1. CallTypes
    BY DEF Init, CallTypes, OpenCall, CloseCall
  <1>2. Accounted
    BY DEF Init, Accounted, Installed
  <1> QED
    BY <1>1, <1>2 DEF TableInv

\* Only calls change what the invariant is about.
LEMMA ThreadsKeepTable ==
    ASSUME TableInv, UNCHANGED <<open, closing, panes, strayed, stop>> PROVE TableInv'
  <1>1. CallTypes'
    BY DEF TableInv, CallTypes, OpenCall, CloseCall
  <1>2. \A s \in Surfaces \cup {None} :
          Installed(s)' = Installed(s) /\ Superseding(s)' = Superseding(s)
    BY DEF Installed, Superseding
  <1> QED
    BY <1>1, <1>2 DEF TableInv, CallTypes, Accounted

\* surface.open
LEMMA OpenKeepsTable ==
    ASSUME TableInv, NEW s \in Surfaces, Open(s) PROVE TableInv'
  <1> USE SurfacesAssumption DEF TableInv, CallTypes, OpenCall
  <1>1. CASE SendRing(s)
    <2>1. CallTypes'
      BY <1>1 DEF SendRing
    <2>2. \A t \in Surfaces : Installed(t)' = Installed(t) /\ Superseding(t)' = Superseding(t)
      BY <1>1 DEF SendRing, Installed, Superseding
    <2> QED
      BY <1>1, <2>1, <2>2 DEF SendRing, Accounted
  <1>2. CASE Insert(s)
    <2>1. CallTypes'
      BY <1>2 DEF Insert
    <2>2. \A t \in Surfaces : Installed(t)' <=> Installed(t) \/ t = s
      BY <1>2 DEF Insert, Installed
    <2>3. \A t \in Surfaces : Superseding(t) \/ panes = t => Superseding(t)'
      BY <1>2 DEF Insert, Superseding
    <2> QED
      BY <1>2, <2>1, <2>2, <2>3 DEF Insert, Accounted
  <1>3. CASE StopPrevious(s)
    <2>1. CallTypes'
      BY <1>3 DEF StopPrevious
    <2>2. \A t \in Surfaces : Installed(t)' = Installed(t)
      BY <1>3 DEF StopPrevious, Installed
    <2>3. \A t \in Surfaces : Superseding(t) => Superseding(t)' \/ t \in stop'
      BY <1>3 DEF StopPrevious, Superseding
    <2> QED
      BY <1>3, <2>1, <2>2, <2>3 DEF StopPrevious, Accounted
  <1>4. CASE Start(s)
    <2>1. CallTypes'
      BY <1>4 DEF Start
    <2>2. \A t \in Surfaces : Installed(t)' = Installed(t) /\ Superseding(t)' = Superseding(t)
      BY <1>4 DEF Start, Installed, Superseding
    <2> QED
      BY <1>4, <2>1, <2>2 DEF Start, Accounted
  <1> QED
    BY <1>1, <1>2, <1>3, <1>4 DEF Open

\* surface.close
LEMMA CloseKeepsTable ==
    ASSUME TableInv, NEW c \in Closes, Close(c) PROVE TableInv'
  <1> USE SurfacesAssumption DEF TableInv, CallTypes, CloseCall
  <1>0. open' = open
    BY DEF Close, FindControl, StopFound, RemovePane, RemoveFont
  <1>1. \A t \in Surfaces : Installed(t)' = Installed(t) /\ Superseding(t)' = Superseding(t)
    BY <1>0 DEF Installed, Superseding
  <1>2. CASE FindControl(c)
    BY <1>1, <1>2 DEF FindControl, Accounted
  <1>3. CASE StopFound(c)
    BY <1>1, <1>3 DEF StopFound, Accounted
  <1>4. CASE RemovePane(c)
    BY <1>1, <1>4 DEF RemovePane, Accounted
  <1>5. CASE RemoveFont(c)
    BY <1>1, <1>5 DEF RemoveFont, Accounted
  <1> QED
    BY <1>2, <1>3, <1>4, <1>5 DEF Close

LEMMA TableStep == TableInv /\ [Next]_vars => TableInv'
  <1> SUFFICES ASSUME TableInv, [Next]_vars PROVE TableInv'
    OBVIOUS
  <1>1. CASE \E s \in Surfaces : Open(s)
    BY <1>1, OpenKeepsTable
  <1>2. CASE \E c \in Closes : Close(c)
    BY <1>2, CloseKeepsTable
  <1>3. CASE \E s \in Surfaces : Iteration(s)
    BY <1>3, ThreadsKeepTable
       DEF Iteration, CheckStop, RouteReturns, Paint, Pass, calls
  <1>4. CASE Show \/ Released \/ UNCHANGED vars
    BY <1>4, ThreadsKeepTable DEF Show, Released, vars, calls
  <1> QED
    BY <1>1, <1>2, <1>3, <1>4 DEF Next

\* However opens and closes overlap, no surface is left to run beside the pane's, except one
\* whose own entry was removed by a close that had found another.
THEOREM OneSurfaceRuns == Spec => []NoneRunsBeside
  <1>1. TableInv => NoneRunsBeside
    BY DEF TableInv, Accounted, Installed, Superseding, NoneRunsBeside, Running, Busy, Opening
  <1> QED
    BY InitTable, TableStep, <1>1, PTL DEF Spec

--------------------------------------------------------------------------------
\* Who falls silent.

\* A surface that has signalled a frame after it was told to stop goes on to the end: its
\* thread is at the top, where it looks, or has ended.
LateInv ==
    /\ late \in [Surfaces -> 0..1]
    /\ point \in [Surfaces -> {"none", "top", "returns", "paint", "ended"}]
    /\ \A s \in Surfaces : late[s] = 1 => s \in stop /\ point[s] \in {"top", "ended"}

\* A superseded surface signals one frame more at the most: the one it was about to.
THEOREM SupersededFallsSilent == Spec => []OneLateFrame
  <1>1. Init => LateInv
    BY DEF Init, LateInv
  <1>2. LateInv /\ [Next]_vars => LateInv'
    <2> SUFFICES ASSUME LateInv, [Next]_vars PROVE LateInv'
      OBVIOUS
    <2> USE DEF LateInv, Goto
    <2>1. ASSUME NEW s \in Surfaces, Open(s) PROVE LateInv'
      <3>1. late' = late /\ stop \subseteq stop'
        BY <2>1 DEF Open, SendRing, Insert, StopPrevious, Start, threads
      <3>2. point' = point \/ point' = [point EXCEPT ![s] = "top"]
        BY <2>1 DEF Open, SendRing, Insert, StopPrevious, Start, threads
      <3> QED
        BY <3>1, <3>2
    <2>2. ASSUME NEW c \in Closes, Close(c) PROVE LateInv'
      <3>1. late' = late /\ point' = point /\ stop \subseteq stop'
        BY <2>2 DEF Close, FindControl, StopFound, RemovePane, RemoveFont, threads
      <3> QED
        BY <3>1
    <2>3. ASSUME NEW s \in Surfaces, Iteration(s) PROVE LateInv'
      <3>1. CASE CheckStop(s)
        BY <3>1 DEF CheckStop
      <3>2. CASE RouteReturns(s)
        BY <3>2 DEF RouteReturns
      <3>3. ASSUME NEW slot \in Slots, Paint(s, slot) PROVE LateInv'
        <4>1. late[s] = 0
          BY <3>3 DEF Paint
        <4> QED
          BY <3>3, <4>1 DEF Paint
      <3>4. CASE Pass(s)
        BY <3>4 DEF Pass
      <3> QED
        BY <2>3, <3>1, <3>2, <3>3, <3>4 DEF Iteration
    <2>4. CASE Show \/ Released \/ UNCHANGED vars
      BY <2>4 DEF Show, Released, vars, threads
    <2> QED
      BY <2>1, <2>2, <2>3, <2>4 DEF Next
  <1>3. LateInv => OneLateFrame
    BY DEF LateInv, OneLateFrame
  <1> QED
    BY <1>1, <1>2, <1>3, PTL DEF Spec

--------------------------------------------------------------------------------
\* What the table, the fonts and the ring sent last agree on.

\* A call that has stopped a surface or is about to has an installed one in hand.
HandInv ==
    /\ stop \subseteq {s \in Surfaces : Installed(s)}
    /\ \A s, t \in Surfaces : open[s].previous = t => Installed(t)
    /\ \A c \in Closes : closing[c].at # "new" => closing[c].found # None
    /\ \A c \in Closes, s \in Surfaces : closing[c].found = s => Installed(s)

\* One call at a time.
OneCall ==
    /\ \A s, t \in Surfaces : Opening(s) /\ Opening(t) => s = t
    /\ \A c, d \in Closes : Closing(c) /\ Closing(d) => c = d
    /\ \A s \in Surfaces, c \in Closes : ~(Opening(s) /\ Closing(c))

\* Between two calls the table, the font, the ring and what runs agree; within one they are
\* what the call has made of them so far.
Agreed ==
    /\ ~Busy => /\ Running = {panes} \ {None}
                /\ fonts = panes
                /\ panes # None => lastRing = panes
    /\ \A s \in Surfaces : Opening(s) =>
        /\ lastRing = s /\ s \notin stop
        /\ open[s].at = "sent" => panes # s /\ Running = {panes} \ {None}
        /\ open[s].at = "inserted" =>
              panes = s /\ open[s].previous # s /\ Running = {open[s].previous} \ {None}
        /\ open[s].at = "superseded" => panes = s /\ Running = {}
    /\ \A c \in Closes : Closing(c) =>
        /\ closing[c].at = "found" => panes = closing[c].found /\ Running = {panes}
        /\ closing[c].at # "found" => Running = {}
        /\ closing[c].at = "removed" => panes = None

SerialInv == ~overlapped => OneCall /\ Agreed

LEMMA InitSerial == Init => HandInv /\ SerialInv
  <1> SUFFICES ASSUME Init PROVE HandInv /\ SerialInv
    OBVIOUS
  <1>1. /\ panes = None /\ fonts = None /\ stop = {}
        /\ \A s \in Surfaces : open[s].at = "new" /\ open[s].previous = None
        /\ \A c \in Closes : closing[c].at = "new" /\ closing[c].found = None
    BY DEF Init
  <1>2. HandInv
    BY <1>1, SurfacesAssumption DEF HandInv
  <1>3. OneCall
    BY <1>1 DEF OneCall, Opening, Closing
  <1>4. Agreed
    BY <1>1 DEF Agreed, Opening, Closing, Running
  <1> QED
    BY <1>2, <1>3, <1>4 DEF SerialInv

\* What a call has in hand was the pane's, and stays installed.
LEMMA HandStep ==
    ASSUME TableInv, HandInv, [Next]_vars PROVE HandInv'
  <1> USE SurfacesAssumption DEF TableInv, CallTypes, OpenCall, CloseCall
  <1>1. ASSUME NEW s \in Surfaces, Open(s) PROVE HandInv'
    <2>1. closing' = closing
      BY <1>1 DEF Open, SendRing, Insert, StopPrevious, Start
    <2>2. \A t \in Surfaces : Installed(t) => Installed(t)'
      BY <1>1 DEF Open, SendRing, Insert, StopPrevious, Start, Installed
    <2>3. stop' \subseteq {t \in Surfaces : Installed(t)'}
      BY <1>1, <2>2 DEF HandInv, Open, SendRing, Insert, StopPrevious, Start
    <2>4. \A t, u \in Surfaces : open'[t].previous = u => Installed(u)'
      <3>1. \A t \in Surfaces : open'[t].previous \in {open[t].previous, panes}
        BY <1>1 DEF Open, SendRing, Insert, StopPrevious, Start
      <3> QED
        BY <2>2, <3>1 DEF HandInv, Accounted
    <2> QED
      BY <2>1, <2>2, <2>3, <2>4 DEF HandInv
  <1>2. ASSUME NEW c \in Closes, Close(c) PROVE HandInv'
    <2>1. open' = open
      BY <1>2 DEF Close, FindControl, StopFound, RemovePane, RemoveFont
    <2>2. \A t \in Surfaces : Installed(t)' = Installed(t)
      BY <2>1 DEF Installed
    <2>3. stop' \subseteq {t \in Surfaces : Installed(t)}
      BY <1>2 DEF HandInv, Close, FindControl, StopFound, RemovePane, RemoveFont
    <2>4. \A d \in Closes : closing'[d].at # "new" => closing'[d].found # None
      BY <1>2 DEF HandInv, Close, FindControl, StopFound, RemovePane, RemoveFont
    <2>5. \A d \in Closes, t \in Surfaces : closing'[d].found = t => Installed(t)
      <3>1. \A d \in Closes : closing'[d].found \in {closing[d].found, panes}
        BY <1>2 DEF Close, FindControl, StopFound, RemovePane, RemoveFont
      <3> QED
        BY <3>1 DEF HandInv, Accounted
    <2> QED
      BY <2>1, <2>2, <2>3, <2>4, <2>5 DEF HandInv
  <1>3. ASSUME UNCHANGED <<open, closing, stop>> PROVE HandInv'
    BY <1>3 DEF HandInv, Installed
  <1>4. CASE (\E s \in Surfaces : Iteration(s)) \/ Show \/ Released \/ UNCHANGED vars
    BY <1>3, <1>4 DEF Iteration, CheckStop, RouteReturns, Paint, Pass, Show, Released, vars, calls
  <1> QED
    BY <1>1, <1>2, <1>4 DEF Next

LEMMA OpenAgrees ==
    ASSUME TableInv, HandInv, OneCall, Agreed, NEW s \in Surfaces, Open(s), ~overlapped'
    PROVE  OneCall' /\ Agreed'
  <1> USE SurfacesAssumption DEF TableInv, CallTypes, OpenCall
  <1>1. closing' = closing /\ \A t \in Surfaces \ {s} : open'[t] = open[t]
    BY DEF Open, SendRing, Insert, StopPrevious, Start
  <1>2. /\ \A t \in Surfaces \ {s} : ~Opening(t)
        /\ \A c \in Closes : ~Closing(c)
    <2>1. CASE SendRing(s)
      BY <2>1 DEF SendRing, Begins, Busy
    <2>2. CASE Insert(s) \/ StopPrevious(s) \/ Start(s)
      BY <2>2 DEF Insert, StopPrevious, Start, OneCall, Opening
    <2> QED
      BY <2>1, <2>2 DEF Open
  <1>3. /\ \A t \in Surfaces \ {s} : ~Opening(t)'
        /\ \A c \in Closes : ~Closing(c)'
    BY <1>1, <1>2 DEF Opening, Closing
  <1>4. OneCall'
    BY <1>3 DEF OneCall
  <1>5. ASSUME Opening(s)',
               lastRing' = s, s \notin stop',
               open'[s].at = "sent" => panes' # s /\ Running' = {panes'} \ {None},
               open'[s].at = "inserted" =>
                 panes' = s /\ open'[s].previous # s /\ Running' = {open'[s].previous} \ {None},
               open'[s].at = "superseded" => panes' = s /\ Running' = {}
        PROVE  Agreed'
    BY <1>3, <1>5 DEF Agreed, Busy
  <1>6. ASSUME SendRing(s) PROVE Agreed'
    <2>1. open[s].at = "new" /\ open'[s].at = "sent" /\ lastRing' = s /\ UNCHANGED <<panes, stop>>
      BY <1>6 DEF SendRing
    <2>2. ~Installed(s)
      BY <2>1 DEF Installed
    <2>3. panes # s /\ s \notin stop
      BY <2>2 DEF HandInv, Accounted
    <2>4. Running' = Running /\ ~Busy
      BY <1>1, <1>2, <2>1 DEF Running, Busy, Opening
    <2> QED
      BY <1>5, <2>1, <2>3, <2>4 DEF Agreed, Opening
  <1>7. ASSUME Insert(s) PROVE Agreed'
    <2>1. /\ open[s].at = "sent" /\ open'[s].at = "inserted" /\ open'[s].previous = panes
          /\ panes' = s /\ UNCHANGED <<stop, lastRing>>
      BY <1>7 DEF Insert
    <2>2. Running' = Running
      BY <1>1, <2>1 DEF Running
    <2> QED
      BY <1>5, <2>1, <2>2 DEF Agreed, Opening
  <1>8. ASSUME StopPrevious(s) PROVE Agreed'
    <2>1. /\ open[s].at = "inserted" /\ open'[s].at = "superseded"
          /\ stop' = stop \cup ({open[s].previous} \ {None})
          /\ UNCHANGED <<panes, lastRing>>
      BY <1>8 DEF StopPrevious
    <2>2. Running' = Running \ {open[s].previous}
      BY <1>1, <2>1 DEF Running
    <2> QED
      BY <1>5, <2>1, <2>2 DEF Agreed, Opening
  <1>9. ASSUME Start(s) PROVE Agreed'
    <2>1. /\ open[s].at = "superseded" /\ open'[s].at = "answered"
          /\ fonts' = s /\ UNCHANGED <<panes, stop, lastRing>>
      BY <1>9 DEF Start
    <2>2. panes = s /\ Running = {} /\ s \notin stop /\ lastRing = s
      BY <2>1 DEF Agreed, Opening
    <2>3. Running' = {s}
      BY <1>1, <2>1, <2>2 DEF Running
    <2>4. ~Opening(s)'
      BY <2>1 DEF Opening
    <2> QED
      BY <1>3, <2>1, <2>2, <2>3, <2>4 DEF Agreed
  <1> QED
    BY <1>4, <1>6, <1>7, <1>8, <1>9 DEF Open

LEMMA CloseAgrees ==
    ASSUME TableInv, HandInv, OneCall, Agreed, NEW c \in Closes, Close(c), ~overlapped'
    PROVE  OneCall' /\ Agreed'
  <1> USE SurfacesAssumption DEF TableInv, CallTypes, CloseCall
  <1>1. open' = open /\ \A d \in Closes \ {c} : closing'[d] = closing[d]
    BY DEF Close, FindControl, StopFound, RemovePane, RemoveFont
  <1>2. /\ \A d \in Closes \ {c} : ~Closing(d)
        /\ \A s \in Surfaces : ~Opening(s)
    <2>1. CASE FindControl(c)
      BY <2>1 DEF FindControl, Begins, Busy
    <2>2. CASE StopFound(c) \/ RemovePane(c) \/ RemoveFont(c)
      BY <2>2 DEF StopFound, RemovePane, RemoveFont, OneCall, Closing
    <2> QED
      BY <2>1, <2>2 DEF Close
  <1>3. /\ \A d \in Closes \ {c} : ~Closing(d)'
        /\ \A s \in Surfaces : ~Opening(s)'
    BY <1>1, <1>2 DEF Opening, Closing
  <1>4. OneCall'
    BY <1>3 DEF OneCall
  <1>5. ASSUME Closing(c)',
               closing'[c].at = "found" => panes' = closing'[c].found /\ Running' = {panes'},
               closing'[c].at # "found" => Running' = {},
               closing'[c].at = "removed" => panes' = None
        PROVE  Agreed'
    BY <1>3, <1>5 DEF Agreed, Busy
  <1>6. ASSUME FindControl(c) PROVE Agreed'
    <2>1. /\ closing[c].at = "new" /\ closing'[c].at = "found" /\ closing'[c].found = panes
          /\ panes # None /\ UNCHANGED <<panes, stop>>
      BY <1>6 DEF FindControl
    <2>2. Running' = Running /\ ~Busy
      BY <1>1, <1>2, <2>1 DEF Running, Busy, Closing
    <2>3. Running = {panes}
      BY <2>1, <2>2 DEF Agreed
    <2> QED
      BY <1>5, <2>1, <2>2, <2>3 DEF Closing
  <1>7. ASSUME StopFound(c) PROVE Agreed'
    <2>1. /\ closing[c].at = "found" /\ closing'[c].at = "stopped"
          /\ stop' = stop \cup {closing[c].found} /\ UNCHANGED panes
      BY <1>7 DEF StopFound
    <2>2. Running = {closing[c].found}
      BY <2>1 DEF Agreed, Closing
    <2>3. Running' = {}
      BY <1>1, <2>1, <2>2 DEF Running
    <2> QED
      BY <1>5, <2>1, <2>3 DEF Closing
  <1>8. ASSUME RemovePane(c) PROVE Agreed'
    <2>1. /\ closing[c].at = "stopped" /\ closing'[c].at = "removed"
          /\ panes' = None /\ UNCHANGED stop
      BY <1>8 DEF RemovePane
    <2>2. Running' = Running /\ Running = {}
      BY <1>1, <2>1 DEF Running, Agreed, Closing
    <2> QED
      BY <1>5, <2>1, <2>2 DEF Closing
  <1>9. ASSUME RemoveFont(c) PROVE Agreed'
    <2>1. /\ closing[c].at = "removed" /\ closing'[c].at = "answered"
          /\ fonts' = None /\ UNCHANGED <<panes, stop>>
      BY <1>9 DEF RemoveFont
    <2>2. Running' = Running /\ Running = {} /\ panes = None
      BY <1>1, <2>1 DEF Running, Agreed, Closing
    <2>3. ~Closing(c)'
      BY <2>1 DEF Closing
    <2> QED
      BY <1>3, <2>1, <2>2, <2>3 DEF Agreed
  <1> QED
    BY <1>4, <1>6, <1>7, <1>8, <1>9 DEF Close

LEMMA SerialStep ==
    ASSUME TableInv, HandInv, SerialInv, [Next]_vars PROVE SerialInv'
  <1> SUFFICES ASSUME ~overlapped' PROVE OneCall' /\ Agreed'
    BY DEF SerialInv
  <1>1. ASSUME UNCHANGED calls, UNCHANGED stop PROVE OneCall' /\ Agreed'
    BY <1>1 DEF SerialInv, OneCall, Agreed, Opening, Closing, Busy, Running, calls
  <1>2. ASSUME NEW s \in Surfaces, Open(s) PROVE OneCall' /\ Agreed'
    <2>1. ~overlapped
      BY <1>2 DEF Open, SendRing, Insert, StopPrevious, Start, Begins
    <2> QED
      BY <1>2, <2>1, OpenAgrees DEF SerialInv
  <1>3. ASSUME NEW c \in Closes, Close(c) PROVE OneCall' /\ Agreed'
    <2>1. ~overlapped
      BY <1>3 DEF Close, FindControl, StopFound, RemovePane, RemoveFont, Begins
    <2> QED
      BY <1>3, <2>1, CloseAgrees DEF SerialInv
  <1>4. CASE (\E s \in Surfaces : Iteration(s)) \/ Show \/ Released \/ UNCHANGED vars
    BY <1>1, <1>4 DEF Iteration, CheckStop, RouteReturns, Paint, Pass, Show, Released, vars
  <1> QED
    BY <1>2, <1>3, <1>4 DEF Next

\* When opens and closes follow one another, the table, the font that a resize will look up
\* and the ring the application was sent last are of the same surface, which runs, or the
\* pane has none.
THEOREM SerialCalls == Spec => []SerialCallsAgree
  <1>1. TableInv /\ [Next]_vars => TableInv'
    BY TableStep
  <1>2. SerialInv => SerialCallsAgree
    BY DEF SerialInv, Agreed, SerialCallsAgree
  <1>3. Init => TableInv /\ HandInv /\ SerialInv
    BY InitTable, InitSerial
  <1>4. (TableInv /\ HandInv /\ SerialInv) /\ [Next]_vars => (TableInv /\ HandInv /\ SerialInv)'
    BY <1>1, HandStep, SerialStep
  <1> QED
    BY <1>2, <1>3, <1>4, PTL DEF Spec

--------------------------------------------------------------------------------
\* What every variable holds.

RingOfSlots == [free: SUBSET Slots, shown: Slot, signalled: Slot]

\* A ring that takes its slots back is still one of its slots.
LEMMA ReturnAllTyped ==
    ASSUME NEW held \in RingOfSlots, NEW slots \in SUBSET Slots
    PROVE  ReturnAll(held, slots) \in RingOfSlots
  <1>1. MoveOn(held) \in RingOfSlots
    BY DEF MoveOn, RingOfSlots, Slot
  <1> QED
    BY <1>1 DEF ReturnAll, RingOfSlots

\* Returning slots together is returning them one after another, in any order: each step of
\* the loop finds that the application has moved on already.
LEMMA ReturnOneMore ==
    ASSUME NEW held \in RingOfSlots, NEW slots \in SUBSET Slots, NEW slot \in Slots
    PROVE  ReturnAll(held, slots \cup {slot}) = ReturnAll(ReturnAll(held, slots), {slot})
  <1> USE SurfacesAssumption DEF RingOfSlots, Slot
  <1>1. PICK moved \in RingOfSlots : moved = MoveOn(held) /\ moved.signalled = None
    <2>1. MoveOn(held) \in RingOfSlots
      BY DEF MoveOn
    <2>2. MoveOn(held).signalled = None
      BY DEF MoveOn
    <2> QED
      BY <2>1, <2>2
  <1>2. ReturnAll(held, slots \cup {slot})
          = [moved EXCEPT !.free = @ \cup ((slots \cup {slot}) \ {moved.shown})]
    BY <1>1 DEF ReturnAll
  <1>3. CASE slots = {}
    BY <1>2, <1>3 DEF ReturnAll
  <1>4. CASE slots # {}
    <2>1. PICK first \in RingOfSlots :
            /\ first = ReturnAll(held, slots)
            /\ first = [moved EXCEPT !.free = @ \cup (slots \ {moved.shown})]
      BY <1>1, <1>4 DEF ReturnAll
    <2>2. MoveOn(first) = first /\ first.shown = moved.shown
      BY <1>1, <2>1 DEF MoveOn
    <2>3. ReturnAll(first, {slot}) = [first EXCEPT !.free = @ \cup ({slot} \ {moved.shown})]
      BY <2>2 DEF ReturnAll
    <2>4. moved.free \cup ((slots \cup {slot}) \ {moved.shown})
            = (moved.free \cup (slots \ {moved.shown})) \cup ({slot} \ {moved.shown})
      OBVIOUS
    <2>5. first.free = moved.free \cup (slots \ {moved.shown})
      BY <2>1
    <2>6. [first EXCEPT !.free = @ \cup ({slot} \ {moved.shown})]
            = [moved EXCEPT !.free = first.free \cup ({slot} \ {moved.shown})]
      BY <2>1
    <2> QED
      BY <1>2, <2>1, <2>3, <2>4, <2>5, <2>6
  <1> QED
    BY <1>3, <1>4

CallsTyped ==
    /\ CallTypes
    /\ fonts \in Surfaces \cup {None}
    /\ stop \subseteq Surfaces
    /\ lastRing \in Surfaces \cup {None}
    /\ overlapped \in BOOLEAN

ThreadsTyped ==
    /\ returns \in [Surfaces -> Seq(Slots)]
    /\ point \in [Surfaces -> {"none", "top", "returns", "paint", "ended"}]
    /\ ring \in [Surfaces -> RingOfSlots]
    /\ frames \in 0..MaxFrames
    /\ late \in [Surfaces -> Nat]

ChannelTyped ==
    /\ toApp \in Seq(Message)
    /\ toReader \in Seq(Slots)
    /\ app \in [ring: Surfaces \cup {None}, slot: Slot]

LEMMA TypesByPart ==
    /\ TypeOK <=> CallsTyped /\ ThreadsTyped /\ ChannelTyped
    /\ (CallsTyped /\ ThreadsTyped /\ ChannelTyped)' => TypeOK'
  BY DEF TypeOK, CallsTyped, CallTypes, OpenCall, CloseCall, ThreadsTyped, RingOfSlots,
         ChannelTyped

LEMMA InitTyped == Init => TypeOK
  <1> SUFFICES ASSUME Init PROVE TypeOK
    OBVIOUS
  <1>1. CallsTyped
    BY InitTable DEF Init, TableInv, CallsTyped
  <1>2. ThreadsTyped
    BY SurfacesAssumption DEF Init, ThreadsTyped, RingOfSlots, Slot
  <1>3. ChannelTyped
    BY DEF Init, ChannelTyped, Slot
  <1> QED
    BY <1>1, <1>2, <1>3, TypesByPart

LEMMA OpenTyped ==
    ASSUME TypeOK, CallTypes', NEW s \in Surfaces, Open(s) PROVE TypeOK'
  <1> USE TypesByPart
  <1>1. CallsTyped'
    <2>1. stop' \subseteq Surfaces
      BY DEF CallsTyped, CallTypes, OpenCall, Open, SendRing, Insert, StopPrevious, Start
    <2>2. fonts' \in {fonts, s} /\ lastRing' \in {lastRing, s}
      BY DEF Open, SendRing, Insert, StopPrevious, Start
    <2>3. overlapped' \in BOOLEAN
      BY DEF CallsTyped, Open, SendRing, Insert, StopPrevious, Start, Begins, Busy
    <2> QED
      BY <2>1, <2>2, <2>3 DEF CallsTyped
  <1>2. ThreadsTyped'
    BY DEF ThreadsTyped, Open, SendRing, Insert, StopPrevious, Start, threads, Goto
  <1>3. ChannelTyped'
    <2>1. CASE SendRing(s)
      BY <2>1 DEF ChannelTyped, SendRing, Message
    <2>2. CASE UNCHANGED channel
      BY <2>2 DEF ChannelTyped, channel
    <2> QED
      BY <2>1, <2>2 DEF Open, Insert, StopPrevious, Start
  <1> QED
    BY <1>1, <1>2, <1>3, TypesByPart

LEMMA CloseTyped ==
    ASSUME TypeOK, HandInv, CallTypes', NEW c \in Closes, Close(c) PROVE TypeOK'
  <1> USE TypesByPart
  <1>1. CallsTyped'
    <2>1. stop' \subseteq Surfaces
      <3>1. closing[c].at # "new" => closing[c].found \in Surfaces
        BY DEF CallsTyped, CallTypes, CloseCall, HandInv
      <3> QED
        BY <3>1 DEF CallsTyped, Close, FindControl, StopFound, RemovePane, RemoveFont
    <2>2. UNCHANGED lastRing /\ fonts' \in {fonts, None} /\ overlapped' \in BOOLEAN
      BY DEF CallsTyped, Close, FindControl, StopFound, RemovePane, RemoveFont, Begins, Busy
    <2> QED
      BY <2>1, <2>2 DEF CallsTyped
  <1>2. ThreadsTyped' /\ ChannelTyped'
    BY DEF ThreadsTyped, ChannelTyped, Close, FindControl, StopFound, RemovePane, RemoveFont,
           threads, channel
  <1> QED
    BY <1>1, <1>2, TypesByPart

LEMMA IterationTyped ==
    ASSUME TypeOK, NEW s \in Surfaces, Iteration(s) PROVE TypeOK'
  <1> USE TypesByPart
  <1>1. CallsTyped'
    BY DEF CallsTyped, CallTypes, Iteration, CheckStop, RouteReturns, Paint, Pass, calls
  <1>2. CASE CheckStop(s)
    <2>1. ThreadsTyped'
      BY <1>2 DEF ThreadsTyped, CheckStop, Goto
    <2>2. ChannelTyped'
      BY <1>2 DEF ChannelTyped, CheckStop, Message
    <2> QED
      BY <1>1, <2>1, <2>2, TypesByPart
  <1>3. CASE RouteReturns(s)
    <2>1. returns[s] \in Seq(Slots) /\ ring[s] \in RingOfSlots
      BY DEF ThreadsTyped
    <2>2. Range(returns[s]) \in SUBSET Slots
      BY <2>1 DEF Range
    <2>3. ReturnAll(ring[s], Range(returns[s])) \in RingOfSlots
      BY <2>1, <2>2, ReturnAllTyped
    <2>4. ring' \in [Surfaces -> RingOfSlots]
      BY <1>3, <2>3 DEF RouteReturns, ThreadsTyped
    <2>5. ThreadsTyped'
      BY <1>3, <2>4 DEF ThreadsTyped, RouteReturns, Goto
    <2>6. ChannelTyped'
      BY <1>3 DEF ChannelTyped, RouteReturns, channel
    <2> QED
      BY <1>1, <2>5, <2>6, TypesByPart
  <1>4. ASSUME NEW slot \in Slots, Paint(s, slot) PROVE TypeOK'
    <2>1. ring' \in [Surfaces -> RingOfSlots]
      <3>1. ring[s] \in RingOfSlots
        BY DEF ThreadsTyped
      <3>2. [ring[s] EXCEPT !.free = @ \ {slot}, !.signalled = slot] \in RingOfSlots
        BY <3>1 DEF RingOfSlots, Slot
      <3>3. ring' = [ring EXCEPT ![s] = [ring[s] EXCEPT !.free = @ \ {slot},
                                                       !.signalled = slot]]
        BY <1>4, <3>1 DEF Paint, ThreadsTyped, RingOfSlots
      <3> QED
        BY <3>2, <3>3 DEF ThreadsTyped
    <2>2. frames' \in 0..MaxFrames
      BY <1>4, SurfacesAssumption DEF Paint, ThreadsTyped
    <2>3. late' \in [Surfaces -> Nat]
      BY <1>4 DEF Paint, ThreadsTyped
    <2>4. ThreadsTyped'
      BY <1>4, <2>1, <2>2, <2>3 DEF ThreadsTyped, Paint, Goto
    <2>5. ChannelTyped'
      BY <1>4 DEF ChannelTyped, Paint, Message
    <2> QED
      BY <1>1, <2>4, <2>5, TypesByPart
  <1>5. CASE Pass(s)
    <2>1. ThreadsTyped'
      BY <1>5 DEF ThreadsTyped, Pass, Goto
    <2>2. ChannelTyped'
      BY <1>5 DEF ChannelTyped, Pass, channel
    <2> QED
      BY <1>1, <2>1, <2>2, TypesByPart
  <1> QED
    BY <1>2, <1>3, <1>4, <1>5 DEF Iteration

LEMMA ApplicationTyped ==
    ASSUME TypeOK, Show \/ Released PROVE TypeOK'
  <1> USE TypesByPart
  <1>1. CallsTyped'
    BY DEF CallsTyped, CallTypes, Show, Released, calls
  <1>2. CASE Show
    <2>1. ThreadsTyped'
      BY <1>2 DEF ThreadsTyped, Show, threads
    <2>2. PICK message \in Message : message = Head(toApp)
      BY <1>2 DEF ChannelTyped, Show
    <2>3. toApp' \in Seq(Message)
      BY <1>2 DEF ChannelTyped, Show
    <2>4. app' \in [ring: Surfaces \cup {None}, slot: Slot] /\ toReader' \in Seq(Slots)
      <3>1. CASE message.kind = "ring"
        <4>1. app' = [ring |-> message.surface, slot |-> None] /\ UNCHANGED toReader
          BY <1>2, <2>2, <3>1 DEF Show
        <4>2. message.surface \in Surfaces
          BY <3>1 DEF Message
        <4> QED
          BY <4>1, <4>2 DEF ChannelTyped, Slot
      <3>2. CASE message.kind = "frame"
        <4>1. /\ app' = [app EXCEPT !.slot = message.slot] /\ message.slot \in Slots
              /\ Release(message.slot)
          BY <1>2, <2>2, <3>2 DEF Show, Message
        <4>2. app' \in [ring: Surfaces \cup {None}, slot: Slot]
          BY <4>1 DEF ChannelTyped, Slot
        <4>3. toReader' \in Seq(Slots)
          <5>1. app.slot \in Slots \cup {None} /\ toReader \in Seq(Slots)
            BY DEF ChannelTyped, Slot
          <5>2. CASE app.slot \in {None, message.slot}
            BY <4>1, <5>1, <5>2 DEF Release
          <5>3. CASE app.slot \notin {None, message.slot}
            BY <4>1, <5>1, <5>3 DEF Release
          <5> QED
            BY <5>2, <5>3
        <4> QED
          BY <4>2, <4>3
      <3>3. CASE message.kind = "ended"
        BY <1>2, <2>2, <3>3 DEF ChannelTyped, Show
      <3> QED
        BY <2>2, <3>1, <3>2, <3>3 DEF Message
    <2>5. ChannelTyped'
      BY <2>3, <2>4 DEF ChannelTyped
    <2> QED
      BY <1>1, <2>1, <2>5, TypesByPart
  <1>3. CASE Released
    <2>1. Head(toReader) \in Slots /\ toReader' \in Seq(Slots)
      BY <1>3 DEF ChannelTyped, Released
    <2>2. returns' \in [Surfaces -> Seq(Slots)]
      BY <1>3, <2>1 DEF ThreadsTyped, CallsTyped, CallTypes, Released
    <2>3. ThreadsTyped'
      BY <1>3, <2>2 DEF ThreadsTyped, Released
    <2>4. ChannelTyped'
      BY <1>3, <2>1 DEF ChannelTyped, Released
    <2> QED
      BY <1>1, <2>3, <2>4, TypesByPart
  <1> QED
    BY <1>2, <1>3

\* Every variable holds what it is declared for: in particular a close stops a surface that
\* was opened, and a ring that takes slots back remains one of its slots.
THEOREM SurfaceTypes == Spec => []TypeOK
  <1> DEFINE Inv == TableInv /\ HandInv /\ TypeOK
  <1>1. Init => Inv
    BY InitTable, InitSerial, InitTyped
  <1>2. Inv /\ [Next]_vars => Inv'
    <2> SUFFICES ASSUME Inv, [Next]_vars PROVE Inv'
      OBVIOUS
    <2>1. TableInv' /\ HandInv'
      BY TableStep, HandStep
    <2>2. CallTypes'
      BY <2>1 DEF TableInv
    <2>3. CASE \E s \in Surfaces : Open(s) \/ Iteration(s)
      BY <2>1, <2>2, <2>3, OpenTyped, IterationTyped
    <2>4. CASE \E c \in Closes : Close(c)
      BY <2>1, <2>2, <2>4, CloseTyped
    <2>5. CASE Show \/ Released
      BY <2>1, <2>5, ApplicationTyped
    <2>6. CASE UNCHANGED vars
      BY <2>1, <2>6 DEF TypeOK, vars, calls, threads, channel
    <2> QED
      BY <2>3, <2>4, <2>5, <2>6 DEF Next
  <1> QED
    BY <1>1, <1>2, PTL DEF Spec
================================================================================
