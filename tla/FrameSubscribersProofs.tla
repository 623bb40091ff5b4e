------------------------ MODULE FrameSubscribersProofs ------------------------
(***************************************************************************)
(* Theorems about what the subscribers of a pane's frames see: types, and  *)
(* that replies which arrive in order fold into the frame they were made   *)
(* of; and about the mirror the frames are read from: what it holds back   *)
(* is only delayed, and its snapshot restores both screens.                *)
(*                                                                         *)
(* What the engine makes of a sequence is a recursive function, so facts   *)
(* about it go by induction, from a least counterexample.                  *)
(***************************************************************************)
EXTENDS FrameSubscribers, SequenceTheorems, NaturalsInduction, WellFoundedInduction,
        FiniteSetTheorems, TLAPS

--------------------------------------------------------------------------------
\* Induction: the natural numbers are well-founded, so a set of them has a least one.

Smaller == OpToRel(<, Nat)

LEMMA Least ==
    ASSUME NEW S \in SUBSET Nat, S # {}
    PROVE  \E n \in S : \A m \in S : n <= m
  <1>1. PICK n \in S : \A m \in S : <<m, n>> \notin Smaller
    <2>1. IsWellFoundedOn(Smaller, Nat)
      BY NatLessThanWellFounded DEF Smaller
    <2> QED
      BY <2>1, WFMin
  <1>2. \A m, k \in Nat : m < k => <<m, k>> \in Smaller
    BY DEF Smaller, OpToRel
  <1>3. \A m \in S : ~(m < n)
    BY <1>1, <1>2
  <1> QED
    BY <1>3

\* What is so at 0 and goes from each index to the next is so at all.
LEMMA Induction ==
    ASSUME NEW n \in Nat, NEW S, 0 \in S, \A i \in 1..n : i - 1 \in S => i \in S
    PROVE  \A i \in 0..n : i \in S
  <1> SUFFICES ASSUME NEW j \in 0..n, j \notin S PROVE FALSE
    OBVIOUS
  <1> DEFINE Bad == {i \in 0..n : i \notin S}
  <1>1. Bad \in SUBSET Nat /\ Bad # {}
    OBVIOUS
  <1>2. PICK i \in Bad : \A m \in Bad : i <= m
    BY <1>1, Least
  <1>3. i \in 1..n
    BY <1>2
  <1>4. i - 1 \in 0..n /\ i - 1 \notin Bad
    BY <1>2, <1>3
  <1> QED
    BY <1>2, <1>3, <1>4

\* A function that is defined by its value before, as far as n, is there.
LEMMA Recursion ==
    ASSUME NEW S, NEW x \in S, NEW n \in Nat, NEW next \in [1..n -> [S -> S]]
    PROVE  \E f \in [0..n -> S] :
              /\ f[0] = x
              /\ \A i \in 1..n : f[i] = next[i][f[i - 1]]
  <1> DEFINE Is(f, k) ==
                /\ f \in [0..k -> S]
                /\ f[0] = x
                /\ \A i \in 1..k : f[i] = next[i][f[i - 1]]
             Good == {k \in 0..n : \E f : Is(f, k)}
  <1>1. 0 \in Good
    <2>1. Is([i \in 0..0 |-> x], 0)
      OBVIOUS
    <2> HIDE DEF Is
    <2> QED
      BY <2>1
  <1>2. ASSUME NEW k \in 1..n, k - 1 \in Good PROVE k \in Good
    <2>1. PICK f : Is(f, k - 1)
      BY <1>2
    <2> DEFINE g == [i \in 0..k |-> IF i = k THEN next[k][f[k - 1]] ELSE f[i]]
    <2>2. next[k][f[k - 1]] \in S
      BY <2>1
    <2>3. g \in [0..k -> S] /\ g[0] = x
      BY <2>1, <2>2
    <2>4. \A i \in 1..k : g[i] = next[i][g[i - 1]]
      BY <2>1
    <2>5. Is(g, k)
      BY <2>3, <2>4
    <2> HIDE DEF Is, g
    <2> QED
      BY <2>5
  <1> HIDE DEF Is
  <1>3. n \in Good
    <2> HIDE DEF Good
    <2>1. \A i \in 0..n : i \in Good
      BY <1>1, <1>2, Induction
    <2> QED
      BY <2>1
  <1> QED
    BY <1>3 DEF Is

--------------------------------------------------------------------------------
\* The engine

EngineOf(params, entered, primary, drawn, rows) ==
    [params |-> params, entered |-> entered, primary |-> primary, drawn |-> drawn, rows |-> rows]

\* What a token does, field by field; Printing and Entering are the two that do something.
Printing(e, token) == token # "start" /\ e.params = -1

Entering(e, token) == token = "set" /\ e.params > 0 /\ e.entered = 0

Leaving(e, token) == token = "reset" /\ e.params > 0

Params(e, token) ==
    IF token = "start" THEN 0
    ELSE IF token # "alternate" \/ e.params = -1 THEN -1
    ELSE IF e.params > ParamBound THEN e.params ELSE e.params + 1

LEMMA TakenIs ==
    ASSUME NEW e \in Engine, NEW token \in Token
    PROVE  Taken(e, token) =
              EngineOf(Params(e, token),
                       IF Entering(e, token) THEN e.params
                       ELSE IF Leaving(e, token) THEN 0 ELSE e.entered,
                       IF Printing(e, token) /\ e.entered = 0 THEN e.primary + 1 ELSE e.primary,
                       IF Entering(e, token) THEN 0
                       ELSE IF Printing(e, token) /\ e.entered > 0 THEN e.drawn + 1 ELSE e.drawn,
                       e.rows)
  <1> USE MirrorAssumption DEF EngineOf, Printing, Entering, Leaving, Params
  <1>1. /\ e.params \in Int /\ e.params >= -1 /\ e.entered \in Nat
        /\ e.primary \in Nat /\ e.drawn \in Nat
        /\ e = EngineOf(e.params, e.entered, e.primary, e.drawn, e.rows)
    BY DEF Engine
  <1>2. CASE token = "start"
    <2>1. Taken(e, token) = [e EXCEPT !.params = 0]
      BY <1>2 DEF Taken
    <2> QED
      BY <1>1, <1>2, <2>1
  <1>3. CASE token # "start" /\ e.params = -1
    <2>1. Taken(e, token) = Printed(e)
      BY <1>3 DEF Taken
    <2> QED
      BY <1>1, <1>3, <2>1 DEF Printed, Alternate
  <1>4. CASE token = "alternate" /\ e.params > ParamBound
    <2>1. Taken(e, token) = e
      BY <1>1, <1>4 DEF Taken
    <2> QED
      BY <1>1, <1>4, <2>1
  <1>5. CASE token = "alternate" /\ e.params # -1 /\ ~(e.params > ParamBound)
    <2>1. Taken(e, token) = [e EXCEPT !.params = @ + 1]
      <3>1. e.params \in 0..ParamBound
        BY <1>1, <1>5
      <3> QED
        BY <1>5, <3>1 DEF Taken
    <2> QED
      BY <1>1, <1>5, <2>1
  <1>6. CASE token = "set" /\ e.params > 0 /\ ~Alternate(e)
    <2>1. Taken(e, token) = [e EXCEPT !.params = -1, !.entered = e.params, !.drawn = 0]
      BY <1>1, <1>6 DEF Taken
    <2>2. Taken(e, token) = EngineOf(-1, e.params, e.primary, 0, e.rows)
      BY <2>1 DEF Engine
    <2> QED
      BY <1>1, <1>6, <2>2 DEF Alternate
  <1>7. CASE token = "reset" /\ e.params > 0
    <2>1. Taken(e, token) = [e EXCEPT !.params = -1, !.entered = 0]
      BY <1>1, <1>7 DEF Taken
    <2>2. Taken(e, token) = EngineOf(-1, 0, e.primary, e.drawn, e.rows)
      BY <2>1 DEF Engine
    <2> QED
      BY <1>1, <1>7, <2>2
  <1>8. CASE /\ token \notin {"start", "alternate"} /\ e.params # -1
             /\ ~(token = "set" /\ e.params > 0 /\ ~Alternate(e))
             /\ ~(token = "reset" /\ e.params > 0)
    <2>1. Taken(e, token) = [e EXCEPT !.params = -1]
      BY <1>1, <1>8 DEF Taken
    <2> QED
      BY <1>1, <1>8, <2>1 DEF Alternate
  <1> QED
    BY <1>1, <1>2, <1>3, <1>4, <1>5, <1>6, <1>7, <1>8

LEMMA TakenTyped ==
    ASSUME NEW e \in Engine, NEW token \in Token
    PROVE  Taken(e, token) \in Engine
  <1>1. /\ e.params \in -1..(ParamBound + 1) /\ e.entered \in 0..(ParamBound + 1)
        /\ e.primary \in Nat /\ e.drawn \in Nat /\ e.rows \in Sizes
    BY DEF Engine
  <1>2. Params(e, token) \in -1..(ParamBound + 1)
    BY <1>1, MirrorAssumption DEF Params
  <1>3. Entering(e, token) => e.params \in 0..(ParamBound + 1)
    BY <1>1, MirrorAssumption DEF Entering
  <1> QED
    BY <1>1, <1>2, <1>3, TakenIs, MirrorAssumption DEF EngineOf, Engine

LEMMA StepsAre ==
    ASSUME NEW e \in Engine, NEW data \in Seq(Token)
    PROVE  /\ Steps(e, data) \in [0..Len(data) -> Engine]
           /\ Steps(e, data)[0] = e
           /\ \A i \in 1..Len(data) : Steps(e, data)[i] = Taken(Steps(e, data)[i - 1], data[i])
  <1> DEFINE n == Len(data)
             Is(f) == f = [i \in 0..n |-> IF i = 0 THEN e ELSE Taken(f[i - 1], data[i])]
             next == [i \in 1..n |-> [d \in Engine |-> Taken(d, data[i])]]
  <1>1. \A i \in 1..n : data[i] \in Token
    OBVIOUS
  <1>2. n \in Nat /\ next \in [1..n -> [Engine -> Engine]]
    BY <1>1, TakenTyped
  <1>3. PICK f \in [0..n -> Engine] : f[0] = e /\ \A i \in 1..n : f[i] = next[i][f[i - 1]]
    <2>1. e \in Engine
      OBVIOUS
    <2> HIDE DEF next, n
    <2> QED
      BY ONLY <1>2, <2>1, Recursion, SMTT(30)
  <1>4. ASSUME NEW i \in 1..n PROVE f[i] = Taken(f[i - 1], data[i])
    <2>1. f[i - 1] \in Engine /\ f[i] = next[i][f[i - 1]]
      <3> HIDE DEF next
      <3> QED
        BY <1>2, <1>3
    <2>2. next[i] = [d \in Engine |-> Taken(d, data[i])]
      BY <1>2
    <2> HIDE DEF next
    <2> QED
      BY <2>1, <2>2
  <1>5. Is(f)
    BY <1>2, <1>3, <1>4
  <1>6. Steps(e, data) = CHOOSE s : Is(s)
    BY DEF Steps
  <1>7. Is(Steps(e, data))
    <2> HIDE DEF Is
    <2> QED
      BY <1>5, <1>6
  <1> DEFINE s == Steps(e, data)
             Good == {i \in 0..n : s[i] \in Engine}
  <1>8. /\ s[0] = e
        /\ \A i \in 1..n : s[i] = Taken(s[i - 1], data[i])
    BY <1>2, <1>7
  <1>9. s = [i \in 0..n |-> s[i]]
    BY <1>7
  <1>10. \A i \in 0..n : i \in Good
    <2>1. 0 \in Good /\ \A i \in 1..n : i - 1 \in Good => i \in Good
      BY <1>1, <1>2, <1>8, TakenTyped
    <2> HIDE DEF Good
    <2> QED
      BY <1>2, <2>1, Induction
  <1> QED
    BY <1>8, <1>9, <1>10

LEMMA FedIs ==
    ASSUME NEW e \in Engine, NEW data \in Seq(Token)
    PROVE  /\ Fed(e, data) \in Engine
           /\ Fed(e, data) = Steps(e, data)[Len(data)]
  BY StepsAre DEF Fed

LEMMA FedNothing ==
    ASSUME NEW e \in Engine
    PROVE  Fed(e, <<>>) = e
  <1>1. <<>> \in Seq(Token) /\ Len(<<>>) = 0
    OBVIOUS
  <1> QED
    BY <1>1, StepsAre DEF Fed

\* Fed in two parts.
LEMMA FedTogether ==
    ASSUME NEW e \in Engine, NEW a \in Seq(Token), NEW b \in Seq(Token)
    PROVE  Fed(e, a \o b) = Fed(Fed(e, a), b)
  <1> DEFINE whole == Steps(e, a \o b)
             first == Steps(e, a)
             second == Steps(Fed(e, a), b)
  <1>1. /\ a \o b \in Seq(Token) /\ Len(a \o b) = Len(a) + Len(b)
        /\ \A i \in 1..Len(a) : (a \o b)[i] = a[i]
        /\ \A i \in 1..Len(b) : (a \o b)[Len(a) + i] = b[i]
    BY ConcatProperties
  <1>2. Fed(e, a) \in Engine /\ first[Len(a)] = Fed(e, a)
    BY FedIs
  <1>3. /\ whole[0] = e /\ first[0] = e /\ second[0] = Fed(e, a)
        /\ \A i \in 1..(Len(a) + Len(b)) : whole[i] = Taken(whole[i - 1], (a \o b)[i])
        /\ \A i \in 1..Len(a) : first[i] = Taken(first[i - 1], a[i])
        /\ \A i \in 1..Len(b) : second[i] = Taken(second[i - 1], b[i])
    BY <1>1, <1>2, StepsAre
  <1> HIDE DEF whole, first, second
  <1>4. whole[Len(a)] = Fed(e, a)
    <2> DEFINE Same == {i \in 0..Len(a) : whole[i] = first[i]}
    <2>1. 0 \in Same
      BY <1>3
    <2>3. ASSUME NEW i \in 1..Len(a), i - 1 \in Same PROVE i \in Same
      <3>1. whole[i] = Taken(whole[i - 1], a[i])
        BY <1>1, <1>3
      <3> QED
        BY <1>3, <2>3, <3>1
    <2> HIDE DEF Same
    <2>2. \A i \in 0..Len(a) : i \in Same
      BY <2>1, <2>3, Len(a) \in Nat, Induction
    <2> QED
      BY <1>2, <2>2 DEF Same
  <1>5. whole[Len(a) + Len(b)] = second[Len(b)]
    <2> DEFINE Same == {i \in 0..Len(b) : whole[Len(a) + i] = second[i]}
    <2>1. ASSUME NEW i \in 1..Len(b), i - 1 \in Same PROVE i \in Same
      <3>1. whole[Len(a) + i] = Taken(whole[Len(a) + (i - 1)], b[i])
        BY <1>1, <1>3, Len(a) + i \in 1..(Len(a) + Len(b)), (Len(a) + i) - 1 = Len(a) + (i - 1)
      <3> QED
        BY <1>3, <2>1, <3>1
    <2>2. 0 \in Same
      BY <1>3, <1>4
    <2> HIDE DEF Same
    <2>3. \A i \in 0..Len(b) : i \in Same
      BY <2>1, <2>2, Len(b) \in Nat, Induction
    <2> QED
      BY <2>3 DEF Same
  <1>6. Fed(e, a \o b) = whole[Len(a) + Len(b)]
    BY <1>1 DEF Fed, whole
  <1>7. Fed(Fed(e, a), b) = second[Len(b)]
    BY DEF Fed, second
  <1> QED
    BY <1>5, <1>6, <1>7

LEMMA TakenResized ==
    ASSUME NEW e \in Engine, NEW token \in Token, NEW rows \in Sizes
    PROVE  Taken([e EXCEPT !.rows = rows], token) = [Taken(e, token) EXCEPT !.rows = rows]
  <1> DEFINE d == [e EXCEPT !.rows = rows]
  <1>1. d \in Engine
    BY DEF Engine
  <1>2. /\ d.params = e.params /\ d.entered = e.entered /\ d.primary = e.primary
        /\ d.drawn = e.drawn /\ d.rows = rows
    BY DEF Engine
  <1> HIDE DEF d
  <1>3. Taken(d, token) = [Taken(e, token) EXCEPT !.rows = rows]
    BY <1>1, <1>2, TakenIs DEF EngineOf, Printing, Entering, Leaving, Params
  <1> QED
    BY <1>3 DEF d

\* A resize neither disturbs nor is disturbed by a sequence.
LEMMA FedResized ==
    ASSUME NEW e \in Engine, NEW data \in Seq(Token), NEW rows \in Sizes
    PROVE  /\ [e EXCEPT !.rows = rows] \in Engine
           /\ Fed([e EXCEPT !.rows = rows], data) = [Fed(e, data) EXCEPT !.rows = rows]
  <1> DEFINE d == [e EXCEPT !.rows = rows]
             n == Len(data)
             sized == Steps(d, data)
             s == Steps(e, data)
             Same == {i \in 0..n : sized[i] = [s[i] EXCEPT !.rows = rows]}
  <1>1. d \in Engine
    BY DEF Engine
  <1>3. /\ sized[0] = d /\ s[0] = e
        /\ \A i \in 0..n : s[i] \in Engine
        /\ \A i \in 1..n : /\ sized[i] = Taken(sized[i - 1], data[i])
                            /\ s[i] = Taken(s[i - 1], data[i])
    BY <1>1, StepsAre
  <1> HIDE DEF sized, s
  <1>4. ASSUME NEW i \in 1..n, i - 1 \in Same PROVE i \in Same
    <2>1. data[i] \in Token /\ s[i - 1] \in Engine
      BY <1>3
    <2>2. sized[i - 1] = [s[i - 1] EXCEPT !.rows = rows]
      BY <1>4
    <2>3. sized[i] = [s[i] EXCEPT !.rows = rows]
      <3>1. sized[i] = Taken(sized[i - 1], data[i]) /\ s[i] = Taken(s[i - 1], data[i])
        BY <1>3
      <3> QED
        BY <2>1, <2>2, <3>1, TakenResized
    <2> QED
      BY <2>3
  <1>5. 0 \in Same /\ n \in Nat
    BY <1>3
  <1> HIDE DEF Same
  <1>6. \A i \in 0..n : i \in Same
    <2> HIDE DEF n
    <2> QED
      BY <1>4, <1>5, Induction
  <1>7. sized[n] = [s[n] EXCEPT !.rows = rows]
    <2> HIDE DEF n
    <2> QED
      BY <1>5, <1>6 DEF Same
  <1> QED
    BY <1>1, <1>7 DEF Fed, sized, s

LEMMA LooksAre ==
    ASSUME engine \in Engine, frozen \in Screen \cup {None}, NEW data \in Seq(Token)
    PROVE  /\ Looks(data) \in [0..Len(data) -> Screen \cup {None}]
           /\ Looks(data)[0] = frozen
           /\ \A i \in 1..Len(data) :
                Looks(data)[i] = IF Freezes(Steps(engine, data)[i - 1], data, i)
                                 THEN Active(Steps(engine, data)[i - 1]) ELSE Looks(data)[i - 1]
  <1> DEFINE n == Len(data)
             e == Steps(engine, data)
             Shows == Screen \cup {None}
             Is(f) == f = [i \in 0..n |->
                              IF i = 0 THEN frozen
                              ELSE IF Freezes(e[i - 1], data, i) THEN Active(e[i - 1]) ELSE f[i - 1]]
             next == [i \in 1..n |->
                         [v \in Shows |-> IF Freezes(e[i - 1], data, i) THEN Active(e[i - 1]) ELSE v]]
  <1>1. \A i \in 1..n : Active(e[i - 1]) \in Screen
    <2>1. \A d \in Engine : Active(d) \in Screen
      BY DEF Active, Screen, Alternate, Engine
    <2>2. \A i \in 1..n : e[i - 1] \in Engine
      BY StepsAre
    <2> QED
      BY <2>1, <2>2
  <1> HIDE DEF e
  <1>2. n \in Nat /\ frozen \in Shows /\ next \in [1..n -> [Shows -> Shows]]
    BY <1>1
  <1>3. PICK f \in [0..n -> Shows] : f[0] = frozen /\ \A i \in 1..n : f[i] = next[i][f[i - 1]]
    <2> HIDE DEF next, n, Shows
    <2> HIDE DEF Is
    <2> QED
      BY ONLY <1>2, Recursion, SMTT(30)
  <1>4. ASSUME NEW i \in 1..n
        PROVE  f[i] = IF Freezes(e[i - 1], data, i) THEN Active(e[i - 1]) ELSE f[i - 1]
    <2>1. f[i - 1] \in Shows /\ f[i] = next[i][f[i - 1]]
      <3> HIDE DEF next
      <3> QED
        BY <1>2, <1>3
    <2>2. next[i] = [v \in Shows |-> IF Freezes(e[i - 1], data, i) THEN Active(e[i - 1]) ELSE v]
      BY <1>2
    <2> HIDE DEF next
    <2> QED
      BY <2>1, <2>2
  <1>5. Is(f)
    BY <1>2, <1>3, <1>4
  <1>6. Looks(data) = CHOOSE s : Is(s)
    BY DEF Looks, e
  <1>7. Is(Looks(data))
    <2> HIDE DEF Is
    <2> QED
      BY <1>5, <1>6
  <1> DEFINE s == Looks(data)
             Good == {i \in 0..n : s[i] \in Shows}
  <1>8. /\ s[0] = frozen
        /\ \A i \in 1..n :
              s[i] = IF Freezes(e[i - 1], data, i) THEN Active(e[i - 1]) ELSE s[i - 1]
    BY <1>2, <1>7
  <1>9. s = [i \in 0..n |-> s[i]]
    BY <1>7
  <1>10. \A i \in 0..n : i \in Good
    <2>1. 0 \in Good /\ \A i \in 1..n : i - 1 \in Good => i \in Good
      BY <1>1, <1>2, <1>8
    <2> HIDE DEF Good, n
    <2> QED
      BY <1>2, <2>1, Induction
  <1> QED
    BY <1>8, <1>9, <1>10 DEF e

--------------------------------------------------------------------------------
\* What is kept between two feeds.

\* The sequence the engine is in the middle of, if it is short enough to be looked at, is
\* held back with its start.
Boundary ==
    IF held = <<>> THEN engine.params \notin 0..ParamBound ELSE NeedsMore(held, 1)

\* While the alternate screen is active, what is frozen is the primary one under it.
FrozenIsPrimary ==
    Alternate(engine) /\ engine.entered <= ParamBound
        => frozen = [alternate |-> FALSE, lines |-> engine.primary]

MirrorInv ==
    /\ engine \in Engine /\ sent \in Engine
    /\ frozen \in Screen \cup {None}
    /\ held \in Seq(Token)
    /\ Boundary
    /\ FrozenIsPrimary
    /\ ~Alternate(engine) /\ held = <<>> => frozen = None
    /\ HeldIsOnlyDelay

\* Where feed cuts.
LEMMA CutIs ==
    ASSUME NEW data \in Seq(Token)
    PROVE  /\ Cut(data) \in 0..Len(data)
           /\ Cut(data) = Len(data) => \A i \in 1..Len(data) : ~NeedsMore(data, i)
           /\ Cut(data) # Len(data) => NeedsMore(data, Cut(data) + 1)
  <1> DEFINE cuts == {i \in 1..Len(data) : NeedsMore(data, i)}
  <1>1. CASE cuts = {}
    BY <1>1 DEF Cut
  <1>2. CASE cuts # {}
    <2> DEFINE i == CHOOSE i \in cuts : TRUE
    <2>1. i \in cuts
      BY <1>2
    <2>2. Cut(data) = i - 1
      BY <1>2 DEF Cut
    <2> HIDE DEF i
    <2> QED
      BY <2>1, <2>2
  <1> QED
    BY <1>1, <1>2

LEMMA PartsOf ==
    ASSUME NEW data \in Seq(Token), NEW cut \in 0..Len(data)
    PROVE  /\ SubSeq(data, 1, cut) \in Seq(Token)
           /\ Len(SubSeq(data, 1, cut)) = cut
           /\ \A i \in 1..cut : SubSeq(data, 1, cut)[i] = data[i]
           /\ SubSeq(data, cut + 1, Len(data)) \in Seq(Token)
           /\ Len(SubSeq(data, cut + 1, Len(data))) = Len(data) - cut
           /\ \A i \in 1..(Len(data) - cut) :
                  SubSeq(data, cut + 1, Len(data))[i] = data[cut + i]
           /\ data = SubSeq(data, 1, cut) \o SubSeq(data, cut + 1, Len(data))
  <1> DEFINE a == SubSeq(data, 1, cut)
             b == SubSeq(data, cut + 1, Len(data))
  <1>1. /\ a \in Seq(Token) /\ Len(a) = cut
        /\ \A i \in 1..cut : a[i] = data[i]
    BY SubSeqProperties
  <1>2. /\ b \in Seq(Token) /\ Len(b) = Len(data) - cut
        /\ \A i \in 1..(Len(data) - cut) : b[i] = data[cut + i]
    BY SubSeqProperties
  <1>3. data = a \o b
    <2>1. SubSeq(data, 1, Len(data)) = data
      BY SubSeqFull
    <2>2. /\ 1 \in 1..(Len(data) + 1) /\ cut \in (1 - 1)..Len(data)
          /\ Len(data) \in cut..Len(data)
      OBVIOUS
    <2>3. a \o b = SubSeq(data, 1, Len(data))
      BY <2>2, ConcatAdjacentSubSeq, Zenon
    <2> QED
      BY <2>1, <2>3
  <1> QED
    BY <1>1, <1>2, <1>3

\* The engine is in the middle of a sequence that is short enough only if the sequence is
\* the end of what was fed, or it was before.
LEMMA MiddleIsStart ==
    ASSUME NEW e \in Engine, NEW data \in Seq(Token),
           e.params \notin 0..ParamBound \/ (data # <<>> => data[1] = "start")
    PROVE  \A i \in 1..Len(data) :
              LET p == Steps(e, data)[i].params
              IN  p \in 0..ParamBound =>
                    /\ p < i
                    /\ data[i - p] = "start"
                    /\ \A k \in (i - p + 1)..i : data[k] = "alternate"
  <1> DEFINE n == Len(data)
             p(i) == Steps(e, data)[i].params
             Good == {i \in 0..n : i > 0 /\ p(i) \in 0..ParamBound =>
                          /\ p(i) < i
                          /\ data[i - p(i)] = "start"
                          /\ \A k \in (i - p(i) + 1)..i : data[k] = "alternate"}
  <1>1. \A i \in 0..n : p(i) \in Int /\ p(i) >= -1
    BY StepsAre, MirrorAssumption DEF Engine
  <1>2. \A i \in 1..n : /\ p(i) = Params(Steps(e, data)[i - 1], data[i])
                        /\ data[i] \in Token
    <2> SUFFICES ASSUME NEW i \in 1..n
                 PROVE  p(i) = Params(Steps(e, data)[i - 1], data[i]) /\ data[i] \in Token
      OBVIOUS
    <2>1. Steps(e, data)[i - 1] \in Engine /\ data[i] \in Token
      BY StepsAre
    <2>2. Steps(e, data)[i] = Taken(Steps(e, data)[i - 1], data[i])
      BY StepsAre
    <2> QED
      BY <2>1, <2>2, TakenIs DEF EngineOf
  <1>3. p(0) = e.params
    BY StepsAre
  <1>4. \A i \in 1..n :
          p(i) = IF data[i] = "start" THEN 0
                 ELSE IF data[i] # "alternate" \/ p(i - 1) = -1 THEN -1
                 ELSE IF p(i - 1) > ParamBound THEN p(i - 1) ELSE p(i - 1) + 1
    BY <1>2 DEF Params
  <1> HIDE DEF p
  <1>5. ASSUME NEW i \in 1..n, i - 1 \in Good PROVE i \in Good
    <2> SUFFICES ASSUME p(i) \in 0..ParamBound
                 PROVE  /\ p(i) < i
                        /\ data[i - p(i)] = "start"
                        /\ \A k \in (i - p(i) + 1)..i : data[k] = "alternate"
      OBVIOUS
    <2>1. CASE data[i] = "start"
      BY <1>4, <2>1
    <2>2. CASE data[i] # "start"
      <3>1. /\ data[i] = "alternate"
            /\ p(i) = p(i - 1) + 1
            /\ p(i - 1) \in 0..ParamBound
        BY <1>1, <1>4, <2>2, MirrorAssumption
      <3>2. i - 1 > 0
        BY <1>3, <2>2, <3>1
      <3>3. /\ p(i - 1) < i - 1
            /\ data[(i - 1) - p(i - 1)] = "start"
            /\ \A k \in ((i - 1) - p(i - 1) + 1)..(i - 1) : data[k] = "alternate"
        BY <1>5, <3>1, <3>2
      <3>4. i - p(i) = (i - 1) - p(i - 1)
        BY <3>1
      <3> QED
        BY <3>1, <3>3, <3>4
    <2> QED
      BY <2>1, <2>2
  <1>6. 0 \in Good /\ n \in Nat
    OBVIOUS
  <1> HIDE DEF Good, n
  <1>7. \A i \in 0..n : i \in Good
    BY <1>5, <1>6, Induction
  <1> QED
    BY <1>7 DEF Good, p, n

\* The engine, along what feed does not hold back.
LEMMA LooksFrozen ==
    ASSUME engine \in Engine, frozen \in Screen \cup {None}, FrozenIsPrimary,
           NEW data \in Seq(Token),
           engine.params \notin 0..ParamBound \/ (data # <<>> => data[1] = "start")
    PROVE  /\ Fed(engine, data) \in Engine
           /\ Looks(data)[Len(data)] \in Screen \cup {None}
           /\ Alternate(Fed(engine, data)) /\ Fed(engine, data).entered <= ParamBound
                => Looks(data)[Len(data)]
                      = [alternate |-> FALSE, lines |-> Fed(engine, data).primary]
  <1> DEFINE n == Len(data)
             e == Steps(engine, data)
             kept == Looks(data)
             Good == {i \in 0..n : e[i].entered > 0 /\ e[i].entered <= ParamBound
                                      => kept[i] = [alternate |-> FALSE, lines |-> e[i].primary]}
  <1>1. /\ n \in Nat /\ e \in [0..n -> Engine] /\ e[0] = engine
        /\ \A i \in 1..n : e[i] = Taken(e[i - 1], data[i]) /\ data[i] \in Token
    BY StepsAre
  <1>2. /\ kept \in [0..n -> Screen \cup {None}] /\ kept[0] = frozen
        /\ \A i \in 1..n : kept[i] = IF Freezes(e[i - 1], data, i) THEN Active(e[i - 1])
                                      ELSE kept[i - 1]
    BY LooksAre
  <1>3. \A i \in 1..n : e[i].params \in 0..ParamBound =>
            /\ e[i].params < i
            /\ data[i - e[i].params] = "start"
            /\ \A k \in (i - e[i].params + 1)..i : data[k] = "alternate"
    BY MiddleIsStart
  <1>4. Fed(engine, data) = e[n]
    BY DEF Fed
  <1>5. engine.params \in 0..ParamBound /\ n > 0 => data[1] = "start"
    BY <1>1
  <1> HIDE DEF e, kept, n
  <1>6. ASSUME NEW i \in 1..n, i - 1 \in Good PROVE i \in Good
    <2> SUFFICES ASSUME e[i].entered > 0, e[i].entered <= ParamBound
                 PROVE  kept[i] = [alternate |-> FALSE, lines |-> e[i].primary]
      BY <1>1
    <2> DEFINE d == e[i - 1]
    <2>1. d \in Engine /\ data[i] \in Token /\ e[i] = Taken(d, data[i])
      BY <1>1
    <2>2. /\ d.params \in Int /\ d.params >= -1 /\ d.entered \in Nat /\ d.primary \in Nat
      BY <2>1, MirrorAssumption DEF Engine
    <2>3. /\ e[i].entered = IF Entering(d, data[i]) THEN d.params
                            ELSE IF Leaving(d, data[i]) THEN 0 ELSE d.entered
          /\ e[i].primary = IF Printing(d, data[i]) /\ d.entered = 0 THEN d.primary + 1
                            ELSE d.primary
      BY <2>1, TakenIs DEF EngineOf
    <2>4. kept[i] = IF Freezes(d, data, i) THEN Active(d) ELSE kept[i - 1]
      BY <1>2
    <2> HIDE DEF d
    <2>5. CASE Entering(d, data[i])
      <3>1. /\ data[i] = "set" /\ d.params > 0 /\ d.entered = 0 /\ d.params <= ParamBound
            /\ e[i].primary = d.primary
        BY <2>2, <2>3, <2>5 DEF Entering, Printing
      <3>2. i - 1 > 0
        BY <1>1, <1>5, <2>2, <3>1, MirrorAssumption DEF d
      <3>3. /\ d.params < i - 1
            /\ data[(i - 1) - d.params] = "start"
            /\ \A k \in ((i - 1) - d.params + 1)..(i - 1) : data[k] = "alternate"
        <4>1. i - 1 \in 1..n /\ d.params \in 0..ParamBound
          BY <1>1, <2>2, <3>1, <3>2, MirrorAssumption
        <4> QED
          BY <1>3, <4>1 DEF d
      <3>4. Enters(data, i)
        <4> DEFINE start == (i - 1) - d.params
        <4>1. start \in 1..(i - 2) /\ data[start] = "start"
          BY <2>2, <3>1, <3>3
        <4>2. Parameters(data, start + 1, i - 1)
          BY <2>2, <3>1, <3>3, MirrorAssumption DEF Parameters
        <4> HIDE DEF start
        <4> QED
          BY <3>1, <4>1, <4>2 DEF Enters
      <3>5. Freezes(d, data, i)
        BY <2>2, <3>1, <3>4 DEF Freezes, Alternate
      <3>6. (d.entered > 0) = FALSE
        BY <3>1
      <3>7. Active(d) = [alternate |-> FALSE, lines |-> d.primary]
        BY <3>6 DEF Active, Alternate
      <3> QED
        BY <2>4, <3>1, <3>5, <3>7
    <2>6. CASE ~Entering(d, data[i])
      <3>1. d.entered > 0 /\ d.entered <= ParamBound /\ e[i].primary = d.primary
        BY <2>2, <2>3, <2>6
      <3>2. ~Freezes(d, data, i)
        BY <3>1 DEF Freezes, Alternate
      <3>3. kept[i - 1] = [alternate |-> FALSE, lines |-> d.primary]
        BY <1>6, <3>1 DEF d
      <3> QED
        BY <2>4, <3>1, <3>2, <3>3
    <2> QED
      BY <2>5, <2>6
  <1>7. 0 \in Good
    BY <1>1, <1>2 DEF FrozenIsPrimary, Alternate
  <1> HIDE DEF Good
  <1>8. \A i \in 0..n : i \in Good
    BY <1>1, <1>6, <1>7, Induction
  <1>9. n \in Good
    BY <1>1, <1>8
  <1> QED
    BY <1>1, <1>2, <1>4, <1>9 DEF Good, kept, n, Alternate

\* Where feed returns, the engine is in the middle of a sequence it looks at only if the
\* rest begins a new one.
LEMMA CutEndsSequence ==
    ASSUME NEW e \in Engine, NEW data \in Seq(Token),
           e.params \notin 0..ParamBound \/ (data # <<>> => data[1] = "start"),
           \A i \in 1..Len(data) : ~NeedsMore(data, i)
    PROVE  data # <<>> \/ e.params \notin 0..ParamBound =>
              Fed(e, data).params \notin 0..ParamBound
  <1> DEFINE n == Len(data)
             p == Fed(e, data).params
  <1>1. CASE data = <<>>
    BY <1>1, FedNothing
  <1>2. CASE data # <<>>
    <2> SUFFICES ASSUME p \in 0..ParamBound PROVE FALSE
      OBVIOUS
    <2>1. n \in 1..n
      BY <1>2, EmptySeq
    <2>2. p = Steps(e, data)[n].params
      BY DEF Fed
    <2>3. /\ p < n /\ data[n - p] = "start"
          /\ \A k \in (n - p + 1)..n : data[k] = "alternate"
      BY <2>1, <2>2, MiddleIsStart
    <2> HIDE DEF p
    <2>4. NeedsMore(data, n - p)
      BY <2>1, <2>3, MirrorAssumption DEF NeedsMore, Parameters
    <2>5. n - p \in 1..n
      BY <2>1, <2>3
    <2> QED
      BY <2>4, <2>5
  <1> QED
    BY <1>1, <1>2

\* A feed hands the engine what came, but for what it holds back, and freezes the primary
\* screen when it enters the alternate one.
LEMMA FeedKeeps ==
    ASSUME MirrorInv, NEW chunk \in Seq(Token), Feed(chunk)
    PROVE  MirrorInv'
  <1> DEFINE data == held \o chunk
             cut == Cut(data)
             taken == SubSeq(data, 1, cut)
             rest == SubSeq(data, cut + 1, Len(data))
  <1>1. /\ engine \in Engine /\ sent \in Engine /\ frozen \in Screen \cup {None}
        /\ held \in Seq(Token) /\ Boundary /\ FrozenIsPrimary
        /\ Fed(engine, held) = sent
    BY DEF MirrorInv, HeldIsOnlyDelay
  <1>2. /\ data \in Seq(Token) /\ Len(data) = Len(held) + Len(chunk)
        /\ \A i \in 1..Len(held) : data[i] = held[i]
    BY <1>1, ConcatProperties
  <1> HIDE DEF data
  <1>3. /\ cut \in 0..Len(data)
        /\ cut = Len(data) => \A i \in 1..Len(data) : ~NeedsMore(data, i)
        /\ cut # Len(data) => NeedsMore(data, cut + 1)
    BY <1>2, CutIs
  <1> HIDE DEF cut
  <1>4. /\ taken \in Seq(Token) /\ Len(taken) = cut /\ \A i \in 1..cut : taken[i] = data[i]
        /\ rest \in Seq(Token) /\ Len(rest) = Len(data) - cut
        /\ \A i \in 1..(Len(data) - cut) : rest[i] = data[cut + i]
        /\ data = taken \o rest
    BY <1>2, <1>3, PartsOf
  <1> HIDE DEF taken, rest
  <1>5. /\ engine' = Fed(engine, taken) /\ held' = rest /\ sent' = Fed(sent, chunk)
        /\ frozen' = IF held' = <<>> /\ ~Alternate(engine') THEN None
                     ELSE Looks(taken)[Len(taken)]
    BY DEF Feed, Looked, data, cut, taken, rest
  <1>6. engine.params \notin 0..ParamBound \/ (taken # <<>> => taken[1] = "start")
    <2>1. CASE held = <<>>
      BY <1>1, <2>1 DEF Boundary
    <2>2. CASE held # <<>>
      <3>1. 1 \in 1..Len(held) /\ held[1] = "start"
        BY <1>1, <2>2, EmptySeq DEF Boundary, NeedsMore
      <3>2. taken # <<>> => 1 \in 1..cut
        BY <1>4, EmptySeq
      <3> QED
        BY <1>2, <1>4, <3>1, <3>2
    <2> QED
      BY <2>1, <2>2
  <1>7. /\ engine' \in Engine /\ sent' \in Engine /\ held' \in Seq(Token)
        /\ frozen' \in Screen \cup {None} /\ FrozenIsPrimary'
        /\ ~Alternate(engine)' /\ held' = <<>> => frozen' = None
    <2>1. /\ engine' \in Engine
          /\ Looks(taken)[Len(taken)] \in Screen \cup {None}
          /\ Alternate(engine') /\ engine'.entered <= ParamBound
                => Looks(taken)[Len(taken)] = [alternate |-> FALSE, lines |-> engine'.primary]
      BY <1>1, <1>4, <1>5, <1>6, LooksFrozen
    <2>2. sent' \in Engine
      BY <1>1, <1>5, FedIs
    <2> QED
      BY <1>4, <1>5, <2>1, <2>2 DEF FrozenIsPrimary, Alternate
  <1>8. HeldIsOnlyDelay'
    <2>1. Fed(Fed(engine, taken), rest) = Fed(engine, data)
      BY <1>1, <1>4, FedTogether
    <2>2. Fed(engine, data) = Fed(Fed(engine, held), chunk)
      BY <1>1, FedTogether DEF data
    <2> QED
      BY <1>1, <1>5, <2>1, <2>2 DEF HeldIsOnlyDelay
  <1>9. Boundary'
    <2>1. CASE cut # Len(data)
      <3>1. NeedsMore(data, cut + 1)
        BY <1>3, <2>1
      <3>2. rest # <<>> /\ rest[1] = data[cut + 1]
        BY <1>3, <1>4, <2>1
      <3>3. NeedsMore(rest, 1)
        BY <1>2, <1>3, <1>4, <2>1, <3>1, <3>2, MirrorAssumption DEF NeedsMore, Parameters
      <3> QED
        BY <1>5, <3>2, <3>3 DEF Boundary
    <2>2. CASE cut = Len(data)
      <3>1. rest = <<>>
        BY <1>4, <2>2, EmptySeq
      <3>2. taken = data
        BY <1>2, <1>4, <2>2, <3>1, ConcatEmptySeq
      <3>3. data = <<>> => held = <<>>
        BY <1>1, <1>2, EmptySeq
      <3>4. data # <<>> \/ engine.params \notin 0..ParamBound
        BY <1>1, <3>3 DEF Boundary
      <3>5. engine'.params \notin 0..ParamBound
        BY <1>1, <1>2, <1>3, <1>5, <1>6, <2>2, <3>2, <3>4, CutEndsSequence
      <3> QED
        BY <1>5, <3>1, <3>5 DEF Boundary
    <2> QED
      BY <2>1, <2>2
  <1> QED
    BY <1>7, <1>8, <1>9 DEF MirrorInv

LEMMA MirrorKeeps ==
    ASSUME MirrorInv,
           \/ \E rows \in Sizes : ResizeMirror(rows) \/ RefillMirror(rows)
           \/ UNCHANGED mirrorVars
    PROVE  MirrorInv'
  <1>1. ASSUME NEW rows \in Sizes, ResizeMirror(rows) PROVE MirrorInv'
    <2>1. /\ engine' = [engine EXCEPT !.rows = rows] /\ sent' = [sent EXCEPT !.rows = rows]
          /\ frozen' = frozen /\ held' = held
      BY <1>1 DEF ResizeMirror
    <2>2. engine \in Engine /\ sent \in Engine /\ held \in Seq(Token) /\ Fed(engine, held) = sent
      BY DEF MirrorInv, HeldIsOnlyDelay
    <2>3. engine' \in Engine /\ sent' \in Engine /\ HeldIsOnlyDelay'
      <3>1. /\ [engine EXCEPT !.rows = rows] \in Engine
            /\ Fed([engine EXCEPT !.rows = rows], held) = [Fed(engine, held) EXCEPT !.rows = rows]
        BY <2>2, FedResized
      <3>2. [sent EXCEPT !.rows = rows] \in Engine
        BY <2>2 DEF Engine
      <3> QED
        BY <2>1, <2>2, <3>1, <3>2 DEF HeldIsOnlyDelay
    <2>4. /\ engine'.params = engine.params /\ engine'.entered = engine.entered
          /\ engine'.primary = engine.primary
      BY <2>1, <2>2 DEF Engine
    <2> QED
      BY <2>1, <2>3, <2>4 DEF MirrorInv, Boundary, FrozenIsPrimary, Alternate
  <1>2. ASSUME NEW rows \in Sizes, RefillMirror(rows) PROVE MirrorInv'
    <2>1. NewEngine(rows) \in Engine
      BY MirrorAssumption DEF NewEngine, Engine
    <2>2. Fed(NewEngine(rows), <<>>) = NewEngine(rows)
      BY <2>1, FedNothing
    <2> QED
      BY <1>2, <2>1, <2>2
      DEF RefillMirror, MirrorInv, HeldIsOnlyDelay, Boundary, FrozenIsPrimary, Alternate, NewEngine
  <1>3. CASE UNCHANGED mirrorVars
    BY <1>3
    DEF mirrorVars, MirrorInv, HeldIsOnlyDelay, Boundary, FrozenIsPrimary, Alternate, NeedsMore,
        Parameters
  <1> QED
    BY <1>1, <1>2, <1>3

LEMMA InitMirror ==
    ASSUME NEW rows \in Sizes, NewMirror(rows)
    PROVE  MirrorInv
  <1>1. NewEngine(rows) \in Engine
    BY MirrorAssumption DEF NewEngine, Engine
  <1>2. Fed(NewEngine(rows), <<>>) = NewEngine(rows)
    BY <1>1, FedNothing
  <1> QED
    BY <1>1, <1>2
    DEF NewMirror, MirrorInv, HeldIsOnlyDelay, Boundary, FrozenIsPrimary, Alternate, NewEngine

LEMMA MirrorStep == MirrorInv /\ [Next]_vars => MirrorInv'
  <1> SUFFICES ASSUME MirrorInv, [Next]_vars PROVE MirrorInv'
    OBVIOUS
  <1>1. ASSUME NEW chunk \in Chunks, Output(chunk) PROVE MirrorInv'
    <2>1. chunk \in Seq(Token) /\ Feed(chunk)
      BY <1>1, SubscribersAssumption DEF Output
    <2> QED
      BY <2>1, FeedKeeps
  <1>2. ASSUME NEW rows \in Sizes, Resize(rows) \/ Replace(rows) PROVE MirrorInv'
    BY <1>2, MirrorKeeps DEF Resize, Replace
  <1>3. ASSUME NEW r \in Requests,
               \/ \E s \in Subscribers, offset \in Offsets : ReadFrame(r, s, offset)
               \/ RecordBaseline(r) \/ Answer(r) \/ Lose(r)
        PROVE  MirrorInv'
    <2>1. UNCHANGED mirrorVars
      BY <1>3 DEF ReadFrame, RecordBaseline, Answer, Lose, Replied
    <2> QED
      BY <2>1, MirrorKeeps
  <1>4. CASE UNCHANGED vars
    BY <1>4, MirrorKeeps DEF vars
  <1> QED
    BY <1>1, <1>2, <1>3, <1>4 DEF Next

LEMMA MirrorInvariance == Spec => []MirrorInv
  <1>1. Init => MirrorInv
    BY InitMirror DEF Init
  <1> QED
    BY <1>1, MirrorStep, PTL DEF Spec

\* Whatever the owner sends, cut wherever, through resizes and replaced sessions: the
\* engine and what is held back are the output, nothing lost and nothing twice.
THEOREM HeldOnlyDelays == Spec => []HeldIsOnlyDelay
  BY MirrorInvariance, PTL DEF MirrorInv

\* A snapshot restores both screens: what is frozen under the alternate screen is the
\* primary one, unless the sequence that entered it was longer than is looked at.
THEOREM SnapshotsRestore == Spec => []RehydrateRestores
  <1>1. MirrorInv => RehydrateRestores
    <2> SUFFICES ASSUME MirrorInv PROVE RehydrateRestores
      OBVIOUS
    <2>1. CASE Alternate(engine)
      BY <2>1 DEF MirrorInv, FrozenIsPrimary, RehydrateRestores, Rehydrate
    <2>2. CASE ~Alternate(engine)
      <3>1. Active(engine) = [alternate |-> FALSE, lines |-> engine.primary]
        <4>1. (engine.entered > 0) = FALSE
          BY <2>2 DEF Alternate
        <4> QED
          BY <4>1 DEF Active, Alternate
      <3> QED
        BY <2>2, <3>1 DEF MirrorInv, RehydrateRestores, Rehydrate
    <2> QED
      BY <2>1, <2>2
  <1> QED
    BY <1>1, MirrorInvariance, PTL

--------------------------------------------------------------------------------
\* What the table, the requests and the pictures hold.

TableInv ==
    /\ tick \in Nat
    /\ baselines \in [Subscribers -> FrameBaseline \cup {None}]
    /\ \A s \in Subscribed : baselines[s].last_used \in 1..tick
    /\ \A s, t \in Subscribed : baselines[s].last_used = baselines[t].last_used => s = t
    /\ IsFiniteSet(Subscribed)
    /\ Cardinality(Subscribed) <= MaxSubscribers

RequestInv ==
    /\ request \in [Requests -> Request \cup {None}]
    /\ \A r \in Requests : Made(r) =>
          /\ request[r].made <= tick
          /\ request[r].reply \in Reply
          /\ request[r].reply.changed \subseteq DOMAIN request[r].frame.lines
    /\ overtaken \subseteq {r \in Requests : Made(r)}

PictureInv ==
    /\ picture = [s \in Subscribers |-> picture[s]]
    /\ \A s \in Subscribers : picture[s] # None => Folded(picture[s])

CountInv ==
    /\ applied \in 0..fed
    /\ fed \in 0..MaxFed
    /\ asked \in 0..MaxAsked
    /\ astray \subseteq Subscribers

TypeInv == MirrorInv /\ TableInv /\ RequestInv /\ PictureInv /\ CountInv

LEMMA TypesByPart == TypeInv => TypeOK
  <1> SUFFICES ASSUME TypeInv PROVE TypeOK
    OBVIOUS
  <1>1. held # <<>> => Len(held) <= ParamBound + 1
    <2> SUFFICES ASSUME held # <<>> PROVE Len(held) <= ParamBound + 1
      OBVIOUS
    <2>1. held \in Seq(Token) /\ NeedsMore(held, 1)
      BY DEF TypeInv, MirrorInv, Boundary
    <2> QED
      BY <2>1, MirrorAssumption DEF NeedsMore, Parameters
  <1>2. MirrorTypeOK
    BY <1>1 DEF TypeInv, MirrorInv, MirrorTypeOK, Boundary
  <1> QED
    BY <1>2 DEF TypeInv, TableInv, RequestInv, PictureInv, CountInv, TypeOK

\* What frame_at reads.
LEMMA FrameTyped ==
    ASSUME engine \in Engine, applied \in 0..MaxFed, NEW offset \in Nat
    PROVE  FrameRead(offset) \in Frame
  <1> DEFINE history == HistorySize(engine)
             scrolled == IF offset > history THEN history ELSE offset
             top == (IF Alternate(engine) THEN 0 ELSE history) - scrolled
             shown == Active(engine).lines
             lines == [y \in 1..engine.rows |-> IF top + y <= shown THEN top + y ELSE 0]
  <1>1. /\ engine.rows \in Sizes /\ engine.rows \in Nat /\ engine.primary \in Nat
        /\ engine.drawn \in Nat
    BY MirrorAssumption DEF Engine
  <1>2. history \in Nat /\ (Alternate(engine) => history = 0)
    BY <1>1 DEF HistorySize
  <1>3. scrolled \in Nat /\ top \in Nat
    BY <1>2
  <1>4. shown \in Nat /\ Active(engine).alternate \in BOOLEAN
    BY <1>1 DEF Active, Alternate
  <1>5. lines \in Seq(Nat)
    <2> HIDE DEF top, shown
    <2> QED
      BY <1>1, <1>3, <1>4
  <1>6. FrameAt(offset) = [rows |-> engine.rows, alternate |-> Active(engine).alternate,
                           offset |-> scrolled, lines |-> lines]
    BY DEF FrameAt
  <1> HIDE DEF scrolled, lines
  <1> QED
    BY <1>1, <1>3, <1>4, <1>5, <1>6 DEF Frame, FrameRead

\* A reply names rows of its frame.
LEMMA DeltaTyped ==
    ASSUME NEW frame \in Frame, NEW baseline
    PROVE  /\ Delta(baseline, frame) \in Reply
           /\ Delta(baseline, frame).changed \subseteq DOMAIN frame.lines
  <1>1. frame.lines \in Seq(Nat)
    BY DEF Frame
  <1>2. DOMAIN frame.lines \subseteq Nat
    BY <1>1
  <1> QED
    BY <1>2 DEF Delta, Reply

\* There is a baseline that was used before all others, and it leaves the table.
LEMMA OldestKept ==
    ASSUME TableInv, Subscribed # {}
    PROVE  Oldest \in Subscribed
  <1> DEFINE used == {baselines[s].last_used : s \in Subscribed}
  <1>1. used \in SUBSET Nat /\ used # {}
    BY DEF TableInv
  <1>2. PICK n \in used : \A m \in used : n <= m
    BY <1>1, Least
  <1>3. PICK s \in Subscribed : n = baselines[s].last_used
    BY <1>2
  <1>4. \A other \in Subscribed : baselines[s].last_used <= baselines[other].last_used
    BY <1>2, <1>3
  <1> QED
    BY <1>4 DEF Oldest

LEMMA RecordedTyped ==
    ASSUME TableInv, NEW s \in Subscribers, NEW frame \in Frame,
           baselines' = Recorded(s, frame), tick' = tick + 1
    PROVE  /\ TableInv'
           /\ baselines'[s] = BaselineOf(frame)
           /\ \A t \in Subscribers \ {s} : baselines'[t] \in {baselines[t], None}
  <1> DEFINE full == s \notin Subscribed /\ Cardinality(Subscribed) >= MaxSubscribers
             gone == IF full THEN {Oldest} ELSE {}
  <1>1. BaselineOf(frame) \in FrameBaseline /\ BaselineOf(frame) # None
    <2>1. BaselineOf(frame) \in FrameBaseline
      BY DEF BaselineOf, Frame, FrameBaseline, TableInv
    <2> QED
      BY <2>1, NoRecordAssumption
  <1>2. /\ tick \in Nat /\ baselines \in [Subscribers -> FrameBaseline \cup {None}]
        /\ IsFiniteSet(Subscribed) /\ Cardinality(Subscribed) \in Nat
        /\ Cardinality(Subscribed) <= MaxSubscribers
    BY FS_CardinalityType DEF TableInv
  <1>3. full => Oldest \in Subscribed
    <2> SUFFICES ASSUME full, Subscribed = {} PROVE FALSE
      BY OldestKept
    <2>1. Cardinality({}) = 0
      BY FS_EmptySet
    <2>2. Cardinality(Subscribed) >= MaxSubscribers /\ MaxSubscribers > 0
      BY SubscribersAssumption
    <2> QED
      BY <2>1, <2>2, SubscribersAssumption
  <1>4. \A t \in Subscribers :
          baselines'[t] = IF t = s THEN BaselineOf(frame)
                          ELSE IF t \in gone THEN None ELSE baselines[t]
    BY <1>2, <1>3 DEF Recorded, Subscribed
  <1>5. baselines' \in [Subscribers -> FrameBaseline \cup {None}]
    BY <1>1, <1>2 DEF Recorded
  <1>6. Subscribed' = (Subscribed \ gone) \cup {s}
    <2>1. s \notin gone
      BY <1>3
    <2> QED
      BY <1>1, <1>4, <2>1 DEF Subscribed
  <1>7. IsFiniteSet(Subscribed') /\ Cardinality(Subscribed') <= MaxSubscribers
    <2>1. CASE full
      <3>1. IsFiniteSet(Subscribed \ {Oldest})
            /\ Cardinality(Subscribed \ {Oldest}) = Cardinality(Subscribed) - 1
        BY <1>2, <1>3, <2>1, FS_RemoveElement
      <3>2. s \notin Subscribed \ {Oldest}
        BY <2>1
      <3> QED
        BY <1>2, <1>6, <2>1, <3>1, <3>2, FS_AddElement
    <2>2. CASE ~full /\ s \in Subscribed
      BY <1>2, <1>6, <2>2
    <2>3. CASE ~full /\ s \notin Subscribed
      <3>1. /\ IsFiniteSet(Subscribed \cup {s})
            /\ Cardinality(Subscribed \cup {s}) = Cardinality(Subscribed) + 1
        BY <1>2, <2>3, FS_AddElement
      <3>2. Subscribed' = Subscribed \cup {s}
        BY <1>6, <2>3
      <3>3. Cardinality(Subscribed) < MaxSubscribers
        BY <1>2, <2>3, SubscribersAssumption
      <3> QED
        BY <1>2, <3>1, <3>2, <3>3, SubscribersAssumption
    <2> QED
      BY <2>1, <2>2, <2>3
  <1>8. /\ \A t \in Subscribed' : baselines'[t].last_used \in 1..tick'
        /\ \A t, u \in Subscribed' : baselines'[t].last_used = baselines'[u].last_used => t = u
    <2>1. BaselineOf(frame).last_used = tick + 1
      BY DEF BaselineOf
    <2>2. \A t \in Subscribed' \ {s} : t \in Subscribed /\ baselines'[t] = baselines[t]
      BY <1>4, <1>6 DEF Subscribed
    <2>3. s \in Subscribed' /\ baselines'[s].last_used = tick + 1
      BY <1>4, <1>6, <2>1
    <2> QED
      BY <1>2, <2>2, <2>3 DEF TableInv
  <1>9. TableInv'
    BY <1>2, <1>5, <1>7, <1>8 DEF TableInv
  <1> QED
    BY <1>4, <1>9

\* What a request is that has been read, or answered.
LEMMA RequestFields ==
    ASSUME RequestInv, NEW r \in Requests, request[r] # None
    PROVE  /\ request[r] \in Request
           /\ request[r].subscriber \in Subscribers
           /\ request[r].frame \in Frame
           /\ request[r].made \in Nat
           /\ request[r] = [subscriber |-> request[r].subscriber, frame |-> request[r].frame,
                            made |-> request[r].made, reply |-> request[r].reply]
  <1>1. request[r] \in Request
    BY DEF RequestInv
  <1> QED
    BY <1>1 DEF Request

LEMMA ReadTyped ==
    ASSUME TypeInv, NEW r \in Requests, NEW s \in Subscribers, NEW offset \in Offsets,
           ReadFrame(r, s, offset)
    PROVE  TypeInv'
  <1> DEFINE new == [subscriber |-> s, frame |-> FrameRead(offset), made |-> 0, reply |-> None]
  <1>1. new \in Request
    <2>1. FrameRead(offset) \in Frame
      <3>1. engine \in Engine /\ applied \in 0..MaxFed /\ offset \in Nat
        BY SubscribersAssumption DEF TypeInv, MirrorInv, CountInv
      <3> QED
        BY <3>1, FrameTyped
    <2> QED
      BY <2>1 DEF Request
  <1>2. \A q \in Requests : request'[q] = IF q = r THEN new ELSE request[q]
    BY DEF ReadFrame, TypeInv, RequestInv
  <1>3. request' \in [Requests -> Request \cup {None}]
    BY <1>1 DEF ReadFrame, TypeInv, RequestInv
  <1>4. request[r] = None /\ tick' = tick /\ overtaken' = overtaken
    BY DEF ReadFrame
  <1>5. \A q \in Requests : Made(q)' <=> Made(q)
    BY <1>2, <1>4 DEF Made
  <1>6. \A q \in Requests : Made(q) => request'[q] = request[q]
    BY <1>2, <1>4 DEF Made
  <1>7. RequestInv'
    <2> HIDE DEF new
    <2> QED
      BY <1>3, <1>4, <1>5, <1>6 DEF TypeInv, RequestInv
  <1>8. TableInv'
    BY DEF ReadFrame, TypeInv, TableInv, Subscribed
  <1>9. PictureInv'
    BY DEF ReadFrame, TypeInv, PictureInv, Folded
  <1>10. CountInv'
    BY SubscribersAssumption DEF ReadFrame, TypeInv, CountInv
  <1> QED
    BY <1>7, <1>8, <1>9, <1>10, MirrorKeeps DEF TypeInv, ReadFrame

\* What recording does to the requests.
LEMMA RecordedRequest ==
    ASSUME TypeInv, NEW r \in Requests, RecordBaseline(r)
    PROVE  /\ request[r] # None
           /\ request'[r] = [subscriber |-> request[r].subscriber, frame |-> request[r].frame,
                             made |-> tick + 1,
                             reply |-> Delta(baselines[request[r].subscriber], request[r].frame)]
           /\ \A q \in Requests \ {r} : request'[q] = request[q]
           /\ request'[r] \in Request /\ request'[r] # None
           /\ request' \in [Requests -> Request \cup {None}]
           /\ ~Made(r) /\ Made(r)'
           /\ \A q \in Requests \ {r} : Made(q)' <=> Made(q)
  <1>1. request \in [Requests -> Request \cup {None}] /\ tick \in Nat
    BY DEF TypeInv, RequestInv, TableInv
  <1>2. request[r] # None /\ request[r].made = 0
    BY DEF RecordBaseline
  <1> DEFINE s == request[r].subscriber
             frame == request[r].frame
             reply == Delta(baselines[s], frame)
             new == [subscriber |-> s, frame |-> frame, made |-> tick + 1, reply |-> reply]
  <1>3. /\ s \in Subscribers /\ frame \in Frame
        /\ request[r] = [subscriber |-> s, frame |-> frame,
                         made |-> 0, reply |-> request[r].reply]
    BY <1>2, RequestFields DEF TypeInv
  <1>4. request' = [request EXCEPT ![r].made = tick + 1, ![r].reply = reply]
    BY DEF RecordBaseline
  <1>5. request'[r] = new
    BY <1>1, <1>3, <1>4
  <1>6. \A q \in Requests \ {r} : request'[q] = request[q]
    BY <1>1, <1>4
  <1>7. reply \in Reply
    BY <1>3, DeltaTyped
  <1>8. new \in Request /\ new # None
    <2>1. new \in Request
      BY <1>1, <1>3, <1>7 DEF Request
    <2> QED
      BY <2>1, NoRecordAssumption
  <1>9. request' \in [Requests -> Request \cup {None}]
    <2>1. request' = [q \in Requests |-> request'[q]]
      BY <1>1, <1>4
    <2> QED
      BY <1>1, <1>5, <1>6, <1>8, <2>1
  <1> QED
    BY <1>1, <1>2, <1>5, <1>6, <1>8, <1>9 DEF Made

LEMMA RecordTyped ==
    ASSUME TypeInv, NEW r \in Requests, RecordBaseline(r)
    PROVE  TypeInv'
  <1> DEFINE s == request[r].subscriber
             frame == request[r].frame
  <1>1. tick' = tick + 1 /\ baselines' = Recorded(s, frame) /\ tick \in Nat
    BY DEF RecordBaseline, TypeInv, TableInv
  <1>2. request[r] # None /\ s \in Subscribers /\ frame \in Frame
    BY RequestFields DEF RecordBaseline, TypeInv
  <1>3. TableInv'
    BY <1>1, <1>2, RecordedTyped DEF TypeInv
  <1>4. /\ request'[r].made = tick + 1
        /\ request'[r].reply = Delta(baselines[s], frame)
        /\ request'[r].frame = frame
    <2>1. request'[r] = [subscriber |-> s, frame |-> frame, made |-> tick + 1,
                         reply |-> Delta(baselines[s], frame)]
      BY RecordedRequest
    <2> QED
      BY <2>1
  <1>5. /\ \A q \in Requests \ {r} : request'[q] = request[q] /\ (Made(q)' <=> Made(q))
        /\ request' \in [Requests -> Request \cup {None}]
        /\ Made(r)'
    BY RecordedRequest
  <1>6. ASSUME NEW q \in Requests, Made(q)'
        PROVE  /\ request'[q].made <= tick'
               /\ request'[q].reply \in Reply
               /\ request'[q].reply.changed \subseteq DOMAIN request'[q].frame.lines
    <2>1. CASE q = r
      BY <1>1, <1>2, <1>4, <2>1, DeltaTyped
    <2>2. CASE q # r
      <3>1. Made(q) /\ request'[q] = request[q]
        BY <1>5, <1>6, <2>2
      <3>2. request[q].made \in Nat
        BY <3>1, RequestFields DEF TypeInv, Made
      <3> QED
        BY <1>1, <3>1, <3>2 DEF TypeInv, RequestInv
    <2> QED
      BY <2>1, <2>2
  <1>7. overtaken' \subseteq {q \in Requests : Made(q)'}
    <2>1. overtaken' = overtaken /\ overtaken \subseteq {q \in Requests : Made(q)}
      BY DEF RecordBaseline, TypeInv, RequestInv
    <2> QED
      BY <1>5, <2>1
  <1>8. RequestInv'
    BY <1>5, <1>6, <1>7 DEF RequestInv
  <1>9. PictureInv'
    BY DEF RecordBaseline, TypeInv, PictureInv, Folded
  <1>10. CountInv'
    BY DEF RecordBaseline, TypeInv, CountInv
  <1> QED
    BY <1>3, <1>8, <1>9, <1>10, MirrorKeeps DEF TypeInv, RecordBaseline

\* What a reply that is written or lost leaves.
LEMMA RepliedTyped ==
    ASSUME TypeInv, NEW r \in Requests, Replied(r)
    PROVE  /\ MirrorInv' /\ TableInv' /\ RequestInv'
           /\ \A q \in Requests \ {r} : request'[q] = request[q]
           /\ \A q \in Requests : Made(q)' <=> Made(q) /\ q # r
           /\ request[r] # None /\ request[r].made > 0
  <1>1. request \in [Requests -> Request \cup {None}]
    BY DEF TypeInv, RequestInv
  <1>2. /\ request'[r] = None
        /\ \A q \in Requests \ {r} : request'[q] = request[q]
        /\ request' \in [Requests -> Request \cup {None}]
    BY <1>1 DEF Replied
  <1>3. \A q \in Requests : Made(q)' <=> Made(q) /\ q # r
    BY <1>2 DEF Made
  <1>4. \A q \in Requests : Made(q)' => request'[q] = request[q]
    BY <1>2, <1>3
  <1>5. overtaken' \subseteq {q \in Requests : Made(q)'}
    BY <1>3 DEF Replied, Earlier, TypeInv, RequestInv
  <1>6. tick' = tick
    BY DEF Replied
  <1>7. RequestInv'
    BY <1>2, <1>3, <1>4, <1>5, <1>6 DEF TypeInv, RequestInv
  <1>8. TableInv'
    BY DEF Replied, TypeInv, TableInv, Subscribed
  <1>9. MirrorInv'
    BY MirrorKeeps DEF TypeInv, Replied
  <1> QED
    BY <1>2, <1>3, <1>7, <1>8, <1>9 DEF Replied, Made

\* A viewer folds rows of the frame into what it had.
LEMMA ApplyTyped ==
    ASSUME NEW frame \in Frame, NEW reply \in Reply, NEW previous,
           reply.changed \subseteq DOMAIN frame.lines,
           ~reply.full => Folded(previous)
    PROVE  Folded(Apply(previous, frame, reply))
  <1>1. Folded(frame)
    <2>1. frame.lines \in Seq(Nat)
      BY DEF Frame
    <2>2. \A y \in DOMAIN frame.lines : y \in Nat /\ frame.lines[y] \in Nat
      BY <2>1
    <2> QED
      BY <2>2 DEF Frame, Folded
  <1>2. CASE reply.full
    BY <1>1, <1>2 DEF Apply
  <1>3. CASE ~reply.full
    <2> DEFINE rows == [y \in reply.changed \cup DOMAIN previous.lines |->
                           IF y \in reply.changed THEN frame.lines[y] ELSE previous.lines[y]]
    <2>1. \A y \in DOMAIN rows : y \in Nat /\ rows[y] \in Nat
      BY <1>1, <1>3 DEF Folded
    <2>2. Apply(previous, frame, reply)
            = [rows |-> frame.rows, alternate |-> frame.alternate, offset |-> frame.offset,
               lines |-> rows, output |-> frame.output]
      <3>1. frame = [rows |-> frame.rows, alternate |-> frame.alternate,
                     offset |-> frame.offset, lines |-> frame.lines, output |-> frame.output]
        BY DEF Frame
      <3> HIDE DEF rows
      <3>2. [frame EXCEPT !.lines = rows]
              = [rows |-> frame.rows, alternate |-> frame.alternate, offset |-> frame.offset,
                 lines |-> rows, output |-> frame.output]
        BY <3>1
      <3> QED
        BY <1>3, <3>2 DEF Apply, rows
    <2> HIDE DEF rows
    <2> QED
      BY <1>1, <2>1, <2>2 DEF Folded
  <1> QED
    BY <1>2, <1>3

LEMMA AnswerTyped ==
    ASSUME TypeInv, NEW r \in Requests, Answer(r) \/ Lose(r)
    PROVE  TypeInv'
  <1> DEFINE s == request[r].subscriber
             reply == request[r].reply
             frame == request[r].frame
  <1>1. Replied(r)
    BY DEF Answer, Lose
  <1>2. /\ MirrorInv' /\ TableInv' /\ RequestInv' /\ request[r] # None /\ Made(r)
    BY <1>1, RepliedTyped DEF Replied
  <1>3. s \in Subscribers /\ frame \in Frame /\ reply \in Reply
        /\ reply.changed \subseteq DOMAIN frame.lines
    BY <1>2, RequestFields DEF TypeInv, RequestInv
  <1>4. CountInv'
    <2>1. astray' \subseteq Subscribers
      BY <1>3 DEF Answer, Lose, TypeInv, CountInv
    <2>2. UNCHANGED <<applied, fed, asked>>
      BY <1>1 DEF Replied
    <2> QED
      BY <2>1, <2>2 DEF TypeInv, CountInv
  <1>5. PictureInv'
    <2>1. PictureInv
      BY DEF TypeInv
    <2>2. CASE UNCHANGED picture
      BY <2>1, <2>2 DEF PictureInv, Folded
    <2>3. CASE ~(UNCHANGED picture)
      <3> DEFINE new == Apply(picture[s], frame, reply)
      <3>1. picture' = [picture EXCEPT ![s] = new] /\ (reply.full \/ picture[s] # None)
        BY <2>3 DEF Answer, Lose
      <3>2. Folded(new)
        BY <1>3, <2>1, <3>1, ApplyTyped DEF PictureInv
      <3> HIDE DEF new
      <3>3. /\ picture' = [t \in Subscribers |-> picture'[t]]
            /\ \A t \in Subscribers : picture'[t] = IF t = s THEN new ELSE picture[t]
        BY <1>3, <2>1, <3>1 DEF PictureInv
      <3>4. \A t \in Subscribers : picture'[t] # None => Folded(picture'[t])
        BY <2>1, <3>2, <3>3 DEF PictureInv
      <3> QED
        BY <3>3, <3>4 DEF PictureInv, Folded
    <2> QED
      BY <2>2, <2>3
  <1> QED
    BY <1>2, <1>4, <1>5 DEF TypeInv

LEMMA TypeStep == TypeInv /\ [Next]_vars => TypeInv'
  <1> SUFFICES ASSUME TypeInv, [Next]_vars PROVE TypeInv'
    OBVIOUS
  <1>1. MirrorInv'
    BY MirrorStep DEF TypeInv
  <1>2. ASSUME UNCHANGED <<tick, baselines, request, picture, asked, overtaken, astray>>,
               applied' \in {applied, applied + 1, 0}, fed' \in 0..MaxFed,
               (fed' = fed /\ applied' = applied) \/ fed' = fed + 1
        PROVE  TypeInv'
    <2>1. TableInv'
      BY <1>2 DEF TypeInv, TableInv, Subscribed
    <2>2. RequestInv'
      BY <1>2 DEF TypeInv, RequestInv, Made
    <2>3. PictureInv'
      BY <1>2 DEF TypeInv, PictureInv, Folded
    <2>4. CountInv'
      BY <1>2, SubscribersAssumption DEF TypeInv, CountInv
    <2> QED
      BY <1>1, <2>1, <2>2, <2>3, <2>4 DEF TypeInv
  <1>3. fed \in 0..MaxFed /\ MaxFed \in Nat
    BY SubscribersAssumption DEF TypeInv, CountInv
  <1>4. ASSUME NEW chunk \in Chunks, Output(chunk) PROVE TypeInv'
    BY <1>2, <1>3, <1>4 DEF Output
  <1>5. ASSUME NEW rows \in Sizes, Resize(rows) PROVE TypeInv'
    BY <1>2, <1>3, <1>5 DEF Resize
  <1>6. ASSUME NEW rows \in Sizes, Replace(rows) PROVE TypeInv'
    BY <1>2, <1>3, <1>6 DEF Replace
  <1>7. CASE UNCHANGED vars
    BY <1>2, <1>3, <1>7 DEF vars
  <1> QED
    BY <1>4, <1>5, <1>6, <1>7, ReadTyped, RecordTyped, AnswerTyped DEF Next

LEMMA InitTyped == Init => TypeInv
  <1> SUFFICES ASSUME Init PROVE TypeInv
    OBVIOUS
  <1>1. MirrorInv
    BY InitMirror DEF Init
  <1>2. Subscribed = {}
    BY DEF Init, Subscribed
  <1>3. TableInv
    BY <1>2, FS_EmptySet, SubscribersAssumption DEF Init, TableInv
  <1>4. RequestInv
    BY DEF Init, RequestInv, Made
  <1>5. PictureInv
    BY DEF Init, PictureInv
  <1>6. CountInv
    BY SubscribersAssumption DEF Init, CountInv
  <1> QED
    BY <1>1, <1>3, <1>4, <1>5, <1>6 DEF TypeInv

LEMMA TypeInvariance == Spec => []TypeInv
  BY InitTyped, TypeStep, PTL DEF Spec

\* The table keeps one baseline of a subscriber, no two recorded together, and no more than
\* it has room for; each reply names rows of the frame it was made of.
THEOREM SubscriberTypes == Spec => []TypeOK
  BY TypeInvariance, TypesByPart, PTL

--------------------------------------------------------------------------------
\* What a viewer shows when the replies made so far have come to it in turn.

\* The replies to a subscriber made before a time and still to come.
Before(s, m) ==
    {p \in Requests : Made(p) /\ request[p].subscriber = s /\ request[p].made < m}

\* The last of them, unless a later one left before it.
Standing(s, m) ==
    {p \in Before(s, m) \ overtaken : \A q \in Before(s, m) : request[q].made <= request[p].made}

\* The frame that the viewer will have folded when they have come, none while it is astray.
Shown(s, m) ==
    IF Before(s, m) = {} THEN {picture[t] : t \in {s} \ astray}
    ELSE {request[p].frame : p \in Standing(s, m)}

OrderInv ==
    /\ \A p, q \in Requests : Made(p) /\ Made(q) /\ request[p].made = request[q].made => p = q
    /\ \A p \in overtaken : request[p].subscriber \in astray /\ Earlier(p) \subseteq overtaken

\* A reply with changed rows makes its frame of what the ones before it leave.
ReplyInv ==
    \A r \in Requests, s \in Subscribers, m \in Nat :
        /\ Made(r) /\ ~request[r].reply.full
        /\ s = request[r].subscriber /\ m = request[r].made
        => \A f \in Shown(s, m) :
              f # None /\ Apply(f, request[r].frame, request[r].reply) = request[r].frame

\* A baseline has the rows that all the replies made so far leave.
BaselineInv ==
    \A s \in Subscribed, m \in Nat :
        m = tick + 1 => \A f \in Shown(s, m) : f # None /\ baselines[s].lines = f.lines

ChainInv == OrderInv /\ ReplyInv /\ BaselineInv

LEMMA EarlierIsBefore ==
    ASSUME NEW r
    PROVE  Earlier(r) = Before(request[r].subscriber, request[r].made)
  BY DEF Earlier, Before

\* What is shown depends on the replies still to come, and on the viewer.
LEMMA ShownKept ==
    ASSUME NEW s, NEW m, NEW n,
           Before(s, n)' = Before(s, m),
           \A p \in Before(s, m) : request'[p] = request[p] /\ (p \in overtaken' <=> p \in overtaken),
           picture'[s] = picture[s], s \in astray' <=> s \in astray
    PROVE  Shown(s, n)' = Shown(s, m)
  <1>1. Standing(s, n)' = Standing(s, m)
    BY DEF Standing
  <1>2. \A p \in Standing(s, m) : request'[p] = request[p]
    BY DEF Standing
  <1> QED
    BY <1>1, <1>2 DEF Shown

LEMMA ReplyMade ==
    ASSUME TypeInv, NEW r \in Requests, Made(r)
    PROVE  /\ request[r] \in Request /\ request[r] # None
           /\ request[r].subscriber \in Subscribers /\ request[r].frame \in Frame
           /\ request[r].made \in 1..tick /\ tick \in Nat
           /\ request[r].reply \in Reply
  BY RequestFields DEF TypeInv, RequestInv, TableInv, Made

\* A difference to the rows a viewer has, folded, is the frame.
LEMMA DeltaFolds ==
    ASSUME NEW frame \in Frame, NEW baseline \in FrameBaseline, NEW f,
           baseline.lines = f.lines, ~Delta(baseline, frame).full
    PROVE  Apply(f, frame, Delta(baseline, frame)) = frame
  <1> DEFINE changed == {y \in DOMAIN frame.lines : frame.lines[y] # baseline.lines[y]}
             lines == [y \in changed \cup DOMAIN f.lines |->
                          IF y \in changed THEN frame.lines[y] ELSE f.lines[y]]
  <1>1. /\ Delta(baseline, frame) = [full |-> FALSE, changed |-> changed]
        /\ Len(baseline.lines) = Len(frame.lines)
    BY DEF Delta
  <1>2. frame.lines \in Seq(Nat) /\ baseline.lines \in Seq(Nat)
    BY DEF Frame, FrameBaseline
  <1>3. DOMAIN f.lines = DOMAIN frame.lines
    BY <1>1, <1>2
  <1>4. lines = [y \in DOMAIN frame.lines |-> frame.lines[y]]
    <2>1. \A y \in DOMAIN frame.lines :
            (IF y \in changed THEN frame.lines[y] ELSE f.lines[y]) = frame.lines[y]
      OBVIOUS
    <2>2. changed \cup DOMAIN f.lines = DOMAIN frame.lines
      BY <1>3
    <2> QED
      BY <2>1, <2>2
  <1>5. lines = frame.lines
    <2>1. frame.lines = [y \in DOMAIN frame.lines |-> frame.lines[y]]
      BY <1>2
    <2> HIDE DEF lines
    <2> QED
      BY <1>4, <2>1
  <1>6. [frame EXCEPT !.lines = frame.lines] = frame
    BY DEF Frame
  <1>7. Apply(f, frame, Delta(baseline, frame)) = [frame EXCEPT !.lines = lines]
    <2> HIDE DEF changed
    <2> QED
      BY <1>1 DEF Apply
  <1> HIDE DEF lines
  <1> QED
    BY <1>5, <1>6, <1>7

\* Steps that make and end no reply.
LEMMA ChainKept ==
    ASSUME ChainInv, TypeInv, UNCHANGED <<tick, baselines, picture, overtaken, astray>>,
           \A q \in Requests : Made(q)' <=> Made(q),
           \A q \in Requests : Made(q) => request'[q] = request[q]
    PROVE  ChainInv'
  <1>1. ASSUME NEW s, NEW m PROVE Before(s, m)' = Before(s, m) /\ Shown(s, m)' = Shown(s, m)
    <2>1. Before(s, m)' = Before(s, m)
      BY DEF Before
    <2>2. \A p \in Before(s, m) : request'[p] = request[p]
      BY DEF Before
    <2> QED
      BY <2>1, <2>2, ShownKept
  <1>2. OrderInv'
    <2>1. \A p \in overtaken : p \in Requests /\ Made(p) /\ Earlier(p)' = Earlier(p)
      BY DEF TypeInv, RequestInv, Earlier
    <2> QED
      BY <2>1 DEF ChainInv, OrderInv
  <1>3. ReplyInv'
    BY <1>1 DEF ChainInv, ReplyInv
  <1>4. BaselineInv'
    BY <1>1 DEF ChainInv, BaselineInv, Subscribed
  <1> QED
    BY <1>2, <1>3, <1>4 DEF ChainInv

LEMMA ChainRecorded ==
    ASSUME ChainInv, TypeInv, NEW r \in Requests, RecordBaseline(r)
    PROVE  ChainInv'
  <1> DEFINE s == request[r].subscriber
             frame == request[r].frame
  <1>1. /\ tick' = tick + 1 /\ tick \in Nat /\ baselines' = Recorded(s, frame)
        /\ UNCHANGED <<picture, overtaken, astray>>
    BY DEF RecordBaseline, TypeInv, TableInv
  <1>2. request[r] # None /\ s \in Subscribers /\ frame \in Frame
    BY RequestFields DEF RecordBaseline, TypeInv
  <1>3. /\ request'[r].subscriber = s /\ request'[r].frame = frame
        /\ request'[r].made = tick + 1
        /\ request'[r].reply = Delta(baselines[s], frame)
    <2>1. request'[r] = [subscriber |-> s, frame |-> frame, made |-> tick + 1,
                         reply |-> Delta(baselines[s], frame)]
      BY RecordedRequest
    <2> QED
      BY <2>1
  <1>4. /\ \A q \in Requests \ {r} : request'[q] = request[q] /\ (Made(q)' <=> Made(q))
        /\ ~Made(r) /\ Made(r)'
    BY RecordedRequest
  <1>5. \A q \in Requests : Made(q) => request[q].made \in 1..tick
    BY ReplyMade
  <1>6. r \notin overtaken
    BY <1>4 DEF TypeInv, RequestInv
  <1>7. ASSUME NEW t, NEW m \in Nat, m <= tick + 1
        PROVE  Before(t, m)' = Before(t, m) /\ Shown(t, m)' = Shown(t, m)
    <2>1. Before(t, m)' = Before(t, m)
      BY <1>1, <1>3, <1>4, <1>7 DEF Before
    <2>2. \A p \in Before(t, m) : request'[p] = request[p]
      BY <1>4 DEF Before
    <2> QED
      BY <1>1, <2>1, <2>2, ShownKept
  <1>8. OrderInv'
    <2>1. ASSUME NEW p \in Requests, NEW q \in Requests, Made(p)', Made(q)',
                 request'[p].made = request'[q].made
          PROVE  p = q
      BY <1>1, <1>3, <1>4, <1>5, <2>1 DEF ChainInv, OrderInv
    <2>2. ASSUME NEW p \in overtaken
          PROVE  request'[p].subscriber \in astray /\ Earlier(p)' \subseteq overtaken
      <3>1. p \in Requests /\ Made(p) /\ request'[p] = request[p] /\ request[p].made \in 1..tick
        BY <1>4, <1>5, <1>6 DEF TypeInv, RequestInv
      <3>2. Earlier(p)' = Earlier(p)
        BY <1>1, <1>3, <1>4, <3>1 DEF Earlier
      <3> QED
        BY <3>1, <3>2 DEF ChainInv, OrderInv
    <2> QED
      BY <1>1, <2>1, <2>2 DEF OrderInv
  <1>9. ReplyInv'
    <2> SUFFICES ASSUME NEW q \in Requests, NEW t \in Subscribers, NEW m \in Nat,
                        Made(q)', ~request'[q].reply.full,
                        t = request'[q].subscriber, m = request'[q].made,
                        NEW f \in Shown(t, m)'
                 PROVE  /\ f # None
                        /\ Apply(f, request'[q].frame, request'[q].reply) = request'[q].frame
      BY DEF ReplyInv
    <2>1. CASE q = r
      <3>1. t = s /\ m = tick + 1 /\ f \in Shown(t, m)
        BY <1>1, <1>3, <1>7, <2>1
      <3>2. baselines[s] # None
        BY <1>3, <2>1 DEF Delta
      <3>3. s \in Subscribed /\ baselines[s] \in FrameBaseline
        BY <1>2, <3>2 DEF Subscribed, TypeInv, TableInv
      <3>4. f # None /\ baselines[s].lines = f.lines
        BY <3>1, <3>3 DEF ChainInv, BaselineInv
      <3> QED
        BY <1>2, <1>3, <2>1, <3>3, <3>4, DeltaFolds
    <2>2. CASE q # r
      <3>1. Made(q) /\ request'[q] = request[q] /\ request[q].made \in 1..tick
        BY <1>4, <1>5, <2>2
      <3>2. m <= tick + 1 /\ f \in Shown(t, m)
        BY <1>1, <1>7, <3>1
      <3> QED
        BY <3>1, <3>2 DEF ChainInv, ReplyInv
    <2> QED
      BY <2>1, <2>2
  <1>10. BaselineInv'
    <2> SUFFICES ASSUME NEW t \in Subscribed', NEW m \in Nat, m = tick' + 1,
                        NEW f \in Shown(t, m)'
                 PROVE  f # None /\ baselines'[t].lines = f.lines
      BY <1>1 DEF BaselineInv
    <2>1. /\ baselines'[s] = BaselineOf(frame)
          /\ \A u \in Subscribers \ {s} : baselines'[u] \in {baselines[u], None}
      BY <1>1, <1>2, RecordedTyped DEF TypeInv
    <2> DEFINE n == m - 1
    <2>2. n \in Nat /\ n = tick + 1 /\ m = tick + 2
      BY <1>1
    <2>3. CASE t = s
      <3>1. Before(t, m)' = Before(t, n) \cup {r}
        BY <1>1, <1>3, <1>4, <1>5, <2>3, <2>2 DEF Before
      <3>2. \A q \in Before(t, n) : q # r /\ request'[q] = request[q]
                                    /\ request[q].made \in 1..tick
        BY <1>4, <1>5 DEF Before
      <3>3. Standing(t, m)' = {r}
        BY <1>1, <1>3, <1>6, <3>1, <3>2 DEF Standing
      <3>4. f = frame
        BY <1>3, <2>3, <3>1, <3>3 DEF Shown
      <3> QED
        BY <1>2, <2>1, <2>3, <3>4, NoRecordAssumption DEF BaselineOf
    <2>4. CASE t # s
      <3>1. t \in Subscribed /\ baselines'[t] = baselines[t]
        BY <2>1, <2>4 DEF Subscribed
      <3>2. Before(t, m)' = Before(t, n)
        BY <1>1, <1>3, <1>4, <1>5, <2>4, <2>2 DEF Before
      <3>3. \A p \in Before(t, n) : request'[p] = request[p]
        BY <1>4 DEF Before
      <3>4. f \in Shown(t, n)
        BY <1>1, <3>2, <3>3, ShownKept
      <3> QED
        BY <2>2, <3>1, <3>4 DEF ChainInv, BaselineInv
    <2> QED
      BY <2>3, <2>4
  <1> QED
    BY <1>8, <1>9, <1>10 DEF ChainInv

\* In turn, a reply leaves its viewer with its frame.
LEMMA FoldedInTurn ==
    ASSUME TypeInv, ChainInv, NEW r \in Requests, Answer(r),
           NEW s, s = request[r].subscriber, s \notin astray'
    PROVE  /\ picture'[s] = request[r].frame
           /\ r \notin overtaken /\ Earlier(r) = {}
           /\ request[r].reply.full \/ s \notin astray
           /\ astray' \in {astray, astray \ {s}}
  <1> DEFINE frame == request[r].frame
             reply == request[r].reply
             new == Apply(picture[s], frame, reply)
  <1>1. Made(r) /\ s \in Subscribers /\ picture = [t \in Subscribers |-> picture[t]]
    BY ReplyMade DEF Answer, Replied, TypeInv, PictureInv
  <1>2. /\ r \notin overtaken /\ Earlier(r) = {}
        /\ astray' = IF reply.full THEN astray \ {s} ELSE astray
    BY DEF Answer
  <1>3. picture' = IF picture[s] = None /\ ~reply.full THEN picture
                   ELSE [picture EXCEPT ![s] = new]
    BY DEF Answer
  <1>4. CASE reply.full
    <2>1. new = frame
      BY <1>4 DEF Apply
    <2>2. picture'[s] = new
      <3> HIDE DEF new
      <3> QED
        BY <1>1, <1>3, <1>4
    <2> QED
      BY <1>2, <1>4, <2>1, <2>2
  <1>5. CASE ~reply.full
    <2>1. s \notin astray
      BY <1>2, <1>5
    <2> DEFINE m == request[r].made
    <2>2. m \in Nat
      BY <1>1, ReplyMade
    <2>3. picture[s] \in Shown(s, m)
      BY <1>2, <2>1, EarlierIsBefore DEF Shown
    <2>4. picture[s] # None /\ new = frame
      BY <1>1, <1>5, <2>2, <2>3 DEF ChainInv, ReplyInv
    <2>5. picture'[s] = new
      <3> HIDE DEF new
      <3> QED
        BY <1>1, <1>3, <2>4
    <2> QED
      BY <1>2, <2>1, <2>4, <2>5
  <1> QED
    BY <1>4, <1>5

\* What is shown once a reply has come, or is lost, was shown before it came.
LEMMA ShownReplied ==
    ASSUME TypeInv, ChainInv, NEW r \in Requests, Answer(r) \/ Lose(r),
           NEW s \in Subscribers, NEW m \in Nat,
           \/ s # request[r].subscriber
           \/ m > request[r].made
           \/ Earlier(r) # {}
    PROVE  Shown(s, m)' \subseteq Shown(s, m)
  <1>1. /\ Made(r) /\ Replied(r)
        /\ overtaken' = (overtaken \cup Earlier(r)) \ {r}
        /\ \A q \in Requests \ {r} : request'[q] = request[q]
        /\ \A q \in Requests : Made(q)' <=> Made(q) /\ q # r
    BY RepliedTyped DEF Answer, Lose, Replied
  <1>2. /\ request[r].made \in Nat
        /\ \A q \in Requests : Made(q) => request[q].made \in Nat
        /\ \A p, q \in Requests : Made(p) /\ Made(q) /\ request[p].made = request[q].made => p = q
    BY <1>1, ReplyMade DEF ChainInv, OrderInv
  <1>3. Before(s, m)' = Before(s, m) \ {r}
    BY <1>1 DEF Before
  <1>4. CASE s # request[r].subscriber
    <2>1. Before(s, m)' = Before(s, m) /\ r \notin Before(s, m)
      BY <1>3, <1>4 DEF Before
    <2>2. \A p \in Before(s, m) : request'[p] = request[p] /\ (p \in overtaken' <=> p \in overtaken)
      BY <1>1, <1>4, <2>1 DEF Before, Earlier
    <2>3. s \in astray' <=> s \in astray
      BY <1>4 DEF Answer, Lose
    <2>4. picture'[s] = picture[s]
      BY <1>4 DEF Answer, Lose, TypeInv, PictureInv
    <2> QED
      BY <2>1, <2>2, <2>3, <2>4, ShownKept
  <1>5. CASE s = request[r].subscriber /\ m > request[r].made
    <2>1. r \in Before(s, m)
      BY <1>1, <1>5 DEF Before
    <2>2. CASE Before(s, m) = {r}
      <3>1. Before(s, m)' = {}
        BY <1>3, <2>2
      <3>2. SUFFICES ASSUME NEW f \in Shown(s, m)' PROVE f \in Shown(s, m)
        OBVIOUS
      <3>3. s \notin astray' /\ f = picture'[s]
        BY <3>1 DEF Shown
      <3>4. Answer(r)
        BY <1>5, <3>3 DEF Lose
      <3>5. f = request[r].frame /\ r \notin overtaken
        BY <1>5, <3>3, <3>4, FoldedInTurn
      <3>6. r \in Standing(s, m)
        BY <1>2, <2>2, <3>5 DEF Standing
      <3> QED
        BY <2>2, <3>5, <3>6 DEF Shown
    <2>3. CASE Before(s, m) # {r}
      <3>1. Before(s, m)' # {}
        BY <1>3, <2>1, <2>3
      <3>2. SUFFICES ASSUME NEW f \in Shown(s, m)' PROVE f \in Shown(s, m)
        OBVIOUS
      <3>3. PICK p \in Standing(s, m)' : f = request'[p].frame
        BY <3>1 DEF Shown
      <3>4. /\ p \in Before(s, m) /\ p # r /\ p \notin overtaken'
            /\ \A q \in Before(s, m) \ {r} : request'[q].made <= request'[p].made
        BY <1>3, <3>3 DEF Standing
      <3>5. p \in Requests /\ Made(p) /\ request[p].subscriber = s /\ request'[p] = request[p]
        BY <1>1, <3>4 DEF Before
      <3>6. p \notin overtaken /\ p \notin Earlier(r)
        BY <1>1, <3>4
      <3>7. request[r].made <= request[p].made
        BY <1>2, <1>5, <3>5, <3>6 DEF Earlier
      <3>8. \A q \in Before(s, m) : request[q].made <= request[p].made
        BY <1>1, <3>4, <3>5, <3>7 DEF Before
      <3>9. p \in Standing(s, m)
        BY <3>4, <3>6, <3>8 DEF Standing
      <3> QED
        BY <2>1, <3>3, <3>5, <3>9 DEF Shown
    <2> QED
      BY <2>2, <2>3
  <1>6. CASE s = request[r].subscriber /\ m <= request[r].made /\ Earlier(r) # {}
    <2>1. Before(s, m)' \subseteq overtaken'
      <3>1. Before(s, m) \subseteq Earlier(r)
        BY <1>2, <1>6 DEF Before, Earlier
      <3> QED
        BY <1>1, <1>3, <3>1
    <2>2. s \in astray'
      BY <1>6 DEF Answer, Lose
    <2>3. Standing(s, m)' = {}
      BY <2>1 DEF Standing
    <2>4. Shown(s, m)' = {}
      BY <2>2, <2>3 DEF Shown
    <2> QED
      BY <2>4
  <1> QED
    BY <1>2, <1>4, <1>5, <1>6

LEMMA ChainReplied ==
    ASSUME ChainInv, TypeInv, NEW r \in Requests, Answer(r) \/ Lose(r)
    PROVE  ChainInv'
  <1>1. /\ Made(r) /\ Replied(r)
        /\ overtaken' = (overtaken \cup Earlier(r)) \ {r}
        /\ UNCHANGED <<tick, baselines>>
        /\ \A q \in Requests \ {r} : request'[q] = request[q]
        /\ \A q \in Requests : Made(q)' <=> Made(q) /\ q # r
    BY RepliedTyped DEF Answer, Lose, Replied
  <1>2. /\ request[r].made \in 1..tick /\ tick \in Nat
        /\ \A q \in Requests : Made(q) => request[q].made \in 1..tick
        /\ \A p, q \in Requests : Made(p) /\ Made(q) /\ request[p].made = request[q].made => p = q
        /\ \A p \in overtaken : /\ p \in Requests /\ Made(p)
                                /\ request[p].subscriber \in astray
                                /\ Earlier(p) \subseteq overtaken
    BY <1>1, ReplyMade DEF ChainInv, OrderInv, TypeInv, RequestInv
  <1>3. OrderInv'
    <2>1. \A p, q \in Requests :
            Made(p)' /\ Made(q)' /\ request'[p].made = request'[q].made => p = q
      BY <1>1, <1>2
    <2>2. ASSUME NEW p \in overtaken'
          PROVE  request'[p].subscriber \in astray' /\ Earlier(p)' \subseteq overtaken'
      <3>1. p # r /\ p \in Requests /\ Made(p) /\ request'[p] = request[p]
        BY <1>1, <1>2, <2>2 DEF Earlier
      <3>2. Earlier(p)' = Earlier(p) \ {r}
        BY <1>1, <3>1 DEF Earlier
      <3>3. CASE p \in Earlier(r)
        <4>1. Earlier(p) \subseteq Earlier(r)
          BY <1>2, <3>1, <3>3 DEF Earlier
        <4>2. request[p].subscriber = request[r].subscriber
          BY <3>3 DEF Earlier
        <4>3. request[r].subscriber \in astray'
          BY <3>3 DEF Answer, Lose
        <4> QED
          BY <1>1, <3>1, <3>2, <4>1, <4>2, <4>3
      <3>4. CASE p \notin Earlier(r)
        <4>1. p \in overtaken /\ Earlier(p) \subseteq overtaken /\ request[p].subscriber \in astray
          BY <1>1, <1>2, <2>2, <3>4
        <4>2. request[p].subscriber \in astray'
          <5> SUFFICES ASSUME request[p].subscriber \notin astray' PROVE FALSE
            OBVIOUS
          <5>1. Answer(r) /\ request[p].subscriber = request[r].subscriber
            BY <4>1 DEF Answer, Lose
          <5>2. r \notin overtaken
            BY <5>1, FoldedInTurn
          <5>3. r \in Earlier(p)
            <6>1. request[p].made # request[r].made /\ ~(request[p].made < request[r].made)
              BY <1>1, <1>2, <3>1, <3>4, <5>1 DEF Earlier
            <6>2. request[r].made < request[p].made
              BY <1>2, <3>1, <6>1
            <6> QED
              BY <1>1, <5>1, <6>2 DEF Earlier
          <5> QED
            BY <4>1, <5>2, <5>3
        <4> QED
          BY <1>1, <3>1, <3>2, <4>1, <4>2
      <3> QED
        BY <3>3, <3>4
    <2> QED
      BY <2>1, <2>2 DEF OrderInv
  <1>4. ReplyInv'
    <2> SUFFICES ASSUME NEW q \in Requests, NEW t \in Subscribers, NEW m \in Nat,
                        Made(q)', ~request'[q].reply.full,
                        t = request'[q].subscriber, m = request'[q].made,
                        NEW f \in Shown(t, m)'
                 PROVE  /\ f # None
                        /\ Apply(f, request'[q].frame, request'[q].reply) = request'[q].frame
      BY DEF ReplyInv
    <2>1. Made(q) /\ q # r /\ request'[q] = request[q] /\ request[q].made # request[r].made
      BY <1>1, <1>2
    <2>2. \/ t # request[r].subscriber
          \/ m > request[r].made
          \/ Earlier(r) # {}
      <3> SUFFICES ASSUME t = request[r].subscriber, ~(m > request[r].made)
                   PROVE  q \in Earlier(r)
        OBVIOUS
      <3>1. request[q].made < request[r].made
        BY <1>2, <2>1
      <3> QED
        BY <2>1, <3>1 DEF Earlier
    <2>3. f \in Shown(t, m)
      BY <2>2, ShownReplied
    <2> QED
      BY <2>1, <2>3 DEF ChainInv, ReplyInv
  <1>5. BaselineInv'
    <2> SUFFICES ASSUME NEW t \in Subscribed', NEW m \in Nat, m = tick' + 1,
                        NEW f \in Shown(t, m)'
                 PROVE  f # None /\ baselines'[t].lines = f.lines
      BY DEF BaselineInv
    <2>1. t \in Subscribed /\ t \in Subscribers /\ baselines' = baselines /\ m = tick + 1
      BY <1>1 DEF Subscribed
    <2>2. m > request[r].made
      BY <1>2, <2>1
    <2>3. f \in Shown(t, m)
      BY <2>1, <2>2, ShownReplied
    <2> QED
      BY <2>1, <2>3 DEF ChainInv, BaselineInv
  <1> QED
    BY <1>3, <1>4, <1>5 DEF ChainInv

LEMMA ChainStep == TypeInv /\ ChainInv /\ [Next]_vars => ChainInv'
  <1> SUFFICES ASSUME TypeInv, ChainInv, [Next]_vars PROVE ChainInv'
    OBVIOUS
  <1>1. ASSUME UNCHANGED <<tick, baselines, request, picture, overtaken, astray>>
        PROVE  ChainInv'
    BY <1>1, ChainKept DEF Made
  <1>2. ASSUME NEW r \in Requests, NEW s \in Subscribers, NEW offset \in Offsets,
               ReadFrame(r, s, offset)
        PROVE  ChainInv'
    <2>1. /\ request[r] = None
          /\ \A q \in Requests \ {r} : request'[q] = request[q]
          /\ request'[r].made = 0
      BY <1>2 DEF ReadFrame, TypeInv, RequestInv
    <2>2. \A q \in Requests : Made(q)' <=> Made(q)
      BY <2>1 DEF Made
    <2>3. \A q \in Requests : Made(q) => request'[q] = request[q]
      BY <2>1 DEF Made
    <2> QED
      BY <1>2, <2>2, <2>3, ChainKept DEF ReadFrame
  <1>3. ASSUME NEW chunk \in Chunks, Output(chunk) PROVE ChainInv'
    BY <1>1, <1>3 DEF Output
  <1>4. ASSUME NEW rows \in Sizes, Resize(rows) \/ Replace(rows) PROVE ChainInv'
    BY <1>1, <1>4 DEF Resize, Replace
  <1>5. CASE UNCHANGED vars
    BY <1>1, <1>5 DEF vars
  <1> QED
    BY <1>2, <1>3, <1>4, <1>5, ChainRecorded, ChainReplied DEF Next

LEMMA InitChain == Init => ChainInv
  <1> SUFFICES ASSUME Init PROVE ChainInv
    OBVIOUS
  <1>1. \A r \in Requests : ~Made(r)
    BY DEF Init, Made
  <1>2. overtaken = {} /\ Subscribed = {}
    BY DEF Init, Subscribed
  <1> QED
    BY <1>1, <1>2 DEF ChainInv, OrderInv, ReplyInv, BaselineInv

LEMMA ChainInvariance == Spec => [](TypeInv /\ ChainInv)
  BY InitTyped, TypeStep, InitChain, ChainStep, PTL DEF Spec

\* Replies that come in the order they were made fold into the frame read for the last.
THEOREM PicturesAreFrames == Spec => PictureIsTheFrame
  <1>1. TypeInv /\ ChainInv /\ [Next]_vars =>
          [\A r \in Requests :
              Answer(r) /\ request[r].subscriber \notin astray'
                  => picture'[request[r].subscriber] = request[r].frame]_vars
    BY FoldedInTurn
  <1> QED
    BY <1>1, ChainInvariance, PTL DEF Spec, PictureIsTheFrame
================================================================================
