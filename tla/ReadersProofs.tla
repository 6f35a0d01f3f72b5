--------------------------- MODULE ReadersProofs ---------------------------
(* What holds of every page that keeps the discipline of Readers, whatever *)
(* it asks and whatever follows from an answer.                            *)
EXTENDS AskedOnce, FiniteSetTheorems, TLAPS

\* No step leaves the page of its behaviour, nor its plan.
LEMMA PageStays == ASSUME [Next]_vars PROVE page' = page /\ plan' = plan
<1>1. page' = page
  BY DEF Next, Refresh, Begin, Answer, Act, Acted, vars
<1> QED  BY <1>1 DEF plan

\* On a page that compares every answer with its generation and stores it under
\* its own question, no place ever holds what was said to another question or to
\* a replaced reading: for every plan, every number of readings and every order
\* of the answers (timers.py:413-420 and its kin).
THEOREM AnswersStayHome == Spec => []OwnAnswers
<1> DEFINE Inv == page \in Pages /\ OwnAnswers
<1>1. Init => Inv
  BY DEF Init, OwnAnswers
<1>2. Inv /\ [Next]_vars => Inv'
  <2> SUFFICES ASSUME Inv, [Next]_vars PROVE Inv'
    OBVIOUS
  <2>1. CASE Refresh
    BY <2>1 DEF Refresh, Begin, OwnAnswers
  <2>2. ASSUME NEW ask \in flying, NEW v \in Replies(page, ask[2]), Answer(ask[1], ask[2], v)
        PROVE  Inv'
    <3> DEFINE r == ask[1]
               k == ask[2]
               home == IF plan.shared THEN generation ELSE r
               slot == IF k \in DOMAIN plan.misfiled THEN plan.misfiled[k] ELSE k
    <3>1. page' = page
      BY <2>2 DEF Answer
    <3>2. CASE page \in ExcusedOf["OwnAnswers"]
      BY <3>1, <3>2 DEF OwnAnswers
    <3>3. CASE page \notin ExcusedOf["OwnAnswers"]
      <4>1. foreign = {} /\ plan.unchecked = {} /\ DOMAIN plan.misfiled = {}
        BY <3>3, OwnAssumption DEF OwnAnswers, plan
      <4>2. slot = k
        BY <4>1
      <4>3. CASE Dropped(r, k)
        BY <2>2, <3>1, <4>1, <4>3 DEF Answer, OwnAnswers
      <4>4. CASE ~Dropped(r, k)
        <5>1. r = home
          BY <4>1, <4>4 DEF Dropped
        <5>2. foreign' = IF r # home \/ slot # k THEN foreign \cup {slot} ELSE foreign \ {slot}
          BY <2>2, <4>4 DEF Answer
        <5> QED BY <3>1, <4>1, <4>2, <5>1, <5>2 DEF OwnAnswers
      <4> QED BY <4>3, <4>4
    <3> QED BY <3>2, <3>3
  <2>3. CASE Act
    BY <2>3 DEF Act, OwnAnswers
  <2>4. CASE Acted
    BY <2>4 DEF Acted, Begin, OwnAnswers
  <2>5. CASE UNCHANGED vars
    BY <2>5 DEF vars, OwnAnswers
  <2> QED BY <2>1, <2>2, <2>3, <2>4, <2>5 DEF Next
<1>3. Inv => OwnAnswers
  OBVIOUS
<1> QED BY <1>1, <1>2, <1>3, PTL DEF Spec

-----------------------------------------------------------------------------
(* The counter, Refresh and the drawing of the pages in Tidy.              *)

\* What one reading has been told is typed, with the files read.
Typed(p, a) ==
    /\ a = [k \in Questions(p) |-> a[k]]
    /\ \A k \in Questions(p) : a[k] \in Replies(p, k) \cup {Waiting}
    /\ \A k \in PlanOf[p].instant : a[k] # Waiting

\* A reading in order: it has been told what it asked for, what it asked for and
\* was not told is open, and the counter is the number of those that count.
InOrder(r) ==
    /\ Typed(page, answers[r])
    /\ Cardinality(Odds(page, answers[r])) <= odd
    /\ Answered(page, answers[r]) \subseteq Asked(page, answers[r])
    /\ Open(r) = Asked(page, answers[r]) \ Answered(page, answers[r])
    /\ pending[r] = Counted(Open(r))

\* The readings that are not replaced.
Live == IF plan.shared THEN {generation} \ {0} ELSE 1..generation

OrderInv ==
    /\ generation \in 0..MaxGeneration
    /\ odd \in 0..MaxOdd
    /\ flying \subseteq (1..generation) \X Questions(page)
    /\ DOMAIN answers = Readings /\ DOMAIN pending = Readings
    /\ \A r \in Live : InOrder(r)

\* The size of a set, counted in two parts.
LEMMA Parts ==
  ASSUME NEW S, NEW T, NEW U, IsFiniteSet(S), IsFiniteSet(T), S \cap T = {}
  PROVE  /\ Cardinality((S \cup T) \ U) = Cardinality(S \ U) + Cardinality(T \ U)
         /\ Cardinality(S \ U) \in Nat /\ Cardinality(T \ U) \in Nat
<1>1. IsFiniteSet(S \ U) /\ IsFiniteSet(T \ U)
  BY FS_Difference
<1>2. (S \cup T) \ U = (S \ U) \cup (T \ U) /\ (S \ U) \cap (T \ U) = {}
  OBVIOUS
<1>3. Cardinality((S \ U) \cup (T \ U)) = Cardinality(S \ U) + Cardinality(T \ U)
         - Cardinality((S \ U) \cap (T \ U))
  BY <1>1, FS_Union
<1>4. Cardinality(S \ U) \in Nat /\ Cardinality(T \ U) \in Nat
  BY <1>1, FS_CardinalityType
<1>5. Cardinality((S \ U) \cap (T \ U)) = 0
  BY <1>2, FS_EmptySet
<1>6. Cardinality((S \cup T) \ U) = Cardinality((S \ U) \cup (T \ U))
  BY <1>2
<1> QED  BY ONLY <1>3, <1>4, <1>5, <1>6

\* A reading told no more than MaxOdd unusual things, all of them asked for, is one
\* that Coherent enumerates.
LEMMA TypedIsTold ==
  ASSUME NEW p \in Pages, NEW a, Typed(p, a), Cardinality(Odds(p, a)) <= MaxOdd,
         Answered(p, a) \subseteq Asked(p, a)
  PROVE  a \in Coherent(p)
<1> DEFINE ks == Odds(p, a)
           said == [k \in ks |-> a[k]]
           open == {k \in Questions(p) : a[k] = Waiting}
<1>1. ks \in SUBSET Questions(p) /\ Cardinality(ks) <= MaxOdd
  BY DEF Odds
<1>2. said \in Strangely(p, ks)
  <2>1. \A k \in ks : a[k] \in Replies(p, k) \ {Usual(p, k)}
    BY DEF Odds, Typed
  <2> QED  BY <2>1 DEF Strangely
<1>3. open \in SUBSET (Questions(p) \ (PlanOf[p].instant \cup ks))
  BY DEF Odds, Typed
<1>4. a = [k \in Questions(p) |-> IF k \in open THEN Waiting
                                  ELSE IF k \in ks THEN said[k] ELSE Usual(p, k)]
  <2>1. a = [k \in Questions(p) |-> a[k]]
    BY DEF Typed
  <2>2. \A k \in Questions(p) : a[k] = IF k \in open THEN Waiting
                                       ELSE IF k \in ks THEN said[k] ELSE Usual(p, k)
    BY DEF Odds
  <2> QED  BY <2>1, <2>2
<1>5. a \in CoherentWith(p, ks, said)
  BY <1>3, <1>4 DEF ToldWith, CoherentWith
<1> HIDE DEF ks, said
<1> QED  BY <1>1, <1>2, <1>5 DEF Coherent

\* What Coherent enumerates was asked for.
LEMMA CoherentIsAsked ==
  ASSUME NEW p, NEW a \in Coherent(p)
  PROVE  Answered(p, a) \subseteq Asked(p, a)
BY DEF Coherent, CoherentWith

\* What a reading in order has been told is what the assumptions are about.
LEMMA TypedIsCoherent ==
  ASSUME NEW p \in Pages, NEW a, Typed(p, a), Answered(p, a) \subseteq Asked(p, a),
         NEW n \in 0..MaxOdd, Cardinality(Odds(p, a)) <= n
  PROVE  a \in Coherent(p)
<1>1. IsFiniteSet(Odds(p, a))
  BY QuestionAssumption, FS_Subset DEF Odds
<1>2. Cardinality(Odds(p, a)) \in Nat
  BY <1>1, FS_CardinalityType
<1>3. Cardinality(Odds(p, a)) <= MaxOdd
  BY <1>2, BoundAssumption
<1> QED  BY <1>3, TypedIsTold

LEMMA OrderIsCoherent ==
  ASSUME page \in Pages, OrderInv, NEW r \in Live
  PROVE  /\ answers[r] \in Coherent(page)
         /\ r \in Readings
<1>1. InOrder(r) /\ odd \in 0..MaxOdd /\ r \in 1..generation
  BY DEF OrderInv, Live
<1>2. r \in Readings
  BY <1>1, BoundAssumption DEF OrderInv, Readings
<1> QED  BY <1>1, <1>2, TypedIsCoherent DEF InOrder

\* What a reading reads from files is an answer to its questions.
LEMMA GlanceIsRead ==
  ASSUME NEW p \in Pages, NEW glance \in Glances(p), NEW k \in PlanOf[p].instant
  PROVE  glance[k] \in Replies(p, k)
<1>1. k \in Questions(p) /\ Usual(p, k) \in Replies(p, k)
  BY PlanAssumption, QuestionAssumption
<1>2. PICK ks \in SUBSET PlanOf[p].instant :
        \E seen \in [ks -> UNION {Replies(p, i) : i \in ks}] :
          /\ \A i \in ks : seen[i] \in Replies(p, i) \ {Usual(p, i)}
          /\ glance = [i \in PlanOf[p].instant |-> IF i \in ks THEN seen[i] ELSE Usual(p, i)]
  BY DEF Glances
<1> QED  BY <1>1, <1>2

\* A new reading is in order, and leaves those before it as they were.
LEMMA BeginOrders ==
  ASSUME page \in Tidy, OrderInv, Begin, NEW r, r = generation + 1
  PROVE  /\ OrderInv'
         /\ r \in Live' /\ r \in Nat /\ generation' = r
         /\ flying' = flying \cup {<<r, k>> : k \in Open(r)'}
         /\ sensitive' = (plan.on \in {"drawn", "cleared", "kept"} \/ Open(r)' = {})
         /\ \/ /\ drawn'.reading = r /\ drawn'.answers = answers'[r]
               /\ DOMAIN drawn' = {"reading", "answers", "busy"} /\ drawn'.busy \in BOOLEAN
               /\ Open(r)' = {} => ~drawn'.busy
               /\ Open(r)' = {} \/ plan.on \in {"asked", "drawn"}
            \/ Open(r)' # {} /\ plan.on # "drawn" /\ drawn' \in {drawn, [drawn EXCEPT !.reading = 0]}
         /\ (\A a \in Coherent(page) : Follow(page, "refresh", a) = {}) => Open(r)' = {}
<1>1. PICK glance \in GlancesOf[page] :
        LET a == [k \in Questions(page) |-> IF k \in plan.instant THEN glance[k] ELSE Waiting]
            first == Follow(page, "refresh", a)
            strange == {k \in plan.instant : glance[k] # Usual(page, k)}
        IN  /\ answers' = [q \in Readings |-> IF q = generation + 1 THEN a
                             ELSE IF plan.shared THEN Blank(page) ELSE answers[q]]
            /\ odd' = Cardinality(strange) + (IF plan.shared THEN 0 ELSE odd)
            /\ odd' <= MaxOdd
            /\ flying' = flying \cup {<<generation + 1, k>> : k \in first}
            /\ pending' = [pending EXCEPT ![generation + 1] = Counted(first)]
            /\ drawn' = CASE first = {} \/ plan.on = "drawn" -> Drawing(generation + 1, a, 0)
                          [] first # {} /\ plan.on = "asked" -> Drawing(generation + 1, a, Counted(first))
                          [] first # {} /\ plan.on = "cleared" -> [drawn EXCEPT !.reading = 0]
                          [] OTHER -> drawn
            /\ sensitive' = (plan.on \in {"drawn", "cleared", "kept"} \/ first = {})
  BY DEF Begin
<1> DEFINE a == [k \in Questions(page) |-> IF k \in PlanOf[page].instant THEN glance[k] ELSE Waiting]
           first == Follow(page, "refresh", a)
           strange == {k \in PlanOf[page].instant : glance[k] # Usual(page, k)}
<1>2. /\ generation' = r /\ page' = page /\ r \in Readings /\ r \in Nat /\ generation \in Nat
      /\ \A q \in 1..r : q = r \/ q \in 1..generation
  BY BoundAssumption DEF Begin, OrderInv, Readings
<1>3. /\ answers' = [q \in Readings |-> IF q = r THEN a
                       ELSE IF PlanOf[page].shared THEN Blank(page) ELSE answers[q]]
      /\ odd' = Cardinality(strange) + (IF PlanOf[page].shared THEN 0 ELSE odd)
      /\ odd' <= MaxOdd
      /\ flying' = flying \cup {<<r, k>> : k \in first}
      /\ pending' = [pending EXCEPT ![r] = Counted(first)]
      /\ sensitive' = (plan.on \in {"drawn", "cleared", "kept"} \/ first = {})
  BY <1>1 DEF plan
<1>17. \/ /\ drawn'.reading = r /\ drawn'.answers = a /\ DOMAIN drawn' = {"reading", "answers", "busy"}
          /\ drawn'.busy \in BOOLEAN /\ (first = {} => ~drawn'.busy)
          /\ first = {} \/ plan.on \in {"asked", "drawn"}
       \/ first # {} /\ plan.on # "drawn" /\ drawn' \in {drawn, [drawn EXCEPT !.reading = 0]}
  <2>1. drawn' = CASE first = {} \/ plan.on = "drawn" -> Drawing(r, a, 0)
                    [] first # {} /\ plan.on = "asked" -> Drawing(r, a, Counted(first))
                    [] first # {} /\ plan.on = "cleared" -> [drawn EXCEPT !.reading = 0]
                    [] OTHER -> drawn
    BY <1>1 DEF plan
  <2> HIDE DEF a, first
  <2>2. CASE first = {} \/ plan.on \in {"drawn", "asked"}
    <3>1. CASE first = {} \/ plan.on = "drawn"
      <4>1. drawn' = Drawing(r, a, 0) /\ (0 > 0) = FALSE
        BY <2>1, <3>1
      <4> QED  BY <2>2, <4>1 DEF Drawing
    <3>2. CASE first # {} /\ plan.on = "asked"
      <4>1. drawn' = Drawing(r, a, Counted(first)) /\ (Counted(first) > 0) \in BOOLEAN
        BY <2>1, <3>2
      <4> QED  BY <2>2, <3>2, <4>1 DEF Drawing
    <3> QED  BY <2>2, <3>1, <3>2
  <2>3. CASE first # {} /\ plan.on \notin {"drawn", "asked"}
    BY <2>1, <2>3
  <2> QED  BY <2>2, <2>3
<1>4. page \in Pages /\ PlanOf[page].instant \subseteq Questions(page)
  BY PlanAssumption DEF Tidy
<1>5. \A k \in PlanOf[page].instant : glance[k] \in Replies(page, k) /\ glance[k] # Waiting
  BY <1>1, <1>4, GlanceIsRead, PlanAssumption DEF GlancesOf
<1>6. Typed(page, a)
  BY <1>4, <1>5 DEF Typed
<1>7. Odds(page, a) = strange
  BY <1>4, <1>5 DEF Odds
<1>8. Answered(page, a) = {} /\ Asked(page, a) = first
  BY DEF Answered, Asked
<1>9. Cardinality(strange) \in Nat
  BY <1>4, QuestionAssumption, FS_Subset, FS_CardinalityType
<1>10. /\ odd' \in 0..MaxOdd /\ Cardinality(strange) <= odd'
       /\ ~PlanOf[page].shared => odd <= odd'
  BY <1>3, <1>9, BoundAssumption DEF OrderInv
<1>11. /\ first \subseteq Questions(page)
       /\ (\A c \in Coherent(page) : Follow(page, "refresh", c) = {}) => first = {}
  <2>1. Cardinality(Odds(page, a)) <= MaxOdd
    BY <1>7, <1>9, <1>10, BoundAssumption
  <2>. HIDE DEF a
  <2>2. a \in Coherent(page)
    BY <1>4, <1>6, <1>8, <2>1, TypedIsTold
  <2> QED  BY <1>8, <2>2, ReadingAssumption DEF AsksOnce
<1> HIDE DEF a, first, strange
<1>12. flying' \subseteq (1..generation') \X Questions(page')
  BY <1>2, <1>3, <1>11 DEF OrderInv
<1>13. DOMAIN answers' = Readings /\ DOMAIN pending' = Readings
  BY <1>3 DEF OrderInv
<1>14. InOrder(r)' /\ answers'[r] = a /\ Open(r)' = first
  <2>1. answers'[r] = a /\ pending'[r] = Counted(first)
    BY <1>2, <1>3 DEF OrderInv
  <2>2. Open(r)' = first
    <3>1. \A k : <<r, k>> \notin flying
      BY <1>2 DEF OrderInv
    <3>2. \A k : <<r, k>> \in flying' <=> k \in first
      BY <1>3, <3>1
    <3> QED  BY <1>2, <1>11, <3>2 DEF Open
  <2> QED  BY <1>2, <1>6, <1>7, <1>8, <1>10, <2>1, <2>2 DEF InOrder, Counted, plan
<1>15. ASSUME ~PlanOf[page].shared, NEW q \in 1..generation
       PROVE  InOrder(q)'
  <2>1. q \in Readings /\ q # r /\ q \in Live /\ InOrder(q)
    BY <1>2, <1>15, BoundAssumption DEF OrderInv, Live, plan, Readings
  <2>2. answers'[q] = answers[q] /\ pending'[q] = pending[q]
    BY <1>3, <1>15, <2>1 DEF OrderInv
  <2>3. Open(q)' = Open(q)
    BY <1>2, <1>3, <2>1 DEF Open
  <2>4. Cardinality(Odds(page, answers[q])) <= odd'
    <3>1. Cardinality(Odds(page, answers[q])) \in Nat
      BY <1>4, QuestionAssumption, FS_Subset, FS_CardinalityType DEF Odds
    <3> QED  BY <1>10, <1>15, <2>1, <3>1 DEF InOrder, OrderInv
  <2> QED  BY <1>2, <2>1, <2>2, <2>3, <2>4 DEF InOrder, Counted, plan
<1>16. \A q \in Live' : InOrder(q)'
  BY <1>2, <1>14, <1>15 DEF Live, plan
<1>18. OrderInv'
  BY <1>2, <1>10, <1>12, <1>13, <1>16, BoundAssumption DEF OrderInv, Readings
<1>19. r \in Live'
  BY <1>2 DEF Live
<1> QED  BY <1>2, <1>3, <1>11, <1>14, <1>17, <1>18, <1>19

\* The answer to a replaced reading takes its question away and nothing else.
\* Any other answer is told to its own reading, under its own question.
LEMMA AnswerHome ==
  ASSUME page \in Tidy, OrderInv, NEW r, NEW k, <<r, k>> \in flying,
         NEW v \in Replies(page, k), Answer(r, k, v)
  PROVE  \/ /\ plan.shared /\ r # generation
            /\ flying' = flying \ {<<r, k>>}
            /\ UNCHANGED <<answers, pending, sensitive, odd, drawn>>
         \/ /\ r \in Live
            /\ answers' = [answers EXCEPT ![r] = [answers[r] EXCEPT ![k] = v]]
            /\ flying' = (flying \ {<<r, k>>}) \cup {<<r, n>> : n \in Follow(page, k, answers'[r])}
            /\ odd' = IF v = Usual(page, k) THEN odd ELSE odd + 1
            /\ v = Usual(page, k) \/ odd < MaxOdd
            /\ pending' = [pending EXCEPT ![r] = Left(pending[r], k, Follow(page, k, answers'[r]))]
            /\ IF k \in plan.ownrow
               THEN drawn' = [drawn EXCEPT !.answers = answers'[r]] /\ UNCHANGED sensitive
               ELSE IF Draws(k, v, pending'[r])
               THEN drawn' = Drawing(r, answers'[r], pending'[r]) /\ sensitive' = Ready(pending'[r])
               ELSE UNCHANGED <<drawn, sensitive>>
<1>1. plan.unchecked = {} /\ DOMAIN plan.misfiled = {}
  BY OwnAssumption DEF Tidy, plan
<1>2. r \in 1..generation /\ k \in Questions(page)
  BY DEF OrderInv
<1>3. CASE Dropped(r, k)
  BY <1>3 DEF Answer, Dropped
<1>4. CASE ~Dropped(r, k)
  <2>1. r = (IF plan.shared THEN generation ELSE r) /\ r \in Live /\ r \in Readings
    BY <1>1, <1>2, <1>4, BoundAssumption DEF Dropped, Live, OrderInv, Readings
  <2>2. k = IF k \in DOMAIN plan.misfiled THEN plan.misfiled[k] ELSE k
    BY <1>1
  <2> DEFINE told == [answers EXCEPT ![r] = [answers[r] EXCEPT ![k] = v]]
             next == Follow(page, k, told[r])
             open == Left(pending[r], k, next)
  <2>3. /\ v = Usual(page, k) \/ odd < MaxOdd
        /\ flying' = (flying \ {<<r, k>>}) \cup {<<r, n>> : n \in next}
        /\ answers' = told
        /\ odd' = IF v = Usual(page, k) THEN odd ELSE odd + 1
        /\ pending' = [pending EXCEPT ![r] = open]
        /\ IF k \in plan.ownrow
           THEN drawn' = [drawn EXCEPT !.answers = told[r]] /\ UNCHANGED sensitive
           ELSE IF Draws(k, v, open)
           THEN drawn' = Drawing(r, told[r], open) /\ sensitive' = Ready(open)
           ELSE UNCHANGED <<drawn, sensitive>>
    BY <1>4, <2>1, <2>2 DEF Answer
  <2>4. pending'[r] = open
    BY <2>1, <2>3 DEF OrderInv
  <2> HIDE DEF told, open
  <2> QED  BY <2>1, <2>3, <2>4 DEF told, open
<1> QED  BY <1>3, <1>4

\* An answer keeps every reading in order.
LEMMA AnswerOrders ==
  ASSUME page \in Tidy, OrderInv, NEW r, NEW k, <<r, k>> \in flying,
         NEW v \in Replies(page, k), Answer(r, k, v)
  PROVE  OrderInv'
<1>1. /\ page' = page /\ generation' = generation /\ page \in Pages /\ Live' = Live
      /\ r \in 1..generation /\ k \in Questions(page)
  BY DEF Answer, OrderInv, Tidy, Live, plan
<1>2. CASE /\ plan.shared /\ r # generation
           /\ flying' = flying \ {<<r, k>>}
           /\ UNCHANGED <<answers, pending, sensitive, odd, drawn>>
  <2>1. ASSUME NEW q \in Live PROVE InOrder(q)'
    <3>1. q # r /\ InOrder(q)
      BY <1>2 DEF Live, OrderInv
    <3>2. Open(q)' = Open(q)
      BY <1>1, <1>2, <3>1 DEF Open
    <3> QED  BY <1>1, <1>2, <3>1, <3>2 DEF InOrder, Counted, plan
  <2> QED  BY <1>1, <1>2, <2>1 DEF OrderInv
<1>3. CASE /\ r \in Live
           /\ answers' = [answers EXCEPT ![r] = [answers[r] EXCEPT ![k] = v]]
           /\ flying' = (flying \ {<<r, k>>}) \cup {<<r, n>> : n \in Follow(page, k, answers'[r])}
           /\ odd' = IF v = Usual(page, k) THEN odd ELSE odd + 1
           /\ v = Usual(page, k) \/ odd < MaxOdd
           /\ pending' = [pending EXCEPT ![r] = Left(pending[r], k, Follow(page, k, answers'[r]))]
  <2> DEFINE a == answers[r]
             b == [a EXCEPT ![k] = v]
             next == Follow(page, k, b)
  <2>1. InOrder(r) /\ a \in Coherent(page) /\ r \in Readings
    BY <1>1, <1>3, OrderIsCoherent DEF OrderInv
  <2>2. k \in Asked(page, a) \ Answered(page, a) /\ k \in Open(r)
    BY <1>1, <2>1 DEF InOrder, Open
  <2>3. answers'[r] = b /\ pending'[r] = Left(pending[r], k, next)
    BY <1>3, <2>1 DEF OrderInv
  <2>4. /\ k \notin PlanOf[page].instant
        /\ next \cap Asked(page, a) = {} /\ Asked(page, b) = Asked(page, a) \cup next
    BY <2>1, <2>2, ReadingAssumption DEF AsksOnce
  <2>5. v # Waiting /\ DOMAIN a = Questions(page) /\ Typed(page, a)
    BY <1>1, <2>1, PlanAssumption DEF InOrder, Typed
  <2>6. Typed(page, b)
    BY <1>1, <2>5 DEF Typed
  <2>7. Answered(page, b) = Answered(page, a) \cup {k}
    BY <1>1, <2>4, <2>5 DEF Answered
  <2>8. Cardinality(Odds(page, b)) <= odd' /\ odd' \in 0..MaxOdd
    <3>1. IsFiniteSet(Odds(page, a)) /\ IsFiniteSet(Odds(page, b))
      BY <1>1, QuestionAssumption, FS_Subset DEF Odds
    <3>2. Cardinality(Odds(page, a)) \in Nat /\ Cardinality(Odds(page, b)) \in Nat
      BY <3>1, FS_CardinalityType
    <3>3. Cardinality(Odds(page, a)) <= odd /\ odd \in 0..MaxOdd
      BY <2>1 DEF InOrder, OrderInv
    <3>4. CASE v = Usual(page, k)
      <4>1. Odds(page, b) \subseteq Odds(page, a)
        BY <2>5, <3>4 DEF Odds
      <4>2. Cardinality(Odds(page, b)) <= Cardinality(Odds(page, a))
        BY <3>1, <4>1, FS_Subset
      <4> QED  BY <1>3, <3>2, <3>3, <3>4, <4>2
    <3>5. CASE v # Usual(page, k)
      <4>1. Odds(page, b) \subseteq Odds(page, a) \cup {k}
        BY <2>5 DEF Odds
      <4>2. /\ IsFiniteSet(Odds(page, a) \cup {k})
            /\ Cardinality(Odds(page, a) \cup {k}) <= Cardinality(Odds(page, a)) + 1
            /\ Cardinality(Odds(page, a) \cup {k}) \in Nat
        <5>1. /\ IsFiniteSet(Odds(page, a) \cup {k})
              /\ Cardinality(Odds(page, a) \cup {k})
                    = IF k \in Odds(page, a) THEN Cardinality(Odds(page, a)) ELSE Cardinality(Odds(page, a)) + 1
          BY <3>1, FS_AddElement
        <5> QED  BY <3>2, <5>1
      <4>3. Cardinality(Odds(page, b)) <= Cardinality(Odds(page, a) \cup {k})
        BY <4>1, <4>2, FS_Subset
      <4> QED  BY <1>3, <3>2, <3>3, <3>5, <4>2, <4>3, BoundAssumption
    <3> QED  BY <3>4, <3>5
  <2>9. Answered(page, b) \subseteq Asked(page, b)
    BY <2>1, <2>2, <2>4, <2>7, CoherentIsAsked
  <2>10. Asked(page, b) \subseteq Questions(page)
    <3>1. Cardinality(Odds(page, b)) \in Nat
      BY <1>1, QuestionAssumption, FS_Subset, FS_CardinalityType DEF Odds
    <3>2. Cardinality(Odds(page, b)) <= MaxOdd
      BY <2>8, <3>1, BoundAssumption
    <3>3. b \in Coherent(page)
      BY <1>1, <2>6, <2>9, <3>2, TypedIsTold
    <3> QED  BY <3>3, ReadingAssumption DEF AsksOnce
  <2> HIDE DEF b, next
  <2>11. Open(r)' = (Open(r) \ {k}) \cup next
    <3>1. flying' = (flying \ {<<r, k>>}) \cup {<<r, n>> : n \in next}
      BY <1>3, <2>3 DEF next
    <3>2. \A n : <<r, n>> \in flying' <=> (<<r, n>> \in flying /\ n # k) \/ n \in next
      BY <3>1
    <3>3. next \subseteq Questions(page)
      BY <2>4, <2>10
    <3> QED  BY <1>1, <3>2, <3>3 DEF Open
  <2>12. Open(r)' = Asked(page, b) \ Answered(page, b)
    BY <2>1, <2>2, <2>4, <2>7, <2>11, CoherentIsAsked DEF InOrder
  <2>13. pending'[r] = Counted(Open(r)')
    <3>1. IsFiniteSet(Open(r)) /\ IsFiniteSet(next) /\ Open(r) \cap next = {}
      <4>1. next \subseteq Questions(page) /\ Open(r) \subseteq Questions(page)
        BY <2>4, <2>10 DEF Open
      <4> QED  BY <1>1, <2>1, <2>4, <4>1, QuestionAssumption, FS_Subset DEF InOrder
    <3> DEFINE rest == Open(r) \ {k}
    <3>2. /\ IsFiniteSet(rest) /\ IsFiniteSet({k})
          /\ rest \cap {k} = {} /\ rest \cap next = {} /\ Open(r) = rest \cup {k}
      <4>1. IsFiniteSet(rest)
        BY <3>1, FS_RemoveElement
      <4>2. IsFiniteSet({k})
        BY FS_Singleton
      <4> QED  BY <2>2, <3>1, <4>1, <4>2
    <3>6. Open(r)' = rest \cup next
      BY <2>11
    <3> HIDE DEF rest
    <3>3. /\ Counted(Open(r)) = Counted(rest) + Counted({k})
          /\ Counted(rest) \in Nat /\ Counted({k}) \in Nat
      <4>1. /\ Cardinality((rest \cup {k}) \ plan.uncounted)
                 = Cardinality(rest \ plan.uncounted) + Cardinality({k} \ plan.uncounted)
            /\ Cardinality(rest \ plan.uncounted) \in Nat
            /\ Cardinality({k} \ plan.uncounted) \in Nat
        BY <3>2, Parts
      <4> QED  BY <3>2, <4>1 DEF Counted
    <3>4. Closed(pending[r], k) = Counted(rest)
      BY <2>1, <3>3 DEF Closed, InOrder
    <3>5. Counted(Open(r)') = Counted(rest) + Counted(next)
      <4>1. Cardinality((rest \cup next) \ plan.uncounted)
              = Cardinality(rest \ plan.uncounted) + Cardinality(next \ plan.uncounted)
        <5>1. IsFiniteSet(rest) /\ IsFiniteSet(next) /\ rest \cap next = {}
          BY <3>1, <3>2
        <5>2. /\ Cardinality((rest \cup next) \ plan.uncounted)
                   = Cardinality(rest \ plan.uncounted) + Cardinality(next \ plan.uncounted)
              /\ Cardinality(rest \ plan.uncounted) \in Nat
              /\ Cardinality(next \ plan.uncounted) \in Nat
          BY <5>1, Parts
        <5> QED  BY <5>2
      <4> QED  BY <3>6, <4>1 DEF Counted
    <3> QED  BY <2>3, <3>4, <3>5 DEF Left
  <2>14. InOrder(r)'
    BY <1>1, <2>3, <2>6, <2>8, <2>9, <2>12, <2>13 DEF InOrder, Counted, plan
  <2>15. ASSUME NEW q \in Live, q # r PROVE InOrder(q)'
    <3>1. InOrder(q) /\ answers'[q] = answers[q] /\ pending'[q] = pending[q]
      BY <1>3, <2>15 DEF OrderInv
    <3>2. Open(q)' = Open(q)
      BY <1>1, <1>3, <2>15 DEF Open
    <3>3. odd <= odd'
      BY <1>3 DEF OrderInv
    <3>4. Cardinality(Odds(page, answers[q])) \in Nat
      BY <1>1, QuestionAssumption, FS_Subset, FS_CardinalityType DEF Odds
    <3>5. Cardinality(Odds(page, answers[q])) <= odd'
      BY <2>8, <3>1, <3>3, <3>4 DEF InOrder, OrderInv
    <3> QED  BY <1>1, <3>1, <3>2, <3>5 DEF InOrder, Counted, plan
  <2>16. flying' \subseteq (1..generation) \X Questions(page)
    <3>1. flying' = (flying \ {<<r, k>>}) \cup {<<r, n>> : n \in next}
      BY <1>3, <2>3 DEF next
    <3>2. next \subseteq Questions(page)
      BY <2>4, <2>10
    <3> QED  BY <1>1, <3>1, <3>2 DEF OrderInv
  <2>17. DOMAIN answers' = Readings /\ DOMAIN pending' = Readings
    BY <1>3 DEF OrderInv
  <2> QED  BY <1>1, <2>8, <2>14, <2>15, <2>16, <2>17 DEF OrderInv
<1> QED  BY <1>2, <1>3, AnswerHome

\* Every reading that is not replaced is in order: no question is asked twice, and
\* what is open is what was asked and not answered.
THEOREM ReadingsInOrder == Spec => [](page \in Tidy => OrderInv)
<1> DEFINE Inv == page \in Pages /\ (page \in Tidy => OrderInv)
<1>1. Init => Inv
  <2> SUFFICES ASSUME Init, page \in Tidy PROVE OrderInv
    BY DEF Init
  <2>1. Live = {}
    BY DEF Init, Live
  <2> QED  BY <2>1, BoundAssumption DEF Init, OrderInv
<1>2. Inv /\ [Next]_vars => Inv'
  <2> SUFFICES ASSUME Inv, [Next]_vars PROVE Inv'
    OBVIOUS
  <2>1. page' = page
    BY PageStays
  <2> SUFFICES ASSUME page \in Tidy, OrderInv PROVE OrderInv'
    BY <2>1
  <2>2. CASE Begin
    BY <2>2, BeginOrders
  <2>3. ASSUME NEW ask \in flying, NEW v \in Replies(page, ask[2]), Answer(ask[1], ask[2], v)
        PROVE  OrderInv'
    <3>1. ask = <<ask[1], ask[2]>>
      BY DEF OrderInv
    <3> QED  BY <2>3, <3>1, AnswerOrders
  <2>4. CASE UNCHANGED <<page, generation, flying, answers, pending, odd>>
    BY <2>4 DEF OrderInv, Live, InOrder, Open, Counted, plan
  <2> QED  BY <2>2, <2>3, <2>4 DEF Next, Refresh, Act, Acted, vars
<1>3. Inv => (page \in Tidy => OrderInv)
  OBVIOUS
<1> QED  BY <1>1, <1>2, <1>3, PTL DEF Spec

\* The counter of a tidy page is the number of its open questions, whatever it asks,
\* in whatever order it is answered and however many readings there were: it never
\* reaches zero early, and no reading of answers is handed over unfinished
\* (system_status.py, every _gather's `left').
THEOREM CountersAreRight == Spec => [](page \in Tidy => PendingIsOpen)
<1>1. (page \in Tidy => OrderInv) => (page \in Tidy => PendingIsOpen)
  <2> SUFFICES ASSUME OrderInv, NEW r \in Readings,
                      IF plan.shared THEN r = generation ELSE r <= generation
               PROVE  pending[r] = Counted(Open(r))
    BY DEF PendingIsOpen
  <2>1. r \in Live
    BY BoundAssumption DEF OrderInv, Live, Readings
  <2> QED  BY <2>1 DEF OrderInv, InOrder
<1> QED  BY <1>1, ReadingsInOrder, PTL

\* A page whose Refresh is off has a question of its newest reading open.
ReturnInv ==
    /\ plan.on \in {"cleared", "kept"} => sensitive
    /\ page \notin ExcusedOf["ComesBack"] /\ ~sensitive =>
         \E ask \in flying : plan.shared => ask[1] = generation

\* Nothing is open when nothing is counted, if all questions are.
LEMMA CountedNone ==
  ASSUME NEW ks, IsFiniteSet(ks), plan.uncounted = {}
  PROVE  Counted(ks) = 0 <=> ks = {}
BY FS_EmptySet DEF Counted

LEMMA CountedSome == Counted({}) = 0
<1>1. {} \ plan.uncounted = {}
  OBVIOUS
<1> QED  BY <1>1, FS_EmptySet DEF Counted

\* Refresh comes back with the last answer, for every plan whose answers all count:
\* a button that is grey has something to wait for.
THEOREM RefreshComesBack == Spec => [](page \in Tidy => ComesBack)
<1> DEFINE Inv == page \in Tidy => ReturnInv
<1>1. Init => Inv
  BY DEF Init, ReturnInv
<1>2. (page \in Tidy => OrderInv) /\ (page \in Tidy => OrderInv)' /\ Inv /\ [Next]_vars => Inv'
  <2> SUFFICES ASSUME page \in Tidy => OrderInv, (page \in Tidy => OrderInv)',
                      Inv, [Next]_vars, (page \in Tidy)'
               PROVE  ReturnInv'
    OBVIOUS
  <2>1. page' = page /\ plan' = plan /\ page \in Tidy /\ page \in Pages /\ OrderInv /\ OrderInv' /\ ReturnInv
    BY PageStays DEF Tidy
  <2>2. CASE Begin
    <3>1. PICK r : r = generation + 1
      OBVIOUS
    <3>2. /\ generation' = r
          /\ flying' = flying \cup {<<r, k>> : k \in Open(r)'}
          /\ sensitive' = (plan.on \in {"drawn", "cleared", "kept"} \/ Open(r)' = {})
      BY <2>1, <2>2, <3>1, BeginOrders
    <3>3. ASSUME ~sensitive' PROVE \E ask \in flying' : ask[1] = generation'
      <4>1. PICK k : k \in Open(r)'
        BY <3>2, <3>3
      <4>2. <<r, k>> \in flying' /\ <<r, k>>[1] = r
        BY <3>2, <4>1
      <4> QED  BY <3>2, <4>2
    <3> QED  BY <2>1, <3>2, <3>3 DEF ReturnInv
  <2>3. ASSUME NEW ask \in flying, NEW v \in Replies(page, ask[2]), Answer(ask[1], ask[2], v)
        PROVE  ReturnInv'
    <3>1. PICK r, k : r = ask[1] /\ k = ask[2] /\ ask = <<r, k>>
      BY <2>1 DEF OrderInv
    <3>2. generation' = generation
      BY <2>3 DEF Answer
    <3>3. CASE /\ plan.shared /\ r # generation
               /\ flying' = flying \ {<<r, k>>}
               /\ sensitive' = sensitive
      BY <2>1, <3>2, <3>3 DEF ReturnInv
    <3>4. CASE /\ r \in Live
               /\ IF k \in plan.ownrow
                  THEN UNCHANGED sensitive
                  ELSE IF Draws(k, v, pending'[r])
                  THEN sensitive' = Ready(pending'[r])
                  ELSE UNCHANGED sensitive
      <4>1. plan.on \in {"cleared", "kept"} => sensitive'
        BY <2>1, <3>4 DEF ReturnInv, Ready
      <4>2. ASSUME page \notin ExcusedOf["ComesBack"], ~sensitive'
            PROVE  \E a \in flying' : plan.shared => a[1] = generation
        <5>1. plan.silent = {} /\ plan.ownrow = {} /\ plan.uncounted = {}
              /\ plan.on \notin {"cleared", "kept"}
          BY <2>1, <4>1, <4>2, ReturnAssumption DEF Plain, plan
        <5>2. pending'[r] # 0
          BY <3>4, <4>2, <5>1 DEF Draws, Ready
        <5>3. pending'[r] = Counted(Open(r)')
          <6>1. r \in Live'
            BY <2>1, <3>2, <3>4 DEF Live
          <6>2. pending'[r] = Counted(Open(r))'
            BY <2>1, <6>1 DEF OrderInv, InOrder
          <6> QED  BY <2>1, <6>2 DEF Counted
        <5>4. Open(r)' # {}
          BY <5>2, <5>3, CountedSome
        <5>5. PICK n : <<r, n>> \in flying'
          BY <5>4 DEF Open
        <5>6. plan.shared => r = generation
          BY <3>4 DEF Live
        <5> QED  BY <5>5, <5>6
      <4> QED  BY <2>1, <3>2, <4>1, <4>2 DEF ReturnInv
    <3> QED  BY <2>1, <2>3, <3>1, <3>3, <3>4, AnswerHome
  <2>4. CASE UNCHANGED <<generation, flying, sensitive>>
    BY <2>1, <2>4 DEF ReturnInv
  <2> QED  BY <2>2, <2>3, <2>4 DEF Next, Refresh, Act, Acted, vars
<1>3. Inv => (page \in Tidy => ComesBack)
  BY DEF ReturnInv, ComesBack, Quiet
<1>4. Spec => [](page \in Tidy => OrderInv)
  BY ReadingsInOrder
<1> QED  BY <1>1, <1>2, <1>3, <1>4, PTL DEF Spec

\* What is drawn is the newest reading, or that reading has a question open.  It
\* takes that readings with answers of their own do not overlap: then only the
\* newest is in flight, and where Refresh keeps them apart it is off meanwhile.
DrawInv ==
    /\ DOMAIN drawn = {"reading", "answers", "busy"}
    /\ drawn.reading \in 0..generation
    /\ plan.shared /\ plan.on = "drawn" /\ generation > 0 => drawn.reading = generation
    /\ ~plan.shared => \A ask \in flying : ask[1] = generation
    /\ ~plan.shared /\ plan.again /\ plan.on \in {"asked", "off"} /\ Plain(page) /\ sensitive
         => flying = {}
    /\ (\A a \in Coherent(page) : Follow(page, "refresh", a) = {}) => flying = {}
    /\ generation > 0 =>
         \/ Open(generation) # {}
         \/ /\ drawn.reading = generation /\ drawn.answers = answers[generation]
            /\ plan.ownrow = {} => ~drawn.busy

\* A reading begins on such a page with none in flight, if its answers are its own.
LEMMA BeginDraws ==
  ASSUME page \in Tidy, page \notin ExcusedOf["DrawnIsHeld"], OrderInv, DrawInv, Begin,
         ~plan.shared => flying = {}
  PROVE  DrawInv'
<1>1. PICK r : r = generation + 1
  OBVIOUS
<1>2. /\ r \in Nat /\ generation' = r /\ r \in Live'
      /\ flying' = flying \cup {<<r, k>> : k \in Open(r)'}
      /\ sensitive' = (plan.on \in {"drawn", "cleared", "kept"} \/ Open(r)' = {})
      /\ \/ /\ drawn'.reading = r /\ drawn'.answers = answers'[r]
            /\ DOMAIN drawn' = {"reading", "answers", "busy"} /\ drawn'.busy \in BOOLEAN
            /\ Open(r)' = {} => ~drawn'.busy
            /\ Open(r)' = {} \/ plan.on \in {"asked", "drawn"}
         \/ Open(r)' # {} /\ plan.on # "drawn" /\ drawn' \in {drawn, [drawn EXCEPT !.reading = 0]}
      /\ (\A a \in Coherent(page) : Follow(page, "refresh", a) = {}) => Open(r)' = {}
  BY <1>1, BeginOrders
<1>3. page' = page /\ plan' = plan /\ generation \in Nat /\ r > generation
  BY <1>1 DEF Begin, plan, OrderInv
<1>4. DOMAIN drawn' = {"reading", "answers", "busy"} /\ drawn'.reading \in 0..r
  BY <1>2, <1>3 DEF DrawInv
<1>5. plan.on = "drawn" => drawn'.reading = r
  BY <1>2
<1>6. ~plan.shared => \A ask \in flying' : ask[1] = r
  BY <1>2
<1>7. Open(r)' = {} => flying' = flying
  BY <1>2
<1>8. ~plan.shared /\ plan.on \in {"asked", "off"} /\ sensitive' => flying' = {}
  BY <1>2, <1>7
<1>9. (\A a \in Coherent(page) : Follow(page, "refresh", a) = {}) => flying' = {}
  BY <1>2, <1>7 DEF DrawInv
<1>10. \/ Open(generation)' # {}
       \/ drawn'.reading = generation' /\ drawn'.answers = answers'[generation'] /\ ~drawn'.busy
  <2>1. Open(generation)' = Open(r)'
    BY <1>2 DEF Open
  <2> QED  BY <1>2, <2>1
<1> QED  BY <1>2, <1>3, <1>4, <1>5, <1>6, <1>8, <1>9, <1>10 DEF DrawInv

\* The answer that leaves nothing open is drawn: no plan is silent about it.
LEMMA LastIsDrawn ==
  ASSUME page \in Tidy, page \notin ExcusedOf["DrawnIsHeld"], OrderInv, OrderInv',
         NEW r \in Live, NEW k, <<r, k>> \in flying, NEW v \in Replies(page, k),
         page' = page, generation' = generation,
         answers' = [answers EXCEPT ![r] = [answers[r] EXCEPT ![k] = v]],
         flying' = (flying \ {<<r, k>>}) \cup {<<r, n>> : n \in Follow(page, k, answers'[r])},
         Open(r)' = {}, k \notin plan.ownrow
  PROVE  Draws(k, v, pending'[r]) /\ pending'[r] = 0
<1> DEFINE a == answers'[r]
<1>1. page \in Pages /\ r \in Live' /\ plan' = plan /\ r \in Readings /\ InOrder(r)
  BY OrderIsCoherent DEF Tidy, Live, plan, OrderInv
<1>2. InOrder(r)' /\ odd' \in 0..MaxOdd
  BY <1>1 DEF OrderInv
<1>3. a \in Coherent(page)
  BY <1>1, <1>2, TypedIsCoherent DEF InOrder
<1>4. k \in Questions(page) /\ k \notin PlanOf[page].instant
  <2>1. k \in Open(r)
    BY DEF OrderInv, Open
  <2>2. answers[r] \in Coherent(page) /\ k \in Asked(page, answers[r])
    BY <1>1, <2>1, OrderIsCoherent DEF InOrder
  <2> QED  BY <2>2, ReadingAssumption DEF AsksOnce
<1>5. a[k] = v /\ v # Waiting
  <2>1. DOMAIN answers[r] = Questions(page)
    BY <1>1 DEF InOrder, Typed
  <2> QED  BY <1>1, <1>4, <2>1, PlanAssumption DEF OrderInv
<1>6. k \in Answered(page, a)
  BY <1>4, <1>5 DEF Answered
<1>7. Follow(page, k, a) = {}
  <2>1. \A n \in Follow(page, k, a) : <<r, n>> \in flying'
    OBVIOUS
  <2>2. \A n : <<r, n>> \in flying' => n \in Open(r)'
    BY DEF OrderInv, Open
  <2> QED  BY <2>1, <2>2
<1>8. pending'[r] = 0
  <2>1. pending'[r] = Counted(Open(r))'
    BY <1>2 DEF InOrder
  <2>2. Counted(Open(r))' = Counted({})
    BY <1>1 DEF Counted
  <2> QED  BY <2>1, <2>2, CountedSome
<1> HIDE DEF a
<1>9. CASE plan.each
  <2>1. <<k, a[k]>> \notin PlanOf[page].silent
    BY <1>3, <1>6, <1>7, <1>9, ReadingAssumption DEF SilentAsks, plan
  <2> QED  BY <1>5, <1>8, <1>9, <2>1 DEF Draws, plan
<1>10. CASE ~plan.each
  <2>1. plan.uncounted = {}
    BY <1>10, DrawAssumption DEF plan
  <2> QED  BY <1>8, <1>10, <2>1 DEF Draws
<1> QED  BY <1>8, <1>9, <1>10

LEMMA AnswerDraws ==
  ASSUME page \in Tidy, page \notin ExcusedOf["DrawnIsHeld"], OrderInv, OrderInv', DrawInv,
         NEW r, NEW k, <<r, k>> \in flying, NEW v \in Replies(page, k), Answer(r, k, v)
  PROVE  DrawInv'
<1>1. /\ page' = page /\ plan' = plan /\ generation' = generation /\ page \in Pages
      /\ r \in 1..generation /\ k \in Questions(page) /\ generation \in Nat
  BY DEF Answer, OrderInv, Tidy, plan
<1>2. flying # {}
  OBVIOUS
<1>3. CASE /\ plan.shared /\ r # generation
           /\ flying' = flying \ {<<r, k>>}
           /\ UNCHANGED <<answers, pending, sensitive, odd, drawn>>
  <2>1. Open(generation)' = Open(generation)
    BY <1>1, <1>3 DEF Open
  <2> QED  BY <1>1, <1>2, <1>3, <2>1 DEF DrawInv
<1>4. CASE /\ r \in Live
           /\ answers' = [answers EXCEPT ![r] = [answers[r] EXCEPT ![k] = v]]
           /\ flying' = (flying \ {<<r, k>>}) \cup {<<r, n>> : n \in Follow(page, k, answers'[r])}
           /\ IF k \in plan.ownrow
              THEN drawn' = [drawn EXCEPT !.answers = answers'[r]] /\ UNCHANGED sensitive
              ELSE IF Draws(k, v, pending'[r])
              THEN drawn' = Drawing(r, answers'[r], pending'[r]) /\ sensitive' = Ready(pending'[r])
              ELSE UNCHANGED <<drawn, sensitive>>
  <2>1. r = generation /\ <<r, k>>[1] = r
    BY <1>4 DEF Live, DrawInv
  <2>2. Open(generation)' = Open(r)'
    BY <1>1, <2>1 DEF Open
  <2>3. plan.ownrow = {} \/ (plan.shared /\ plan.on = "drawn" /\ drawn.reading = generation)
    BY <1>1, DrawAssumption DEF DrawInv, plan
  <2>4. \/ Open(r)' # {}
        \/ drawn'.reading = r /\ drawn'.answers = answers'[r] /\ (plan.ownrow = {} => ~drawn'.busy)
    <3> SUFFICES ASSUME Open(r)' = {}
                 PROVE  /\ drawn'.reading = r /\ drawn'.answers = answers'[r]
                        /\ plan.ownrow = {} => ~drawn'.busy
      OBVIOUS
    <3>1. CASE k \in plan.ownrow
      BY <1>4, <2>1, <2>3, <3>1 DEF DrawInv
    <3>2. CASE k \notin plan.ownrow
      <4>1. Draws(k, v, pending'[r]) /\ pending'[r] = 0
        BY <1>1, <1>4, <3>2, LastIsDrawn
      <4>2. drawn' = Drawing(r, answers'[r], 0) /\ (0 > 0) = FALSE
        BY <1>4, <3>2, <4>1
      <4> QED  BY <4>2 DEF Drawing
    <3> QED  BY <3>1, <3>2
  <2>5. DOMAIN drawn' = {"reading", "answers", "busy"}
    BY <1>4 DEF Drawing, DrawInv
  <2>6. drawn'.reading \in {drawn.reading, r}
    BY <1>4 DEF Drawing, DrawInv
  <2>7. ~plan.shared => \A ask \in flying' : ask[1] = r
    BY <1>4, <2>1 DEF DrawInv
  <2>8. ASSUME ~plan.shared, plan.again, plan.on \in {"asked", "off"}, Plain(page), sensitive'
        PROVE  flying' = {}
    <3>1. ~sensitive
      BY <1>2, <2>8 DEF DrawInv
    <3>2. pending'[r] = 0
      BY <1>4, <2>8, <3>1 DEF Plain, Ready, plan
    <3>3. IsFiniteSet(Open(r)')
      BY <1>1, QuestionAssumption, FS_Subset DEF Open
    <3>4. pending'[r] = Counted(Open(r)')
      <4>1. r \in Live'
        BY <1>1, <1>4 DEF Live
      <4>2. pending'[r] = Counted(Open(r))'
        BY <4>1 DEF OrderInv, InOrder
      <4> QED  BY <1>1, <4>2 DEF Counted
    <3>5. Open(r)' = {}
      BY <2>8, <3>2, <3>3, <3>4, CountedNone DEF Plain, plan
    <3>6. \A ask \in flying' : ask = <<r, ask[2]>> /\ ask[2] \in Questions(page')
      BY <2>7, <2>8 DEF OrderInv
    <3> QED  BY <3>5, <3>6 DEF Open
  <2>9. drawn'.reading \in 0..generation
    BY <1>1, <2>6 DEF DrawInv
  <2> QED  BY <1>1, <1>2, <2>1, <2>2, <2>4, <2>5, <2>6, <2>7, <2>8, <2>9 DEF DrawInv
<1> QED  BY <1>3, <1>4, AnswerHome

\* In every state of such a page DrawInv holds.
LEMMA DrawAlways == Spec => [](page \in Tidy \ ExcusedOf["DrawnIsHeld"] => DrawInv)
<1> DEFINE Named == page \in Tidy \ ExcusedOf["DrawnIsHeld"]
           Inv == Named => DrawInv
<1>1. Init => Inv
  BY DEF Init, DrawInv
<1>2. (page \in Tidy => OrderInv) /\ (page \in Tidy => OrderInv)' /\ Inv /\ [Next]_vars => Inv'
  <2> SUFFICES ASSUME page \in Tidy => OrderInv, (page \in Tidy => OrderInv)',
                      Inv, [Next]_vars, Named'
               PROVE  DrawInv'
    OBVIOUS
  <2>1. /\ page' = page /\ plan' = plan /\ page \in Tidy /\ page \notin ExcusedOf["DrawnIsHeld"]
        /\ OrderInv /\ OrderInv' /\ DrawInv
    BY PageStays
  <2>2. OneAtATime(page)
    BY <2>1, DrawAssumption
  <2>3. CASE Refresh
    <3>1. Begin /\ sensitive /\ (generation > 0 => plan.again)
      BY <2>3 DEF Refresh
    <3>2. generation > 0 \/ flying = {}
      BY <2>1 DEF OrderInv
    <3>3. ~plan.shared => flying = {}
      BY <2>1, <2>2, <3>1, <3>2 DEF OneAtATime, DrawInv, plan
    <3> QED  BY <2>1, <3>1, <3>3, BeginDraws
  <2>4. ASSUME NEW ask \in flying, NEW v \in Replies(page, ask[2]), Answer(ask[1], ask[2], v)
        PROVE  DrawInv'
    <3>1. ask = <<ask[1], ask[2]>>
      BY <2>1 DEF OrderInv
    <3> QED  BY <2>1, <2>4, <3>1, AnswerDraws
  <2>5. CASE Acted /\ Reloads
    <3>1. Begin /\ plan.act = "reloads"
      BY <2>5 DEF Acted, Reloads
    <3>2. ~plan.shared => flying = {}
      BY <2>1, <2>2, <3>1 DEF OneAtATime, DrawInv, plan
    <3> QED  BY <2>1, <3>1, <3>2, BeginDraws
  <2>6. CASE UNCHANGED <<page, generation, flying, answers, sensitive, drawn>>
    BY <2>1, <2>6 DEF DrawInv, Open
  <2> QED  BY <2>3, <2>4, <2>5, <2>6 DEF Next, Act, Acted, vars
<1>3. Spec => [](page \in Tidy => OrderInv)
  BY ReadingsInOrder
<1> QED  BY <1>1, <1>2, <1>3, PTL DEF Spec

\* A tidy page that has come to rest shows the answers of its newest reading, all of
\* them, in whatever order the tools of any number of readings answered.
THEOREM NewestIsDrawn == Spec => [](page \in Tidy => DrawnIsHeld)
<1>1. (page \in Tidy => OrderInv) /\ (page \in Tidy \ ExcusedOf["DrawnIsHeld"] => DrawInv)
        => (page \in Tidy => DrawnIsHeld)
  BY DEF DrawInv, DrawnIsHeld, Quiet, Open
<1> QED  BY <1>1, ReadingsInOrder, DrawAlways, PTL

\* What is drawn is something a reading can have been told, and all of it on a page
\* that is not drawn while it asks.
ShownInv ==
    /\ DOMAIN drawn = {"reading", "answers", "busy"}
    /\ drawn.busy \in BOOLEAN
    /\ drawn.reading # 0 =>
         /\ drawn.answers \in Coherent(page)
         /\ Piecewise(page) \/ Complete(page, drawn.answers)

\* A reading in order with nothing open is complete.
LEMMA OrderIsComplete ==
  ASSUME page \in Pages, OrderInv, NEW r \in Live
  PROVE  /\ answers[r] \in Coherent(page)
         /\ Open(r) = {} => Complete(page, answers[r])
<1>1. answers[r] \in Coherent(page) /\ InOrder(r)
  BY OrderIsCoherent DEF OrderInv
<1> QED  BY <1>1 DEF InOrder, Complete

LEMMA BeginShows ==
  ASSUME page \in Tidy, OrderInv, ShownInv, Begin
  PROVE  ShownInv'
<1>1. PICK r : r = generation + 1
  OBVIOUS
<1>2. /\ OrderInv'
      /\ r \in Live' /\ r \in Nat /\ generation' = r
      /\ flying' = flying \cup {<<r, k>> : k \in Open(r)'}
      /\ sensitive' = (plan.on \in {"drawn", "cleared", "kept"} \/ Open(r)' = {})
      /\ \/ /\ drawn'.reading = r /\ drawn'.answers = answers'[r]
            /\ DOMAIN drawn' = {"reading", "answers", "busy"} /\ drawn'.busy \in BOOLEAN
            /\ Open(r)' = {} => ~drawn'.busy
            /\ Open(r)' = {} \/ plan.on \in {"asked", "drawn"}
         \/ Open(r)' # {} /\ plan.on # "drawn" /\ drawn' \in {drawn, [drawn EXCEPT !.reading = 0]}
      /\ (\A a \in Coherent(page) : Follow(page, "refresh", a) = {}) => Open(r)' = {}
  BY <1>1, BeginOrders
<1>3. page' = page /\ page \in Pages
  BY DEF Begin, Tidy
<1>4. /\ answers'[r] \in Coherent(page)
      /\ Open(r)' = {} => Complete(page, answers'[r])
  <2>1. InOrder(r)' /\ odd' \in 0..MaxOdd
    BY <1>2 DEF OrderInv
  <2> QED  BY <1>3, <2>1, TypedIsCoherent DEF InOrder, Complete
<1>5. CASE drawn' \in {drawn, [drawn EXCEPT !.reading = 0]}
  BY <1>3, <1>5 DEF ShownInv
<1>6. CASE drawn'.answers = answers'[r] /\ DOMAIN drawn' = {"reading", "answers", "busy"}
           /\ drawn'.busy \in BOOLEAN /\ (Open(r)' = {} \/ plan.on \in {"asked", "drawn"})
  BY <1>3, <1>4, <1>6 DEF ShownInv, Piecewise, plan
<1> QED  BY <1>2, <1>5, <1>6

LEMMA AnswerShows ==
  ASSUME page \in Tidy, OrderInv, OrderInv', ShownInv,
         NEW r, NEW k, <<r, k>> \in flying, NEW v \in Replies(page, k), Answer(r, k, v)
  PROVE  ShownInv'
<1>1. /\ page' = page /\ plan' = plan /\ generation' = generation /\ page \in Pages
  BY DEF Answer, Tidy, plan
<1>2. CASE UNCHANGED drawn
  BY <1>1, <1>2 DEF ShownInv
<1>3. CASE /\ r \in Live
           /\ \/ k \in plan.ownrow /\ drawn' = [drawn EXCEPT !.answers = answers'[r]]
              \/ Draws(k, v, pending'[r]) /\ drawn' = Drawing(r, answers'[r], pending'[r])
  <2>1. r \in Live' /\ InOrder(r)' /\ odd' \in 0..MaxOdd
    BY <1>1, <1>3 DEF Live, OrderInv
  <2>2. /\ answers'[r] \in Coherent(page)
        /\ Open(r)' = {} => Complete(page, answers'[r])
    BY <1>1, <2>1, TypedIsCoherent DEF InOrder, Complete
  <2>3. CASE k \in plan.ownrow /\ drawn' = [drawn EXCEPT !.answers = answers'[r]]
    <3>1. Piecewise(page)
      BY <2>3 DEF Piecewise, plan
    <3> QED  BY <1>1, <2>2, <2>3, <3>1 DEF ShownInv
  <2>4. CASE Draws(k, v, pending'[r]) /\ drawn' = Drawing(r, answers'[r], pending'[r])
    <3>1. Piecewise(page) \/ Complete(page, answers'[r])
      <4> SUFFICES ASSUME ~Piecewise(page) PROVE Complete(page, answers'[r])
        OBVIOUS
      <4>1. pending'[r] = 0 /\ plan.uncounted = {}
        BY <2>4 DEF Piecewise, Draws, plan
      <4>2. IsFiniteSet(Open(r)')
        BY <1>1, QuestionAssumption, FS_Subset DEF Open
      <4>3. pending'[r] = Counted(Open(r)')
        <5>1. pending'[r] = Counted(Open(r))'
          BY <2>1 DEF InOrder
        <5> QED  BY <1>1, <5>1 DEF Counted
      <4>4. Open(r)' = {}
        BY <4>1, <4>2, <4>3, CountedNone
      <4> QED  BY <2>2, <4>4
    <3>2. (pending'[r] > 0) \in BOOLEAN
      OBVIOUS
    <3> QED  BY <1>1, <2>2, <2>4, <3>1, <3>2 DEF ShownInv, Drawing
  <2> QED  BY <1>3, <2>3, <2>4
<1> QED  BY <1>2, <1>3, AnswerHome

LEMMA ShownAlways == Spec => [](page \in Tidy => ShownInv)
<1> DEFINE Inv == page \in Tidy => ShownInv
<1>1. Init => Inv
  BY DEF Init, ShownInv
<1>2. (page \in Tidy => OrderInv) /\ (page \in Tidy => OrderInv)' /\ Inv /\ [Next]_vars => Inv'
  <2> SUFFICES ASSUME page \in Tidy => OrderInv, (page \in Tidy => OrderInv)',
                      Inv, [Next]_vars, page' \in Tidy
               PROVE  ShownInv'
    OBVIOUS
  <2>1. page' = page /\ page \in Tidy /\ OrderInv /\ OrderInv' /\ ShownInv
    BY PageStays
  <2>2. CASE Begin
    BY <2>1, <2>2, BeginShows
  <2>3. ASSUME NEW ask \in flying, NEW v \in Replies(page, ask[2]), Answer(ask[1], ask[2], v)
        PROVE  ShownInv'
    <3>1. ask = <<ask[1], ask[2]>>
      BY <2>1 DEF OrderInv
    <3> QED  BY <2>1, <2>3, <3>1, AnswerShows
  <2>4. CASE UNCHANGED <<page, drawn>>
    BY <2>1, <2>4 DEF ShownInv
  <2> QED  BY <2>2, <2>3, <2>4 DEF Next, Refresh, Act, Acted, vars
<1>3. Spec => [](page \in Tidy => OrderInv)
  BY ReadingsInOrder
<1> QED  BY <1>1, <1>2, <1>3, PTL DEF Spec

\* The line on top of a tidy page rests on questions that were answered, in every
\* state and beside any number of readings: what its rules make of one reading is
\* all there is to it.
THEOREM VerdictsAreEarned == Spec => [](page \in Tidy => VerdictIsEarned)
<1>1. (page \in Tidy => ShownInv) => (page \in Tidy => VerdictIsEarned)
  <2> SUFFICES ASSUME page \in Tidy, ShownInv, drawn.reading > 0
               PROVE  Earned(page, drawn.answers, drawn.busy)
    BY DEF VerdictIsEarned
  <2>1. drawn.reading # 0
    OBVIOUS
  <2> QED  BY <2>1, ReadingAssumption DEF ShownInv, Deserved
<1> QED  BY <1>1, ShownAlways, PTL

\* What a tidy page shows at rest is one reading, complete, whatever other readings
\* and actions there were.
LEMMA RestIsOneReading ==
  ASSUME page \in Tidy, page \notin ExcusedOf["DrawnIsHeld"], OrderInv, DrawInv, ShownInv,
         Quiet, drawn.reading > 0
  PROVE  /\ drawn.answers \in Coherent(page) /\ Complete(page, drawn.answers)
         /\ drawn.busy \in (IF PlanOf[page].ownrow = {} THEN {FALSE} ELSE BOOLEAN)
<1>1. generation > 0 /\ generation \in Live /\ Open(generation) = {} /\ page \in Pages
  BY DEF DrawInv, OrderInv, Live, Quiet, Open, Tidy
<1>2. /\ drawn.answers = answers[generation]
      /\ plan.ownrow = {} => ~drawn.busy
  BY <1>1 DEF DrawInv
<1>3. drawn.busy \in BOOLEAN
  BY DEF ShownInv
<1>4. drawn.answers \in Coherent(page) /\ Complete(page, drawn.answers)
  BY <1>1, <1>2, OrderIsComplete
<1>5. PlanOf[page].ownrow = {} => drawn.busy = FALSE
  BY <1>2, <1>3 DEF plan
<1> QED  BY <1>3, <1>4, <1>5

\* A tidy page that has come to rest does not go on saying that it looks, neither on
\* top nor in a row, whatever other readings were replaced beside it.
THEOREM RestSaysWhatItIs ==
  Spec => [](page \in Tidy \ ExcusedOf["DrawnIsHeld"] => RestIsSaid)
<1>1. /\ page \in Tidy => OrderInv
      /\ page \in Tidy \ ExcusedOf["DrawnIsHeld"] => DrawInv
      /\ page \in Tidy => ShownInv
      => (page \in Tidy \ ExcusedOf["DrawnIsHeld"] => RestIsSaid)
  <2> SUFFICES ASSUME page \in Tidy, page \notin ExcusedOf["DrawnIsHeld"], OrderInv, DrawInv, ShownInv,
                      Quiet, drawn.reading > 0
               PROVE  Said(page, drawn.answers, drawn.busy)
    BY DEF RestIsSaid
  <2> QED  BY RestIsOneReading, ReadingAssumption DEF Settled
<1> QED  BY <1>1, ReadingsInOrder, DrawAlways, ShownAlways, PTL

\* A row of a tidy page at rest whose question failed says so or is not there,
\* whatever other readings were replaced beside it.
THEOREM FailuresAreAdmitted ==
  Spec => [](page \in Tidy \ ExcusedOf["DrawnIsHeld"] => FailedReadSaysSo)
<1>1. /\ page \in Tidy => OrderInv
      /\ page \in Tidy \ ExcusedOf["DrawnIsHeld"] => DrawInv
      /\ page \in Tidy => ShownInv
      => (page \in Tidy \ ExcusedOf["DrawnIsHeld"] => FailedReadSaysSo)
  <2> SUFFICES ASSUME page \in Tidy, page \notin ExcusedOf["DrawnIsHeld"], OrderInv, DrawInv, ShownInv,
                      Quiet, drawn.reading > 0
               PROVE  Admitted(page, drawn.answers)
    BY DEF FailedReadSaysSo
  <2> QED  BY RestIsOneReading, ReadingAssumption DEF Settled
<1> QED  BY <1>1, ReadingsInOrder, DrawAlways, ShownAlways, PTL

\* The last reading started after the last action on the system ended, where an
\* action reads again.
ActedInv ==
    /\ acting \in Nat
    /\ plan.act = "none" => acting = 0 /\ changed = 0
    /\ plan.act = "reloads" => changed \in Nat /\ (changed = 0 \/ changed < generation)

\* After its own actions, however many overlap, a tidy page does not rest on what
\* was read before the last of them ended.
THEOREM RestsOnFresh ==
  Spec => [](page \in Tidy \ ExcusedOf["DrawnIsHeld"] => Fresh)
<1> DEFINE Inv == page \in Pages /\ generation \in Nat /\ ActedInv
<1>1. Init => Inv
  BY DEF Init, ActedInv
<1>2. Inv /\ [Next]_vars => Inv'
  <2> SUFFICES ASSUME Inv, [Next]_vars PROVE Inv'
    OBVIOUS
  <2>1. page' = page /\ plan' = plan
    BY PageStays
  <2>2. CASE Refresh
    BY <2>1, <2>2 DEF Refresh, Begin, ActedInv
  <2>3. CASE Act
    BY <2>1, <2>3 DEF Act, ActedInv
  <2>4. CASE Acted
    <3>1. acting \in Nat /\ acting > 0 /\ acting' = acting - 1 /\ changed' = generation
      BY <2>4 DEF Acted, ActedInv
    <3>2. plan.act # "none" /\ acting' \in Nat
      BY <3>1 DEF ActedInv
    <3>3. CASE Reloads
      <4>1. generation' = generation + 1
        BY <2>4, <3>3 DEF Acted, Begin
      <4> QED  BY <2>1, <3>1, <3>2, <4>1 DEF ActedInv
    <3>4. CASE ~Reloads
      <4>1. generation' = generation
        BY <2>4, <3>4 DEF Acted
      <4> QED  BY <2>1, <3>1, <3>2, <3>4, <4>1 DEF Reloads, ActedInv
    <3> QED  BY <3>3, <3>4
  <2>5. CASE UNCHANGED <<generation, acting, changed>>
    BY <2>1, <2>5 DEF ActedInv
  <2> QED  BY <2>2, <2>3, <2>4, <2>5 DEF Next, Answer, vars
<1>3. Inv /\ (page \in Tidy => OrderInv) /\ (page \in Tidy \ ExcusedOf["DrawnIsHeld"] => DrawInv)
        => (page \in Tidy \ ExcusedOf["DrawnIsHeld"] => Fresh)
  <2> SUFFICES ASSUME Inv, OrderInv, DrawInv, Quiet, page \in Tidy, page \notin ExcusedOf["Fresh"]
               PROVE  drawn.reading = 0 \/ drawn.reading > changed
    BY DEF Fresh
  <2>1. plan.act \in {"none", "reloads"}
    BY PlanAssumption, FreshAssumption DEF plan
  <2>2. generation > 0 => drawn.reading = generation
    BY DEF DrawInv, Quiet, Open
  <2>3. generation = 0 => drawn.reading = 0
    BY DEF DrawInv
  <2> QED  BY <2>1, <2>2, <2>3 DEF ActedInv
<1> QED  BY <1>1, <1>2, <1>3, ReadingsInOrder, DrawAlways, PTL DEF Spec
=============================================================================
