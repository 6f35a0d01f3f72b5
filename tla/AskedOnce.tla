----------------------------- MODULE AskedOnce -----------------------------
(***************************************************************************)
(* What the pages of Readers have in common in what they ask: whichever    *)
(* way the answers of one reading come, no question is asked twice.  The   *)
(* pages whose answers can land in the wrong place are left out.  It is a  *)
(* property of Plan and Follow, stated here over all that one reading can  *)
(* have been told and evaluated by TLC for every page of PageTable;        *)
(* ReadersProofs rests on it.                                              *)
(***************************************************************************)
EXTENDS Readers

\* The pages that compare and file all their answers.
Tidy == Pages \ ExcusedOf["OwnAnswers"]

\* The tools that have answered, in the answers a.
Answered(p, a) == {k \in Questions(p) \ PlanOf[p].instant : a[k] # Waiting}

\* The questions the answers a have started, the reading's first ones included.
Asked(p, a) == Follow(p, "refresh", a) \cup UNION {Follow(p, k, a) : k \in Answered(p, a)}

\* The answers that are not the usual ones.
Odds(p, a) == {k \in Questions(p) : a[k] \notin {Waiting, Usual(p, k)}}

\* What a reading can have been told, with at most MaxOdd answers that are not
\* the usual ones.
Strangely(p, ks) == {said \in [ks -> UNION {Replies(p, k) : k \in ks}] :
                       \A k \in ks : said[k] \in Replies(p, k) \ {Usual(p, k)}}
ToldWith(p, ks, said) ==
    {[k \in Questions(p) |-> IF k \in open THEN Waiting
                             ELSE IF k \in ks THEN said[k] ELSE Usual(p, k)] :
       open \in SUBSET (Questions(p) \ (PlanOf[p].instant \cup ks))}

\* What of it was asked for.
CoherentWith(p, ks, said) == {a \in ToldWith(p, ks, said) : Answered(p, a) \subseteq Asked(p, a)}
Coherent(p) == UNION {UNION {CoherentWith(p, ks, said) : said \in Strangely(p, ks)} :
                        ks \in {ks \in SUBSET Questions(p) : Cardinality(ks) <= MaxOdd}}

ASSUME QuestionAssumption ==
    \A p \in Pages : /\ IsFiniteSet(Questions(p))
                     /\ \A k \in Questions(p) : Usual(p, k) \in Replies(p, k)

\* Nothing about the answers a page has draws it otherwise than by its plan.
Plain(p) == PlanOf[p].silent = {} /\ PlanOf[p].ownrow = {} /\ PlanOf[p].uncounted = {}

\* Refresh is never taken away, or every answer counts and may bring it back.
ASSUME ReturnAssumption ==
    \A p \in Tidy \ ExcusedOf["ComesBack"] : PlanOf[p].on \in {"cleared", "kept"} \/ Plain(p)

\* Readings with answers of their own do not overlap: a reading begins only by a
\* Refresh that is off while the one before it runs, or nothing is asked.
OneAtATime(p) ==
    \/ PlanOf[p].shared
    \/ /\ PlanOf[p].act # "reloads"
       /\ PlanOf[p].again => PlanOf[p].on \in {"asked", "off"} /\ Plain(p)
    \/ \A a \in Coherent(p) : Follow(p, "refresh", a) = {}

\* What draws the last answer of a reading.
ASSUME DrawAssumption ==
    \A p \in Tidy \ ExcusedOf["DrawnIsHeld"] :
        /\ OneAtATime(p)
        /\ PlanOf[p].each \/ PlanOf[p].uncounted = {}
        /\ PlanOf[p].ownrow = {} \/ (PlanOf[p].shared /\ PlanOf[p].on = "drawn")

\* A page that does not read again after an action is known to be one.
ASSUME FreshAssumption ==
    \A p \in Tidy \ ExcusedOf["Fresh"] : PlanOf[p].act # "stays"

\* An answer asks only what was not asked before, and takes nothing back.
AsksOnce(p, a) ==
    LET asked == Asked(p, a)
    IN  /\ asked \subseteq Questions(p) \ PlanOf[p].instant
        /\ \A k \in asked \ Answered(p, a) : \A v \in Replies(p, k) :
             LET b    == [a EXCEPT ![k] = v]
                 next == Follow(p, k, b)
             IN  next \cap asked = {} /\ Asked(p, b) = asked \cup next

\* An answer that is not drawn asks more.
SilentAsks(p, a) ==
    \A k \in Answered(p, a) : <<k, a[k]>> \in PlanOf[p].silent => Follow(p, k, a) # {}

\* The answers after which a reading has nothing left to ask.
Complete(p, a) == Asked(p, a) \subseteq Answered(p, a)

\* The pages that are drawn while they ask; the others draw what is complete.
Piecewise(p) ==
    \/ PlanOf[p].each \/ PlanOf[p].on \in {"asked", "drawn"}
    \/ PlanOf[p].uncounted # {} \/ PlanOf[p].ownrow # {}

\* What a page may have drawn earns its line on top, whether or not the page says
\* that it is busy.
Deserved(p, a) ==
    Piecewise(p) \/ Complete(p, a) => \A busy \in BOOLEAN : Earned(p, a, busy)

\* A reading that is complete is said to be, and what could not be read is admitted.
Settled(p, a) ==
    Complete(p, a) =>
        /\ \A busy \in (IF PlanOf[p].ownrow = {} THEN {FALSE} ELSE BOOLEAN) : Said(p, a, busy)
        /\ Admitted(p, a)

\* All of it, of everything one reading can have been told.
ASSUME ReadingAssumption ==
    \A p \in Tidy : \A a \in Coherent(p) :
        /\ AsksOnce(p, a)
        /\ Deserved(p, a)
        /\ p \notin ExcusedOf["DrawnIsHeld"] =>
             (PlanOf[p].each => SilentAsks(p, a)) /\ Settled(p, a)
=============================================================================
