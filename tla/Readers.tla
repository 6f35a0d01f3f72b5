------------------------------ MODULE Readers ------------------------------
(***************************************************************************)
(* How a page of Cassini reads the system.  A reading asks several tools   *)
(* at once or one after the other (system_status.run_text and its          *)
(* siblings), each answer comes back on the main loop, is put where the    *)
(* page looks for it, may start more questions, and the page is drawn.     *)
(* Nothing is awaited: a second reading may start while answers of the     *)
(* first are still on their way, and some pages act on the system between. *)
(*                                                                         *)
(* The discipline is the same for every page and is written here once.     *)
(* What a page asks, what can be answered, which questions follow, what    *)
(* the page says on top and in its rows are parameters: the modules of     *)
(* PageTable translate them from the pages.  A behaviour is about one      *)
(* page, chosen at the start.                                              *)
(***************************************************************************)
EXTENDS Integers, FiniteSets, Sequences, SequencesExt

CONSTANTS
    Pages,           \* the names of the pages and collectors
    Plan(_),         \* how a page reads, see PlanAssumption
    Follow(_, _, _), \* page, a question, the answers so far: what is asked next
    Level(_, _, _),  \* page, the answers, is a question open: the line on top
    Rows(_, _),      \* page, the answers: what the rows below say
    Excused(_),      \* of a property's name: the pages, <<page, level>> or
                     \* <<page, row>> that are known not to have it
    MaxGeneration,   \* bound: readings of one page
    MaxOdd           \* bound: answers that are not the usual one

Waiting == "waiting"   \* not answered
Unread  == {Waiting, "none", "unreadable", "unlistable", "odd"}

PlanOf    == [p \in Pages |-> Plan(p)]
RepliesOf == [p \in Pages |-> [k \in DOMAIN PlanOf[p].answers |-> ToSet(PlanOf[p].answers[k])]]
UsualOf   == [p \in Pages |-> [k \in DOMAIN PlanOf[p].answers |-> Head(PlanOf[p].answers[k])]]

ExcusedOf == [name \in {"PendingIsOpen", "ComesBack", "DrawnIsHeld", "OwnAnswers", "VerdictIsEarned",
                         "RestIsSaid", "FailedReadSaysSo", "Fresh"} |-> Excused(name)]

Questions(p)  == DOMAIN RepliesOf[p]
Replies(p, k) == RepliesOf[p][k]
Usual(p, k)   == UsualOf[p][k]

\* What the files of a page can say at the start of a reading.
Glances(p) ==
    LET files == PlanOf[p].instant
        Strange(ks) == {seen \in [ks -> UNION {Replies(p, k) : k \in ks}] :
                           \A k \in ks : seen[k] \in Replies(p, k) \ {Usual(p, k)}}
    IN  UNION {{[k \in files |-> IF k \in ks THEN seen[k] ELSE Usual(p, k)] : seen \in Strange(ks)} :
                  ks \in {ks \in SUBSET files : Cardinality(ks) <= MaxOdd}}
GlancesOf == [p \in Pages |-> Glances(p)]

Blank(p)      == [k \in Questions(p) |-> Waiting]

(***************************************************************************)
(* A plan: answers, a sequence of possible answers for each question, the  *)
(* usual one first ("none" is a tool that is missing, failed or printed    *)
(* nothing); instant, the questions a reading answers by itself, from a    *)
(* file; shared, whether all readings fill one set of answers or each its  *)
(* own; again, whether the page has a Refresh; on, what a reading does     *)
(* before its questions: the page is drawn, asked and then drawn, Refresh  *)
(* goes off, the rows are taken down, or all is kept; each, whether the page is drawn after every   *)
(* answer; misfiled, answers stored in the place of another; unchecked and *)
(* uncounted, the questions whose answer is not compared with the          *)
(* generation and is not in the counter; silent, the <<question, answer>>  *)
(* after which the page is not drawn; ownrow, the questions whose answer   *)
(* draws a row and nothing else; rests, the questions a line on top is     *)
(* about; act, what the page does after an action of its own on the        *)
(* system: it reads again, or it stays.                                    *)
(***************************************************************************)
ASSUME PlanAssumption ==
    \A p \in Pages :
        /\ PlanOf[p].instant \subseteq Questions(p)
        /\ PlanOf[p].unchecked \cup PlanOf[p].uncounted \cup PlanOf[p].ownrow \subseteq Questions(p)
        /\ PlanOf[p].again \in BOOLEAN
        /\ DOMAIN PlanOf[p].misfiled \subseteq Questions(p)
        /\ PlanOf[p].on \in {"drawn", "asked", "off", "cleared", "kept"}
        /\ PlanOf[p].act \in {"none", "reloads", "stays"}
        /\ \A k \in Questions(p) : Waiting \notin Replies(p, k)

ASSUME BoundAssumption == MaxGeneration \in Nat \ {0} /\ MaxOdd \in Nat

\* Where an answer can land in the wrong place is said: nowhere else is an answer
\* left unchecked or stored under another question.
ASSUME OwnAssumption ==
    \A p \in Pages \ ExcusedOf["OwnAnswers"] :
        PlanOf[p].unchecked = {} /\ DOMAIN PlanOf[p].misfiled = {}

VARIABLES
    page,        \* the page of this behaviour
    generation,  \* readings started
    flying,      \* <<reading, question>>: asked and not answered
    answers,     \* what each reading has been told
    pending,     \* the page's counter of open questions, for each reading
    foreign,     \* history: places that hold an answer to another question or reading
    sensitive,   \* Refresh can be pressed
    acting,      \* actions of the page on the system that are under way
    changed,     \* history: the last reading started before the system was changed
    odd,         \* bound: the answers held that are not the usual ones
    drawn        \* what the page shows: [reading, answers, busy]

vars == <<page, generation, flying, answers, pending, foreign, sensitive, acting, changed, odd, drawn>>

Readings == 1..MaxGeneration
plan == PlanOf[page]

Init ==
    /\ page \in Pages
    /\ generation = 0
    /\ flying = {}
    /\ answers = [r \in Readings |-> Blank(page)]
    /\ pending = [r \in Readings |-> 0]
    /\ foreign = {}
    /\ sensitive = TRUE
    /\ acting = 0
    /\ changed = 0
    /\ odd = 0
    /\ drawn = [reading |-> 0, answers |-> Blank(page), busy |-> TRUE]
-----------------------------------------------------------------------------
Counted(ks) == Cardinality(ks \ plan.uncounted)

\* What the page shows after a render of reading r with the answers a.
Drawing(r, a, open) == [reading |-> r, answers |-> a, busy |-> open > 0]

\* The questions of reading r that are open.
Open(r) == {k \in Questions(page) : <<r, k>> \in flying}

\* refresh() or load(): a new generation, nothing known but what is read from
\* files on the spot, and the first questions.
Begin ==
    /\ generation < MaxGeneration
    /\ LET r == generation + 1 IN
       \E glance \in GlancesOf[page] :
          LET a == [k \in Questions(page) |-> IF k \in plan.instant THEN glance[k] ELSE Waiting]
              first == Follow(page, "refresh", a)
              strange == {k \in plan.instant : glance[k] # Usual(page, k)}
          IN
              /\ generation' = r
              /\ answers' = [q \in Readings |-> IF q = r THEN a
                             ELSE IF plan.shared THEN Blank(page) ELSE answers[q]]
              /\ odd' = Cardinality(strange) + (IF plan.shared THEN 0 ELSE odd)
              /\ odd' <= MaxOdd
              /\ flying' = flying \cup {<<r, k>> : k \in first}
              /\ pending' = [pending EXCEPT ![r] = Counted(first)]
              /\ drawn' = CASE first = {} \/ plan.on = "drawn" -> Drawing(r, a, 0)
                            [] first # {} /\ plan.on = "asked" -> Drawing(r, a, Counted(first))
                            [] first # {} /\ plan.on = "cleared" -> [drawn EXCEPT !.reading = 0]
                            [] OTHER -> drawn
              /\ sensitive' = (plan.on \in {"drawn", "cleared", "kept"} \/ first = {})
    /\ foreign' = {}
    /\ UNCHANGED page

Refresh ==
    /\ sensitive
    /\ generation > 0 => plan.again
    /\ generation + acting < MaxGeneration
    /\ Begin
    /\ UNCHANGED <<acting, changed>>

\* The answer to question k of an older reading is dropped: the callback holds the
\* generation it was asked in and compares it.
DroppedNever(r, k) == FALSE \* (mutant)
Dropped(r, k)      == plan.shared /\ r # generation /\ k \notin plan.unchecked

\* After the answer v to k the page is drawn, `open' questions being left; the
\* button comes back with the last of them.
DrawsAtLast(k, v, open) == ~plan.each /\ k \notin plan.uncounted /\ open = 0 \* (mutant)
Draws(k, v, open)       == IF plan.each THEN <<k, v>> \notin plan.silent
                           ELSE k \notin plan.uncounted /\ open = 0
ReadyAtStart(open)      == plan.on \in {"cleared", "kept"} \* (mutant)
Ready(open)             == plan.on \in {"cleared", "kept"} \/ open = 0

\* The counter after an answer to k that asks `next' more.
Closed(count, k)          == LET left == count - Counted({k}) IN IF left < 0 THEN 0 ELSE left
LeftAlone(count, k, next) == Closed(count, k) \* (mutant)
Left(count, k, next)      == Closed(count, k) + Counted(next)

\* The answer v to question k of reading r, on the main loop.
Answer(r, k, v) ==
    LET home == IF plan.shared THEN generation ELSE r
        slot == IF k \in DOMAIN plan.misfiled THEN plan.misfiled[k] ELSE k
        told == [answers EXCEPT ![home][slot] = v]
        next == Follow(page, k, told[home])
        open == Left(pending[home], k, next)
    IN
    /\ v = Usual(page, k) \/ odd < MaxOdd
    /\ IF Dropped(r, k)
       THEN /\ flying' = flying \ {<<r, k>>}
            /\ UNCHANGED <<answers, pending, foreign, sensitive, odd, drawn>>
       ELSE /\ flying' = (flying \ {<<r, k>>}) \cup {<<home, n>> : n \in next}
            /\ answers' = told
            /\ odd' = IF v = Usual(page, k) THEN odd ELSE odd + 1
            /\ pending' = [pending EXCEPT ![home] = open]
            /\ foreign' = IF r # home \/ slot # k THEN foreign \cup {slot} ELSE foreign \ {slot}
            /\ IF k \in plan.ownrow
               THEN drawn' = [drawn EXCEPT !.answers = told[home]] /\ UNCHANGED sensitive
               ELSE IF Draws(k, v, open)
               THEN drawn' = Drawing(home, told[home], open) /\ sensitive' = Ready(open)
               ELSE UNCHANGED <<drawn, sensitive>>
    /\ UNCHANGED <<page, generation, acting, changed>>

\* A button of the page, there while something is drawn, starts a command or a save
\* in a thread.  Nothing waits for the one before it.
Act ==
    /\ plan.act # "none" /\ changed < generation
    /\ drawn.reading > 0
    /\ generation + acting < MaxGeneration
    /\ acting' = acting + 1
    /\ UNCHANGED <<page, generation, flying, answers, pending, foreign, sensitive, changed, odd, drawn>>

\* What the page does when it is over.
ReloadsNever == FALSE \* (mutant)
Reloads      == plan.act = "reloads"

\* It ends: the system is not what the readings so far saw.
Acted ==
    /\ acting > 0
    /\ acting' = acting - 1
    /\ changed' = generation
    /\ IF Reloads THEN Begin
       ELSE UNCHANGED <<page, generation, flying, answers, pending, foreign, sensitive, odd, drawn>>

Next ==
    \/ Refresh
    \/ \E ask \in flying : \E v \in Replies(page, ask[2]) : Answer(ask[1], ask[2], v)
    \/ Act
    \/ Acted

Spec == Init /\ [][Next]_vars

\* Every tool and every action ends; nobody has to press a button.  It is weak
\* fairness of Answer and Acted, with what enables them written out: something is
\* open, and the usual answer to it always comes.
Quiet == flying = {} /\ acting = 0
Ended == flying \ flying' # {} \/ acting' < acting
FairSpec == Spec /\ ([]<>Quiet \/ []<><<Ended>>_vars)
-----------------------------------------------------------------------------

\* The counter of a page is the number of its questions that are still open, so
\* it never reaches zero early or stays above it.
PendingIsOpen ==
    \A r \in Readings :
        /\ page \notin ExcusedOf["PendingIsOpen"]
        /\ (IF plan.shared THEN r = generation ELSE r <= generation)
        => pending[r] = Counted(Open(r))

\* Refresh comes back: with no question open, no button stays grey.
ComesBack == Quiet /\ page \notin ExcusedOf["ComesBack"] => sensitive

\* A page that has come to rest shows the answers of its newest reading, all of
\* them.
DrawnIsHeld ==
    Quiet /\ generation > 0 /\ page \notin ExcusedOf["DrawnIsHeld"]
        => drawn.reading = generation /\ drawn.answers = answers[generation]

\* No place on the page holds what was said to another question, or to a reading
\* that a newer one replaced.
OwnAnswers == page \notin ExcusedOf["OwnAnswers"] => foreign = {}

\* The line on top is never better founded than its reading: a level rests only
\* on questions that were answered.
Earned(p, a, busy) ==
    LET level == Level(p, a, busy) IN
    level \in DOMAIN PlanOf[p].rests /\ <<p, level>> \notin ExcusedOf["VerdictIsEarned"]
        => \A k \in PlanOf[p].rests[level] : a[k] \notin Unread
VerdictIsEarned == drawn.reading > 0 => Earned(page, drawn.answers, drawn.busy)

\* A page that has come to rest does not go on saying that it looks, neither on
\* top nor in a row.
Unsettled == {"busy", "waiting", "measuring", "stale", "not read yet"}
Said(p, a, busy) ==
    LET level == Level(p, a, busy)
        rows  == Rows(p, a)
    IN  /\ level \in Unsettled => <<p, level>> \in ExcusedOf["RestIsSaid"]
        /\ \A row \in DOMAIN rows :
              rows[row] \in Unsettled => <<p, row>> \in ExcusedOf["RestIsSaid"]
RestIsSaid == Quiet /\ drawn.reading > 0 => Said(page, drawn.answers, drawn.busy)

\* A question that was asked and failed is not taken for an answer: a row that any
\* answer to it would change says that it was not read, or is not there; it states
\* nothing about the system.  What failed is there to be read, "none" apart: that it
\* is missing is no answer it could have given.
Admissions == {"unread", "unknown", "error", "not read yet", "no row"}
Gone       == {"missing", "absent"}
Admitted(p, a) ==
    LET rows == Rows(p, a) IN
    \A k \in {q \in Questions(p) : a[q] \in Unread \ {Waiting}} :
        \A v \in Replies(p, k) \ (Unread \cup IF a[k] = "none" THEN {} ELSE Gone) :
            LET otherwise == Rows(p, [a EXCEPT ![k] = v]) IN
            \A row \in DOMAIN rows :
                otherwise[row] # rows[row] /\ <<p, row>> \notin ExcusedOf["FailedReadSaysSo"]
                    => rows[row] \in Admissions
FailedReadSaysSo == Quiet /\ drawn.reading > 0 => Admitted(page, drawn.answers)

\* After an action of its own on the system a page does not rest on what was read
\* before it.
Fresh == Quiet /\ page \notin ExcusedOf["Fresh"] => (drawn.reading = 0 \/ drawn.reading > changed)

\* Every reading ends, whatever questions its answers start.
ReadingEnds == <>[]Quiet
=============================================================================
