------------------------- MODULE UpdatesPageProofs -------------------------
(***************************************************************************)
(* Theorems about UpdatesPage, for every set of channels and faults and    *)
(* every number of questions.                                              *)
(***************************************************************************)
EXTENDS UpdatesPage, TLAPS

\* What _busy and the open questions say of the controls.
ControlInv ==
  /\ busy \in BOOLEAN
  /\ on \subseteq Controls
  /\ busy => on \cap {"check", "rollback", "channel"} = {}
  /\ ~busy => "channel" \in on
  /\ ~busy /\ open = {} => "check" \in on

\* A new question is open, so there is none without an open question.
LEMMA AskOpens ==
  ASSUME NEW check, Ask(check)
  PROVE  open' # {}
  BY DEF Ask

\* The controls follow _busy and the open questions in every state.
THEOREM ControlsFollow == Spec => []ControlInv
<1>1. Init => ControlInv
  <2>. SUFFICES ASSUME Init PROVE ControlInv
    OBVIOUS
  <2>1. busy \in BOOLEAN /\ ~busy /\ open # {}
    BY DEF Init
  <2>2. on \subseteq Controls /\ "channel" \in on
    BY DEF Init, Controls
  <2>. QED
    BY <2>1, <2>2 DEF ControlInv
<1>2. ControlInv /\ [Next]_vars => ControlInv'
  <2>. SUFFICES ASSUME ControlInv, [Next]_vars PROVE ControlInv'
    OBVIOUS
  <2>1. CASE ClickCheck
    <3>1. on' = on \ {"check"} /\ Ask(TRUE) /\ busy' = busy
      BY <2>1 DEF ClickCheck
    <3>. QED
      BY <3>1, AskOpens DEF ControlInv
  <2>2. CASE Authorize \/ Cancel \/ Succeed \/ Break
    BY <2>2 DEF Authorize, Cancel, Succeed, Break, pageVars, questionVars, ControlInv
  <2>3. CASE Exited
    <3>1. busy' = FALSE /\ on' = (on \cup {"channel"}) \ {"check"}
      BY <2>3 DEF Exited
    <3>2. open' # {}
      BY <2>3, AskOpens DEF Exited
    <3>. QED
      BY <3>1, <3>2 DEF ControlInv, Controls
  <2>4. ASSUME NEW q \in 1..asked, Look(q)
        PROVE  ControlInv'
    BY <2>4 DEF Look, pageVars, ControlInv
  <2>5. ASSUME NEW q \in 1..asked, Unanswered(q)
        PROVE  ControlInv'
    <3>1. /\ open' = open \ {q} /\ busy' = busy
          /\ on' = (on \ {"update", "prefetch", "rollback"}) \cup (IF busy THEN {} ELSE {"check"})
      BY <2>5 DEF Unanswered
    <3>. QED
      BY <3>1 DEF ControlInv, Controls
  <2>6. ASSUME NEW q \in 1..asked, Answer(q)
        PROVE  ControlInv'
    <3>1. /\ open' = open \ {q} /\ busy' = busy
          /\ on' = Sensitive(reading[q])
      BY <2>6 DEF Answer
    <3>. QED
      BY <3>1 DEF ControlInv, Controls, Sensitive
  <2>7. ASSUME NEW kind \in Actions, StartJob(kind)
        PROVE  ControlInv'
    <3>1. /\ busy' = TRUE /\ open' = open
          /\ on' = on \ {"update", "rollback", "check", "reboot", "channel"}
      BY <2>7 DEF StartJob, questionVars
    <3>. QED
      BY <3>1 DEF ControlInv
  <2>8. CASE UNCHANGED vars
    BY <2>8 DEF vars, ControlInv
  <2>. QED
    BY <2>1, <2>2, <2>3, <2>4, <2>5, <2>6, <2>7, <2>8 DEF Next
<1>. QED  BY <1>1, <1>2, PTL DEF Spec

\* No answer that arrives while an action runs brings back a control that would
\* start another one, however many questions are open and whatever they read.
THEOREM BusyIsHeld == Spec => []BusyDisables
<1>1. ControlInv => BusyDisables
  BY DEF ControlInv, BusyDisables
<1>. QED  BY <1>1, ControlsFollow, PTL

\* Whatever was cancelled, failed or left unanswered, once nothing is under way
\* the user can check again and change the channel.
THEOREM CheckReturns == Spec => []CheckComesBack
<1>1. ControlInv => CheckComesBack
  BY DEF ControlInv, CheckComesBack, Settled
<1>. QED  BY <1>1, ControlsFollow, PTL

\* The questions are numbered, and each open one has a place for its reading.
QuestionInv ==
  /\ asked \in Nat
  /\ open \subseteq 1..asked
  /\ DOMAIN reading = 1..asked
  /\ reading = [q \in 1..asked |-> reading[q]]
  /\ job.at # "none" => busy

\* A user who waits has one question open or one action under way, so the
\* system does not change under an open question: what was read is still true
\* when it is applied.
PatientInv ==
  "impatient" \notin faults =>
    /\ busy => open = {}
    /\ \A q, r \in open : q = r
    /\ \A q \in open : reading[q].read => reading[q].seen = system

SettledInv == ControlInv /\ QuestionInv /\ PatientInv /\ SettledIsTrue

\* The new question is the last and unread; the others keep their readings.
LEMMA AskAdds ==
  ASSUME QuestionInv, NEW check, Ask(check)
  PROVE  /\ asked' \in Nat
         /\ open' \subseteq 1..asked'
         /\ DOMAIN reading' = 1..asked'
         /\ reading' = [q \in 1..asked' |-> reading'[q]]
         /\ open' = open \cup {asked'}
         /\ reading'[asked'].read = FALSE
BY DEF QuestionInv, Ask, Unread

\* A question asked by a user who waits is alone, and nothing is read for it yet.
LEMMA AsksAlone ==
  ASSUME QuestionInv, NEW check, Ask(check), open = {}
  PROVE  /\ \A q, r \in open' : q = r
         /\ \A q \in open' : ~reading'[q].read
         /\ open' # {}
BY AskAdds

\* An answer draws the page a settled user sees from its reading alone.
LEMMA AnswerDraws ==
  ASSUME ControlInv, NEW q, Answer(q), ~busy
  PROVE  /\ pending' = reading[q].seen.pending
         /\ "rollback" \in on' <=> reading[q].seen.previous
         /\ banner' = "failure" <=> reading[q].seen.failed
         /\ status'.seen.channel = reading[q].seen.channel
<1>1. on' = Sensitive(reading[q]) /\ banner' = Banner(reading[q])
  BY DEF Answer
<1>2. "rollback" \in on' <=> reading[q].seen.previous
  BY <1>1 DEF Sensitive
<1>3. banner' = "failure" <=> reading[q].seen.failed
  BY <1>1 DEF Banner
<1> QED
  BY <1>2, <1>3 DEF Answer

\* Each step keeps the numbering, the reading of the open question, and the page.
LEMMA SettledStep ==
  ASSUME SettledInv, ControlInv', [Next]_vars
  PROVE  SettledInv'
<1> USE DEF SettledInv
<1>1. CASE ClickCheck
  <2>1. QuestionInv'
    BY <1>1, AskAdds DEF ClickCheck, QuestionInv
  <2>2. ASSUME "impatient" \notin faults PROVE PatientInv' /\ SettledIsTrue'
    <3>1. open = {} /\ ~busy
      BY <1>1, <2>2 DEF ClickCheck, CanAct, ControlInv
    <3> QED
      BY <1>1, <3>1, AsksAlone DEF ClickCheck, PatientInv, SettledIsTrue, Settled
  <2> QED
    BY <1>1, <2>1, <2>2 DEF ClickCheck, PatientInv, SettledIsTrue
<1>2. CASE Authorize \/ Cancel \/ Break
  <2>1. /\ busy /\ busy' = busy
        /\ UNCHANGED <<faults, system, asked, open, reading>>
    BY <1>2 DEF Authorize, Cancel, Break, questionVars, pageVars, QuestionInv
  <2>2. QuestionInv' /\ PatientInv'
    BY <2>1 DEF QuestionInv, PatientInv
  <2> QED
    BY <2>1, <2>2 DEF SettledIsTrue, Settled
<1>3. CASE Succeed
  <2>1. /\ busy /\ busy' = busy
        /\ UNCHANGED <<faults, asked, open, reading>>
    BY <1>3 DEF Succeed, questionVars, pageVars, QuestionInv
  <2>2. QuestionInv' /\ PatientInv'
    BY <2>1 DEF QuestionInv, PatientInv
  <2> QED
    BY <2>1, <2>2 DEF SettledIsTrue, Settled
<1>4. CASE Exited
  <2>1. /\ busy /\ ~busy' /\ job' = NoJob /\ faults' = faults
        /\ \E check : Ask(check)
    BY <1>4 DEF Exited, QuestionInv
  <2>2. QuestionInv'
    BY <2>1, AskAdds DEF QuestionInv, NoJob
  <2>3. ASSUME "impatient" \notin faults PROVE PatientInv' /\ SettledIsTrue'
    BY <2>1, <2>3, AsksAlone DEF PatientInv, SettledIsTrue, Settled
  <2> QED
    BY <2>1, <2>2, <2>3 DEF PatientInv, SettledIsTrue
<1>5. ASSUME NEW q \in 1..asked, Look(q) PROVE SettledInv'
  <2>1. PICK newer : reading' = [reading EXCEPT ![q] =
                       [read |-> TRUE, seen |-> system, newer |-> newer]]
    BY <1>5 DEF Look
  <2>2. UNCHANGED <<faults, system, asked, open, busy, job>> /\ q \in open
    BY <1>5 DEF Look, pageVars
  <2>3. QuestionInv' /\ PatientInv'
    BY <2>1, <2>2 DEF QuestionInv, PatientInv
  <2>4. SettledIsTrue'
    BY <1>5 DEF Look, pageVars, SettledIsTrue, Settled
  <2> QED
    BY <2>3, <2>4
<1>6. ASSUME NEW q \in 1..asked, Unanswered(q) PROVE SettledInv'
  <2>1. /\ open' = open \ {q} /\ row' = "cannot"
        /\ UNCHANGED <<faults, system, asked, reading, busy, job>>
    BY <1>6 DEF Unanswered
  <2> QED
    BY <2>1 DEF QuestionInv, PatientInv, SettledIsTrue
<1>7. ASSUME NEW q \in 1..asked, Answer(q) PROVE SettledInv'
  <2>1. /\ q \in open /\ reading[q].read /\ open' = open \ {q}
        /\ UNCHANGED <<faults, system, asked, reading, busy, job>>
    BY <1>7 DEF Answer
  <2>2. QuestionInv' /\ PatientInv'
    BY <2>1 DEF QuestionInv, PatientInv
  <2>3. ASSUME "impatient" \notin faults PROVE SettledIsTrue'
    <3>1. ~busy /\ reading[q].seen = system
      BY <2>1, <2>3 DEF PatientInv, ControlInv
    <3> QED
      BY <1>7, <2>1, <3>1, AnswerDraws DEF SettledIsTrue
  <2> QED
    BY <2>1, <2>2, <2>3 DEF SettledIsTrue
<1>8. ASSUME NEW kind \in Actions, StartJob(kind) PROVE SettledInv'
  <2>1. busy' /\ UNCHANGED <<faults, system, asked, open, checks, reading>>
    BY <1>8 DEF StartJob, questionVars
  <2>2. "impatient" \notin faults => open = {}
    BY <1>8 DEF StartJob, CanAct
  <2> QED
    BY <2>1, <2>2 DEF QuestionInv, PatientInv, SettledIsTrue, Settled
<1>9. CASE UNCHANGED vars
  BY <1>9 DEF vars, QuestionInv, PatientInv, SettledIsTrue, Settled
<1> QED
  BY <1>1, <1>2, <1>3, <1>4, <1>5, <1>6, <1>7, <1>8, <1>9 DEF Next

\* The page of a user who waits for each answer says what the system is once
\* nothing is under way, for every set of channels, every history of the system
\* and any number of questions (updates.py, _on_status and exited).
THEOREM PageSettlesTrue == Spec => []SettledIsTrue
<1>1. Init /\ ControlInv => SettledInv
  BY DEF Init, SettledInv, QuestionInv, PatientInv, SettledIsTrue, Settled, Unread, NoJob
<1>2. SettledInv /\ ControlInv' /\ [Next]_vars => SettledInv'
  BY SettledStep
<1>3. SettledInv => SettledIsTrue
  BY DEF SettledInv
<1> QED  BY <1>1, <1>2, <1>3, ControlsFollow, PTL DEF Spec
=============================================================================
