-------------------------- MODULE DropinPageProofs --------------------------
(* What the answers of the drop-in page are worth, for every number of      *)
(* saves, every file, and every set of faults.                              *)
EXTENDS DropinPage, TLAPS

\* Before its helper has ended, a save has put nothing in the file.
Early == {"new", "started", "asking", "running", "overrun"}

\* The answers under way are those of different saves, and each is queued once.
QueueInv ==
  /\ \A i \in 1..Len(idle) : phase[idle[i]] = "posted"
  /\ \A i, j \in 1..Len(idle) : idle[i] = idle[j] => i = j

TypesInv ==
  /\ phase \in [Saves -> Phases]
  /\ result \in [Saves -> Results]
  /\ idle \in Seq(Saves)
  /\ installed \subseteq Saves

\* What a thread knows of its save: nothing is installed early, only a slow
\* helper is overrun, and the exit code it has read is the truth.
ThreadInv ==
  \A s \in Saves :
    /\ phase[s] \in Early => s \notin installed
    /\ phase[s] = "overrun" => "slow" \in faults
    /\ phase[s] \in {"exited", "posted"} =>
         /\ result[s] = "ok" => s \in installed
         /\ "slow" \notin faults /\ s \in installed => result[s] = "ok"

\* An error is said of a save that is over, so nothing can install it later.
ErrorInv ==
  \A s \in Saves : last = [state |-> "error", save |-> s] => phase[s] = "done"

IInv == TypesInv /\ QueueInv /\ ThreadInv /\ ErrorInv /\ AnswerIsTrue

LEMMA Initially == Init => IInv
BY NoneAssumption
   DEF Init, IInv, TypesInv, QueueInv, ThreadInv, ErrorInv, AnswerIsTrue, Phases,
       Results, Early

\* Nothing of the invariant depends on the file, the rows or the dialog.
LEMMA PageStep ==
  ASSUME IInv, UNCHANGED <<workVars, installed, faults>>,
         last' = last \/ last' = [state |-> "error", save |-> None]
  PROVE  IInv'
BY NoneAssumption
   DEF IInv, TypesInv, QueueInv, ThreadInv, ErrorInv, AnswerIsTrue, workVars

\* A save that is refused, swallowed or started.
LEMMA StageStep ==
  ASSUME IInv, NEW s \in Saves, NEW kind, NEW who, NEW text,
         phase[s] = "new",
         StageAndStart(s, kind, who, text),
         UNCHANGED <<installed, faults>>
  PROVE  IInv'
<1>1. CASE ~Editable(text) \/ text = file
  BY <1>1, PageStep DEF StageAndStart, Fail, workVars
<1>2. CASE ~(~Editable(text) \/ text = file) /\ Swallow
  BY <1>2, PageStep DEF Swallow, workVars
<1>3. CASE /\ phase' = [phase EXCEPT ![s] = "started"]
           /\ last' = [state |-> "saving", save |-> s]
           /\ UNCHANGED <<result, idle>>
  BY <1>3 DEF IInv, TypesInv, QueueInv, ThreadInv, ErrorInv, AnswerIsTrue, Phases, Early
<1> QED
  BY <1>1, <1>2, <1>3 DEF StageAndStart

\* A save goes on and its thread learns nothing.
LEMMA GoesOn ==
  ASSUME IInv, NEW s \in Saves, NEW to \in {"asking", "running", "overrun"},
         phase[s] \in {"started", "asking", "running"},
         to = "overrun" => "slow" \in faults,
         phase' = [phase EXCEPT ![s] = to],
         UNCHANGED <<result, idle, last, installed, faults>>
  PROVE  IInv'
BY DEF IInv, TypesInv, QueueInv, ThreadInv, ErrorInv, AnswerIsTrue, Phases, Early

\* A thread reads how its save has ended, and the reading is true.
LEMMA EndsTruly ==
  ASSUME IInv, NEW s \in Saves, NEW how \in Results,
         phase[s] \in Early,
         Ends(s, how),
         installed' \in {installed, installed \cup {s}},
         how = "ok" => s \in installed',
         "slow" \notin faults /\ s \in installed' => how = "ok"
  PROVE  IInv'
<1> USE DEF IInv, Ends, pageVars
<1>1. /\ phase' = [phase EXCEPT ![s] = "exited"]
      /\ result' = [result EXCEPT ![s] = how]
      /\ UNCHANGED <<idle, last, faults>>
  OBVIOUS
<1>2. TypesInv'
  BY <1>1 DEF TypesInv, Phases
<1>3. QueueInv'
  BY <1>1 DEF TypesInv, QueueInv, Early
<1>4. ThreadInv'
  BY <1>1 DEF TypesInv, ThreadInv, Early
<1>5. ErrorInv'
  BY <1>1 DEF TypesInv, ErrorInv, Early
<1>6. AnswerIsTrue'
  BY <1>1 DEF TypesInv, AnswerIsTrue, ErrorInv, Early
<1> QED
  BY <1>2, <1>3, <1>4, <1>5, <1>6

\* The answer takes its place at the end of the idle queue.
LEMMA PostStep ==
  ASSUME IInv, NEW s \in Saves, Post(s)
  PROVE  IInv'
<1> USE DEF IInv, Post, pageVars
<1>1. TypesInv'
  BY DEF TypesInv, Phases
<1>2. QueueInv'
  <2>1. /\ Len(idle') = Len(idle) + 1
        /\ \A i \in 1..Len(idle) : idle'[i] = idle[i] /\ idle[i] \in Saves
        /\ idle'[Len(idle) + 1] = s
        /\ Len(idle) \in Nat
    BY DEF TypesInv
  <2>2. \A i \in 1..Len(idle) : idle[i] # s
    BY DEF QueueInv
  <2>3. \A i \in 1..Len(idle') : phase'[idle'[i]] = "posted"
    BY <2>1 DEF QueueInv, TypesInv
  <2>4. ASSUME NEW i \in 1..Len(idle'), NEW j \in 1..Len(idle'), idle'[i] = idle'[j]
        PROVE  i = j
    BY <2>1, <2>2, <2>4 DEF QueueInv
  <2> QED
    BY <2>3, <2>4 DEF QueueInv
<1>3. ThreadInv' /\ ErrorInv' /\ AnswerIsTrue'
  BY DEF TypesInv, ThreadInv, ErrorInv, AnswerIsTrue, Early
<1> QED
  BY <1>1, <1>2, <1>3

\* The answer is said, or dropped.
LEMMA OnSavedStep ==
  ASSUME IInv, NEW s \in Saves, OnSaved(s)
  PROVE  IInv'
<1> USE DEF IInv, OnSaved, Forget
<1>1. /\ idle # << >> /\ s = Head(idle) /\ idle' = Tail(idle)
      /\ phase' = [phase EXCEPT ![s] = "done"]
      /\ result' = [result EXCEPT ![s] = "none"]
      /\ UNCHANGED <<installed, faults>>
  OBVIOUS
<1>2. phase[s] = "posted"
  BY <1>1 DEF TypesInv, QueueInv
<1>3. TypesInv'
  BY <1>1 DEF TypesInv, Phases, Results
<1>4. QueueInv'
  <2>1. /\ Len(idle') = Len(idle) - 1 /\ Len(idle) \in Nat /\ Len(idle) > 0
        /\ \A i \in 1..Len(idle') : idle'[i] = idle[i + 1] /\ idle[i + 1] \in Saves
        /\ s = idle[1]
    BY <1>1 DEF TypesInv
  <2>2. \A i \in 1..Len(idle') : idle'[i] # s
    BY <2>1 DEF QueueInv
  <2>3. \A i \in 1..Len(idle') : phase'[idle'[i]] = "posted"
    BY <1>1, <2>1, <2>2 DEF QueueInv, TypesInv
  <2>4. \A i, j \in 1..Len(idle') : idle'[i] = idle'[j] => i = j
    BY <2>1 DEF QueueInv
  <2> QED
    BY <2>3, <2>4 DEF QueueInv
<1>5. ThreadInv'
  BY <1>1 DEF TypesInv, ThreadInv, Early
<1>6. CASE last' = last
  BY <1>1, <1>3, <1>4, <1>5, <1>6 DEF TypesInv, ErrorInv, AnswerIsTrue
<1>7. CASE result[s] = "ok" /\ last' = [state |-> "ok", save |-> s]
  BY <1>1, <1>2, <1>3, <1>4, <1>5, <1>7 DEF ThreadInv, ErrorInv, AnswerIsTrue
<1>8. CASE result[s] # "ok" /\ last' = [state |-> "error", save |-> s]
  BY <1>1, <1>2, <1>3, <1>4, <1>5, <1>8 DEF TypesInv, ThreadInv, ErrorInv, AnswerIsTrue
<1> QED
  BY <1>6, <1>7, <1>8

\* The steps of a thread and its helper.
LEMMA SaveStep ==
  ASSUME IInv, NEW s \in Saves, Thread(s) \/ Authorize(s) \/ Dismiss(s) \/ Helper(s)
  PROVE  IInv'
<1>1. CASE Spawn(s)
  BY <1>1, GoesOn DEF Spawn, pageVars
<1>2. CASE SpawnFails(s)
  BY <1>2, EndsTruly DEF SpawnFails, Results, Early, IInv, ThreadInv
<1>3. CASE Timeout(s)
  <2>1. CASE phase[s] = "asking" /\ Ends(s, "noanswer") /\ UNCHANGED <<file, installed>>
    BY <2>1, EndsTruly DEF Results, Early, IInv, ThreadInv
  <2>2. CASE /\ "slow" \in faults /\ phase[s] = "running"
             /\ phase' = [phase EXCEPT ![s] = "overrun"]
             /\ UNCHANGED <<file, pageVars, job, result, idle, installed, edits, faults>>
    BY <2>2, GoesOn DEF pageVars
  <2> QED
    BY <1>3, <2>1, <2>2 DEF Timeout
<1>4. CASE Post(s)
  BY <1>4, PostStep
<1>5. CASE OnSaved(s)
  BY <1>5, OnSavedStep
<1>6. CASE Authorize(s)
  BY <1>6, GoesOn DEF Authorize, pageVars
<1>7. CASE Dismiss(s)
  BY <1>7, EndsTruly DEF Dismiss, Results, Early, IInv, ThreadInv
<1>8. CASE HelperInstalls(s)
  BY <1>8, EndsTruly DEF HelperInstalls, Outcome, Results, Early, IInv, ThreadInv
<1>9. CASE HelperRefuses(s)
  BY <1>9, EndsTruly DEF HelperRefuses, Outcome, Results, Early, IInv, ThreadInv
<1> QED
  BY <1>1, <1>2, <1>3, <1>4, <1>5, <1>6, <1>7, <1>8, <1>9 DEF Thread, Helper

LEMMA Step == IInv /\ [Next]_vars => IInv'
<1> SUFFICES ASSUME IInv, [Next]_vars PROVE IInv'
  OBVIOUS
<1>1. CASE Refresh
  BY <1>1, PageStep DEF Refresh, workVars
<1>2. CASE CancelRemove
  BY <1>2, PageStep DEF CancelRemove, workVars
<1>3. ASSUME NEW i \in 1..(MaxLines + 1), OpenRemove(i) PROVE IInv'
  BY <1>3, PageStep DEF OpenRemove, workVars
<1>4. ASSUME NEW s \in Saves, ConfirmRemove(s) PROVE IInv'
  <2>1. CASE dialog.index > Len(file)
    BY <1>4, <2>1, PageStep DEF ConfirmRemove, Swallow, workVars
  <2>2. CASE ~(dialog.index > Len(file))
    BY <1>4, <2>2, StageStep DEF ConfirmRemove
  <2> QED
    BY <2>1, <2>2
<1>5. ASSUME NEW s \in Saves, NEW p \in Granting, AddRule(s, p) PROVE IInv'
  BY <1>5, StageStep DEF AddRule
<1>6. ASSUME NEW s \in Saves, Thread(s) \/ Authorize(s) \/ Dismiss(s) \/ Helper(s)
      PROVE  IInv'
  BY <1>6, SaveStep
<1>7. CASE EditFile
  BY <1>7, PageStep DEF EditFile, pageVars, workVars
<1>8. CASE UNCHANGED vars
  BY <1>8, PageStep DEF vars, workVars
<1> QED
  BY <1>1, <1>2, <1>3, <1>4, <1>5, <1>6, <1>7, <1>8 DEF Next, Page

\* "Saved" is said of a text that was installed, and an error of one that was
\* not unless its helper outlived its time, whatever the user, the editor and
\* the other saves do meanwhile (access.py, _save_worker and _on_saved).
THEOREM AnswersAreTrue == Spec => []AnswerIsTrue
<1>1. IInv => AnswerIsTrue
  BY DEF IInv
<1> QED
  BY Initially, Step, <1>1, PTL DEF Spec

----------------------------------------------------------------------------
(* One save at a time, and nobody else at the file                          *)

\* The text of a save is the file and one rule more, or one rule less.
OneLine(j) ==
  /\ j.text \in Text
  /\ \/ j.kind = "add" /\ IsPrefix(file, j.text) /\ Len(j.text) <= Len(file) + 2
     \/ \E i \in DOMAIN file : j.text = [file EXCEPT ![i] = "blank"]

\* The rows and the open dialog are those of the file whenever no save is under
\* way; the one under way has not put its text in the file, and its answer is
\* awaited by the page as it is drawn.
AloneInv ==
  /\ file \in Text
  /\ \A s, t \in Saves : InFlight(s) /\ InFlight(t) => s = t
  /\ \A s \in Saves : InFlight(s) => dialog = None /\ job[s].gen = generation
  /\ (\A s \in Saves : ~InFlight(s)) => shown = file
  /\ dialog # None => dialog.index \in DOMAIN shown /\ dialog.who = shown[dialog.index]
  /\ \A s \in Saves : phase[s] \in Early \ {"new"} => OneLine(job[s])

JobInv == \E Jobs : job \in [Saves -> Jobs]

\* A line is appended, under a comment when the file is empty.
LEMMA AppendedIsOneLine ==
  ASSUME file \in Text, NEW p \in Granting
  PROVE  /\ Appended(p) \in Text
         /\ IsPrefix(file, Appended(p))
         /\ Len(Appended(p)) <= Len(file) + 2
<1>. DEFINE more == IF file = << >> THEN <<"comment", p>> ELSE <<p>>
<1>1. p \in Line /\ "comment" \in Line
  BY DEF Line
<1>2. more \in Text /\ Len(more) <= 2 /\ Len(more) \in Nat
  BY <1>1 DEF Text
<1>3. Appended(p) = file \o more
  BY DEF Appended
<1>. HIDE DEF more
<1>4. file \o more \in Text /\ Len(file \o more) = Len(file) + Len(more) /\ Len(file) \in Nat
  BY <1>2 DEF Text
<1>5. \A i \in 1..Len(file) : (file \o more)[i] = file[i]
  BY <1>2 DEF Text
<1>6. SubSeq(file \o more, 1, Len(file)) = SubSeq(file, 1, Len(file))
  BY <1>2, <1>4, <1>5 DEF Text
<1>. QED  BY <1>2, <1>3, <1>4, <1>6 DEF IsPrefix

\* A save that begins while none is under way, and the rows are those of the file.
LEMMA StageAlone ==
  ASSUME TypesInv, JobInv, AloneInv, NEW s \in Saves, NEW kind, NEW who, NEW text,
         phase[s] = "new", \A t \in Saves : ~InFlight(t),
         OneLine([kind |-> kind, who |-> who, text |-> text, gen |-> generation]),
         StageAndStart(s, kind, who, text),
         dialog' = None, UNCHANGED file
  PROVE  AloneInv' /\ JobInv'
<1>1. CASE (~Editable(text) \/ text = file) \/ Swallow
  <2>1. shown' = file /\ UNCHANGED <<generation, phase, job>>
    BY <1>1 DEF StageAndStart, Fail, Swallow, workVars, AloneInv
  <2>. QED  BY <2>1 DEF AloneInv, JobInv, OneLine, InFlight, Early
<1>2. CASE ~((~Editable(text) \/ text = file) \/ Swallow)
  <2>. DEFINE j == [kind |-> kind, who |-> who, text |-> text, gen |-> generation]
  <2>1. /\ phase' = [phase EXCEPT ![s] = "started"]
        /\ job' = [job EXCEPT ![s] = j]
        /\ shown' = file /\ UNCHANGED generation
    BY <1>2 DEF StageAndStart
  <2>2. PICK Jobs : job \in [Saves -> Jobs]
    BY DEF JobInv
  <2>3. job' \in [Saves -> Jobs \cup {j}] /\ job'[s] = j /\ j.gen = generation
    BY <2>1, <2>2
  <2>. HIDE DEF j
  <2>4. OneLine(j) => OneLine(job[s])'
    BY <2>3 DEF OneLine
  <2>5. /\ phase'[s] = "started"
        /\ \A t \in Saves : t # s => ~InFlight(t)' /\ phase'[t] \notin Early \ {"new"}
    BY <2>1 DEF TypesInv, InFlight, Early
  <2>6. OneLine(j)
    BY DEF j
  <2>. QED  BY <2>1, <2>3, <2>4, <2>5, <2>6 DEF AloneInv, JobInv, InFlight
<1>. QED  BY <1>1, <1>2

\* A step of a save under way that leaves the file, the rows and the page alone.
LEMMA WorkAlone ==
  ASSUME TypesInv, JobInv, AloneInv, NEW s \in Saves,
         NEW to \in {"asking", "running", "overrun", "exited", "posted"},
         phase[s] \in {"started", "asking", "running", "overrun", "exited"},
         phase' = [phase EXCEPT ![s] = to],
         phase[s] \in Early \/ to \notin Early,
         UNCHANGED <<pageVars, job>>,
         to \in Early \/ phase[s] = "exited" => UNCHANGED file,
         file' \in {file, job[s].text}
  PROVE  AloneInv' /\ JobInv'
<1>1. /\ \A t \in Saves : InFlight(t) => t = s
      /\ InFlight(s) /\ InFlight(s)'
      /\ \A t \in Saves : t # s => ~InFlight(t) /\ ~InFlight(t)' /\ phase'[t] \notin Early \ {"new"}
      /\ phase'[s] = to
  BY DEF AloneInv, InFlight, TypesInv, Early
<1>2. file' \in Text
  BY DEF AloneInv, OneLine, Early
<1>3. phase'[s] \in Early \ {"new"} => OneLine(job[s])'
  BY <1>1 DEF AloneInv, OneLine, Early
<1>. QED
  BY <1>1, <1>2, <1>3 DEF AloneInv, JobInv, pageVars

\* The answer of the one save under way is never dropped: the rows are read again.
LEMMA OnSavedAlone ==
  ASSUME IInv, JobInv, AloneInv, NEW s \in Saves, OnSaved(s)
  PROVE  AloneInv' /\ JobInv'
<1>1. phase[s] = "posted" /\ InFlight(s)
  BY DEF IInv, OnSaved, TypesInv, QueueInv, InFlight
<1>2. /\ job[s].gen = generation /\ dialog = None
      /\ \A t \in Saves : t # s => ~InFlight(t)
  BY <1>1 DEF AloneInv
<1>3. shown' = file /\ UNCHANGED <<file, dialog>> /\ phase' = [phase EXCEPT ![s] = "done"]
      /\ job' = [job EXCEPT ![s] = NoJob]
  BY <1>2 DEF OnSaved, Forget
<1>4. \A t \in Saves : ~InFlight(t)' /\ phase'[t] \notin Early \ {"new"}
  BY <1>2, <1>3 DEF IInv, TypesInv, InFlight, Early
<1>5. JobInv'
  <2>1. PICK Jobs : job \in [Saves -> Jobs]
    BY DEF JobInv
  <2>2. job' \in [Saves -> Jobs \cup {NoJob}]
    BY <1>3, <2>1
  <2>. QED  BY <2>2 DEF JobInv
<1>. QED  BY <1>2, <1>3, <1>4, <1>5 DEF AloneInv

OneAtATime == Alone => AloneInv /\ JobInv

LEMMA AloneInit == Init => OneAtATime
<1>. SUFFICES ASSUME Init PROVE AloneInv /\ JobInv
  BY DEF OneAtATime
<1>1. file \in Text
  BY FirstAssumption DEF Init, Text, Line, Granting
<1>2. job \in [Saves -> {NoJob}]
  BY DEF Init
<1>. QED  BY <1>1, <1>2 DEF Init, AloneInv, JobInv, InFlight, Early

\* What the confirmed removal sets out to do, and how a rule is added.
LEMMA BeginAlone ==
  ASSUME IInv, Alone, AloneInv, JobInv, NEW s \in Saves,
         ConfirmRemove(s) \/ \E p \in Granting : AddRule(s, p)
  PROVE  AloneInv' /\ JobInv'
<1>1. CASE ConfirmRemove(s)
  <2>. DEFINE i == dialog.index
  <2>1. \A t \in Saves : ~InFlight(t)
    BY <1>1 DEF AloneInv, ConfirmRemove
  <2>2. i \in DOMAIN file /\ ~(i > Len(file)) /\ file \in Text
    BY <1>1, <2>1 DEF AloneInv, ConfirmRemove, Text
  <2>3. Blanked(i) \in Text
    BY <2>2 DEF Blanked, Text, Line
  <2>4. OneLine([kind |-> "remove", who |-> dialog.who, text |-> Blanked(i), gen |-> generation])
    BY <2>2, <2>3 DEF OneLine, Blanked
  <2>5. /\ phase[s] = "new" /\ dialog' = None /\ UNCHANGED file
        /\ StageAndStart(s, "remove", dialog.who, Blanked(i))
    BY <1>1, <2>2 DEF ConfirmRemove
  <2>. QED  BY <2>1, <2>4, <2>5, StageAlone DEF IInv
<1>2. ASSUME NEW p \in Granting, AddRule(s, p) PROVE AloneInv' /\ JobInv'
  <2>1. (\A t \in Saves : ~InFlight(t)) /\ dialog = None
    BY <1>2 DEF AddRule, CanAct, Alone
  <2>2. OneLine([kind |-> "add", who |-> p, text |-> Appended(p), gen |-> generation])
    BY AppendedIsOneLine DEF OneLine, AloneInv
  <2>. QED  BY <1>2, <2>1, <2>2, StageAlone DEF IInv, AddRule
<1>. QED  BY <1>1, <1>2

LEMMA AloneStep ==
  IInv /\ OneAtATime /\ [Next]_vars => OneAtATime'
<1>. SUFFICES ASSUME IInv, Alone, AloneInv, JobInv, [Next]_vars PROVE AloneInv' /\ JobInv'
  <2>1. [Next]_vars => UNCHANGED faults
    BY DEF Next, Page, Refresh, CancelRemove, OpenRemove, ConfirmRemove, AddRule, Thread, Spawn,
         SpawnFails, Timeout, Post, OnSaved, Authorize, Dismiss, Helper, HelperInstalls,
         HelperRefuses, Ends, EditFile, vars
  <2>. QED  BY <2>1 DEF OneAtATime, Alone
<1>. USE DEF IInv
<1>1. CASE Refresh
  BY <1>1 DEF Refresh, CanAct, Alone, AloneInv, JobInv, InFlight, OneLine, workVars, Early
<1>2. CASE CancelRemove
  BY <1>2 DEF CancelRemove, AloneInv, JobInv, InFlight, OneLine, workVars
<1>3. ASSUME NEW i \in 1..(MaxLines + 1), OpenRemove(i) PROVE AloneInv' /\ JobInv'
  BY <1>3 DEF OpenRemove, CanAct, Rows, Alone, AloneInv, JobInv, InFlight, OneLine, workVars, Early
<1>4. ASSUME NEW s \in Saves, ConfirmRemove(s) \/ \E p \in Granting : AddRule(s, p)
      PROVE  AloneInv' /\ JobInv'
  BY <1>4, BeginAlone
<1>5. ASSUME NEW s \in Saves,
             \/ Spawn(s) \/ SpawnFails(s) \/ Timeout(s) \/ Post(s) \/ Authorize(s)
             \/ Dismiss(s) \/ Helper(s)
      PROVE  AloneInv' /\ JobInv'
  <2>. USE WorkAlone
  <2>1. CASE Spawn(s) \/ Authorize(s)
    BY <2>1 DEF Spawn, Authorize, Early
  <2>2. CASE SpawnFails(s) \/ Dismiss(s)
    BY <2>2 DEF SpawnFails, Dismiss, Ends, Early
  <2>3. CASE Timeout(s)
    BY <2>3 DEF Timeout, Ends, Early
  <2>4. CASE Post(s)
    BY <2>4 DEF Post, Early
  <2>5. CASE HelperInstalls(s)
    BY <2>5 DEF HelperInstalls, Ends, Early
  <2>6. CASE HelperRefuses(s)
    BY <2>6 DEF HelperRefuses, Ends, Early
  <2>. QED  BY <1>5, <2>1, <2>2, <2>3, <2>4, <2>5, <2>6 DEF Helper
<1>6. ASSUME NEW s \in Saves, OnSaved(s) PROVE AloneInv' /\ JobInv'
  BY <1>6, OnSavedAlone
<1>7. CASE EditFile
  BY <1>7 DEF EditFile, Alone
<1>8. CASE UNCHANGED vars
  BY <1>8 DEF vars, AloneInv, JobInv, InFlight, OneLine
<1>. QED
  BY <1>1, <1>2, <1>3, <1>4, <1>5, <1>6, <1>7, <1>8 DEF Next, Page, Thread

\* A user who waits for each save, alone at the file, takes out the rule the
\* dialog named and nothing else: the row's index is still that rule's line
\* (access.py, _remove_rule and its dialog).
THEOREM TheConfirmedGoes == Spec => RemovesTheConfirmed
<1>1. IInv /\ OneAtATime /\ [Next]_vars => (Alone => NamedRemoved)
  <2>. SUFFICES ASSUME IInv, Alone, AloneInv, JobInv, [Next]_vars,
                       NEW s \in Saves, phase[s] = "new", phase'[s] # "new",
                       job'[s].kind = "remove"
                PROVE  \E i \in DOMAIN file : /\ file[i] = job'[s].who
                                             /\ job'[s].text = [file EXCEPT ![i] = "blank"]
    BY DEF OneAtATime, NamedRemoved
  <2>0. PICK Jobs : job \in [Saves -> Jobs]
    BY DEF JobInv
  <2>1. PICK t \in Saves : ConfirmRemove(t) \/ \E p \in Granting : AddRule(t, p)
    BY DEF Next, Page, Refresh, CancelRemove, OpenRemove, Thread, Spawn, SpawnFails, Timeout,
         Post, OnSaved, Authorize, Dismiss, Helper, HelperInstalls, HelperRefuses, Ends, EditFile,
         vars, workVars, IInv, TypesInv, QueueInv
  <2>2. ASSUME NEW kind, NEW who, NEW text, StageAndStart(t, kind, who, text)
        PROVE  s = t /\ job'[s] = [kind |-> kind, who |-> who, text |-> text, gen |-> generation]
    BY <2>0, <2>2 DEF StageAndStart, Fail, Swallow, workVars, IInv, TypesInv
  <2>3. CASE ConfirmRemove(t)
    <3>1. \A u \in Saves : ~InFlight(u)
      BY <2>3 DEF AloneInv, ConfirmRemove
    <3>2. dialog.index \in DOMAIN file /\ dialog.who = file[dialog.index] /\ file \in Text
      BY <2>3, <3>1 DEF AloneInv, ConfirmRemove
    <3>3. StageAndStart(t, "remove", dialog.who, Blanked(dialog.index))
      BY <2>3, <3>2 DEF ConfirmRemove, Text
    <3>4. job'[s] = [kind |-> "remove", who |-> dialog.who, text |-> Blanked(dialog.index),
                     gen |-> generation]
      BY ONLY <2>2, <3>3
    <3>5. job'[s].who = file[dialog.index] /\ job'[s].text = Blanked(dialog.index)
      BY ONLY <3>2, <3>4
    <3>. QED  BY ONLY <3>2, <3>5 DEF Blanked
  <2>4. ASSUME NEW p \in Granting, AddRule(t, p) PROVE FALSE
    <3>1. StageAndStart(t, "add", p, Appended(p))
      BY <2>4 DEF AddRule
    <3>2. job'[s] = [kind |-> "add", who |-> p, text |-> Appended(p), gen |-> generation]
      BY ONLY <2>2, <3>1
    <3>. QED  BY <3>2
  <2>. QED  BY <2>1, <2>3, <2>4
<1>2. IInv /\ OneAtATime /\ [Next]_vars => [Alone => NamedRemoved]_vars
  BY <1>1
<1>. QED
  BY <1>2, Initially, Step, AloneInit, AloneStep, PTL DEF Spec, RemovesTheConfirmed

\* What the helper then installs is the file of that moment and one rule more,
\* or one rule less, even when it outlived its time (access.py:179-182).
THEOREM OneRuleChanges == Spec => ChangesOneRule
<1>. DEFINE One == \A s \in Saves \ installed :
                     Alone /\ s \in installed' =>
                       \/ job[s].kind = "add" /\ IsPrefix(file, file') /\ Len(file') <= Len(file) + 2
                       \/ \E i \in DOMAIN file : file' = [file EXCEPT ![i] = "blank"]
<1>1. IInv /\ OneAtATime /\ [Next]_vars => One
  <2>. SUFFICES ASSUME IInv, Alone, AloneInv, [Next]_vars,
                       NEW s \in Saves \ installed, s \in installed'
                PROVE  \/ job[s].kind = "add" /\ IsPrefix(file, file') /\ Len(file') <= Len(file) + 2
                       \/ \E i \in DOMAIN file : file' = [file EXCEPT ![i] = "blank"]
    BY DEF OneAtATime
  <2>1. HelperInstalls(s)
    BY DEF Next, Page, Refresh, CancelRemove, OpenRemove, ConfirmRemove, AddRule, Thread, Spawn,
         SpawnFails, Timeout, Post, OnSaved, Authorize, Dismiss, Helper, HelperInstalls,
         HelperRefuses, Ends, EditFile, vars
  <2>2. OneLine(job[s]) /\ file' = job[s].text
    BY <2>1 DEF HelperInstalls, AloneInv, Early
  <2>. QED  BY <2>2 DEF OneLine
<1>2. IInv /\ OneAtATime /\ [Next]_vars => [One]_vars
  BY <1>1
<1>. QED
  BY <1>2, Initially, Step, AloneInit, AloneStep, PTL DEF Spec, ChangesOneRule

=============================================================================
