---------------------------- MODULE FprintEnroll ----------------------------
(***************************************************************************)
(* tabs/biometrics.py: enrolling a finger over fprintd's D-Bus interface.  *)
(*                                                                         *)
(* The page keeps one attempt (_enroll).  It makes asynchronous calls -    *)
(* Claim, EnrollStart, EnrollStop, Release - and each answer is a callback *)
(* that looks at the attempt of ITS moment, not at the one that made the   *)
(* call.  fprintd is external: it serves one client's calls in order, save *)
(* for a Claim, which waits for the user's authorization; what it sends    *)
(* arrives in the order it was sent.                                       *)
(***************************************************************************)
EXTENDS Naturals, Sequences

CONSTANTS
  MaxAttempts,  \* bound: attempts
  Faults

AllFaults == {"impatient", \* the user cancels while a call is unanswered
              "slow",      \* fprintd answers later than D-Bus waits (25 s)
              "refused"}   \* fprintd refuses a call for reasons of its own

ASSUME BoundAssumption == MaxAttempts \in Nat
ASSUME FaultAssumption == Faults \subseteq AllFaults

VARIABLES
  faults,     \* the faults that can happen in this behaviour
  attempts,   \* how many attempts there were; an attempt is its number
  current,    \* the attempt in _enroll, or 0
  claimed, started,  \* its two flags
  timer,      \* its timer runs
  sub,        \* its subscription is live
  stray,      \* timers and subscriptions no attempt holds any more
  sent,       \* the calls fprintd has not served: in the order they were made
  inbox,      \* what fprintd sent and the main loop has not dispatched
  reader,     \* [ours, scan, for]: claimed by us, the scan's state, whose it is
  stored,     \* history: the attempts whose finger fprintd has stored
  said        \* history: how each attempt ended, on the page

vars == <<faults, attempts, current, claimed, started, timer, sub, stray, sent,
          inbox, reader, stored, said>>
attemptVars == <<attempts, current, claimed, started, timer, sub, said>>
fprintdVars == <<faults, reader, stored>>

Attempt == 1..MaxAttempts
Methods == {"Claim", "EnrollStart", "EnrollStop", "Release"}
Call == [m : Methods, by : Attempt, live : BOOLEAN]
Message == [what : {"reply"}, m : Methods, by : Attempt, ok : BOOLEAN]
             \cup [what : {"completed", "failed"}]

Init ==
  /\ faults \in SUBSET Faults
  /\ attempts = 0 /\ current = 0
  /\ claimed = FALSE /\ started = FALSE /\ timer = FALSE /\ sub = FALSE
  /\ stray = [timers |-> 0, subs |-> 0]
  /\ sent = << >> /\ inbox = << >>
  /\ reader = [ours |-> FALSE, scan |-> "no", for |-> 0]
  /\ stored = {}
  /\ said = [a \in Attempt |-> ""]

CallOf(m, a) == [m |-> m, by |-> a, live |-> TRUE]
Make(m, a) == sent' = Append(sent, CallOf(m, a))
NoAttempt ==
  /\ current' = 0
  /\ claimed' = FALSE /\ started' = FALSE /\ timer' = FALSE /\ sub' = FALSE

----------------------------------------------------------------------------
(* The page                                                                 *)

\* (mutant) the button stays sensitive while a finger is enrolled
StartEnrollAgain ==
  /\ attempts < MaxAttempts
  /\ attempts' = attempts + 1 /\ current' = attempts'
  /\ Make("Claim", attempts')
  /\ UNCHANGED <<claimed, started, timer, sub, said, stray, inbox, fprintdVars>>
\* _start_enroll
StartEnroll ==
  /\ current = 0 /\ attempts < MaxAttempts
  /\ attempts' = attempts + 1 /\ current' = attempts'
  /\ Make("Claim", attempts')
  /\ UNCHANGED <<claimed, started, timer, sub, said, stray, inbox, fprintdVars>>

\* (mutant) the reader is given back without a stop of the scans
EndUnstopped(how) ==
  /\ NoAttempt
  /\ said' = [said EXCEPT ![current] = how]
  /\ IF claimed THEN Make("Release", current) ELSE UNCHANGED sent
  /\ UNCHANGED attempts
\* (mutant) only a started enrollment is undone
EndUnreleased(how) ==
  /\ NoAttempt
  /\ said' = [said EXCEPT ![current] = how]
  /\ IF started THEN Make("EnrollStop", current) ELSE UNCHANGED sent
  /\ UNCHANGED attempts
\* _end_enroll: the timer and the subscription of the attempt go, and as much is
\* undone as the page knows was done.
End(how) ==
  /\ NoAttempt
  /\ said' = [said EXCEPT ![current] = how]
  /\ CASE ~claimed           -> UNCHANGED sent
       [] claimed /\ ~started -> Make("Release", current)
       [] OTHER              -> Make("EnrollStop", current)
  /\ UNCHANGED attempts

CancelEnroll ==
  /\ current # 0
  /\ "impatient" \in faults \/ (sent = << >> /\ started)
  /\ End("cancelled")
  /\ UNCHANGED <<stray, inbox, fprintdVars>>

\* (mutant) a timer that ran out does not end the attempt
DeadlineQuiet ==
  /\ timer
  /\ timer' = FALSE
  /\ UNCHANGED <<attempts, current, claimed, started, sub, said, stray, sent>>
\* _enroll_deadline, of the attempt's own timer or of one left behind, which
\* then leaves the attempt's own behind in turn.
Deadline ==
  \/ timer /\ End("deadline") /\ UNCHANGED stray
  \/ /\ stray.timers > 0
     /\ IF current = 0
        THEN stray' = [stray EXCEPT !.timers = @ - 1] /\ UNCHANGED <<attemptVars, sent>>
        ELSE /\ stray' = IF timer THEN stray ELSE [stray EXCEPT !.timers = @ - 1]
             /\ End("deadline")

OnClaimed(ok) ==
  \/ current = 0 /\ UNCHANGED <<attemptVars, stray, sent>>
  \/ current # 0 /\ ~ok /\ End("error") /\ UNCHANGED stray
  \/ /\ current # 0 /\ ok
     /\ claimed' = TRUE
     /\ sub' = TRUE
     /\ stray' = IF sub THEN [stray EXCEPT !.subs = @ + 1] ELSE stray
     /\ Make("EnrollStart", current)
     /\ UNCHANGED <<attempts, current, started, timer, said>>

OnEnrolled(ok) ==
  \/ current = 0 /\ UNCHANGED <<attemptVars, stray, sent>>
  \/ current # 0 /\ ~ok /\ End("error") /\ UNCHANGED stray
  \/ /\ current # 0 /\ ok
     /\ started' = TRUE
     /\ timer' = TRUE
     /\ stray' = IF timer THEN [stray EXCEPT !.timers = @ + 1] ELSE stray
     /\ UNCHANGED <<attempts, current, claimed, sub, said, sent>>

\* The closures of _end_enroll hold their own attempt.
OnUndone(m, a) ==
  /\ IF m = "EnrollStop" THEN Make("Release", a) ELSE UNCHANGED sent
  /\ UNCHANGED <<attemptVars, stray>>

OnReply(m, a, ok) ==
  CASE m = "Claim" -> OnClaimed(ok)
    [] m = "EnrollStart" -> OnEnrolled(ok)
    [] OTHER -> OnUndone(m, a)

\* (mutant) the last signal is a success, whatever it says
OnSignalGlad(what) ==
  IF current # 0 /\ (sub \/ stray.subs > 0)
  THEN End("stored") /\ UNCHANGED stray
  ELSE UNCHANGED <<attemptVars, stray, sent>>
\* _on_enroll_status(done): only a live subscription hears it.  The scans before
\* the last change nothing but the progress shown.
OnSignal(what) ==
  IF current # 0 /\ (sub \/ stray.subs > 0)
  THEN End(IF what = "completed" THEN "stored" ELSE "error") /\ UNCHANGED stray
  ELSE UNCHANGED <<attemptVars, stray, sent>>

Dispatch ==
  /\ inbox # << >>
  /\ inbox' = Tail(inbox)
  /\ LET msg == Head(inbox)
     IN IF msg.what = "reply" THEN OnReply(msg.m, msg.by, msg.ok) ELSE OnSignal(msg.what)
  /\ UNCHANGED fprintdVars

Page == StartEnroll \/ CancelEnroll
Loop == Dispatch \/ (Deadline /\ UNCHANGED <<inbox, fprintdVars>>)

----------------------------------------------------------------------------
(* fprintd and D-Bus, external                                              *)

Without(seq, i) == SubSeq(seq, 1, i - 1) \o SubSeq(seq, i + 1, Len(seq))

\* A Claim waits for the user; every other call is served when it is its turn.
Serve(i, ok) ==
  /\ i \in DOMAIN sent
  /\ sent[i].m # "Claim" => \A j \in 1..i - 1 : sent[j].m = "Claim"
  /\ sent' = Without(sent, i)
  /\ inbox' = IF sent[i].live
              THEN Append(inbox, [what |-> "reply", m |-> sent[i].m, by |-> sent[i].by, ok |-> ok])
              ELSE inbox
  /\ UNCHANGED <<faults, attemptVars, stray, stored>>

Can(m) ==
  CASE m = "Claim" -> ~reader.ours
    [] m = "EnrollStart" -> reader.ours /\ reader.scan = "no"
    [] m = "EnrollStop" -> reader.scan # "no"
    [] m = "Release" -> reader.ours

Accept(i) ==
  /\ i \in DOMAIN sent /\ Can(sent[i].m)
  /\ Serve(i, TRUE)
  /\ reader' = CASE sent[i].m = "Claim" -> [reader EXCEPT !.ours = TRUE]
                 [] sent[i].m = "EnrollStart" -> [reader EXCEPT !.scan = "on", !.for = sent[i].by]
                 [] sent[i].m = "EnrollStop" -> [reader EXCEPT !.scan = "no", !.for = 0]
                 [] sent[i].m = "Release" -> [ours |-> FALSE, scan |-> "no", for |-> 0]

Refuse(i) ==
  /\ i \in DOMAIN sent
  /\ ~Can(sent[i].m) \/ ("refused" \in faults /\ sent[i].m \in {"Claim", "EnrollStart"})
  /\ Serve(i, FALSE)
  /\ UNCHANGED reader

\* D-Bus gives up on a call; fprintd goes on with it.
GiveUp(i) ==
  /\ "slow" \in faults
  /\ i \in DOMAIN sent /\ sent[i].live
  /\ sent' = [sent EXCEPT ![i].live = FALSE]
  /\ inbox' = Append(inbox, [what |-> "reply", m |-> sent[i].m, by |-> sent[i].by, ok |-> FALSE])
  /\ UNCHANGED <<attemptVars, stray, fprintdVars>>

\* The last scan: the finger is stored, or the scans failed.
Scan ==
  /\ reader.scan = "on"
  /\ reader' = [reader EXCEPT !.scan = "over"]
  /\ \/ /\ inbox' = Append(inbox, [what |-> "completed"])
        /\ stored' = stored \cup {reader.for}
     \/ /\ inbox' = Append(inbox, [what |-> "failed"])
        /\ UNCHANGED stored
  /\ UNCHANGED <<faults, attemptVars, stray, sent>>

Fprintd == \E i \in DOMAIN sent : Accept(i) \/ Refuse(i) \/ GiveUp(i)

Next == Page \/ Loop \/ Fprintd \/ Scan

Spec == Init /\ [][Next]_vars

\* Fairness: the main loop dispatches, its timers run out, and D-Bus answers a
\* call or gives up on it.  Nobody has to touch the reader.
FairSpec == Spec /\ WF_vars(Dispatch) /\ WF_vars(Loop) /\ WF_vars(Fprintd)

----------------------------------------------------------------------------
(* Properties                                                               *)

\* The page is not enrolling and nothing is on its way.
Quiet == current = 0 /\ sent = << >> /\ inbox = << >>

\* The user waits for each answer, and fprintd answers in time.
Patient == faults \subseteq {"refused"}

\* "A claimed reader is unusable by anything else, including the lock screen, so
\* every path out of enrollment must call this" (system_status.py:2061-2064).
GivenBack == Quiet => ~reader.ours

\* GivenBack, whatever fprintd refuses, for a user who waits for each answer.
ReaderGivenBack == Patient => GivenBack

\* "stop the scans ... and give the reader back, in that order"
\* (biometrics.py:659-661): the reader is not given back under a running scan.
StoppedBeforeRelease ==
  [][Patient /\ reader.ours /\ ~reader'.ours => reader.scan = "no"]_vars

\* "Fingerprint stored" is said of a finger that is stored, whichever attempt
\* the answers of fprintd were for.
StoredIsTrue == \A a \in Attempt : said[a] = "stored" => a \in stored

\* An answer ends the attempt it was for, never the next one.
AnswersItsOwn ==
  [][Patient /\ current # 0 /\ current' = 0 /\ inbox # << >> /\ inbox' = Tail(inbox)
       /\ Head(inbox).what = "reply" => Head(inbox).by = current]_vars

\* Enrolling does not go on for ever, whoever does not answer.
EnrollmentEnds == \A a \in Attempt : current = a ~> current # a
=============================================================================
