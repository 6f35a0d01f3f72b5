------------------------------- MODULE Agent -------------------------------
(***************************************************************************)
(* shani-cassini --agent: the oneshot the timer starts, which reads the    *)
(* status of shani-deploy, decides what is worth telling, and tells it in  *)
(* one desktop notification after the other, waiting for each to be closed *)
(* or clicked.  What was said is kept in agent.json between runs.          *)
(***************************************************************************)
EXTENDS Integers, Sequences, SequencesExt

CONSTANTS
  Versions,  \* the versions an update can have
  None,
  MaxBoot,   \* bound: boots of the machine
  MaxDay,    \* bound: days (REMIND_UPDATE_AFTER)
  Faults

AllFaults == {"refused",  \* notify-send is missing, or fails
              "ignored",  \* nobody closes a notification: its timeout fires
              "killed"}   \* the agent dies: log out, TimeoutStartSec of the unit

ASSUME VersionAssumption == None \notin Versions
ASSUME BoundAssumption == MaxBoot \in Nat \ {0} /\ MaxDay \in Nat
ASSUME FaultAssumption == Faults \subseteq AllFaults

VARIABLES
  faults,     \* the faults that can happen in this behaviour
  boot, day,  \* the boot (its id), the day
  failed,     \* boot_failure: the updated system did not start, as of this boot
  reboot,     \* reboot_needed: the version a restart finishes, or None
  remote,     \* the version that update_available names, or None
  disk,       \* agent.json: said, the day each event was last said
  running,    \* the agent runs
  said,       \* state["said"] of the run
  due,        \* todo of the run
  left,       \* the part of todo not yet handled
  waiting,    \* notify-send shows the first of left
  undelivered,\* failed_delivery
  told,       \* history: the events shown, and the day of the run that last did
  again       \* history: an event was shown again without a reason

systemVars == <<faults, boot, day, failed, reboot, remote>>
runVars == <<running, said, due, left, waiting, undelivered>>
historyVars == <<told, again>>
vars == <<systemVars, disk, runVars, historyVars>>

Day == 0..MaxDay
Failure(b) == [kind |-> "failure", boot |-> b, version |-> None]
RebootFor(b, v) == [kind |-> "reboot", boot |-> b, version |-> v]
Update(v) == [kind |-> "update", boot |-> 0, version |-> v]
Event == {Failure(b) : b \in 1..MaxBoot}
           \cup {RebootFor(b, v) : b \in 1..MaxBoot, v \in Versions}
           \cup {Update(v) : v \in Versions}
Said == UNION {[E -> Day] : E \in SUBSET Event}

Nothing == [e \in {} |-> 0]

Without(f, e) == [x \in DOMAIN f \ {e} |-> f[x]]
With(f, e, d) == [x \in DOMAIN f \cup {e} |-> IF x = e THEN d ELSE f[x]]

Init ==
  /\ faults \in SUBSET Faults
  /\ boot = 1 /\ day = 0
  /\ failed \in BOOLEAN
  /\ reboot = None
  /\ remote = None
  /\ disk = Nothing
  /\ running = FALSE /\ said = Nothing /\ due = << >> /\ left = << >>
  /\ waiting = FALSE /\ undelivered = FALSE
  /\ told = Nothing /\ again = FALSE

----------------------------------------------------------------------------
(* decide and main                                                          *)

\* (mutant) a restart that waits hides the failure too
FailureKeyHidden == IF failed /\ reboot = None THEN <<Failure(boot)>> ELSE << >>
\* failure:{boot_id}:{slot}
FailureKey == IF failed THEN <<Failure(boot)>> ELSE << >>
\* The restart wins over the update, which needs a version to name.
UpdateKey ==
  IF reboot # None THEN <<RebootFor(boot, reboot)>>
  ELSE IF remote # None THEN <<Update(remote)>> ELSE << >>

\* (mutant) the reminder comes at every run
NewsEveryRun(e) == e \notin DOMAIN disk \/ e.kind = "update"
\* An update is said again a day later, the others are said once per boot.
News(e) == e \notin DOMAIN disk \/ (e.kind = "update" /\ day - disk[e] >= 1)

\* What was said already is not due.
Due(keys) == IF \A e \in Range(keys) : News(e) THEN keys ELSE << >>
Decide == Due(FailureKey) \o Due(UpdateKey)

\* What decide leaves in said: what is due counts as said before it is told,
\* and the events of other boots are forgotten.  The day of an event that is said
\* once is never read, and is left at 0.
SaidNow ==
  [e \in {x \in DOMAIN disk \cup Range(Decide) : x.kind = "update" \/ x.boot = boot} |->
     IF e.kind # "update" THEN 0 ELSE IF e \in Range(Decide) THEN day ELSE disk[e]]

Run ==
  /\ ~running
  /\ Decide # << >>
  /\ running' = TRUE
  /\ due' = Decide /\ left' = Decide
  /\ said' = SaidNow
  /\ undelivered' = FALSE
  /\ UNCHANGED <<systemVars, disk, waiting, historyVars>>

\* notify-send shows the notification, and --wait waits.
Show ==
  /\ running /\ left # << >> /\ ~waiting
  /\ waiting' = TRUE
  /\ LET e == Head(left)
     IN /\ told' = With(told, e, said[e])
        /\ again' = \/ again
                    \/ e \in DOMAIN told /\ (e.kind # "update" \/ said[e] = told[e])
  /\ UNCHANGED <<systemVars, disk, running, said, due, left, undelivered>>

\* notify returned True: the whole state is saved, with what is still to tell.
Closed ==
  /\ waiting
  /\ waiting' = FALSE
  /\ left' = Tail(left)
  /\ disk' = said
  /\ UNCHANGED <<systemVars, running, said, due, undelivered, historyVars>>

\* (mutant) what was not delivered stays said
NotToldKept ==
  /\ undelivered' = TRUE
  /\ left' = Tail(left)
  /\ UNCHANGED said
\* notify returned False: the event is taken back.
NotTold ==
  /\ undelivered' = TRUE
  /\ left' = Tail(left)
  /\ said' = Without(said, Head(left))

Refused ==
  /\ "refused" \in faults
  /\ running /\ left # << >> /\ ~waiting
  /\ NotTold
  /\ UNCHANGED <<systemVars, disk, running, due, waiting, historyVars>>

\* subprocess.TimeoutExpired of a notification that was on the screen.
Ignored ==
  /\ "ignored" \in faults
  /\ waiting
  /\ waiting' = FALSE
  /\ NotTold
  /\ UNCHANGED <<systemVars, disk, running, due, historyVars>>

\* The process and its state are gone.
Over ==
  /\ running' = FALSE /\ waiting' = FALSE /\ undelivered' = FALSE
  /\ said' = Nothing /\ left' = << >> /\ due' = << >>

\* The end of main: what was taken back is taken off the disk too, if the disk
\* may hold it.
Finish ==
  /\ running /\ left = << >>
  /\ running' = FALSE
  /\ disk' = IF undelivered /\ Range(due) \cap DOMAIN said # {} THEN said ELSE disk
  /\ Over
  /\ UNCHANGED <<systemVars, historyVars>>

Stop ==
  /\ Over
  /\ UNCHANGED <<disk, historyVars>>

Killed ==
  /\ "killed" \in faults
  /\ running
  /\ Stop
  /\ UNCHANGED systemVars

----------------------------------------------------------------------------
(* The machine, external                                                    *)

\* A restart: the new system starts, or the old one is back with a failure.  The
\* agent runs only when a user is logged in, so it is not asked to be done.
Restart ==
  /\ boot < MaxBoot
  /\ ~running \/ "killed" \in faults
  /\ boot' = boot + 1
  /\ failed' \in BOOLEAN
  /\ reboot' = None
  /\ Stop
  /\ UNCHANGED <<faults, day, remote>>

Publish ==
  /\ remote' \in Versions /\ remote' # remote
  /\ UNCHANGED <<faults, boot, day, failed, reboot, disk, runVars, historyVars>>

Install ==
  /\ remote # None
  /\ reboot' = remote /\ remote' = None
  /\ UNCHANGED <<faults, boot, day, failed, disk, runVars, historyVars>>

NextDay ==
  /\ day < MaxDay
  /\ day' = day + 1
  /\ UNCHANGED <<faults, boot, failed, reboot, remote, disk, runVars, historyVars>>

Next ==
  \/ Run \/ Show \/ Closed \/ Refused \/ Ignored \/ Finish \/ Killed
  \/ Restart \/ Publish \/ Install \/ NextDay

Spec == Init /\ [][Next]_vars

\* Fairness: the timer fires, the agent's own steps are taken, a notification
\* is closed or timed out, and a desktop that is asked again and again for one
\* kind of notification shows it in the end.
FairSpec ==
  /\ Spec
  /\ WF_vars(Run) /\ WF_vars(Closed \/ Ignored) /\ WF_vars(Finish)
  /\ \A k \in {"failure", "reboot", "update"} :
       SF_vars(left # << >> /\ Head(left).kind = k /\ Show)

----------------------------------------------------------------------------
(* Properties                                                               *)

\* "tells the user, once per event" (agent.py:4), an update once a day, as long
\* as every notification that is shown is closed and the agent lives.
OncePerEvent == faults \subseteq {"refused"} => ~again

\* Between two runs, what agent.json says was said was shown to the user: an
\* event is never marked and lost (test_agent.py:56, "state saved before
\* delivery"), unless the agent dies between two notifications.
SaidWasTold == "killed" \notin faults /\ ~running => DOMAIN disk \subseteq DOMAIN told

\* "a boot failure is real and must never be swallowed" (test_agent.py:112): a
\* failed boot is told in that boot, unless it ends, whatever is refused, times
\* out or is killed.
FailureTold ==
  \A b \in 1..MaxBoot :
    failed /\ boot = b ~> Failure(b) \in DOMAIN told \/ boot # b
=============================================================================
