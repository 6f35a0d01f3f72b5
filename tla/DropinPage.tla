----------------------------- MODULE DropinPage -----------------------------
(***************************************************************************)
(* The page over a root-owned drop-in (tabs/access.py; sharing.py and      *)
(* remote_access.py have the same refresh, _save, _save_worker, _on_saved).*)
(*                                                                         *)
(* The page draws the lines it read; a rule's row remembers the INDEX of   *)
(* its line.  A save reads the file again, changes single lines, and a     *)
(* thread hands the text to a helper through pkexec, while the window goes *)
(* on.  The answer comes back through the main loop's idle queue and is    *)
(* dropped when the generation has moved on.                               *)
(***************************************************************************)
EXTENDS Integers, Sequences, SequencesExt

CONSTANTS
  People,         \* the accounts and groups a rule may name
  Uids,           \* the accounts named by number (#1000)
  Saves,          \* the saves, in no order
  None,           \* no save, no dialog
  First,          \* the lines the drop-in has to begin with
  Faults,         \* what the user and the machine do
  MaxLines,       \* bound: lines in the file when a line is added
  MaxGeneration,  \* bound: the generation a click on Refresh may reach
  MaxEdits        \* bound: changes of the file by somebody else

AllFaults == {"impatient",  \* the user acts while a save is in flight
              "editor",     \* visudo in a terminal
              "slow",       \* a running helper outlives the timeout
              "no_backup"}  \* the backup of the drop-in cannot be written

ASSUME FaultAssumption == Faults \subseteq AllFaults
ASSUME NoneAssumption == None \notin Saves
ASSUME LineAssumption == (People \cup Uids) \cap {"blank", "comment", "other"} = {}
ASSUME FirstAssumption == First \in Seq(People \cup Uids \cup {"blank", "comment", "other"})

VARIABLES
  faults,      \* the faults that can happen in this behaviour
  file,        \* the lines of the drop-in
  shown,       \* the lines the rows were drawn from
  dialog,      \* None, or the rule the open remove dialog is about
  generation,  \* _generation
  last,        \* _last and _last_state, and the save they speak of
  phase,       \* phase[s]: where save s, its thread and its helper are
  job,         \* job[s]: what save s set out to do
  result,      \* result[s]: what its thread found
  idle,        \* the answers waiting in the main loop's idle queue
  installed,   \* history: the saves whose text was put in the file
  edits        \* how often somebody else changed the file

vars == <<faults, file, shown, dialog, generation, last, phase, job, result,
          idle, installed, edits>>
pageVars == <<shown, dialog, generation, last>>
workVars == <<phase, job, result, idle>>

Granting == People \cup Uids
Line == Granting \cup {"blank", "comment", "other"}
Text == Seq(Line)
Phases == {"new", "started", "asking", "running", "overrun", "exited", "posted", "done"}
Results == {"none", "ok", "fail", "noanswer", "norun"}
Kinds == {"none", "add", "remove"}

\* The next save: which one it is says nothing.
Fresh == CHOOSE s \in Saves : phase[s] = "new"
InFlight(s) == phase[s] \notin {"new", "done"}
CanAct == dialog = None /\ ("impatient" \in faults \/ \A s \in Saves : ~InFlight(s))

\* read_grants: a comment is skipped, and a rule for #1000 begins like one.
Rows(lines) == {i \in DOMAIN lines : lines[i] \in People}
\* A line that cannot be read takes every control off the page.
Editable(lines) == "other" \notin Range(lines)

NoJob == [kind |-> "none", who |-> None, text |-> << >>, gen |-> 0]

Init ==
  /\ faults \in SUBSET Faults
  /\ file = First
  /\ shown = file
  /\ dialog = None
  /\ generation = 1
  /\ last = [state |-> "none", save |-> None]
  /\ phase = [s \in Saves |-> "new"]
  /\ job = [s \in Saves |-> NoJob]
  /\ result = [s \in Saves |-> "none"]
  /\ idle = << >>
  /\ installed = {}
  /\ edits = 0

----------------------------------------------------------------------------
(* The main loop                                                            *)

Refresh ==
  /\ CanAct
  /\ generation < MaxGeneration
  /\ generation' = generation + 1
  /\ shown' = file
  /\ UNCHANGED <<file, dialog, last, workVars, installed, edits, faults>>

\* The button of a row carries the rule as it was drawn.
OpenRemove(i) ==
  /\ CanAct
  /\ Editable(shown)
  /\ i \in Rows(shown)
  /\ dialog' = [index |-> i, who |-> shown[i]]
  /\ UNCHANGED <<file, shown, generation, last, workVars, installed, edits, faults>>

CancelRemove ==
  /\ dialog # None
  /\ dialog' = None
  /\ UNCHANGED <<file, shown, generation, last, workVars, installed, edits, faults>>

\* _fail before a thread was started: an error, and the rows are drawn again.
Fail ==
  /\ last' = [state |-> "error", save |-> None]
  /\ shown' = file
  /\ UNCHANGED <<generation, workVars>>

\* An exception of the callback: GLib prints it and the page does not change.
Swallow == UNCHANGED <<shown, generation, last, workVars>>

\* stage, then the thread: a line that cannot be read and an unchanged file are
\* refused; the answer belongs to the generation of this moment.
StageAndStart(s, kind, who, text) ==
  IF ~Editable(text) \/ text = file THEN Fail
  ELSE
    \/ "no_backup" \in faults /\ Swallow
    \/ /\ phase' = [phase EXCEPT ![s] = "started"]
       /\ job' = [job EXCEPT ![s] = [kind |-> kind, who |-> who, text |-> text,
                                     gen |-> generation]]
       /\ last' = [state |-> "saving", save |-> s]
       /\ shown' = file
       /\ UNCHANGED <<generation, result, idle>>

\* (mutant) the file is written anew
HeaderAlways(p) == <<"comment", p>>
\* _appending: the header only for a file with no line at all.
Appended(p) == file \o IF file = << >> THEN <<"comment", p>> ELSE <<p>>

AddRule(s, p) ==
  /\ CanAct
  /\ phase[s] = "new" /\ s = Fresh
  /\ Editable(shown)
  /\ Len(file) < MaxLines
  /\ StageAndStart(s, "add", p, Appended(p))
  /\ UNCHANGED <<file, dialog, installed, edits, faults>>

\* (mutant) the line is spliced out, and every later rule is renumbered
Spliced(i) == RemoveAt(file, i)
\* remove_line on the file as it is now, at the index the row was drawn with.
Blanked(i) == [file EXCEPT ![i] = "blank"]

\* The response of the remove dialog.  An index beyond the end is an IndexError,
\* which is not a ConfigRefused.
ConfirmRemove(s) ==
  /\ dialog # None
  /\ phase[s] = "new" /\ s = Fresh
  /\ dialog' = None
  /\ IF dialog.index > Len(file) THEN Swallow
     ELSE StageAndStart(s, "remove", dialog.who, Blanked(dialog.index))
  /\ UNCHANGED <<file, installed, edits, faults>>

\* The thread is gone, and its locals with it.
Forget(s) ==
  /\ job' = [job EXCEPT ![s] = NoJob]
  /\ result' = [result EXCEPT ![s] = "none"]

\* (mutant) a failed save leaves the row of the last save as it is
OnSavedQuiet(s) ==
  /\ idle # << >> /\ s = Head(idle)
  /\ idle' = Tail(idle)
  /\ phase' = [phase EXCEPT ![s] = "done"]
  /\ IF result[s] = "ok"
     THEN /\ last' = [state |-> "ok", save |-> s]
          /\ generation' = generation + 1
     ELSE UNCHANGED <<last, generation>>
  /\ shown' = file
  /\ Forget(s)
  /\ UNCHANGED <<file, dialog, installed, edits, faults>>

\* _on_saved: an answer of an older generation is dropped; a good one refreshes.
OnSaved(s) ==
  /\ idle # << >> /\ s = Head(idle)
  /\ idle' = Tail(idle)
  /\ phase' = [phase EXCEPT ![s] = "done"]
  /\ \/ /\ job[s].gen # generation
        /\ UNCHANGED <<last, shown, generation>>
     \/ /\ job[s].gen = generation /\ result[s] = "ok"
        /\ last' = [state |-> "ok", save |-> s]
        /\ generation' = generation + 1
        /\ shown' = file
     \/ /\ job[s].gen = generation /\ result[s] # "ok"
        /\ last' = [state |-> "error", save |-> s]
        /\ shown' = file
        /\ UNCHANGED generation
  /\ Forget(s)
  /\ UNCHANGED <<file, dialog, installed, edits, faults>>

----------------------------------------------------------------------------
(* The thread of a save                                                     *)

Spawn(s) ==
  /\ phase[s] = "started"
  /\ phase' = [phase EXCEPT ![s] = "asking"]
  /\ UNCHANGED <<file, pageVars, job, result, idle, installed, edits, faults>>

Ends(s, how) ==
  /\ phase' = [phase EXCEPT ![s] = "exited"]
  /\ result' = [result EXCEPT ![s] = how]
  /\ UNCHANGED <<pageVars, job, idle, edits, faults>>

\* FileNotFoundError, or another OSError of the start.
SpawnFails(s) ==
  /\ phase[s] = "started"
  /\ Ends(s, "norun")
  /\ UNCHANGED <<file, installed>>

\* (mutant) subprocess.run without a timeout
NoTimeout(s) == FALSE
\* subprocess.run kills a pkexec that still asks.  It may not kill a helper that
\* runs as root: the refused kill is an OSError, seen when the helper has ended.
Timeout(s) ==
  \/ /\ phase[s] = "asking"
     /\ Ends(s, "noanswer")
     /\ UNCHANGED <<file, installed>>
  \/ /\ "slow" \in faults
     /\ phase[s] = "running"
     /\ phase' = [phase EXCEPT ![s] = "overrun"]
     /\ UNCHANGED <<file, pageVars, job, result, idle, installed, edits, faults>>

\* GLib.idle_add
Post(s) ==
  /\ phase[s] = "exited"
  /\ phase' = [phase EXCEPT ![s] = "posted"]
  /\ idle' = Append(idle, s)
  /\ UNCHANGED <<file, pageVars, job, result, installed, edits, faults>>

----------------------------------------------------------------------------
(* The password dialog, the helper and visudo, external                     *)

Authorize(s) ==
  /\ phase[s] = "asking"
  /\ phase' = [phase EXCEPT ![s] = "running"]
  /\ UNCHANGED <<file, pageVars, job, result, idle, installed, edits, faults>>

Dismiss(s) ==
  /\ phase[s] = "asking"
  /\ Ends(s, "fail")
  /\ UNCHANGED <<file, installed>>

\* (mutant) the exit code is not looked at
OutcomeBlind(s, how) == "ok"
\* returncode == 0, unless the kill came first
Outcome(s, how) == IF phase[s] = "overrun" THEN "norun" ELSE how

HelperInstalls(s) ==
  /\ phase[s] \in {"running", "overrun"}
  /\ file' = job[s].text
  /\ installed' = installed \cup {s}
  /\ Ends(s, Outcome(s, "ok"))

HelperRefuses(s) ==
  /\ phase[s] \in {"running", "overrun"}
  /\ Ends(s, Outcome(s, "fail"))
  /\ UNCHANGED <<file, installed>>

\* A line put on top, taken out, or made one the page cannot read.
EditFile ==
  /\ "editor" \in faults
  /\ edits < MaxEdits
  /\ edits' = edits + 1
  /\ \/ \E p \in Granting : Len(file) < MaxLines /\ file' = <<p>> \o file
     \/ \E i \in DOMAIN file : file' = RemoveAt(file, i)
     \/ \E i \in DOMAIN file : file' = [file EXCEPT ![i] = "other"]
  /\ UNCHANGED <<pageVars, workVars, installed, faults>>

Page ==
  \/ Refresh \/ CancelRemove
  \/ \E i \in 1..(MaxLines + 1) : OpenRemove(i)
  \/ \E s \in Saves : ConfirmRemove(s) \/ \E p \in Granting : AddRule(s, p)

Thread(s) == Spawn(s) \/ SpawnFails(s) \/ Timeout(s) \/ Post(s) \/ OnSaved(s)
Helper(s) == HelperInstalls(s) \/ HelperRefuses(s)

Next ==
  \/ Page
  \/ \E s \in Saves : Thread(s) \/ Authorize(s) \/ Dismiss(s) \/ Helper(s)
  \/ EditFile

Spec == Init /\ [][Next]_vars

----------------------------------------------------------------------------
(* Properties                                                               *)

\* The dialog named a rule, and that rule is the one that goes: "every other
\* rule keeps its place" (access.py:774-776).
NamedRemoved ==
  \A s \in Saves :
    phase[s] = "new" /\ phase'[s] # "new" /\ job'[s].kind = "remove"
      => \E i \in DOMAIN file : /\ file[i] = job'[s].who
                                /\ job'[s].text = [file EXCEPT ![i] = "blank"]

RemovesTheNamed == [][NamedRemoved]_vars

\* One save at a time, and nobody else at the file.
Alone == faults \cap {"impatient", "editor"} = {}

\* RemovesTheNamed holds of a user who waits for each save, alone at the file.
RemovesTheConfirmed == [][Alone => NamedRemoved]_vars

\* "Saving it writes exactly one line" (access.py:179-182): what the helper
\* installs is the file of that moment and one rule more, or one rule less.
ChangesOneRule ==
  [][\A s \in Saves \ installed :
       Alone /\ s \in installed' =>
         \/ job[s].kind = "add" /\ IsPrefix(file, file') /\ Len(file') <= Len(file) + 2
         \/ \E i \in DOMAIN file : file' = [file EXCEPT ![i] = "blank"]]_vars

\* Whatever the user and others do, "Saved" is said of a text that was
\* installed; and an error of one that was not, unless the helper outlived its
\* time.
AnswerIsTrue ==
  \A s \in Saves :
    /\ last = [state |-> "ok", save |-> s] => s \in installed
    /\ last = [state |-> "error", save |-> s] /\ "slow" \notin faults => s \notin installed

\* Fairness: the thread runs, its timer fires, the main loop dispatches, and a
\* helper that runs as root ends.  Nobody owes the password dialog an answer.
FairSpec ==
  Spec /\ \A s \in Saves : /\ WF_vars(Thread(s))
                           /\ WF_vars(Helper(s))

\* "Asking for your password..." does not stay on the page for ever, for a user
\* who waits for each save.
SavingEnds ==
  "impatient" \notin faults /\ last.state = "saving" ~> last.state # "saving"
=============================================================================
