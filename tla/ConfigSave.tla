----------------------------- MODULE ConfigSave -----------------------------
(***************************************************************************)
(* Saving one configuration file: system_status.set_config_value on top of *)
(* the engine in config_io (read_document, stage, and the three writers).  *)
(*                                                                         *)
(* A text is the set of settings it holds.  A save s reads the file        *)
(* (base[s]), adds its own setting s, stages the result - which writes a   *)
(* backup of what was READ and trims old backups - and hands it to the     *)
(* writer of the file's route:                                             *)
(*   own      a temp file beside the target and one os.replace             *)
(*   install  pkexec install from a temp file, read back, put back         *)
(*   helper   pkexec shani-cassini-save with the text on stdin, read back  *)
(* The pages keep one save in flight at a time.  Around it move pkexec's   *)
(* child, an editor in a terminal, the clock that names the backups, and   *)
(* the death of the application; Faults says which of them a run allows.   *)
(***************************************************************************)
EXTENDS Naturals, FiniteSets

CONSTANTS
  Saves,      \* the saves, each of them one setting
  Edits,      \* settings an editor in a terminal adds to the file
  Routes,     \* the routes a run considers
  Keep,       \* BACKUP_KEEP
  MaxStamp,   \* bound: the names (times) a backup may have
  Faults      \* what the environment may do

AllFaults == {"editor",     \* somebody edits the file behind the page
              "crash",      \* the application is killed
              "clock_back", \* local time is set back (also: daylight saving)
              "no_backup",  \* the backup cannot be written
              "no_temp",    \* the temp file cannot be written
              "no_dir",     \* the directory cannot be opened for the fsync
              "torn",       \* a privileged writer leaves a part of the text
              "slow"}       \* a helper already running outlives its timeout

ASSUME SavesAssumption == Saves \cap Edits = {}
ASSUME RouteAssumption == Routes \subseteq {"own", "install", "helper"}
ASSUME KeepAssumption == Keep \in Nat \ {0}
ASSUME FaultAssumption == Faults \subseteq AllFaults
ASSUME NumberAssumption == MaxStamp \in Nat

VARIABLES
  route,      \* the writer this file needs, fixed
  file,       \* what the file holds
  temp,       \* the temp file: {} when absent, else {what it holds}
  kept,       \* the saves whose backup is still in the backup directory
  stamp,      \* stamp[s]: the time in the name of the backup of s, 0 if none
  pc,         \* pc[s]: where save s is
  base,       \* base[s]: the text save s read
  child,      \* child[s]: the pkexec process of save s
  exit,       \* exit[s]: how it ended
  undoing,    \* the saves whose process installs the backup, not the text
  report,     \* report[s]: what done(error, note) was told
  wrote,      \* history: the saves whose text was put in the file
  committed,  \* history: the settings that must stay (see Committed below)
  edited      \* the editor's settings written so far

vars == <<route, file, temp, kept, stamp, pc, base, child, exit,
          undoing, report, wrote, committed, edited>>
childVars == <<child, exit, undoing>>
backupVars == <<kept, stamp>>
historyVars == <<wrote, committed, edited>>

Text == SUBSET (Saves \cup Edits)
Phases == {"new", "read", "staged", "temp", "replaced", "waiting", "stuck",
           "restoring", "confirm", "done", "raised", "dead"}
Reports == {"none", "saved", "unconfirmed", "refused", "cancelled", "unchanged",
            "putback", "byhand", "norun", "noanswer", "oserror"}
Exits == {"none", "ok", "fail", "cancel"}
ChildStates == {"none", "asking", "running", "exited"}

TypeOK ==
  /\ route \in Routes
  /\ file \in Text
  /\ temp \in SUBSET Text
  /\ kept \in SUBSET Saves
  /\ stamp \in [Saves -> Nat]
  /\ pc \in [Saves -> Phases]
  /\ base \in [Saves -> Text]
  /\ child \in [Saves -> ChildStates]
  /\ exit \in [Saves -> Exits]
  /\ undoing \in SUBSET Saves
  /\ report \in [Saves -> Reports]
  /\ wrote \in SUBSET Saves
  /\ committed \in SUBSET (Saves \cup Edits)
  /\ edited \in SUBSET Edits

InFlight(s) == pc[s] \notin {"new", "done", "raised", "dead"}
\* The pages refuse a second save while one is pending; a save whose thread
\* died of an exception never clears that flag.
Idle == \A s \in Saves : pc[s] \in {"new", "done", "dead"}

NewText(s) == base[s] \cup {s}
\* (mutant) the target is not read back
BackupThere(s) == s \in kept
\* _holds(path, _read_text(backup)): a missing backup reads as "", which is
\* the text of no file here (must_contain refused an empty one).
HoldsBackup(s) == s \in kept /\ file = base[s]
HoldsText(s) == file = NewText(s)

Init ==
  /\ route \in Routes
  /\ file = {}
  /\ temp = {}
  /\ kept = {}
  /\ stamp = [s \in Saves |-> 0]
  /\ pc = [s \in Saves |-> "new"]
  /\ base = [s \in Saves |-> {}]
  /\ child = [s \in Saves |-> "none"]
  /\ exit = [s \in Saves |-> "none"]
  /\ undoing = {}
  /\ report = [s \in Saves |-> "none"]
  /\ wrote = {}
  /\ committed = {}
  /\ edited = {}

Done(s, what) ==
  /\ pc' = [pc EXCEPT ![s] = "done"]
  /\ report' = [report EXCEPT ![s] = what]

----------------------------------------------------------------------------
(* read_document, Document.set and stage                                    *)

Read(s) ==
  /\ Idle /\ pc[s] = "new"
  /\ base' = [base EXCEPT ![s] = file]
  /\ pc' = [pc EXCEPT ![s] = "read"]
  /\ UNCHANGED <<route, file, temp, backupVars, childVars, report, historyVars>>

\* The owner, the markers, the encoding, the key, a folded line, a line the
\* parser cannot read, the validator: every refusal comes before the backup.
Refuse(s) ==
  /\ pc[s] = "read"
  /\ Done(s, "refused")
  /\ UNCHANGED <<route, file, temp, backupVars, base, childVars, historyVars>>

\* (mutant) one too few kept
NewestTooFew(K, at) == {s \in K : Cardinality({t \in K : at[t] > at[s]}) + 1 < Keep}
\* Trim to the Keep latest names: _write_backup sorts by name, not by age.
Newest(K, at) == {s \in K : Cardinality({t \in K : at[t] > at[s]}) < Keep}

Stage(s) ==
  /\ pc[s] = "read"
  /\ \E t \in 1..MaxStamp :
       /\ \A u \in Saves : stamp[u] # t
       /\ "clock_back" \in Faults \/ \A u \in Saves : stamp[u] < t
       /\ stamp' = [stamp EXCEPT ![s] = t]
       /\ kept' = Newest(kept \cup {s}, stamp')
  /\ pc' = [pc EXCEPT ![s] = "staged"]
  /\ UNCHANGED <<route, file, temp, base, childVars, report, historyVars>>

\* set_config_value catches ConfigRefused only: an OSError of _write_backup
\* leaves it as an exception, and done is never called.
BackupFails(s) ==
  /\ "no_backup" \in Faults
  /\ pc[s] = "read"
  /\ pc' = [pc EXCEPT ![s] = "raised"]
  /\ UNCHANGED <<route, file, temp, backupVars, base, childVars, report, historyVars>>

----------------------------------------------------------------------------
(* write_staged_unprivileged, and the temp file of write_staged_privileged  *)

\* (mutant) the target itself is opened for writing, and is empty until it is written
WriteInPlace(s) ==
  /\ route \in {"own", "install"} /\ pc[s] = "staged"
  /\ temp' = {NewText(s)}
  /\ file' = IF route = "own" THEN {} ELSE file
  /\ pc' = [pc EXCEPT ![s] = "temp"]
  /\ UNCHANGED <<route, backupVars, base, childVars, report, historyVars>>

WriteTemp(s) ==
  /\ route \in {"own", "install"} /\ pc[s] = "staged"
  /\ temp' = {NewText(s)}
  /\ pc' = [pc EXCEPT ![s] = "temp"]
  /\ UNCHANGED <<route, file, backupVars, base, childVars, report, historyVars>>

\* The write of the temp file is outside the try of both writers: what was
\* written stays behind.  _install turns the OSError of the own route into a
\* message; on the install route it is an exception of the thread.
WriteTempFails(s) ==
  /\ "no_temp" \in Faults
  /\ route \in {"own", "install"} /\ pc[s] = "staged"
  /\ \E part \in SUBSET NewText(s) : temp' = {part}
  /\ IF route = "own" THEN Done(s, "oserror")
     ELSE pc' = [pc EXCEPT ![s] = "raised"] /\ UNCHANGED report
  /\ UNCHANGED <<route, file, backupVars, base, childVars, historyVars>>

Replace(s) ==
  /\ route = "own" /\ pc[s] = "temp"
  /\ file' = NewText(s)
  /\ temp' = {}
  /\ wrote' = wrote \cup {s}
  /\ pc' = [pc EXCEPT ![s] = "replaced"]
  /\ UNCHANGED <<route, backupVars, base, childVars, report, committed, edited>>

ReplaceFails(s) ==
  /\ route = "own" /\ pc[s] = "temp"
  /\ temp' = {}
  /\ Done(s, "oserror")
  /\ UNCHANGED <<route, file, backupVars, base, childVars, historyVars>>

FsyncDir(s) ==
  /\ pc[s] = "replaced"
  /\ \/ pc' = [pc EXCEPT ![s] = "confirm"] /\ UNCHANGED report
     \/ "no_dir" \in Faults /\ Done(s, "oserror")
  /\ UNCHANGED <<route, file, temp, backupVars, base, childVars, historyVars>>

----------------------------------------------------------------------------
(* write_staged_privileged and _write_via_helper                            *)

RunPkexec(s) ==
  /\ \/ route = "install" /\ pc[s] = "temp"
     \/ route = "helper" /\ pc[s] = "staged"
  /\ child' = [child EXCEPT ![s] = "asking"]
  /\ pc' = [pc EXCEPT ![s] = "waiting"]
  /\ UNCHANGED <<route, file, temp, backupVars, base, exit, undoing, report, historyVars>>

\* There is no pkexec to run: OSError, and the finally removes the temp file.
NoPkexec(s) ==
  /\ \/ route = "install" /\ pc[s] = "temp"
     \/ route = "helper" /\ pc[s] = "staged"
  /\ temp' = IF route = "install" THEN {} ELSE temp
  /\ Done(s, "norun")
  /\ UNCHANGED <<route, file, backupVars, base, childVars, historyVars>>

\* The bytes decide, the exit code is a hint.  Not the staged bytes and not a
\* cancelled dialog: the backup is installed over the file, through pkexec.
CollectInstall(s) ==
  /\ route = "install" /\ pc[s] = "waiting" /\ child[s] = "exited"
  /\ \/ /\ exit[s] = "cancel" /\ HoldsBackup(s)
        /\ Done(s, "cancelled")
        /\ temp' = {} /\ UNCHANGED childVars
     \/ /\ ~(exit[s] = "cancel" /\ HoldsBackup(s)) /\ HoldsText(s)
        /\ pc' = [pc EXCEPT ![s] = "confirm"]
        /\ temp' = {} /\ UNCHANGED <<report, childVars>>
     \/ /\ ~(exit[s] = "cancel" /\ HoldsBackup(s)) /\ ~HoldsText(s)
        /\ pc' = [pc EXCEPT ![s] = "restoring"]
        /\ child' = [child EXCEPT ![s] = "asking"]
        /\ undoing' = undoing \cup {s}
        /\ UNCHANGED <<temp, report, exit>>
  /\ UNCHANGED <<route, file, backupVars, base, historyVars>>

\* After _restore: does the target hold the backup's bytes?
CollectRestore(s) ==
  /\ pc[s] = "restoring" /\ child[s] = "exited"
  /\ Done(s, IF HoldsBackup(s) THEN "putback" ELSE "byhand")
  /\ temp' = {}
  /\ UNCHANGED <<route, file, backupVars, base, childVars, historyVars>>

CollectHelper(s) ==
  /\ route = "helper" /\ pc[s] = "waiting" /\ child[s] = "exited"
  /\ \/ /\ HoldsText(s)
        /\ pc' = [pc EXCEPT ![s] = "confirm"] /\ UNCHANGED report
     \/ /\ ~HoldsText(s)
        /\ Done(s, IF ~HoldsBackup(s) THEN "byhand"
                   ELSE IF exit[s] = "cancel" THEN "cancelled" ELSE "unchanged")
  /\ UNCHANGED <<route, file, temp, backupVars, base, childVars, historyVars>>

\* (mutant) subprocess.run without a timeout
NoTimeout(s) == FALSE
\* subprocess.run(timeout=180) kills its child.  A pkexec still asking dies; a
\* helper already running is root's, the kill is refused with an OSError, and
\* it is delivered when the helper has ended (Unstick).
HelperTimeout(s) ==
  /\ route = "helper" /\ pc[s] = "waiting"
  /\ \/ /\ child[s] = "asking"
        /\ child' = [child EXCEPT ![s] = "exited"]
        /\ exit' = [exit EXCEPT ![s] = "cancel"]
        /\ Done(s, "noanswer")
        /\ UNCHANGED undoing
     \/ /\ child[s] = "running" /\ "slow" \in Faults
        /\ pc' = [pc EXCEPT ![s] = "stuck"]
        /\ UNCHANGED <<report, childVars>>
  /\ UNCHANGED <<route, file, temp, backupVars, base, historyVars>>

Unstick(s) ==
  /\ pc[s] = "stuck" /\ child[s] = "exited"
  /\ Done(s, "norun")
  /\ UNCHANGED <<route, file, temp, backupVars, base, childVars, historyVars>>

\* _confirm: the file is read again and must hold the value asked for.
Confirm(s) ==
  /\ pc[s] = "confirm"
  /\ Done(s, IF s \in file THEN "saved" ELSE "unconfirmed")
  /\ committed' = IF s \in file THEN committed \cup {s} ELSE committed
  /\ UNCHANGED <<route, file, temp, backupVars, base, childVars, wrote, edited>>

----------------------------------------------------------------------------
(* pkexec's child, external                                                 *)

Authorize(s) ==
  /\ child[s] = "asking"
  /\ child' = [child EXCEPT ![s] = "running"]
  /\ UNCHANGED <<route, file, temp, backupVars, pc, base, exit, undoing, report, historyVars>>

Dismiss(s) ==
  /\ child[s] = "asking"
  /\ child' = [child EXCEPT ![s] = "exited"]
  /\ exit' = [exit EXCEPT ![s] = "cancel"]
  /\ UNCHANGED <<route, file, temp, backupVars, pc, base, undoing, report, historyVars>>

\* What the child of s copies over the file, as a set: {} when its source is
\* missing.  install reads the temp file by name, now; the helper was given
\* the bytes; the restore reads the backup of s.
Source(s) ==
  IF s \in undoing THEN {base[t] : t \in kept \cap {s}}
  ELSE IF route = "install" THEN temp
  ELSE {NewText(s)}

ChildEnds(s, how) ==
  /\ child' = [child EXCEPT ![s] = "exited"]
  /\ exit' = [exit EXCEPT ![s] = how]
  /\ UNCHANGED undoing

ChildWrites(s) ==
  /\ child[s] = "running"
  /\ file' \in Source(s)
  /\ wrote' = IF s \in undoing THEN wrote ELSE wrote \cup {s}
  /\ ChildEnds(s, "ok")
  /\ UNCHANGED <<route, temp, backupVars, pc, base, report, committed, edited>>

ChildFails(s) ==
  /\ child[s] = "running"
  /\ ChildEnds(s, "fail")
  /\ UNCHANGED <<route, file, temp, backupVars, pc, base, report, historyVars>>

\* A full disk: part of the source is in the file.
ChildTears(s) ==
  /\ "torn" \in Faults
  /\ child[s] = "running"
  /\ \E src \in Source(s) : \E part \in SUBSET src :
       /\ part \notin {src, base[s]}
       /\ file' = part
  /\ ChildEnds(s, "fail")
  /\ UNCHANGED <<route, temp, backupVars, pc, base, report, historyVars>>

----------------------------------------------------------------------------
(* The rest of the machine                                                  *)

Edit(e) ==
  /\ "editor" \in Faults
  /\ e \notin edited
  /\ file' = file \cup {e}
  /\ edited' = edited \cup {e}
  /\ committed' = IF \A s \in Saves : ~InFlight(s) THEN committed \cup {e} ELSE committed
  /\ UNCHANGED <<route, temp, backupVars, pc, base, childVars, report, wrote>>

\* The application dies with a save in flight, and starts again.  A pkexec that
\* is still asking dies with its parent; one that runs as root does not.
Crash ==
  /\ "crash" \in Faults
  /\ ~Idle
  /\ pc' = [s \in Saves |-> IF InFlight(s) \/ pc[s] = "raised" THEN "dead" ELSE pc[s]]
  /\ child' = [s \in Saves |-> IF child[s] = "asking" THEN "exited" ELSE child[s]]
  /\ exit' = [s \in Saves |-> IF child[s] = "asking" THEN "cancel" ELSE exit[s]]
  /\ UNCHANGED <<route, file, temp, backupVars, base, undoing, report, historyVars>>

Save(s) ==
  \/ Read(s) \/ Refuse(s) \/ Stage(s) \/ BackupFails(s)
  \/ WriteTemp(s) \/ WriteTempFails(s) \/ Replace(s) \/ ReplaceFails(s) \/ FsyncDir(s)
  \/ RunPkexec(s) \/ NoPkexec(s) \/ CollectInstall(s) \/ CollectRestore(s)
  \/ CollectHelper(s) \/ HelperTimeout(s) \/ Unstick(s) \/ Confirm(s)

Child(s) ==
  Authorize(s) \/ Dismiss(s) \/ ChildWrites(s) \/ ChildFails(s) \/ ChildTears(s)

Next ==
  \/ \E s \in Saves : Save(s) \/ Child(s)
  \/ \E e \in Edits : Edit(e)
  \/ Crash

Spec == Init /\ [][Next]_vars

----------------------------------------------------------------------------
(* Properties                                                               *)

\* What was saved, and what the editor wrote while nothing was being saved,
\* stays in the file through every later save, its failures and its undoing -
\* or a save has said "check the file by hand" (config_io.py:820-826, 866-871).
CommittedKept ==
  \/ committed \subseteq file
  \/ \E s \in Saves : \/ pc[s] \in {"waiting", "stuck", "restoring"}
                      \/ report[s] = "byhand"

\* A failure that says nothing was changed is true: no step of this save, nor
\* of the process it left behind, ever put its text in the file.
FailureMeansUntouched ==
  \A s \in Saves :
    report[s] \in {"refused", "cancelled", "unchanged", "norun", "noanswer", "oserror"}
      => s \notin wrote

\* From the backup to the answer the backup of the save in flight exists, so
\* whatever the writer did can be undone (config_io.py:23-25).
BackupLives ==
  \A s \in Saves : InFlight(s) /\ pc[s] # "read" => s \in kept

\* A process of root that no page watches any more: the application died after
\* it had started pkexec, or the time of the running helper was over.
LeftBehind(s) == child[s] # "none" /\ (pc[s] \in {"stuck", "dead"} \/ report[s] = "norun")

\* The one answer that is wrong about the file: the text is in place, and the
\* directory cannot be opened for the fsync (config_io.py:925-932).
Misreported(s) == report[s] = "oserror" /\ s \in wrote

\* Nobody edited the file beside a save, and neither of those two happened.
Alone == edited \subseteq committed /\ \A s \in Saves : ~LeftBehind(s) /\ ~Misreported(s)

Answer(s) ==
  CASE pc[s] = "new"  -> "none"
    [] pc[s] \in {"raised", "dead"} -> "lost"
    [] pc[s] = "done" -> (IF report[s] = "saved" THEN "saved"
                          ELSE IF report[s] = "byhand" THEN "look" ELSE "failed")
    [] OTHER          -> "pending"

\* A part of a text in the file is the old text until somebody is told: the
\* page puts the backup back, or says that it could not.
Torn(s) == pc[s] \in {"waiting", "restoring"} /\ file \notin {base[s], NewText(s)}
Settings == IF \E s \in Saves : Torn(s) THEN base[CHOOSE s \in Saves : Torn(s)] ELSE file

Promise == INSTANCE SavePromise
             WITH settings <- Settings, answer <- [s \in Saves |-> Answer(s)],
                  alone <- Alone

\* A save takes effect in one step or not at all and its answer is the truth
\* about it, as SavePromise says, though the application may die at any step
\* before pkexec is started, a writer leave a part of the text, the put-back be
\* dismissed or fail, the backup be gone and the clock go back; until somebody
\* edits the file beside a save or a process of root is left behind.
ImplementsPromise == Promise!Spec

\* Fairness: a thread of the page keeps running, subprocess.run's timer fires,
\* and a process that runs as root ends.  Nobody owes the password dialog an
\* answer, so Authorize and Dismiss have none.
Fairness ==
  \A s \in Saves : /\ WF_vars(Save(s))
                    /\ WF_vars(child[s] = "running" /\ Child(s))

FairSpec == Spec /\ Fairness

\* Every save of a file with no password dialog, or with one that is timed out,
\* is answered: done is called (system_status.py:2806-2808) - unless its backup
\* raises or the application dies.
EverySaveAnswered ==
  \A s \in Saves :
    pc[s] = "read" /\ route # "install" ~> pc[s] \in {"done", "raised", "dead"}

----------------------------------------------------------------------------
(* Strengthenings                                                           *)

Busy(s) == pc[s] \notin {"new", "done", "dead"}

\* Two saves never overlap, nor does one begin while a raised one blocks the page.
Serial == \A s, t \in Saves : Busy(s) /\ Busy(t) => s = t

\* What the history and the processes say of one another, whatever goes wrong.
Started ==
  /\ committed \subseteq Saves \cup edited
  /\ \A s \in Saves :
       /\ report[s] # "none" => pc[s] = "done"
       /\ pc[s] \in {"waiting", "stuck", "restoring"} \/ s \in undoing => child[s] # "none"

\* What the process of s has done so far, while the save is alone with the file.
ChildInv(s) ==
  /\ pc[s] \notin {"waiting", "restoring"} => child[s] \in {"none", "exited"}
  /\ pc[s] = "waiting" =>
       \/ child[s] \in {"asking", "running"} /\ file = base[s]
       \/ child[s] = "exited" /\ exit[s] = "ok" /\ file = NewText(s)
       \/ child[s] = "exited" /\ exit[s] # "ok" /\ file \subseteq NewText(s) /\ file # NewText(s)
  /\ pc[s] = "restoring" => s \in undoing /\ file \subseteq NewText(s) /\ file # NewText(s)
  /\ s \in undoing => pc[s] \in {"restoring", "done"}

\* Where save s is tells what the file holds.
AtomicFor(s) ==
  /\ pc[s] # "stuck" /\ (pc[s] = "dead" => child[s] = "none")
  /\ pc[s] = "new" => s \notin file /\ \A t \in Saves : Busy(t) => s \notin base[t]
  /\ Busy(s) => s \notin base[s]
  /\ pc[s] \in {"read", "staged", "temp"} => file = base[s]
  /\ pc[s] \in {"replaced", "confirm"} => file = NewText(s)
  /\ pc[s] = "replaced" => s \in wrote
  /\ route = "install" /\ pc[s] \in {"temp", "waiting"} => temp = {NewText(s)}
  /\ pc[s] \in {"waiting", "restoring"} => route \in {"install", "helper"}

\* The inductive invariant under ImplementsPromise.
AtomicInv == Serial /\ Started /\ (Alone => \A s \in Saves : AtomicFor(s) /\ ChildInv(s))
=============================================================================
