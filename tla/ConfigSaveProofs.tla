-------------------------- MODULE ConfigSaveProofs --------------------------
(***************************************************************************)
(* Theorems about ConfigSave, for every set of saves, every number of      *)
(* backups and every set of faults the hypotheses allow.                   *)
(***************************************************************************)
EXTENDS ConfigSave, FiniteSetTheorems, TLAPS

LEMMA NewestSubset ==
  ASSUME NEW K, NEW at
  PROVE  Newest(K, at) \subseteq K
BY DEF Newest

\* What the process of a save copies over the file is a text.
LEMMA SourceType ==
  ASSUME TypeOK, NEW s \in Saves
  PROVE  Source(s) \in SUBSET Text
<1>1. base[s] \in Text /\ NewText(s) \in Text
  BY DEF TypeOK, NewText, Text
<1>2. {base[t] : t \in kept \cap {s}} \in SUBSET Text
  BY <1>1 DEF TypeOK
<1>. QED  BY <1>1, <1>2 DEF Source, TypeOK

\* Every variable of the model keeps its type through every step of the code
\* and of its environment.
THEOREM TypeCorrect == Spec => []TypeOK
<1>1. Init => TypeOK
  BY DEF Init, TypeOK, Text, Phases, Reports, Exits, ChildStates
<1>2. TypeOK /\ [Next]_vars => TypeOK'
  <2>. SUFFICES ASSUME TypeOK, [Next]_vars PROVE TypeOK'
    OBVIOUS
  <2>. USE DEF TypeOK, backupVars, childVars, historyVars, Done
  <2>1. ASSUME NEW s \in Saves, Save(s) PROVE TypeOK'
    <3>0. NewText(s) \in Text /\ SUBSET NewText(s) \subseteq Text
      BY DEF NewText, Text
    <3>1. CASE Read(s)
      BY <3>1 DEF Read, Phases
    <3>2. CASE Refuse(s)
      BY <3>2 DEF Refuse, Phases, Reports
    <3>3. CASE Stage(s)
      <4>1. PICK t \in 1..MaxStamp :
              /\ stamp' = [stamp EXCEPT ![s] = t]
              /\ kept' = Newest(kept \cup {s}, stamp')
        BY <3>3 DEF Stage
      <4>2. t \in Nat
        BY <4>1
      <4>3. stamp' \in [Saves -> Nat]
        BY <4>1, <4>2
      <4>4. kept' \in SUBSET Saves
        BY <4>1, NewestSubset
      <4>5. pc' \in [Saves -> Phases]
        BY <3>3 DEF Stage, Phases
      <4>. QED  BY <3>3, <4>3, <4>4, <4>5 DEF Stage
    <3>4. CASE BackupFails(s)
      BY <3>4 DEF BackupFails, Phases
    <3>5. CASE WriteTemp(s)
      BY <3>0, <3>5 DEF WriteTemp, Phases
    <3>6. CASE WriteTempFails(s)
      BY <3>0, <3>6 DEF WriteTempFails, Phases, Reports
    <3>7. CASE Replace(s)
      BY <3>0, <3>7 DEF Replace, Phases
    <3>8. CASE ReplaceFails(s)
      BY <3>8 DEF ReplaceFails, Phases, Reports
    <3>9. CASE FsyncDir(s)
      BY <3>9 DEF FsyncDir, Phases, Reports
    <3>10. CASE RunPkexec(s)
      BY <3>10 DEF RunPkexec, Phases, ChildStates
    <3>11. CASE NoPkexec(s)
      BY <3>11 DEF NoPkexec, Phases, Reports
    <3>12. CASE CollectInstall(s)
      BY <3>12 DEF CollectInstall, Phases, Reports, ChildStates
    <3>13. CASE CollectRestore(s)
      BY <3>13 DEF CollectRestore, Phases, Reports
    <3>14. CASE CollectHelper(s)
      BY <3>14 DEF CollectHelper, Phases, Reports
    <3>15. CASE HelperTimeout(s)
      BY <3>15 DEF HelperTimeout, Phases, Reports, ChildStates, Exits
    <3>16. CASE Unstick(s)
      BY <3>16 DEF Unstick, Phases, Reports
    <3>17. CASE Confirm(s)
      BY <3>17 DEF Confirm, Phases, Reports
    <3>. QED
      BY <2>1, <3>1, <3>2, <3>3, <3>4, <3>5, <3>6, <3>7, <3>8, <3>9, <3>10,
         <3>11, <3>12, <3>13, <3>14, <3>15, <3>16, <3>17 DEF Save
  <2>2. ASSUME NEW s \in Saves, Child(s) PROVE TypeOK'
    <3>1. CASE Authorize(s)
      BY <3>1 DEF Authorize, ChildStates
    <3>2. CASE Dismiss(s)
      BY <3>2 DEF Dismiss, ChildStates, Exits
    <3>3. CASE ChildWrites(s)
      BY <3>3, SourceType DEF ChildWrites, ChildEnds, ChildStates, Exits
    <3>4. CASE ChildFails(s)
      BY <3>4 DEF ChildFails, ChildEnds, ChildStates, Exits
    <3>5. CASE ChildTears(s)
      <4>1. file' \in Text
        BY <3>5, SourceType DEF ChildTears, Text
      <4>. QED  BY <3>5, <4>1 DEF ChildTears, ChildEnds, ChildStates, Exits
    <3>. QED  BY <2>2, <3>1, <3>2, <3>3, <3>4, <3>5 DEF Child
  <2>3. ASSUME NEW e \in Edits, Edit(e) PROVE TypeOK'
    BY <2>3 DEF Edit, Text
  <2>4. CASE Crash
    BY <2>4 DEF Crash, Phases, ChildStates, Exits
  <2>5. CASE UNCHANGED vars
    BY <2>5 DEF vars
  <2>. QED  BY <2>1, <2>2, <2>3, <2>4, <2>5 DEF Next
<1>. QED  BY <1>1, <1>2, PTL DEF Spec

----------------------------------------------------------------------------
(* One save at a time                                                       *)

\* The page's guard (Idle) keeps two saves from overlapping, whatever fails.
LEMMA SerialStep == TypeOK /\ Serial /\ [Next]_vars => Serial'
<1>. SUFFICES ASSUME TypeOK, Serial, [Next]_vars PROVE Serial'
  OBVIOUS
<1>1. ASSUME NEW s \in Saves, Read(s) PROVE Serial'
  BY <1>1 DEF Read, Serial, Busy, Idle, TypeOK
<1>2. ASSUME NEW s \in Saves, Save(s), ~Read(s) PROVE Serial'
  <2>1. Busy(s) /\ \E p \in Phases : pc' = [pc EXCEPT ![s] = p]
    BY <1>2 DEF Save, Refuse, Stage, BackupFails, WriteTemp, WriteTempFails,
         Replace, ReplaceFails, FsyncDir, RunPkexec, NoPkexec, CollectInstall,
         CollectRestore, CollectHelper, HelperTimeout, Unstick, Confirm, Done,
         Busy, Phases, childVars
  <2>. QED  BY <2>1 DEF Serial, Busy, TypeOK
<1>3. ASSUME NEW s \in Saves, Child(s) PROVE Serial'
  BY <1>3 DEF Child, Authorize, Dismiss, ChildWrites, ChildFails, ChildTears,
       Serial, Busy
<1>4. ASSUME NEW e \in Edits, Edit(e) PROVE Serial'
  BY <1>4 DEF Edit, Serial, Busy
<1>5. CASE Crash
  BY <1>5 DEF Crash, Serial, Busy, InFlight, TypeOK
<1>6. CASE UNCHANGED vars
  BY <1>6 DEF vars, Serial, Busy
<1>. QED  BY <1>1, <1>2, <1>3, <1>4, <1>5, <1>6 DEF Next

----------------------------------------------------------------------------
(* The backup of the save in flight                                         *)

\* A backup with the latest name survives the trim that follows it.
LEMMA NewestKeepsLatest ==
  ASSUME NEW K, NEW at, NEW s \in K,
         \A t \in K : ~(at[t] > at[s])
  PROVE  s \in Newest(K, at)
<1>1. {t \in K : at[t] > at[s]} = {}
  OBVIOUS
<1>2. Cardinality({t \in K : at[t] > at[s]}) < Keep
  BY <1>1, FS_EmptySet, KeepAssumption
<1>. QED  BY <1>2 DEF Newest

\* While local time is not set back, the backup of a save outlives every trim
\* until the save is answered, for any BACKUP_KEEP of at least one.
THEOREM BackupsLive ==
  ASSUME "clock_back" \notin Faults
  PROVE  Spec => []BackupLives
<1>1. Init => Serial /\ BackupLives
  BY DEF Init, Serial, BackupLives, Busy, InFlight
<1>2. TypeOK /\ Serial /\ BackupLives /\ [Next]_vars => BackupLives'
  <2>. SUFFICES ASSUME TypeOK, Serial, BackupLives, [Next]_vars
                PROVE  BackupLives'
    OBVIOUS
  <2>1. ASSUME NEW s \in Saves, Stage(s) PROVE BackupLives'
    <3>1. PICK t \in 1..MaxStamp :
            /\ \A u \in Saves : stamp[u] < t
            /\ stamp' = [stamp EXCEPT ![s] = t]
            /\ kept' = Newest(kept \cup {s}, stamp')
      BY <2>1 DEF Stage
    <3>2. \A u \in Saves : ~(stamp'[u] > stamp'[s])
      BY <3>1 DEF TypeOK
    <3>3. s \in kept'
      BY <3>1, <3>2, NewestKeepsLatest DEF TypeOK
    <3>4. \A u \in Saves \ {s} : ~InFlight(u)
      BY <2>1 DEF Stage, Serial, Busy, InFlight, TypeOK
    <3>. QED  BY <2>1, <3>3, <3>4 DEF Stage, BackupLives, InFlight, TypeOK
  <2>2. ASSUME NEW s \in Saves, Save(s), ~Stage(s) PROVE BackupLives'
    <3>1. UNCHANGED kept
      BY <2>2 DEF Save, Read, Refuse, BackupFails, WriteTemp, WriteTempFails,
           Replace, ReplaceFails, FsyncDir, RunPkexec, NoPkexec, CollectInstall,
           CollectRestore, CollectHelper, HelperTimeout, Unstick, Confirm,
           backupVars
    <3>2. /\ \E p \in Phases : pc' = [pc EXCEPT ![s] = p]
          /\ InFlight(s)' /\ pc'[s] # "read" => InFlight(s) /\ pc[s] # "read"
      BY <2>2 DEF Save, Read, Refuse, BackupFails, WriteTemp, WriteTempFails,
           Replace, ReplaceFails, FsyncDir, RunPkexec, NoPkexec, CollectInstall,
           CollectRestore, CollectHelper, HelperTimeout, Unstick, Confirm, Done,
           Phases, InFlight, TypeOK, childVars
    <3>. QED  BY <3>1, <3>2 DEF BackupLives, InFlight, TypeOK
  <2>3. ASSUME NEW s \in Saves, Child(s) PROVE BackupLives'
    BY <2>3 DEF Child, Authorize, Dismiss, ChildWrites, ChildFails, ChildTears,
         BackupLives, InFlight, backupVars
  <2>4. ASSUME NEW e \in Edits, Edit(e) PROVE BackupLives'
    BY <2>4 DEF Edit, BackupLives, InFlight, backupVars
  <2>5. CASE Crash
    BY <2>5 DEF Crash, BackupLives, InFlight, TypeOK, backupVars
  <2>6. CASE UNCHANGED vars
    BY <2>6 DEF vars, BackupLives, InFlight
  <2>. QED  BY <2>1, <2>2, <2>3, <2>4, <2>5, <2>6 DEF Next
<1>. QED  BY <1>1, <1>2, TypeCorrect, SerialStep, PTL DEF Spec

----------------------------------------------------------------------------
(* A save is atomic, and its answer is the truth                            *)

\* The history and the processes, through every step.
LEMMA StartedStep == TypeOK /\ Started /\ [Next]_vars => Started'
<1>. SUFFICES ASSUME TypeOK, Started, [Next]_vars PROVE Started'
  OBVIOUS
<1>. USE DEF Started, TypeOK, Done, backupVars, childVars, historyVars
<1>1. ASSUME NEW s \in Saves, Save(s) PROVE Started'
  <2>1. CASE Read(s) \/ Refuse(s) \/ Stage(s) \/ BackupFails(s)
    BY <2>1 DEF Read, Refuse, Stage, BackupFails
  <2>2. CASE WriteTemp(s) \/ WriteTempFails(s) \/ Replace(s) \/ ReplaceFails(s) \/ FsyncDir(s)
    BY <2>2 DEF WriteTemp, WriteTempFails, Replace, ReplaceFails, FsyncDir
  <2>3. CASE RunPkexec(s) \/ NoPkexec(s) \/ Unstick(s) \/ Confirm(s)
    BY <2>3 DEF RunPkexec, NoPkexec, Unstick, Confirm
  <2>4. CASE CollectInstall(s)
    BY <2>4 DEF CollectInstall
  <2>5. CASE CollectRestore(s) \/ CollectHelper(s) \/ HelperTimeout(s)
    BY <2>5 DEF CollectRestore, CollectHelper, HelperTimeout
  <2>. QED  BY <1>1, <2>1, <2>2, <2>3, <2>4, <2>5 DEF Save
<1>2. ASSUME NEW s \in Saves, Child(s) PROVE Started'
  BY <1>2 DEF Child, Authorize, Dismiss, ChildWrites, ChildFails, ChildTears, ChildEnds
<1>3. ASSUME NEW e \in Edits, Edit(e) PROVE Started'
  BY <1>3 DEF Edit
<1>4. CASE Crash
  BY <1>4 DEF Crash, InFlight
<1>5. CASE UNCHANGED vars
  BY <1>5 DEF vars
<1>. QED  BY <1>1, <1>2, <1>3, <1>4, <1>5 DEF Next

\* A save that is no longer alone with the file is not alone again.
LEMMA AloneStep == TypeOK /\ Started /\ [Next]_vars /\ Alone' => Alone
<1>. SUFFICES ASSUME TypeOK, Started, [Next]_vars, Alone' PROVE Alone
  OBVIOUS
<1>1. edited \subseteq committed
  <2>1. CASE \E e \in Edits : Edit(e)
    BY <2>1 DEF Edit, Alone, TypeOK
  <2>2. CASE \E s \in Saves : Confirm(s)
    <3>1. PICK s \in Saves : committed' \subseteq committed \cup {s} /\ UNCHANGED edited
      BY <2>2 DEF Confirm
    <3>. QED  BY <3>1, SavesAssumption DEF Alone, TypeOK
  <2>3. CASE UNCHANGED <<edited, committed>>
    BY <2>3 DEF Alone
  <2>. QED
    BY <2>1, <2>2, <2>3 DEF Next, Save, Read, Refuse, Stage, BackupFails, WriteTemp,
       WriteTempFails, Replace, ReplaceFails, FsyncDir, RunPkexec, NoPkexec, CollectInstall,
       CollectRestore, CollectHelper, HelperTimeout, Unstick, Child, Authorize, Dismiss,
       ChildWrites, ChildFails, ChildTears, Crash, vars, historyVars
<1>2. ASSUME NEW t \in Saves, LeftBehind(t) \/ Misreported(t)
      PROVE  LeftBehind(t)' \/ Misreported(t)'
  <2>. USE DEF LeftBehind, Misreported, Started, TypeOK, Done, backupVars, childVars, historyVars
  <2>1. ASSUME NEW s \in Saves, Save(s) PROVE LeftBehind(t)' \/ Misreported(t)'
    <3>1. CASE Read(s) \/ Refuse(s) \/ Stage(s) \/ BackupFails(s)
      BY <1>2, <3>1 DEF Read, Refuse, Stage, BackupFails
    <3>2. CASE WriteTemp(s) \/ WriteTempFails(s) \/ Replace(s) \/ ReplaceFails(s) \/ FsyncDir(s)
      BY <1>2, <3>2 DEF WriteTemp, WriteTempFails, Replace, ReplaceFails, FsyncDir
    <3>3. CASE RunPkexec(s) \/ NoPkexec(s) \/ Unstick(s) \/ Confirm(s)
      BY <1>2, <3>3 DEF RunPkexec, NoPkexec, Unstick, Confirm
    <3>4. CASE CollectInstall(s)
      BY <1>2, <3>4 DEF CollectInstall
    <3>5. CASE CollectRestore(s) \/ CollectHelper(s) \/ HelperTimeout(s)
      BY <1>2, <3>5 DEF CollectRestore, CollectHelper, HelperTimeout
    <3>. QED  BY <2>1, <3>1, <3>2, <3>3, <3>4, <3>5 DEF Save
  <2>2. ASSUME NEW s \in Saves, Child(s) PROVE LeftBehind(t)' \/ Misreported(t)'
    BY <1>2, <2>2 DEF Child, Authorize, Dismiss, ChildWrites, ChildFails, ChildTears, ChildEnds
  <2>3. ASSUME NEW e \in Edits, Edit(e) PROVE LeftBehind(t)' \/ Misreported(t)'
    BY <1>2, <2>3 DEF Edit
  <2>4. CASE Crash
    BY <1>2, <2>4 DEF Crash, InFlight
  <2>5. CASE UNCHANGED vars
    BY <1>2, <2>5 DEF vars
  <2>. QED  BY <2>1, <2>2, <2>3, <2>4, <2>5 DEF Next
<1>. QED  BY <1>1, <1>2 DEF Alone

LEMMA AtomicInit == Init => AtomicInv
BY DEF Init, AtomicInv, Serial, Busy, Started, AtomicFor, ChildInv

\* A step of save s itself.
LEMMA AtomicSave ==
  ASSUME TypeOK, Serial, Started, \A t \in Saves : AtomicFor(t) /\ ChildInv(t),
         NEW s \in Saves, Save(s), Alone'
  PROVE  \A t \in Saves : (AtomicFor(t) /\ ChildInv(t))'
<1>. SUFFICES ASSUME NEW t \in Saves PROVE (AtomicFor(t) /\ ChildInv(t))'
  OBVIOUS
<1>0. /\ AtomicFor(s) /\ ChildInv(s) /\ AtomicFor(t) /\ ChildInv(t)
      /\ \A u \in Saves : Busy(s) /\ Busy(u) => u = s
  BY DEF Serial
<1>. USE DEF AtomicFor, ChildInv, Busy, TypeOK, Done, NewText,
             backupVars, childVars, historyVars
<1>1. CASE Read(s)
  BY <1>0, <1>1 DEF Read, Idle
<1>2. CASE Refuse(s)
  BY <1>0, <1>2 DEF Refuse
<1>3. CASE Stage(s)
  BY <1>0, <1>3 DEF Stage
<1>4. CASE BackupFails(s)
  BY <1>0, <1>4 DEF BackupFails
<1>5. CASE WriteTemp(s)
  BY <1>0, <1>5 DEF WriteTemp
<1>6. CASE WriteTempFails(s)
  BY <1>0, <1>6 DEF WriteTempFails
<1>7. CASE Replace(s)
  BY <1>0, <1>7 DEF Replace
<1>8. CASE ReplaceFails(s)
  BY <1>0, <1>8 DEF ReplaceFails
<1>9. CASE FsyncDir(s)
  BY <1>0, <1>9 DEF FsyncDir
<1>10. CASE RunPkexec(s)
  BY <1>0, <1>10 DEF RunPkexec
<1>11. CASE NoPkexec(s)
  BY <1>0, <1>11 DEF NoPkexec
<1>12. CASE CollectInstall(s)
  BY <1>0, <1>12 DEF CollectInstall, HoldsBackup, HoldsText
<1>13. CASE CollectRestore(s)
  BY <1>0, <1>13 DEF CollectRestore
<1>14. CASE CollectHelper(s)
  BY <1>0, <1>14 DEF CollectHelper, HoldsBackup, HoldsText
<1>15. CASE HelperTimeout(s)
  <2>1. child[s] = "asking"
    BY <1>15 DEF HelperTimeout, Alone, LeftBehind
  <2>. QED  BY <1>0, <1>15, <2>1 DEF HelperTimeout
<1>16. CASE Unstick(s)
  BY <1>0, <1>16 DEF Unstick
<1>17. CASE Confirm(s)
  BY <1>0, <1>17 DEF Confirm
<1>. QED
  BY <1>1, <1>2, <1>3, <1>4, <1>5, <1>6, <1>7, <1>8, <1>9, <1>10, <1>11,
     <1>12, <1>13, <1>14, <1>15, <1>16, <1>17 DEF Save

\* A step of the process of save s: it may leave a part of the text.
LEMMA AtomicChild ==
  ASSUME TypeOK, Serial, Started, \A t \in Saves : AtomicFor(t) /\ ChildInv(t),
         NEW s \in Saves, Child(s)
  PROVE  \A t \in Saves : (AtomicFor(t) /\ ChildInv(t))'
<1>. SUFFICES ASSUME NEW t \in Saves PROVE (AtomicFor(t) /\ ChildInv(t))'
  OBVIOUS
<1>0. /\ AtomicFor(s) /\ ChildInv(s) /\ AtomicFor(t) /\ ChildInv(t)
      /\ \A u \in Saves : Busy(s) /\ Busy(u) => u = s
  BY DEF Serial
<1>. USE DEF AtomicFor, ChildInv, Busy, TypeOK, NewText,
             backupVars, childVars, historyVars, ChildEnds
<1>1. CASE Authorize(s)
  BY <1>0, <1>1 DEF Authorize
<1>2. CASE Dismiss(s)
  BY <1>0, <1>2 DEF Dismiss
<1>3. CASE ChildWrites(s)
  <2>1. CASE pc[s] = "waiting"
    <3>1. file' = NewText(s)
      BY <1>0, <1>3, <2>1 DEF ChildWrites, Source
    <3>. QED  BY <1>0, <1>3, <2>1, <3>1, SavesAssumption DEF ChildWrites
  <2>2. CASE pc[s] = "restoring"
    <3>1. file' = base[s]
      BY <1>0, <1>3, <2>2 DEF ChildWrites, Source
    <3>2. base[s] \subseteq NewText(s) /\ base[s] # NewText(s) /\ pc'[s] = "restoring"
      BY <1>0, <1>3, <2>2 DEF ChildWrites
    <3>. QED  BY <1>0, <1>3, <2>2, <3>1, <3>2 DEF ChildWrites
  <2>. QED  BY <1>0, <1>3, <2>1, <2>2 DEF ChildWrites
<1>4. CASE ChildFails(s)
  BY <1>0, <1>4 DEF ChildFails
<1>5. CASE ChildTears(s)
  <2>1. CASE pc[s] = "waiting"
    <3>1. file' \subseteq NewText(s) /\ file' # NewText(s)
      <4>1. s \notin undoing /\ Source(s) = {NewText(s)}
        BY <1>0, <2>1 DEF Source
      <4>2. PICK src \in Source(s) : file' \subseteq src /\ file' # src
        BY <1>5 DEF ChildTears
      <4>. QED  BY <4>1, <4>2
    <3>. QED  BY <1>0, <1>5, <2>1, <3>1 DEF ChildTears
  <2>2. CASE pc[s] = "restoring"
    <3>1. file' \subseteq base[s] /\ s \notin base[s]
      BY <1>0, <1>5, <2>2 DEF ChildTears, Source
    <3>2. file' \subseteq NewText(s) /\ file' # NewText(s) /\ pc'[s] = "restoring"
      BY <1>5, <2>2, <3>1 DEF ChildTears
    <3>. QED  BY <1>0, <1>5, <2>2, <3>2 DEF ChildTears
  <2>. QED  BY <1>0, <1>5, <2>1, <2>2 DEF ChildTears
<1>. QED  BY <1>1, <1>2, <1>3, <1>4, <1>5 DEF Child

LEMMA AtomicStep == TypeOK /\ AtomicInv /\ [Next]_vars => AtomicInv'
<1>. SUFFICES ASSUME TypeOK, AtomicInv, [Next]_vars PROVE AtomicInv'
  OBVIOUS
<1>1. Serial' /\ Started'
  BY SerialStep, StartedStep DEF AtomicInv
<1>. SUFFICES ASSUME Alone' PROVE \A t \in Saves : (AtomicFor(t) /\ ChildInv(t))'
  BY <1>1 DEF AtomicInv
<1>2. Serial /\ Started /\ \A t \in Saves : AtomicFor(t) /\ ChildInv(t)
  BY AloneStep DEF AtomicInv
<1>3. ASSUME NEW e \in Edits, Edit(e) PROVE \A t \in Saves : (AtomicFor(t) /\ ChildInv(t))'
  <2>1. \A t \in Saves : ~InFlight(t)
    BY <1>2, <1>3, SavesAssumption DEF Edit, Alone, Started
  <2>. QED
    BY <1>2, <1>3, <2>1, SavesAssumption DEF Edit, InFlight, Busy, AtomicFor, ChildInv, NewText,
       childVars, TypeOK
<1>4. CASE Crash
  <2>1. \A t \in Saves : pc'[t] = "dead" => child[t] = "none"
    BY <1>4 DEF Crash, Alone, LeftBehind, TypeOK
  <2>. QED
    BY <1>2, <1>4, <2>1 DEF Crash, InFlight, Busy, Started, AtomicFor, ChildInv, NewText,
       historyVars, TypeOK
<1>5. CASE UNCHANGED vars
  BY <1>2, <1>5 DEF vars, AtomicFor, ChildInv, Busy, NewText
<1>. QED  BY <1>2, <1>3, <1>4, <1>5, AtomicSave, AtomicChild DEF Next
----------------------------------------------------------------------------
(* ConfigSave implements SavePromise                                        *)

\* What SavePromise calls answer.
Answers == [s \in Saves |-> Answer(s)]

\* A step inside a pending save does not show.
LEMMA AnswerStays ==
  ASSUME TypeOK, NEW s \in Saves, NEW p,
         pc[s] \notin {"new", "raised", "dead", "done"}, p \notin {"new", "raised", "dead", "done"},
         pc' = [pc EXCEPT ![s] = p], UNCHANGED report
  PROVE  UNCHANGED Answers
BY DEF Answers, Answer, TypeOK

\* A call of done shows as the answer it gives.
LEMMA AnswerSettles ==
  ASSUME TypeOK, NEW s \in Saves, NEW what, Done(s, what)
  PROVE  Answers' = [Answers EXCEPT ![s] = IF what = "saved" THEN "saved"
                                           ELSE IF what = "byhand" THEN "look" ELSE "failed"]
BY DEF Answers, Answer, TypeOK, Done

\* What SavePromise calls settings, by where the save under way is.
LEMMA SettingsAre ==
  /\ (\A s \in Saves : ~Torn(s)) => Settings = file
  /\ Serial => \A s \in Saves : Torn(s) => Settings = base[s]
BY DEF Settings, Serial, Torn, Busy

LEMMA SettingsWillBe ==
  /\ (\A s \in Saves : ~Torn(s)') => Settings' = file'
  /\ Serial' => \A s \in Saves : Torn(s)' => Settings' = base'[s]
BY DEF Settings, Serial, Torn, Busy

\* With save s under way nothing but s tears the file.
LEMMA SettingsOf ==
  ASSUME NEW s \in Saves, Serial, Busy(s)
  PROVE  Settings = IF Torn(s) THEN base[s] ELSE file
BY SettingsAre DEF Serial, Torn, Busy

LEMMA SettingsOfNext ==
  ASSUME NEW s \in Saves, Serial', \A t \in Saves \ {s} : ~Busy(t)'
  PROVE  Settings' = IF Torn(s)' THEN base'[s] ELSE file'
BY SettingsWillBe DEF Serial, Torn, Busy

LEMMA PromiseInit == Init => Promise!Init
<1>. SUFFICES ASSUME Init PROVE Promise!Init
  OBVIOUS
<1>1. Settings = {}
  BY SettingsAre DEF Init, Torn
<1>. QED  BY <1>1 DEF Init, Promise!Init, Answer, Alone, LeftBehind, Misreported

\* Every step of the save itself begins it, answers it, takes effect, loses it,
\* or does not show.
LEMMA PromiseSave ==
  ASSUME TypeOK, Serial, Serial', Started, \A t \in Saves : AtomicFor(t) /\ ChildInv(t),
         NEW s \in Saves, Save(s), Alone, Alone'
  PROVE  [Promise!Next]_(Promise!vars)
<1>. DEFINE Shows == Promise!Begin(s) \/ Promise!Commit(s) \/ Promise!Succeed(s)
                       \/ Promise!Fail(s) \/ Promise!GiveUp(s) \/ Promise!Lose(s)
            Hides == UNCHANGED <<Settings, Answers>>
<1>. SUFFICES Shows \/ Hides
  BY DEF Promise!Next, Promise!Alone, Promise!vars, Answers
<1>0. AtomicFor(s) /\ ChildInv(s)
  OBVIOUS
<1>1. CASE Read(s)
  <2>1. \A t \in Saves : Answers[t] # "pending" /\ ~Torn(t)
    BY <1>1 DEF Read, Idle, AtomicFor, Answers, Answer, Torn
  <2>2. Answers' = [Answers EXCEPT ![s] = "pending"]
    BY <1>1 DEF Read, Answers, Answer, TypeOK
  <2>3. Answers[s] = "none"
    BY <1>1 DEF Read, Answers, Answer
  <2>4. \A t \in Saves : ~Torn(t)'
    BY <1>1 DEF Read, Idle, Torn, TypeOK
  <2>5. Settings' = Settings
    BY <1>1, <2>1, <2>4, SettingsAre, SettingsWillBe DEF Read
  <2>6. Promise!Begin(s)
    BY <1>1, <2>1, <2>2, <2>3, <2>5 DEF Promise!Begin, Read, Answers
  <2>. QED  BY <2>6
<1>2. ASSUME ~Read(s) PROVE Shows \/ Hides
  <2>1. Busy(s) /\ \E p \in Phases : pc' = [pc EXCEPT ![s] = p]
    BY <1>2 DEF Save, Refuse, Stage, BackupFails, WriteTemp, WriteTempFails,
         Replace, ReplaceFails, FsyncDir, RunPkexec, NoPkexec, CollectInstall,
         CollectRestore, CollectHelper, HelperTimeout, Unstick, Confirm, Done,
         Busy, Phases, childVars
  <2>2. \A t \in Saves \ {s} : ~Busy(t)'
    BY <2>1 DEF Serial, Busy, TypeOK
  <2>3. Settings = IF Torn(s) THEN base[s] ELSE file
    BY <2>1, SettingsOf
  <2>4. Settings' = IF Torn(s)' THEN base'[s] ELSE file'
    BY <2>2, SettingsOfNext
  <2>5. ASSUME NEW what, Done(s, what), what \notin {"saved", "byhand"}, s \notin Settings,
               Settings' = Settings, pc[s] \notin {"new", "raised", "dead", "done"}
        PROVE  Shows
    <3>1. Answers' = [Answers EXCEPT ![s] = "failed"] /\ Answers[s] = "pending"
      BY <2>5, AnswerSettles DEF Answers, Answer
    <3>2. Promise!Fail(s)
      BY <2>5, <3>1 DEF Promise!Fail, Promise!Answers, Answers
    <3>. QED  BY <3>2
  <2>6. ASSUME Done(s, "byhand"), Settings' \in SUBSET (Settings \cup {s}),
               pc[s] \notin {"new", "raised", "dead", "done"}
        PROVE  Shows
    <3>1. Answers' = [Answers EXCEPT ![s] = "look"] /\ Answers[s] = "pending"
      BY <2>6, AnswerSettles DEF Answers, Answer
    <3>2. Promise!GiveUp(s)
      BY <2>6, <3>1 DEF Promise!GiveUp, Promise!Answers, Answers
    <3>. QED  BY <3>2
  <2>7. ASSUME NEW p, pc[s] \notin {"new", "raised", "dead", "done"},
               p \notin {"new", "raised", "dead", "done"},
               pc' = [pc EXCEPT ![s] = p], UNCHANGED <<report, Settings>>
        PROVE  Hides
    BY <2>7, AnswerStays
  <2>8. ASSUME pc[s] \notin {"new", "raised", "dead", "done"},
               pc' = [pc EXCEPT ![s] = "raised"], UNCHANGED <<report, Settings>>
        PROVE  Shows
    <3>1. Answers' = [Answers EXCEPT ![s] = "lost"] /\ Answers[s] = "pending"
      BY <2>8 DEF Answers, Answer, TypeOK
    <3>2. Promise!Lose(s)
      BY <2>8, <3>1 DEF Promise!Lose, Promise!Answers, Answers
    <3>. QED  BY <3>2
  <2>a. ASSUME pc[s] \in {"read", "staged", "temp"}, UNCHANGED <<file, base>>,
               pc'[s] \notin {"waiting", "restoring"}
        PROVE  s \notin Settings /\ Settings' = Settings
    BY <1>0, <2>1, <2>3, <2>4, <2>a DEF AtomicFor, Torn
  <2>b. ASSUME pc[s] \in {"waiting", "restoring"}, file = base[s], UNCHANGED <<file, base>>
        PROVE  s \notin Settings /\ Settings' = Settings
    BY <1>0, <2>1, <2>3, <2>4, <2>b DEF AtomicFor, Torn
  <2>c. ASSUME pc[s] \notin {"waiting", "restoring"}, UNCHANGED <<file, base>>,
               pc'[s] \notin {"waiting", "restoring"} \/ file \in {base[s], NewText(s)}
        PROVE  Settings' = Settings
    BY <2>3, <2>4, <2>c DEF Torn, NewText
  <2>9. CASE Refuse(s)
    <3>1. s \notin Settings /\ Settings' = Settings
      BY <2>a, <2>9 DEF Refuse, Done, TypeOK
    <3>. QED  BY <2>5, <2>9, <3>1 DEF Refuse
  <2>10. CASE Stage(s)
    <3>1. Settings' = Settings
      BY <2>a, <2>10 DEF Stage, TypeOK
    <3>. QED  BY <2>7, <2>10, <3>1 DEF Stage
  <2>11. CASE BackupFails(s)
    <3>1. Settings' = Settings
      BY <2>a, <2>11 DEF BackupFails, TypeOK
    <3>. QED  BY <2>8, <2>11, <3>1 DEF BackupFails
  <2>12. CASE WriteTemp(s)
    <3>1. Settings' = Settings
      BY <2>a, <2>12 DEF WriteTemp, TypeOK
    <3>. QED  BY <2>7, <2>12, <3>1 DEF WriteTemp
  <2>13. CASE WriteTempFails(s)
    <3>1. s \notin Settings /\ Settings' = Settings
      BY <2>a, <2>13 DEF WriteTempFails, Done, TypeOK
    <3>2. CASE route = "own"
      BY <2>5, <2>13, <3>1, <3>2 DEF WriteTempFails
    <3>3. CASE route # "own"
      BY <2>8, <2>13, <3>1, <3>3 DEF WriteTempFails
    <3>. QED  BY <3>2, <3>3
  <2>14. CASE Replace(s)
    <3>1. UNCHANGED Answers
      BY <2>14, AnswerStays DEF Replace
    <3>2. file = base[s] /\ file' = NewText(s) /\ pc[s] = "temp" /\ pc'[s] = "replaced"
      BY <1>0, <2>14 DEF Replace, AtomicFor, TypeOK
    <3>3. Settings' = Settings \cup {s}
      BY <2>3, <2>4, <3>2 DEF Torn, NewText
    <3>4. Answers[s] = "pending"
      BY <2>14 DEF Replace, Answers, Answer
    <3>5. Promise!Commit(s)
      BY <3>1, <3>3, <3>4 DEF Promise!Commit, Answers
    <3>. QED  BY <3>5
  <2>15. CASE ReplaceFails(s)
    <3>1. s \notin Settings /\ Settings' = Settings
      BY <2>a, <2>15 DEF ReplaceFails, Done, TypeOK
    <3>. QED  BY <2>5, <2>15, <3>1 DEF ReplaceFails
  <2>16. CASE FsyncDir(s)
    <3>1. pc' = [pc EXCEPT ![s] = "confirm"] /\ UNCHANGED report
      BY <1>0, <2>16 DEF FsyncDir, Alone, Misreported, AtomicFor, Done, TypeOK, historyVars
    <3>2. Settings' = Settings
      BY <2>c, <2>16, <3>1 DEF FsyncDir, TypeOK
    <3>. QED  BY <2>7, <2>16, <3>1, <3>2 DEF FsyncDir
  <2>17. CASE RunPkexec(s)
    <3>1. Settings' = Settings
      BY <1>0, <2>c, <2>17 DEF RunPkexec, AtomicFor
    <3>. QED  BY <2>7, <2>17, <3>1 DEF RunPkexec
  <2>18. CASE NoPkexec(s)
    <3>1. s \notin Settings /\ Settings' = Settings
      BY <2>a, <2>18 DEF NoPkexec, Done, TypeOK
    <3>. QED  BY <2>5, <2>18, <3>1 DEF NoPkexec
  <2>19. CASE CollectInstall(s)
    <3>1. CASE Done(s, "cancelled") /\ HoldsBackup(s)
      <4>1. s \notin Settings /\ Settings' = Settings
        BY <2>b, <2>19, <3>1 DEF CollectInstall, HoldsBackup
      <4>. QED  BY <2>5, <2>19, <3>1, <4>1 DEF CollectInstall
    <3>2. CASE pc' = [pc EXCEPT ![s] = "confirm"] /\ UNCHANGED report /\ HoldsText(s)
      <4>1. Settings = file /\ Settings' = file
        BY <2>3, <2>4, <2>19, <3>2 DEF CollectInstall, HoldsText, Torn, TypeOK
      <4>. QED  BY <2>7, <2>19, <3>2, <4>1 DEF CollectInstall
    <3>3. CASE pc' = [pc EXCEPT ![s] = "restoring"] /\ UNCHANGED report
      <4>1. UNCHANGED <<file, base>> /\ pc[s] = "waiting" /\ pc'[s] = "restoring"
        BY <2>19, <3>3 DEF CollectInstall, TypeOK
      <4>2. UNCHANGED Settings
        BY <2>3, <2>4, <4>1 DEF Torn, NewText
      <4>. QED  BY <2>7, <3>3, <4>1, <4>2
    <3>. QED  BY <2>19, <3>1, <3>2, <3>3 DEF CollectInstall
  <2>20. CASE CollectRestore(s)
    <3>1. CASE HoldsBackup(s)
      <4>1. s \notin Settings /\ Settings' = Settings
        BY <2>b, <2>20, <3>1 DEF CollectRestore, HoldsBackup
      <4>. QED  BY <2>5, <2>20, <3>1, <4>1 DEF CollectRestore
    <3>2. CASE ~HoldsBackup(s)
      <4>1. Settings = base[s] /\ Settings' = file /\ file \subseteq base[s] \cup {s}
        BY <1>0, <2>3, <2>4, <2>20 DEF CollectRestore, ChildInv, Torn, NewText, Done, TypeOK
      <4>. QED  BY <2>6, <2>20, <3>2, <4>1 DEF CollectRestore
    <3>. QED  BY <3>1, <3>2
  <2>21. CASE CollectHelper(s)
    <3>1. CASE HoldsText(s)
      <4>1. Settings = file /\ Settings' = file /\ pc[s] = "waiting"
              /\ pc' = [pc EXCEPT ![s] = "confirm"] /\ UNCHANGED report
        BY <2>3, <2>4, <2>21, <3>1 DEF CollectHelper, HoldsText, Torn, TypeOK
      <4>. QED  BY <2>7, <4>1
    <3>2. CASE ~HoldsText(s) /\ HoldsBackup(s)
      <4>1. s \notin Settings /\ Settings' = Settings
        BY <2>b, <2>21, <3>2 DEF CollectHelper, HoldsBackup
      <4>. QED  BY <2>5, <2>21, <3>2, <4>1 DEF CollectHelper
    <3>3. CASE ~HoldsText(s) /\ ~HoldsBackup(s)
      <4>1. Settings = base[s] /\ Settings' = file /\ file \subseteq base[s] \cup {s}
        BY <1>0, <2>3, <2>4, <2>21, <3>3
           DEF CollectHelper, HoldsText, ChildInv, Torn, NewText, Done, TypeOK
      <4>. QED  BY <2>6, <2>21, <3>3, <4>1 DEF CollectHelper
    <3>. QED  BY <3>1, <3>2, <3>3
  <2>22. CASE HelperTimeout(s)
    <3>1. child[s] = "asking" /\ Done(s, "noanswer") /\ pc[s] = "waiting"
            /\ UNCHANGED <<file, base>>
      BY <2>22 DEF HelperTimeout, Alone, LeftBehind, TypeOK, childVars
    <3>2. s \notin Settings /\ Settings' = Settings
      BY <1>0, <2>b, <3>1 DEF ChildInv
    <3>. QED  BY <2>5, <3>1, <3>2
  <2>23. CASE Unstick(s)
    BY <1>0, <2>23 DEF Unstick, AtomicFor
  <2>24. CASE Confirm(s)
    <3>1. s \in Settings /\ Done(s, "saved") /\ UNCHANGED Settings
      BY <1>0, <2>3, <2>4, <2>24 DEF Confirm, AtomicFor, NewText, Torn, Done, TypeOK
    <3>2. Answers' = [Answers EXCEPT ![s] = "saved"] /\ Answers[s] = "pending"
      BY <2>24, <3>1, AnswerSettles DEF Confirm, Answers, Answer
    <3>3. Promise!Succeed(s)
      BY <3>1, <3>2 DEF Promise!Succeed, Promise!Answers, Answers
    <3>. QED  BY <3>3
  <2>. QED
    BY <1>2, <2>9, <2>10, <2>11, <2>12, <2>13, <2>14, <2>15, <2>16, <2>17, <2>18, <2>19, <2>20,
       <2>21, <2>22, <2>23, <2>24 DEF Save
<1>. QED  BY <1>1, <1>2

\* pkexec's process takes the save into effect, or does not show: a part of the
\* text is not yet what the settings are.
LEMMA PromiseChild ==
  ASSUME TypeOK, Serial, Serial', Started, \A t \in Saves : AtomicFor(t) /\ ChildInv(t),
         NEW s \in Saves, Child(s), Alone, Alone'
  PROVE  [Promise!Next]_(Promise!vars)
<1>0. AtomicFor(s) /\ ChildInv(s)
  OBVIOUS
<1>1. UNCHANGED Answers
  BY DEF Child, Authorize, Dismiss, ChildWrites, ChildFails, ChildTears, Answers, Answer
<1>2. pc[s] \in {"waiting", "restoring"} /\ UNCHANGED <<pc, base>>
  BY <1>0 DEF ChildInv, Child, Authorize, Dismiss, ChildWrites, ChildFails, ChildTears
<1>3. \A t \in Saves \ {s} : ~Busy(t)'
  BY <1>2 DEF Serial, Busy
<1>4. Settings = IF Torn(s) THEN base[s] ELSE file
  BY <1>2, SettingsOf DEF Busy
<1>5. Settings' = IF Torn(s)' THEN base'[s] ELSE file'
  BY <1>3, SettingsOfNext
<1>6. CASE ChildWrites(s) /\ pc[s] = "waiting"
  <2>1. file' = NewText(s) /\ file = base[s]
    BY <1>0, <1>6 DEF AtomicFor, ChildInv, ChildWrites, Source
  <2>2. Settings' = Settings \cup {s}
    BY <1>2, <1>4, <1>5, <2>1 DEF Torn, NewText
  <2>3. Answers[s] = "pending"
    BY <1>6 DEF Answers, Answer
  <2>4. Promise!Commit(s)
    BY <1>1, <2>2, <2>3 DEF Promise!Commit, Answers
  <2>. QED  BY <2>4 DEF Promise!Next, Promise!Alone
<1>7. CASE ~(ChildWrites(s) /\ pc[s] = "waiting")
  <2>. SUFFICES UNCHANGED Settings
    BY <1>1 DEF Promise!vars, Answers, Promise!Next, Alone
  <2>0. UNCHANGED file => UNCHANGED Settings
    BY <1>2, <1>4, <1>5 DEF Torn, NewText
  <2>1. CASE Authorize(s) \/ Dismiss(s) \/ ChildFails(s)
    BY <2>0, <2>1 DEF Authorize, Dismiss, ChildFails
  <2>2. CASE ChildTears(s)
    <3>1. Settings = base[s]
      BY <1>0, <1>4, <2>2 DEF ChildTears, ChildInv, Torn
    <3>2. file' # NewText(s)
      <4>1. ChildInv(s)'
        BY AtomicChild
      <4>2. child'[s] = "exited" /\ exit'[s] = "fail"
        BY <2>2 DEF ChildTears, ChildEnds, TypeOK
      <4>. QED  BY <1>2, <4>1, <4>2 DEF ChildInv, NewText
    <3>3. Settings' = base[s]
      BY <1>2, <1>5, <3>2 DEF Torn, NewText
    <3>. QED  BY <3>1, <3>3
  <2>3. CASE ChildWrites(s) /\ pc[s] = "restoring"
    <3>1. file' = base[s]
      BY <1>0, <2>3 DEF ChildWrites, Source, ChildInv
    <3>2. Settings = base[s]
      BY <1>0, <1>2, <1>4, <2>3 DEF ChildInv, Torn
    <3>3. Settings' = base[s]
      BY <1>2, <1>5, <3>1
    <3>. QED  BY <3>2, <3>3
  <2>. QED  BY <1>2, <1>7, <2>1, <2>2, <2>3 DEF Child
<1>. QED  BY <1>6, <1>7

\* By any of the three routes a save is atomic and its answer is the truth about
\* it, though it dies before pkexec is started, a writer leaves a part of the
\* text, the put-back fails or the backup was trimmed; until somebody edits the
\* file beside a save, a process of root is left behind, or the fsync of the
\* directory fails after the replace (system_status.set_config_value).
THEOREM SaveIsAtomic == Spec => ImplementsPromise
<1>1. TypeOK /\ AtomicInv /\ AtomicInv' /\ [Next]_vars => [Promise!Next]_(Promise!vars)
  <2>. SUFFICES ASSUME TypeOK, AtomicInv, AtomicInv', [Next]_vars, Alone'
                PROVE  [Promise!Next]_(Promise!vars)
    BY DEF Promise!Next
  <2>0. /\ Serial /\ Serial' /\ Started /\ Alone
        /\ \A t \in Saves : AtomicFor(t) /\ ChildInv(t)
    BY AloneStep DEF AtomicInv
  <2>1. ASSUME NEW e \in Edits, Edit(e) PROVE [Promise!Next]_(Promise!vars)
    <3>1. \A t \in Saves : ~InFlight(t)
      BY <2>0, <2>1, SavesAssumption DEF Edit, Alone, Started
    <3>2. \A t \in Saves : Answers[t] # "pending" /\ ~Torn(t) /\ ~Torn(t)'
      BY <2>1, <3>1 DEF Edit, InFlight, Answers, Answer, Torn
    <3>3. Settings' = Settings \cup {e}
      BY <2>1, <3>2, SettingsAre, SettingsWillBe DEF Edit
    <3>4. UNCHANGED Answers
      BY <2>1 DEF Edit, Answers, Answer
    <3>5. Promise!Edit(e)
      BY <3>2, <3>3, <3>4 DEF Promise!Edit, Answers
    <3>. QED  BY <2>0, <3>5 DEF Promise!Next, Promise!Alone
  <2>2. CASE Crash
    <3>1. \A t \in Saves : pc'[t] = "dead" => child[t] = "none"
      BY <2>2 DEF Crash, Alone, LeftBehind, TypeOK
    <3>2. \A t \in Saves : ~Torn(t) /\ ~Torn(t)'
      BY <2>0, <2>2, <3>1 DEF Crash, Started, Torn, InFlight, TypeOK
    <3>3. UNCHANGED Settings
      BY <2>2, <3>2, SettingsAre, SettingsWillBe DEF Crash
    <3>4. CASE \E s \in Saves : InFlight(s)
      <4>1. PICK s \in Saves : InFlight(s)
        BY <3>4
      <4>2. \A t \in Saves \ {s} : pc[t] \in {"new", "done", "dead"}
        BY <2>0, <4>1 DEF Serial, Busy, InFlight
      <4>3. Answers[s] = "pending" /\ Answers' = [Answers EXCEPT ![s] = "lost"]
        <5>1. UNCHANGED report /\ pc'[s] = "dead" /\ \A t \in Saves \ {s} : pc'[t] = pc[t]
          BY <2>2, <4>1, <4>2 DEF Crash, InFlight, TypeOK
        <5>2. Answer(s) = "pending" /\ Answer(s)' = "lost"
          BY <4>1, <5>1 DEF Answer, InFlight
        <5>3. \A t \in Saves \ {s} : Answer(t)' = Answer(t)
          BY <5>1 DEF Answer
        <5>. QED  BY <5>2, <5>3 DEF Answers
      <4>4. Promise!Lose(s)
        BY <3>3, <4>3 DEF Promise!Lose, Promise!Answers, Answers
      <4>. QED  BY <2>0, <4>4 DEF Promise!Next, Promise!Alone
    <3>5. CASE \A s \in Saves : ~InFlight(s)
      <4>1. UNCHANGED Answers
        BY <2>2, <3>5 DEF Crash, Answers, Answer, InFlight, TypeOK
      <4>. QED  BY <2>0, <3>3, <4>1 DEF Promise!vars, Answers
    <3>. QED  BY <3>4, <3>5
  <2>3. CASE UNCHANGED vars
    BY <2>3 DEF vars, Promise!vars, Answer, Settings, Torn, NewText, Alone, LeftBehind, Misreported
  <2>. QED  BY <2>0, <2>1, <2>2, <2>3, PromiseSave, PromiseChild DEF Next
<1>2. Spec => []AtomicInv
  BY TypeCorrect, AtomicInit, AtomicStep, PTL DEF Spec
<1>. QED
  BY <1>1, <1>2, TypeCorrect, PromiseInit, PTL DEF Spec, ImplementsPromise, Promise!Spec

----------------------------------------------------------------------------
(* The process of a save                                                    *)

\* Without a crash a process runs only under a save that waits for it, only the
\* one that installs the backup is an undoing, and only a helper is timed out.
ProcessInv ==
  \A s \in Saves :
    /\ pc[s] \notin {"waiting", "stuck", "restoring"} => child[s] \in {"none", "exited"}
    /\ pc[s] = "restoring" => s \in undoing
    /\ s \in undoing => pc[s] \in {"restoring", "done"}
    /\ pc[s] = "stuck" => route = "helper"

\* One step of the save itself, as far as its process can tell.
LEMMA ProcessSave ==
  ASSUME TypeOK, ProcessInv, NEW s \in Saves, Save(s)
  PROVE  ProcessInv'
<1>. USE DEF ProcessInv, TypeOK, Done, backupVars, childVars
<1>1. CASE Read(s) \/ Refuse(s) \/ Stage(s) \/ BackupFails(s)
  BY <1>1 DEF Read, Refuse, Stage, BackupFails
<1>2. CASE WriteTemp(s) \/ WriteTempFails(s) \/ Replace(s) \/ ReplaceFails(s) \/ FsyncDir(s)
  BY <1>2 DEF WriteTemp, WriteTempFails, Replace, ReplaceFails, FsyncDir
<1>3. CASE RunPkexec(s) \/ NoPkexec(s) \/ Unstick(s) \/ Confirm(s)
  BY <1>3 DEF RunPkexec, NoPkexec, Unstick, Confirm
<1>4. CASE CollectInstall(s)
  BY <1>4 DEF CollectInstall
<1>5. CASE CollectRestore(s) \/ CollectHelper(s) \/ HelperTimeout(s)
  BY <1>5 DEF CollectRestore, CollectHelper, HelperTimeout
<1>. QED
  BY <1>1, <1>2, <1>3, <1>4, <1>5 DEF Save

LEMMA ProcessStep ==
  ASSUME "crash" \notin Faults
  PROVE  TypeOK /\ ProcessInv /\ [Next]_vars => ProcessInv'
<1>. SUFFICES ASSUME TypeOK, ProcessInv, [Next]_vars PROVE ProcessInv'
  OBVIOUS
<1>1. ASSUME NEW s \in Saves, Child(s) PROVE ProcessInv'
  BY <1>1 DEF Child, Authorize, Dismiss, ChildWrites, ChildFails, ChildTears, ChildEnds,
       ProcessInv, TypeOK
<1>2. ASSUME NEW e \in Edits, Edit(e) PROVE ProcessInv'
  BY <1>2 DEF Edit, ProcessInv, childVars
<1>3. CASE Crash
  BY <1>3 DEF Crash
<1>4. CASE UNCHANGED vars
  BY <1>4 DEF vars, ProcessInv
<1>. QED
  BY <1>1, <1>2, <1>3, <1>4, ProcessSave DEF Next

----------------------------------------------------------------------------
(* What was saved stays                                                     *)

\* Nobody was told to look at the file by hand.
NoByHand == \A s \in Saves : report[s] # "byhand"

\* What must stay is in the text a save has read, and in the file until a
\* process has run; what the process leaves is looked at before the answer.
HeldFor(s) ==
  /\ InFlight(s) => committed \subseteq base[s]
  /\ pc[s] = "waiting" /\ child[s] \in {"asking", "running"} => committed \subseteq file
  /\ pc[s] = "stuck" => "slow" \in Faults /\ committed \subseteq file

KeptInv ==
  /\ \A s \in Saves : report[s] = "byhand" => pc[s] = "done"
  /\ NoByHand =>
       /\ (\A s \in Saves : pc[s] \notin {"waiting", "restoring"}) => committed \subseteq file
       /\ \A s \in Saves : HeldFor(s)

\* An answered save keeps its answer.
LEMMA ByHandStays ==
  ASSUME TypeOK, NEW s \in Saves, Save(s), KeptInv
  PROVE  /\ NoByHand' => NoByHand
         /\ \A t \in Saves : report'[t] = "byhand" => pc'[t] = "done"
<1>1. pc[s] # "done"
  BY DEF Save, Read, Stage, BackupFails, WriteTemp, WriteTempFails, Replace,
       RunPkexec, Refuse, ReplaceFails, FsyncDir, NoPkexec, CollectInstall,
       CollectRestore, CollectHelper, HelperTimeout, Unstick, Confirm
<1>2. \/ UNCHANGED report /\ \E p \in Phases : pc' = [pc EXCEPT ![s] = p]
      \/ \E what \in Reports : Done(s, what)
  BY DEF Save, Read, Stage, BackupFails, WriteTemp, WriteTempFails, Replace,
       RunPkexec, Refuse, ReplaceFails, FsyncDir, NoPkexec, CollectInstall,
       CollectRestore, CollectHelper, HelperTimeout, Unstick, Confirm, Phases, Reports, Done,
       childVars
<1>. QED  BY <1>1, <1>2 DEF KeptInv, NoByHand, TypeOK, Done

LEMMA KeptSave ==
  ASSUME TypeOK, ProcessInv, Serial, KeptInv, NEW s \in Saves, Save(s),
         ~({"slow", "torn"} \subseteq Faults)
  PROVE  KeptInv'
<1>0. /\ NoByHand' => NoByHand
      /\ \A t \in Saves : report'[t] = "byhand" => pc'[t] = "done"
  BY ByHandStays
<1>. SUFFICES ASSUME NoByHand, NoByHand'
              PROVE  /\ (\A t \in Saves : pc'[t] \notin {"waiting", "restoring"})
                            => committed' \subseteq file'
                     /\ \A t \in Saves : HeldFor(t)'
  BY <1>0 DEF KeptInv
<1>1. /\ (\A t \in Saves : pc[t] \notin {"waiting", "restoring"}) => committed \subseteq file
      /\ \A t \in Saves : HeldFor(t)
      /\ \A t \in Saves : t # s => pc[t] \in {"new", "done", "dead"} \/ ~Busy(s)
  BY DEF KeptInv, Serial, Busy
<1>. USE DEF HeldFor, InFlight, Busy, TypeOK, Done, NewText, backupVars, childVars, historyVars
<1>2. CASE Read(s)
  BY <1>1, <1>2 DEF Read, Idle
<1>3. CASE Refuse(s) \/ Stage(s) \/ BackupFails(s)
  BY <1>1, <1>3 DEF Refuse, Stage, BackupFails
<1>4. CASE WriteTemp(s) \/ WriteTempFails(s) \/ ReplaceFails(s) \/ FsyncDir(s)
  BY <1>1, <1>4 DEF WriteTemp, WriteTempFails, ReplaceFails, FsyncDir
<1>5. CASE Replace(s)
  BY <1>1, <1>5 DEF Replace
<1>6. CASE RunPkexec(s) \/ NoPkexec(s)
  BY <1>1, <1>6 DEF RunPkexec, NoPkexec
<1>7. CASE CollectInstall(s)
  BY <1>1, <1>7 DEF CollectInstall, HoldsBackup, HoldsText
<1>8. CASE CollectRestore(s)
  <2>1. HoldsBackup(s)
    BY <1>8 DEF CollectRestore, NoByHand
  <2>. QED  BY <1>1, <1>8, <2>1 DEF CollectRestore, HoldsBackup
<1>9. CASE CollectHelper(s)
  <2>1. HoldsText(s) \/ HoldsBackup(s)
    BY <1>9 DEF CollectHelper, NoByHand
  <2>. QED  BY <1>1, <1>9, <2>1 DEF CollectHelper, HoldsBackup, HoldsText
<1>10. CASE HelperTimeout(s)
  BY <1>1, <1>10 DEF HelperTimeout
<1>11. CASE Unstick(s)
  BY <1>1, <1>11 DEF Unstick
<1>12. CASE Confirm(s)
  BY <1>1, <1>12 DEF Confirm
<1>. QED
  BY <1>2, <1>3, <1>4, <1>5, <1>6, <1>7, <1>8, <1>9, <1>10, <1>11, <1>12 DEF Save

\* A process writes under a save that waits; under one that gave up waiting it
\* writes the whole text or nothing.
LEMMA KeptChild ==
  ASSUME TypeOK, ProcessInv, Serial, KeptInv, NEW s \in Saves, Child(s),
         ~({"slow", "torn"} \subseteq Faults)
  PROVE  KeptInv'
<1>1. /\ UNCHANGED <<pc, base, report, committed>>
      /\ \A t \in Saves : t # s => child'[t] = child[t]
      /\ child[s] \in {"asking", "running"}
  BY DEF Child, Authorize, Dismiss, ChildWrites, ChildFails, ChildTears, ChildEnds,
       historyVars, TypeOK
<1>2. pc[s] \in {"waiting", "stuck", "restoring"}
  BY <1>1 DEF ProcessInv
<1>3. \A t \in Saves : t # s => ~InFlight(t)
  BY <1>2 DEF Serial, Busy, InFlight
<1>4. CASE Authorize(s) \/ Dismiss(s) \/ ChildFails(s)
  BY <1>1, <1>3, <1>4 DEF KeptInv, NoByHand, HeldFor, InFlight, Authorize, Dismiss, ChildFails,
       ChildEnds, historyVars, TypeOK
<1>5. CASE ChildWrites(s) \/ ChildTears(s)
  <2>1. child'[s] = "exited"
    BY <1>5 DEF ChildWrites, ChildTears, ChildEnds, TypeOK
  <2>2. CASE pc[s] = "stuck"
    <3>1. s \notin undoing /\ route = "helper"
      BY <2>2 DEF ProcessInv
    <3>2. ASSUME NoByHand PROVE file' = NewText(s)
      <4>1. "torn" \notin Faults
        BY <2>2, <3>2 DEF KeptInv, HeldFor
      <4>. QED  BY <1>5, <3>1, <4>1 DEF ChildWrites, ChildTears, Source
    <3>. QED  BY <1>1, <1>3, <2>1, <2>2, <3>2 DEF KeptInv, NoByHand, HeldFor, InFlight, NewText
  <2>3. CASE pc[s] \in {"waiting", "restoring"}
    BY <1>1, <1>3, <2>1, <2>3 DEF KeptInv, NoByHand, HeldFor, InFlight
  <2>. QED  BY <1>2, <2>2, <2>3
<1>. QED
  BY <1>4, <1>5 DEF Child

\* What was saved, and what the editor wrote between two saves, is in the file
\* whenever nothing waits for a process, or a save has told the user to look at
\* the file by hand; unless the application dies, or a helper that outlived its
\* timeout tears the file (config_io.py, the read-backs of the three writers).
THEOREM WhatIsSavedStays ==
  ASSUME "crash" \notin Faults, ~({"slow", "torn"} \subseteq Faults)
  PROVE  Spec => []CommittedKept
<1>1. Init => Serial /\ ProcessInv /\ KeptInv
  BY DEF Init, Serial, Busy, ProcessInv, KeptInv, NoByHand, HeldFor, InFlight
<1>2. TypeOK /\ Serial /\ ProcessInv /\ KeptInv /\ [Next]_vars => KeptInv'
  <2>. SUFFICES ASSUME TypeOK, Serial, ProcessInv, KeptInv, [Next]_vars PROVE KeptInv'
    OBVIOUS
  <2>1. ASSUME NEW e \in Edits, Edit(e) PROVE KeptInv'
    BY <2>1 DEF Edit, KeptInv, NoByHand, HeldFor, InFlight, childVars
  <2>2. CASE Crash
    BY <2>2 DEF Crash
  <2>3. CASE UNCHANGED vars
    BY <2>3 DEF vars, KeptInv, NoByHand, HeldFor, InFlight
  <2>. QED
    BY <2>1, <2>2, <2>3, KeptSave, KeptChild DEF Next
<1>3. KeptInv => CommittedKept
  BY DEF KeptInv, CommittedKept, NoByHand
<1>. QED
  BY <1>1, <1>2, <1>3, TypeCorrect, SerialStep, ProcessStep, PTL DEF Spec

----------------------------------------------------------------------------
(* A failure that says nothing changed                                      *)

\* Nothing holds the setting of a save that has not begun.
FreshFor(s) ==
  pc[s] = "new" => /\ s \notin file
                   /\ \A t \in Saves : s \notin base[t]
                   /\ \A x \in temp : s \notin x

\* A text that was put in the file is still there when the save looks.
SeenFor(s) ==
  /\ pc[s] # "new" => s \notin base[s]
  /\ pc[s] \in {"new", "read", "staged", "temp", "raised"} => s \notin wrote
  /\ pc[s] = "waiting" /\ child[s] \in {"asking", "running"} => s \notin wrote
  /\ pc[s] = "waiting" /\ s \in wrote => s \in file
  /\ pc[s] \in {"temp", "waiting"} /\ route = "install" => temp = {NewText(s)}
  /\ pc[s] # "done" => report[s] = "none"

UntouchedInv ==
  /\ FailureMeansUntouched
  /\ \A s \in Saves : FreshFor(s) /\ SeenFor(s) /\ pc[s] # "stuck"

\* Only a save or its process writes the file: the setting of a save that has
\* not begun comes from nowhere.
LEMMA FreshSave ==
  ASSUME TypeOK, UntouchedInv, NEW s \in Saves, Save(s), NEW t \in Saves
  PROVE  FreshFor(t)'
<1>0. FreshFor(t) /\ (pc'[t] = "new" => pc[t] = "new" /\ t # s)
  BY DEF UntouchedInv, Save, Read, Stage, BackupFails, WriteTemp, WriteTempFails, Replace,
       RunPkexec, Refuse, ReplaceFails, FsyncDir, NoPkexec, CollectInstall,
       CollectRestore, CollectHelper, HelperTimeout, Unstick, Confirm, Done, TypeOK, childVars
<1>. SUFFICES ASSUME pc'[t] = "new"
              PROVE  t \notin file' /\ (\A u \in Saves : t \notin base'[u])
                       /\ (\A x \in temp' : t \notin x)
  BY DEF FreshFor
<1>1. /\ t # s /\ t \notin file /\ t \notin NewText(s)
      /\ \A u \in Saves : t \notin base[u]
      /\ \A x \in temp : t \notin x
  BY <1>0 DEF FreshFor, NewText
<1>2. CASE Read(s)
  BY <1>1, <1>2 DEF Read, TypeOK
<1>3. CASE WriteTemp(s) \/ Replace(s)
  BY <1>1, <1>3 DEF WriteTemp, Replace
<1>4. CASE WriteTempFails(s)
  BY <1>1, <1>4 DEF WriteTempFails
<1>5. CASE UNCHANGED <<file, base>> /\ temp' \in {temp, {}}
  BY <1>1, <1>5
<1>6. CASE Refuse(s) \/ Stage(s) \/ BackupFails(s) \/ ReplaceFails(s) \/ FsyncDir(s)
             \/ RunPkexec(s) \/ NoPkexec(s) \/ CollectInstall(s) \/ CollectRestore(s)
             \/ CollectHelper(s) \/ HelperTimeout(s) \/ Unstick(s) \/ Confirm(s)
  BY <1>5, <1>6 DEF Refuse, Stage, BackupFails, ReplaceFails, FsyncDir, RunPkexec, NoPkexec,
       CollectInstall, CollectRestore, CollectHelper, HelperTimeout, Unstick, Confirm
<1>. QED
  BY <1>2, <1>3, <1>4, <1>6 DEF Save

LEMMA FreshChild ==
  ASSUME TypeOK, UntouchedInv, NEW s \in Saves, Child(s), NEW t \in Saves,
         pc[s] # "new"
  PROVE  FreshFor(t)'
<1>0. FreshFor(t) /\ UNCHANGED <<pc, base, temp>>
  BY DEF UntouchedInv, Child, Authorize, Dismiss, ChildWrites, ChildFails, ChildTears
<1>. SUFFICES ASSUME pc[t] = "new" PROVE t \notin file'
  BY <1>0 DEF FreshFor
<1>1. \A x \in Source(s) : t \notin x
  BY <1>0 DEF Source, FreshFor, NewText
<1>2. CASE ChildWrites(s) \/ ChildTears(s)
  BY <1>1, <1>2 DEF ChildWrites, ChildTears
<1>3. CASE Authorize(s) \/ Dismiss(s) \/ ChildFails(s)
  BY <1>0, <1>3 DEF Authorize, Dismiss, ChildFails, FreshFor
<1>. QED
  BY <1>2, <1>3 DEF Child

\* What save s itself knows.
LEMMA SeenSave ==
  ASSUME TypeOK, Serial, UntouchedInv, NEW s \in Saves, Save(s),
         Faults \cap {"slow", "no_dir"} = {}
  PROVE  \A t \in Saves : /\ SeenFor(t)' /\ pc'[t] # "stuck"
                          /\ report'[t] \in {"refused", "cancelled", "unchanged", "norun",
                                             "noanswer", "oserror"} => t \notin wrote'
<1>. SUFFICES ASSUME NEW t \in Saves
              PROVE  /\ SeenFor(t)' /\ pc'[t] # "stuck"
                     /\ report'[t] \in {"refused", "cancelled", "unchanged", "norun",
                                        "noanswer", "oserror"} => t \notin wrote'
  OBVIOUS
<1>1. /\ FreshFor(s) /\ SeenFor(s) /\ pc[s] # "stuck"
      /\ SeenFor(t) /\ pc[t] # "stuck"
      /\ report[t] \in {"refused", "cancelled", "unchanged", "norun",
                        "noanswer", "oserror"} => t \notin wrote
      /\ t # s /\ pc[s] # "new" => pc[t] \notin {"temp", "waiting"}
  BY DEF UntouchedInv, FailureMeansUntouched, Serial, Busy, Save, Read, Refuse, Stage,
       BackupFails, WriteTemp, WriteTempFails, Replace, ReplaceFails, FsyncDir, RunPkexec,
       NoPkexec, CollectInstall, CollectRestore, CollectHelper, HelperTimeout, Unstick, Confirm
<1>. USE DEF FreshFor, SeenFor, TypeOK, Done, NewText, backupVars, childVars, historyVars
<1>2. CASE Read(s)
  BY <1>1, <1>2 DEF Read, Idle
<1>3. CASE Refuse(s) \/ Stage(s) \/ BackupFails(s)
  BY <1>1, <1>3 DEF Refuse, Stage, BackupFails
<1>4. CASE WriteTemp(s) \/ WriteTempFails(s) \/ ReplaceFails(s) \/ FsyncDir(s)
  BY <1>1, <1>4 DEF WriteTemp, WriteTempFails, ReplaceFails, FsyncDir
<1>5. CASE Replace(s)
  BY <1>1, <1>5 DEF Replace
<1>6. CASE RunPkexec(s) \/ NoPkexec(s)
  BY <1>1, <1>6 DEF RunPkexec, NoPkexec
<1>7. CASE CollectInstall(s)
  BY <1>1, <1>7 DEF CollectInstall, HoldsBackup
<1>8. CASE CollectRestore(s)
  BY <1>1, <1>8 DEF CollectRestore
<1>9. CASE CollectHelper(s)
  BY <1>1, <1>9 DEF CollectHelper, HoldsBackup
<1>10. CASE HelperTimeout(s)
  BY <1>1, <1>10 DEF HelperTimeout
<1>11. CASE Unstick(s)
  BY <1>1, <1>11 DEF Unstick
<1>12. CASE Confirm(s)
  BY <1>1, <1>12 DEF Confirm
<1>. QED
  BY <1>2, <1>3, <1>4, <1>5, <1>6, <1>7, <1>8, <1>9, <1>10, <1>11, <1>12 DEF Save

LEMMA SeenChild ==
  ASSUME TypeOK, Serial, UntouchedInv, ProcessInv, NEW s \in Saves, Child(s)
  PROVE  (FailureMeansUntouched /\ \A t \in Saves : SeenFor(t))'
<1>1. /\ UNCHANGED <<pc, base, report, undoing, temp, route>>
      /\ \A t \in Saves : t # s => child'[t] = child[t]
      /\ \A t \in Saves : t # s => (t \in wrote' <=> t \in wrote)
      /\ child[s] \in {"asking", "running"}
  BY DEF Child, Authorize, Dismiss, ChildWrites, ChildFails, ChildTears, ChildEnds,
       historyVars, TypeOK
<1>2. pc[s] \in {"waiting", "restoring"} /\ (s \in undoing <=> pc[s] = "restoring")
  BY <1>1 DEF ProcessInv, UntouchedInv
<1>3. \A t \in Saves : t # s => pc[t] # "waiting"
  BY <1>2 DEF Serial, Busy
<1>4. report[s] = "none"
  BY <1>2 DEF UntouchedInv, SeenFor
<1>5. FailureMeansUntouched'
  BY <1>1, <1>4 DEF UntouchedInv, FailureMeansUntouched
<1>6. ASSUME NEW t \in Saves, t # s PROVE SeenFor(t)'
  BY <1>1, <1>3, <1>6 DEF UntouchedInv, SeenFor, NewText
<1>7. SeenFor(s)'
  <2>. USE DEF UntouchedInv, SeenFor, NewText
  <2>1. CASE Authorize(s) \/ Dismiss(s) \/ ChildFails(s)
    BY <1>1, <1>2, <2>1 DEF Authorize, Dismiss, ChildFails, ChildEnds, historyVars, TypeOK
  <2>2. CASE ChildTears(s)
    BY <1>1, <1>2, <2>2 DEF ChildTears, ChildEnds, historyVars, TypeOK
  <2>3. CASE ChildWrites(s)
    BY <1>1, <1>2, <2>3 DEF ChildWrites, ChildEnds, Source, NewText, TypeOK
  <2>. QED  BY <2>1, <2>2, <2>3 DEF Child
<1>. QED
  BY <1>5, <1>6, <1>7

\* A save that says nothing was changed - refused, cancelled, not run, not
\* answered - never put its text in the file, whoever edits the file meanwhile;
\* unless a helper outlives its timeout, the directory cannot be opened after
\* the replace, or the application dies (config_io._restore's callers and
\* system_status._install).
THEOREM FailureIsNoChange ==
  ASSUME Faults \cap {"crash", "slow", "no_dir"} = {}
  PROVE  Spec => []FailureMeansUntouched
<1>1. Init => Serial /\ ProcessInv /\ UntouchedInv
  BY DEF Init, Serial, Busy, ProcessInv, UntouchedInv, FailureMeansUntouched, FreshFor, SeenFor
<1>2. TypeOK /\ Serial /\ ProcessInv /\ UntouchedInv /\ [Next]_vars => UntouchedInv'
  <2>. SUFFICES ASSUME TypeOK, Serial, ProcessInv, UntouchedInv, [Next]_vars
                PROVE  UntouchedInv'
    OBVIOUS
  <2>1. ASSUME NEW s \in Saves, Save(s) PROVE UntouchedInv'
    BY <2>1, FreshSave, SeenSave DEF UntouchedInv, FailureMeansUntouched
  <2>2. ASSUME NEW s \in Saves, Child(s) PROVE UntouchedInv'
    <3>1. pc[s] # "new" /\ UNCHANGED pc
      BY <2>2 DEF ProcessInv, Child, Authorize, Dismiss, ChildWrites, ChildFails, ChildTears
    <3>. QED  BY <2>2, <3>1, FreshChild, SeenChild DEF UntouchedInv
  <2>3. ASSUME NEW e \in Edits, Edit(e) PROVE UntouchedInv'
    BY <2>3, SavesAssumption DEF Edit, UntouchedInv, FailureMeansUntouched, FreshFor, SeenFor,
         NewText, childVars
  <2>4. CASE Crash
    BY <2>4 DEF Crash
  <2>5. CASE UNCHANGED vars
    BY <2>5 DEF vars, UntouchedInv, FailureMeansUntouched, FreshFor, SeenFor, NewText
  <2>. QED  BY <2>1, <2>2, <2>3, <2>4, <2>5 DEF Next
<1>3. UntouchedInv => FailureMeansUntouched
  BY DEF UntouchedInv
<1>4. TypeOK /\ ProcessInv /\ [Next]_vars => ProcessInv'
  BY ProcessStep
<1>. QED
  BY <1>1, <1>2, <1>3, <1>4, TypeCorrect, SerialStep, PTL DEF Spec
=============================================================================
