---------------------------- MODULE SavePromise ----------------------------
(***************************************************************************)
(* What saving a setting promises, apart from how it is done: at most one  *)
(* save is pending; it takes effect in one step or not at all; "saved"     *)
(* means that it did, "failed" that it did not, and only the answer that   *)
(* tells the user to look at the file leaves that open.  A save that dies  *)
(* has taken effect or has not.  All of it as long as the save is alone    *)
(* with the file; from then on nothing is promised.                        *)
(***************************************************************************)
CONSTANTS Saves, Edits

VARIABLES
  settings,   \* the settings in the file
  answer,     \* answer[s]: none, pending, saved, failed, look (by hand) or lost
  alone       \* no other writer has come between a save and the file

vars == <<settings, answer, alone>>

Init ==
  /\ settings = {}
  /\ answer = [s \in Saves |-> "none"]
  /\ alone = TRUE

Answers(s, what) == answer[s] = "pending" /\ answer' = [answer EXCEPT ![s] = what]

Begin(s) ==
  /\ answer[s] = "none"
  /\ \A t \in Saves : answer[t] # "pending"
  /\ answer' = [answer EXCEPT ![s] = "pending"]
  /\ UNCHANGED settings

Commit(s) ==
  /\ answer[s] = "pending"
  /\ settings' = settings \cup {s}
  /\ UNCHANGED answer

Succeed(s) == Answers(s, "saved") /\ s \in settings /\ UNCHANGED settings
Fail(s)    == Answers(s, "failed") /\ s \notin settings /\ UNCHANGED settings
\* "check the file by hand": what is left is a part of the old or of the new text.
GiveUp(s)  == Answers(s, "look") /\ settings' \in SUBSET (settings \cup {s})

\* The application dies, or the thread of the save.
Lose(s) == Answers(s, "lost") /\ UNCHANGED settings

\* Somebody edits the file between two saves.
Edit(e) ==
  /\ \A s \in Saves : answer[s] # "pending"
  /\ settings' = settings \cup {e}
  /\ UNCHANGED answer

Alone ==
  \/ \E s \in Saves : Begin(s) \/ Commit(s) \/ Succeed(s) \/ Fail(s) \/ GiveUp(s) \/ Lose(s)
  \/ \E e \in Edits : Edit(e)

Next == ~alone' \/ (alone /\ UNCHANGED alone /\ Alone)

Spec == Init /\ [][Next]_vars
=============================================================================
