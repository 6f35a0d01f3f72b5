---------------------------- MODULE UpdatesPage ----------------------------
(***************************************************************************)
(* tabs/updates.py: the page over shani-deploy.  Questions (deploy_status) *)
(* run beside each other and beside the one action (_run) the page allows; *)
(* each is answered by a callback of the main loop.  shani-deploy itself   *)
(* is external: a question reads the system at some moment between its     *)
(* start and its answer, an action changes it.                             *)
(***************************************************************************)
EXTENDS Naturals, FiniteSets

CONSTANTS
  Channels,   \* the update channels
  MaxAsked,   \* bound: questions asked
  Faults

AllFaults == {"impatient", \* the user acts while a question is open
              "offline",   \* the update server does not answer
              "tool"}      \* shani-deploy fails, or prints no JSON

ASSUME BoundAssumption == MaxAsked \in Nat
ASSUME FaultAssumption == Faults \subseteq AllFaults

VARIABLES
  faults,    \* the faults that can happen in this behaviour
  system,    \* what shani-deploy knows: slots, markers, channel
  asked,     \* how many questions were asked; a question is its number
  open,      \* the questions not answered yet
  checks,    \* those asked with --check
  reading,   \* reading[q]: what shani-deploy saw for q, once it looked
  status,    \* _status: the last reading the page applied
  job,       \* the action under way and how far it is
  busy,      \* _busy
  on,        \* the controls that are sensitive
  row,       \* what the update row says
  shown,     \* Update and Prefetch are visible
  pending,   \* the "waiting to start" group is shown
  banner     \* the banner: off, failure, or restart

vars == <<faults, system, asked, open, checks, reading, status, job, busy, on,
          row, shown, pending, banner>>
questionVars == <<asked, open, checks, reading>>
pageVars == <<status, busy, on, row, shown, pending, banner>>

Controls == {"check", "update", "prefetch", "rollback", "reboot", "channel"}
Actions == {"update", "prefetch", "rollback"} \cup Channels
Rows == {"checking", "available", "newest", "noanswer", "cannot", "none"}
System == [pending : BOOLEAN, failed : BOOLEAN, newer : BOOLEAN, previous : BOOLEAN,
           channel : Channels]
Unread == [read |-> FALSE]
NoJob == [kind |-> "none", at |-> "none"]

\* refresh: one more question.
Ask(check) ==
  /\ asked' = asked + 1
  /\ open' = open \cup {asked'}
  /\ checks' = IF check THEN checks \cup {asked'} ELSE checks
  /\ reading' = [q \in 1..asked' |-> IF q = asked' THEN Unread ELSE reading[q]]
  /\ row' = IF check THEN "checking" ELSE row

Init ==
  /\ faults \in SUBSET Faults
  /\ system \in {s \in System : ~s.pending}
  /\ asked = 1 /\ open = {1} /\ checks = {1} /\ reading = [q \in {1} |-> Unread]
  /\ status = Unread
  /\ job = NoJob
  /\ busy = FALSE
  /\ on = Controls \ {"check"}
  /\ row = "checking"
  /\ shown = FALSE /\ pending = FALSE /\ banner = "off"

CanAct == asked < MaxAsked /\ ("impatient" \in faults \/ open = {})

ClickCheck ==
  /\ CanAct
  /\ "check" \in on
  /\ on' = on \ {"check"}
  /\ Ask(TRUE)
  /\ UNCHANGED <<faults, system, status, job, busy, shown, pending, banner>>

----------------------------------------------------------------------------
(* shani-deploy, external                                                   *)

\* Only --check asks the server, and it may get no answer.
Look(q) ==
  /\ q \in open /\ reading[q] = Unread
  /\ \E answered \in {TRUE} \cup IF "offline" \in faults THEN {FALSE} ELSE {} :
       reading' = [reading EXCEPT ![q] =
         [read |-> TRUE, seen |-> system,
          newer |-> IF q \in checks /\ answered
                    THEN IF system.newer THEN "yes" ELSE "no" ELSE "unknown"]]
  /\ UNCHANGED <<faults, system, asked, open, checks, job, pageVars>>

Authorize ==
  /\ job.at = "asking"
  /\ job' = [job EXCEPT !.at = "running"]
  /\ UNCHANGED <<faults, system, questionVars, pageVars>>

Cancel ==
  /\ job.at = "asking"
  /\ job' = [job EXCEPT !.at = "cancelled"]
  /\ UNCHANGED <<faults, system, questionVars, pageVars>>

\* An update leaves the reboot marker, a rollback takes it away.
Effect(kind) ==
  CASE kind = "update"   -> [system EXCEPT !.pending = TRUE, !.newer = FALSE, !.previous = TRUE]
    [] kind = "rollback" -> [system EXCEPT !.pending = FALSE]
    [] kind = "prefetch" -> system
    [] OTHER             -> [system EXCEPT !.channel = kind]

Succeed ==
  /\ job.at = "running"
  /\ job' = [job EXCEPT !.at = "ok"]
  /\ system' = Effect(job.kind)
  /\ UNCHANGED <<faults, questionVars, pageVars>>

Break ==
  /\ job.at = "running"
  /\ job' = [job EXCEPT !.at = "failed"]
  /\ UNCHANGED <<faults, system, questionVars, pageVars>>

----------------------------------------------------------------------------
(* _on_status                                                               *)

\* (mutant) Check stays off after a question without an answer
UnansweredStuck(q) ==
  /\ "tool" \in faults
  /\ q \in open
  /\ open' = open \ {q}
  /\ row' = "cannot"
  /\ on' = on \ {"update", "prefetch", "rollback"}
  /\ UNCHANGED <<faults, system, asked, checks, reading, status, job, busy, shown, pending, banner>>
\* No document: three buttons off, and nothing else on the page changes.
Unanswered(q) ==
  /\ "tool" \in faults
  /\ q \in open
  /\ open' = open \ {q}
  /\ row' = "cannot"
  /\ on' = (on \ {"update", "prefetch", "rollback"}) \cup (IF busy THEN {} ELSE {"check"})
  /\ UNCHANGED <<faults, system, asked, checks, reading, status, job, busy, shown, pending, banner>>

\* (mutant) the answer does not look at _busy
SensitiveAlways(st) ==
  (on \ {"rollback"}) \cup {"check"} \cup (IF st.seen.previous THEN {"rollback"} ELSE {})
Sensitive(st) ==
  (on \ {"check", "rollback"})
    \cup (IF busy THEN {} ELSE {"check"})
    \cup (IF st.seen.previous /\ ~busy THEN {"rollback"} ELSE {})

\* _render_health: a failed boot, then the pending group, then the action that
\* is under way keep or take the banner.
Banner(st) ==
  IF st.seen.failed THEN "failure"
  ELSE IF st.seen.pending \/ ~busy THEN "off" ELSE banner

Answer(q) ==
  /\ q \in open /\ reading[q].read
  /\ open' = open \ {q}
  /\ status' = reading[q]
  /\ on' = Sensitive(reading[q])
  /\ pending' = reading[q].seen.pending
  /\ banner' = Banner(reading[q])
  /\ row' = CASE reading[q].newer = "yes" -> "available"
              [] reading[q].newer = "no" -> "newest"
              [] OTHER -> "noanswer"
  /\ shown' = (reading[q].newer = "yes")
  /\ UNCHANGED <<faults, system, asked, checks, reading, job, busy>>

----------------------------------------------------------------------------
(* _run                                                                     *)

\* The button of an action: Update and Prefetch stay as the last answer left
\* them while a new check is open, the channel row calls _run for a channel that is not the one in _status.
Offered(kind) ==
  CASE kind \in {"update", "prefetch"} -> kind \in on /\ shown
    [] kind = "rollback" -> "rollback" \in on
    [] OTHER -> "channel" \in on /\ (status.read => kind # status.seen.channel)

StartJob(kind) ==
  /\ CanAct
  /\ Offered(kind)
  /\ ~busy
  /\ busy' = TRUE
  /\ on' = on \ {"update", "rollback", "check", "reboot", "channel"}
  /\ job' = [kind |-> kind, at |-> "asking"]
  /\ UNCHANGED <<faults, system, questionVars, status, row, shown, pending, banner>>

\* (mutant) a cancelled action does not read the system again
ExitedNoRefresh ==
  /\ job.at \in {"ok", "failed", "cancelled"}
  /\ busy' = FALSE
  /\ job' = NoJob
  /\ on' = on \cup {"channel", "check"}
  /\ UNCHANGED <<faults, system, questionVars, status, row, shown, pending, banner>>
\* exited, then _after_deploy, _after_prefetch or the channel's lambda: the
\* channel row and Check come back, and the refresh takes Check away again.
Exited ==
  /\ job.at \in {"ok", "failed", "cancelled"}
  /\ busy' = FALSE
  /\ job' = NoJob
  /\ on' = (on \cup {"channel"}) \ {"check"}
  /\ Ask(job.at # "cancelled" /\ job.kind \in Channels \cup {"prefetch"})
  /\ banner' = IF job.at = "ok" /\ job.kind \in {"update", "rollback"} THEN "restart" ELSE banner
  /\ UNCHANGED <<faults, system, status, shown, pending>>

Next ==
  \/ ClickCheck \/ Authorize \/ Cancel \/ Succeed \/ Break \/ Exited
  \/ \E q \in 1..asked : Look(q) \/ Unanswered(q) \/ Answer(q)
  \/ \E kind \in Actions : StartJob(kind)

Spec == Init /\ [][Next]_vars

----------------------------------------------------------------------------
(* Properties                                                               *)

Settled == ~busy /\ open = {}

\* While an action runs, no answer that arrives meanwhile brings back a control
\* that would start another one.
BusyDisables == busy => on \cap {"check", "rollback", "channel"} = {}

\* Once nothing is under way the user can ask again, whatever was cancelled,
\* failed or left unanswered.
CheckComesBack == Settled => {"check", "channel"} \subseteq on

\* Once nothing is under way the page of a user who waits for each answer says
\* what the system is: the pending group ("holding an installed-but-not-started
\* update", updates.py:42-46), the way back, the failure of the last boot and the
\* channel.
SettledIsTrue ==
  "impatient" \notin faults /\ Settled /\ row # "cannot" =>
    /\ pending = system.pending
    /\ "rollback" \in on <=> system.previous
    /\ banner = "failure" <=> system.failed
    /\ status.seen.channel = system.channel

=============================================================================
