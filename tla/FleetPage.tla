----------------------------- MODULE FleetPage -----------------------------
(***************************************************************************)
(* tabs/fleet.py: the page over shani-fleet-agent.  Every question and     *)
(* every change is a pkexec call of the agent; _busy is the page's latch   *)
(* for all of them.  The agent is external: it knows whether this device   *)
(* is enrolled, and a call reads or changes that when it ends.             *)
(***************************************************************************)
EXTENDS Naturals, Sequences

CONSTANT MaxCalls  \* bound: calls of the agent

ASSUME CallsAssumption == MaxCalls \in Nat

VARIABLES
  hasty,     \* the user acts while a call is in flight
  device,    \* is this device enrolled, as the agent knows it
  calls,     \* the calls in flight; a call has a number, a kind and how it ended
  count,     \* how many calls there were
  busy,      \* _busy
  on,        \* the sensitive buttons
  dialog,    \* the dialog on the screen
  known,     \* _enrolled: what the page last read
  group,     \* what the Status group on the page says
  attached,  \* _status is on the page
  result,    \* _health and _drift: the call whose report each holds, or 0
  from,      \* _findings_from
  rows       \* the reports in the Findings group

pageVars == <<hasty, device, calls, count, busy, on, dialog, known, group, attached,
              result, from, rows>>
membershipVars == <<known, group, attached>>
findingVars == <<result, from, rows>>

Checks == {"health", "drift"}
Changes == {"enroll", "uninstall"}
Kinds == {"status"} \cup Checks \cup Changes
Buttons == {"show", "checks", "enroll", "uninstall"}
Outcomes == {"open", "yes", "no", "report", "ok", "fail", "cancelled"}
Nothing == "none"

PageInit ==
  /\ hasty \in BOOLEAN
  /\ device \in {"yes", "no"}
  /\ calls = {} /\ count = 0
  /\ busy = FALSE /\ on = {"show", "checks", "enroll"} /\ dialog = Nothing
  /\ known = "unread" /\ group = Nothing /\ attached = TRUE
  /\ result = [k \in Checks |-> 0] /\ from = Nothing /\ rows = << >>

\* A dialog covers the page.
CanAct == dialog = Nothing /\ (hasty \/ calls = {})

Begin(kind) ==
  /\ count < MaxCalls
  /\ count' = count + 1
  /\ calls' = calls \cup {[id |-> count', kind |-> kind, out |-> "open"]}
  /\ busy' = TRUE

\* _render_membership: the two buttons, from what was read and from _busy.
Membership(buttons) ==
  (buttons \ Changes)
    \cup (IF busy' THEN {} ELSE {"enroll"})
    \cup (IF ~busy' /\ known' = "yes" THEN {"uninstall"} ELSE {})

----------------------------------------------------------------------------
(* Show                                                                     *)

Load ==
  /\ CanAct
  /\ "show" \in on /\ ~busy
  /\ Begin("status")
  /\ on' = on \ {"show"}
  /\ UNCHANGED <<hasty, device, dialog, membershipVars, findingVars>>

\* _show on a page that lost its Status group stops at parent.remove: _enrolled
\* is set, and neither the group nor the membership row is drawn.
Show(c) ==
  /\ known' = IF c.out \in {"yes", "no"} THEN c.out ELSE known
  /\ IF attached
     THEN /\ group' = IF c.out \in {"yes", "no"} THEN c.out ELSE Nothing
          /\ on' = Membership(on \cup {"show"})
     ELSE /\ UNCHANGED group
          /\ on' = on \cup {"show"}

\* (mutant) Show comes back with an answer only
LoadDoneStuck(c) ==
  /\ c.kind = "status"
  /\ IF c.out = "cancelled" THEN UNCHANGED <<on, known, group>> ELSE Show(c)
  /\ UNCHANGED <<attached, findingVars>>
LoadDone(c) ==
  /\ c.kind = "status"
  /\ IF c.out = "cancelled" THEN on' = on \cup {"show"} /\ UNCHANGED <<known, group>>
     ELSE Show(c)
  /\ UNCHANGED <<attached, findingVars>>

----------------------------------------------------------------------------
(* Health and drift                                                         *)

\* _render_findings: what the named check holds is added to what is there.
Findings(old) == old \o IF result'[from'] = 0 THEN << >> ELSE <<result'[from']>>

Check(kind) ==
  /\ CanAct
  /\ "checks" \in on /\ ~busy
  /\ Begin(kind)
  /\ from' = kind
  /\ UNCHANGED result
  /\ rows' = Findings(<< >>)
  /\ on' = on \ {"checks"}
  /\ UNCHANGED <<hasty, device, dialog, membershipVars>>

\* (mutant) the report waits for the next click to be drawn
CheckDoneUndrawn(c) ==
  /\ c.kind \in Checks
  /\ result' = [result EXCEPT ![c.kind] = IF c.out = "report" THEN c.id ELSE 0]
  /\ UNCHANGED <<from, rows>>
  /\ on' = on \cup {"checks"}
  /\ UNCHANGED membershipVars
CheckDone(c) ==
  /\ c.kind \in Checks
  /\ result' = [result EXCEPT ![c.kind] = IF c.out = "report" THEN c.id ELSE 0]
  /\ UNCHANGED from
  /\ rows' = Findings(rows)
  /\ on' = on \cup {"checks"}
  /\ UNCHANGED membershipVars

----------------------------------------------------------------------------
(* Enroll and Remove                                                        *)

OpenDialog(kind) ==
  /\ CanAct
  /\ kind \in on
  /\ dialog' = kind
  /\ UNCHANGED <<hasty, device, calls, count, busy, on, membershipVars, findingVars>>

CloseDialog ==
  /\ dialog # Nothing
  /\ dialog' = Nothing
  /\ UNCHANGED <<hasty, device, calls, count, busy, on, membershipVars, findingVars>>

\* responded, _run and _begin: _busy is set, whatever it was.
Confirm ==
  /\ dialog # Nothing
  /\ Begin(dialog)
  /\ dialog' = Nothing
  /\ UNCHANGED <<hasty, device, membershipVars, findingVars>>
  /\ on' = Membership(on \ {"show"})

\* (mutant) what was read before the change stays
ChangeDoneKept(c) ==
  /\ c.kind \in Changes
  /\ UNCHANGED <<membershipVars, findingVars>>
  /\ on' = Membership(on \cup {"show"})
\* exited: a change that went through takes down what was read before it, and
\* _clear_status leaves the new group without a parent.
ChangeDone(c) ==
  /\ c.kind \in Changes
  /\ IF c.out = "ok" THEN known' = "unread" /\ group' = Nothing /\ attached' = FALSE
     ELSE UNCHANGED membershipVars
  /\ on' = Membership(on \cup {"show"})
  /\ UNCHANGED findingVars

\* The callback of a call that has ended.  Whichever it is, it clears _busy.
Done(c) ==
  /\ c \in calls /\ c.out # "open"
  /\ calls' = calls \ {c}
  /\ busy' = FALSE
  /\ LoadDone(c) \/ CheckDone(c) \/ ChangeDone(c)
  /\ UNCHANGED <<hasty, device, count, dialog>>

----------------------------------------------------------------------------
(* The agent, external                                                      *)

Ends(c, how) == calls' = (calls \ {c}) \cup {[c EXCEPT !.out = how]}

AgentEnds(c) ==
  /\ c \in calls /\ c.out = "open"
  /\ \/ Ends(c, "fail") /\ UNCHANGED device
     \/ Ends(c, "cancelled") /\ UNCHANGED device
     \/ c.kind = "status" /\ Ends(c, device) /\ UNCHANGED device
     \/ c.kind \in Checks /\ Ends(c, "report") /\ UNCHANGED device
     \/ c.kind \in Changes /\ Ends(c, "ok")
        /\ device' = IF c.kind = "enroll" THEN "yes" ELSE "no"
  /\ UNCHANGED <<hasty, count, busy, on, dialog, membershipVars, findingVars>>

PageNext ==
  \/ Load
  \/ \E k \in Checks : Check(k)
  \/ \E k \in Changes : OpenDialog(k)
  \/ CloseDialog \/ Confirm
  \/ \E c \in calls : Done(c) \/ AgentEnds(c)

PageSpec == PageInit /\ [][PageNext]_pageVars

----------------------------------------------------------------------------
(* Properties                                                               *)

\* Whatever order the calls end in, the latch opens with the last of them and
\* the page can be used again (fleet.py:602-608: "only the tool's exit does").
LatchOpens == calls = {} => ~busy /\ {"show", "checks", "enroll"} \subseteq on

\* For a user who does one thing at a time, what the page says about its
\* membership is what the agent would say now, and Remove is offered to a member
\* only.
MembershipIsTrue ==
  ~hasty /\ calls = {} =>
    /\ known \in {"unread", device}
    /\ group \in {Nothing, device}
    /\ "uninstall" \in on => device = "yes"

\* Whatever ran beside it, the report the page holds of the check it names is on
\* the page, below all others (_render_findings, fleet.py:298-406).
FindingsDrawn ==
  from # Nothing /\ result[from] # 0 => rows # << >> /\ rows[Len(rows)] = result[from]
=============================================================================
