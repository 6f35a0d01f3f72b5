----------------------------- MODULE SystemPages -----------------------------
(***************************************************************************)
(* The pages about what runs on the system: its jobs, its confinement, its *)
(* guests and its start.  What they ask, what they say on top and what     *)
(* their rows say.                                                         *)
(***************************************************************************)
EXTENDS Plans, Integers, FiniteSets
-----------------------------------------------------------------------------
(* Background Tasks (timers.py)                                            *)

\* Two of the three reads of systemctl, the crontab, and systemctl show of a timer
\* whose row is activated.
TimersAnswers ==
    [tool   |-> <<"present", "absent">>,
     timers |-> <<"listed", "none", "empty">>,
     units  |-> <<"fine", "none", "failed">>,
     cron   |-> <<"jobs", "odd", "empty", "no crontab">>,
     detail |-> <<"shown", "odd", "bare">>]

\* refresh; the row of a timer is there once the timers have answered.
TimersFollow(k, g) ==
    CASE k = "refresh" -> {"cron"} \cup (IF g.tool = "present" THEN {"timers", "units"} ELSE {})
      [] k = "timers" /\ g.timers = "listed" -> {"detail"}
      [] OTHER -> {}

\* _plain_verdict: a timer whose unit was not read has not failed.
TimersLevel(g) ==
    CASE g.tool = "absent" \/ g.timers = "none" -> "unknown"
      [] g.timers = "waiting" -> "busy"
      [] g.timers = "empty"   -> "no task"
      [] g.units = "failed"   -> "warning"
      [] OTHER                -> "ok"

\* _render_timers, _icon_state, _state_phrase
TimersRows(g) ==
    LET Timer(row) == IF g.timers = "listed" THEN row ELSE "no row" IN
    [timers |-> IF g.tool = "absent" THEN "error"
                ELSE [waiting |-> "not read yet", none |-> "error", listed |-> "listed",
                      empty |-> "empty"][g.timers],
     state  |-> Timer(IF g.units \in {"fine", "failed"} THEN g.units ELSE "unknown"),
     detail |-> Timer([waiting |-> "not read yet", odd |-> "error", shown |-> "listed",
                       bare |-> "not set"][g.detail])]

\* _render_cron: a status other than zero says there is none, or what went wrong.
TimersCronRow(g) ==
    Per([waiting |-> "not read yet", odd |-> "error", jobs |-> "listed"], g.cron, "empty")

\* _ask_detail counts a question whose answer draws only its row.
TimersPlan ==
    [Refreshes(TimersAnswers,
               [ok |-> {"timers", "units"}, warning |-> {"timers", "units"}]
                  @@ ("no task" :> {"timers"}))
     EXCEPT !.instant = {"tool"}, !.ownrow = {"detail"}]
-----------------------------------------------------------------------------
(* Audit Log (audit.py)                                                    *)

\* is-enabled and is-active of auditd at once, in the words they print.
AuditAnswers ==
    [log     |-> <<"full", "unreadable", "absent", "empty">>,
     enabled |-> <<"enabled", "none", "not-found">>,
     active  |-> <<"active", "none", "inactive", "failed">>]

AuditFollow(k, g) == AtOnce({"enabled", "active"}, k)

\* _plain_verdict: the words of a tool that failed count as a word.
AuditLevel(g) ==
    IF g.enabled = "not-found" THEN "absent"
    ELSE [waiting |-> "busy", active |-> "ok", failed |-> "warning", inactive |-> "off",
          none |-> "off"][g.active]

\* _read_daemon, _mark_daemon_severity
AuditRows(g) ==
    [enabled |-> Per([waiting |-> "not read yet", none |-> "error"], g.enabled, g.enabled),
     active  |-> Per([waiting |-> "not read yet", none |-> "error"], g.active, g.active)]

AuditPlan ==
    [Refreshes(AuditAnswers,
               [ok |-> {"active"}, warning |-> {"active"}, off |-> {"active"}])
     EXCEPT !.instant = {"log"}, !.again = FALSE, !.on = "kept"]

\* search: ausearch through pkexec, with what the page knows of the daemon.
SearchAnswers ==
    [tool   |-> <<"present", "absent">>,
     daemon |-> <<"active", "none", "inactive">>,
     log    |-> <<"full", "unreadable", "absent", "empty">>,
     search |-> <<"events", "none", "odd", "empty">>]

SearchFollow(k, g) == IF g.tool = "present" THEN AtOnce({"search"}, k) ELSE {}

SearchLevel(g) == "none"

\* _empty_verdict: no record is no event only while the daemon writes a log.
SearchEmpty(g) ==
    CASE g.daemon = "none"     -> "unread"
      [] g.daemon = "inactive" -> "daemon off"
      [] OTHER -> [unreadable |-> "unread", absent |-> "no log", empty |-> "empty log",
                   full |-> "no event"][g.log]

\* _subtitle, _render, _render_events
SearchRows(g) ==
    [events |-> IF g.tool = "absent" THEN "absent"
                ELSE [waiting |-> "not read yet", none |-> "error", odd |-> "error",
                      events |-> "listed", empty |-> SearchEmpty(g)][g.search]]

SearchPlan ==
    [Refreshes(SearchAnswers, <<>>)
     EXCEPT !.instant = {"tool", "daemon", "log"}, !.on = "asked"]
-----------------------------------------------------------------------------
(* Start-up and Recovery (boot_recovery.py)                                *)

BootAnswers ==
    [tool   |-> <<"present", "absent">>,
     status |-> <<"fine", "none", "failed", "rolled back", "reboot">>]

BootFollow(k, g) == IF g.tool = "present" THEN AtOnce({"status"}, k) ELSE {}

\* _plain_verdict
BootLevel(g) ==
    IF g.tool = "absent" THEN "absent"
    ELSE Per([waiting |-> "busy", none |-> "unknown", failed |-> "warning"]
                @@ ("rolled back" :> "warning"), g.status, "ok")

\* _status_note, _values
BootRows(g) ==
    [values |-> IF g.tool = "absent" THEN "absent"
                ELSE Per([waiting |-> "not read yet", none |-> "error"], g.status, "listed")]

BootPlan ==
    [Refreshes(BootAnswers, [ok |-> {"status"}, warning |-> {"status"}])
     EXCEPT !.instant = {"tool"}, !.on = "asked"]

\* verify and load_history: each has a button of its own, which is off while it runs.
VerifyAnswers ==
    [tool   |-> <<"present", "absent">>,
     report |-> <<"passed", "none", "odd", "problems", "uncounted", "no check">>]

VerifyFollow(k, g) == IF g.tool = "present" THEN AtOnce({"report"}, k) ELSE {}

VerifyLevel(g) == "none"

\* _verify_note, _render_verify
VerifyRows(g) ==
    [note   |-> IF g.tool = "absent" THEN "absent"
                ELSE Per([waiting |-> "not read yet", none |-> "error", odd |-> "unread",
                          problems |-> "problems", uncounted |-> "problems"], g.report, "passed"),
     checks |-> IF g.report \in {"waiting", "none"} THEN "no row"
                ELSE Per([odd |-> "unread"] @@ ("no check" :> "unread"), g.report, "listed")]

VerifyPlan ==
    [Gathers(VerifyAnswers, {"tool"}, <<>>)
     EXCEPT !.on = "asked", !.again = TRUE]

HistoryAnswers ==
    [tool    |-> <<"present", "absent">>,
     history |-> <<"slots", "none", "empty", "bare">>]

HistoryFollow(k, g) == IF g.tool = "present" THEN AtOnce({"history"}, k) ELSE {}

HistoryLevel(g) == "none"

\* _render_history, _render_slot
HistoryRows(g) ==
    [history |-> IF g.tool = "absent" THEN "absent"
                 ELSE [waiting |-> "not read yet", none |-> "error", empty |-> "empty",
                       slots |-> "listed", bare |-> "no version"][g.history]]

HistoryPlan ==
    [Gathers(HistoryAnswers, {"tool"}, <<>>)
     EXCEPT !.on = "asked", !.again = TRUE]
-----------------------------------------------------------------------------
(* Containers (containers.py)                                              *)

\* podman ps, podman ps --all and distrobox list, at once; "odd" is text without a
\* line that can be parsed.
ContAnswers ==
    [tools   |-> <<"both", "podman", "neither">>,
     running |-> <<"one", "none", "odd", "empty">>,
     all     |-> <<"one", "none", "odd", "empty">>,
     boxes   |-> <<"one", "none", "odd", "empty">>]

\* parse_podman, parse_distrobox
ContCount(answer) == IF answer = "one" THEN 1 ELSE 0

ContAsked(g) ==
    [both |-> {"running", "all", "boxes"}, podman |-> {"running", "all"}, neither |-> {}][g.tools]

ContFollow(k, g) == AtOnce(ContAsked(g), k)

\* _plain_verdict: a read that failed lists nothing.
ContLevel(g, busy) ==
    CASE g.tools = "neither" -> "absent"
      [] busy -> "busy"
      [] ContCount(g.boxes) + ContCount(g.running) > 0 -> "ok"
      [] OTHER -> "nothing"

\* _count_row, _add_empty
ContCountRow(g, k) ==
    IF k \notin ContAsked(g) THEN "no row"
    ELSE [waiting |-> "not read yet", none |-> "error", odd |-> "error", one |-> "listed",
          empty |-> "empty"][g[k]]

\* _render_podman: the meter adds the running ones to all of them, which they are among.
ContMeter(g) ==
    Per(<<"none of one", "one of one", "one of two">>,
        2 * ContCount(g.all) + ContCount(g.running), "no row")

ContRows(g) ==
    [running |-> ContCountRow(g, "running"), all |-> ContCountRow(g, "all"),
     boxes   |-> ContCountRow(g, "boxes"), meter |-> ContMeter(g)]

ContPlan ==
    [Refreshes(ContAnswers,
               [nothing |-> {"running", "boxes"}])
     EXCEPT !.instant = {"tools"}, !.on = "asked"]
-----------------------------------------------------------------------------
(* Virtual Machine Speed (kvm.py): read on the main loop, at once.         *)

KvmAnswers ==
    [cpu     |-> <<"flag", "unreadable", "no flags", "no vmx">>,
     device  |-> <<"exists", "missing">>,
     modules |-> <<"loaded", "unreadable", "other">>,
     nested  |-> <<"on", "none", "unreadable", "off">>,
     group   |-> <<"exists", "none", "missing">>,
     iommu   |-> <<"groups", "unlistable", "requested", "off">>,
     dropin  |-> <<"written", "unreadable", "absent">>]

KvmFollow(k, g) == {}

\* cpu_virt, classify
KvmLevel(g) ==
    CASE g.cpu \in {"unreadable", "no flags"} -> "unknown"
      [] g.device = "exists" -> "ok"
      [] g.cpu = "flag" -> "not loaded"
      [] OTHER -> "firmware"

\* preflight: why the module cannot be loaded from here; a group NSS could not be
\* asked about is no group.
KvmPreflightRow(g) ==
    CASE KvmLevel(g) # "not loaded" -> KvmLevel(g)
      [] g.group # "exists"         -> "no group"
      [] OTHER                      -> "would run"

\* _render_reads
KvmReadRows(g) ==
    [flags   |-> Per([flag |-> "on"] @@ ("no vmx" :> "none"), g.cpu, "unknown"),
     device  |-> g.device,
     modules |-> IF g.modules = "unreadable" THEN "error" ELSE g.modules,
     nested  |-> IF g.nested \in {"none", "unreadable"} THEN "unknown" ELSE g.nested,
     group   |-> IF g.group = "none" THEN "unknown" ELSE g.group,
     iommu   |-> IF g.iommu = "unlistable" THEN "unknown" ELSE g.iommu]

\* _render_persist: why the file could not be read is not looked at.
KvmPersistRow(g) ==
    CASE g.cpu # "flag" -> "no row"
      [] g.dropin = "written" -> "present"
      [] OTHER -> "absent"

KvmRows(g) == ("persist" :> KvmPersistRow(g)) @@ ("preflight" :> KvmPreflightRow(g)) @@ KvmReadRows(g)

\* _on_enable loads the module and writes the drop-in in a thread; _on_done reads again.
KvmPlan ==
    [Gathers(KvmAnswers, DOMAIN KvmAnswers,
             [ok |-> {"cpu"}, firmware |-> {"cpu"}] @@ ("not loaded" :> {"cpu"}))
     EXCEPT !.act = "reloads"]
-----------------------------------------------------------------------------
(* App Confinement (lsm.py)                                                *)

\* The kernel's list on the spot; shani-health, aa-status and is-active at once.
LsmAnswers ==
    [lsm    |-> <<"apparmor", "unreadable", "empty", "no module">>,
     tool   |-> <<"present", "absent">>,
     audit  |-> <<"checks", "none", "odd">>,
     status |-> <<"said", "none">>,
     unit   |-> <<"active", "none", "inactive">>,
     snapd  |-> <<"inactive", "none">>]

LsmFollow(k, g) ==
    AtOnce({"status", "unit", "snapd"} \cup (IF g.tool = "present" THEN {"audit"} ELSE {}), k)

\* _plain_verdict, of _read_lsm
LsmLevel(g) ==
    Per([apparmor |-> "ok"] @@ ("no module" :> "warning"), g.lsm, "unknown")

\* _render_apparmor stops at a unit that is not known.
LsmRows(g) ==
    LET Word(answer) == Per([waiting |-> "not read yet", none |-> "unread"], answer, answer) IN
    [lsm    |-> IF g.lsm \in {"unreadable", "empty"} THEN "error" ELSE "listed",
     status |-> Word(g.status),
     unit   |-> Word(g.unit),
     snapd  |-> IF g.unit \in {"waiting", "none"} THEN "no row" ELSE Word(g.snapd)]

\* _render_audit, _audit_rows
LsmAuditRow(g) ==
    IF g.tool = "absent" THEN "absent"
    ELSE [waiting |-> "not read yet", none |-> "unread", odd |-> "error", checks |-> "listed"][g.audit]

LsmPlan ==
    [Refreshes(LsmAnswers,
               [ok |-> {"lsm"}, warning |-> {"lsm"}])
     EXCEPT !.instant = {"lsm", "tool"}]

\* _ask_profiles: a button of its own, off while aa-status runs.
ProfilesAnswers ==
    [report |-> <<"profiles", "none", "odd", "empty", "uncounted">>]

ProfilesFollow(k, g) == AtOnce({"report"}, k)

ProfilesLevel(g) == "none"

\* _render_profiles
ProfilesRows(g) ==
    [profiles |-> Per([waiting |-> "not read yet", none |-> "error", odd |-> "error",
                       empty |-> "empty"], g.report, "listed")]

ProfilesPlan ==
    [Gathers(ProfilesAnswers, {}, <<>>)
     EXCEPT !.on = "asked", !.again = TRUE]
-----------------------------------------------------------------------------
(* Virtual Machines (virtualization.py)                                    *)

\* The version and the lists of three of the four kinds of guests; "none" is a tool
\* that failed without a word, "odd" one that failed with some.
VirtAnswers ==
    [version    |-> <<"known", "none">>,
     domains    |-> <<"one", "none", "odd", "two", "empty">>,
     containers |-> <<"empty", "none", "odd", "one">>,
     machines   |-> <<"empty", "none", "odd", "two">>]

VirtGuests == {"domains", "containers", "machines"}

VirtFollow(k, g) == AtOnce(DOMAIN VirtAnswers, k)

\* _domains, _containers, _machines: what the parser finds.
VirtFound(answer) == Per([one |-> 1, two |-> 2], answer, 0)

\* The line on top is set after each list of a tool that ended well was unpacked into
\* two names: any list but one of two raises, and what was said before stays.
VirtRaises(g) == \E k \in VirtGuests : g[k] \in {"one", "empty"}

VirtLevel(g, busy) ==
    CASE VirtRaises(g) -> "stale"
      [] busy -> "busy"
      [] \E k \in VirtGuests : g[k] = "two" -> "ok"
      [] OTHER -> "unknown"

\* _render_group, _render_read
VirtRow(answer) ==
    Per([waiting |-> "not read yet", none |-> "unread", odd |-> "error", empty |-> "empty"],
        answer, "listed")
VirtRows(g) == [k \in DOMAIN VirtAnswers |-> VirtRow(g[k])]

VirtPlan == Refreshes(VirtAnswers, [unknown |-> {}])
=============================================================================
