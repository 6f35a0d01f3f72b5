---------------------------- MODULE ServicePages ----------------------------
(***************************************************************************)
(* The pages about a background service: what they ask, what they say on   *)
(* top and what their rows say.  "none" is a question that was not         *)
(* answered; a row says "unread" when it tells the user so.                *)
(***************************************************************************)
EXTENDS Plans, Naturals

Enabled == {"enabled", "enabled-runtime"}
-----------------------------------------------------------------------------
(* App Priorities (ananicy.py)                                             *)

\* Five tools at once; two rules directories, the config and the cgroup file.
AnanicyAnswers ==
    [enabled |-> <<"enabled", "none", "odd", "disabled", "not-found">>,
     active  |-> <<"active", "none", "inactive", "failed">>,
     cat     |-> <<"capped", "none", "bare">>,
     journal |-> <<"lines", "none", "marker">>,
     dump    |-> <<"lines", "none", "blank">>,
     etc     |-> <<"rules", "absent", "unlistable", "comments", "broken">>,
     share   |-> <<"rules", "absent", "unlistable", "unreadable">>,
     config  |-> <<"object", "absent", "unreadable", "broken">>,
     cgroup  |-> <<"all", "unreadable", "empty", "some">>]

AnanicyTools == {"enabled", "active", "cat", "journal", "dump"}

AnanicyFollow(k, g) == AtOnce(AnanicyTools, k)

\* parse_unit_state, _collect: a word systemctl does not say is no answer.
AnanicyWord(answer) == IF answer \in {"none", "odd"} THEN "" ELSE answer

\* read_rules_dir with parse_rule_text: every line that is not blank or a comment
\* is a rule, also one that is not JSON.
AnanicyRules(dir)   == IF dir \in {"rules", "broken"} THEN 1 ELSE 0

AnanicyTitle(g) ==
    LET enabled == AnanicyWord(g.enabled)
        active  == AnanicyWord(g.active)
        rules   == AnanicyRules(g.etc) + AnanicyRules(g.share)
    IN  CASE enabled = "not-found"        -> "not installed"
          [] enabled = "" \/ active = ""  -> "partly read"
          [] enabled \notin Enabled       -> "not at boot"
          [] active # "active"            -> "not running"
          [] rules = 0 /\ g.etc = "absent" /\ g.share = "absent" -> "no directory"
          [] rules = 0                    -> "nothing to apply"
          [] OTHER                        -> "rules"

AnanicyLevel(g) ==
    CASE AnanicyWord(g.enabled) = "not-found" -> "absent"
      [] g.active = "active" /\ AnanicyTitle(g) # "nothing to apply" -> "ok"
      [] g.active \in {"active", "failed"}    -> "warning"
      [] OTHER                                -> "off"

AnanicyUnitRows(g) ==
    [enabled |-> Per(("" :> "unread" @@ "enabled" :> "ok"), AnanicyWord(g.enabled), "warning"),
     active  |-> Per(("" :> "unread" @@ "active" :> "ok"), AnanicyWord(g.active), "warning"),
     caps    |-> Per([none |-> "unread", capped |-> "warning"], g.cat, "error")]

AnanicyDirRow(dir) ==
    [absent |-> "absent", unlistable |-> "unread", comments |-> "warning",
     unreadable |-> "warning", broken |-> "ok", rules |-> "ok"][dir]

AnanicyFileRows(g) ==
    [etc    |-> AnanicyDirRow(g.etc),
     share  |-> AnanicyDirRow(g.share),
     config |-> [absent |-> "absent", unreadable |-> "unread", broken |-> "error",
                 object |-> "ok"][g.config]]

AnanicyToolRows(g) ==
    [dump    |-> [none |-> "unread", blank |-> "empty", lines |-> "ok"][g.dump],
     cgroup  |-> [unreadable |-> "unread", empty |-> "empty", some |-> "warning", all |-> "ok"][g.cgroup],
     journal |-> [none |-> "unread", marker |-> "empty", lines |-> "ok"][g.journal]]

AnanicyPlan ==
    Gathers(AnanicyAnswers, DOMAIN AnanicyAnswers \ AnanicyTools,
            [ok |-> {"active"}, off |-> {"active"}])
-----------------------------------------------------------------------------
(* Finding devices (avahi.py)                                              *)

\* Six tools in turn; the config, the published services, the hosts file.
AvahiAnswers ==
    [tools  |-> <<"both", "neither">>,
     conf   |-> <<"keys", "unreadable", "comments">>,
     service |-> <<"enabled", "none", "disabled", "not-found">>,
     socket |-> <<"enabled", "none", "disabled", "masked", "static", "not-found">>,
     dbus   |-> <<"enabled", "none", "disabled">>,
     active |-> <<"active", "none", "inactive", "failed", "reloading">>,
     units  |-> <<"counted", "none", "uncounted">>,
     ss     |-> <<"named", "none", "quiet", "unnamed">>,
     files  |-> <<"listed", "absent", "unlistable", "empty">>]

AvahiTurn == <<"service", "socket", "dbus", "active", "units", "ss">>

\* Neither tool on the system: handed over before anything is asked.
AvahiFollow(k, g) == IF g.tools = "neither" THEN {} ELSE InTurn(AvahiTurn, k)

\* _store_enabled: an error and a blank answer are the same empty word.
AvahiWord(answer) == IF answer \in {"none", "waiting"} THEN "" ELSE answer

\* _verdict
AvahiState(g) ==
    LET socket == AvahiWord(g.socket)
        service == AvahiWord(g.service)
        active == AvahiWord(g.active)
    IN  CASE "not-found" \in {socket, IF socket = "" THEN service ELSE ""} -> "absent"
          [] socket = "masked"   -> "warning"
          [] socket = "enabled"  -> Per([active |-> "ok", reloading |-> "ok", failed |-> "critical",
                                         inactive |-> "ok"], active, "info")
          [] socket = "disabled" -> "warning"
          [] OTHER               -> "unknown"

\* _plain_verdict
AvahiLevel(g) ==
    Per([absent |-> "absent", ok |-> "ok", critical |-> "error", warning |-> "off"],
        AvahiState(g), "unknown")

AvahiUnitRows(g) ==
    LET Sentence(answer) == IF AvahiWord(answer) = "" THEN "unread" ELSE answer IN
    [service |-> Sentence(g.service), socket |-> Sentence(g.socket), dbus |-> Sentence(g.dbus),
     active  |-> Sentence(g.active),
     count   |-> IF g.units = "counted" THEN "ok" ELSE "unread"]

\* A question to ss that failed leaves the list empty; the row claims no more than
\* that nothing was found.
AvahiListenRow(g) ==
    Per([named |-> "owner", unnamed |-> "held"], g.ss,
        IF g.tools = "neither" THEN "unread" ELSE "unknown")

AvahiFileRows(g) ==
    [conf  |-> [keys |-> "ok", unreadable |-> "unread", comments |-> "defaults"][g.conf],
     files |-> [listed |-> "ok", absent |-> "absent", unlistable |-> "unread",
                empty |-> "empty"][g.files]]

AvahiPlan ==
    Gathers(AvahiAnswers, {"tools", "conf", "files"},
            [ok |-> {"socket", "active"}, off |-> {"socket"}])
-----------------------------------------------------------------------------
(* Interrupt Balancing (irqbalance.py)                                     *)

IrqAnswers ==
    [enabled    |-> <<"enabled", "none", "static", "masked", "not-found">>,
     active     |-> <<"active", "none", "inactive", "failed">>,
     interrupts |-> <<"broad", "absent", "unreadable", "empty", "single", "unspread">>,
     unit       |-> <<"conditions", "absent", "unreadable", "other">>,
     env        |-> <<"flags", "absent", "unreadable", "empty">>]

IrqFollow(k, g) == AtOnce({"enabled", "active"}, k)

\* _plain_verdict
IrqLevel(g) ==
    CASE g.enabled = "none" /\ g.active = "none" -> "unknown"
      [] g.enabled = "not-found" -> "absent"
      [] g.active = "failed"     -> "warning"
      [] g.active = "active"     -> "ok"
      [] OTHER                   -> "off"

\* _verdict
IrqStatus(g) ==
    CASE g.enabled = "none" /\ g.active = "none" -> "unread"
      [] g.enabled \in {"not-found", "masked", "static"} -> g.enabled
      [] g.active = "failed" -> "failed"
      [] g.active = "active" -> IF g.enabled = "enabled" THEN "running" ELSE "running now"
      [] g.active = "inactive" -> "not running"
      [] OTHER -> "unknown"

IrqDaemonRows(g) ==
    LET Said(answer) == IF answer = "none" THEN "unread" ELSE answer IN
    [enabled |-> Said(g.enabled), active |-> Said(g.active), status |-> IrqStatus(g),
     conditions |-> [conditions |-> "ok", absent |-> "empty", unreadable |-> "unread",
                     other |-> "empty"][g.unit]]

IrqFileRows(g) ==
    [env |-> [flags |-> "ok", absent |-> "absent", unreadable |-> "unread", empty |-> "empty"][g.env]]

\* _render_affinity: how many interrupts are held to one CPU.
IrqAffinityRow(g) ==
    [broad |-> "broad", single |-> "single", unspread |-> "unknown", empty |-> "empty",
     absent |-> "unread", unreadable |-> "unread"][g.interrupts]

\* _saved would load again; no save of config_edit succeeds (README, "Divergences").
IrqPlan ==
    Gathers(IrqAnswers, {"interrupts", "unit", "env"},
            [ok |-> {"active"}, off |-> {"active"}])
-----------------------------------------------------------------------------
(* Windows file sharing (smb.py)                                           *)

\* Seven tools in turn; the shares of users and the directories on the spot.
SmbAnswers ==
    [tools    |-> <<"all", "neither", "no testparm">>,
     usershares |-> <<"empty", "unlistable", "shared", "unreadable">>,
     testparm |-> <<"shares", "none", "silent", "rejected", "noshares">>,
     version  |-> <<"known", "none">>,
     units    |-> <<"new", "none", "old">>,
     enabled  |-> <<"enabled", "none", "disabled", "masked", "not-found">>,
     active   |-> <<"active", "none", "inactive", "failed">>,
     accounts |-> <<"listed", "none", "silent", "disabled">>,
     ss       |-> <<"named", "none", "quiet", "unnamed">>]

SmbTurn == <<"testparm", "version", "units", "enabled", "active", "accounts", "ss">>

SmbFollow(k, g) == IF g.tools = "neither" THEN {} ELSE InTurn(SmbTurn, k)

\* _read_config: loaded, or no output and a clean exit; anything else is an error.
SmbConfigError(g) == g.tools # "all" \/ g.testparm \in {"none", "rejected"}
SmbShares(g)      == ~SmbConfigError(g) /\ g.testparm = "shares"

\* _plain_verdict
SmbLevel(g) ==
    CASE g.tools # "all"      -> "absent"
      [] SmbConfigError(g)    -> "error"
      [] ~SmbShares(g)        -> "empty"
      [] g.active = "active"  -> "ok"
      [] OTHER                -> "off"

SmbServiceRows(g) ==
    [units   |-> IF g.units \in {"new", "old"} THEN "listed" ELSE "unread",
     legacy  |-> Per([new |-> "gone", old |-> "there"], g.units, "no row"),
     enabled |-> IF g.enabled \in {"none", "waiting"} THEN "unread" ELSE g.enabled,
     active  |-> IF g.active \in {"none", "waiting"} THEN "unread" ELSE g.active]

SmbShareRows(g) ==
    [shares  |-> IF SmbConfigError(g) THEN "unread" ELSE IF SmbShares(g) THEN "listed" ELSE "empty",
     usershares |-> [empty |-> "empty", unlistable |-> "unread", shared |-> "listed",
                     unreadable |-> "unread"][g.usershares]]

\* _read_accounts, _read_sockets: no output is an answer only after a clean exit.
SmbAccountRows(g) ==
    [accounts |-> Per([listed |-> "listed", disabled |-> "warning", silent |-> "empty"],
                      g.accounts, "unread"),
     ports    |-> Per([named |-> "owner", unnamed |-> "held", none |-> "unread"], g.ss, "empty")]

\* _on_saved does not load again.
SmbPlan ==
    [Gathers(SmbAnswers, {"tools", "usershares"},
             [ok |-> {"testparm", "active"}, off |-> {"testparm", "active"},
              empty |-> {"testparm"}]) EXCEPT !.act = "stays"]
-----------------------------------------------------------------------------
(* Backup battery (ups.py, system_status.ups_state)                        *)

UpsAnswers ==
    [conf    |-> <<"monitor", "absent", "unreadable", "bare">>,
     service |-> <<"active", "none", "inactive", "odd">>,
     upsc    |-> <<"figures", "none">>]

\* upsc is asked only when a battery is named.
UpsFollow(k, g) ==
    CASE k = "refresh" -> {"service"}
      [] k = "service" /\ g.conf = "monitor" -> {"upsc"}
      [] OTHER -> {}

\* _on_state: a file that could not be read is not installed either.
UpsLevel(g) ==
    CASE g.conf # "monitor"      -> "absent"
      [] g.service = "inactive"  -> "warning"
      [] g.service = "active"    -> "ok"
      [] OTHER                   -> "unknown"

UpsRows(g) ==
    [state   |-> Per([monitor |-> "named", bare |-> "empty"], g.conf, "unread"),
     service |-> IF g.conf \in {"absent", "unreadable"} THEN "not installed"
                 ELSE Per([active |-> "running", inactive |-> "stopped"], g.service, "unread")]

UpsPlan ==
    Gathers(UpsAnswers, {"conf"},
            [ok |-> {"conf", "service"}, warning |-> {"service"}, absent |-> {"conf"}])
=============================================================================
