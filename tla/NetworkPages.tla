---------------------------- MODULE NetworkPages ----------------------------
(***************************************************************************)
(* The pages about the network: what they ask, what they say on top and    *)
(* what their rows say.                                                    *)
(***************************************************************************)
EXTENDS Plans, Integers, FiniteSets

\* The words systemctl is-active may say; a page that keeps only these takes any
\* other for nothing.
Words == <<"active", "none", "inactive", "failed">>
-----------------------------------------------------------------------------
(* Firewall (firewall.py)                                                  *)

\* Three of the queries of firewall-cmd, and fail2ban-client, which names its jails.
FireAnswers ==
    [tools    |-> <<"both", "fail2ban only", "neither">>,
     state    |-> <<"running", "none", "not running", "silent">>,
     zones    |-> <<"zones", "none", "empty">>,
     services |-> <<"open", "none", "empty">>,
     status   |-> <<"one jail", "none", "no jail">>,
     jail     |-> <<"quiet", "none", "banned">>]

\* refresh, _after
FireFollow(k, g) ==
    CASE k = "refresh" -> (IF g.tools = "both" THEN {"state", "zones", "services"} ELSE {})
                          \cup (IF g.tools = "neither" THEN {} ELSE {"status"})
      [] k = "status" /\ g.status = "one jail" -> {"jail"}
      [] OTHER -> {}

\* _plain_verdict: that the rest is blocked is said also when the services were
\* not read, without naming one.
FireLevel(g) ==
    IF g.tools # "both" THEN "absent"
    ELSE Per([waiting |-> "busy", none |-> "warning"] @@ ("not running" :> "off"), g.state,
             IF g.services = "open" THEN "ok, but for" ELSE "ok")

\* _fw_summary, _zone_rows, _config_rows; a query that has not answered has a row of
\* its own that says so.
FireQueryRow(g, k) ==
    IF g.tools # "both" THEN "no row"
    ELSE Per([waiting |-> "not read yet", none |-> "unread", silent |-> "warning",
              empty |-> "empty"] @@ ("not running" :> "critical"), g[k], "listed")

FireQueryRows(g) ==
    [state    |-> IF g.tools # "both" THEN "absent" ELSE FireQueryRow(g, "state"),
     zones    |-> FireQueryRow(g, "zones"),
     services |-> FireQueryRow(g, "services")]

\* _render_fail2ban, _server_row, _jail_row
FireJailRows(g) ==
    [server |-> IF g.tools = "neither" THEN "absent"
                ELSE Per([waiting |-> "not read yet", none |-> "unread"], g.status, g.status),
     jail   |-> IF g.status # "one jail" THEN "no row"
                ELSE [waiting |-> "not read yet", none |-> "unread", banned |-> "banned",
                      quiet |-> "listed"][g.jail]]

FirePlan ==
    [Refreshes(FireAnswers,
               [ok |-> {"state"}, off |-> {"state"}] @@ ("ok, but for" :> {"state", "services"}))
     EXCEPT !.instant = {"tools"}]
-----------------------------------------------------------------------------
(* Name Lookups (dns.py, system_status.dns_state)                          *)

\* resolv.conf and resolved.conf on the spot, then is-active of the resolvers, one
\* after the other: two of five here.  resolv.conf names who writes it.
DnsAnswers ==
    [resolv   |-> <<"owned", "unreadable", "missing", "plain">>,
     resolved |-> <<"plain", "unreadable", "servers">>,
     local1   |-> Words,
     local2   |-> <<"inactive", "none", "active">>]

\* _probe and fill: after the last resolver the state is handed over; the read of
\* who listens on port 53 is never reached.
DnsFollow(k, g) == InTurn(<<"local1", "local2">>, k)

DnsActive(g) == {k \in {"local1", "local2"} : g[k] = "active"}

\* _plain_state
DnsLevel(g) ==
    CASE g.resolv = "missing" -> "error"
      [] Cardinality(DnsActive(g)) > 1 -> "warning"
      [] DnsActive(g) # {} \/ g.resolv = "owned" -> "ok"
      [] OTHER -> "nothing answers"

\* _on_state; nothing is listed of a file that was not read.
DnsRows(g) ==
    [resolvers |-> CASE DnsActive(g) # {} -> "active"
                     [] g.resolv = "owned" -> "no local resolver"
                     [] OTHER -> "none is active",
     port53    |-> "nothing",
     resolv    |-> Per([owned |-> "named", plain |-> "servers", missing |-> "missing"], g.resolv, "empty"),
     resolved  |-> IF g.resolved = "servers" THEN "servers" ELSE "none configured"]

DnsPlan ==
    Gathers(DnsAnswers, {"resolv", "resolved"},
            [error |-> {"resolv"}, warning |-> {"local1", "local2"}]
               @@ ("nothing answers" :> {"resolv", "local1", "local2"}))
-----------------------------------------------------------------------------
(* Encrypted lookups (dns.py, system_status.dnscrypt_state)                *)

CryptAnswers ==
    [tool    |-> <<"present", "absent">>,
     conf    |-> <<"encrypts", "unreadable", "bare">>,
     servers |-> <<"proxy", "none", "elsewhere">>,
     service |-> Words]

CryptFollow(k, g) ==
    IF g.tool = "absent" THEN {} ELSE InTurn(<<"servers", "service">>, k)

\* The reply of nmcli is looked through for the proxy's addresses, an empty one has none.
CryptPoints(g) == g.servers = "proxy"

\* The rows of the lines on top are all there is: _on_dnscrypt.
CryptLevel(g) ==
    CASE g.tool = "absent" -> "absent"
      [] g.service = "active" /\ CryptPoints(g) -> "on"
      [] g.service = "failed" -> "warning"
      [] OTHER -> "off"

CryptRows(g) ==
    IF g.tool = "absent" THEN [service |-> "no row", transports |-> "no row", points |-> "no row"]
    ELSE [service    |-> Per([active |-> "running", failed |-> "failed", inactive |-> "stopped"],
                             g.service, "unknown"),
          transports |-> IF g.conf = "encrypts" THEN "listed" ELSE "none enabled",
          points     |-> IF CryptPoints(g) THEN "yes" ELSE "no"]

CryptPlan ==
    Gathers(CryptAnswers, {"tool", "conf"},
            [on |-> {"servers", "service"}, off |-> {"servers", "service"}, warning |-> {"service"}])
-----------------------------------------------------------------------------
(* Tracking by address (dns.py, system_status.ipv6_privacy_state)          *)

TrackAnswers ==
    [addresses |-> <<"stable", "unreadable", "empty", "hardware", "some rotate", "all rotate">>,
     config    |-> <<"off", "none", "on", "odd">>]

TrackFollow(k, g) == {}

\* _plain_privacy
TrackLevel(g) ==
    Per([unreadable |-> "unknown", empty |-> "ok", hardware |-> "warning", stable |-> "info"],
        g.addresses, "ok")

\* _on_privacy: when nothing could be read the setting is not looked at.
TrackRows(g) ==
    [addresses |-> Per([unreadable |-> "error", empty |-> "empty"], g.addresses, "listed"),
     config    |-> IF g.addresses = "unreadable" THEN "unknown"
                   ELSE [off |-> "off", on |-> "on", none |-> "unknown", odd |-> "unknown"][g.config]]

TrackPlan ==
    Gathers(TrackAnswers, {"addresses", "config"},
            [ok |-> {"addresses"}, info |-> {"addresses"}, warning |-> {"addresses"}])
-----------------------------------------------------------------------------
(* Network Accounts (directory.py)                                         *)

\* The two reports of shani-health, at once; "odd" is a report without the check.
DirAnswers ==
    [tool     |-> <<"present", "absent">>,
     security |-> <<"ok", "none", "odd", "warning", "ok, domains">>,
     info     |-> <<"ok", "none", "odd", "warning">>]

DirFollow(k, g) == IF g.tool = "present" THEN AtOnce({"security", "info"}, k) ELSE {}

\* _plain_verdict
DirLevel(g, busy) ==
    CASE g.tool = "absent" -> "absent"
      [] busy \/ (g.security = "waiting" /\ g.info = "waiting") -> "busy"
      [] g.security = "none" /\ g.info = "none" -> "unknown"
      [] g.security \in {"ok", "ok, domains"} -> "ok"
      [] OTHER -> "only here"

\* _render_key, _domains_row
DirKeyRow(g, mode) ==
    IF g.tool = "absent" THEN "absent"
    ELSE Per([waiting |-> "not read yet", none |-> "error", odd |-> "unknown"], g[mode], g[mode])

DirRows(g) ==
    [sssd     |-> DirKeyRow(g, "security"),
     domains  |-> IF g.security = "ok, domains" THEN "listed" ELSE "no row",
     slapd    |-> DirKeyRow(g, "info"),
     nsswitch |-> DirKeyRow(g, "info")]

DirPlan ==
    [Refreshes(DirAnswers,
               [ok |-> {"security"}] @@ ("only here" :> {"security"}))
     EXCEPT !.instant = {"tool"}]
-----------------------------------------------------------------------------
(* Reaching This Computer (inbound_access.py, inbound_access_state)        *)

\* is-active of the services of _REACHABILITY, one after the other: two of them here,
\* and one that has no unit and is judged by its file.
InboundAnswers ==
    [installed |-> <<"both", "neither">>,
     conf      |-> <<"absent", "present">>,
     unit1     |-> Words,
     unit2     |-> <<"inactive", "none", "active">>]

\* _probe: a service that is not installed is asked about all the same.
InboundFollow(k, g) == InTurn(<<"unit1", "unit2">>, k)

InboundActive(g) ==
    IF g.installed = "neither" THEN {} ELSE {k \in {"unit1", "unit2"} : g[k] = "active"}

\* _on_state
InboundLevel(g) ==
    CASE g.installed = "neither" /\ "none" \in {g.unit1, g.unit2} -> "unknown"
      [] InboundActive(g) # {} -> "warning"
      [] OTHER -> "ok"

\* What was not answered reads like what is off.
InboundRow(g, k) ==
    IF g.installed = "neither" THEN "no row"
    ELSE Per([active |-> "running", failed |-> "failed"], g[k],
             IF g.conf = "present" THEN "configured, off" ELSE "off")

InboundRows(g) == [unit1 |-> InboundRow(g, "unit1"), unit2 |-> InboundRow(g, "unit2")]

\* A switch starts systemctl, and a second after it ends the rows are taken down
\* and all is read again.
InboundPlan ==
    [Gathers(InboundAnswers, {"installed", "conf"},
             [warning |-> {}, ok |-> {"unit1", "unit2"}])
     EXCEPT !.on = "cleared", !.act = "reloads"]
-----------------------------------------------------------------------------
(* WireGuard (wireguard.py), Caddy (caddy.py), Cloudflare (cloudflared.py), *)
(* Remote Terminal (remote_access.py): read on the main loop, at once.     *)

\* valid_ifaces, and _unit_state of each interface; "odd" is a tool that failed.
WireAnswers ==
    [interfaces |-> <<"two", "none", "odd name">>,
     unit1      |-> <<"active", "odd", "failed", "not running">>,
     unit2      |-> <<"active", "odd", "not running">>]

WireFollow(k, g) == {}

\* refresh
WireLevel(g) ==
    CASE g.interfaces # "two" -> "no tunnel"
      [] "failed" \in {g.unit1, g.unit2} -> "warning"
      [] "active" \in {g.unit1, g.unit2} -> "ok"
      [] OTHER -> "none is up"

WireRow(g, k) == CASE g.interfaces # "two" -> "no row"
                   [] g[k] = "odd" -> "unknown"
                   [] OTHER -> g[k]
WireRows(g) == [unit1 |-> WireRow(g, "unit1"), unit2 |-> WireRow(g, "unit2")]

\* A switch starts systemctl in a thread; half a second after it ended all is read again.
WirePlan ==
    [Gathers(WireAnswers, DOMAIN WireAnswers,
             [warning |-> {}] @@ ("none is up" :> {"unit1", "unit2"}))
     EXCEPT !.act = "reloads"]

CaddyAnswers ==
    [file     |-> <<"sites", "missing", "empty", "unreadable">>,
     validate |-> <<"valid", "absent", "none", "invalid">>]

CaddyFollow(k, g) == {}

\* _file_card: what it finds is the line on top.
CaddyLevel(g) ==
    CASE g.file = "missing" -> "no file"
      [] g.validate = "absent" -> "absent"
      [] OTHER -> [valid |-> "ok", invalid |-> "error", none |-> "unknown"][g.validate]

\* _sites_card
CaddyRows(g) ==
    [checked |-> CASE g.file = "missing" -> "no row"
                   [] g.validate = "none" -> "error"
                   [] OTHER -> g.validate,
     sites |-> [missing |-> "no file", unreadable |-> "error", empty |-> "empty",
                sites |-> "listed"][g.file]]

CaddyPlan ==
    Gathers(CaddyAnswers, DOMAIN CaddyAnswers,
            [ok |-> {"validate"}, error |-> {"validate"}])

CloudAnswers ==
    [tool        |-> <<"present", "absent">>,
     version     |-> <<"known", "none">>,
     config      |-> <<"present", "missing">>,
     credentials |-> <<"present", "unlistable", "absent">>,
     tunnels     |-> <<"two", "none", "odd", "empty">>]

CloudFollow(k, g) == {}

\* _build
CloudLevel(g) ==
    CASE g.tool = "absent" /\ g.config = "missing" -> "absent"
      [] g.config = "missing" -> "no tunnel"
      [] g.tool = "absent" -> "warning"
      [] OTHER -> "ok"

\* _install_card, _config_card: a list that failed with a status prints nothing, which
\* is read as no tunnel.
CloudRows(g) ==
    LET Set(row) == IF g.config = "missing" THEN "no row" ELSE row IN
    [version     |-> CASE g.tool = "absent" -> "no row"
                       [] g.version = "none" -> "error"
                       [] OTHER -> "known",
     credentials |-> Set(IF g.credentials = "present" THEN "present" ELSE "absent"),
     tunnels     |-> Set(IF g.tool = "absent" THEN "no row"
                         ELSE [two |-> "listed", none |-> "error", odd |-> "empty",
                               empty |-> "empty"][g.tunnels])]

CloudPlan ==
    Gathers(CloudAnswers, DOMAIN CloudAnswers,
            [ok |-> {}, warning |-> {}])

\* The drop-in of sshd: what read_settings makes of its lines.
RemoteAnswers ==
    [file |-> <<"safe", "unreadable", "missing", "weak", "foreign line", "unknown value",
                "kept line">>,
     mode |-> <<"right", "loose">>]

RemoteFollow(k, g) == {}

\* _plain_verdict, from _redraw
RemoteLevel(g) ==
    Per([unreadable |-> "error", weak |-> "warning", missing |-> "usual"] @@ ("foreign line" :> "usual"),
        g.file, "ok")

\* _render_status, _render_settings, _render_kept
RemoteRows(g) ==
    [file     |-> IF g.file = "unreadable" THEN "error"
                  ELSE IF g.file = "missing" \/ g.mode = "loose" THEN "warning" ELSE "ok",
     settings |-> Per([unreadable |-> "error", missing |-> "empty"] @@ ("foreign line" :> "error")
                         @@ ("unknown value" :> "read only"), g.file, "editable"),
     kept     |-> IF g.file = "kept line" THEN "listed" ELSE "none"]

RemotePlan ==
    [Gathers(RemoteAnswers, DOMAIN RemoteAnswers,
             [ok |-> {"file"}, warning |-> {"file"}, usual |-> {"file"}])
     EXCEPT !.again = TRUE]
-----------------------------------------------------------------------------
(* System Mail (outbound_mail.py, system_status.exim_state)                *)

MailAnswers ==
    [transports |-> <<"relay", "none", "direct", "odd">>,
     queue      |-> <<"empty", "none", "waiting mail", "frozen">>]

MailFollow(k, g) == InTurn(<<"transports", "queue">>, k)

\* parse of the transports; text without one gives an empty list.
MailTransports(g) == g.transports \in {"relay", "direct"}

MailLevel(g) ==
    CASE ~MailTransports(g) -> "unknown"
      [] g.queue \in {"waiting mail", "frozen"} -> "warning"
      [] g.transports = "direct" -> "may not arrive"
      [] OTHER -> "ok"

\* _on_state: no queue was read, no message is waiting.
MailRows(g) ==
    [agent |-> IF MailTransports(g) THEN "named" ELSE "error",
     relay |-> Per([relay |-> "yes", direct |-> "no"], g.transports, "unknown"),
     queue |-> Per([frozen |-> "frozen"] @@ ("waiting mail" :> "listed"), g.queue, "empty")]

MailPlan ==
    Gathers(MailAnswers, {},
            [ok |-> {"transports", "queue"}, warning |-> {"queue"}])
-----------------------------------------------------------------------------
(* Hardware addresses and browsing (avahi.py)                              *)

\* What /sys/class/net says, and the locally-administered bit of the cards.
MacAnswers ==
    [tree |-> <<"cards", "unlistable", "empty">>,
     bits |-> <<"permanent", "local", "odd">>]

MacFollow(k, g) == {}

\* _on_macs
MacLevel(g) ==
    CASE g.tree = "unlistable"   -> "unknown"
      [] g.tree = "empty"        -> "no card"
      [] g.bits = "permanent"    -> "permanent"
      [] OTHER                   -> "local"

MacRows(g) ==
    [card |-> IF g.tree # "cards" THEN "no row" ELSE IF g.bits = "odd" THEN "unknown" ELSE g.bits]

MacPlan ==
    Gathers(MacAnswers, DOMAIN MacAnswers,
            [permanent |-> {"tree", "bits"}, local |-> {"tree", "bits"}])

\* The button: what avahi-browse prints, and its end.
BrowseAnswers == [browse |-> <<"lines", "none", "empty">>]

BrowseFollow(k, g) == AtOnce({"browse"}, k)

BrowseLevel(g) == "none"

\* _on_browse_clicked
BrowseRows(g) ==
    [browse |-> Per([waiting |-> "busy", none |-> "error", empty |-> "unknown"], g.browse, "listed")]

\* The button stays, and the lines of a browse do not know which click asked for them.
BrowsePlan ==
    [Refreshes(BrowseAnswers, <<>>)
     EXCEPT !.unchecked = {"browse"}, !.uncounted = {"browse"}]
=============================================================================
