----------------------------- MODULE DevicePages -----------------------------
(***************************************************************************)
(* The pages about the machine and what is attached to it: services,       *)
(* firmware, the journal, printers, cameras and the hardware itself.  What *)
(* they ask, what they say on top and what their rows say.                 *)
(***************************************************************************)
EXTENDS Plans, Integers, FiniteSets
-----------------------------------------------------------------------------
(* Services (services.py)                                                  *)

\* list-unit-files and list-units at once, each kept by the page until both are
\* there.
ServAnswers ==
    [files |-> <<"listed", "none">>,
     units |-> <<"fine", "none", "failed">>]

ServFollow(k, g) == AtOnce({"files", "units"}, k)

\* (mutant: a list that failed is taken for one that was read)
ServLevelUnread(g) ==
    CASE "waiting" \in {g.files, g.units}    -> "busy"
      [] g.units = "failed"                  -> "warning"
      [] OTHER                               -> "ok"

\* _got, _plain_verdict: one that fails is said at once.
ServLevel(g) ==
    CASE "none" \in {g.files, g.units}       -> "error"
      [] "waiting" \in {g.files, g.units}    -> "busy"
      [] g.units = "failed"                  -> "warning"
      [] OTHER                               -> "ok"

\* _populate
ServRows(g) ==
    [list |-> IF "none" \in {g.files, g.units} THEN "error"
              ELSE IF "waiting" \in {g.files, g.units} THEN "not read yet" ELSE "listed"]

\* A switch or a menu entry runs systemctl, and the page reads again 400 ms after
\* it; no answer knows which reading asked for it.
ServPlan ==
    [Refreshes(ServAnswers,
               [ok |-> {"files", "units"}, warning |-> {"files", "units"}])
     EXCEPT !.again = FALSE, !.on = "kept", !.act = "reloads",
            !.unchecked = {"files", "units"}, !.uncounted = {"files", "units"}]
-----------------------------------------------------------------------------
(* Firmware (firmware.py)                                                  *)

FirmAnswers ==
    [microcode |-> <<"known", "unreadable">>,
     devices   |-> <<"some", "none", "odd", "empty">>]

FirmFollow(k, g) == AtOnce({"devices"}, k)

FirmLevel(g) == "none"

\* _render_devices, _render_microcode
FirmRows(g) ==
    [devices   |-> [waiting |-> "not read yet", none |-> "error", odd |-> "error",
                    some |-> "listed", empty |-> "0"][g.devices],
     microcode |-> IF g.microcode = "known" THEN "listed" ELSE "unread"]

\* load_devices has a busy flag and its button stays.
FirmPlan ==
    Gathers(FirmAnswers, {"microcode"}, <<>>)

UpdAnswers == [updates |-> <<"empty", "none", "odd", "some">>]

UpdFollow(k, g) == AtOnce({"updates"}, k)

\* _plain_updates
UpdLevel(g) ==
    [waiting |-> "busy", none |-> "error", odd |-> "error", some |-> "warning", empty |-> "ok"][g.updates]

\* _render_updates
UpdRows(g) ==
    [updates |-> [waiting |-> "not read yet", none |-> "error", odd |-> "error",
                  some |-> "listed", empty |-> "nothing"][g.updates]]

\* check_updates puts its buttons off; install_updates leaves the list as it was.
UpdPlan ==
    [Refreshes(UpdAnswers, [ok |-> {"updates"}, warning |-> {"updates"}])
     EXCEPT !.on = "asked", !.act = "stays"]
-----------------------------------------------------------------------------
(* Journal Search (journal.py)                                             *)

\* What the journal keeps by its drop-ins, and what it takes on the disk.
JournAnswers ==
    [retention |-> <<"set", "unreadable", "empty">>,
     usage     |-> <<"size", "none">>]

JournFollow(k, g) == AtOnce({"usage"}, k)

JournLevel(g) == "none"

\* _load_usage
JournRows(g) == [usage |-> [waiting |-> "not read yet", none |-> "error", size |-> "size"][g.usage]]

JournPlan == Gathers(JournAnswers, {"retention"}, <<>>)

\* The boots journalctl lists; a listing that failed is handed over as an empty one.
StartsAnswers == [boots |-> <<"some", "none", "odd">>]

StartsFollow(k, g) == AtOnce({"boots"}, k)

StartsLevel(g) == "none"

\* _render_boots
StartsRows(g) ==
    [boots |-> [waiting |-> "not read yet", none |-> "no boot", odd |-> "no boot", some |-> "listed"][g.boots]]

\* _load_boots
StartsPlan ==
    [Refreshes(StartsAnswers, <<>>) EXCEPT !.on = "off"]

\* search: the latest messages, matched here.
FindAnswers == [rows |-> <<"some", "none", "empty">>]

FindFollow(k, g) == AtOnce({"rows"}, k)

FindLevel(g) == "none"

\* _render_messages
FindRows(g) ==
    [messages |-> [waiting |-> "not read yet", none |-> "not read yet", some |-> "listed",
                   empty |-> "nothing"][g.rows]]

\* No answer at all (journalctl that does not start, or words that are not UTF-8)
\* is None, which the second done cannot iterate: it raises before it clears the
\* busy flag.
FindPlan ==
    [Refreshes(FindAnswers, <<>>)
     EXCEPT !.on = "asked", !.silent = {<<"rows", "none">>}]
-----------------------------------------------------------------------------
(* Clean Up (maintenance.py)                                               *)

SpaceAnswers == [space |-> <<"room", "unreadable", "full">>]

SpaceFollow(k, g) == {}

\* _update_space
SpaceLevel(g) == [room |-> "ok", unreadable |-> "unknown", full |-> "warning"][g.space]

SpaceRows(g) == [space |-> IF g.space = "unreadable" THEN "unknown" ELSE g.space]

\* _run: one command at a time, and then the space again.
SpacePlan ==
    [Refreshes(SpaceAnswers, [ok |-> {"space"}, warning |-> {"space"}])
     EXCEPT !.instant = {"space"}, !.again = FALSE, !.act = "reloads"]
-----------------------------------------------------------------------------
(* Printers (printers.py)                                                  *)

\* Five questions one after the other, and SANE beside them.
PrintAnswers ==
    [cups      |-> <<"present", "absent">>,
     scheduler |-> <<"running", "none", "odd", "not running">>,
     queues    |-> <<"printers", "none", "paused", "empty">>,
     options   |-> <<"set", "none", "empty">>,
     backends  |-> <<"listed", "none", "empty">>,
     browsed   |-> <<"enabled", "none", "masked">>,
     scanners  |-> <<"found", "none", "empty">>]

\* printers_state: step, and scan_landed.
PrintTurn == <<"scheduler", "queues", "options", "backends", "browsed">>
PrintFollow(k, g) ==
    IF g.cups = "absent" THEN {} ELSE AtOnce({"scanners"}, k) \cup InTurn(PrintTurn, k)

\* _read_queues drops what lpstat said of a scheduler that is not running.
PrintQueues(g) == IF g.scheduler = "not running" THEN "empty" ELSE g.queues

\* _plain_verdict: queues that were not read, or not yet, are no printer.
PrintLevel(g) ==
    CASE g.cups = "absent" -> "absent"
      [] g.scheduler = "not running" -> "warning"
      [] g.scheduler = "running" ->
             Per([printers |-> "ok", paused |-> "paused"], PrintQueues(g), "no printer")
      [] OTHER -> "unknown"

\* _render_daemon, _render_queues, _render_scanners, _render_options
PrintRows(g) ==
    [scheduler |-> IF g.cups = "absent" THEN "error"
                   ELSE Per([waiting |-> "not read yet", none |-> "error", odd |-> "error"],
                            g.scheduler, g.scheduler),
     queues    |-> IF PrintQueues(g) \in {"printers", "paused"} THEN "listed"
                   ELSE IF g.scheduler = "running" THEN "no queue" ELSE "unread",
     options   |-> IF g.options = "set" THEN "listed" ELSE "none set",
     backends  |-> Per([none |-> "error", listed |-> "listed"], g.backends, "none listed"),
     browsed   |-> Per([waiting |-> "unknown", none |-> "unknown"], g.browsed, g.browsed),
     scanners  |-> Per([waiting |-> "not read yet", none |-> "error"], g.scanners, g.scanners)]

\* The page is drawn when the turn is over and when SANE has answered.
PrintPlan ==
    [Gathers(PrintAnswers, {"cups"},
             [ok |-> {"scheduler", "queues"}, paused |-> {"scheduler", "queues"},
              warning |-> {"scheduler"}] @@ ("no printer" :> {"scheduler", "queues"}))
     EXCEPT !.each = TRUE,
            !.silent = {<<k, v>> : k \in {"scheduler", "queues", "options", "backends"},
                                   v \in UNION {{PrintAnswers[q][i] : i \in DOMAIN PrintAnswers[q]} :
                                                 q \in DOMAIN PrintAnswers}}]
-----------------------------------------------------------------------------
(* Camera (camera.py)                                                      *)

\* /sys/class/video4linux; v4l2-ctl and pw-cli at once.
CamAnswers ==
    [class    |-> <<"nodes", "unlistable", "empty">>,
     v4l2     |-> <<"present", "absent">>,
     cards    |-> <<"listed", "none">>,
     pipewire |-> <<"published", "none", "unpublished", "empty">>]

CamFollow(k, g) == AtOnce({"pipewire"} \cup (IF g.v4l2 = "present" THEN {"cards"} ELSE {}), k)

\* _plain_verdict
CamLevel(g) ==
    CASE g.class = "unlistable"     -> "unknown"
      [] g.class = "empty"          -> "no camera"
      [] g.pipewire = "published"   -> "ok"
      [] g.pipewire = "none"        -> "maybe"
      [] OTHER                      -> "warning"

\* _device_title, _device_subtitle, _on_state
CamRows(g) ==
    [devices  |-> IF g.class = "unlistable" THEN "error" ELSE g.class,
     camera   |-> IF g.class # "nodes" THEN "no row"
                  ELSE Per([published |-> "camera", none |-> "unknown"], g.pipewire, "not a camera"),
     pipewire |-> IF g.pipewire = "none" THEN "error" ELSE g.pipewire]

CamPlan ==
    Gathers(CamAnswers, {"class", "v4l2"},
            [ok |-> {"class", "pipewire"}, warning |-> {"class", "pipewire"}]
               @@ ("no camera" :> {"class"}))
-----------------------------------------------------------------------------
(* Drivers (drivers.py)                                                    *)

\* probe_pci_devices and _load_module_names, one after the other on the main thread.
DriveAnswers ==
    [devices |-> <<"listed", "none", "driverless", "empty">>,
     drivers |-> <<"bound", "none">>,
     modules |-> <<"loaded", "none">>]

DriveFollow(k, g) == {}

\* The devices whose driver `lspci -k' names.
DriveBound(g) == IF g.drivers = "none" THEN {} ELSE {"listed"}

\* _plain_verdict
DriveLevel(g) ==
    CASE g.devices \in {"none", "empty"} -> "unknown"
      [] g.devices \in DriveBound(g)     -> "ok"
      [] OTHER                           -> "no driver"

\* _update_data
DriveRows(g) ==
    [devices |-> IF g.devices \in {"none", "empty"} THEN "not detected" ELSE "listed",
     driver  |-> IF g.devices \in {"none", "empty"} THEN "unknown"
                 ELSE IF g.devices \in DriveBound(g) THEN "driver" ELSE "no driver",
     modules |-> IF g.modules = "none" THEN "0" ELSE "count"]

DrivePlan ==
    Gathers(DriveAnswers, DOMAIN DriveAnswers,
            [ok |-> {"devices", "drivers"}] @@ ("no driver" :> {"devices", "drivers"}))
-----------------------------------------------------------------------------
(* Kernel Modules (modules.py)                                             *)

ModAnswers == [loaded |-> <<"listed", "unreadable">>]

ModFollow(k, g) == {}

\* load
ModLevel(g) == IF g.loaded = "listed" THEN "ok" ELSE "unknown"

\* _render_modules
ModRows(g) == [summary |-> IF g.loaded = "listed" THEN "count" ELSE "error"]

ModPlan == Gathers(ModAnswers, {"loaded"}, [ok |-> {"loaded"}])

\* /etc/modprobe.d and the page's own drop-in in it.
BlackAnswers ==
    [dir    |-> <<"listed", "unlistable", "absent">>,
     dropin |-> <<"modules", "empty", "unreadable">>]

BlackFollow(k, g) == {}

BlackLevel(g) == "none"

\* module_blacklist passes over a file that it cannot read.
BlackRows(g) ==
    [status  |-> Per([unlistable |-> "error", absent |-> "empty"], g.dir, "entries"),
     entries |-> IF g.dir = "listed" /\ g.dropin = "modules" THEN "listed" ELSE "no entry"]

\* _on_saved reads again.
BlackPlan ==
    [Gathers(BlackAnswers, DOMAIN BlackAnswers, <<>>)
     EXCEPT !.act = "reloads"]
-----------------------------------------------------------------------------
(* Graphics (graphics.py)                                                  *)

\* /dev/dri and `lspci -k'.
GraphAnswers ==
    [nodes |-> <<"some", "unlistable", "empty">>,
     cards |-> <<"bound", "none", "unbound", "empty">>]

GraphFollow(k, g) == AtOnce({"cards"}, k)

\* _plain_verdict: nodes that cannot be listed are none.
GraphLevel(g) ==
    CASE g.cards = "waiting" -> "busy"
      [] g.cards = "none"    -> "unknown"
      [] g.cards = "empty"   -> "no card"
      [] g.cards = "unbound" -> "no driver"
      [] g.nodes # "some"    -> "no node"
      [] OTHER               -> "ok"

\* _render
GraphRows(g) ==
    [cards |-> Per([waiting |-> "not read yet", none |-> "error"], g.cards, "listed"),
     nodes |-> IF g.nodes = "some" THEN "listed" ELSE "no nodes"]

GraphPlan ==
    Gathers(GraphAnswers, {"nodes"},
            [ok |-> {"cards", "nodes"}] @@ ("no card" :> {"cards"}) @@ ("no driver" :> {"cards"})
               @@ ("no node" :> {"cards", "nodes"}))

\* switcheroo-control, over D-Bus.
HybridAnswers == [switcheroo |-> <<"one", "none", "odd", "dual", "empty">>]

HybridFollow(k, g) == AtOnce({"switcheroo"}, k)

HybridLevel(g) == "none"

\* _render_hybrid
HybridRows(g) ==
    [switching |-> Per([waiting |-> "not read yet", none |-> "error", odd |-> "error",
                        dual |-> "hybrid"], g.switcheroo, "one card")]

\* The button goes off until the answer is there.
HybridPlan ==
    [Refreshes(HybridAnswers, <<>>) EXCEPT !.on = "off"]
-----------------------------------------------------------------------------
(* Sound (audio.py)                                                        *)

\* wpctl status: its sinks and sources, by the section they stand in.
SoundAnswers == [wpctl |-> <<"sinks", "none", "no sinks">>]

SoundFollow(k, g) == AtOnce({"wpctl"}, k)

\* _plain_verdict
SoundLevel(g) ==
    Per([waiting |-> "busy", sinks |-> "ok", none |-> "error"], g.wpctl, "no output")

\* _render
SoundRows(g) ==
    [server |-> Per([waiting |-> "not read yet", none |-> "error"], g.wpctl, "connected"),
     outputs |-> Per([waiting |-> "no row", none |-> "no row", sinks |-> "listed"], g.wpctl, "no outputs")]

SoundPlan ==
    [Refreshes(SoundAnswers,
               [ok |-> {"wpctl"}] @@ ("no output" :> {"wpctl"}))
     EXCEPT !.on = "off"]
-----------------------------------------------------------------------------
(* Boot Entries (boot_entries.py)                                          *)

EfiAnswers ==
    [tool     |-> <<"present", "absent">>,
     firmware |-> <<"efi", "no efi">>,
     menu     |-> <<"entries", "none", "empty">>]

EfiFollow(k, g) == AtOnce(IF g.tool = "present" THEN {"menu"} ELSE {}, k)

\* boot_entries_state: why there is no menu.
EfiProblem(g) ==
    CASE g.tool = "absent"                                 -> "not-installed"
      [] g.menu = "waiting"                                -> "waiting"
      [] g.menu = "none" /\ g.firmware = "no efi"          -> "no-efi-vars"
      [] g.menu = "none"                                   -> "read-failed"
      [] OTHER                                             -> "no problem"

\* _on_state
EfiLevel(g) ==
    IF EfiProblem(g) # "no problem" THEN EfiProblem(g)
    ELSE IF g.menu = "empty" THEN "nothing to start" ELSE "ok"

EfiRows(g) ==
    [state |-> IF EfiProblem(g) = "waiting" THEN "not read yet"
               ELSE IF EfiProblem(g) = "no problem" THEN g.menu ELSE "error"]

EfiPlan ==
    Gathers(EfiAnswers, {"tool", "firmware"},
            [ok |-> {"menu"}] @@ ("nothing to start" :> {"menu"}))
-----------------------------------------------------------------------------
(* Health (health.py)                                                      *)

\* journalctl and coredumpctl at once; coredumpctl without a crash fails too.
HealthAnswers ==
    [journal |-> <<"quiet", "none", "errors">>,
     crashes |-> <<"quiet", "none", "crashes">>]

HealthFollow(k, g) == AtOnce({"journal", "crashes"}, k)

\* _plain_verdict, when both are there.
HealthLevel(g) ==
    CASE "waiting" \in {g.journal, g.crashes}             -> "busy"
      [] g.journal = "none"                               -> "unknown"
      [] g.journal = "quiet" /\ g.crashes # "crashes"     -> "no problems"
      [] OTHER                                            -> "warning"

\* _on_journal, _on_crashes
HealthRows(g) ==
    [journal |-> Per([waiting |-> "not read yet", none |-> "error", quiet |-> "no errors"],
                     g.journal, "listed"),
     crashes |-> Per([waiting |-> "not read yet", crashes |-> "listed"], g.crashes, "no crashes")]

HealthPlan ==
    [Gathers(HealthAnswers, {},
             [warning |-> {"journal"}] @@ ("no problems" :> {"journal", "crashes"}))
     EXCEPT !.each = TRUE]
-----------------------------------------------------------------------------
(* The hardware and the storage card (system.py, device.py)                *)

\* lspci and bluetoothctl by _gather; powerprofilesctl get and then list.
CardsAnswers ==
    [gpu       |-> <<"named", "none">>,
     bluetooth |-> <<"on", "none", "off">>,
     profile   |-> <<"balanced", "none">>,
     list      |-> <<"drivers", "none">>]

CardsFollow(k, g) ==
    IF k = "profile" THEN {"list"} ELSE AtOnce({"gpu", "bluetooth", "profile"}, k)

CardsLevel(g) == "none"

\* hardware_card: each row has its own fallback.
CardsRows(g) ==
    [gpu       |-> Per([waiting |-> "not read yet", none |-> "unknown"], g.gpu, g.gpu),
     bluetooth |-> Per([waiting |-> "not read yet", on |-> "active"], g.bluetooth, "inactive"),
     profile   |-> CASE g.profile = "waiting" -> "not read yet"
                     [] g.profile = "none"    -> "unknown"
                     [] OTHER                 -> "profile",
     driver    |-> IF g.profile = "balanced" /\ g.list = "drivers" THEN "named" ELSE "no row"]

\* The card comes once, with every row.
CardsPlan ==
    Gathers(CardsAnswers, {}, <<>>)
-----------------------------------------------------------------------------
(* App Versions (app_versions.py)                                          *)

\* flatpak is asked in turn, as its first calls race each other on a new account.
FlatAnswers ==
    [tool    |-> <<"present", "absent">>,
     version |-> <<"printed", "none">>,
     apps    |-> <<"listed", "none", "empty">>,
     remotes |-> <<"listed", "none">>]

FlatFollow(k, g) ==
    IF g.tool = "absent" THEN {} ELSE InTurn(<<"version", "apps", "remotes">>, k)

FlatLevel(g) == "none"

\* _on_flatpak: an error of any of the questions, and no application.
FlatRows(g) ==
    [status |-> CASE g.tool = "absent" -> "not installed"
                  [] g.apps = "listed" -> "listed"
                  [] "waiting" \in {g.version, g.apps, g.remotes} -> "not read yet"
                  [] "none" \in {g.version, g.apps, g.remotes} -> "error"
                  [] OTHER -> "no applications"]

FlatPlan == Gathers(FlatAnswers, {"tool"}, <<>>)

\* The button: `snap list' with a limit of its own, over which it is no answer.
SnapAnswers == [list |-> <<"listed", "none", "odd", "empty">>]

SnapFollow(k, g) == AtOnce({"list"}, k)

SnapLevel(g) == "none"

\* (mutant: a list that failed is an empty one)
SnapRowsUnread(g) == [list |-> Per([waiting |-> "no row", listed |-> "listed"], g.list, "no snaps")]

\* _on_snap_list
SnapRows(g) ==
    [list |-> Per([waiting |-> "no row", none |-> "error", odd |-> "error", listed |-> "listed"],
                  g.list, "no snaps")]

\* The button stays and the answers do not know their reading.
SnapPlan ==
    [Refreshes(SnapAnswers, <<>>)
     EXCEPT !.on = "kept", !.unchecked = {"list"}, !.uncounted = {"list"}]
=============================================================================
