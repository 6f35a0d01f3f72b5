---------------------------- MODULE StoragePages ----------------------------
(***************************************************************************)
(* The pages about disks and filesystems: what they ask, what they say on  *)
(* top and what their rows say.                                            *)
(***************************************************************************)
EXTENDS Plans, Integers, FiniteSets
-----------------------------------------------------------------------------
(* Compression (compression.py)                                            *)

\* compsize for each of two mounts at once and its version beside them; the mount
\* table, fstab and crypttab on the spot.
CompAnswers ==
    [tool     |-> <<"present", "absent">>,
     mounts   |-> <<"two", "unreadable", "empty">>,
     fstab    |-> <<"options", "unreadable", "plain">>,
     crypttab |-> <<"opened", "unreadable", "empty">>,
     version  |-> <<"known", "none">>,
     scan1    |-> <<"ok", "needs_privilege", "no_files", "all_empty", "not_btrfs", "odd">>,
     scan2    |-> <<"ok", "needs_privilege", "no_files", "odd">>]

\* parse_mountinfo of what _read returns: a table that could not be read has no
\* btrfs in it.
CompMounted(g) == g.mounts = "two"

CompFollow(k, g) ==
    IF k = "refresh" /\ g.tool = "present" /\ CompMounted(g)
    THEN {"version", "scan1", "scan2"} ELSE {}

CompScans(g, state) == {k \in {"scan1", "scan2"} : g[k] = state}

\* _verdict
CompLevel(g) ==
    CASE g.tool = "absent" -> "absent"
      [] ~CompMounted(g)   -> "no btrfs"
      [] CompScans(g, "waiting") # {} -> "measuring"
      [] CompScans(g, "needs_privilege") # {} ->
             IF CompScans(g, "ok") = {} THEN "needs root" ELSE "partly"
      [] CompScans(g, "ok") # {} -> "measured"
      [] OTHER -> "no files"

\* _verdict_detail: the version is there if it answered before the last scan.
CompVersionRow(g) ==
    IF g.tool = "present" /\ CompMounted(g) /\ g.version = "known" THEN "versioned" ELSE "no row"

CompFileRows(g) ==
    [configured |-> IF CompMounted(g) THEN "listed" ELSE "empty",
     fstab      |-> IF g.fstab = "options" THEN "listed" ELSE "empty",
     crypttab   |-> IF g.crypttab = "opened" THEN "listed" ELSE "empty"]

\* _scan_detail: what classify made of the tool's words.
CompScanRow(scan) ==
    [waiting |-> "not read yet", ok |-> "figures", needs_privilege |-> "refused",
     no_files |-> "empty", all_empty |-> "empty", not_btrfs |-> "not btrfs",
     odd |-> "error"][scan]

CompScanRows(g) ==
    LET Row(scan) == IF CompMounted(g) THEN CompScanRow(scan) ELSE "no row" IN
    [scan1 |-> Row(g.scan1), scan2 |-> Row(g.scan2)]

\* _render_algorithms
CompAlgorithmRow(g) == IF CompScans(g, "ok") = {} THEN "no breakdown" ELSE "listed"

CompPlan ==
    [Gathers(CompAnswers, {"tool", "mounts", "fstab", "crypttab"},
             [measured |-> {"mounts"}] @@ ("no btrfs" :> {"mounts"})
                @@ ("no files" :> {"scan1", "scan2"}))
     EXCEPT !.uncounted = {"version"}]
-----------------------------------------------------------------------------
(* Software RAID (raid.py)                                                 *)

\* The kernel prints no slots for an array that is not running.
RaidAnswers ==
    [mdstat  |-> <<"whole", "unreadable", "empty", "degraded">>,
     slots   |-> <<"printed", "none">>,
     scan    |-> <<"named", "none", "silent">>,
     detail1 |-> <<"clean", "none">>,
     detail2 |-> <<"clean", "none">>]

\* parse_mdstat, _array_head, _block_line: the slots wanted and there, and the
\* letters of those out of sync.
RaidParsed(g) ==
    CASE g.mdstat \in {"unreadable", "empty"} -> [arrays |-> 0, wanted |-> 0, there |-> 0, gaps |-> {}]
      [] g.slots = "none"     -> [arrays |-> 2, wanted |-> 0, there |-> 0, gaps |-> {}]
      [] g.mdstat = "degraded" -> [arrays |-> 2, wanted |-> 2, there |-> 1, gaps |-> {1}]
      [] OTHER                -> [arrays |-> 2, wanted |-> 2, there |-> 2, gaps |-> {}]

\* degraded
RaidDegraded(g) ==
    LET array == RaidParsed(g) IN array.wanted # array.there \/ array.gaps # {}

RaidFollow(k, g) ==
    CASE g.mdstat = "unreadable" -> {}
      [] k = "refresh" -> {"scan"}
      [] RaidParsed(g).arrays = 0 -> {}
      [] OTHER -> InTurn(<<"scan", "detail1", "detail2">>, k)

\* _plain_verdict
RaidLevel(g) ==
    CASE g.mdstat = "unreadable" -> "unknown"
      [] RaidParsed(g).arrays = 0 -> "unused"
      [] RaidDegraded(g) -> "error"
      [] OTHER -> "ok"

\* _detail_state: the first failure of mdadm is the reason of every array it did
\* not describe.
RaidDetailRow(g, k) ==
    CASE RaidParsed(g).arrays = 0 -> "no row"
      [] g[k] = "clean" -> "ok"
      [] OTHER -> "unread"

RaidRows(g) ==
    [arrays |-> CASE g.mdstat = "unreadable" -> "error"
                  [] RaidParsed(g).arrays = 0 -> "empty"
                  [] RaidDegraded(g) -> "warning"
                  [] OTHER -> "listed",
     kernel |-> IF g.mdstat = "unreadable" THEN "no row" ELSE "listed",
     slots  |-> CASE RaidParsed(g).arrays = 0 -> "no row"
                  [] RaidDegraded(g) -> "warning"
                  [] RaidParsed(g).wanted = 0 -> "unknown"
                  [] OTHER -> "ok",
     mdadm1 |-> RaidDetailRow(g, "detail1"),
     mdadm2 |-> RaidDetailRow(g, "detail2")]

RaidPlan ==
    Gathers(RaidAnswers, {"mdstat", "slots"},
            [ok |-> {"mdstat", "slots"}, unused |-> {"mdstat"}, error |-> {"mdstat"}])
-----------------------------------------------------------------------------
(* Disk Health (smart.py, system_status.smartd_schedule)                   *)

\* smartctl --scan, then its health and its whole report of each disk at once;
\* the schedule of smartd beside them, in its own words.
SmartAnswers ==
    [tool    |-> <<"present", "absent">>,
     conf    |-> <<"scans", "absent", "unreadable", "never", "per disk">>,
     smartd  |-> <<"active", "none", "inactive">>,
     scan    |-> <<"two", "none", "empty">>,
     health1 |-> <<"passed", "none", "failed", "odd">>,
     detail1 |-> <<"attributes", "none", "bare">>,
     health2 |-> <<"passed", "none", "failed">>]

SmartDisks(g) == IF g.scan = "two" THEN {"health1", "health2"} ELSE {}

SmartFollow(k, g) ==
    CASE k = "refresh" /\ g.tool = "present" -> {"smartd", "scan"}
      [] k = "scan" /\ SmartDisks(g) # {} -> {"health1", "health2", "detail1"}
      [] OTHER -> {}

\* _plain_verdict: the list of disks is empty until the scan has answered.
SmartLevel(g) ==
    LET Said(word) == \E k \in SmartDisks(g) : g[k] = word IN
    CASE g.tool = "absent" -> "absent"
      [] g.scan = "none"   -> "unknown"
      [] SmartDisks(g) = {} -> "no disk"
      [] Said("failed")    -> "error"
      [] \A k \in SmartDisks(g) : g[k] = "passed" -> "ok"
      [] Said("none")      -> "not checked"
      [] OTHER             -> "busy"

\* _on_smartd: what the sentence on the schedule says of the daemon and of its file;
\* a file that was not read lists nothing.
SmartScheduleRows(g) ==
    LET Once(row) == IF g.tool = "absent" \/ g.smartd = "waiting" THEN "not read yet" ELSE row IN
    [smartd   |-> Once(IF g.conf = "absent" THEN "no row"
                       ELSE [active |-> "running", inactive |-> "not running",
                             none |-> "unknown"][g.smartd]),
     schedule |-> Once(Per([absent |-> "absent", scans |-> "scans", never |-> "skips"]
                              @@ ("per disk" :> "lists"), g.conf, "no scan"))]

\* _verdict, _disk_subtitle, _render_attributes
SmartRows(g) ==
    LET Of(table, answer) == IF SmartDisks(g) = {} THEN "no row" ELSE table[answer] IN
    [disks    |-> IF g.tool = "absent" THEN "no row"
                  ELSE [two |-> "listed", none |-> "error", empty |-> "empty",
                        waiting |-> "empty"][g.scan],
     health1  |-> Of([waiting |-> "not read yet", passed |-> "ok", failed |-> "critical",
                      none |-> "error", odd |-> "unread"], g.health1),
     health2  |-> Of([waiting |-> "not read yet", passed |-> "ok", failed |-> "critical",
                      none |-> "error"], g.health2),
     attributes |-> Of([waiting |-> "not read yet", attributes |-> "listed", bare |-> "empty",
                        none |-> "error"], g.detail1)]

\* Refresh goes off by name and comes back with the last answer; the scan is counted
\* here, where the page keeps the button off without a counter.
SmartPlan ==
    [Refreshes(SmartAnswers,
               [ok |-> {"scan", "health1", "health2"}] @@ ("no disk" :> {"scan"}))
     EXCEPT !.instant = {"tool", "conf"}, !.on = "asked", !.unchecked = {"smartd", "scan"},
            !.uncounted = {"smartd"}]
-----------------------------------------------------------------------------
(* Btrfs (btrfs.py)                                                        *)

\* Two of the four reads of the device, which are alike, the mount point and then
\* its subvolumes, and the page on compression inside this one.
BtrfsAnswers ==
    [show   |-> <<"figures", "none">>,
     scrub  |-> <<"scrubbed", "none", "never">>,
     mounts |-> <<"mounted", "none">>,
     subvolumes  |-> <<"listed", "none", "empty">>,
     compression |-> <<"settled">>]

BtrfsFollow(k, g) ==
    CASE k = "refresh" -> DOMAIN BtrfsAnswers \ {"subvolumes"}
      [] k = "mounts" /\ g.mounts = "mounted" -> {"subvolumes"}
      [] OTHER -> {}

\* The line on top is about the monthly checks, see BtrfsMaint.
BtrfsLevel(g) == "none"

\* _answered, with what _parse_show, _parse_df and _parse_scrub find.
BtrfsRow(answer) ==
    [waiting |-> "not read yet", none |-> "error", figures |-> "ok", scrubbed |-> "ok",
     listed |-> "ok", empty |-> "empty", never |-> "never"][answer]

BtrfsRows(g) ==
    [show |-> BtrfsRow(g.show), scrub |-> BtrfsRow(g.scrub),
     subvolumes |-> IF g.mounts = "none" THEN "error" ELSE BtrfsRow(g.subvolumes)]

\* _compression_settled looks at no generation; _list_subvolumes is not counted and
\* draws only when there is no mount point.
BtrfsPlan ==
    [Refreshes(BtrfsAnswers, <<>>)
     EXCEPT !.unchecked = {"compression"}, !.uncounted = {"mounts"},
            !.silent = {<<"mounts", "mounted">>}]

(* Monthly checks (btrfs.py, system_status.btrfs_maintenance_state)        *)

\* Two of the four jobs: systemctl show of each, then is-enabled of each.
BtrfsMaintAnswers ==
    [show1    |-> <<"ok", "none", "failed", "never", "absent">>,
     again    |-> <<"ok", "none", "failed", "never", "absent">>,
     show2    |-> <<"ok", "none", "failed", "never", "absent">>,
     enabled1 |-> <<"enabled", "none", "disabled">>,
     enabled2 |-> <<"enabled", "none", "disabled">>]

\* step and launch: launch asks again for the row it has just filled.
BtrfsMaintTurn == <<"show1", "again", "show2", "enabled1", "enabled2">>
BtrfsMaintFollowRound(k, g) == InTurnRound(BtrfsMaintTurn, k) \* (mutant)
BtrfsMaintFollow(k, g)      == InTurn(BtrfsMaintTurn, k)

\* Each answer is put in the place of the next piece of work; the last one in none.
BtrfsMaintMisfiled ==
    [again |-> "show2", show2 |-> "enabled1", enabled1 |-> "enabled2", enabled2 |-> "again"]

\* _fill_btrfs_maint, _btrfs_maint_row: a row that was not filled keeps the state it
\* was made with.
BtrfsMaintState(show) == IF show \in {"none", "waiting"} THEN "unknown" ELSE show
BtrfsMaintInstalled(g) == \E k \in {"show1", "show2"} : g[k] \in {"ok", "failed", "never"}

\* _on_maintenance
BtrfsMaintLevel(g) ==
    LET states == {BtrfsMaintState(g.show1), BtrfsMaintState(g.show2)} IN
    CASE ~BtrfsMaintInstalled(g) -> "absent"
      [] "failed" \in states    -> "warning"
      [] "ok" \in states        -> "ok"
      [] OTHER                   -> "not yet"

\* What is neither absent, new nor well is drawn as a run that failed, also the
\* state a row was made with; a timer is enabled only if the word kept for it says so.
BtrfsMaintRow(state, enabled) ==
    CASE state = "absent" -> "not installed"
      [] state = "never"  -> IF enabled = "enabled" THEN "never run" ELSE "never run, not enabled"
      [] state = "ok"     -> "succeeded"
      [] OTHER            -> "failed"

BtrfsMaintRows(g) ==
    LET Row(show, enabled) == IF BtrfsMaintInstalled(g)
                              THEN BtrfsMaintRow(BtrfsMaintState(show), enabled) ELSE "no row"
    IN  [job1 |-> Row(g.show1, g.enabled1), job2 |-> Row(g.show2, g.enabled2)]

BtrfsMaintPlan ==
    [Gathers(BtrfsMaintAnswers, {},
             [absent |-> {"show1", "show2"}, ok |-> {"show1", "show2"}]
                @@ ("not yet" :> {"show1", "show2"}))
     EXCEPT !.misfiled = BtrfsMaintMisfiled]
-----------------------------------------------------------------------------
(* Storage (storage.py, system_status.storage_info)                        *)

\* shani-health --storage-info: "odd" is JSON that is not its report.
StorageAnswers ==
    [info |-> <<"fine", "none", "odd", "full", "warnings", "bare">>]

StorageFollow(k, g) == AtOnce({"info"}, k)

\* _plain_verdict
StorageLevel(g) ==
    [waiting |-> "waiting", fine |-> "ok", bare |-> "ok", none |-> "error", odd |-> "error",
     full |-> "warning", warnings |-> "warning"][g.info]

\* storage_info sorts the checks of the report; _summary_row and the rest show them.
StorageRows(g) ==
    LET Report(table) == IF g.info \in {"none", "odd", "waiting"} THEN "no row"
                         ELSE Per(table, g.info, "ok") IN
    [status   |-> Per([none |-> "error", odd |-> "error", full |-> "warning",
                       warnings |-> "warning"], g.info, "ok"),
     capacity |-> Report([full |-> "warning", bare |-> "not reported"]),
     health   |-> Report([warnings |-> "warning", bare |-> "not reported"]),
     subvolumes |-> Report([bare |-> "empty"])]

StoragePlan ==
    [Refreshes(StorageAnswers,
               [ok |-> {"info"}, warning |-> {"info"}])
     EXCEPT !.on = "off"]
-----------------------------------------------------------------------------
(* What Is Kept (persistence.py)                                           *)

KeptAnswers ==
    [slot    |-> <<"named", "none", "nameless">>,
     storage |-> <<"report", "none", "sizeless">>,
     mounts  |-> <<"bound", "none", "unbound">>]

KeptFollow(k, g) == AtOnce(DOMAIN KeptAnswers, k)

\* _plain_verdict
KeptLevel(g) == [waiting |-> "busy", none |-> "unknown", named |-> "ok", nameless |-> "ok"][g.slot]

\* _render_slot, _render_mounts, _render_subvolumes
KeptRows(g) ==
    [slot    |-> [waiting |-> "not read yet", none |-> "error", named |-> "ok",
                  nameless |-> "empty"][g.slot],
     mounts  |-> [waiting |-> "not read yet", none |-> "error", bound |-> "listed",
                  unbound |-> "unmounted"][g.mounts],
     subvolumes |-> [waiting |-> "not read yet", none |-> "error", report |-> "sizes",
                     sizeless |-> "no sizes"][g.storage]]

KeptPlan ==
    [Refreshes(KeptAnswers,
               [ok |-> {"slot"}])
     EXCEPT !.again = FALSE]
-----------------------------------------------------------------------------
(* Backup (backup.py, system_status.backup_snapshot_list, _create, _delete) *)

\* "refused" is an answer of the tool that says it could not, "odd" one without a list.
BackupAnswers ==
    [path |-> <<"exists", "missing">>,
     list |-> <<"snapshots", "none", "refused", "odd", "empty", "elsewhere">>]

BackupFollow(k, g) == AtOnce({"list"}, k)

BackupLevel(g) == "none"

\* _render_snapshots
BackupRows(g) ==
    [snapshots |-> [waiting |-> "not read yet", none |-> "error", refused |-> "error",
                    odd |-> "error", snapshots |-> "listed", empty |-> "empty",
                    elsewhere |-> "empty"][g.list],
     create |-> IF g.list # "waiting" /\ g.path = "exists" THEN "on" ELSE "off"]

\* Taking and deleting a snapshot both end in a refresh.
BackupPlan ==
    [Refreshes(BackupAnswers, <<>>)
     EXCEPT !.instant = {"path"}, !.on = "asked", !.act = "reloads"]
=============================================================================
