--------------------------- MODULE SecurityPages ----------------------------
(***************************************************************************)
(* The pages about who may do what: what they ask, what they say on top    *)
(* and what their rows say.                                                *)
(***************************************************************************)
EXTENDS Plans, Naturals, FiniteSets
-----------------------------------------------------------------------------
(* Administrators (privileges.py)                                          *)

\* Four tools at once; two of the rules directories, the action definitions and
\* the programs on the spot.
PrivAnswers ==
    [version |-> <<"known", "none", "odd">>,
     enabled |-> <<"static", "none", "odd", "disabled">>,
     active  |-> <<"active", "none", "inactive", "not-found">>,
     bus     |-> <<"named", "none", "headless", "quiet">>,
     etc     |-> <<"absent", "wheel", "unlistable", "retired", "unreadable">>,
     share   |-> <<"wheel", "absent", "unlistable", "plain">>,
     actions |-> <<"listed", "absent", "unlistable", "unreadable">>,
     polkitd |-> <<"present", "absent">>,
     helper  |-> <<"present", "absent">>,
     conf    |-> <<"settings", "absent", "unreadable", "comments">>]

PrivTools == {"version", "enabled", "active", "bus"}
PrivFollow(k, g) == AtOnce(PrivTools, k)

PrivWord(answer) == IF answer \in {"none", "odd"} THEN "" ELSE answer

\* classify, read_rules_dir: only a .rules file is loaded, read or not.
PrivLoaded(dir) == dir \in {"wheel", "plain", "unreadable"}
\* parse_rule_text: the groups an admin rule names.
PrivGroups(g)   == {d \in {"etc", "share"} : g[d] = "wheel"}

\* _verdict
PrivTitle(g) ==
    LET binary == g.polkitd = "present" \/ g.version # "none"
        loaded == PrivLoaded(g.etc) \/ PrivLoaded(g.share)
    IN  CASE ~binary /\ ~loaded /\ g.actions = "absent" -> "not installed"
          [] ~binary -> "rules only"
          [] "unlistable" \in {g.etc, g.share} -> "unread"
          [] ~loaded -> "no rules"
          [] OTHER   -> "rules"

\* _on_state
PrivLevel(g) ==
    CASE PrivTitle(g) = "not installed" -> "warning"
      [] PrivGroups(g) # {} -> "ok"
      [] OTHER -> "usual"

PrivDaemonRows(g) ==
    [version |-> IF g.version = "known" THEN "ok" ELSE "unread",
     enabled |-> Per([static |-> "ok", disabled |-> "warning"], g.enabled, "unread"),
     active  |-> Per([active |-> "ok", none |-> "unread"], g.active, "warning"),
     polkitd |-> g.polkitd, helper |-> g.helper,
     conf    |-> [settings |-> "ok", absent |-> "absent", unreadable |-> "unread",
                  comments |-> "defaults"][g.conf]]

PrivBusRow(g) == [none |-> "unread", quiet |-> "empty", headless |-> "warning", named |-> "ok"][g.bus]

PrivDirRow(dir) ==
    [absent |-> "absent", unlistable |-> "unread", retired |-> "warning", plain |-> "ok",
     unreadable |-> "ok", wheel |-> "ok"][dir]

\* _file_row: what one file of a rules directory is.
PrivFileRow(dir) ==
    [absent |-> "no row", unlistable |-> "no row", retired |-> "retired",
     plain |-> "rules", unreadable |-> "unread", wheel |-> "administrators"][dir]

\* _render_format: files polkit does not load, in the directories that could be listed.
PrivFormatRow(g) == IF "retired" \in {g.etc, g.share} THEN "warning" ELSE "ok"

PrivActionRow(g) ==
    [absent |-> "absent", unlistable |-> "unread", listed |-> "ok",
     unreadable |-> "unread"][g.actions]

PrivPlan ==
    Gathers(PrivAnswers, DOMAIN PrivAnswers \ PrivTools,
            [ok |-> {"etc", "share"}, usual |-> {"etc", "share"}])
-----------------------------------------------------------------------------
(* Password Rules (password_policy.py)                                     *)

\* Everything is a file; the page asks no tool.
PassAnswers ==
    [conf   |-> <<"configured", "absent", "unreadable", "broken", "defaults">>,
     module |-> <<"present", "absent">>,
     stacks |-> <<"loading", "unlistable", "others">>,
     dict   |-> <<"found", "missing">>,
     dropin |-> <<"absent", "entries", "unlistable">>]

PassFollow(k, g) == {}

\* read_pwquality_conf: a section or a line that is no setting makes the file broken.
PassReadable(g) == g.conf \notin {"unreadable", "broken"}

\* classify
PassState(g) ==
    CASE ~PassReadable(g) -> "unreadable"
      [] g.conf = "absent" /\ g.module = "absent" -> "no policy"
      [] g.stacks = "unlistable" -> "unreadable"
      [] g.stacks = "loading" -> "wired"
      [] OTHER -> "unwired"

\* _on_state
PassLevel(g) ==
    ([unreadable |-> "unknown", wired |-> "ok", unwired |-> "warning"]
        @@ ("no policy" :> "absent"))[PassState(g)]

PassPhrases(g) ==
    [enforced |-> [loading |-> "loaded", unlistable |-> "unread", others |-> "not loaded"][g.stacks],
     module   |-> g.module,
     settings |-> Per([configured |-> "listed", defaults |-> "defaults"], g.conf, "unread"),
     dict     |-> g.dict]

\* _render_settings: one row for each thing the file holds; a file that was not
\* read has none.
PassSettingRows(g) ==
    [rows   |-> Per([configured |-> "listed", defaults |-> "defaults", broken |-> "warning"],
                    g.conf, "no row"),
     dropin |-> IF g.dropin = "entries" THEN "listed" ELSE "no row"]

PassPlan ==
    Gathers(PassAnswers, DOMAIN PassAnswers,
            [ok |-> {"conf", "stacks"}, warning |-> {"conf", "stacks"}] @@ ("absent" :> {"conf"}))
-----------------------------------------------------------------------------
(* Encrypted Folders (userspace_crypto.py)                                 *)

\* fscrypt, then each prepared filesystem, then each mounted gocryptfs folder; the
\* kernel's lists and the files of ecryptfs on the spot.
CryptoAnswers ==
    [fscrypt  |-> <<"prepared", "none", "unsupported", "bare">>,
     status   |-> <<"policies", "none", "no policy">>,
     info     |-> <<"creator", "none">>,
     tools    |-> <<"all", "no fscrypt", "no gocryptfs", "neither">>,
     kernel   |-> <<"all", "unreadable", "no fuse", "no ecryptfs">>,
     mounts   |-> <<"none here", "unreadable", "gocryptfs", "no config">>,
     ecryptfs |-> <<"absent", "configs", "crypttab", "bare">>,
     conf     |-> <<"present", "absent">>]

CryptoFscrypt(g)   == g.tools \in {"all", "no gocryptfs"}
CryptoGocryptfs(g) == g.tools \in {"all", "no fscrypt"}
CryptoOpened(g)    == g.mounts \in {"gocryptfs", "no config"}

\* step_gocryptfs: a folder whose config file is gone is passed over.
CryptoGocryptfsStep(g) == IF g.mounts = "gocryptfs" THEN {"info"} ELSE {}

CryptoFollow(k, g) ==
    CASE k = "refresh" -> IF CryptoFscrypt(g) THEN {"fscrypt"} ELSE CryptoGocryptfsStep(g)
      [] k = "fscrypt" -> IF g.fscrypt = "prepared" THEN {"status"} ELSE CryptoGocryptfsStep(g)
      [] k = "status"  -> CryptoGocryptfsStep(g)
      [] OTHER         -> {}

\* _fscrypt_state, _gocryptfs_state, _ecryptfs_state: a list of the kernel that was
\* not read has nothing in it.
CryptoFscryptState(g) ==
    CASE ~CryptoFscrypt(g) -> "absent"
      [] g.fscrypt = "unsupported" -> "warning"
      [] g.fscrypt \in {"none", "waiting"} -> "unread"
      [] g.conf = "absent" -> "not set up"
      [] g.fscrypt = "prepared" /\ g.status = "policies" -> "success"
      [] OTHER -> "nothing protected"

CryptoGocryptfsState(g) ==
    CASE ~CryptoGocryptfs(g) -> "absent"
      [] g.kernel \in {"unreadable", "no fuse"} -> "warning"
      [] CryptoOpened(g) -> "success"
      [] OTHER -> "empty"

CryptoEcryptfsState(g) ==
    CASE g.ecryptfs = "absent" -> "absent"
      [] g.kernel \in {"unreadable", "no ecryptfs"} -> "warning"
      [] g.ecryptfs = "bare" -> "empty"
      [] OTHER -> "success"

\* _on_state
CryptoLevel(g) ==
    CASE "warning" \in {CryptoFscryptState(g), CryptoGocryptfsState(g), CryptoEcryptfsState(g)}
             -> "warning"
      [] CryptoOpened(g)     -> "ok"
      [] CryptoGocryptfs(g)  -> "empty"
      [] OTHER               -> "absent"

CryptoFscryptRows(g) ==
    [fscrypt |-> CryptoFscryptState(g),
     support |-> IF ~CryptoFscrypt(g) THEN "no row"
                 ELSE Per([none |-> "unread", unsupported |-> "empty"], g.fscrypt, "listed"),
     error   |-> IF \E k \in {"fscrypt", "status", "info"} : g[k] = "none" THEN "error" ELSE "no row"]

CryptoMountRows(g) ==
    [gocryptfs |-> CryptoGocryptfsState(g),
     folder |-> IF ~CryptoGocryptfs(g) THEN "absent"
                ELSE IF ~CryptoOpened(g) THEN "empty"
                ELSE IF g.mounts = "no config" THEN "no config" ELSE "listed",
     creator |-> IF CryptoOpened(g) /\ g.info = "creator" THEN "named" ELSE "no row",
     ecryptfs |-> CryptoEcryptfsState(g)]

\* _report raises before it loads the page again: adw is not a name of this module.
CryptoPlan ==
    [Gathers(CryptoAnswers, {"tools", "kernel", "mounts", "ecryptfs", "conf"},
             [ok |-> {"mounts"}, empty |-> {"mounts"}, warning |-> {"kernel"}])
     EXCEPT !.act = "stays"]
-----------------------------------------------------------------------------
(* Code at Start-up (tpm2_boot.py)                                         *)

\* The probe is asked only when a file of the tool is installed.
TpmAnswers ==
    [probe  |-> <<"configured", "none", "refused">>,
     cli    |-> <<"present", "absent", "partly">>,
     module |-> <<"present", "absent">>,
     conf   |-> <<"hostonly", "absent", "unreadable", "general", "odd">>]

TpmFollow(k, g) == IF k = "refresh" /\ g.cli # "absent" THEN {"probe"} ELSE {}

\* parse_hostonly, read_hostonly: a value that is neither yes nor no decides nothing.
TpmHostonly(g) == Per([hostonly |-> "yes", general |-> "no"], g.conf, "unknown")

\* _verdict
TpmLevel(g) ==
    CASE g.cli = "absent"    -> "absent"
      [] g.module = "absent" -> "no module"
      [] g.probe = "none"    -> "unknown"
      [] g.probe = "configured" -> "ok"
      [] OTHER               -> "off"

TpmFileRows(g) ==
    [cli |-> Per([present |-> "ok"], g.cli, "warning"),
     module |-> Per([present |-> "ok"], g.module, "warning")]

TpmProbeRows(g) ==
    [probe |-> IF g.cli = "absent" THEN "not run"
               ELSE [none |-> "unread", configured |-> "ok", refused |-> "warning"][g.probe],
     builder  |-> IF g.conf = "absent" THEN "none" ELSE "dracut",
     hostonly |-> TpmHostonly(g)]

TpmPlan ==
    Gathers(TpmAnswers, {"cli", "module", "conf"},
            [ok |-> {"probe"}, off |-> {"probe"}])
=============================================================================
