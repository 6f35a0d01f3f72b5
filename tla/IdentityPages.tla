---------------------------- MODULE IdentityPages ----------------------------
(***************************************************************************)
(* The pages about who may use the computer and what its start and disk    *)
(* trust: keys, cards, tokens and accounts.  What they ask, what they say  *)
(* on top and what their rows say.                                         *)
(***************************************************************************)
EXTENDS Plans, Integers, FiniteSets
-----------------------------------------------------------------------------
(* Secure Boot (secureboot.py)                                             *)

\* Three probes on the main thread, in words; the keys mokutil lists.
SecureAnswers ==
    [efi     |-> <<"there", "missing">>,
     sbctl   |-> <<"on", "none", "off", "setup", "absent">>,
     mokutil |-> <<"on", "none", "off", "odd">>,
     vars    |-> <<"on", "unreadable", "off", "setup">>,
     keys    |-> <<"some", "none", "empty">>]

SecureFollow(k, g) == {}

\* probe_secure_boot: the first probe that answered, and what it says; only sbctl
\* is told that there is no efi directory.
SecureProbe(g) ==
    CASE g.sbctl \notin {"none", "absent"} -> "sbctl"
      [] g.mokutil # "none"                -> "mokutil"
      [] OTHER                             -> "vars"
SecureWord(g) ==
    IF SecureProbe(g) # "mokutil" /\ g.efi = "missing" THEN "no uefi"
    ELSE g[SecureProbe(g)]

\* _plain_verdict
SecureLevel(g) ==
    CASE SecureWord(g) = "no uefi"        -> "info"
      [] SecureWord(g) = "setup"          -> "warning"
      [] SecureWord(g) = "on"             -> "ok"
      [] SecureWord(g) = "off"            -> "warning"
      [] OTHER                            -> "unknown"

\* _update_data; what only sbctl knows is absent when another probe answered, and
\* keys that could not be listed are none.
SecureRows(g) ==
    [state  |-> CASE SecureWord(g) \in {"on", "off"} -> SecureWord(g) [] OTHER -> "unknown",
     sbctl  |-> IF SecureProbe(g) = "sbctl" THEN "present" ELSE "absent",
     vendor |-> IF SecureProbe(g) = "sbctl" THEN "listed" ELSE "none",
     keys   |-> IF g.keys = "some" THEN "listed" ELSE "0"]

\* The reading is made once; gen-efi then changes what it read.
SecurePlan ==
    [Gathers(SecureAnswers, DOMAIN SecureAnswers, <<>>)
     EXCEPT !.act = "stays"]
-----------------------------------------------------------------------------
(* Kernel lockdown (sbctl.py)                                              *)

\* Three files, and sbctl status when it is installed.
LockAnswers ==
    [lockdown |-> <<"off", "unreadable", "integrity", "odd">>,
     lsm      |-> <<"lockdown", "unreadable", "without">>,
     cmdline  |-> <<"bare", "unreadable", "lockdown">>,
     tool     |-> <<"present", "absent">>,
     status   |-> <<"fine", "none", "short">>]

LockFollow(k, g) == IF g.tool = "present" THEN AtOnce({"status"}, k) ELSE {}

\* _plain_verdict: a file that cannot be read is a kernel without lockdown.
LockLevel(g) ==
    IF g.lockdown \in {"unreadable", "odd"} THEN "not offered"
    ELSE IF g.lockdown = "off" THEN "off" ELSE "ok"

\* _verdict, _kernel_rows_for, _requested_subtitles, _sbctl_subtitles
LockRows(g) ==
    [mode      |-> Per([unreadable |-> "unread", odd |-> "unknown"], g.lockdown, g.lockdown),
     module    |-> IF g.lsm = "unreadable" THEN "unread" ELSE g.lsm,
     requested |-> IF g.cmdline = "lockdown" THEN "lockdown" ELSE "no parameter",
     status    |-> IF g.tool = "absent" THEN "absent"
                   ELSE [waiting |-> "not read yet", none |-> "error", fine |-> "listed",
                         short |-> "listed"][g.status]]

LockPlan ==
    Gathers(LockAnswers, {"lockdown", "lsm", "cmdline", "tool"},
            [ok |-> {"lockdown"}, off |-> {"lockdown"}] @@ ("not offered" :> {"lockdown"}))
-----------------------------------------------------------------------------
(* Disk encryption (encryption.py)                                         *)

\* _build asks for the security chip and fills the row it made; the Check button asks gen-efi, and then for
\* the policy of a disk that has a key in the chip.
ChipAnswers == [disk |-> <<"encrypted", "plain">>, tpm |-> <<"there", "none", "missing">>]

ChipFollow(k, g) == AtOnce({"tpm"}, k)

ChipLevel(g) == IF g.disk = "encrypted" THEN "encrypted" ELSE "plain"

\* _on_tpm
ChipRows(g) ==
    [tpm |-> [waiting |-> "not read yet", none |-> "unknown", there |-> "there",
              missing |-> "missing"][g.tpm]]

\* After each attempt to enroll or remove a key the page is built again.
ChipPlan ==
    [Refreshes(ChipAnswers, <<>>)
     EXCEPT !.instant = {"disk"}, !.again = FALSE, !.act = "reloads"]

UnlockAnswers ==
    [status |-> <<"enrolled", "none", "not enrolled", "two keys">>,
     policy |-> <<"policy", "none", "fixed", "odd">>]

\* _load_status, _on_status
UnlockFollow(k, g) ==
    IF k = "status" THEN (IF g.status \in {"enrolled", "two keys"} THEN {"policy"} ELSE {})
    ELSE AtOnce({"status"}, k)

UnlockLevel(g) == "none"

\* _on_status, _on_pcrlock
UnlockRows(g) ==
    [status |-> Per([waiting |-> "not read yet", none |-> "error"], g.status, g.status),
     policy |-> IF g.policy = "waiting" /\ g.status \in {"none", "not enrolled"}
                THEN IF g.status = "none" THEN "unread" ELSE "nothing bound"
                ELSE Per([waiting |-> "not read yet", none |-> "unknown", odd |-> "unknown"],
                         g.policy, g.policy)]

\* The button is back with the first answer; neither answer knows whose it is.
UnlockPlan ==
    [Refreshes(UnlockAnswers, <<>>)
     EXCEPT !.on = "off", !.unchecked = {"status", "policy"},
            !.uncounted = {"status", "policy"}, !.ownrow = {"policy"}, !.act = "reloads"]
-----------------------------------------------------------------------------
(* Smartcard sign-in (smartcard.py)                                        *)

\* The module, the sign-in screens that load it, its two files, and the readers.
CardAnswers ==
    [module   |-> <<"installed", "absent">>,
     screens  |-> <<"some", "empty">>,
     conf     |-> <<"fine", "unreadable", "absent">>,
     mappings |-> <<"listed", "unreadable", "odd", "absent", "empty">>,
     readers  |-> <<"some", "none", "empty">>]

CardFollow(k, g) == AtOnce({"readers"}, k)

\* _plain_verdict
CardLevel(g) ==
    CASE g.readers = "waiting"   -> "busy"
      [] g.module = "absent"     -> "not installed"
      [] g.screens = "empty"     -> "not used"
      [] g.readers = "none"      -> "error"
      [] g.readers = "empty"     -> "no reader"
      [] OTHER                   -> "ok"

\* _on_readers, _on_pkcs11, _match_group_new, _mappings_group_new: a file with a
\* line nobody understands is not edited; the rows of a file that was not read say
\* that it defines nothing.
CardRows(g) ==
    [readers  |-> Per([waiting |-> "not read yet", none |-> "error"], g.readers, g.readers),
     problem  |-> IF g.conf = "fine" THEN "no row" ELSE "error",
     mapper   |-> IF g.conf = "fine" THEN "listed" ELSE "none defined",
     mappings |-> Per([unreadable |-> "error", odd |-> "error"], g.mappings, g.mappings)]

\* A mapping that is saved or removed is followed by a refresh.
CardPlan ==
    [Refreshes(CardAnswers,
               [ok |-> {"readers"}] @@ ("no reader" :> {"readers"}))
     EXCEPT !.instant = {"module", "screens", "conf", "mappings"}, !.on = "asked",
            !.unchecked = {"readers"}, !.uncounted = {"readers"}, !.act = "reloads"]
-----------------------------------------------------------------------------
(* SSH keys (ssh_keys.py)                                                  *)

\* authorized_keys and the modes of it and its directory; ssh-keygen in a thread,
\* once for the keys that were found.
SshAnswers ==
    [file  |-> <<"keys", "unreadable", "stray", "missing", "empty">>,
     mode  |-> <<"private", "open">>,
     print |-> <<"listed", "none", "odd">>]

SshFollow(k, g) == IF g.file = "keys" THEN AtOnce({"print"}, k) ELSE {}

\* _render_status, _plain_verdict
SshLevel(g) ==
    CASE g.file = "unreadable" -> "error"
      [] g.mode = "open" /\ g.file # "missing" -> "not private"
      [] g.file = "keys"       -> "ok"
      [] OTHER                 -> "no key"

\* _render_keys: lines nobody understands stop all editing; fingerprints that are
\* not as many as the keys are not told apart.
SshRows(g) ==
    [file  |-> IF g.file = "unreadable" THEN "error" ELSE g.file,
     print |-> IF g.file # "keys" THEN "no row"
               ELSE [waiting |-> "not read yet", none |-> "error", odd |-> "error",
                     listed |-> "listed"][g.print]]

\* _ask_fingerprints hands the worker its generation.
SshPlan ==
    [Refreshes(SshAnswers,
               [ok |-> {"file"}] @@ ("no key" :> {"file"}))
     EXCEPT !.instant = {"file", "mode"}, !.act = "reloads"]
-----------------------------------------------------------------------------
(* Folder Sharing (sharing.py)                                             *)

\* The drop-in: its shares, the lines kept as they are, and its owner and mode.
ShareAnswers ==
    [file |-> <<"shares", "unreadable", "stray", "kept", "missing", "empty">>,
     mode |-> <<"as written", "changed">>]

ShareFollow(k, g) == {}

\* _plain_verdict
ShareLevel(g) ==
    CASE g.file = "unreadable" -> "error"
      [] g.file = "shares"     -> "ok"
      [] OTHER                 -> "no share"

\* _render_status, _render_shares, _render_kept
ShareRows(g) ==
    [file   |-> IF g.file = "unreadable" THEN "error" ELSE g.mode,
     shares |-> [shares |-> "listed", unreadable |-> "error", stray |-> "error",
                 kept |-> "none", missing |-> "none", empty |-> "none"][g.file],
     kept   |-> IF g.file = "kept" THEN "listed" ELSE "none"]

SharePlan ==
    [Refreshes(ShareAnswers,
               [ok |-> {"file"}] @@ ("no share" :> {"file"}))
     EXCEPT !.instant = {"file", "mode"}, !.act = "reloads"]
-----------------------------------------------------------------------------
(* One-Time Codes (totp.py)                                                *)

\* The sign-in services that load pam_oath, the files of tokens, and the version of
\* oathtool.
TotpAnswers ==
    [stacks  |-> <<"some", "unlistable", "empty">>,
     file    |-> <<"tokens", "unreadable", "other lines", "missing", "empty">>,
     tool    |-> <<"present", "absent">>,
     version |-> <<"fine", "none">>]

TotpFollow(k, g) ==
    IF g.stacks # "unlistable" /\ g.tool = "present" THEN AtOnce({"version"}, k) ELSE {}

\* totp_state reads no token file when no service could be read; a file that could
\* not be read holds no tokens.
TotpTokens(g) == IF g.stacks = "unlistable" THEN "empty" ELSE g.file

\* _plain_verdict
TotpLevel(g) ==
    CASE g.stacks = "unlistable" -> "unknown"
      [] g.stacks = "empty"      -> IF TotpTokens(g) = "tokens" THEN "unused tokens" ELSE "not asked"
      [] g.file = "tokens"       -> "ok"
      [] OTHER                   -> "nobody"

\* _render_tool, _render_stacks, _render_tokens, _file_phrase
TotpRows(g) ==
    [tool   |-> IF g.tool = "absent" THEN "absent"
                ELSE IF g.stacks = "unlistable" THEN "error"
                ELSE Per([waiting |-> "not read yet", none |-> "error"], g.version, "listed"),
     stacks |-> IF g.stacks = "unlistable" THEN "unknown" ELSE g.stacks,
     tokens |-> Per([unreadable |-> "unknown", tokens |-> "listed"], TotpTokens(g), "none"),
     files  |-> IF g.stacks = "unlistable" THEN "no row"
                ELSE IF g.file = "unreadable" THEN "error" ELSE g.file]

TotpPlan ==
    Gathers(TotpAnswers, {"stacks", "file", "tool"},
            [ok |-> {"file", "stacks"}, nobody |-> {"file", "stacks"}]
               @@ ("not asked" :> {"stacks"}))
-----------------------------------------------------------------------------
(* Kerberos (kerberos.py)                                                  *)

\* The module, the sign-in services that load it and krb5.conf, all read on the
\* spot.
KrbAnswers ==
    [module |-> <<"installed", "absent">>,
     stacks |-> <<"some", "unlistable", "empty">>,
     conf   |-> <<"realm", "unreadable", "odd", "no realm", "missing">>]

KrbFollow(k, g) == {}

\* _plain_verdict: a directory that cannot be listed has no service, a file that
\* cannot be read has no realm.
KrbLevel(g) ==
    CASE g.module = "absent" -> "not installed"
      [] g.stacks # "some"   -> "not used"
      [] g.conf \in {"realm", "odd"} -> "ok"
      [] OTHER               -> "no realm"

\* _fill_status, _fill_values, _fill_readonly
KrbRows(g) ==
    [stacks |-> IF g.stacks = "some" THEN "listed" ELSE "none",
     file   |-> Per([unreadable |-> "unread", odd |-> "unread"], g.conf, g.conf),
     realm  |-> IF g.conf \in {"realm", "odd"} THEN "set" ELSE "not set",
     other  |-> IF g.conf \in {"realm", "odd", "no realm"} THEN "listed" ELSE "nothing"]

\* _write and _saved
KrbPlan ==
    [Refreshes(KrbAnswers,
               ("not used" :> {"stacks"} @@ "no realm" :> {"conf"}))
     EXCEPT !.instant = DOMAIN KrbAnswers, !.act = "reloads"]
-----------------------------------------------------------------------------
(* Hosts and Environment (hosts_env.py)                                    *)

HostsAnswers ==
    [hosts |-> <<"names", "unreadable", "system only", "empty">>,
     env   |-> <<"set", "unreadable", "empty">>]

HostsFollow(k, g) == {}

\* _plain_verdict of the entries _hosts_card left: none of a file it cannot read.
HostsLevel(g) == IF g.hosts = "names" THEN "names" ELSE "only system"

\* _hosts_card, _env_card
HostsRows(g) ==
    [hosts |-> Per([unreadable |-> "error", empty |-> "none"], g.hosts, "listed"),
     env   |-> IF g.env = "set" THEN "listed" ELSE "none"]

HostsPlan ==
    [Refreshes(HostsAnswers,
               [names |-> {"hosts"}] @@ ("only system" :> {"hosts"}))
     EXCEPT !.instant = DOMAIN HostsAnswers, !.again = FALSE, !.act = "reloads"]
-----------------------------------------------------------------------------
(* Your Account (setup.py)                                                 *)

\* The files of /etc/skel in the home, /etc/passwd, the first-boot wizard of a
\* plasma image, and the flatpaks of the system.
SetupAnswers ==
    [skel    |-> <<"complete", "none", "missing">>,
     passwd  |-> <<"people", "unreadable", "empty">>,
     profile |-> <<"plasma", "other">>,
     wizard  |-> <<"enabled", "none", "disabled">>,
     apps    |-> <<"some", "none", "empty">>]

SetupFollow(k, g) ==
    AtOnce({"apps"} \cup (IF g.profile = "plasma" THEN {"wizard"} ELSE {}), k)

\* _plain_skel
SetupLevel(g) ==
    [complete |-> "ok", none |-> "unknown", missing |-> "warning"][g.skel]

\* _on_skel, _on_accounts, _on_apps; account_state answers without the wizard when
\* the image has none.
SetupRows(g) ==
    [skel   |-> IF g.skel = "none" THEN "unread" ELSE g.skel,
     passwd |-> IF g.profile = "plasma" /\ g.wizard = "waiting" THEN "not read yet"
                ELSE IF g.passwd = "unreadable" THEN "unread" ELSE g.passwd,
     wizard |-> IF g.profile = "other" THEN "runs in the session"
                ELSE Per([waiting |-> "not read yet", none |-> "unknown"], g.wizard, g.wizard),
     apps   |-> Per([waiting |-> "not read yet", none |-> "unread"], g.apps, g.apps)]

\* load fills its rows answer by answer.  _provision stops at the second line it
\* writes, before it starts anything, so no action follows.
SetupPlan ==
    [Refreshes(SetupAnswers,
               [ok |-> {"skel"}, warning |-> {"skel"}])
     EXCEPT !.instant = {"skel", "passwd", "profile"}, !.again = FALSE]
-----------------------------------------------------------------------------
(* Groups (groups.py)                                                      *)

GroupAnswers == [members |-> <<"some", "empty">>, people |-> <<"some", "empty">>]

GroupFollow(k, g) == {}

\* refresh
GroupLevel(g) == IF g.members = "some" THEN "features" ELSE "nothing"

GroupRows(g) ==
    [switches |-> IF g.members = "some" /\ g.people = "some" THEN "listed" ELSE "no row"]

\* _on_toggle: one gpasswd at a time, and then everything is read again.
GroupPlan ==
    [Refreshes(GroupAnswers, <<>>)
     EXCEPT !.instant = DOMAIN GroupAnswers, !.again = FALSE, !.act = "reloads"]
-----------------------------------------------------------------------------
(* Security Keys (security_keys.py)                                        *)

\* Which sign-in uses a key, pam_u2f's own file, the keys it names, and
\* pam_yubico's file.
KeysAnswers ==
    [signin |-> <<"ok", "inactive", "absent">>,
     conf   |-> <<"authfile", "unreadable", "no authfile", "missing">>,
     keys   |-> <<"some", "unreadable", "missing", "empty">>,
     yubico |-> <<"usable", "unreadable", "missing">>]

KeysFollow(k, g) == {}

\* _render_keys: keys that cannot be read, or whose place is not known, are none.
KeysCounted(g) == IF g.conf = "authfile" /\ g.keys = "some" THEN "some" ELSE "none"

\* _plain_verdict
KeysLevel(g) ==
    CASE g.signin = "ok" -> IF KeysCounted(g) = "some" THEN "ok" ELSE "no key"
      [] g.signin = "inactive" -> "not used"
      [] OTHER -> "not installed"

\* _render_u2f, _render_keys, _render_yubico
KeysRows(g) ==
    [file   |-> IF g.conf = "missing" THEN "missing" ELSE "there",
     fields |-> IF g.conf = "authfile" THEN "set" ELSE "empty",
     keys   |-> IF g.conf # "authfile" THEN "no authfile"
                ELSE IF g.keys = "some" THEN "listed" ELSE "not created",
     yubico |-> IF g.yubico = "missing" THEN "off" ELSE "editable"]

\* _save, _saved
KeysPlan ==
    [Refreshes(KeysAnswers,
               [ok |-> {"keys"}] @@ ("no key" :> {"conf", "keys"}))
     EXCEPT !.instant = DOMAIN KeysAnswers, !.again = FALSE, !.act = "reloads"]
-----------------------------------------------------------------------------
(* Fingerprints (biometrics.py), what it reads; FprintEnroll has the rest  *)

\* fprintd over D-Bus, one call after the other under one time limit; the service
\* of face sign-in by systemctl.
FingerAnswers ==
    [installed |-> <<"present", "absent">>,
     fprintd  |-> <<"fingers", "none", "no reader", "no fingers">>,
     face     |-> <<"active", "none", "failed">>]

FingerFollowButFace(k, g) == AtOnce({"fprintd"}, k) \* (mutant)
FingerFollow(k, g) ==
    AtOnce({"fprintd"} \cup (IF g.installed = "present" THEN {"face"} ELSE {}), k)

\* _on_status
FingerLevel(g) ==
    Per([waiting |-> "busy", none |-> "error", fingers |-> "ok"], g.fprintd, g.fprintd)

FingerRows(g) ==
    [reader  |-> Per([waiting |-> "not read yet", none |-> "unknown"] @@ ("no reader" :> "no reader"),
                     g.fprintd, "reader"),
     fingers |-> Per([waiting |-> "not read yet", none |-> "unknown"] @@ ("no reader" :> "unknown"),
                     g.fprintd, g.fprintd),
     face    |-> CASE g.installed = "absent" -> "no row"
                   [] g.face = "waiting"    -> "not read yet"
                   [] g.face = "none"       -> "error"
                   [] OTHER                 -> g.face]

\* Refresh goes off; Check Again on top stays, and an answer does not know its reading.
FingerPlan ==
    [Refreshes(FingerAnswers,
               [ok |-> {"fprintd"}] @@ ("no reader" :> {"fprintd"}) @@ ("no fingers" :> {"fprintd"}))
     EXCEPT !.instant = {"installed"}, !.on = "kept", !.act = "reloads",
            !.unchecked = {"fprintd", "face"}, !.uncounted = {"fprintd", "face"}]
=============================================================================
