------------------------------ MODULE PageTable ------------------------------
(***************************************************************************)
(* The pages, by their names under tabs/, as the parameters of Readers.    *)
(***************************************************************************)
EXTENDS ServicePages, SecurityPages, StoragePages, NetworkPages,
        SystemPages, IdentityPages, DevicePages
AllPages ==
    {"ananicy", "avahi", "irqbalance", "smb", "ups", "privileges",
     "password_policy", "userspace_crypto", "tpm2_boot", "compression",
     "raid", "smart", "btrfs", "btrfs_maintenance", "storage", "persistence",
     "backup", "firewall", "dns", "dnscrypt", "ipv6_privacy", "directory",
     "inbound_access", "wireguard", "caddy", "cloudflared", "remote_access",
     "outbound_mail", "timers", "audit", "audit_search", "boot_recovery",
     "boot_verify", "boot_history", "containers", "kvm", "lsm",
     "lsm_profiles", "virtualization", "secureboot", "sbctl", "encryption",
     "encryption_check", "smartcard", "ssh_keys", "sharing", "totp",
     "kerberos", "hosts_env", "setup", "groups", "security_keys", "services",
     "firmware", "firmware_updates", "journal", "journal_boots",
     "journal_search", "maintenance", "printers", "camera", "drivers",
     "modules", "modules_blacklist", "graphics", "graphics_hybrid", "audio",
     "boot_entries", "health", "hardware_card", "app_flatpak", "app_snaps",
     "biometrics", "mac_addresses", "avahi_browse"}

\* How each page reads, what follows an answer, what it says on top, and its rows.
PagePlan(p) ==
    CASE p = "ananicy" -> AnanicyPlan
      [] p = "avahi" -> AvahiPlan
      [] p = "irqbalance" -> IrqPlan
      [] p = "smb" -> SmbPlan
      [] p = "ups" -> UpsPlan
      [] p = "privileges" -> PrivPlan
      [] p = "password_policy" -> PassPlan
      [] p = "userspace_crypto" -> CryptoPlan
      [] p = "tpm2_boot" -> TpmPlan
      [] p = "compression" -> CompPlan
      [] p = "raid" -> RaidPlan
      [] p = "smart" -> SmartPlan
      [] p = "btrfs" -> BtrfsPlan
      [] p = "btrfs_maintenance" -> BtrfsMaintPlan
      [] p = "storage" -> StoragePlan
      [] p = "persistence" -> KeptPlan
      [] p = "backup" -> BackupPlan
      [] p = "firewall" -> FirePlan
      [] p = "dns" -> DnsPlan
      [] p = "dnscrypt" -> CryptPlan
      [] p = "ipv6_privacy" -> TrackPlan
      [] p = "directory" -> DirPlan
      [] p = "inbound_access" -> InboundPlan
      [] p = "wireguard" -> WirePlan
      [] p = "caddy" -> CaddyPlan
      [] p = "cloudflared" -> CloudPlan
      [] p = "remote_access" -> RemotePlan
      [] p = "outbound_mail" -> MailPlan
      [] p = "timers" -> TimersPlan
      [] p = "audit" -> AuditPlan
      [] p = "audit_search" -> SearchPlan
      [] p = "boot_recovery" -> BootPlan
      [] p = "boot_verify" -> VerifyPlan
      [] p = "boot_history" -> HistoryPlan
      [] p = "containers" -> ContPlan
      [] p = "kvm" -> KvmPlan
      [] p = "lsm" -> LsmPlan
      [] p = "lsm_profiles" -> ProfilesPlan
      [] p = "virtualization" -> VirtPlan
      [] p = "secureboot" -> SecurePlan
      [] p = "sbctl" -> LockPlan
      [] p = "encryption" -> ChipPlan
      [] p = "encryption_check" -> UnlockPlan
      [] p = "smartcard" -> CardPlan
      [] p = "ssh_keys" -> SshPlan
      [] p = "sharing" -> SharePlan
      [] p = "totp" -> TotpPlan
      [] p = "kerberos" -> KrbPlan
      [] p = "hosts_env" -> HostsPlan
      [] p = "setup" -> SetupPlan
      [] p = "groups" -> GroupPlan
      [] p = "security_keys" -> KeysPlan
      [] p = "services" -> ServPlan
      [] p = "firmware" -> FirmPlan
      [] p = "firmware_updates" -> UpdPlan
      [] p = "journal" -> JournPlan
      [] p = "journal_boots" -> StartsPlan
      [] p = "journal_search" -> FindPlan
      [] p = "maintenance" -> SpacePlan
      [] p = "printers" -> PrintPlan
      [] p = "camera" -> CamPlan
      [] p = "drivers" -> DrivePlan
      [] p = "modules" -> ModPlan
      [] p = "modules_blacklist" -> BlackPlan
      [] p = "graphics" -> GraphPlan
      [] p = "graphics_hybrid" -> HybridPlan
      [] p = "audio" -> SoundPlan
      [] p = "boot_entries" -> EfiPlan
      [] p = "health" -> HealthPlan
      [] p = "hardware_card" -> CardsPlan
      [] p = "app_flatpak" -> FlatPlan
      [] p = "app_snaps" -> SnapPlan
      [] p = "biometrics" -> FingerPlan
      [] p = "mac_addresses" -> MacPlan
      [] p = "avahi_browse" -> BrowsePlan

PageFollow(p, k, g) ==
    CASE p = "ananicy" -> AnanicyFollow(k, g)
      [] p = "avahi" -> AvahiFollow(k, g)
      [] p = "irqbalance" -> IrqFollow(k, g)
      [] p = "smb" -> SmbFollow(k, g)
      [] p = "ups" -> UpsFollow(k, g)
      [] p = "privileges" -> PrivFollow(k, g)
      [] p = "password_policy" -> PassFollow(k, g)
      [] p = "userspace_crypto" -> CryptoFollow(k, g)
      [] p = "tpm2_boot" -> TpmFollow(k, g)
      [] p = "compression" -> CompFollow(k, g)
      [] p = "raid" -> RaidFollow(k, g)
      [] p = "smart" -> SmartFollow(k, g)
      [] p = "btrfs" -> BtrfsFollow(k, g)
      [] p = "btrfs_maintenance" -> BtrfsMaintFollow(k, g)
      [] p = "storage" -> StorageFollow(k, g)
      [] p = "persistence" -> KeptFollow(k, g)
      [] p = "backup" -> BackupFollow(k, g)
      [] p = "firewall" -> FireFollow(k, g)
      [] p = "dns" -> DnsFollow(k, g)
      [] p = "dnscrypt" -> CryptFollow(k, g)
      [] p = "ipv6_privacy" -> TrackFollow(k, g)
      [] p = "directory" -> DirFollow(k, g)
      [] p = "inbound_access" -> InboundFollow(k, g)
      [] p = "wireguard" -> WireFollow(k, g)
      [] p = "caddy" -> CaddyFollow(k, g)
      [] p = "cloudflared" -> CloudFollow(k, g)
      [] p = "remote_access" -> RemoteFollow(k, g)
      [] p = "outbound_mail" -> MailFollow(k, g)
      [] p = "timers" -> TimersFollow(k, g)
      [] p = "audit" -> AuditFollow(k, g)
      [] p = "audit_search" -> SearchFollow(k, g)
      [] p = "boot_recovery" -> BootFollow(k, g)
      [] p = "boot_verify" -> VerifyFollow(k, g)
      [] p = "boot_history" -> HistoryFollow(k, g)
      [] p = "containers" -> ContFollow(k, g)
      [] p = "kvm" -> KvmFollow(k, g)
      [] p = "lsm" -> LsmFollow(k, g)
      [] p = "lsm_profiles" -> ProfilesFollow(k, g)
      [] p = "virtualization" -> VirtFollow(k, g)
      [] p = "secureboot" -> SecureFollow(k, g)
      [] p = "sbctl" -> LockFollow(k, g)
      [] p = "encryption" -> ChipFollow(k, g)
      [] p = "encryption_check" -> UnlockFollow(k, g)
      [] p = "smartcard" -> CardFollow(k, g)
      [] p = "ssh_keys" -> SshFollow(k, g)
      [] p = "sharing" -> ShareFollow(k, g)
      [] p = "totp" -> TotpFollow(k, g)
      [] p = "kerberos" -> KrbFollow(k, g)
      [] p = "hosts_env" -> HostsFollow(k, g)
      [] p = "setup" -> SetupFollow(k, g)
      [] p = "groups" -> GroupFollow(k, g)
      [] p = "security_keys" -> KeysFollow(k, g)
      [] p = "services" -> ServFollow(k, g)
      [] p = "firmware" -> FirmFollow(k, g)
      [] p = "firmware_updates" -> UpdFollow(k, g)
      [] p = "journal" -> JournFollow(k, g)
      [] p = "journal_boots" -> StartsFollow(k, g)
      [] p = "journal_search" -> FindFollow(k, g)
      [] p = "maintenance" -> SpaceFollow(k, g)
      [] p = "printers" -> PrintFollow(k, g)
      [] p = "camera" -> CamFollow(k, g)
      [] p = "drivers" -> DriveFollow(k, g)
      [] p = "modules" -> ModFollow(k, g)
      [] p = "modules_blacklist" -> BlackFollow(k, g)
      [] p = "graphics" -> GraphFollow(k, g)
      [] p = "graphics_hybrid" -> HybridFollow(k, g)
      [] p = "audio" -> SoundFollow(k, g)
      [] p = "boot_entries" -> EfiFollow(k, g)
      [] p = "health" -> HealthFollow(k, g)
      [] p = "hardware_card" -> CardsFollow(k, g)
      [] p = "app_flatpak" -> FlatFollow(k, g)
      [] p = "app_snaps" -> SnapFollow(k, g)
      [] p = "biometrics" -> FingerFollow(k, g)
      [] p = "mac_addresses" -> MacFollow(k, g)
      [] p = "avahi_browse" -> BrowseFollow(k, g)

PageLevel(p, g, busy) ==
    CASE p = "ananicy" -> AnanicyLevel(g)
      [] p = "avahi" -> AvahiLevel(g)
      [] p = "irqbalance" -> IrqLevel(g)
      [] p = "smb" -> SmbLevel(g)
      [] p = "ups" -> UpsLevel(g)
      [] p = "privileges" -> PrivLevel(g)
      [] p = "password_policy" -> PassLevel(g)
      [] p = "userspace_crypto" -> CryptoLevel(g)
      [] p = "tpm2_boot" -> TpmLevel(g)
      [] p = "compression" -> CompLevel(g)
      [] p = "raid" -> RaidLevel(g)
      [] p = "smart" -> SmartLevel(g)
      [] p = "btrfs" -> BtrfsLevel(g)
      [] p = "btrfs_maintenance" -> BtrfsMaintLevel(g)
      [] p = "storage" -> StorageLevel(g)
      [] p = "persistence" -> KeptLevel(g)
      [] p = "backup" -> BackupLevel(g)
      [] p = "firewall" -> FireLevel(g)
      [] p = "dns" -> DnsLevel(g)
      [] p = "dnscrypt" -> CryptLevel(g)
      [] p = "ipv6_privacy" -> TrackLevel(g)
      [] p = "directory" -> DirLevel(g, busy)
      [] p = "inbound_access" -> InboundLevel(g)
      [] p = "wireguard" -> WireLevel(g)
      [] p = "caddy" -> CaddyLevel(g)
      [] p = "cloudflared" -> CloudLevel(g)
      [] p = "remote_access" -> RemoteLevel(g)
      [] p = "outbound_mail" -> MailLevel(g)
      [] p = "timers" -> TimersLevel(g)
      [] p = "audit" -> AuditLevel(g)
      [] p = "audit_search" -> SearchLevel(g)
      [] p = "boot_recovery" -> BootLevel(g)
      [] p = "boot_verify" -> VerifyLevel(g)
      [] p = "boot_history" -> HistoryLevel(g)
      [] p = "containers" -> ContLevel(g, busy)
      [] p = "kvm" -> KvmLevel(g)
      [] p = "lsm" -> LsmLevel(g)
      [] p = "lsm_profiles" -> ProfilesLevel(g)
      [] p = "virtualization" -> VirtLevel(g, busy)
      [] p = "secureboot" -> SecureLevel(g)
      [] p = "sbctl" -> LockLevel(g)
      [] p = "encryption" -> ChipLevel(g)
      [] p = "encryption_check" -> UnlockLevel(g)
      [] p = "smartcard" -> CardLevel(g)
      [] p = "ssh_keys" -> SshLevel(g)
      [] p = "sharing" -> ShareLevel(g)
      [] p = "totp" -> TotpLevel(g)
      [] p = "kerberos" -> KrbLevel(g)
      [] p = "hosts_env" -> HostsLevel(g)
      [] p = "setup" -> SetupLevel(g)
      [] p = "groups" -> GroupLevel(g)
      [] p = "security_keys" -> KeysLevel(g)
      [] p = "services" -> ServLevel(g)
      [] p = "firmware" -> FirmLevel(g)
      [] p = "firmware_updates" -> UpdLevel(g)
      [] p = "journal" -> JournLevel(g)
      [] p = "journal_boots" -> StartsLevel(g)
      [] p = "journal_search" -> FindLevel(g)
      [] p = "maintenance" -> SpaceLevel(g)
      [] p = "printers" -> PrintLevel(g)
      [] p = "camera" -> CamLevel(g)
      [] p = "drivers" -> DriveLevel(g)
      [] p = "modules" -> ModLevel(g)
      [] p = "modules_blacklist" -> BlackLevel(g)
      [] p = "graphics" -> GraphLevel(g)
      [] p = "graphics_hybrid" -> HybridLevel(g)
      [] p = "audio" -> SoundLevel(g)
      [] p = "boot_entries" -> EfiLevel(g)
      [] p = "health" -> HealthLevel(g)
      [] p = "hardware_card" -> CardsLevel(g)
      [] p = "app_flatpak" -> FlatLevel(g)
      [] p = "app_snaps" -> SnapLevel(g)
      [] p = "biometrics" -> FingerLevel(g)
      [] p = "mac_addresses" -> MacLevel(g)
      [] p = "avahi_browse" -> BrowseLevel(g)

PageRows(p, g) ==
    CASE p = "ananicy" -> AnanicyUnitRows(g) @@ AnanicyFileRows(g) @@ AnanicyToolRows(g)
      [] p = "avahi" -> AvahiUnitRows(g) @@ AvahiFileRows(g) @@ ("listen" :> AvahiListenRow(g))
      [] p = "irqbalance" -> IrqDaemonRows(g) @@ IrqFileRows(g) @@ ("affinity" :> IrqAffinityRow(g))
      [] p = "smb" -> SmbServiceRows(g) @@ SmbShareRows(g) @@ SmbAccountRows(g)
      [] p = "ups" -> UpsRows(g)
      [] p = "privileges" -> PrivDaemonRows(g) @@ ("bus" :> PrivBusRow(g)) @@ ("etc" :> PrivDirRow(g.etc) @@ "share" :> PrivDirRow(g.share)) @@ ("file" :> PrivFileRow(g.etc) @@ "format" :> PrivFormatRow(g) @@ "actions" :> PrivActionRow(g))
      [] p = "password_policy" -> PassPhrases(g) @@ PassSettingRows(g)
      [] p = "userspace_crypto" -> CryptoFscryptRows(g) @@ CryptoMountRows(g)
      [] p = "tpm2_boot" -> TpmFileRows(g) @@ TpmProbeRows(g)
      [] p = "compression" -> CompFileRows(g) @@ CompScanRows(g) @@ ("version" :> CompVersionRow(g) @@ "algorithms" :> CompAlgorithmRow(g))
      [] p = "raid" -> RaidRows(g)
      [] p = "smart" -> SmartRows(g) @@ SmartScheduleRows(g)
      [] p = "btrfs" -> BtrfsRows(g)
      [] p = "btrfs_maintenance" -> BtrfsMaintRows(g)
      [] p = "storage" -> StorageRows(g)
      [] p = "persistence" -> KeptRows(g)
      [] p = "backup" -> BackupRows(g)
      [] p = "firewall" -> FireQueryRows(g) @@ FireJailRows(g)
      [] p = "dns" -> DnsRows(g)
      [] p = "dnscrypt" -> CryptRows(g)
      [] p = "ipv6_privacy" -> TrackRows(g)
      [] p = "directory" -> DirRows(g)
      [] p = "inbound_access" -> InboundRows(g)
      [] p = "wireguard" -> WireRows(g)
      [] p = "caddy" -> CaddyRows(g)
      [] p = "cloudflared" -> CloudRows(g)
      [] p = "remote_access" -> RemoteRows(g)
      [] p = "outbound_mail" -> MailRows(g)
      [] p = "timers" -> TimersRows(g) @@ ("cron" :> TimersCronRow(g))
      [] p = "audit" -> AuditRows(g)
      [] p = "audit_search" -> SearchRows(g)
      [] p = "boot_recovery" -> BootRows(g)
      [] p = "boot_verify" -> VerifyRows(g)
      [] p = "boot_history" -> HistoryRows(g)
      [] p = "containers" -> ContRows(g)
      [] p = "kvm" -> KvmRows(g)
      [] p = "lsm" -> LsmRows(g) @@ ("audit" :> LsmAuditRow(g))
      [] p = "lsm_profiles" -> ProfilesRows(g)
      [] p = "virtualization" -> VirtRows(g)
      [] p = "secureboot" -> SecureRows(g)
      [] p = "sbctl" -> LockRows(g)
      [] p = "encryption" -> ChipRows(g)
      [] p = "encryption_check" -> UnlockRows(g)
      [] p = "smartcard" -> CardRows(g)
      [] p = "ssh_keys" -> SshRows(g)
      [] p = "sharing" -> ShareRows(g)
      [] p = "totp" -> TotpRows(g)
      [] p = "kerberos" -> KrbRows(g)
      [] p = "hosts_env" -> HostsRows(g)
      [] p = "setup" -> SetupRows(g)
      [] p = "groups" -> GroupRows(g)
      [] p = "security_keys" -> KeysRows(g)
      [] p = "services" -> ServRows(g)
      [] p = "firmware" -> FirmRows(g)
      [] p = "firmware_updates" -> UpdRows(g)
      [] p = "journal" -> JournRows(g)
      [] p = "journal_boots" -> StartsRows(g)
      [] p = "journal_search" -> FindRows(g)
      [] p = "maintenance" -> SpaceRows(g)
      [] p = "printers" -> PrintRows(g)
      [] p = "camera" -> CamRows(g)
      [] p = "drivers" -> DriveRows(g)
      [] p = "modules" -> ModRows(g)
      [] p = "modules_blacklist" -> BlackRows(g)
      [] p = "graphics" -> GraphRows(g)
      [] p = "graphics_hybrid" -> HybridRows(g)
      [] p = "audio" -> SoundRows(g)
      [] p = "boot_entries" -> EfiRows(g)
      [] p = "health" -> HealthRows(g)
      [] p = "hardware_card" -> CardsRows(g)
      [] p = "app_flatpak" -> FlatRows(g)
      [] p = "app_snaps" -> SnapRows(g)
      [] p = "biometrics" -> FingerRows(g)
      [] p = "mac_addresses" -> MacRows(g)
      [] p = "avahi_browse" -> BrowseRows(g)

(***************************************************************************)
(* What the pages are known not to do; the README, "Divergences", says     *)
(* where in the code and what the user sees.                               *)
(***************************************************************************)
Each(table) == UNION {{<<p, x>> : x \in table[p]} : p \in DOMAIN table}

PageExcused(property) ==
    CASE property = "Fresh" -> {"firmware_updates", "inbound_access", "secureboot", "smb", "userspace_crypto"}
      [] property = "PendingIsOpen" -> {"btrfs"}
      [] property = "OwnAnswers" -> {"app_snaps", "avahi_browse", "biometrics", "btrfs", "btrfs_maintenance", "encryption_check", "services", "smart", "smartcard"}
      [] property = "DrawnIsHeld" -> {"compression", "inbound_access", "journal_search"}
      [] property = "ComesBack" -> {"journal_search", "timers"}
      [] property = "RestIsSaid" ->
             Each([virtualization |-> {"stale"}, smart |-> {"busy", "smartd", "schedule"},
                   compression |-> {"scan1", "scan2"}, printers |-> {"scanners"},
                   journal_search |-> {"messages"}])
      [] property = "VerdictIsEarned" ->
             Each([ananicy |-> {"off"}, irqbalance |-> {"off"}, smb |-> {"off"},
                   ups |-> {"absent"}, privileges |-> {"ok", "usual"},
                   userspace_crypto |-> {"empty", "warning"}, btrfs_maintenance |-> {"absent", "not yet", "ok"},
                   compression |-> {"no btrfs", "no files"}, raid |-> {"ok"},
                   smart |-> {"no disk"}, dns |-> {"nothing answers"},
                   dnscrypt |-> {"off"}, directory |-> {"only here"}, audit |-> {"off"},
                   containers |-> {"nothing"}, timers |-> {"ok"},
                   inbound_access |-> {"ok"}, wireguard |-> {"none is up"},
                   outbound_mail |-> {"ok"}, sbctl |-> {"not offered"},
                   totp |-> {"nobody"}, graphics |-> {"no node"}, printers |-> {"no printer"},
                   kerberos |-> {"no realm", "not used"}, hosts_env |-> {"only system"},
                   security_keys |-> {"no key"}, drivers |-> {"no driver"},
                   health |-> {"no problems"}, mac_addresses |-> {"local"}])
      [] property = "FailedReadSaysSo" ->
             Each([ananicy |-> {"share"}, irqbalance |-> {"status"}, ups |-> {"service"},
                   privileges |-> {"etc", "format"},
                   userspace_crypto |-> {"fscrypt", "gocryptfs", "folder", "ecryptfs"},
                   compression |-> {"configured", "fstab", "crypttab", "algorithms"},
                   raid |-> {"arrays"}, smart |-> {"schedule"},
                   btrfs_maintenance |-> {"job1", "job2"},
                   dns |-> {"resolvers", "resolv", "resolved"},
                   dnscrypt |-> {"points", "transports"},
                   inbound_access |-> {"unit1", "unit2"},
                   cloudflared |-> {"credentials", "tunnels"}, remote_access |-> {"kept"},
                   outbound_mail |-> {"queue"}, containers |-> {"meter"},
                   kvm |-> {"preflight", "persist"},
                   secureboot |-> {"state", "keys", "sbctl", "vendor"},
                   sbctl |-> {"requested"}, smartcard |-> {"mapper"}, sharing |-> {"kept"},
                   totp |-> {"tokens"}, kerberos |-> {"stacks", "realm", "other"},
                   hosts_env |-> {"env"}, security_keys |-> {"fields", "keys"},
                   journal_boots |-> {"boots"}, printers |-> {"options", "queues"},
                   drivers |-> {"devices", "driver", "modules"},
                   modules_blacklist |-> {"entries"}, graphics |-> {"nodes"},
                   health |-> {"crashes"}, hardware_card |-> {"bluetooth"}])
      [] OTHER -> {}
=============================================================================
