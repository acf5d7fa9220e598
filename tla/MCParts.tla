------------------------------ MODULE MCParts -------------------------------
(***************************************************************************)
(* Small values for the constants of Parts.                                *)
(***************************************************************************)
EXTENDS Parts, TLC

CONSTANTS p1, p2, m1, m2

\* Integers of four bits, two's complement.
MCMinInt == -8

\* The processes of the ssh plugin are told apart by what they do alone.
Processes == Permutations(Process)

(***************************************************************************)
(* Two directives, one of them PermitRootLogin, and one list of            *)
(* algorithms; two fragments beside the main file, this tool's the first.  *)
(***************************************************************************)

SshDirective == {"PermitRootLogin", "MaxAuthTries"}
SshKey == SshDirective \cup {"Ciphers"}
SshFile(root, tries, ciphers) ==
    [k \in SshKey |-> CASE k = "PermitRootLogin" -> root
                        [] k = "MaxAuthTries"    -> tries
                        [] k = "Ciphers"         -> ciphers]
SshCompare ==
    [d \in SshDirective |->
        IF d = "MaxAuthTries" THEN Numeric("AtMost")
        ELSE Ranked(<<<<"yes">>, <<"prohibit-password", "without-password">>, <<"no">>>>)]
SshBaseline == [d \in SshDirective |-> IF d = "MaxAuthTries" THEN 2 ELSE "no"]
SshMains ==
    {[layer |-> "admin", include |-> "top", set |-> SshFile("no", 3, {"strong"})],
     [layer |-> "admin", include |-> "none", set |-> SshFile("yes", Unset, Unset)],
     [layer |-> "vendor", include |-> "top", set |-> SshFile(Unset, 3, Unset)]}
SshTheirs == {SshFile("without-password", 3, {"weak"})}
SshConfigs ==
    {[override |-> [d \in SshDirective |-> Unset], exceptions |-> {}],
     [override |-> [d \in SshDirective |-> IF d = "MaxAuthTries" THEN 1 ELSE "yes"],
      exceptions |-> {[key |-> "PermitRootLogin", value |-> "without-password",
                       allowed |-> TRUE, expired |-> FALSE]}]}

SshSmall ==
      [MaxApplies |-> 2, MaxChanges |-> 1,
       Directive |-> SshDirective, Crypto |-> {"Ciphers"}, Compare |-> SshCompare,
       Baseline |-> SshBaseline, RootLogin |-> "PermitRootLogin", No |-> "no",
       Safe |-> "prohibit-password", Desired |-> {"strong"}, Supported |-> {"strong", "weak"},
       Fragments |-> 3, Ours |-> 2, Mains |-> SshMains, Theirs |-> SshTheirs,
       Configs |-> SshConfigs]

KernelCompare == [k \in {"kptr", "rp"} |->
    IF k = "kptr" THEN Numeric("AtLeast")
    ELSE Ranked(<<<<0>>, <<2>>, <<1>>>>)]
KernelValue(kptr, rp) == [k \in {"kptr", "rp"} |-> IF k = "kptr" THEN kptr ELSE rp]
KernelFile(kptr, rp, glob) == [set |-> KernelValue(kptr, rp), glob |-> glob, as |-> 2]

KernelSmall ==
      [MaxApplies |-> 1, MaxChanges |-> 2,
       Params |-> <<"kptr", "rp">>, Compare |-> KernelCompare,
       Baseline |-> KernelValue(1, 1),
       Value |-> {Unset} \cup (MinInt..MaxInt), Default |-> KernelValue(0, 0),
       Names |-> 3, Ours |-> 2,
       Files |-> {KernelFile(0, Unset, {}), KernelFile(Unset, 1, {}), KernelFile(2, Unset, {"rp"})},
       Kernels |-> {KernelValue(0, 2), KernelValue(2, 1)},
       Configs |-> {[override |-> KernelValue(Unset, Unset), exceptions |-> {}],
                   [override |-> KernelValue(2, 0),
                    exceptions |-> {[key |-> "rp", value |-> 2, allowed |-> TRUE, expired |-> FALSE]}]}]

PamFile == [d \in {"minlen", "min_days", "deny"} |->
    CASE d = "minlen" -> "pwquality" [] d = "min_days" -> "login.defs" [] d = "deny" -> "faillock"]
PamText(minlen, days, deny, other) ==
    [there |-> TRUE,
     set |-> [k \in {"minlen", "min_days", "deny", "dictcheck"} |->
        CASE k = "minlen" -> minlen [] k = "min_days" -> days
          [] k = "deny" -> deny [] k = "dictcheck" -> other]]
PamNone == [PamText(Unset, Unset, Unset, Unset) EXCEPT !.there = FALSE]
PamFiles(pwquality, defs, faillock) ==
    [f \in {"pwquality", "login.defs", "faillock"} |->
        CASE f = "pwquality" -> pwquality [] f = "login.defs" -> defs [] f = "faillock" -> faillock]
PamStack(inline) ==
    [f \in {"pwquality", "login.defs", "faillock"} |->
        [loaded |-> "in", inline |-> [d \in {"minlen", "min_days", "deny"} |->
                                        IF d = "deny" THEN inline ELSE Unset]]]
PamHosts ==
    {[admin |-> a, vendor |-> v, stack |-> PamStack(i),
      ignored |-> IF i = Unset THEN {} ELSE {"min_days"}] :
        a \in {PamFiles(PamNone, PamText(Unset, 1, Unset, Unset), PamNone),
               PamFiles(PamText(2, Unset, Unset, 1), PamNone, PamText(Unset, Unset, 1, 1))},
        v \in {PamFiles(PamNone, PamNone, PamNone),
               PamFiles(PamText(1, Unset, Unset, 1), PamText(Unset, 3, Unset, 1),
                        PamText(Unset, Unset, 5, 1))},
        i \in {Unset, 2}}

PamSmall ==
      [MaxApplies |-> 1, MaxChanges |-> 2,
       Rewritten |-> <<"pwquality", "login.defs">>, Lockout |-> <<"deny">>,
       Unmoduled |-> {"login.defs"}, FileOf |-> PamFile, OtherKeys |-> {"dictcheck"},
       Compare |-> [d \in DOMAIN PamFile |-> Numeric(IF d = "deny" THEN "AtMost" ELSE "AtLeast")],
       Baseline |-> [d \in DOMAIN PamFile |-> 3], Value |-> {Unset} \cup (MinInt..MaxInt),
       Hosts |-> PamHosts, Edits |-> {PamNone, PamText(4, 2, 4, Unset)},
       Configs |-> {[override |-> [d \in DOMAIN PamFile |-> Unset], exceptions |-> {}],
                   [override |-> [d \in DOMAIN PamFile |-> 4],
                    exceptions |-> {[key |-> "deny", value |-> 5, allowed |-> TRUE, expired |-> FALSE],
                                    [key |-> "min_days", value |-> 1, allowed |-> TRUE, expired |-> TRUE]}]}]

AuditHost(enabled, ours, compiled) ==
    [installed |-> TRUE, enabled |-> enabled, running |-> enabled, ours |-> ours,
     foreign |-> Absent, compiled |-> compiled, prev |-> Absent, locked |-> FALSE,
     kernel |-> IF compiled = Absent THEN {} ELSE compiled, saved |-> Absent]
AuditOld == {[category |-> "identity", version |-> 1]}
AuditForeign == {[category |-> "delete", version |-> 1]}

AuditSmall ==
      [MaxApplies |-> 2, MaxChanges |-> 2,
       Category |-> {"identity", "delete"}, Versions |-> {1, 2}, Current |-> 2,
       Hosts |-> {AuditHost(FALSE, Absent, Absent), AuditHost(TRUE, Absent, {}),
                 AuditHost(TRUE, AuditOld, AuditOld)},
       Foreign |-> {Absent, AuditForeign}, Configs |-> {{}, {"delete"}}]

FwRules == <<"loopback", "established", "ssh", "drop_default">>
FwTraffic == {"lo", "est", "ssh", "ssh_far", "web"}
FwConfig(exceptions, ssh, moved, default, established) ==
    [exceptions |-> exceptions,
     action  |-> [r \in {FwRules[i] : i \in 1..4} |->
                    CASE r = "ssh" -> ssh [] r = "drop_default" -> default
                      [] r = "established" -> established [] OTHER -> Unset],
     matches |-> [r \in {FwRules[i] : i \in 1..4} |-> IF r = "ssh" THEN moved ELSE Absent]]
FwHost(kind, now, files, on, unit, boot, guard) ==
    [kind |-> kind, now |-> now, files |-> files, on |-> on, unit |-> unit,
     boot |-> boot, guard |-> guard, saved |-> Absent]
FwKept(drop, admits, denies) == [drop |-> drop, admits |-> admits, denies |-> denies]

\* A port of ssh reached from near and from far, and another port.
FirewallSmall ==
      [MaxApplies |-> 2, MaxChanges |-> 2,
       Rules |-> FwRules,
       Baseline |-> [r \in {FwRules[i] : i \in 1..4} |->
          CASE r = "loopback" -> [action |-> "accept", matches |-> {"lo"}]
            [] r = "established" -> [action |-> "accept", matches |-> {"est"}]
            [] r = "ssh" -> [action |-> "accept", matches |-> {"ssh", "ssh_far"}]
            [] r = "drop_default" -> [action |-> "drop", matches |-> FwTraffic]],
       Traffic |-> FwTraffic, Sessions |-> {"ssh", "web"},
       Port |-> [x \in FwTraffic |-> IF x = "ssh_far" THEN "ssh" ELSE x],
       SshRule |-> "ssh", DropRule |-> "drop_default",
       Implicit |-> [k \in {"ufw", "firewalld", "nftables"} |->
          IF k = "ufw" THEN {"established"} ELSE {"loopback", "established"}],
       Hosts |-> {FwHost("ufw", Absent, FwKept(TRUE, {"web"}, {}), FALSE, FALSE, "there", FALSE),
                 FwHost("ufw", FwKept(FALSE, {}, {"ssh"}), FwKept(FALSE, {}, {"ssh"}),
                        TRUE, FALSE, "there", FALSE),
                 FwHost("firewalld", FwKept(TRUE, {"est"}, {}), FwKept(TRUE, {"est"}, {}),
                        TRUE, FALSE, "there", FALSE),
                 FwHost("firewalld", Absent, FwKept(FALSE, {"est"}, {"web"}), TRUE, FALSE, "there", FALSE),
                 FwHost("nftables", Absent, Absent, FALSE, FALSE, "absent", FALSE),
                 FwHost("nftables", Absent, Absent, FALSE, FALSE, "absent", TRUE),
                 FwHost("nftables", Absent, Absent, FALSE, FALSE, "there", FALSE),
                 FwHost("nftables", Absent, Absent, FALSE, FALSE, "unknown", FALSE)},
       Configs |-> {FwConfig({}, Unset, Absent, Unset, Unset),
                   FwConfig({"ssh"}, Unset, Absent, "accept", Unset),
                   FwConfig({"loopback"}, "accept", {"web"}, "reject", "drop"),
                   FwConfig({}, "accept", {"ssh"}, Unset, Unset),
                   FwConfig({"drop_default"}, "drop", FwTraffic, Unset, Unset)}]

Unit(installed, file, slot, active) ==
    [installed |-> installed, file |-> file, slot |-> slot, active |-> active]
ServSmall ==
      [MaxApplies |-> 2, MaxChanges |-> 2,
       Services |-> <<"cups", "bluetooth">>,
       Hosts |-> {[unit |-> [s \in {"cups", "bluetooth"} |-> IF s = "cups" THEN c ELSE b],
                  saved |-> Absent] :
            c \in {Unit(TRUE, "enabled", "none", TRUE), Unit(TRUE, "disabled", "none", TRUE)},
            b \in {Unit(TRUE, "static", "none", FALSE), Unit(FALSE, "disabled", "none", FALSE),
                   Unit(TRUE, "enabled", "override", TRUE)}},
       Configs |-> {{}, {"bluetooth"}}]

MacHost(system, config, mode) ==
    [system |-> system, config |-> config, mode |-> mode, profiles |-> TRUE, saved |-> Absent]
MacSmall ==
      [MaxApplies |-> 2, MaxChanges |-> 2,
       Hosts |-> {MacHost("selinux", "enforcing", "permissive"),
                 MacHost("selinux", "permissive", "permissive"),
                 MacHost("selinux", "nameless", "enforcing"),
                 MacHost("apparmor", "none", "permissive"),
                 MacHost("apparmor", "permissive", "permissive"),
                 MacHost("none", "none", "permissive")}]

PermBits == {"user", "group", "other"}
PermMode(sudoers, shadow) == [p \in {"/etc/sudoers.d", "/etc/shadow"} |->
    IF p = "/etc/shadow" THEN shadow ELSE sudoers]
PermConfig(sudoers, shadow, excepted) ==
    [override |-> PermMode(sudoers, shadow), exception |-> PermMode(excepted, Absent)]
PermSmall ==
      [MaxApplies |-> 2, MaxChanges |-> 1,
       Paths |-> <<"/etc/sudoers.d", "/etc/shadow">>, Bits |-> PermBits,
       MaxMask |-> {"/etc/shadow"}, Baseline |-> PermMode({"user", "group"}, {"user", "group"}),
       Hosts |-> {[mode |-> PermMode(s, m), fat |-> f, remote |-> r, saved |-> Absent] :
                    s \in {{"user"}, PermBits}, m \in {{}, {"user", "other"}},
                    f \in {{}, {"/etc/sudoers.d"}}, r \in BOOLEAN},
       Configs |-> {PermConfig(Absent, Absent, Absent), PermConfig({"user"}, PermBits, PermBits)}]

OrderSmall ==
      [Plugin |-> {"ssh", "pam", "mac"}, Unknown |-> "gone"]

KeySmall ==
      [MaxFaults |-> 2]

DatabaseSmall ==
      [Migrations |-> <<"host_key", "skipped_reason", "link_target">>,
       Schema |-> {"host_key", "link_target"},
       Earlier |-> {{}, {"host_key"}, {"host_key", "skipped_reason", "link_target"}},
       MaxFaults |-> 2]

To(machine, user) == [machine |-> machine, user |-> user]
Ask(names, inline, plugins) == [names |-> names, inline |-> inline, plugins |-> plugins]

FleetSmall ==
      [Account |-> {"root", "adm"}, AssumedUser |-> "root",
       SshUser |-> [m \in Machine |-> IF m = m1 THEN "root" ELSE "adm"],
       Requests |-> {Ask(<<To(m1, "root")>>, {}, <<>>),
                    Ask(<<To(m1, "root")>>, {To(m1, Absent)}, <<"ssh">>),
                    Ask(<<>>, {To(m2, "root")}, <<"ssh">>),
                    Ask(<<To(m1, "root"), To(m2, Absent)>>, {To(m2, Absent)}, <<"ssh">>)},
       Stored |-> <<[key |-> <<"root", m2>>, name |-> "ssh", stamp |-> 1, found |-> "hard"]>>,
       Registry |-> <<"kernel", "ssh">>, Concurrency |-> 2, MaxRuns |-> 2, MaxTicks |-> 2]

(***************************************************************************)
(* Hosts on which one plugin has something to say, or cannot see.          *)
(***************************************************************************)

Facts(whole, bad, blind, except) ==
    [whole |-> whole, bad |-> bad, blind |-> blind, except |-> except]
KernelFacts(whole, bad, blind, later, hidden) ==
    Facts(whole, bad, blind, {}) @@ [later |-> later, hidden |-> hidden]
PamFacts(whole, bad, blind, unstacked) ==
    Facts(whole, bad, blind, {"deny"}) @@ [unstacked |-> unstacked]
PermFacts(bad, blind, fat) == Facts("there", bad, blind, {"/etc/group"}) @@ [fat |-> fat]
Backend(active, asked, boot, told) ==
    [active |-> active, asked |-> asked, unit |-> active, boot |-> boot, told |-> told]
FwFacts(whole, backends, except) ==
    [whole |-> whole, backends |-> backends, except |-> except]

PostureClean ==
    "audit" :> Facts("there", {}, {}, {}) @@
    "firewall" :> FwFacts("found", <<Backend(TRUE, "answers", TRUE, TRUE)>>, {}) @@
    "kernel" :> KernelFacts("read", {}, {}, {}, {}) @@
    "mac" :> Facts("selinux", {}, {}, {}) @@
    "pam" :> PamFacts("enforced", {}, {}, {}) @@
    "permissions" :> PermFacts({}, {}, {}) @@
    "services" :> Facts("listed", {}, {}, {}) @@
    "ssh" :> Facts("read", {}, {}, {})

AuditGone == {"not_installed", "not_enabled", "not_running", "rules"}
ModeBad == {"selinux-not-enforcing"}
Profiles == {"apparmor-complain-mode"}
Quiet == Backend(FALSE, "answers", TRUE, TRUE)
PostureFacts ==
    "audit" :> {Facts("absent", AuditGone, {}, {}), Facts("absent", AuditGone, {}, {"not_installed"}),
                Facts("unknown", AuditGone, {}, {}), Facts("there", {"not_enabled"}, {}, {}),
                Facts("there", {"rules"}, {"rules"}, {}), Facts("there", {"rules"}, {}, {"rules"}),
                Facts("there", {}, {"not_running"}, {})} @@
    "firewall" :> {FwFacts("found", b, e) :
                     e \in {{}, {"disabled"}},
                     b \in {<<>>, <<Quiet>>, <<Quiet, Backend(TRUE, "answers", FALSE, TRUE)>>,
                           <<Backend(TRUE, "answers", FALSE, FALSE)>>,
                           <<Backend(FALSE, "refused", TRUE, TRUE), Quiet>>,
                           <<Backend(TRUE, "refused", FALSE, TRUE)>>,
                           <<Backend(TRUE, "fails", TRUE, FALSE)>>}} @@
    "kernel" :> {KernelFacts("read", {"kptr_restrict"}, {"kptr_restrict"}, {}, {}),
                 KernelFacts("read", {"rp_filter"}, {}, {}, {}),
                 KernelFacts("read", {}, {}, {"log_martians"}, {}),
                 KernelFacts("unread", {}, {}, {}, {"suid_dumpable"}),
                 KernelFacts("read", {}, {}, {}, {"suid_dumpable"})} @@
    "mac" :> {Facts("none", {"no-mac-system"}, {}, {}), Facts("undetected", ModeBad, {}, {}),
              Facts("selinux", ModeBad, {}, {}), Facts("selinux", ModeBad, {"failed"}, {}),
              Facts("apparmor", Profiles, {}, {}), Facts("apparmor", Profiles, {"refused"}, {}),
              Facts("apparmor", Profiles, {"failed"}, {})} @@
    "pam" :> {PamFacts("enforced", {"deny", "minlen"}, {"minlen"}, {}),
              PamFacts("enforced", {}, {}, {"deny"}), PamFacts("unenforced", {}, {}, {}),
              PamFacts("unasked", {}, {}, {})} @@
    "permissions" :> {PermFacts({"/etc/group", "/etc/ssh"}, {"/etc/ssh"}, {}),
                      PermFacts({"/etc/shadow", "/etc/sudoers"}, {}, {"/etc/shadow"})} @@
    "services" :> {Facts("listed", {"cups"}, {}, {"cups"}), Facts("listed", {"avahi", "bluetooth"}, {}, {}),
                   Facts("unlisted", {"xinetd"}, {}, {})} @@
    "ssh" :> {Facts("read", {"X11Forwarding", "MACs"}, {}, {"MACs"}),
              Facts("refused", {"PermitRootLogin"}, {}, {}), Facts("failed", {"Ciphers"}, {}, {})}

PostureAsk(plugins, off, marked, known) ==
    [plugins |-> plugins, off |-> off, marked |-> marked, known |-> known]
Excluded(spelling, control, reviewBy, approved, hosts) ==
    [spelling |-> spelling, control |-> control, reviewBy |-> reviewBy,
     approved |-> approved, hosts |-> hosts]
ReportFor(profile, distribution, names, spelling) ==
    [profile |-> profile, distribution |-> distribution, host |-> names, last |-> spelling,
     exclusions |-> {Excluded("cis", "5.1.8", Absent, 1, {}), Excluded("CIS", "5.1.8", 1, 1, {}),
                     Excluded("iso", "7.4", 30, Absent, {"web"}),
                     Excluded("iso", "8.5", 30, Absent, {}), Excluded("cis", "5.3.1", 30, Absent, {})}]

PostureSmall ==
      [Clean |-> PostureClean, Today |-> 3, MaxChanges |-> 1,
       Hosts |-> {PostureClean} \cup
                UNION {{[PostureClean EXCEPT ![p] = f] : f \in PostureFacts[p]} :
                          p \in DOMAIN PostureFacts},
       Selections |-> LET all == DOMAIN PostureClean IN
                     {PostureAsk(all, {}, FALSE, {}), PostureAsk({"ssh", "mac"}, {}, FALSE, {}),
                      PostureAsk(all, {"audit", "firewall"}, TRUE, {}),
                      PostureAsk(all, {"kernel", "pam"}, FALSE, {"kernel"})},
       Requests |-> {ReportFor("generic", Absent, {}, "cis"), ReportFor(Absent, Absent, {"web"}, "CIS"),
                    ReportFor(Absent, [family |-> "RedHat", major |-> 10], {"web"}, "cis")}]

Row(id, here) == [id |-> id, here |-> here]
Rows(reach, rows) == [reach |-> reach, rows |-> rows]
NoDatabase == Rows("absent", {})
Kept(user, system, off, verbs) == [user |-> user, system |-> system, off |-> off, verbs |-> verbs]

DesktopSmall ==
      [Command |-> Process, Plugin |-> {"pam", "ssh"}, Selections |-> {{"pam", "ssh"}, {"ssh"}},
       Id |-> 1 .. 3, Cooldown |-> 2, MaxScans |-> 2, MaxTicks |-> 3, MaxFaults |-> 1,
       Books |-> {Kept(NoDatabase, NoDatabase, {"ssh"}, {"scan", "deep", "report"})}
                \cup {Kept(Rows("read", {Row(1, TRUE)}), s, {}, verbs) :
                         s \in {NoDatabase, Rows("read", {Row(2, TRUE)}), Rows("unreadable", {Row(2, TRUE)})},
                         verbs \in {{"create", "delete"}, {"list", "rollback", "apply", "preview"}}}
                \cup {Kept(Rows("unreadable", {Row(1, TRUE)}), NoDatabase, {}, {"list", "create", "delete"})}]

\* TLC evaluates a definition once, and what a constant stands for at every use.
MCSshParams == SshSmall
MCKernelParams == KernelSmall
MCPamParams == PamSmall
MCAuditParams == AuditSmall
MCFirewallParams == FirewallSmall
MCServParams == ServSmall
MCMacParams == MacSmall
MCPermParams == PermSmall
MCOrderParams == OrderSmall
MCKeyParams == KeySmall
MCDatabaseParams == DatabaseSmall
MCFleetParams == FleetSmall
MCPostureParams == PostureSmall
MCDesktopParams == DesktopSmall
=============================================================================
