----------------------------- MODULE Compliance -----------------------------
(***************************************************************************)
(* From the evidence of a scan to the verdict on every control of a        *)
(* benchmark (crates/hardener-compliance, with the tables each plugin of   *)
(* crates/hardener-plugins declares of what its checks stand for).         *)
(*                                                                         *)
(* A check is what a plugin names in a finding, a control is its number in *)
(* a benchmark.  Three frameworks are kept of ten: CIS, which has a        *)
(* curated catalogue and is renumbered for RHEL 10; STIG, which has no     *)
(* catalogue and is renumbered; ISO 27001, which has a catalogue and is    *)
(* not.  The numbers of one are never those of another, so a control is    *)
(* its number.  Titles, sections and the order of a report are left out.   *)
(***************************************************************************)
EXTENDS Integers, Sequences, FiniteSets

Framework == {"CIS", "STIG", "ISO"}
Profile   == {"generic", "rhel10"}

(***************************************************************************)
(* What the checks of each plugin stand for.  Two parameters, directives   *)
(* or paths that stand for the same are one check here.                    *)
(***************************************************************************)

KernelMemory ==
    {<<"randomize_va_space", {"1.5.1", "RHEL-08-010430", "8.9"}>>,
     <<"kptr_restrict", {"1.5.4", "RHEL-08-040283", "8.9"}>>,
     <<"dmesg_restrict", {"1.5.4", "RHEL-08-010375", "8.9"}>>,
     <<"ptrace_scope", {"1.5.2", "RHEL-08-040282", "8.9"}>>}
KernelFiles ==
    {<<"suid_dumpable", {"1.5.3", "8.9"}>>,
     <<"protected_links", {"RHEL-08-010374", "8.9"}>>,
     <<"rp_filter", {"3.2.7", "RHEL-08-040285", "8.20"}>>,
     <<"tcp_syncookies", {"3.2.8", "8.20"}>>}
KernelRoutes ==
    {<<"accept_source_route", {"3.2.1", "RHEL-08-040239", "8.20"}>>,
     <<"accept_redirects", {"3.2.2", "8.20"}>>,
     <<"secure_redirects", {"3.2.3", "8.20"}>>,
     <<"log_martians", {"3.2.4", "8.15"}>>}

AuditPresence ==
    {<<"not_installed", {"4.1.1.1", "OL08-00-030180", "8.15"}>>,
     <<"not_enabled", {"4.1.1.2", "OL08-00-030181", "8.15"}>>,
     <<"not_running", {"4.1.1.2", "OL08-00-030181", "8.15"}>>}
AuditLoaded == {<<"rules", {"4.1.2.1", "8.15", "8.16"}>>}

\* AUDIT_POST_INSTALL_FINDING_TYPES: of a daemon that must be there first.
AuditPostInstall == {"not_enabled", "not_running", "rules"}

PamLength ==
    {<<"minlen", {"5.3.1", "RHEL-08-020230", "8.5"}>>,
     <<"dcredit", {"5.3.1", "RHEL-08-020130", "8.5"}>>,
     <<"ucredit", {"5.3.1", "RHEL-08-020110", "8.5"}>>,
     <<"lcredit", {"5.3.1", "RHEL-08-020120", "8.5"}>>}
PamLockout ==
    {<<"ocredit", {"5.3.1", "RHEL-08-020280", "8.5"}>>,
     <<"maxrepeat", {"5.3.1", "RHEL-08-020150", "8.5"}>>,
     <<"deny", {"5.3.2", "RHEL-08-020011", "8.5"}>>,
     <<"remember", {"5.3.3", "8.5"}>>}
PamAges ==
    {<<"PASS_MAX_DAYS", {"5.4.1.1", "RHEL-08-020200", "8.5"}>>,
     <<"PASS_MIN_DAYS", {"5.4.1.2", "RHEL-08-020190", "8.5"}>>,
     <<"PASS_WARN_AGE", {"5.4.1.3", "8.5"}>>}

PermissionAccounts ==
    {<<"/etc/passwd", {"6.1.2", "8.3"}>>,
     <<"/etc/shadow", {"6.1.3", "8.3"}>>}
PermissionGroups ==
    {<<"/etc/group", {"6.1.4", "8.3"}>>,
     <<"/etc/gshadow", {"6.1.5", "8.3"}>>}
PermissionPolicy ==
    {<<"/etc/ssh", {"8.2"}>>,
     <<"/etc/sudoers", {"8.3"}>>}

SshLogin ==
    {<<"PermitRootLogin", {"5.2.10", "8.5", "8.2"}>>,
     <<"PasswordAuthentication", {"5.2.11", "8.5"}>>}
SshLimits ==
    {<<"PermitEmptyPasswords", {"5.2.11", "8.5"}>>,
     <<"MaxAuthTries", {"5.2.7", "8.5"}>>,
     <<"X11Forwarding", {"5.2.6", "8.20"}>>}
SshSession ==
    {<<"ClientAlive", {"5.2.13", "8.20"}>>,
     <<"KexAlgorithms", {"5.2.14", "8.24"}>>}
SshCrypto ==
    {<<"Ciphers", {"5.2.15", "RHEL-08-010291", "8.24"}>>,
     <<"MACs", {"5.2.16", "RHEL-08-010290", "8.24"}>>}

MacPresence == {<<"no-mac-system", {"1.6.1.1", "8.3", "5.15"}>>}
MacMode ==
    {<<"selinux-not-enforcing", {"1.6.1.4", "OL08-00-010170", "8.3", "5.15"}>>,
     <<"apparmor-complain-mode", {"1.6.1.4", "8.3", "5.15"}>>,
     <<"apparmor-no-profiles", {"1.6.1.4", "8.3", "5.15"}>>}

ServiceControls ==
    {<<"xinetd", {"2.1.1", "8.19", "8.9"}>>,
     <<"avahi", {"2.2.3", "8.20", "8.19", "8.9"}>>,
     <<"cups", {"2.2.4", "8.19", "8.9"}>>,
     <<"bluetooth", {"8.20", "8.19", "8.9"}>>}

FirewallControls ==
    {<<c, {"3.4.1.1", "3.4.1.2", "RHEL-08-040101", "8.20", "8.21"}>> :
        c \in {"disabled", "not-at-boot"}}

\* The tables of each plugin (coverage_table), the checks they name and what
\* each check stands for.
Plugins ==
    {"audit", "firewall", "kernel", "mac", "pam", "permissions", "services", "ssh"}
Table(plugin) ==
    CASE plugin = "audit"       -> AuditPresence \cup AuditLoaded
      [] plugin = "firewall"    -> FirewallControls
      [] plugin = "kernel"      -> KernelMemory \cup KernelFiles \cup KernelRoutes
      [] plugin = "mac"         -> MacPresence \cup MacMode
      [] plugin = "pam"         -> PamLength \cup PamLockout \cup PamAges
      [] plugin = "permissions" -> PermissionAccounts \cup PermissionGroups \cup PermissionPolicy
      [] plugin = "services"    -> ServiceControls
      [] plugin = "ssh"         -> SshLogin \cup SshLimits \cup SshSession \cup SshCrypto

Named(table) == {row[1] : row \in table}
Stands == UNION {Table(p) : p \in Plugins}
Checks == [p \in Plugins |-> Named(Table(p))]

\* The plugins in the order of their registration, which is that of their ids.
Registry ==
    <<"audit", "firewall", "kernel", "mac", "pam", "permissions", "services", "ssh">>

\* compliance_coverage: what some check of a build stands for.
StandsFor(checks) == UNION {row[2] : row \in {row \in Stands : row[1] \in checks}}
Coverage == StandsFor(Named(Stands))

(***************************************************************************)
(* The catalogues: what a benchmark asks for, covered by a check or not.   *)
(***************************************************************************)

CuratedCIS ==
    {"1.5.1", "1.5.2", "1.5.3", "1.5.4", "1.6.1.1", "1.6.1.2", "1.6.1.3", "1.6.1.4",
     "2.1.1", "2.2.2", "2.2.3", "2.2.4", "3.2.1", "3.2.2", "3.2.3", "3.2.4", "3.2.7",
     "3.2.8", "3.4.1.1", "3.4.1.2", "4.1.1.1", "4.1.1.2", "4.1.2.1", "5.1.8", "5.2.1",
     "5.2.4", "5.2.6", "5.2.7", "5.2.10", "5.2.11", "5.2.13", "5.2.14", "5.2.15",
     "5.2.16", "5.3.1", "5.3.2", "5.3.3", "6.1.2", "6.1.3", "6.1.4", "6.1.5"}

\* Annex A of ISO/IEC 27001:2022, its clauses numbered within four themes.
OrganizationalAndPeople ==
    {"5.1", "5.2", "5.3", "5.4", "5.5", "5.6", "5.7", "5.8", "5.9", "5.10",
     "5.11", "5.12", "5.13", "5.14", "5.15", "5.16", "5.17", "5.18", "5.19",
     "5.20", "5.21", "5.22", "5.23", "5.24", "5.25", "5.26", "5.27", "5.28",
     "5.29", "5.30", "5.31", "5.32", "5.33", "5.34", "5.35", "5.36", "5.37",
     "6.1", "6.2", "6.3", "6.4", "6.5", "6.6", "6.7", "6.8"}
PhysicalAndTechnological ==
    {"7.1", "7.2", "7.3", "7.4", "7.5", "7.6", "7.7", "7.8", "7.9", "7.10",
     "7.11", "7.12", "7.13", "7.14", "8.1", "8.2", "8.3", "8.4", "8.5", "8.6",
     "8.7", "8.8", "8.9", "8.10", "8.11", "8.12", "8.13", "8.14", "8.15",
     "8.16", "8.17", "8.18", "8.19", "8.20", "8.21", "8.22", "8.23", "8.24",
     "8.25", "8.26", "8.27", "8.28", "8.29", "8.30", "8.31", "8.32", "8.33",
     "8.34"}
CuratedISO == OrganizationalAndPeople \cup PhysicalAndTechnological

(***************************************************************************)
(* Profiles: the benchmark of a release may number a control differently,  *)
(* split it, or not have it.                                               *)
(***************************************************************************)

Rhel10Stig ==
    {<<"RHEL-08-010430", {"RHEL-10-701130"}>>,
     <<"RHEL-08-040283", {"RHEL-10-701060"}>>,
     <<"RHEL-08-010375", {"RHEL-10-701030"}>>,
     <<"RHEL-08-040282", {"RHEL-10-701140"}>>,
     <<"RHEL-08-010374", {"RHEL-10-701070", "RHEL-10-701080"}>>,
     <<"RHEL-08-040285", {"RHEL-10-800130", "RHEL-10-800160"}>>,
     <<"RHEL-08-040239", {"RHEL-10-800100", "RHEL-10-800150"}>>,
     <<"RHEL-08-020230", {"RHEL-10-600220"}>>,
     <<"RHEL-08-020130", {"RHEL-10-600310"}>>,
     <<"RHEL-08-020110", {"RHEL-10-600250"}>>,
     <<"RHEL-08-020120", {"RHEL-10-600240"}>>,
     <<"RHEL-08-020280", {"RHEL-10-600230"}>>,
     <<"RHEL-08-020150", {"RHEL-10-600290"}>>,
     <<"RHEL-08-020011", {"RHEL-10-600410"}>>,
     <<"RHEL-08-020200", {"RHEL-10-600100"}>>,
     <<"RHEL-08-020190", {"RHEL-10-600210"}>>,
     <<"RHEL-08-040101", {"RHEL-10-200531"}>>,
     <<"RHEL-08-010291", {"RHEL-10-300040"}>>,
     <<"RHEL-08-010290", {"RHEL-10-300060"}>>,
     <<"OL08-00-030180", {"RHEL-10-200660"}>>,
     <<"OL08-00-030181", {"RHEL-10-200661"}>>,
     <<"OL08-00-010170", {"RHEL-10-700420"}>>}
Rhel10CisHost ==
    {<<"1.5.1", {"1.5.8"}>>, <<"1.5.2", {"1.5.7"}>>, <<"1.5.3", {"1.5.4"}>>,
     <<"1.5.4", {"1.5.5", "1.5.6"}>>, <<"1.6.1.1", {"1.3.1.1"}>>,
     <<"1.6.1.2", {"1.3.1.2"}>>, <<"1.6.1.3", {"1.3.1.3"}>>,
     <<"1.6.1.4", {"1.3.1.5"}>>, <<"2.2.2", {"2.1.20"}>>,
     <<"2.2.3", {"2.1.2"}>>, <<"2.2.4", {"2.1.10"}>>,
     <<"3.2.1", {"3.3.1.14", "3.3.1.15"}>>,
     <<"3.2.2", {"3.3.1.8", "3.3.1.9"}>>,
     <<"3.2.3", {"3.3.1.10", "3.3.1.11"}>>,
     <<"3.2.4", {"3.3.1.16", "3.3.1.17"}>>,
     <<"3.2.7", {"3.3.1.12", "3.3.1.13"}>>, <<"3.2.8", {"3.3.1.18"}>>,
     <<"3.4.1.1", {"4.1.1"}>>, <<"3.4.1.2", {"4.1.3"}>>,
     <<"4.1.1.1", {"6.3.1.1"}>>, <<"4.1.1.2", {"6.3.1.4"}>>,
     <<"4.1.2.1", {"6.3.2.1"}>>}
Rhel10CisAccess ==
    {<<"5.1.8", {"2.4.1.9"}>>, <<"5.2.1", {"5.1.1"}>>, <<"5.2.6", {"5.1.8"}>>,
     <<"5.2.7", {"5.1.16"}>>, <<"5.2.10", {"5.1.20"}>>,
     <<"5.2.11", {"5.1.19"}>>, <<"5.2.13", {"5.1.7"}>>,
     <<"5.2.14", {"5.1.12"}>>, <<"5.2.15", {"5.1.6"}>>,
     <<"5.2.16", {"5.1.15"}>>,
     <<"5.3.1", {"5.3.2.2.2", "5.3.2.2.3", "5.3.2.2.4"}>>,
     <<"5.3.2", {"5.3.2.1.1", "5.3.2.1.2"}>>, <<"5.3.3", {"5.3.2.3.1"}>>,
     <<"5.4.1.1", {"5.4.1.1"}>>, <<"5.4.1.2", {"5.4.1.2"}>>,
     <<"5.4.1.3", {"5.4.1.3"}>>, <<"6.1.2", {"7.1.1"}>>,
     <<"6.1.3", {"7.1.5"}>>, <<"6.1.4", {"7.1.3"}>>, <<"6.1.5", {"7.1.7"}>>}

Rhel10 == Rhel10Stig \cup Rhel10CisHost \cup Rhel10CisAccess

\* translate_all.  What the newer benchmark lacks is dropped, and what it does
\* not renumber stays.
Translate(profile, controls) ==
    IF profile = "generic" THEN controls
    ELSE (controls \cap CuratedISO)
           \cup UNION {row[2] : row \in {row \in Rhel10 : row[1] \in controls}}

\* resolve_profile: of the distributions, only the tenth release of one family.
ResolveProfile(distribution) ==
    IF distribution.family = "RedHat" /\ distribution.major = 10
    THEN "rhel10" ELSE "generic"

(***************************************************************************)
(* The evidence of a run.  A result is a record: the plugin, whether it is *)
(* the marker of one that a configuration disabled, whether its scan       *)
(* succeeded, its findings (a check, and whether a documented exception    *)
(* was applied to it), and the checks it could not make.                   *)
(***************************************************************************)

\* unassessed_check: all that a plugin covers, of which nothing was seen.
StandIn(plugin) == StandsFor(Checks[plugin])

\* Seeded faults: a plugin that brought no result, a marker, or a failed scan
\* is not stood in for.
FlattenNoAbsent(results, skipped) ==
    LET ran == {r \in results : ~r.marker}
        off == {r.plugin : r \in results \ ran}
        bad == {r.plugin : r \in {r \in ran : ~r.ok}}
    IN [live      |-> UNION {StandsFor({f.check : f \in {f \in r.findings : ~f.applied}}) : r \in ran},
        unchecked |-> UNION ({StandsFor(r.unchecked) : r \in ran}
                                \cup {StandIn(p) : p \in off \cup bad})]

\* flatten.  The inventory is the one of the build, which a fresh registry
\* always lists.
Flatten(results, skipped) ==
    LET ran    == {r \in results : ~r.marker}
        off    == {r.plugin : r \in results \ ran}
        bad    == {r.plugin : r \in {r \in ran : ~r.ok}}
        absent == Plugins \ {r.plugin : r \in results}
    IN [live      |-> UNION {StandsFor({f.check : f \in {f \in r.findings : ~f.applied}}) : r \in ran},
        unchecked |-> UNION ({StandsFor(r.unchecked) : r \in ran}
                                \cup {StandIn(p) : p \in off \cup bad \cup (absent \cap skipped)}
                                \cup {StandIn(p) : p \in absent \ skipped})]

\* The evidence in the numbers of a profile.
Renumber(profile, evidence) ==
    [live      |-> Translate(profile, evidence.live),
     unchecked |-> Translate(profile, evidence.unchecked)]

(***************************************************************************)
(* Exclusions: what an operator declares does not apply.                   *)
(***************************************************************************)

\* default_review_months: a year, in every framework.
ReviewMonths == 12

\* review_deadline: an explicit day decides, though it cannot be read; none
\* without one means a year after the approval.
Deadline(exclusion, absent) ==
    IF exclusion.reviewBy # absent THEN exclusion.reviewBy
    ELSE IF exclusion.approved \in Int THEN exclusion.approved + ReviewMonths
    ELSE absent

\* is_valid_on
ValidOn(exclusion, today, absent) ==
    LET day == Deadline(exclusion, absent) IN day \in Int /\ today <= day

\* covers_this_host and covers_host.  A host is the set of its spellings, the
\* controller's own is the empty one.
CoversHost(exclusion, host) ==
    exclusion.hosts = {} \/ exclusion.hosts \cap host # {}

\* The exclusion a report finds for a control.  A framework may be spelled in
\* two ways, each with an exclusion of its own, and the map they are collected
\* into keeps that of the spelling that comes `last`.
Declared(exclusions, control, last) ==
    LET those == {e \in exclusions : e.control = control}
        final == {e \in those : e.spelling = last}
    IN IF final # {} THEN final ELSE those

Excused(exclusions, host, last, today, absent) ==
    {e.control : e \in {e \in exclusions : /\ e \in Declared(exclusions, e.control, last)
                                           /\ ValidOn(e, today, absent)
                                           /\ CoversHost(e, host)}}
 
(***************************************************************************)
(* The report: the verdict on every control, in the order of the arms.     *)
(***************************************************************************)

\* The controls a report lists: the curated ones, and those some check covers.
Catalogue(profile) == Translate(profile, CuratedCIS \cup CuratedISO \cup Coverage)
Assessed(profile)  == Translate(profile, Coverage)

\* Seeded faults: an exclusion decides before the evidence, or a check that
\* could not be made counts as one that found nothing.
VerdictsMuted(profile, evidence, excused) ==
    LET live == evidence.live \ excused
        seen == Catalogue(profile) \ (live \cup evidence.unchecked)
        pass == seen \cap Assessed(profile)
    IN [fail |-> live, pass |-> pass, excluded |-> (seen \ pass) \cap excused,
        manual |-> Catalogue(profile) \ (live \cup pass \cup (seen \cap excused))]
VerdictsUnseen(profile, evidence, excused) ==
    LET seen == Catalogue(profile) \ evidence.live
        pass == seen \cap Assessed(profile)
        na   == (seen \ pass) \cap excused
    IN [fail |-> evidence.live, pass |-> pass, excluded |-> na,
        manual |-> seen \ (pass \cup na)]

\* generate_for_framework.  A live finding fails its control, in the catalogue
\* or not; an exclusion decides only what no check covers.
Verdicts(profile, evidence, excused) ==
    LET seen == Catalogue(profile) \ (evidence.live \cup evidence.unchecked)
        pass == seen \cap Assessed(profile)
        na   == (seen \ pass) \cap excused
    IN [fail     |-> evidence.live,
        pass     |-> pass,
        excluded |-> na,
        manual   |-> Catalogue(profile) \ (evidence.live \cup pass \cup na)]

\* The controls of one framework under a profile.
Of(profile, framework) ==
    LET stig == Translate(profile, Named(Rhel10Stig)) IN
    CASE framework = "STIG" -> stig
      [] framework = "ISO"  -> CuratedISO
      [] framework = "CIS"  -> Catalogue(profile) \ (stig \cup CuratedISO)

\* from_controls: the percentage of the applicable ones that pass, rounded down.
ScorePercentage(profile, framework, verdicts) ==
    LET within     == Of(profile, framework)
        total      == Cardinality(within \cap (Catalogue(profile) \cup verdicts.fail))
        applicable == total - Cardinality(within \cap verdicts.excluded)
    IN IF applicable > 0 THEN (100 * Cardinality(within \cap verdicts.pass)) \div applicable
       ELSE IF total > 0 THEN 0
       ELSE 100
=============================================================================
