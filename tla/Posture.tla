------------------------------- MODULE Posture -------------------------------
(***************************************************************************)
(* From a host to its compliance report: the scans of the eight plugins    *)
(* (crates/hardener-plugins), gathered by a report of one host or of a     *)
(* fleet (crates/hardener-cli/src/commands/{report,batch}.rs) and scored   *)
(* by Compliance.  What each plugin judges a setting by is in the module   *)
(* of that plugin; here a check deviates or does not, and what matters is  *)
(* what a scan makes of a check it cannot make.                            *)
(*                                                                         *)
(* A host is a record for each plugin.  All have `bad`, the checks that    *)
(* deviate, and `except`, those whose deviation the configuration          *)
(* documents; `blind`, those whose state a scan cannot read; `whole`, what *)
(* it finds of the thing itself.  The plugins scan side by side, but each  *)
(* reads what no other reads and writes nothing, so they go in the order   *)
(* of the registry.                                                        *)
(***************************************************************************)
EXTENDS Compliance

CONSTANTS Absent,      \* no date, or one that cannot be read
          Today,
          Clean,       \* a host on which nothing deviates
          Hosts,
          Selections,  \* the plugins a run is about, those disabled, and
                       \* whether their absence is marked or only known
          Requests,    \* for whom a report is, and what is declared away
          MaxChanges   \* changes of the host and failures of a scan

\* What a host can be: a mode that deviates is that of the system that is there, and
\* an auditd that is there does not deviate by not being installed.
Backend == [active : BOOLEAN, asked : {"answers", "refused", "fails"}, unit : BOOLEAN,
            boot : BOOLEAN, told : BOOLEAN]
Possible(h) ==
    /\ DOMAIN h = Plugins
    /\ h["audit"].whole \in {"unknown", "absent", "there"}
    /\ h["audit"].whole = "there" => "not_installed" \notin h["audit"].bad
    /\ h["firewall"].backends \in Seq(Backend)
    /\ h["mac"].whole \in {"undetected", "none", "selinux", "apparmor"}
    /\ h["mac"].whole = "selinux" => h["mac"].bad \subseteq {"selinux-not-enforcing"}
    /\ h["mac"].whole = "apparmor" =>
          h["mac"].bad \subseteq {"apparmor-complain-mode", "apparmor-no-profiles"}
    /\ h["pam"].whole \in {"enforced", "unenforced", "unasked"}
    /\ h["ssh"].whole \in {"read", "refused", "failed"}

PostureAssumption == MaxChanges \in Nat /\ \A h \in Hosts \cup {Clean} : Possible(h)

VARIABLES host, call, left

vars == <<host, call, left>>

\* A finding of each check, with its exception where one is documented.
Found(h, checks) == {[check |-> c, applied |-> c \in h.except] : c \in checks}
Result(p, ok, findings, unchecked) ==
    [plugin |-> p, marker |-> FALSE, ok |-> ok, findings |-> findings, unchecked |-> unchecked]

(***************************************************************************)
(* The scans.                                                              *)
(***************************************************************************)

\* What `whole` says of auditd is what the probe says; a service probe that
\* fails reads as no, and rules that cannot be listed are unchecked, unless the
\* failure is of no known kind: then none is loaded.
AuditScan(h) ==
    CASE h.whole = "unknown" -> {Result("audit", TRUE, {}, Checks["audit"])}
      [] h.whole = "absent"  ->
            {Result("audit", TRUE, Found(h, {"not_installed"}), AuditPostInstall)}
      [] h.whole = "there"   ->
            LET daemon == (h.bad \cup h.blind) \cap {"not_enabled", "not_running"}
                rules  == h.bad \cap {"rules"}
            IN IF "rules" \notin h.blind
               THEN {Result("audit", TRUE, Found(h, daemon \cup rules), {})}
               ELSE {Result("audit", TRUE, Found(h, daemon), {"rules"}),
                     Result("audit", TRUE, Found(h, daemon \cup {"rules"}), {})}

\* An installed backend is a record: it filters or not, its unit runs, what
\* asking it gives, whether it starts at boot, and whether systemd says so.
Activity(b) ==
    CASE b.asked = "answers" -> IF b.active THEN "verified" ELSE "inactive"
      [] b.asked = "refused" -> IF b.unit THEN "unverified" ELSE "unknown"
      [] b.asked = "fails"   -> "inactive"

\* find_winner: the first that runs, or seems to; 0 where none does.
Winner(backends) ==
    LET running == {i \in DOMAIN backends : Activity(backends[i]) \in {"verified", "unverified"}}
    IN IF running = {} THEN 0 ELSE CHOOSE i \in running : \A j \in running : i <= j

Silent(h) == \A i \in DOMAIN h.backends : Activity(h.backends[i]) = "inactive"

\* Seeded fault: a backend nothing could confirm counts as one that runs.
BackendTrusted(h) ==
    LET w == Winner(h.backends) IN
    IF h.whole = "unlisted" \/ h.backends = <<>> THEN {Result("firewall", FALSE, {}, {})}
    ELSE {Result("firewall", TRUE, IF w = 0 /\ Silent(h) THEN Found(h, {"disabled"}) ELSE {}, {})}

\* One backend confirmed settles the question for its host, and only then is it
\* asked whether that one starts at boot.
FirewallScan(h) ==
    LET w == Winner(h.backends)
        b == h.backends[w]
        one(findings, unchecked) == {Result("firewall", TRUE, findings, unchecked)}
    IN IF h.whole = "unlisted" \/ h.backends = <<>> THEN {Result("firewall", FALSE, {}, {})}
       ELSE IF w = 0
       THEN IF Silent(h) THEN one(Found(h, {"disabled"}), {}) ELSE one({}, {"disabled"})
       ELSE IF Activity(b) = "unverified" THEN one({}, {"disabled"})
       ELSE one(IF b.told /\ ~b.boot THEN Found(h, {"not-at-boot"}) ELSE {},
                IF b.told THEN {} ELSE {"not-at-boot"})

\* Seeded fault: a parameter that cannot be read is passed over.
KernelPassesOver(h) ==
    {Result("kernel", TRUE, Found(h, (h.bad \ h.blind) \cup h.later),
            IF h.whole = "unread" THEN Checks["kernel"] ELSE {})}

\* The running value of each parameter, and what the next boot makes of it: one
\* file of it that cannot be read, and no check may pass.
KernelScan(h) ==
    {Result("kernel", TRUE, Found(h, (h.bad \ h.blind) \cup h.later),
            h.blind \cup (IF h.whole = "unread" THEN Checks["kernel"] ELSE {}))}

\* The mode is asked of the system that was detected.  Where it cannot be told,
\* only a refusal of AppArmor is unchecked; where detection fails, only presence.
MacScan(h) ==
    LET modes == h.bad \cap Named(MacMode)
        one(findings, unchecked) == {Result("mac", TRUE, findings, unchecked)}
    IN CASE h.whole = "undetected" -> one({}, {"no-mac-system"})
         [] h.whole = "none"       -> one(Found(h, {"no-mac-system"}), Named(MacMode))
         [] h.whole = "selinux"    -> one(IF h.blind = {} THEN Found(h, modes) ELSE {}, {})
         [] h.whole = "apparmor"   ->
                CASE h.blind = {}         -> one(Found(h, modes), {})
                  [] "refused" \in h.blind -> one({}, {"apparmor-no-profiles"})
                  [] OTHER                -> one({}, {})

\* A directive whose module is in no stack deviates whatever its file says, and
\* no exception covers it; one whose stack or file cannot be read is unchecked.
\* The age a shadow file cannot enforce deviates, where the probe says so.
PamScan(h) ==
    LET idle  == h.unstacked \cup (IF h.whole = "unenforced" THEN {"PASS_MIN_DAYS"} ELSE {})
        told  == (h.bad \ h.blind) \ idle
    IN {Result("pam", TRUE,
               Found(h, told) \cup {[check |-> c, applied |-> FALSE] : c \in idle},
               h.blind \ idle)}

\* A path that cannot be read is unchecked, and so is one that deviates where
\* no mode can be set; an absent one is judged by the vendor's copy.
PermissionScan(h) ==
    LET told == h.bad \ h.blind
    IN {Result("permissions", TRUE, Found(h, told \ h.fat), h.blind \cup (told \cap h.fat))}

ServiceScan(h) ==
    IF h.whole = "unlisted" THEN {Result("services", FALSE, {}, Checks["services"])}
    ELSE {Result("services", TRUE, Found(h, h.bad), {})}

\* A file refused for want of privilege leaves every directive unchecked, and
\* the scan a success; one that cannot be read otherwise, is not there, or
\* includes what cannot be resolved, a failure.
SshScan(h) ==
    CASE h.whole = "read"    -> {Result("ssh", TRUE, Found(h, h.bad), {})}
      [] h.whole = "refused" -> {Result("ssh", TRUE, {}, Checks["ssh"])}
      [] h.whole = "failed"  -> {Result("ssh", FALSE, {}, Checks["ssh"])}

Scan(p, h) ==
    CASE p = "audit" -> AuditScan(h)
      [] p = "firewall" -> FirewallScan(h)
      [] p = "kernel" -> KernelScan(h)
      [] p = "mac" -> MacScan(h)
      [] p = "pam" -> PamScan(h)
      [] p = "permissions" -> PermissionScan(h)
      [] p = "services" -> ServiceScan(h)
      [] p = "ssh" -> SshScan(h)

\* failed_scan: a scan that returns an error travels as one that failed.
FailedScan(p) == Result(p, FALSE, {}, {})
Marker(p) == [Result(p, FALSE, {}, {}) EXCEPT !.marker = TRUE]

(***************************************************************************)
(* What is so, whether or not a scan can see it.                           *)
(***************************************************************************)

\* The checks of a plugin that deviate on a host.
Deviating(p, h) ==
    CASE p = "firewall" ->
            LET on == {i \in DOMAIN h.backends : h.backends[i].active} IN
            (IF on = {} THEN {"disabled"} ELSE {})
              \cup (IF on # {} /\ \A i \in on : ~h.backends[i].boot THEN {"not-at-boot"} ELSE {})
      [] p = "kernel" -> h.bad \cup h.later \cup h.hidden
      [] p = "mac"    -> IF h.whole = "none" THEN Checks["mac"] ELSE h.bad
      [] p = "pam"    -> h.bad \cup h.unstacked
                           \cup (IF h.whole = "enforced" THEN {} ELSE {"PASS_MIN_DAYS"})
      [] OTHER        -> h.bad

\* Those of which a scan says nothing, though it could not make them: the mode
\* of a system it detected and cannot ask, or could not detect; the age nobody
\* could say is enforced; the start of a backend that filters and was taken to be
\* off, because asking it failed otherwise than for want of privilege; what the
\* next boot takes from elsewhere than the files a scan reads.
Mute(h) ==
    \/ h.whole = "undetected"
    \/ h.whole = "selinux" /\ h.blind # {}
    \/ h.whole = "apparmor" /\ h.blind \ {"refused"} # {}
Misjudged(h) == \E i \in DOMAIN h.backends : h.backends[i].active /\ h.backends[i].asked = "fails"
Unsaid(p, h) ==
    IF p = "mac" /\ Mute(h) THEN Named(MacMode)
    ELSE IF p = "pam" /\ h.whole = "unasked" THEN {"PASS_MIN_DAYS"}
    ELSE IF p = "firewall" /\ Misjudged(h) THEN {"not-at-boot"}
    ELSE IF p = "kernel" /\ h.whole # "unread" THEN h.hidden
    ELSE {}

\* The checks a run has made and may count: they hold, or are documented.
Earned(p, h) == Checks[p] \ (Deviating(p, h) \ (h.except \cup Unsaid(p, h)))

(***************************************************************************)
(* The run and its report.                                                 *)
(***************************************************************************)

Idle == [pc |-> "idle", step |-> 0, of |-> Absent, results |-> {}, earned |-> {},
         request |-> Absent]

Init ==
    /\ host \in Hosts
    /\ call = Idle
    /\ left = MaxChanges

Begin ==
    /\ call.pc = "idle"
    /\ \E selection \in Selections :
          call' = [Idle EXCEPT !.pc = "scan", !.step = 1, !.of = selection]
    /\ UNCHANGED <<host, left>>

Now == Registry[call.step]
Due == call.pc = "scan" /\ call.step \in DOMAIN Registry
Runs == Due /\ Now \in call.of.plugins \ call.of.off

\* A plugin not selected leaves nothing; a disabled one a marker, where the run
\* is one that leaves markers.
PassBy ==
    /\ Due /\ ~Runs
    /\ call' = [call EXCEPT !.step = @ + 1,
                  !.results = IF Now \in call.of.off /\ call.of.marked
                              THEN @ \cup {Marker(Now)} ELSE @]
    /\ UNCHANGED <<host, left>>

ScanPlugin ==
    /\ Runs
    /\ \E r \in Scan(Now, host[Now]) :
          call' = [call EXCEPT !.step = @ + 1, !.results = @ \cup {r},
                               !.earned = @ \cup Earned(Now, host[Now])]
    /\ UNCHANGED <<host, left>>

ScanFails ==
    /\ Runs /\ left > 0
    /\ call' = [call EXCEPT !.step = @ + 1, !.results = @ \cup {FailedScan(Now)}]
    /\ left' = left - 1
    /\ UNCHANGED host

\* Somebody puts the host right while it is scanned, or undoes it.
HostChanges ==
    /\ call.pc = "scan" /\ left > 0
    /\ host' \in {Clean} \cup (IF host = Clean THEN Hosts ELSE {})
    /\ left' = left - 1
    /\ UNCHANGED call

\* The profile asked for, or that of the distribution of the host.
ProfileOf(request) ==
    IF request.profile # Absent THEN request.profile
    ELSE IF request.distribution # Absent THEN ResolveProfile(request.distribution)
    ELSE "generic"

\* run, and assess_outcomes for one host of a fleet.
Report ==
    /\ call.pc = "scan" /\ call.step \notin DOMAIN Registry
    /\ \E request \in Requests : call' = [call EXCEPT !.pc = "done", !.request = request]
    /\ UNCHANGED <<host, left>>

Next == Begin \/ PassBy \/ ScanPlugin \/ ScanFails \/ HostChanges \/ Report

Spec == Init /\ [][Next]_vars

\* What the report says, in the numbers of its profile.
Said ==
    LET r == call.request
        p == ProfileOf(r)
        skipped == IF call.of.marked THEN {} ELSE call.of.off \cap call.of.known
    IN Verdicts(p, Renumber(p, Flatten(call.results, skipped)),
                Excused(r.exclusions, r.host, r.last, Today, Absent))

TypeOK ==
    /\ call.pc \in {"idle", "scan", "done"}
    /\ call.step \in 0..(Len(Registry) + 1)
    /\ call.earned \subseteq Named(Stands)
    /\ {r.plugin : r \in call.results} \subseteq Plugins
    /\ left \in 0..MaxChanges
    /\ DOMAIN host = Plugins

\* The controls of a benchmark that no check stands for.
Unassessed == (CuratedCIS \cup CuratedISO) \ Coverage

\* Nothing is passed, or declared away, that this run has not found to hold, but for
\* the deviations of Unsaid: every check that stands for a control that passes was
\* made in this run, and held or had its deviation documented when it was made; a control that also takes in
\* what no check covers never passes, whatever its number; and a framework is
\* scored at a hundred only where all of its checks are earned (generator.rs:
\* "only a control the engine both assesses and could actually evaluate this run
\* passes on the mere absence of a finding").
PostureIsEarned ==
    call.pc = "done" =>
      LET p        == ProfileOf(call.request)
          said     == Said
          unearned == Named(Stands) \ call.earned
      IN /\ (said.pass \cup said.excluded) \cap Translate(p, StandsFor(unearned)) = {}
         /\ said.pass \cap Translate(p, Unassessed) = {}
         /\ \A f \in Framework :
               ScorePercentage(p, f, said) = 100
                 => Of(p, f) \cap Translate(p, StandsFor(unearned)) = {}
=============================================================================
