---------------------------- MODULE FirewallPlugin ----------------------------
(***************************************************************************)
(* The firewall plugin (crates/hardener-plugins/src/firewall) over its     *)
(* three backends: ufw and firewalld, which keep a policy in files and     *)
(* load it, and nftables, whose boot file includes a fragment this tool    *)
(* renders.  A host's backend is the one detect_backend chose.             *)
(*                                                                         *)
(* A policy is what an input chain does with each kind of traffic: those   *)
(* whose first rule admits them, those whose first rule blocks them, and   *)
(* whether it drops the rest.                                              *)
(***************************************************************************)
EXTENDS Naturals, FiniteSets

CONSTANTS Rules,    \* get_baseline_rules: a sequence of rule_ids
          Baseline, \* the action and the matched traffic of each
          Traffic,  \* the kinds of traffic the rules tell apart
          Port,     \* the port each comes to
          Sessions, \* those a session of an operator may come by
          SshRule, DropRule, Implicit, \* of the rules: "ssh", "drop_default", and
                    \* those ufw and firewalld see to themselves and nftables
                    \* renders alike whatever they were overridden to
          Absent,   \* no policy loaded, no fragment
          Hosts, Configs, MaxApplies, MaxChanges

Policy == [drop : BOOLEAN, admits : SUBSET Traffic, denies : SUBSET Traffic]

\* What a backend keeps of its policy: the include line is in no file that is not
\* there, and only nftables may be without a policy or unknown.
Keeps(kind, kept) ==
    /\ kind # "nftables" => (kept.boot = "there" /\ kept.files # Absent)
    /\ kind = "firewalld" => kept.on
    /\ kept.boot = "absent" => ~kept.on

Boot == {"there", "absent", "unknown"}
Host == [kind : {"ufw", "firewalld", "nftables"}, now : Policy \cup {Absent},
         files : Policy \cup {Absent}, on : BOOLEAN, unit : BOOLEAN, guard : BOOLEAN,
         boot : Boot,
         saved : {Absent} \cup [files : Policy \cup {Absent}, on : BOOLEAN, boot : Boot]]

FirewallAssumption ==
    /\ Absent \notin Policy /\ Configs # {} /\ Hosts \subseteq Host
    /\ \A i \in DOMAIN Rules : i \in Nat \ {0} /\ 1..i \subseteq DOMAIN Rules
    /\ DropRule \in {Rules[i] : i \in DOMAIN Rules}
    /\ \A i, j \in DOMAIN Rules : (Rules[i] = SshRule /\ Rules[j] = DropRule) => i < j
    /\ \A kind \in {"ufw", "firewalld", "nftables"} :
          {SshRule, DropRule} \cap Implicit[kind] = {}
    /\ Absent \notin Sessions /\ IsFiniteSet(Traffic)
    /\ Baseline[DropRule] = [action |-> "drop", matches |-> Traffic]
    /\ \A h \in Hosts : h.saved = Absent /\ Keeps(h.kind, h)
    /\ \A i \in DOMAIN Rules :
          /\ Baseline[Rules[i]].matches \subseteq Traffic
          /\ \A c \in Configs : c.matches[Rules[i]] \in {Absent} \cup SUBSET Traffic

VARIABLES host,  \* kind; now: the policy loaded; files: the policy kept; on:
                 \* ENABLED=yes, or the include line; unit: wanted at boot;
                 \* boot: what is known of the file the unit loads, and
                 \* guard: its condition on that file; saved: a checkpoint
          call, left

vars == <<host, call, left>>

Passes(policy) ==
    IF policy = Absent THEN Traffic
    ELSE IF policy.drop THEN policy.admits ELSE Traffic \ policy.denies

\* What is loaded after the next boot.
Booted(h) == IF h.unit /\ h.on /\ h.boot # "unknown" THEN h.files ELSE Absent

(***************************************************************************)
(* The ruleset: the baseline rules but for those excepted, under the       *)
(* overrides a rule may take.                                              *)
(***************************************************************************)

\* An override of an action may block what was admitted and nothing else.
Action(config, r) ==
    LET asked == config.action[r] IN
    IF \/ asked \in {"drop", "reject"}
       \/ asked = "accept" /\ Baseline[r].action = "accept"
    THEN asked ELSE Baseline[r].action

\* An override of a field is measured by its breadth: an accepting rule may
\* not match more, a blocking one not less.
Matches(config, r) ==
    LET asked == config.matches[r]
        width == Cardinality(Baseline[r].matches)
    IN
    IF /\ asked # Absent
       /\ IF Action(config, r) = "accept"
          THEN Cardinality(asked) <= width ELSE Cardinality(asked) >= width
    THEN asked ELSE Baseline[r].matches

Applied(config) == {i \in DOMAIN Rules : Rules[i] \notin config.exceptions}
Accepting(config) == {i \in Applied(config) : Action(config, Rules[i]) = "accept"}

\* Seeded fault: nobody asks whether the session is a remote one.
RefusedIfEmpty(config, remote) == Accepting(config) = {}

\* ruleset_refusal
Refused(config, remote) ==
    \/ Accepting(config) = {}
    \/ remote /\ ~\E i \in Accepting(config) : Rules[i] = SshRule

\* render_ruleset: the first rule that matches decides, and the chain drops.
Fixed(r) == r \in Implicit["nftables"]
Admits(config, i) == Fixed(Rules[i]) \/ Action(config, Rules[i]) = "accept"
Hits(config, i) ==
    IF Fixed(Rules[i]) THEN Baseline[Rules[i]].matches ELSE Matches(config, Rules[i])
Rendered(config) ==
    [drop   |-> TRUE, denies |-> {},
     admits |-> {x \in Traffic : \E i \in Applied(config) :
                    /\ Admits(config, i) /\ x \in Hits(config, i)
                    /\ \A j \in Applied(config) :
                          (j < i /\ ~Admits(config, j)) => x \notin Hits(config, j)}]

Admit(policy, S) == [policy EXCEPT !.admits = @ \cup S, !.denies = @ \ S]
Deny(policy, S)  == [policy EXCEPT !.denies = @ \cup S, !.admits = @ \ S]

\* A port of firewalld is opened to any source, and a rule that drops any port
\* sets the target of the zone.
AnySource(S) == {x \in Traffic : \E y \in S : Port[x] = Port[y]}
SetsDefault(kind, config, r) ==
    IF kind = "ufw" THEN r = DropRule
    ELSE Action(config, r) = "drop" /\ AnySource(Matches(config, r)) = Traffic

\* What one command may make of what is kept.  ufw appends a rule, which decides what
\* none before it does, or puts it where one of that very match stands, and
\* takes none that names neither source nor port.
Ruled(kind, policy, config, r) ==
    LET m == Matches(config, r) IN
    CASE SetsDefault(kind, config, r) -> {[policy EXCEPT !.drop = TRUE]}
      [] ~SetsDefault(kind, config, r) /\ kind = "firewalld" ->
            {Admit(policy, AnySource(m) \ policy.denies)}
      [] ~SetsDefault(kind, config, r) /\ kind = "ufw" /\ m = Traffic -> {}
      [] ~SetsDefault(kind, config, r) /\ kind = "ufw" /\ m # Traffic ->
            IF Action(config, r) = "accept"
            THEN {Admit(policy, S) : S \in {m \ policy.denies, m}}
            ELSE {Deny(policy, S) : S \in {m \ policy.admits, m}}

\* Of firewalld no command blocks but that of the default.
Commanded(kind, config, r) ==
    /\ r \notin Implicit[kind]
    /\ kind = "firewalld" =>
          Action(config, r) = "accept" \/ SetsDefault(kind, config, r)

\* What was so before the first command is left alone, where it could be read.
Needless(kind, before, config, r) ==
    /\ kind = "firewalld" \/ SetsDefault(kind, config, r)
    /\ before \in Ruled(kind, before, config, r)

(***************************************************************************)
(* apply.                                                                  *)
(***************************************************************************)

Idle == [pc |-> "idle", step |-> 0, result |-> "none", quiet |-> TRUE, ok |-> TRUE,
         config |-> CHOOSE c \in Configs : TRUE, via |-> Absent, before |-> Absent,
         wrote |-> FALSE, persists |-> TRUE]

Goto(pc) == [call EXCEPT !.pc = pc, !.step = IF pc = "rule" THEN 1 ELSE 0]
Ends(result) == [call EXCEPT !.pc = "idle", !.result = result]
Done == Ends(IF call.ok THEN "success" ELSE "failed")

Init ==
    /\ host \in Hosts
    /\ call = Idle
    /\ left = [applies |-> MaxApplies, changes |-> MaxChanges]

\* No backend, or no checkpoint; or the files are captured, and of the boot
\* file only what systemd names.  The apply is asked for from a console, or in a
\* session of which is known only that it is a remote one.
Begin ==
    /\ call.pc = "idle" /\ left.applies > 0
    /\ left' = [left EXCEPT !.applies = @ - 1]
    /\ \E config \in Configs, via \in Sessions \cup {Absent} :
          LET c == [Idle EXCEPT !.config = config, !.via = via] IN
          \/ call' = [c EXCEPT !.result = "failed"] /\ UNCHANGED host
          \/ /\ call' = [c EXCEPT !.pc = "enable"]
             /\ host' = [host EXCEPT !.saved =
                           [files |-> host.files, on |-> host.on, boot |-> host.boot]]

\* A backend found running has its unit wanted at boot; one that is not is
\* enabled, and where that fails there is no rule.
Enable ==
    /\ call.pc = "enable"
    /\ \/ /\ host.now # Absent
          /\ \/ host' = [host EXCEPT !.unit = TRUE] /\ call' = Goto("refusal")
             \/ /\ ~host.unit /\ UNCHANGED host
                /\ call' = [Goto("refusal") EXCEPT !.ok = FALSE]
       \/ /\ host.now = Absent
          /\ \/ /\ host' = IF host.kind = "nftables" THEN host
                           ELSE [host EXCEPT !.now = host.files, !.on = TRUE]
                /\ call' = Goto("wanted")
             \/ host.kind # "nftables" /\ UNCHANGED host /\ call' = Ends("failed")
    /\ UNCHANGED left

Wanted ==
    /\ call.pc = "wanted"
    /\ \/ host' = [host EXCEPT !.unit = TRUE] /\ call' = Goto("refusal")
       \/ UNCHANGED host /\ call' = Ends("failed")
    /\ UNCHANGED left

Refuse ==
    /\ call.pc = "refusal"
    /\ call' = IF Refused(call.config, call.via # Absent) THEN Ends("refused")
               ELSE IF host.kind = "nftables" THEN Goto("check")
               ELSE [Goto("rule") EXCEPT !.before = host.files]
    /\ UNCHANGED <<host, left>>

\* ufw and firewalld take one command a rule, and one that fails is passed by.
\* A command of ufw is in force at once, one of firewalld after the reload.
ApplyRule ==
    /\ call.pc = "rule" /\ call.step \in DOMAIN Rules
    /\ LET r      == Rules[call.step]
           next   == [call EXCEPT !.step = @ + 1]
           issued == /\ call.step \in Applied(call.config)
                     /\ Commanded(host.kind, call.config, r)
       IN
       \/ /\ ~issued \/ Needless(host.kind, call.before, call.config, r)
          /\ call' = next /\ UNCHANGED host
       \/ /\ issued
          /\ \E kept \in Ruled(host.kind, host.files, call.config, r) :
                host' = [host EXCEPT !.files = kept,
                            !.now = IF host.kind = "ufw" /\ @ # Absent THEN kept ELSE @]
          /\ call' = [next EXCEPT !.wrote = TRUE]
       \/ /\ issued
          /\ call' = [next EXCEPT !.ok = FALSE] /\ UNCHANGED host
    /\ UNCHANGED left

RulesDone ==
    /\ call.pc = "rule" /\ call.step \notin DOMAIN Rules
    /\ \/ (host.kind = "ufw" \/ ~call.wrote) /\ call' = Done /\ UNCHANGED host
       \/ /\ host.kind = "firewalld" /\ call.wrote
          /\ \/ host' = [host EXCEPT !.now = host.files] /\ call' = Done
             \/ call' = Ends("failed") /\ UNCHANGED host
    /\ UNCHANGED left

\* `nft --check` first.  A boot file nobody can name leaves the rules live.
NftCheck ==
    /\ call.pc = "check"
    /\ \/ UNCHANGED host /\ call' = Ends("failed")
       \/ host.boot # "unknown" /\ UNCHANGED host /\ call' = Goto("fragment")
       \/ /\ host.boot = "unknown"
          /\ host' = [host EXCEPT !.now = Rendered(call.config)]
          /\ call' = [Done EXCEPT !.persists = FALSE]
    /\ UNCHANGED left

\* The fragment, the include line, the load: each may fail, and ends it.
NftStep(pc, next, after) ==
    /\ call.pc = pc
    /\ \/ host' = after /\ call' = next
       \/ UNCHANGED host /\ call' = Ends("failed")
    /\ UNCHANGED left

NftFragment ==
    NftStep("fragment", Goto("include"), [host EXCEPT !.files = Rendered(call.config)])
NftInclude == NftStep("include", Goto("load"), [host EXCEPT !.on = TRUE, !.boot = "there"])
\* Seeded fault: the fragment is written and not loaded.
NftLoadSkipped == NftStep("load", Done, host)


NftLoad    == NftStep("load", Done, [host EXCEPT !.now = host.files])

(***************************************************************************)
(* rollback: the checkpoint's files are put back, and the backend re-reads *)
(* them.  `ufw reload` does nothing where ENABLED=no.                      *)
(***************************************************************************)

Restored(h) ==
    IF h.kind = "nftables" /\ h.saved.boot = "unknown"
    THEN [h EXCEPT !.files = h.saved.files]
    ELSE [h EXCEPT !.files = h.saved.files, !.on = h.saved.on, !.boot = h.saved.boot]

\* Seeded faults: the unit of a file this tool made stays wanted; ufw is disabled
\* with its file.
ReloadedWanted(h) ==
    CASE h.kind = "ufw" -> IF h.on THEN [h EXCEPT !.now = h.files] ELSE h
      [] h.kind = "firewalld" -> [h EXCEPT !.now = h.files]
      [] OTHER -> [h EXCEPT !.now = IF h.boot = "there" /\ h.on THEN h.files ELSE Absent]
ReloadedStopping(h) ==
    IF h.kind = "ufw" /\ ~h.on THEN [h EXCEPT !.now = Absent] ELSE [h EXCEPT !.now = h.files]


Reloaded(h) ==
    CASE h.kind = "ufw" -> IF h.on THEN [h EXCEPT !.now = h.files] ELSE h
      [] h.kind = "firewalld" -> [h EXCEPT !.now = h.files]
      [] h.kind = "nftables" /\ h.boot = "there" ->
            [h EXCEPT !.now = IF h.on THEN h.files ELSE Absent]
      [] OTHER ->
            [h EXCEPT !.now = Absent, !.unit = @ /\ (h.boot = "unknown" \/ h.guard)]

\* A reload that fails leaves what is loaded; nft has destroyed its table by
\* then.  A unit that cannot be disabled is only warned of.
Rollback ==
    /\ call.pc = "idle" /\ host.saved # Absent
    /\ LET back == Restored(host)
           done == [Idle EXCEPT !.result = "undone"]
       IN
       \/ host' = Reloaded(back) /\ call' = done
       \/ /\ host' = [Reloaded(back) EXCEPT !.unit = host.unit]
          /\ call' = [done EXCEPT !.result = "undone_unit_left"]
       \/ \E now \in {host.now} \cup (IF host.kind = "nftables" THEN {Absent} ELSE {}) :
             /\ host' = [back EXCEPT !.now = now]
             /\ call' = [done EXCEPT !.result = "undone_not_reloaded"]
    /\ UNCHANGED left

\* firewall_divergences, of ufw alone.
Diverged(h) == h.kind = "ufw" /\ h.on # (h.now # Absent)

Dies ==
    /\ call.pc # "idle"
    /\ call' = Ends("died")
    /\ UNCHANGED <<host, left>>

\* A boot, or an administrator who stops the firewall.
Others ==
    /\ left.changes > 0
    /\ left' = [left EXCEPT !.changes = @ - 1]
    /\ \/ host' = [host EXCEPT !.now = Booted(host)]
       \/ host' = [host EXCEPT !.now = Absent,
                               !.on = IF host.kind = "ufw" THEN FALSE ELSE @]
       \/ host' = [host EXCEPT !.unit = FALSE]
    /\ call' = [call EXCEPT !.quiet = FALSE]

Next == \/ Begin \/ Enable \/ Wanted \/ Refuse \/ ApplyRule \/ RulesDone
        \/ NftCheck \/ NftFragment \/ NftInclude \/ NftLoad
        \/ Rollback \/ Dies \/ Others

(***************************************************************************)
(* Properties.                                                             *)
(***************************************************************************)

TypeOK ==
    /\ call.pc \in {"idle", "enable", "wanted", "refusal", "rule", "check",
                    "fragment", "include", "load"}
    /\ {host.now, host.files} \subseteq Policy \cup {Absent}

\* An apply that reports success has put a policy that drops what no rule
\* admits into the files it keeps, unless its rule was excepted or, of firewalld,
\* overridden to reject; and where it wrote anything, what the files say is loaded.
\* What it finds in the files already it does not load: ufw and firewalld may run
\* on with what a reload that failed has left them.
SuccessMeansKept ==
    (call.result = "success" /\ call.quiet /\ call.persists) =>
        /\ (/\ DropRule \notin call.config.exceptions
            /\ host.kind = "firewalld" => Action(call.config, DropRule) = "drop")
              => host.files.drop
        /\ (host.kind = "nftables" \/ call.wrote) => host.now = host.files

\* What may decide before the rule of ssh: what the files denied, and what the
\* configuration has another rule deny.
Denied(kind, config) ==
    UNION {Matches(config, Rules[i]) :
              i \in {i \in Applied(config) \ Accepting(config) :
                       kind # "firewalld" /\ Rules[i] \notin Implicit[kind] \cup {DropRule}}}
DeniedBefore(kind, before) == IF kind = "nftables" THEN {} ELSE before.denies

\* An apply that succeeds over ssh lets the traffic its session came by through,
\* if the rule of ssh matches it as it was configured, and nothing that decides
\* before that rule denied it; in what runs, or of firewalld, where the rules were
\* there and so nothing was reloaded, in what its next reload runs.  Nothing is owed
\* to a session on a port the rule was moved away from, or from a source it was
\* narrowed to leave out: ruleset_refusal asks whether an accepting rule of ssh
\* is there, and not what it matches.
SessionSurvives ==
    (/\ call.result = "success" /\ call.quiet /\ call.via # Absent
     /\ call.via \in Matches(call.config, SshRule)
     /\ call.via \notin Denied(host.kind, call.config)
                        \cup DeniedBefore(host.kind, call.before)) =>
        call.via \in Passes(IF host.kind = "firewalld" /\ ~call.wrote THEN host.files ELSE host.now)

\* A rollback that says it reloaded runs what the restored files say, or says
\* that it does not; and leaves no unit at boot with nothing to load.
UndoneMeansUndone ==
    (call.result = "undone" /\ call.quiet) =>
        /\ Diverged(host) \/ host.now = Booted([host EXCEPT !.unit = TRUE])
        /\ (host.kind = "nftables" /\ host.boot = "absent") => (host.unit => host.guard)

\* Undoing stops no firewall but the table this tool itself loaded.
UndoNeverOpens ==
    (call'.result # call.result /\ call'.result = "undone" /\ host.now # Absent) =>
       (host.kind # "nftables" => host'.now # Absent)
=============================================================================
