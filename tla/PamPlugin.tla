------------------------------ MODULE PamPlugin ------------------------------
(***************************************************************************)
(* The pam plugin (crates/hardener-plugins/src/pam): password rules in     *)
(* files a distribution may ship below /usr/etc, where a copy in /etc      *)
(* replaces the whole file, read by modules of a PAM stack the plugin      *)
(* never edits and whose inline arguments override the lockout files.      *)
(*                                                                         *)
(* A file is a record: whether it is there, and the value it gives each    *)
(* key.  Keys that are no directive are what the vendor set for itself.    *)
(***************************************************************************)
EXTENDS Policy

CONSTANTS Rewritten,  \* the files edited in memory and written last, in order
          Lockout,    \* the directives of the files under /etc/security that
                      \* are written one by one, in order
          Unmoduled,  \* login.defs: shadow reads it, no module of the stack
          FileOf,     \* pam_config_file of each directive
          OtherKeys,  \* keys this tool does not manage
          Compare, Baseline, Unset,
          Value,      \* what a file may give a key, Unset among them
          Hosts,      \* the hosts to begin with
          Edits,      \* the contents others may give a file
          Configs, MaxApplies, MaxChanges

Directive == DOMAIN FileOf
Conf      == {FileOf[d] : d \in Directive}
Key       == Directive \cup OtherKeys
NoFile    == [there |-> FALSE, set |-> [k \in Key |-> Unset]]

File == [there : BOOLEAN, set : [Key -> Value]]
Host == [admin : [Conf -> File], vendor : [Conf -> File],
         stack : [Conf -> [loaded : {"in", "out", "unknown"}, inline : [Directive -> Value]]],
         ignored : SUBSET Directive]
Given == MinInt..MaxInt

\* Every directive is a number, and is written either with its file or alone; the
\* exceptions of a configuration are a map from keys.
PamAssumption ==
    /\ Unset \in Value \ Given /\ Given \subseteq Value
    /\ \A d \in Directive :
          Compare[d].kind \in {"AtMost", "AtLeast", "NonZeroAtMost"} /\ Baseline[d] \in Given
    /\ Rewritten \in Seq(Conf) /\ Lockout \in Seq(Directive)
    /\ \A i, j \in DOMAIN Rewritten : Rewritten[i] = Rewritten[j] => i = j
    /\ \A i, j \in DOMAIN Lockout : Lockout[i] = Lockout[j] => i = j
    /\ \A d \in Directive :
          (\E i \in DOMAIN Lockout : Lockout[i] = d)
             <=> ~\E i \in DOMAIN Rewritten : Rewritten[i] = FileOf[d]
    /\ Hosts \subseteq Host /\ Edits \subseteq File /\ Configs # {}
    /\ \A c \in Configs : \A e1, e2 \in c.exceptions :
          e1.key = e2.key => e1 = e2

VARIABLES host,  \* admin and vendor: the files of each layer; stack: whether its
                 \* module is loaded for a file, "unknown" where no file of the
                 \* stack has a known name, and the arguments set inline; ignored:
                 \* what the host's shadow has no field for
          call,  \* the apply in progress, or the last one
          left

vars == <<host, call, left>>

(***************************************************************************)
(* Reading.                                                                *)
(***************************************************************************)

\* read_conf_classified, which the layers of a file decide; `blind` holds the
\* files that cannot be read.
Layer(h, blind, f) ==
    CASE f \in blind        -> "unreadable"
      [] h.admin[f].there   -> "admin"
      [] h.vendor[f].there  -> "vendor"
      [] OTHER              -> "absent"

\* Seeded fault: the vendor's text is not asked for.
AdminFile(h, f) == h.admin[f]


InForce(h, f) == IF h.admin[f].there THEN h.admin[f] ELSE h.vendor[f]

Inline(h, d) ==
    IF (\E i \in DOMAIN Lockout : Lockout[i] = d) /\ h.stack[FileOf[d]].loaded # "unknown"
    THEN h.stack[FileOf[d]].inline[d] ELSE Unset

\* observed_pam_value, Unset standing for "not set" and for what could not be
\* read alike: value_or_not_set.
Observed(h, blind, d) ==
    IF Inline(h, d) # Unset THEN Inline(h, d)
    ELSE IF FileOf[d] \in blind THEN Unset
    ELSE InForce(h, FileOf[d]).set[d]

\* The keys an /etc file hides from its vendor: masked_keys.
Masked(h, f) ==
    {k \in Key : h.admin[f].there /\ h.vendor[f].set[k] # Unset /\ h.admin[f].set[k] = Unset}

\* layer_drift_findings: a finding of its own for each file that hides something.
\* No exception answers one, and no apply mends it.
Drifted(h) == {f \in Conf : Masked(h, f) # {}}

\* read_module_presence: whether something reads the file of a directive.
Presence(h, d) == IF FileOf[d] \in Unmoduled THEN "in" ELSE h.stack[FileOf[d]].loaded

Target(config, d) == ResolvedTarget(Compare[d], Baseline[d], config.override[d])

Excepted(config, d, observed) == MatchingException(config.exceptions, d, observed)

\* scan, of a host it can read, the files of Drifted apart: the directives with a
\* finding that no exception accepts.  One whose reader could not be looked for is
\* reported unchecked, with no finding; one shadow does not act on is a finding
\* whatever its value.
Findings(config, h) ==
    {d \in Directive :
        \/ Presence(h, d) = "out"
        \/ /\ Presence(h, d) = "in"
           /\ \/ d \in h.ignored
              \/ /\ ViolatedBy(Compare[d], Target(config, d), Observed(h, {}, d))
                 /\ ExceptionOutcome(config.exceptions, d, Observed(h, {}, d)) # "applied"}

\* Seeded fault: any exception documented for a directive silences it.
AnnouncedUndocumented(config, h) ==
    {d \in Directive :
        /\ Documented(config.exceptions, d) = {}
        /\ ViolatedBy(Compare[d], Target(config, d), Observed(h, {}, d))}

\* validate: the directives a preview announces a change of.
Announced(config, h) ==
    {d \in Directive :
        /\ ~Excepted(config, d, Observed(h, {}, d))
        /\ ViolatedBy(Compare[d], Target(config, d), Observed(h, {}, d))}

(***************************************************************************)
(* apply.                                                                  *)
(***************************************************************************)

Idle == [pc |-> "idle", step |-> 0, result |-> "none", quiet |-> TRUE, ok |-> TRUE,
         config |-> CHOOSE c \in Configs : TRUE, blind |-> {}, text |-> [f \in Conf |-> NoFile],
         seen |-> [d \in Directive |-> Unset], announced |-> {}, drifted |-> {}]

Goto(pc, step) == [call EXCEPT !.pc = pc, !.step = step]

Init ==
    /\ host \in Hosts
    /\ call = Idle
    /\ left = [applies |-> MaxApplies, changes |-> MaxChanges]

\* The checkpoint is taken, and the two files edited in memory are read.  One
\* that cannot be read fails the run and is left alone.
Begin ==
    /\ call.pc = "idle" /\ left.applies > 0
    /\ \E config \in Configs, blind \in SUBSET {Rewritten[i] : i \in DOMAIN Rewritten} :
          call' = [Idle EXCEPT !.pc = "observe", !.config = config, !.blind = blind,
                               !.ok = (blind = {}), !.text = [f \in Conf |-> InForce(host, f)],
                               !.announced = Announced(config, host),
                               !.drifted = Drifted(host)]
    /\ left' = [left EXCEPT !.applies = @ - 1]
    /\ UNCHANGED host

\* What each directive is now, and whether anything reads its file: a file
\* nothing reads fails the run, and is written all the same.  Nothing is said of
\* one whose reader could not be looked for.
Observe ==
    /\ call.pc = "observe"
    /\ call' = [Goto("lockout", 1) EXCEPT
          !.ok = @ /\ \A d \in Directive : Presence(host, d) # "out",
          !.seen = [d \in Directive |->
             IF FileOf[d] \in call.blind THEN Unset
             ELSE IF \E i \in DOMAIN Rewritten : FileOf[d] = Rewritten[i]
             THEN call.text[FileOf[d]].set[d]
             ELSE Observed(host, {}, d)]]
    /\ UNCHANGED <<host, left>>

\* Seeded fault: a write that failed is not reported.
RewriteUnreported(f, text) ==
    \/ host' = [host EXCEPT !.admin[f] = text] /\ call' = [call EXCEPT !.step = @ + 1]
    \/ UNCHANGED host /\ call' = [call EXCEPT !.step = @ + 1]

\* A file is written where its name is, over the vendor's text where there is
\* no other, and only once a copy of what is there has been made.
Rewrite(f, text) ==
    \/ host' = [host EXCEPT !.admin[f] = text] /\ call' = [call EXCEPT !.step = @ + 1]
    \/ UNCHANGED host /\ call' = [call EXCEPT !.step = @ + 1, !.ok = FALSE]

\* The directives of the lockout files: skipped where the value in force will
\* do, refused where the stack overrides the file or the file cannot be read.
WriteLockout ==
    /\ call.pc = "lockout" /\ call.step \in DOMAIN Lockout
    /\ LET d == Lockout[call.step]
           f == FileOf[d]
           enough == Excepted(call.config, d, call.seen[d])
                       \/ ~ViolatedBy(Compare[d], Target(call.config, d), call.seen[d])
       IN
       \/ /\ enough
          /\ call' = Goto("lockout", call.step + 1) /\ UNCHANGED host
       \/ /\ ~enough /\ Inline(host, d) # Unset
          /\ call' = [call EXCEPT !.step = @ + 1, !.ok = FALSE] /\ UNCHANGED host
       \/ /\ ~enough /\ Inline(host, d) = Unset
          /\ \E blind \in {{}, {f}} :
                IF Layer(host, blind, f) = "unreadable"
                THEN call' = [call EXCEPT !.step = @ + 1, !.ok = FALSE] /\ UNCHANGED host
                ELSE Rewrite(f, [there |-> TRUE,
                         set |-> [InForce(host, f).set EXCEPT ![d] = Target(call.config, d)]])
    /\ UNCHANGED left

LockoutDone ==
    /\ call.pc = "lockout" /\ call.step \notin DOMAIN Lockout
    /\ call' = Goto("rewrite", 1)
    /\ UNCHANGED <<host, left>>

\* Seeded fault: the target is written over a stricter value.
GoalUnclamped(d) == Target(call.config, d)

\* clamp_target with the value the host has: an apply never loosens.
Goal(d) == ClampTarget(Compare[d], Target(call.config, d), call.seen[d])

\* apply_exact_directive over every directive of a file.
Edited(f) ==
    [there |-> TRUE,
     set |-> [k \in Key |->
        IF k \in Directive /\ FileOf[k] = f /\ ~Excepted(call.config, k, call.seen[k])
        THEN Goal(k) ELSE call.text[f].set[k]]]

WriteFile ==
    /\ call.pc = "rewrite" /\ call.step \in DOMAIN Rewritten
    /\ LET f == Rewritten[call.step] IN
       \/ /\ f \in call.blind \/ Edited(f).set = call.text[f].set
          /\ call' = Goto("rewrite", call.step + 1) /\ UNCHANGED host
       \/ /\ f \notin call.blind /\ Edited(f).set # call.text[f].set
          /\ Rewrite(f, Edited(f))
    /\ UNCHANGED left

Finish ==
    /\ call.pc = "rewrite" /\ call.step \notin DOMAIN Rewritten
    /\ call' = [Goto("idle", 0) EXCEPT !.result = IF call.ok THEN "success" ELSE "failed"]
    /\ UNCHANGED <<host, left>>

\* The process is killed, or a checkpoint cannot be taken.
Dies ==
    /\ call.pc # "idle"
    /\ call' = [Idle EXCEPT !.result = "died"]
    /\ UNCHANGED <<host, left>>

\* An administrator edits a file or the stack; a package ships a vendor file.
Others ==
    /\ left.changes > 0
    /\ left' = [left EXCEPT !.changes = @ - 1]
    /\ \E f \in Conf :
          \/ \E text \in Edits : host' = [host EXCEPT !.admin[f] = text]
          \/ \E text \in Edits : host' = [host EXCEPT !.vendor[f] = text]
          \/ \E loaded \in {"in", "out", "unknown"} :
                host' = [host EXCEPT !.stack[f].loaded = loaded]
    /\ call' = [call EXCEPT !.quiet = FALSE]

Next == \/ Begin \/ Observe \/ WriteLockout \/ LockoutDone \/ WriteFile \/ Finish
        \/ Dies \/ Others

(***************************************************************************)
(* Properties.                                                             *)
(***************************************************************************)

TypeOK ==
    /\ call.pc \in {"idle", "observe", "lockout", "rewrite"}
    /\ call.result \in {"none", "success", "failed", "died"}
    /\ \A f \in Conf : DOMAIN host.admin[f].set = Key

\* An apply that reports success, on a host nobody else has changed since it began,
\* leaves a scan nothing to find but what no apply mends: a setting the host's
\* shadow does not act on, and a file of /etc that hid something of the vendor's
\* before.
SuccessMeansHardened ==
    (call.result = "success" /\ call.quiet) =>
        /\ Findings(call.config, host) \subseteq host.ignored
        /\ Drifted(host) \subseteq call.drifted

\* An apply hides nothing the vendor set: where it creates the file in /etc
\* every key the vendor gave a value still has one.
VendorSurvives ==
    \A f \in Conf :
       (call.pc # "idle" /\ call'.quiet) => Masked(host', f) \subseteq Masked(host, f)

\* An apply never makes a value in force weaker, however strict the host was.
NeverLoosens ==
    (call.pc # "idle" /\ call'.quiet) =>
       \A d \in Directive : Placeable(Compare[d], Observed(host, {}, d)) =>
           ~ViolatedBy(Compare[d], Observed(host, {}, d), Observed(host', {}, d))

\* An apply changes no directive a preview of the same host did not announce.
PreviewIsHonest ==
    (call.pc # "idle" /\ call'.quiet) =>
       \A d \in Directive \ call.announced :
           Observed(host', {}, d) = Observed(host, {}, d)
=============================================================================
