---------------------------- MODULE KernelPlugin ----------------------------
(***************************************************************************)
(* The kernel plugin (crates/hardener-plugins/src/kernel): sysctl settings *)
(* in the running kernel and in one drop-in of sysctl.d, Ours, among those *)
(* other packages own; what a boot and a reload make of the files; what a  *)
(* scan and the probe after a rollback say of them.                        *)
(*                                                                         *)
(* A file is a record: the values it sets, the parameters its glob         *)
(* patterns could name and the value they assign.  A drop-in is known by   *)
(* its name, names are numbers in the order they sort by, and a copy in    *)
(* /etc stands in for one of the same name below /usr.                     *)
(***************************************************************************)
EXTENDS Policy

CONSTANTS Params,    \* KERNEL_PARAMS: a sequence of names
          Compare,   \* kernel_compare of each parameter
          Baseline,  \* kernel_secure_value of each parameter
          Value,     \* what a parameter may be set to, and no value
          Default,   \* what the kernel starts with
          Names,     \* how many names of drop-ins there are
          Ours,      \* 99-hardener.conf among them
          Absent,    \* no file
          Unset,     \* no value
          Files,     \* the contents of a file of others
          Kernels,   \* what a running kernel may hold before the first apply
          Configs,   \* the configurations an apply may run with
          MaxApplies, MaxChanges \* bounds: applies, and what others do

Param == {Params[i] : i \in DOMAIN Params}
Name  == 1..Names
Nothing == [k \in Param |-> Unset]

File == [set : [Param -> Value], glob : SUBSET Param, as : Value]
Host == [etc : [Name -> File \cup {Absent}], usr : [Name -> File \cup {Absent}],
         ufw : File \cup {Absent}, legacy : File \cup {Absent},
         live : [Param -> Value \ {Unset}], saved : File \cup {Absent}]

\* The baseline of a parameter has its place in the comparison of that parameter,
\* and what has a place is a value.
KernelAssumption ==
    /\ Unset \in Value /\ Params \in Seq(Param) /\ Names \in Nat /\ Ours \in Name
    /\ \A k \in Param :
          /\ IsComparison(Compare[k]) /\ Placeable(Compare[k], Baseline[k])
          /\ IF Compare[k].kind = "Ranked"
             THEN \A i \in DOMAIN Compare[k].order : \A j \in DOMAIN Compare[k].order[i] :
                     Compare[k].order[i][j] \in Value \ {Unset}
             ELSE MinInt..MaxInt \subseteq Value \ {Unset}
          /\ Default[k] \in Value \ {Unset}
    /\ \A f \in File : f # Absent
    /\ Files \subseteq File /\ Kernels \subseteq [Param -> Value \ {Unset}] /\ Configs # {}

VARIABLES host,  \* etc, usr: the drop-ins; ufw, legacy: the other two files;
                 \* live: the running kernel; saved: Ours as last captured
          call,  \* the apply in progress, or the last one
          left   \* how many more applies may begin and changes others may make

vars == <<host, call, left>>

(***************************************************************************)
(* What the files mean.                                                    *)
(***************************************************************************)

\* The copies a directory sweep finds, an unlisted directory hiding its own.
InForce(h, hidden, n) ==
    IF ~hidden /\ h.etc[n] # Absent THEN h.etc[n] ELSE h.usr[n]

Setters(files, k) ==
    {i \in DOMAIN files : files[i] # Absent /\ files[i].set[k] # Unset}
Globbers(files, k) ==
    {i \in DOMAIN files : files[i] # Absent /\ k \in files[i].glob}

Last(S) == CHOOSE i \in S : \A j \in S : j <= i

\* Seeded fault: the first file wins.
MergedFirst(files, k) ==
    IF Setters(files, k) = {} THEN Unset
    ELSE files[CHOOSE i \in Setters(files, k) : \A j \in Setters(files, k) : i <= j].set[k]

\* merge_effective: later files win.
Merged(files, k) ==
    IF Setters(files, k) = {} THEN Unset ELSE files[Last(Setters(files, k))].set[k]

\* What an applier does with them: an explicit key before any pattern.
Applied(files, k) ==
    IF Setters(files, k) # {} THEN Merged(files, k)
    ELSE IF Globbers(files, k) # {} THEN files[Last(Globbers(files, k))].as
    ELSE Unset

Dropins(h) == [n \in Name |-> InForce(h, FALSE, n)]

Over(first, then) == IF then # Unset THEN then ELSE first

\* systemd-sysctl, and ufw's unit after it; `sysctl --system`, which reads
\* /etc/sysctl.conf after the drop-ins and ufw's file not at all.
BootValue(h, k)   == Over(Applied(Dropins(h), k), Applied(<<h.ufw>>, k))
ReloadValue(h, k) == Over(Applied(Dropins(h), k), Applied(<<h.legacy>>, k))

(***************************************************************************)
(* scan.  `unread` is what the scan is refused: drop-ins by name, the      *)
(* listing of /etc/sysctl.d, ufw's files, /etc/sysctl.conf.                *)
(***************************************************************************)

Everything == [names |-> {}, dir |-> FALSE, ufw |-> FALSE, legacy |-> FALSE]

Target(config, k) == ResolvedTarget(Compare[k], Baseline[k], config.override[k])

\* Seeded fault: the file ufw applies after systemd-sysctl is forgotten.
SweptWithoutUfw(h, unread, first) ==
    [i \in 1..(Names + 1) |->
        IF i = Names + 1 \/ i \in unread.names \/ i < first THEN Absent
        ELSE InForce(h, unread.dir, i)]

\* dropins and ufw_applied_file: the files that were read, in the order they
\* are applied in.
Swept(h, unread, first) ==
    [i \in 1..(Names + 1) |->
        CASE i = Names + 1 -> IF unread.ufw THEN Absent ELSE h.ufw
          [] i \in unread.names \/ i < first -> Absent
          [] OTHER -> InForce(h, unread.dir, i)]

\* Seeded fault: the first file after ours is passed over.
BootFindingsTooLate(config, h, unread) ==
    {k \in Param :
        LET v == Merged(Swept(h, unread, Ours + 2), k) IN
        v # Unset /\ ViolatedBy(Compare[k], Target(config, k), v)}

\* boot_persistence: what another file decides after ours, and whether
\* anything was left unchecked.
BootFindings(config, h, unread) ==
    {k \in Param :
        LET v == Merged(Swept(h, unread, Ours + 1), k) IN
        v # Unset /\ ViolatedBy(Compare[k], Target(config, k), v)}

BootUnchecked(h, unread) ==
    \/ unread.dir \/ unread.ufw \/ unread.names \cap (Ours + 1)..Names # {}
    \/ \E k \in Param : Globbers(Swept(h, unread, Ours + 1), k) # {}

RuntimeFindings(config, h) ==
    {k \in Param : ViolatedBy(Compare[k], Target(config, k), h.live[k])}

(***************************************************************************)
(* sysctl_divergences: what the probe after a rollback says of a           *)
(* parameter.  `reach` is whether an applier was recognised.               *)
(***************************************************************************)

Divergence(h, unread, reach, k) ==
    LET swept     == Swept(h, unread, 1)
        boot      == Merged(swept, k)
        legacy    == IF unread.legacy \/ h.legacy = Absent THEN Unset
                     ELSE h.legacy.set[k]
        decider   == IF boot = Unset THEN 0 ELSE Last(Setters(swept, k))
        unreadBeats == \E n \in unread.names : n >= decider
        blocked   == \/ unread.dir \/ unread.ufw \/ unreadBeats
                     \/ unread.legacy
        patterns  == \/ Globbers(swept, k) # {}
                     \/ ~unread.legacy /\ Globbers(<<h.legacy>>, k) # {}
        reached   == IF reach THEN "diverged" ELSE "unverifiable"
    IN
    CASE boot # Unset /\ boot = h.live[k] -> "silent"
      [] boot = Unset /\ ViolatedBy(Compare[k], Baseline[k], h.live[k]) -> "silent"
      [] OTHER -> IF blocked \/ patterns THEN "unverifiable"
                  ELSE IF legacy = h.live[k] THEN reached ELSE "diverged"

\* The rows that say a source was not resolved, whatever the parameters say.
OpenQuestions(h, unread) ==
    \/ unread # Everything
    \/ \E k \in Param : Globbers(Append(Swept(h, unread, 1), h.legacy), k) # {}

(***************************************************************************)
(* apply.                                                                  *)
(***************************************************************************)

Idle == [pc |-> 0, result |-> "none", config |-> CHOOSE c \in Configs : TRUE,
         file |-> Nothing, changed |-> FALSE, ok |-> TRUE, blind |-> {}]

NoFiles == [n \in Name |-> Absent]

Init ==
    /\ \E live \in Kernels, mine \in {Absent} \cup Files :
          host = [etc |-> NoFiles, usr |-> [NoFiles EXCEPT ![1] = mine],
                  ufw |-> Absent, legacy |-> Absent, live |-> live, saved |-> Absent]
    /\ call = Idle
    /\ left = [applies |-> MaxApplies, changes |-> MaxChanges]

\* The directory is ensured and the checkpoint taken, or the apply refused.
Begin ==
    /\ call.pc = 0 /\ left.applies > 0
    /\ \E config \in Configs :
          \/ /\ call' = [Idle EXCEPT !.pc = 1, !.config = config]
             /\ host' = [host EXCEPT !.saved = host.etc[Ours]]
          \/ /\ call' = [Idle EXCEPT !.result = "failed", !.config = config]
             /\ UNCHANGED host
    /\ left' = [left EXCEPT !.applies = @ - 1]

\* Seeded fault: the target is written over a stricter value.
PlannedUnclamped(config, k, observed) ==
    IF observed # Unset /\ MatchingException(config.exceptions, k, observed)
    THEN Unset ELSE Target(config, k)

\* plan_parameter: Unset where an exception documents what the host has.
Planned(config, k, observed) ==
    IF observed # Unset /\ MatchingException(config.exceptions, k, observed)
    THEN Unset
    ELSE ClampTarget(Compare[k], Target(config, k), observed)

\* One parameter: observed once, or not at all; decided; and written to the
\* running kernel where it is weaker, which may fail.
Set ==
    /\ call.pc \in DOMAIN Params
    /\ \E observed \in {host.live[Params[call.pc]], Unset} :
       LET k     == Params[call.pc]
           value == Planned(call.config, k, observed)
           next  == [call EXCEPT !.pc = @ + 1, !.file[k] = value,
                             !.blind = IF observed = Unset THEN @ \cup {k} ELSE @]
       IN
       \/ /\ value # Unset => ~ViolatedBy(Compare[k], value, observed)
          /\ call' = next /\ UNCHANGED host
       \/ /\ value # Unset /\ ViolatedBy(Compare[k], value, observed)
          /\ \/ /\ host' = [host EXCEPT !.live[k] = value]
                /\ call' = [next EXCEPT !.changed = TRUE]
             \/ /\ call' = [next EXCEPT !.ok = FALSE] /\ UNCHANGED host
    /\ UNCHANGED left

\* The drop-in, rewritten when a value changed or it holds anything else.
Persist ==
    /\ call.pc = Len(Params) + 1
    /\ LET file == [set |-> call.file, glob |-> {}, as |-> Unset]
           ends(ok) == call' = [call EXCEPT !.pc = 0,
                                   !.result = IF ok THEN "success" ELSE "failed"]
       IN
       \/ /\ ~call.changed /\ host.etc[Ours] = file
          /\ ends(call.ok) /\ UNCHANGED host
       \/ /\ call.changed \/ host.etc[Ours] # file
          /\ \/ host' = [host EXCEPT !.etc[Ours] = file] /\ ends(call.ok)
             \/ ends(FALSE) /\ UNCHANGED host
    /\ UNCHANGED left

Dies ==
    /\ call.pc # 0
    /\ call' = [Idle EXCEPT !.result = "died", !.config = call.config]
    /\ UNCHANGED <<host, left>>

\* Seeded fault: a key no file names is taken for one that was read.
RollbackUnsets ==
    /\ call.pc = 0 /\ call.result # "none"
    /\ LET back == [host EXCEPT !.etc[Ours] = host.saved] IN
       host' = [back EXCEPT !.live = [k \in Param |-> ReloadValue(back, k)]]
    /\ call' = [Idle EXCEPT !.config = call.config]
    /\ UNCHANGED left

\* A rollback puts back the drop-in the checkpoint holds, and
\* reload_after_rollback runs `sysctl --system`, whatever it could not write.
Rollback ==
    /\ call.pc = 0 /\ call.result # "none"
    /\ \E stuck \in SUBSET Param :
       LET back == [host EXCEPT !.etc[Ours] = host.saved] IN
       host' = [back EXCEPT !.live = [k \in Param |->
                   IF k \in stuck \/ ReloadValue(back, k) = Unset THEN host.live[k]
                   ELSE ReloadValue(back, k)]]
    /\ call' = [Idle EXCEPT !.config = call.config]
    /\ UNCHANGED left

Boot ==
    /\ left.changes > 0
    /\ left' = [left EXCEPT !.changes = @ - 1]
    /\ host' = [host EXCEPT !.live = [k \in Param |-> Over(Default[k], BootValue(host, k))]]
    /\ call' = IF call.pc = 0 THEN call ELSE [Idle EXCEPT !.result = "died"]

\* Another package's file, or an operator's.
Others ==
    /\ left.changes > 0
    /\ left' = [left EXCEPT !.changes = @ - 1]
    /\ \E f \in Files \cup {Absent} :
          \/ \E n \in Name \ {Ours} : host' = [host EXCEPT !.etc[n] = f]
          \/ host' = [host EXCEPT !.ufw = f]
          \/ host' = [host EXCEPT !.legacy = f]
    /\ call' = call

Next == Begin \/ Set \/ Persist \/ Dies \/ Rollback \/ Boot \/ Others

(***************************************************************************)
(* Properties.                                                             *)
(***************************************************************************)

TypeOK ==
    /\ call.pc \in 0..(Len(Params) + 1)
    /\ \A k \in Param : host.live[k] # Unset
    /\ host.etc[Ours] = Absent \/ host.etc[Ours].glob = {}

Excepted(k) == call.file[k] = Unset

\* After an apply that succeeded, whatever other packages have done since, a
\* scan that reports no override and nothing unchecked is right about the next
\* boot: it leaves every setting this tool manages at its target.
HardeningSurvivesBoot ==
    (/\ call.result = "success"
     /\ BootFindings(call.config, host, Everything) = {}
     /\ ~BootUnchecked(host, Everything)) =>
        \A k \in Param : ~Excepted(k) =>
            ~ViolatedBy(Compare[k], Target(call.config, k), BootValue(host, k))

Unread == [names : SUBSET Name, dir : BOOLEAN, ufw : BOOLEAN, legacy : BOOLEAN]

\* A parameter that a reload and a boot would both leave as it is is not said to
\* diverge, whatever could not be read.
DivergedIsReal ==
    \A k \in Param :
        (host.live[k] = ReloadValue(host, k) /\ host.live[k] = BootValue(host, k)) =>
            \A unread \in Unread : Divergence(host, unread, TRUE, k) # "diverged"

\* ... and where every question was answered, a hardened parameter that the boot
\* brings another value for is not passed over in silence.
SilenceIsEarned ==
    \A k \in Param :
        (/\ host.live[k] # BootValue(host, k)
         /\ ~ViolatedBy(Compare[k], Baseline[k], host.live[k])) =>
            \A unread \in Unread :
                Divergence(host, unread, TRUE, k) # "silent" \/ OpenQuestions(host, unread)

\* An apply never makes a running value weaker that it could read, and the
\* drop-in it leaves for the next boot is not weaker than what runs.
NeverLoosens ==
    (call.pc # 0 /\ call'.pc # 0) \/ (call.pc # 0 /\ call'.result = "success") =>
       \A k \in Param \ call'.blind : Placeable(Compare[k], host.live[k]) =>
           /\ ~ViolatedBy(Compare[k], host.live[k], host'.live[k])
           /\ (host'.etc[Ours] # host.etc[Ours] /\ ~Excepted(k)) =>
                  ~ViolatedBy(Compare[k], host.live[k], host'.etc[Ours].set[k])
=============================================================================
