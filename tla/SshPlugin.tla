------------------------------ MODULE SshPlugin ------------------------------
(***************************************************************************)
(* The ssh plugin (crates/hardener-plugins/src/ssh): what sshd obeys, what *)
(* a scan and a preview say of it, and an apply, step by step, by several  *)
(* processes on one host.                                                  *)
(*                                                                         *)
(* sshd reads a main file and, where the main file has its Include line,   *)
(* the fragments of sshd_config.d in the order of their names, and keeps   *)
(* the first value it obtains for a key.  This tool owns one fragment,     *)
(* Ours.  A file is a map from keys to the first value it gives in its     *)
(* global scope (lines below a Match are left out, as global_scope leaves  *)
(* them out); a missing file gives no key a value.                         *)
(***************************************************************************)
EXTENDS Policy, FiniteSets

CONSTANTS Directive,     \* SSH_DIRECTIVES
          Crypto,        \* SSH_CRYPTO_DIRECTIVES
          Compare,       \* ssh_compare of each directive
          Baseline,      \* ssh_secure_value of each directive
          RootLogin,     \* PermitRootLogin
          No, Safe,      \* its strict value, and REMOTE_ROOT_SAFE_VALUE
          Desired,       \* crypto_desired: the strong algorithms
          Supported,     \* what `ssh -Q` answers when it answers
          Unset,         \* the value of a key a file does not set
          Fragments,     \* how many names sort into sshd_config.d
          Ours,          \* the rank of 00-hardener.conf among them
          Mains,         \* the main files a host may come with
          Theirs,        \* the contents others may give a fragment
          Configs,       \* the configurations an apply may run with
          Sessions,      \* the executors: "local", "remote", "remote_root"
          Process,       \* the processes that may run an apply
          MaxApplies,    \* bounds: how many applies begin,
          MaxChanges     \* and how often others change the host

Key == Directive \cup Crypto
Fragment == 1..Fragments
Empty == [k \in Key |-> Unset]

\* A file gives each key a value or none, and which kind it is says how it is read.
IsFragment(f) == f = [k \in Key |-> f[k]]
IsMain(m) == m = [layer |-> m.layer, include |-> m.include, set |-> m.set]
               /\ m.layer \in {"admin", "vendor"} /\ IsFragment(m.set)

\* A key that is not set has no place in a comparison and is no list of algorithms.
SshAssumption ==
    /\ Fragments \in Nat /\ Ours \in Fragment /\ Mains # {} /\ Configs # {}
    /\ \A m \in Mains : IsMain(m)
    /\ \A f \in Theirs : IsFragment(f)
    /\ \A d \in Directive :
          /\ IsComparison(Compare[d]) /\ Placeable(Compare[d], Baseline[d])
          /\ ~Placeable(Compare[d], Unset)
    /\ \A list \in SUBSET Desired : list # Unset

VARIABLES host,   \* the main file, the fragments, and what the running sshd read
          call,   \* the apply each process is in, or was in last
          left    \* how many more applies may begin and changes others may make

vars == <<host, call, left>>

(***************************************************************************)
(* What sshd obeys.                                                        *)
(***************************************************************************)

\* Where a main file stands among the fragments: after them, before them, or
\* alone.
MainRank(file) == IF file.include = "top" THEN Fragments + 1 ELSE 0

\* ResolvedConfig::first_value: who gives a key its value, leaving out the
\* fragments of a set.
Suppliers(file, frags, k, ignored) ==
    {f \in Fragment : /\ file.include # "none"
                      /\ frags[f][k] # Unset
                      /\ f \notin ignored}
      \cup {r \in {MainRank(file)} : file.set[k] # Unset}

Nobody == Fragments + 2

Supplier(file, frags, k, ignored) ==
    LET S == Suppliers(file, frags, k, ignored) IN
    IF S = {} THEN Nobody ELSE CHOOSE r \in S : \A q \in S : r <= q

ValueFrom(file, frags, k, r) ==
    CASE r = Nobody         -> Unset
      [] r = MainRank(file) -> file.set[k]
      [] OTHER              -> frags[r][k]

\* Seeded fault: the fragment asked to be left out is read all the same.
EffectiveWithAll(file, frags, k, ignored) ==
    ValueFrom(file, frags, k, Supplier(file, frags, k, {}))


EffectiveWithout(file, frags, k, ignored) ==
    ValueFrom(file, frags, k, Supplier(file, frags, k, ignored))

Effective(file, frags, k) == EffectiveWithout(file, frags, k, {})

Obeyed(file, frags) == [k \in Key |-> Effective(file, frags, k)]

(***************************************************************************)
(* scan: the keys it has findings about.                                   *)
(***************************************************************************)

Target(config, d) == ResolvedTarget(Compare[d], Baseline[d], config.override[d])

\* crypto_value_is_secure: set, and to nothing but strong algorithms.
CryptoSecure(value) == value # Unset /\ value # {} /\ value \subseteq Desired

Insecure(config, k, value) ==
    IF k \in Crypto THEN ~CryptoSecure(value)
                    ELSE ViolatedBy(Compare[k], Target(config, k), value)

Findings(config, file, frags) ==
    {k \in Key : Insecure(config, k, Effective(file, frags, k))}

Excepted(config, file, frags, k) ==
    MatchingException(config.exceptions, k, Effective(file, frags, k))

(***************************************************************************)
(* What an apply decides for one key: a value for the main file, a value   *)
(* for the fragment (Unset: none), and whether it leaves the key for a     *)
(* reason it reports as skipped.                                           *)
(***************************************************************************)

Decision(inMain, inDrop, excused) ==
    [main |-> inMain, drop |-> inDrop, excused |-> excused]

\* Seeded faults: no other file is asked, or only where the main file is silent.
OverriddenNever(file, frags, k) == FALSE
OverriddenWhenUnset(file, frags, k) ==
    file.set[k] = Unset /\ Supplier(file, frags, k, {Ours}) \notin {MainRank(file), Nobody}


Overridden(file, frags, k) ==
    Supplier(file, frags, k, {Ours}) \notin {MainRank(file), Nobody}

\* The value only this tool's fragment supplies.
HeldByOurs(file, frags, k) ==
    IF Supplier(file, frags, k, {}) = Ours
    THEN Effective(file, frags, k) ELSE Unset

DirectiveDecision(config, root, file, frags, d) ==
    LET now    == Effective(file, frags, d)
        target == Target(config, d)
        under  == EffectiveWithout(file, frags, d, {Ours})
        guard  == root /\ d = RootLogin /\ target = No
        goal   == IF guard THEN Safe ELSE target
        safeEnough(v) ==
            guard /\ v # Unset /\ ~ViolatedBy(Compare[d], Safe, v)
        clamped == ClampTarget(Compare[d], goal, now)
        keep    == file.set[d]
    IN
    IF Excepted(config, file, frags, d) THEN Decision(keep, Unset, TRUE)
    ELSE IF Overridden(file, frags, d) THEN
        IF ~ViolatedBy(Compare[d], target, under) THEN Decision(keep, Unset, FALSE)
        ELSE IF safeEnough(now)
             THEN Decision(keep, HeldByOurs(file, frags, d), TRUE)
             ELSE Decision(keep, clamped, guard)
    ELSE IF file.layer = "vendor" THEN
        IF safeEnough(now)
        THEN Decision(keep, HeldByOurs(file, frags, d), TRUE)
        ELSE Decision(keep, clamped, guard)
    ELSE IF ~ViolatedBy(Compare[d], target, keep) THEN Decision(keep, Unset, FALSE)
    ELSE IF safeEnough(keep) THEN Decision(keep, Unset, TRUE)
    ELSE Decision(goal, Unset, guard)

CryptoDecision(config, supported, file, frags, k) ==
    LET chosen == Desired \cap supported
        keep   == file.set[k]
    IN
    IF Excepted(config, file, frags, k) THEN Decision(keep, Unset, TRUE)
    ELSE IF chosen = {} THEN Decision(keep, Unset, TRUE)
    ELSE IF Overridden(file, frags, k) THEN
        IF CryptoSecure(EffectiveWithout(file, frags, k, {Ours}))
        THEN Decision(keep, Unset, FALSE)
        ELSE Decision(keep, chosen, FALSE)
    ELSE IF file.layer = "vendor" THEN Decision(keep, chosen, FALSE)
    ELSE Decision(chosen, Unset, FALSE)

Decisions(config, root, supported, file, frags) ==
    [k \in Key |->
        IF k \in Crypto THEN CryptoDecision(config, supported, file, frags, k)
        ELSE DirectiveDecision(config, root, file, frags, k)]

(***************************************************************************)
(* apply, by several processes.  A process that ends keeps its record, so  *)
(* that what it reported can be compared with the host: `quiet` stays TRUE *)
(* while nobody else has written the host since it read it.                *)
(***************************************************************************)

NoPlan == [k \in Key |-> Decision(Unset, Unset, FALSE)]

NoCall == [pc |-> "idle", result |-> "none", quiet |-> FALSE, session |-> "local",
           config |-> CHOOSE c \in Configs : TRUE, seen |-> CHOOSE m \in Mains : TRUE,
           fd |-> 0, plan |-> NoPlan, checked |-> FALSE, ok |-> TRUE]

Goto(p, pc) == call' = [call EXCEPT ![p].pc = pc]

\* The process ends: its lock is dropped with its descriptor.
Ends(p, result) ==
    call' = [call EXCEPT ![p] =
        [NoCall EXCEPT !.result = result, !.quiet = call[p].quiet,
                       !.config = call[p].config, !.session = call[p].session,
                       !.plan = IF result = "success" THEN call[p].plan ELSE NoPlan,
                       !.checked = result = "success" /\ call[p].checked]]

\* Step p of an apply that changes the host: the others' calls see it.
Disturbs(p, mine) ==
    call' = [q \in Process |->
                IF q = p THEN mine ELSE [call[q] EXCEPT !.quiet = FALSE]]

Init ==
    /\ \E m \in Mains, f \in [Fragment -> Theirs \cup {Empty}] :
          /\ f[Ours] = Empty
          /\ host = [main |-> m, frag |-> f, running |-> Obeyed(m, f), inode |-> 1]
    /\ call = [p \in Process |-> NoCall]
    /\ left = [applies |-> MaxApplies, changes |-> MaxChanges]

\* read_layered: the file in force is read before anything is locked.
Read(p) ==
    /\ call[p].pc = "idle" /\ left.applies > 0
    /\ \E config \in Configs, session \in Sessions :
          call' = [call EXCEPT ![p] =
             [NoCall EXCEPT !.pc = "open", !.config = config, !.session = session,
                            !.seen = host.main, !.quiet = TRUE]]
    /\ left' = [left EXCEPT !.applies = @ - 1]
    /\ UNCHANGED host

\* lock_config_path: the file is opened, and the lock of what was opened is
\* waited for.  A remote apply takes none.
Open(p) ==
    /\ call[p].pc = "open"
    /\ LET fd == IF call[p].session = "local" THEN host.inode ELSE 0 IN
       call' = [call EXCEPT ![p] = [@ EXCEPT !.fd = fd, !.pc = "lock"]]
    /\ UNCHANGED <<host, left>>

Lock(p) ==
    /\ call[p].pc = "lock"
    /\ \A q \in Process \ {p} : call[p].fd # 0 /\ call[q].fd = call[p].fd => call[q].pc \in {"lock", "idle"}
    /\ Goto(p, "plan")
    /\ UNCHANGED <<host, left>>

\* An unreadable file or Include, a checkpoint or a backup that cannot be
\* made, a candidate `sshd -t` rejects: nothing has been written.
Refuses(p) ==
    /\ call[p].pc \in {"plan", "gate"}
    /\ Ends(p, "failed")
    /\ UNCHANGED <<host, left>>

Dropin(plan) == [k \in Key |-> plan[k].drop]

\* The decisions are made, and the no-op guard compares both files with them.
Plan(p) ==
    /\ call[p].pc = "plan"
    /\ \E supported \in {Supported, {}} :
       LET c    == call[p]
           plan == Decisions(c.config, c.session = "remote_root", supported, c.seen, host.frag)
           noop == /\ \A k \in Key : plan[k].main = c.seen.set[k]
                   /\ Dropin(plan) = host.frag[Ours]
       IN call' = [call EXCEPT ![p] =
             IF noop THEN [NoCall EXCEPT !.result = "noop", !.quiet = c.quiet,
                              !.config = c.config, !.session = c.session, !.plan = plan]
             ELSE [c EXCEPT !.pc = "gate", !.plan = plan]]
    /\ UNCHANGED <<host, left>>

FreshInode == CHOOSE i \in 1..(Cardinality(Process) + 2) :
                 i # host.inode /\ \A p \in Process : call[p].fd # i

\* A write that fails is a failed change, and the apply goes on.
WriteMain(p) ==
    LET c    == call[p]
        edit == [k \in Key |-> c.plan[k].main]
    IN
    /\ c.pc = "gate"
    /\ \/ /\ c.seen.layer = "vendor" \/ edit = c.seen.set
          /\ Goto(p, "dropin") /\ UNCHANGED host
       \/ /\ c.seen.layer = "admin" /\ edit # c.seen.set
          /\ \/ /\ host' = [host EXCEPT !.main = [c.seen EXCEPT !.set = edit],
                                         !.inode = IF c.session = "local" THEN FreshInode ELSE @]
                /\ Disturbs(p, [c EXCEPT !.pc = "dropin"])
             \/ /\ call' = [call EXCEPT ![p] = [@ EXCEPT !.pc = "dropin", !.ok = FALSE]]
                /\ UNCHANGED host
    /\ UNCHANGED left

\* The fragment is rewritten, or removed when nothing needs it; what it then
\* holds must be what sshd obeys.
WriteDropin(p) ==
    LET c    == call[p]
        drop == Dropin(c.plan)
    IN
    /\ c.pc = "dropin"
    /\ \/ /\ drop = host.frag[Ours]
          /\ Goto(p, "restart") /\ UNCHANGED host
       \/ /\ drop # host.frag[Ours]
          /\ \/ /\ host' = [host EXCEPT !.frag[Ours] = drop]
                /\ Disturbs(p, [c EXCEPT !.pc = "verify"])
             \/ /\ call' = [call EXCEPT ![p] = [@ EXCEPT !.pc = "restart", !.ok = FALSE]]
                /\ UNCHANGED host
    /\ UNCHANGED left

\* What is in the tool's own fragment and sshd takes from another file.
Unheard(drop, file, frags) ==
    {k \in Key : drop[k] # Unset /\ Supplier(file, frags, k, {}) # Ours}

\* Seeded fault: that 00- sorts first is trusted.
VerifyTrusting(p) ==
    /\ call[p].pc = "verify"
    /\ call' = [call EXCEPT ![p] = [@ EXCEPT !.pc = "restart", !.checked = TRUE]]
    /\ UNCHANGED <<host, left>>

\* verify_dropin_precedence: whatever the fragment holds must win.  It is asked of
\* a fragment this apply has written, and of no other.
Verify(p) ==
    LET c    == call[p]
        edit == [k \in Key |-> c.plan[k].main]
        file == [c.seen EXCEPT !.set = edit]
    IN
    /\ c.pc = "verify"
    /\ \E resolved \in BOOLEAN :
          LET ok == c.ok /\ resolved /\ Unheard(Dropin(c.plan), file, host.frag) = {} IN
          call' = [call EXCEPT ![p] = [@ EXCEPT !.pc = "restart", !.checked = TRUE, !.ok = ok]]
    /\ UNCHANGED <<host, left>>

Restart(p) ==
    /\ call[p].pc = "restart"
    /\ \/ /\ host' = [host EXCEPT !.running = Obeyed(host.main, host.frag)]
          /\ Ends(p, IF call[p].ok THEN "success" ELSE "failed")
       \/ /\ Ends(p, "failed") /\ UNCHANGED host
    /\ UNCHANGED left

\* The process is killed.
Dies(p) ==
    /\ call[p].pc # "idle"
    /\ Ends(p, "died")
    /\ UNCHANGED <<host, left>>

\* Another tool gives a fragment another content, or a package another main
\* file; sshd reads it when it is next restarted.
Others ==
    /\ left.changes > 0
    /\ left' = [left EXCEPT !.changes = @ - 1]
    /\ \/ \E f \in Fragment \ {Ours}, content \in Theirs \cup {Empty} :
             host' = [host EXCEPT !.frag[f] = content]
       \/ \E m \in Mains : host' = [host EXCEPT !.main = m, !.inode = FreshInode]
    /\ call' = [p \in Process |-> [call[p] EXCEPT !.quiet = FALSE]]

Step(p) == \/ Read(p) \/ Open(p) \/ Lock(p) \/ Refuses(p) \/ Plan(p)
              \/ WriteMain(p) \/ WriteDropin(p) \/ Verify(p) \/ Restart(p) \/ Dies(p)

Next == Others \/ \E p \in Process : Step(p)
(***************************************************************************)
(* What an apply promises.                                                 *)
(***************************************************************************)

TypeOK ==
    /\ \A p \in Process :
          /\ call[p].pc \in {"idle", "open", "lock", "plan", "gate", "dropin",
                           "verify", "restart"}
          /\ call[p].result \in {"none", "noop", "success", "failed", "died"}
    /\ DOMAIN host.running = Key

\* Keys an apply leaves and says so.
Excused(p) == {k \in Key : call[p].plan[k].excused}

\* What the fragment says and sshd takes from another file, of an apply that had not
\* to write the fragment: verify_dropin_precedence, which reports it as failed, is
\* asked of a fragment just written and of no other.
Unasked(p) == IF call[p].checked THEN {} ELSE Unheard(host.frag[Ours], host.main, host.frag)

\* An apply that reports success, on a host nobody else, another apply included, has
\* written since it read it, leaves sshd running without a finding but those it
\* reported as skipped and those of Unasked.
SuccessMeansHardened ==
    \A p \in Process :
        (call[p].result = "success" /\ call[p].quiet) =>
            /\ Findings(call[p].config, host.main, host.frag) \subseteq Excused(p) \cup Unasked(p)
            /\ \A k \in Key \ (Excused(p) \cup Unasked(p)) :
                  ~Insecure(call[p].config, k, host.running[k])

\* So does one that reports there was nothing to do: the files need nothing.
NoopMeansCompliant ==
    \A p \in Process :
        (call[p].result = "noop" /\ call[p].quiet) =>
            Findings(call[p].config, host.main, host.frag) \subseteq Excused(p) \cup Unasked(p)

\* A remote root session never closes the door it came through.
NeverLocksItselfOut ==
    \A p \in Process :
       (/\ call[p].pc # "idle" /\ call[p].session = "remote_root"
        /\ call'[p].quiet /\ call'[p] # call[p]) =>
           (Effective(host'.main, host'.frag, RootLogin) = No =>
               Effective(host.main, host.frag, RootLogin) = No)

\* The keys the fragment gave a value that the main file was to take over, and did
\* not, because its write failed: the fragment is rewritten without them all the same.
Stranded(p) ==
    {k \in Key : /\ ~call[p].ok
                 /\ call[p].plan[k].main # call[p].seen.set[k]
                 /\ HeldByOurs(host.main, host.frag, k) # Unset}

\* A write of an apply leaves compliant what was compliant, also where the write of
\* the main file failed before it, on a host nobody else, another apply included,
\* has written since it was read; but for the keys it reported as skipped and those
\* the failed write stranded, of which sshd then obeys what the main file says.
KeepsCompliance ==
    \A p \in Process : LET c == call[p] IN
       (c.pc \in {"gate", "dropin"} /\ call'[p].quiet /\ call'[p] # c) =>
           \A k \in Key \ (Excused(p) \cup Stranded(p)) :
               ~Insecure(c.config, k, Effective(host.main, host.frag, k)) =>
                   ~Insecure(c.config, k, Effective(host'.main, host'.frag, k))
=============================================================================
