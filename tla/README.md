# A TLA+ development of linux-hardener

linux-hardener audits a Linux host against hardening benchmarks, applies the
controls an operator selects, and can roll every apply back. It runs as a
command line program, as a daemon with scheduled scans, and behind a desktop
application; it reaches the hosts it works on locally or over SSH.

This directory models the parts of it that hold state across failures and
across processes: the checkpoints a rollback is made from and the key that signs
them, the hash-chained audit log, the daemon with the scan history that several
processes write, the opening of the database, the commands that work a fleet,
the commands of the desktop application; the eight plugins, each with what its
scan, its apply and its rollback do to a host that others change as well; and
what a compliance report makes of their scans. Each part has a specification and
small instances that TLC checks, and theorems that TLAPS proves for every value of
the constants: of all that the passing runs check, only liveness is left to TLC.

Line numbers below are those of the modelled commit (v1.9.1); `PROJECT.json`
names, for every definition, the source lines it stands for.

## 1. Inventory

Paths are relative to `src/crates/`.

| Component | Where | State it keeps | What makes it correct |
|---|---|---|---|
| Checkpoint manager | `hardener-state/src/manager.rs`, `db.rs` | SQLite: checkpoints, file states, signatures | A rollback restores what was captured, on the host it was captured on, says truthfully what it restored, never leaves the allowed prefixes, never deletes a protected path, and can itself be undone |
| Signing key | `hardener-state/src/signing.rs` | Key files | A key is never lost half way through generation, migration or rotation |
| Executors | `hardener-common/src/executor`, `hardener-core/src/executor` | None (the host is the state) | An operation reports failure when it fails; a local write is atomic |
| Audit log | `hardener-state/src/audit.rs` | A JSON-lines file, the last hash in memory | Every act is filed; an unaltered log verifies; an alteration shows, unless whoever made it computed every later hash anew |
| Scheduled scans | `hardener-scheduler/src/daemon.rs`, `runner.rs`, `db.rs`, `notification/` | An atomic flag, SQLite: sessions, findings, notification log | One scan at a time, every session settled, an alert exactly when there is reason for one |
| Notification transports | `hardener-scheduler/src/notification/*` | None | Formatting and one network attempt each |
| Plugin manager | `hardener-core/src/plugin_manager.rs` | A registry | Dependencies come before dependants, cycles are refused |
| Apply and rollback commands | `hardener-cli/src/commands/{apply,rollback}.rs` | None of their own | A checkpoint before every change, an audit entry after |
| Fleet commands | `hardener-cli/src/commands/batch.rs` | A bounded pool of workers; the controller's one database | Every host has one outcome and the exit code covers it; a fleet rollback takes back the last fleet apply and nothing else; two targets that share a key are refused |
| Plugin support | `hardener-plugins/src/lib.rs` and others | Backup files | Captures are taken in the right modality |
| Opening of the database | `hardener-state/src/db.rs` | The columns of the tables | An upgrade is whole or absent, and two processes do not stand in each other's way |
| Strictness and exceptions | `hardener-plugins/src/strictness.rs`, `hardener-core/src/config.rs` | None | An override tightens or is ignored; an exception is honoured only for what it documents |
| ssh plugin | `hardener-plugins/src/ssh` | `sshd_config`, one fragment of `sshd_config.d`, the running daemon | What sshd obeys, the first value of several files, is never weaker after an apply; a remote root session is not locked out |
| Kernel plugin | `hardener-plugins/src/kernel` | The running kernel, one drop-in of `sysctl.d` | The next boot keeps what was set, or a scan says so; nothing is loosened |
| pam plugin | `hardener-plugins/src/pam` | Files of `/etc` over vendor files of `/usr/etc`, under stacks it does not edit | What is in force, not what is in a file, is hardened; vendor values are not hidden |
| Audit rules plugin | `hardener-plugins/src/audit` | One rules file, the compiled file, the loaded rules | An apply unloads nothing it did not flush to load anew; a rollback takes back what the reload compiled |
| Firewall plugin | `hardener-plugins/src/firewall` | The policy of ufw, firewalld or nftables, loaded and kept | The session the apply came through survives, as far as the ssh rule is about it; a success is kept over a boot; a rollback opens nothing |
| Permissions, services and mac plugins | `hardener-plugins/src/{permissions,services,mac}` | Modes; units and their links; the MAC mode | A mask never adds bits; nothing that runs is masked; a mode is lowered only on the word of a file |
| Interactive scan history | `hardener-state/src/scan_manager.rs` | SQLite | A session ends completed or failed; the latest completed one holds all its scan found, or is no source |
| Compliance reports | `hardener-compliance`, the mappings in `hardener-plugins` | None | A control passes on checks that were made and held, or whose deviation is documented, and never on silence |
| Configuration, distribution detection, shared types | `hardener-common`, `hardener-distro`, `hardener-types` | Files | Parsing and tables |
| Desktop application | `src-tauri`, `hardener-ui` | Three statics, the scan history, and the screen | One prompt at a time, paced; no session left running; what it answers of checkpoints and scans is so |

How they interact. A command loads the configuration, opens the audit log and
the checkpoint database, and calls plugins through the plugin manager. A plugin
that is about to change a file asks the checkpoint manager for a checkpoint of
the paths it declares, then changes the host through an executor. A rollback
goes through the checkpoint manager alone. Every act is then filed in the audit
log. The daemon's cron jobs, `daemon run-once`, `scan` and `batch scan` each
scan through the plugin manager and write the scan history. The desktop
application and the command line may run at once: what serialises them is
SQLite, one statement or transaction at a time, and nothing else; the audit log
is a file they both append to.

Hard behaviours, with the lines where they bite, are the `hazards` of
`PROJECT.json`. In short:

- A rollback is a loop of awaited commands over the rows of a checkpoint: any of
  them may fail, the process may die between any two, a remote write may be left
  half done, a path may have become a link since it was checked, and another
  process may edit or delete the checkpoint that is being loaded.
- The two executors do not agree on what a symbolic link is. A local `stat`
  follows one and a local write replaces it; remotely it is the other way round.
- A plugin decides on what it has read and then writes one file, parameter or
  command after another, any of which may fail, while packages and other applies
  write the same host. What is in force is a mixture of several files, the running
  system and what the next boot will make of them.
- The audit chain is recovered from a file that may end in a fragment, by
  processes that know nothing of each other.
- A scan can be refused, fail half way, be disabled or not be asked for, and every
  one of these must reach the report as something other than a pass.
- The runtime of the desktop runs commands concurrently; a guard of three statics
  stands between two prompts.
- A job of the daemon, its shutdown, a signal and other processes share a flag
  or a history, and the statements of one run interleave with those of others.

## 2. Plan

| Stage | Modules | Purpose |
|---|---|---|
| 1 (done) | `HostFiles`, `Checkpoint`, `CheckpointProofs` | The core: capture, store, rollback, crash, tampering |
| 1 (done) | `Ledger`, `AuditLog`, `AuditLogProofs` | The audit trail, refining an append-only ledger |
| 1 (done) | `ScanHistory`, `ScanDaemon`, `ScanDaemonProofs` | Scheduled scans and the shared history |
| 2 (done) | `Strictness`, `Policy` | What is stricter than what; overrides and exceptions |
| 2 (done) | `SshPlugin`, `KernelPlugin`, `PamPlugin`, `AuditRules`, `FirewallPlugin`, `PermissionPlugin`, `ServicePlugin`, `MacPlugin` | Each plugin's scan, preview, apply, rollback, with failures and with others changing the host |
| 2 (done) | `Fleet` | `run_on_all` as a bounded pool, the collision guard, the exit code, and a fleet rollback over the checkpoints of the controller |
| 2 (done) | `PluginManager`, `SigningKey`, `Database` | The dependency order and its execution; a key generated and migrated under crashes; a schema upgraded by several processes |
| 2 (done) | `Compliance`, `Posture` | The mappings from checks to controls, and a report from the scans of a host that changes meanwhile |
| 2 (done) | `Desktop` | The guard of the privileged commands, scan sessions, the two checkpoint databases, the source of a report |
| 2 (done) | `SigningKeyProofs`, `DesktopProofs` | `OneKey` for any number of processes, `PromptIsAlone` for any number of commands |
| 3 (done) | `FleetProofs` | The exit code of a fleet run and its rollback, for any inventory, requests and interleaving |
| 3 (done) | `HardeningProofs` | The invariant of every plugin, for every table of directives, and of ssh for every set of fragments and any number of processes |
| 3 (done) | `PartsProofs` | What `parts` asks of each part: of the plugins from their invariants, of the key, the fleet and the desktop from their own theorems, of the order, the database and the report with invariants of their own |
| 3 (done) | `AuditLogProofs`, `ScanDaemonProofs`, `CheckpointProofs` | The refinement `ImplementsTrail`, `TamperEvident`, what a scan is compared with and alerts of, `Confined`, `CaptureComplete`, and what a rollback reports, can be undone from and ends at when it is run again |
| 3 | `SigningKey` | `rotate_key`, once something calls it |

The modules that stage 3 proves about are written for it: no RECURSIVE operator,
one action per step of the code, tables as constants.

## 3. The modules

### Checkpoints: `HostFiles`, `Checkpoint`

`HostFiles` is the part of a host a checkpoint can see. A host is a function
from paths to entries (absent, file, directory or link, with content, mode,
owner, target). Each executor operation is an operator that yields the set of
its outcomes, `[files, ok]`: what the host is like afterwards and what the
caller is told. Where the local and the SSH executor differ (`stat`, write,
listing), the operator takes `remote`. A path's number is its rank in the byte
order of names, which is the order `manager.rs` sorts rows in.

`Checkpoint` is `CheckpointManager`. An operator is a process that calls it;
`op[o]` holds the program counter of its call and the locals that outlive an
await.

| Action | Code |
|---|---|
| `BeginCreate`, `CapturePath`, `CaptureDone`, `Store` | `create_checkpoint`, `create_checkpoint_metadata_only`, `capture_file_state`, `store_checkpoint` |
| `BeginRollback`, `Load` | `get_checkpoint`, the cross-host guard, signature verification |
| `SortRow`, `SortDone` | Phase 1 of `rollback`: `rollback_target_refusal` |
| `SnapshotPath`, `SnapshotDone`, `Persist` | `snapshot_current_state` and the pre-rollback checkpoint |
| `CheckRow`, `WriteEntry`, `WriteMetadata`, `Finish` | Phase 2: `restore_file_state_tracked`, row by row |
| `Delete` | `delete_checkpoint` |
| `Fails`, `DatabaseFull`, `Crash` | Every `?`, a failing insert, the death of the process |
| `Tamper`, `HostChanges` | The database edited, and the host changed, by anything else |

`seen` and `from` in a row, and the variable `last`, are history: what was really
at the path, and how the host stood before the last rollback. No guard reads
them.

### The audit log: `Ledger`, `AuditLog`

`AuditLog` is `AuditLogger` with several processes. A line is an entry, or a
fragment that does not parse, or one that is not even text. `Open` recovers the
chain (`recover_chain`), `File` is any of the three writers to its end,
`WriteFails` and `Crash` leave in the file nothing, a fragment, or a line
without its newline (`Remains`). `Tamper` is one alteration from outside that leaves
the hashes as they are, `Rewrite` one by an editor who computes them anew from the
line altered to the last: the hash takes no key. A hash is the list of all it
covers, which is SHA-256 taken to be injective; `forged` are those an editor
computed.

`Ledger` is what an audit trail is for, in six lines: a history that only grows
and keeps what it acknowledged. `AuditLog!Trail` is the refinement mapping and
`ImplementsTrail` the refinement, which TLC checks with processes that take
turns.

### Scheduled scans: `ScanHistory`, `ScanDaemon`

`ScanHistory` has the pure half: the counts of a set of findings, the order of
two such tuples (`is_worse`), the floor and threshold a notification is decided
by, and the queries on the stored sessions with their ordering by start and
rowid.

`ScanDaemon` has the processes. A task is a cron job of the daemon, a
`daemon run-once`, a `scan`, or a host of a `batch scan`.

| Action | Code |
|---|---|
| `Start`, `Signal`, `Poll`, `Shutdown`, `DaemonDies` | `Daemon::start`, the signal handler, `shutdown_scheduler` |
| `CronTick` | `execute_scan`: the compare-and-swap of `scan_in_progress` |
| `RunOnce`, `CommandBegins` | `run_once`; `scan` and `batch scan` before they have a session |
| `CreateSession`, `Scan`, `FailSession`, `Export` | `ScanRunner::run` up to the export |
| `Complete`, `Insert`, `Inserted` | `complete_session`: its UPDATE, then one INSERT per finding |
| `Lookup`, `Dispatch` | `previous_completed_session`, `alert_decision` and the channels |

`truth`, `whole` and `abandoned` are history.

### The plugins: `Strictness`, `Policy`, and one module each

`Strictness` is the scale on which the ssh, pam and kernel plugins place values:
four kinds of comparison, numbers of a given width (the code's 64 bits; a
saturating negation), and `ClampTarget`, which lets an override tighten a baseline and
never loosen it. `Policy` adds what the configuration says of a key: its override
and its documented exceptions, which expire.

Every plugin module has the variables `host`, `call` and `left`: what the plugin
manages and what the running system made of it, the call in progress or the last
one, and the bounds. `call.pc` is where an apply stands between two awaited
commands; what it read before is in `call` and may be stale. In each, an action
stands for what other packages and administrators do to the host.

| Module | What is particular |
|---|---|
| `SshPlugin` | Several processes, an apply lock that a remote session does not take, the first-value rule over the main file and the fragments, and the validation by `sshd -t` that a write must pass |
| `KernelPlugin` | Drop-ins by the order of their names, an `/etc` copy standing in for one of `/usr`, glob patterns with exclusions; parameters are written live one by one, the file last; the probe for divergences after a rollback |
| `PamPlugin` | A file created in `/etc` hides the vendor's whole file (`Drifted`); inline arguments in a stack override a file; a module can be in no stack, or the stacks unreadable (`Presence`), and a directive ignored by what is there |
| `AuditRules` | The reload's four commands, each of which may fail; the immutable flag; the previous compiled file that augenrules leaves |
| `FirewallPlugin` | Three backends, each with its own order of enabling, writing and loading, and of what decides first (ufw its rules in their order, firewalld a port whatever its source, nftables what it renders after loopback and established); what the boot will load; the traffic the session came by |
| `PermissionPlugin`, `ServicePlugin`, `MacPlugin` | Modes as sets of bits, exact and masked; units, links and overrides; SELinux and AppArmor |

### The fleet: `Fleet`

A task per selected profile, `Concurrency` of them at a time; a task resolves its
plugins, captures, applies or rolls back through its own session, and ends in one
of the outcomes `batch.rs` gives a host. Checkpoints go to one database, by
account and machine and stamped with a clock of seconds. `Latest` is what
`rollback_one` picks: the greatest stamp, and of several in one second the one
SQLite lists last, which is the oldest of them.

### Around them: `PluginManager`, `SigningKey`, `Database`

`PluginManager` is `resolve_dependencies`, petgraph's walk, and an execution of the
plugins it hands out, each run or passed over (`Execute`, `Pass`), for every graph of
three plugins and one unknown id.
`SigningKey` is `new_with_path` with each file operation a step, and
`replace_key_atomically`. `Database` is `init_db` and `migrate`: tables, then
columns under `BEGIN IMMEDIATE`.

### Reports: `Compliance`, `Posture`

`Compliance` is the pure half: the checks of each plugin and the controls of CIS,
STIG and ISO 27001 they stand for (`coverage_table`), the two catalogues, the
translation to the numbers of RHEL 10, and `Verdicts`, which is
`ReportGenerator::generate`: a control passes, fails, is declared not applicable,
or was not assessed. A finding is a check that deviates and whether an exception
applies; an unchecked entry is the check.

`Posture` makes one: it scans plugin after plugin a host on which something
deviates, cannot be read, or is changed between two scans, with plugins disabled,
unselected or failing, and reports. What each scan says of what it can and cannot
see (`KernelScan` and the seven beside it) is kept apart from what is so
(`Deviating`): `Earned` are the checks that were made and held, or are documented.

### The desktop: `Desktop`

`app` holds the statics of `PrivilegedOpGuard`, the clock, and when a prompt last
ended; `call[c]` a command in progress; `book` the sessions, the two checkpoint
databases and the configuration.

| Action | Code |
|---|---|
| `Acquire`, `Swap`, `Refuses`, `Leave` | `PrivilegedOpGuard`: the cooldown is read, then the flag taken; every way out drops it |
| `BeginScan`, `Scanned`, `Abort` | `run_scan`, `fail_session_on_err` |
| `Prepare`, `Prompt`, `ChildEnds` | `run_deep_scan`, `run_apply`, `run_apply_dry_run`, `run_rollback`, `create_checkpoint`, `delete_checkpoint` through `run_privileged` |
| `EndScan`, `PersistScanResults` | `store_results`, then `complete_session` whether it stored or not |
| `GetCheckpoints`, `ResolveDelete` | `get_checkpoints`, `resolve_delete` |
| `GenerateReport` | `latest_or_fresh_findings`, `generate_compliance_report` |
| `Restart`, `Tick`, `Show` | The application closed and opened, the clock, the front end |

`truth` in a session, `ended` and `lost` are history.

### Instances

`Hardening` instantiates the plugins, and `Parts` adds the modules after them, side by
side: their states have nothing in common, so a behaviour belongs to one of them, named
by `part`, and a property is asked of each part in the terms of its own module. The
invariants of the plugins are proved in `HardeningProofs`, over `Hardening` alone, and
`PartsProofs` brings them together with the other parts. The
constants of a part come as one record (`AuditParams`, `FleetParams` and so on), for
which `MCParts` gives the values, as `MCCheckpoint`, `MCAuditLog` and `MCScanDaemon` do
for theirs.

The operators commented "Seeded fault" in a specification are plausible mistakes
in the code they stand next to. No specification uses them: `PROJECT.json` pairs
each property with one of them, put in place of the definition it follows, and
TLC then finds that property violated. This shows that each property can fail.

## 4. The runs

### What each checks

`ck_local`: two local hosts and two operators, of whom one at a time has a call
under way while the other edits and deletes checkpoints; on a host a file, an account
database and a target for links, captures in full and by metadata, and a rollback,
with a crash or a failure anywhere. `UndoRestores`: from any point a rollback got to, the snapshot
it stored brings the host back (short of `BeyondUndo`, below). `HonestReport`: a
path reported as restored is as it was captured. `NoAccountContent`: no bytes of an
account database are stored. `PlanIsGenuine`: what is being restored was captured
on this very host and has not been altered, though the checkpoint asked for may be of
the other host, and may be edited or deleted between the queries of a load.

`ck_remote`: the same host over SSH. `Confined`: nothing outside the allowed
prefixes changes, not even through a link. `RetryConverges`: a rollback that died or
failed is finished by running it again, whatever a torn write left. Here the
host may also change between two rows of the restore loop, which is what the
second check of each row is for.

`ck_tree`: a directory and the file in it, both protected from deletion.
`CaptureComplete`, `KeepsProtected`, `HonestReport`, and `CallReturns`, the
liveness of a call.

`audit_single`: processes that take turns, crash and fail cleanly.
`UntouchedVerifies` and the refinement `ImplementsTrail`.

`audit_edited`: two processes at once, any fragment, one edit, hashes computed anew
among the edits. `TamperEvident`: of a log that verifies, a line whose hash covers
none that an editor computed vouches for itself and all before it, so that they say
nothing but what was done, in the order it was done; and after a single edit that
computed no hash, of a log that one process at a time wrote whole (`Smooth`), it is
all there up to a tail that was cut off. `AcknowledgedIsReadable`.

`scan_daemon`: everything in section 3 of `ScanDaemon` at once. `OneScanAtATime`,
`SessionsSettle`, `RegressionIsReal` (an alert of a regression goes out if and only
if the host got worse, where both scans covered it whole), `ComparedWithTheLast` (a
run is compared with the newest completed session of its host but its own, and with
none only where there is none or the lookup failed; two completed sessions of one
second are there from the start) and, live, `NextScanCanBegin`.

`parts`: the plugins and the parts around them, each on a small host.

| Property | Asked of | What it says |
|---|---|---|
| `SuccessIsEarned` | ssh, kernel, pam, audit, firewall, services, mac, permissions | What a reported success stands for, plugin by plugin, on a host nobody else has changed since the apply began (the kernel's part is of any host). ssh, pam: nothing to find but what was reported as skipped and what no write was owed for; audit: no rule missing after a boot; services, permissions, mac: nothing left to find; kernel: what the next boot loses, a scan reports; firewall: the default asked for is kept, and what was written runs |
| `NeverLoosens` | ssh, kernel, pam, permissions, mac, firewall | On a host nobody else changes meanwhile no step of an apply leaves weaker what it found, also where a write before it failed, but for the ssh keys a failed write of the main file strands (`Stranded`) and those skipped; a rollback lowers a mode or opens a firewall only on what it restored |
| `PreviewIsHonest` | pam, audit, permissions | An apply changes nothing that the preview of the same host did not announce |
| `UndoneMeansUndone` | audit, firewall, services, mac, fleet | A rollback that reports success has put back the files, reloaded them, and left nothing the apply made |
| `DivergencesAreTrue` | kernel, services | What a rollback says of the running system it did not put back is so, and its silence is earned |
| `PamVendorSurvives` | pam | No vendor value is hidden by a file the apply creates |
| `AuditNothingUnloaded` | audit | A success unloads nothing but what the configuration excepts; an apply that failed or died, nothing that was loaded from the files, unless it had flushed the kernel to load them anew |
| `FirewallSessionSurvives` | firewall | The traffic the session came by is admitted after a success, where the configured ssh rule matches it and no deny comes before; where firewalld had every rule and was not reloaded, by what it keeps |
| `ServicesNeverMasksRunning` | services | Nothing that runs is masked, but what others have started since and what systemctl would not speak about |
| `PluginOrderIsSound` | order | Only what cannot be ordered is refused, and an execution leaves nobody out |
| `KeyIsKept` | key | One key, whoever generated it; none that has signed is lost |
| `UpgradeIsWhole` | database | All columns of an upgrade or none, and no opener is refused but for a fault; one that times out while another upgrades is left aside |
| `FleetCodeCoversEveryHost` | fleet | The exit code covers every host that was selected |
| `PostureIsEarned` | posture | A control passes, and a framework scores a hundred, only on checks this run earned, but for the deviations a scan passes over (`Unsaid`) |
| `DesktopKeepsItsWord` | desktop | One prompt at a time and paced; no session left running but by a failure of the database; a checkpoint is not denied, nor left out of the list, unasked; a report rests on the whole of the latest scan or on one of its own |

### What the code does otherwise

Five runs end in a counterexample: each states what the repository's own text
says, and finds what the code does instead.

- `ck_dangling`: `file_metadata`'s contract makes "absent" mean that nothing is
  there. Locally it is answered through the link, so a dangling link is recorded
  absent, and a rollback removes the link.
- `audit_fork`: the log is chained by each process to what it recovered when it
  opened the file. Two at once chain to the same entry, and a log nobody else
  touched does not verify.
- `scan_shutdown`: "waits for any in-progress scan to complete before stopping the
  scheduler". A job can begin after the poll has seen the flag down and before
  the scheduler is stopped.
- `ssh_lockout`: "so the apply cannot sever its own access". On a remote root
  session the target of `PermitRootLogin` is lowered where one of the two files is
  written and not where the other is, and the other one decides.
- `fleet_exit`: "0 = all clean, 1 = an apply/validation failure". A plugin that
  errs leaves no result and the counters of a host are taken from its results: a
  validation of one host whose only plugin errs ends with 0.

More disagreements are visible in the models and have no run of their own.
README.md:132 says that a rollback can itself be undone: the snapshot is taken in
the modality of the row to be restored, so for a row that says *absent* it does not
read the file that stands there, which the rollback then removes (`BeyondUndo`).
SECURITY.md:101 says that all operations are logged: a failed apply is filed with
`log_action`, which refuses failures, and the caller drops the error.
generator.rs:244-245 says that only what was evaluated passes on the absence of a
finding: the mac scan says nothing of the mode when `getenforce` fails, when the
AppArmor probe is unavailable or when detection is indeterminate, and the pam scan
nothing of `PASS_MIN_DAYS` when `chage` cannot be asked; the firewall scan takes a
backend that filters for one that is off when the probe fails otherwise than for want
of privilege, and the kernel scan reads the files of the next boot and not what else
that boot takes. The controls of those checks pass (`Unsaid`). generator.rs:228-230 says that the order of a hash map does
not decide: two exclusions of one control under two spellings of its framework are
taken in the order of the map (`Excused` takes the last spelling as a parameter).
mod.rs:83 of the desktop gives the minimum of seconds between two privileged
operations: a command that read the time before the other ended, and takes the flag
after, raises its prompt at once (`PromptIsAlone` excepts it).
The ssh plugin's comments say that a directive still answered by another file is "a
failed change naming that file, never a success" (apply.rs) and that a fragment which
does not win is an error "rather than a success that quietly changed nothing"
(mod.rs:1132-1138). `verify_dropin_precedence` is asked only of a fragment the apply has
just rewritten: where an earlier fragment answers for a key, the first apply fails, and
the next finds the tool's fragment as it would have it, writes nothing, and reports that
everything is compliant already (`Unasked`, which `SuccessMeansHardened` and
`NoopMeansCompliant` except; the proof of `SshArrives` met it).

### Bounds

| Run | Bound | Why it is enough |
|---|---|---|
| `ck_*` | `MaxCheckpoints = 2` | One checkpoint and the snapshot of a rollback to it, which is the state all rollback properties speak of. A snapshot of a snapshot is a checkpoint like any other: its rows are captured by the same rules, and `Store` and `Persist` differ in nothing the properties see |
| `ck_local` | two hosts, two operators, one call at a time (`OneCall`) | A checkpoint of the other host, and one who deletes or edits what the other is loading. Two calls at once are section 6 |
| `ck_*` | up to three paths | One of each kind a row is treated by: file, account database, target of a link; or a directory and its child. Rows are treated one by one and only meet through links and parents |
| `ck_*` | two contents and a torn one, two modes and that of temporary files, two owners | Enough to tell restored from unrestored, each attribute apart |
| `audit_*` | two processes, three acts, one word | A fork takes two; a third entry is what is appended after a fragment or an edit |
| `audit_edited` | one edit | The third part of `TamperEvident` speaks of one: its comment says what two can hide. The theorem `LogIsTamperEvident` has no bound |
| `scan_daemon` | four sessions of which two are stored, four tasks, two findings, one second | Two completed sessions of one second beside the run's own and another's: the limit of two rows in `list_sessions`, its tie-break by rowid and "the newest of the others" decide; two jobs to overlap; a finding below and one above the threshold |
| `parts` | one or two applies, one or two changes by others (`MaxApplies`, `MaxChanges`) | An apply, a change and the next apply, or an apply, a change and the rollback; a third adds no new relation between what was read and what is there |
| `parts` | two processes for ssh, the key and the database; two faults | A race takes two; a second fault is the death of the process that followed the first |
| `parts` (firewall) | five kinds of traffic, of which two share the port of ssh; sessions by ssh or by another port; eight hosts, five configurations | A source and a port that a rule leaves out, a deny before and after the allow, each backend with and without what it keeps |
| `parts` | two or three directives of a plugin, one of each kind of comparison | Directives only meet in a file or in a reload; integers have four bits so that the saturated end is reached |
| `parts` | three ssh fragments and three drop-in names, ours in the middle; a main file that is strict, one without its Include, a vendor's | One file before ours, one after |
| `parts` | two machines, two accounts, two runs, two seconds, two workers | An apply and a rollback or a second apply; two targets that are one host; a same second and a later one; three tasks for two workers |
| `parts` (posture) | one plugin off the clean host at a time, one change | Controls are counted check by check, and a plugin's result depends on no other's; the change falls before or after each scan |
| `parts` (desktop) | two commands, two sessions, three seconds with a cooldown of two, one failure | A race and its victim; a session and the one it supersedes; within and past the cooldown. Scans, deletions and the other verbs are asked for in three sets, which share the guard and nothing else |
| `parts` | three plugins and an unknown id | A cycle of two and one beside it; a chain |

`CHECK_DEADLOCK` is switched off in `parts`, `ssh_lockout` and `fleet_exit` only:
there a part may come to the end of its applies, changes and runs, and a command
line that has ended does stop. In the others a process may always begin another
call, or the clock or a crash goes on. The bounds are guards
(`issued < MaxCheckpoints`, `Len(acts) < MaxActs`, `Room`, `now < MaxTime`,
`left.applies > 0`, `past.faults < MaxFaults`).

### Fairness

`Checkpoint!FairSpec` has weak fairness of `CallStep(o)` for each operator: the
manager's futures are awaited by their callers to the end, and a local command
or one under the SSH timeout returns. It does not cover beginning a call, or a
failure. `ScanDaemon!FairSpec` has weak fairness of `RunStep(t)`: a spawned job is
polled by its runtime until it ends. Nothing is assumed of the clock, of signals,
of the operator or of `Poll`: shutdown polls a flag that a well-timed job may
raise again each time, so that shutdown ends is not claimed.

## 5. The proofs

TLAPS proves the following for all values of the constants that meet the
assumptions of the modules (`PathAssumption`, `ValueAssumption`,
`CheckpointAssumption`, `AccountAssumption`, `AuditAssumption`,
`FindingAssumption`, `DaemonAssumption`, `StoredAssumption`, each next to its constants). The
theorems about the key, the database, the desktop, the fleet and the plugins state
theirs (`KeyAssumption`, `DatabaseAssumption`, `DesktopAssumption`, `FleetAssumption`,
`RulesAssumption`, `FirewallAssumption`, `ServicesAssumption`, `MacAssumption`,
`PermissionsAssumption`, `PamAssumption`, `KernelAssumption`, `SshAssumption`,
`OrderAssumption`, `PostureAssumption`). `HardeningAssumption` collects those of the
plugins, `PartsAssumption` the others and that a behaviour is of a part there is; TLC
evaluates both for the constants of `parts`.

| Module | Theorem | What it says | Argument |
|---|---|---|---|
| `CheckpointProofs` | `TypeCorrect` | `Spec => []TypeOK` | Inductive as it stands; one lemma per operator of `HostFiles` gives the type of its outcomes |
| | `ProtectedKept` | `Spec => KeepsProtected` | Each operator keeps a protected path present (`Keeps`); only `Remove` takes a path away, and `RemoveOrRefuse` does not reach it |
| | `AccountsKeptOut` | `Spec => []NoAccountContent` | From `RowsInv` |
| | `PlansAreGenuine` | `Spec => []PlanIsGenuine` | From `RowsInv` |
| | `AbsenceIsSeenRemotely` | `Spec => []RecordedAbsentIsAbsent` where every host is remote | From `RowsInv`: only a local `stat` takes a link to nothing for nothing |
| | `RollbackIsConfined` | `Spec /\ []Apart => Confined`, with `Enclosed` and a host that nothing else changes under a row's write | `TargetInv`, with `OrderInv` |
| | `CapturesAreComplete` | `Spec /\ []Apart => CaptureComplete`, with `ListingsTell` and a host that nothing else changes under a capture | `CaptureInv` |
| | `ReportsAreHonest` | `Spec /\ []Apart => HonestReport`, with `Settled`, `Enclosed` and `Unraced`, whichever commands and probes fail | `HonestInv`, with `TargetInv` |
| | `RollbacksCanBeUndone` | `Spec /\ []Apart => []UndoRestores`, with `Bounded` besides, from any point a rollback got to | `UndoInv`, and `ReplayTarget` of what a replay leaves |
| | `RetriesConverge` | `Spec /\ []Apart => []RetryConverges`, on a host that does not change while the guard goes through the rows | `UndoInv`, and `ReplayTarget` of both replays |
| `AuditLogProofs` | `TypeCorrect` | `Spec => []TypeOK` | `TypeInv`: besides the types, a process that is to report has exactly one pending act |
| | `UntouchedLogVerifies` | `Spec => []UntouchedVerifies` where `~Concurrent`, for every kind of failed write | `Chained` with `Alone`: the log verifies, and the one process that has it open holds the hash of its last line |
| | `AcknowledgedIsHeld` | `Spec => []AcknowledgedIsReadable` | `Held`: an acknowledged act has its line, and a line is never removed but by an edit |
| | `LogImplementsTrail` | `Spec => ImplementsTrail` where `~Concurrent`, nothing edits the file and a failed write leaves nothing: the refinement of `Ledger` | `Chained`, `Alone` and `Whole`; each action is an action of `Ledger` or leaves it alone |
| | `LogIsTamperEvident` | `Spec => []TamperEvident`: any number of processes, edits and failures, hashes computed anew among the edits | `Truthful`, `AllOwn`, `Early`, `Once` |
| `ScanDaemonProofs` | `RegressionMeetsThreshold` | "A regression at the floor always also satisfies the absolute threshold" | The severity the order is decided at is at or above the floor, or both tuples are zero there |
| | `TypeCorrect`, `OneScheduledScan`, `EverySessionSettles` | `Spec => []TypeOK`, `[]OneScanAtATime`, `[]SessionsSettle` | One invariant, `Inv` |
| | `AlertsAreOfRegressions` | `Spec => RegressionIsReal` | `Inv`, `Truthful`, `Living` |
| | `LooksBackAtTheLast` | `Spec => ComparedWithTheLast` | `Inv`, and that the newest two of a finite set, less one, hold the newest of the others |
| `SigningKeyProofs` | `TypeCorrect`, `OneKeyAlways` | Types; and of any number of processes that open, generate or migrate at once and die anywhere, no two hold different keys | `OneKeyInv`: nothing has been generated (`Bare`), or one key is everywhere a key is (`Sole(k)`) |
| | `SignedKeysAreKept` | `Spec => []SignedKeyKept`: through its migration by any number of processes, overlapping and dying anywhere | `KeptInv`: `Placed`, `Unshared`, `Pending` |
| `DesktopProofs` | `TypeCorrect` | `Spec => []TypeOK` | `WordInv` with `Bounded` |
| | `PromptsAreAlone` | `Spec => [][PromptIsAlone]_vars`: of any number of commands one prompt at most is up, and none within the cooldown of one the command knew of | `DeskInv`: one command at most has the guard and the flag is up while it has; whoever is past the check read a time a cooldown ago |
| | `WordIsKept` | `Spec => [][KeepsItsWord]_vars`: the prompts, that no session is left running but by a failure of the database, that what it says of checkpoints is so, and what a report rests on | `WordInv` |
| `FleetProofs` | `TypeCorrect` | `Spec => []TypeOK`; what a rollback selects are checkpoints that are there | `Shape`: each task stands where its command takes it (`Fits`), the hosts of a run that writes have keys apart, and no checkpoint is of the future |
| | `ExitCodeCoversEveryHost` | `Spec => []CodeCoversEveryHost` | `CodeInv` |
| | `RollbackRestoresTheFleet` | `Spec => []UndoRestoresTheFleet` | `UndoInv`: `Filed`, `Applying`, `Undoing`; and that a nonempty set of checkpoints has a latest, by the well-foundedness of inclusion on finite sets |
| `PartsProofs` | `TheKeyIsKept`, `FleetCodesCoverEveryHost` | `Spec => []KeyIsKept`, `[]FleetCodeCoversEveryHost`: the theorems above, of the composition | A behaviour of `Parts` that is one part's is a behaviour of that part's module |
| | `UpgradesAreWhole` | `Spec => []UpgradeIsWhole`: of any number of openers, none finds half of an upgrade, or is refused but for a failure of its own; that the five seconds of `BEGIN IMMEDIATE` may run out (`Busy`) is left aside | `DbInv`: `DbLocked`, `DbWhole` |
| | `ThePostureIsEarned` | `Spec => []PostureIsEarned`: for any hosts, selections, exclusions, dates and changes meanwhile, and the catalogues and tables as they are, a report passes and declares away only what this run earned, but for `Unsaid` | `PostureInv`, with one lemma per plugin of what its scan tells (`Tells`) and the arithmetic of a score of a hundred |
| | `EveryPartKeepsItsTypes` | `Spec => []TypeOK` | The invariant of each part |
| | `NothingIsUnloaded` | `Spec => []AuditNothingUnloaded`: of a success and of a failure, whichever of the reload's commands failed | `AuditInv`, and `AuditStays` of an apply that has not flushed |
| | `NoneIsMaskedRunning` | `Spec => ServicesNeverMasksRunning`, whatever others do between the commands | `ServInv`, and `ServSeen` of a host that others change |
| | `RollbacksUndo` | `Spec => []UndoneMeansUndone`: the audit, firewall, services and mac plugins and the fleet | `AuditInv`, `FwInv`, `ServInv`, `MacInv`, and `RollbackRestoresTheFleet` |
| | `NoVendorValueIsHidden` | `Spec => PamVendorSurvives`, for any stacks, layers, directives and edits of others | `PamInv` |
| | `PreviewsAreHonest` | `Spec => PreviewIsHonest` with `PamTargetsApart`: no apply of pam, audit or permissions changes what its dry run did not announce | `PamInv`, `AuditInv`, `PermInv` |
| | `NothingIsLoosened` | `Spec => NeverLoosens`, of every part, with any write or command failing | `SshInv`, `KernInv`, `PamInv`, `PermInv`, `MacInv`, `FwInv` |
| | `SuccessesAreEarned` | `Spec => []SuccessIsEarned` of every part, whichever commands fail | `SshInv`, `KernInv`, `PamInv`, `PermInv`, `AuditInv`, `ServInv`, `MacInv`, `FwKept` |
| | `TheSessionSurvives` | `Spec => []FirewallSessionSurvives`: of every backend and ruleset, where the ssh rule matches the session and no deny comes before it | `FwKept` |
| | `RollbacksTellTheTruth` | `Spec => []DivergencesAreTrue`: what a rollback says of the running kernel and services, whatever it could not read | `KernInv`, `ServInv` |
| | `TheDesktopKeepsItsWord` | `Spec => DesktopKeepsItsWord`: `WordIsKept`, of the composition | A behaviour of `Parts` that is the desktop's is one of `Desktop` |
| | `ThePluginOrderIsSound` | `Spec => []PluginOrderIsSound`, for every finite registry and any dependencies: only what has no order is refused, and an execution brings each plugin asked for once, after all it depends on | `OrderInv`; that a registry without a cycle has a plugin ready until all are out, by the well-foundedness of inclusion on finite sets |

The inductive invariants, and why each is needed:

- `RowsInv`. `NoAccountContent` speaks of stored rows only, but a stored row was
  held by a call first, and a row a rollback holds decides how its snapshot reads
  the host. So the invariant says the same of every row a call holds, and that
  no path left to a capture in full is an account database or the directory of
  one. The snapshot of a rollback keeps it because it reads content only for a
  row that has content, which by the invariant is none of an account's.
- `OrderInv` and `TargetInv`. A row is checked in one step and written in the next
  two, so `TargetInv` carries from the check to the chmod that a write to its path
  arrives inside the allowed prefixes; which row that is follows from the rows
  having one path each, which is `OrderInv`: rows are captured in the order of their
  paths and what is still to be captured lies behind them.
- `CaptureInv`. A checkpoint is stored long after its directories were listed: until
  then, what a captured directory holds has a row or is still to get one.
- `HonestInv`. What a rollback reports at its end was written row by row, by commands
  that act on other paths too: a link replaces a file, a directory goes with what is in
  it. `CallsHonest` says of each row that is behind and not among the failed that its
  path is still as captured, and, between the write of a row and its chmod, that the
  write has done its part (`Ready`). For a later row to spare it, the rows of a plan
  must be of one moment: none tells of an absent directory and of something in it
  (`Whole`), which `StoredWhole` carries through the database. `HostsSound` keeps every
  entry in a directory and every link where it leads to something.
- `UndoInv`. `UndoRestores` and `RetryConverges` compare the host with a rollback
  replayed in one piece, whatever the first one left half done. What a row leaves at
  its path depends on the row and on the entry that stood there, and on no other row
  (`Target`): `ReplayTarget` shows it of a whole replay, path by path, by the
  well-foundedness of the paths. So `PastInv` keeps of each path written only that its
  entry has the `Target` it had before, `UnderwayInv` that a snapshot being taken has a
  row for each row behind, read as it stood, and `SnapshotInv` that the stored one has
  all of them for as long as it verifies. Any number of rollbacks may follow on the
  host: the two are about the last.
- `Chained`. That the log verifies is not inductive: the next entry chains to what
  the process remembers, so the invariant ties that to the last line.
- `Truthful` of `AuditLogProofs`, with `AllOwn`, `Early` and `Once`. A line that
  verifies covers the hashes of all before it, so `TamperEvident` needs every hash
  that is: on a line or remembered by a process, it covers acts that were filed, in
  the order they were done, and none later than the one its process is about to
  file. `AllOwn` and `Early` say what the file is before any edit, `Once` what one
  leaves: every hash is where it was, or one is on a line whose number is not how
  many it covers, and no later write puts that right. A hash an editor computed
  covers what nobody did, and so does each that chains to it: the claims are of the
  hashes that cover none of `forged` (`Vouches`), which a rewritten chain only adds to.
- `OneKeyInv`. `OneKey` looks at what is held and published; it does not say that a
  key still in a temporary file, or generated and not yet written, is the same one.
  `Sole(k)` says it of every place, and the step from `Bare` to `Sole(k)` is the one
  creation that `create_new` lets through.
- `KeptInv`. That a key is on the disk once it has signed is not kept by a rename,
  which puts there whatever the temporary file holds. `Placed` has the key on the disk
  from the moment a process may sign with it, before it has signed; `Unshared` says that a
  migration which has the temporary file to itself renames a key it has written;
  `Pending` that of several, if nobody died, whoever emptied a file is still to write
  it, and that a rename by another takes that process's open file to the key.
- `DbLocked` with `DbWhole`. That a database is whole before and after says nothing
  while one process is upgrading it: the columns it has added live in its
  transaction, and `DbLocked` ties where it stands to what they are.
- `DeskInv`. A prompt is raised two steps after the flag was taken and three after the
  cooldown was read, so the invariant carries both to the prompt: what `Acquire`
  read stays a cooldown old while the clock runs, and the flag stands for one
  command from `Swap` until its child ends or it leaves. That only privileged kinds
  get there is part of it: `Leave` drops the guard by the kind of the command.
- `WordInv`. What a report rests on was stored in a transaction that may have failed, by
  a session that may have been failed by another call: `BookOk` says of every session
  that is completed that its rows are all the results it was given, of the plugins that
  are on, and of each that runs that it has none yet or its storing failed. `FiledInv`
  ties a command to the session it opened: it is there, it is running, and no other
  command has it.
- `PostureInv`. A report is made of results alone, and what was earned is known only to
  the run. So each result is held to account (`Accounts`): it is a marker, or of a scan
  that failed, and then all its plugin covers is stood in for; or whatever stands for a
  check of its plugin that was not earned is named by a finding no exception covers, or
  by a check left unchecked. It is a matter of controls and not of checks, as the firewall
  and AppArmor answer for two checks with one. From there, a control that passes has
  neither, and a plugin without a result is stood in for by `Flatten`.
- `OrderInv`. What has been handed out has every plugin once and each after what it
  depends on (`OrderWalked`), so its place in the order is the rank `Orderable` asks
  for; what is not yet handed out when none is ready is a set of which each waits on
  another, a cycle, which was refused at the start (`OrderBegun`). `OrderBrought` says
  that the results are those wanted of what the execution has been through, in that
  order, and `OrderRefused` why nothing was run.
- `CodeInv`. A host is applied with nothing failed although `status_from_result` does
  not look at plugins that erred; that some plugin ran there then is so because a
  task that has been through one has counted it, or set `erred` or `skipped`
  (`Counts`), and there is one to go through since an empty filter is every plugin.
- `UndoInv`. Apply and rollback are two runs that meet only in the database, so
  `Filed` says what the apply leaves there: the newest checkpoints of all, one of
  each plugin and key, holding what the apply found. For that, a task captures each
  plugin once and no other task has its key (`Takes`, from the refusal of colliding
  keys), and what has not been captured has not been changed (`Applying`). `Undoing`
  says of a rollback under way what it holds and what it has restored; the restores
  of one host leave another's alone because a machine reached by one key is reached
  by one task.
- `AuditInv`. A reload flushes the kernel before it loads, so that what was loaded is
  loaded again depends on what is compiled by then: `AuditApplying` carries from the
  scan at the start which commands the apply needs, that the file is written before
  the reload that may report a success, and that before it nothing was lost but to a
  compiled file that is the kernel's. `AuditUndoing` ties the compiled files the
  rollback found to what is there when it sweeps them. `AuditStays`, above it, says of
  every step of an apply that what was loaded from the files is still in the files, and
  until a flush still loaded: that it is in the files is what a load after it rests on.
- `ServInv`. A unit is stopped, disabled and masked by three commands, and its rollback
  knows only the links it declared: `ServDone` says of every unit behind the apply that
  it is minimised, `ServSince` what the calls of a checkpoint can have made of a unit
  since, and that a mask is only on a unit the checkpoint declared. `ServApplying` says
  that a unit past its stop does not run, or could not be seen to, of a host that nobody
  else changes; `ServSeen` says it of any host, of the unit whose mask is next, but for
  one that was started since.
- `MacInv`. The mode a rollback sets was read from the file in an earlier step:
  the invariant says that it is still the one of the restored file.
- `FwInv`. What is restored is put back as the backend keeps it: `Keeps` says of host and
  checkpoint that the include line is in no file that is not there, and that only
  nftables is without a policy; the reload of the other two has something to load.
- `FwKept`, above it. A success says what all rules have come to, one command after
  another and some of them not issued: `FwBehind` says of the rules that are behind that
  the default drops and the traffic of the ssh rule is admitted, with nothing taken from it
  but what another rule denies (`FwCommands`). The session's own traffic is admitted where
  it is among that of the rule. What is loaded is another matter: ufw runs what
  it keeps from its first command on, firewalld from its reload, nftables what it rendered.
- `PermInv`. A path is read, judged and changed in separate steps, between which
  others change it: of a host that nobody else has changed since the start, `PermApplying`
  says that the mode an apply remembers of a path is the path's, that what a scan would
  find was announced or could not be read, and that what the apply has been through is
  clean, or it has failed.
- `PamInv`. What an apply knows of a directive was read at its start, and it writes file
  by file: `PamApplying` says that the text and the value known of what is ahead are
  still the host's, and that what is behind asks nothing more or the apply has failed.
- `KernInv`. A parameter is set, read back and persisted in three places, and the value
  may be capped by the configuration or raised to what runs: the invariant says of each
  value decided that it meets its target (`KernDecided`) and is no weaker than what runs
  (`KernKeeps`, of what has a place in the comparison), and that after a success the tool's own file is
  what was decided. That a boot then brings it rests on the order of the files: of a
  finite set of them one is read last (`KernLast`), and what is merged from the deciding
  file on is what the boot arrives at (`KernMerges`, `KernBrings`).
- `SshInv`. What an apply decides of a key from what it read before it held the lock, it
  writes in two files, and sshd obeys the first that gives a value. `SshSettles` says of
  a decision what makes it safe whichever file is heard: the main file keeps its value
  or gets a secure one that no other file hides, and the fragment gets a secure one or
  what is obeyed without it is secure. That is what each of the two writes leaves of
  what was compliant (`SshMainKeeps`, `SshFragmentKeeps`) and what both together arrive
  at (`SshArrives`); `SshHolds` carries it from the plan to the restart while nobody else
  writes.
- `Inv` of `ScanDaemonProofs`. `Stage` says how far a session is from its task's
  position (no findings before it is completed, then all but those left to
  insert), `Alone` that no two tasks share a session, so that a step of one leaves
  the others' sessions as they were, and `JobsWithDaemon` that a daemon that is off
  has no jobs, without which starting it would clear the flag of a running one.
- `Truthful` and `Living` of `ScanDaemonProofs`. What is compared at dispatch was
  counted at two scans, the other perhaps by a process long dead: `Truthful` says
  of each session that covered the whole host that its counts, from the threshold
  up, are of that host, and `Living` that no session still being written is among
  the abandoned.

What `FleetAssumption` takes for granted: ssh names an account for every machine, the
registry has plugins, a request names profiles and registered plugins, each plugin
once (section 6), and the checkpoints that are there at the start are not stamped
later than the clock.

What the assumptions about the plugins take for granted: a host starts without a
checkpoint, a rule's overrides match traffic that there is, a backend starts with what
it keeps (`Keeps`), and "absent" is none of the values it stands in for; the masked
paths are among the paths; the baseline of a parameter or directive has a place in its
comparison, and no spelling is in two groups of a ranking; every pam directive is a
number, written with its file or in the stack that asks for it; and a configuration
has one exception for a key. Of the firewall, that the rules are numbered from 1
without a gap, that the default deny is one of them and comes after the rule of the
session, and that the backend implies neither. Of ssh, that the fragment of this tool
is one of the names, and that a key which is not set has no place in a comparison and
is no list of algorithms.

Of a report, that a mode which deviates is one of the system that is there, and that an
auditd which is there is not found missing. Of the history of scans, that what earlier
runs left is settled and counts what was there (`StoredAssumption`).

What `PamTargetsApart` excludes. A pam target is compared by strictness, which is
turned round by negating the number, and the least number has no negation: saturated,
the two least are equally strict (`Strictness`). Where one is the target and the other
stands in the file, the dry run finds nothing to change and the apply writes the file
anew. The baselines of this tool are small numbers; an override could name the least.

What the theorems about calls assume, and why. `Apart`: of two calls on one host one
is idle. The code has no lock that says so (section 6), and `Confined` and
`CaptureComplete` fail without it: a second rollback may put a link where the first
has just checked a path, and a file where a capture has listed a directory. `RacePC`
leaves the host to others everywhere but between the check of a row and its chmod
(`RollbackIsConfined`), or during a capture. `Enclosed`: the parent of a path inside
the allowed prefixes is inside them, or a directory that is always there;
manager.rs:1144-1148 relies on it where it makes the parent of a link without asking
the guard. `ListingsTell`: a remote listing does not fail, since the code takes one
that fails for an empty directory.

`ReportsAreHonest`, `RollbacksCanBeUndone` and `RetriesConverge` ask more of the host,
and the runs meet all of it: TLC was given these hypotheses and the parts of
`HonestInv` and `UndoInv` on `ck_local`, `ck_remote` and `ck_tree` before they were
proved. `Settled`: no link leads to a path inside the allowed prefixes or to nothing, a
path that is a directory is never a file or a link, and what the host starts with is
root's where it is a link and in a directory that is there. Without it the code itself
is not honest (section 6, and `ck_dangling`). `Unraced`: nothing else changes the host
while it is captured or snapshotted, or between the check of a row and its chmod; it
may between two rows, and then nothing is claimed of that rollback. `Bounded`: there is
a last path, the one `Replay` runs to; a host has finitely many. And `RetriesConverge`
is of a host that does not change while the guard goes through the rows: a row
admitted before the change may be one that a replay refuses.

Only model-checked: liveness, which is out of the prover's reach (`CallReturns` and
`NextScanCanBegin`).

## 6. Simplifications, and what they leave out

Checkpoints.
- A checkpoint's host key is not under its signature; `Tamper` therefore edits
  signed fields only. Re-labelling a checkpoint is not modelled.
- The awaits of one captured row are one step. So are the check and the use of a
  path inside one command.
- `Confined` is claimed against changes of the host between rows
  (`RacePC = {"check"}`). Between a row's check and its write there is a window the
  code documents and no run covers.
- A host changed between its snapshot and the first write leaves a stale snapshot;
  `HostChanges` stays out of that phase. Two rollbacks of one host at once are not
  serialised by the code: `HonestReport` is claimed for one.
- `HonestReport` is claimed, and proved (`Settled`), for plans whose links lead
  nowhere else in the plan and stand where no directory does now. Where a directory
  stands, `ln -sfn` makes the link inside it and succeeds, so the row is reported as
  restored (manager.rs:1131 says that it "replaces whatever stands in its place");
  where a link leads to another path of the plan, the chmod of the link's row goes
  through it.
- `BeyondUndo`: a snapshot does not hold the bytes of a file about to be removed or
  replaced by a link, nor does an undo remove a directory the rollback made or a
  protected path it restored.
- Directories nest one deep and links do not lead to links or directories.
- A remote listing that fails is taken by the code for an empty directory; the
  model has that outcome for remote hosts, and `CaptureComplete` is claimed
  locally.

Audit log.
- A tail that was cut off cannot be seen; the code documents this. Nor can a chain
  that was computed anew to its end while no process that files anything later had the
  log open: the hash takes no key, and nothing outside the file says where the chain
  ends (audit.rs:11-15). `TamperEvident` claims nothing of lines that chain to a hash
  an editor computed.
- The fraction of a second is not hashed, so it may be altered unseen.
- An entry appended to a fragment is acknowledged and cannot be read back.
- The case of a log that cannot be opened, in which nothing is filed, is left out.
- Concurrent writers fork the chain (`audit_fork`): `UntouchedVerifies` is claimed
  and proved for processes that take turns.

Scheduled scans.
- The daemon's plugin selection is all of them and the scheduler is enabled. Its
  plugins run in order within one step.
- A scan finds the host in any posture.
- The two sessions that are there from the start are completed and of one second; those
  of the run follow them.
- `RegressionIsReal` is conditioned on both scans having covered the whole host. A
  plugin that fails, or a `scan` told to run some plugins, makes a tuple that
  looks better or worse than the host is.
- A channel is tried once; the notification log is best effort and always written
  here. An alert is lost when the process dies between completing its session and
  dispatching.
- An export that fails leaves its session `running`: `SessionsSettle` excludes
  sessions whose writer met such an error (`abandoned`), and those whose writer
  died.
- A job that panics would leave the flag up; panics are not modelled.

Plugins.
- Files are maps from keys to values: their syntax, comments and scopes are read
  as the code's parsers read them, and the parsers themselves are left out.
- The applies of a plugin follow one another, except those of ssh, which several
  processes run at once: ssh is the plugin that locks its file against them, and a
  remote apply does not. Another apply of the others is one of the changes that
  anybody may make between two steps.
- `SuccessIsEarned` and `NeverLoosens` are asked of a host nobody else, another apply
  included, has changed since the apply read it (`quiet`), which a lock cannot make true
  of other packages. What one apply decides on before it has the lock (ssh/apply.rs:70),
  and what a path's mode becomes between its reading and its chmod, they leave aside.
- Of ssh `SuccessIsEarned` excepts the keys of a fragment that was not rewritten and is
  not heard (`Unasked`, section 4); a scan still reports them. Where the write of the
  main file fails, the fragment is rewritten all the same, and without the keys the main
  file was to take over (apply.rs:748-766): sshd then obeys the weaker value that stands
  there, which the apply reports as failed, and which `NeverLoosens` excepts
  (`Stranded`).
- Of pam it excepts what no apply mends and a scan reports: a setting the host's shadow
  does not act on, and a file of `/etc` that hid something of the vendor's before.
- Where a reload flushed the kernel and the loads after it failed, no rule is loaded
  until the next boot. The apply fails and says so (audit/mod.rs:775-778), and
  `AuditNothingUnloaded` excepts it: it is about the failures of which the code says
  that "previously loaded audit rules are still active".
- A unit that others start between its stop and its mask is masked while it runs.
- The session over which a firewall apply came is kept by the ssh rule and by nothing
  else: `ruleset_refusal` asks whether the rule is applied, and compares no port and no
  source. An override of ssh.port or of the source severs a session on another port, or
  from elsewhere (firewall/mod.rs:582-586, 636-641); `FirewallSessionSurvives` is about
  sessions the configured rule matches.
- `ufw` active with its unit disabled is reported as a success and not enabled: it
  does not survive a boot. The rules of a `firewalld` apply that failed before its
  reload are skipped as present by the next, which does not reload. Of an apply that
  writes nothing, the firewall properties speak of the kept files.
- A ruleset that is refused after the backend was enabled leaves it enabled.
- An exact mode is written as it stands, so a path that was tighter is loosened:
  only masks are claimed never to add a bit.
- The glob patterns of a kernel file are the set of parameters they name, and
  assign one value.

Fleet, key and database.
- Of two checkpoints stored in one second a rollback takes the older
  (`manager.rs:1426` over rows read newest first); `UndoneMeansUndone` excepts a
  second in which two runs captured.
- A plugin named twice (`--plugin ssh,ssh`: the names are validated and kept as they
  are) is captured and applied twice. When a second passes between, the later
  checkpoint holds what the first apply wrote, and a rollback restores that:
  `FleetAssumption` has each plugin named once.
- An opener of the database whose `BEGIN IMMEDIATE` waits for more than its timeout is
  turned away (`Busy`), and `UpgradeIsWhole` does not count it among the refused.
- A dry run and a validation write nothing, and are taken to be the last of a
  behaviour.
- A checkpoint of an earlier release can be the latest and is then refused, the
  plugin being reported as failed.
- Two migrations that share the temporary file, one of which dies, can leave the
  key empty; `SignedKeyKept` excepts it. A death between creating the first private
  file and writing it leaves an empty key that no later start replaces.
- `rotate_key` has no caller outside tests and is left out.

Reports.
- A check is one unit: the wording, severity and evidence of a finding are left out,
  and a control's verdict is one of four.
- The posture claimed is that of a check when it was made: a host changed after its
  scan makes a report out of date, not unearned.
- STIG `OL08-00-010170` asks for SELinux and passes on an AppArmor host in enforce
  mode: its check, `selinux-not-enforcing`, finds nothing there.
- A registry that cannot be consulted would score a hundred for a framework without
  a catalogue; the program never builds one.

Desktop.
- The guard lives with the process: a child that outlives a closed application does
  not hold back the prompt of the next one.
- The latest scan is the one started last: a deep scan that waited at its prompt
  while a quick scan began and ended is superseded by it (`LatestScan`).
- A user database that exists and does not open is left out of the list without a
  word, as only the system's is reported; and a row of it that could not be deleted
  is answered as not found if the system database lacks it. `AnswersAreTrue` excepts
  both.
- The configuration is read at each scan; here it does not change between two.
- The saved hosts are one file, which `save_remote_host` and `delete_remote_host` read
  and write with an await between: two at once lose one. The remote and fleet commands
  of the desktop, its settings and schedules are not modelled.

Not modelled, each with its reason in `PROJECT.json`: the notification transports,
which format and try the network once; the systemd units, which are text; the
parsing of configuration; distribution detection and the shared types; and what the
desktop application has on its screen.
