-------------------------------- MODULE Parts --------------------------------
(***************************************************************************)
(* The hardening plugins, and the parts around them that are modelled by   *)
(* themselves: the order they run in, the fleet commands, the signing key, *)
(* the opening of the database, the compliance report and the desktop.     *)
(* Their states have nothing in common, and a behaviour is one part's,     *)
(* named by `part`.  Some parts are taken with their theorems.             *)
(***************************************************************************)
EXTENDS Hardening

CONSTANTS Torn, Machine,
          ActiveParts, \* the parts a behaviour may be of
          \* For each part, the values of the constants that are its own.
          OrderParams, KeyParams, DatabaseParams, FleetParams, PostureParams, DesktopParams

VARIABLES part,
          writer,                    \* of the database
          clock, task, last          \* of the fleet

aside == <<clock, task, last>>
vars == <<part, host, call, left, writer, aside>>

Order == INSTANCE PluginManager
  WITH needs <- host, manager <- call, asked <- left, Plugin <- OrderParams.Plugin,
       Unknown <- OrderParams.Unknown

Key == INSTANCE SigningKeyProofs
  WITH disk <- host, proc <- call, past <- left, MaxFaults <- KeyParams.MaxFaults

Database == INSTANCE Database
  WITH file <- host, opener <- call, past <- left, Migrations <- DatabaseParams.Migrations,
       Schema <- DatabaseParams.Schema, Earlier <- DatabaseParams.Earlier,
       MaxFaults <- DatabaseParams.MaxFaults

Fleet == INSTANCE FleetProofs
  WITH db <- call, run <- left, Account <- FleetParams.Account,
       AssumedUser <- FleetParams.AssumedUser, SshUser <- FleetParams.SshUser,
       Requests <- FleetParams.Requests, Stored <- FleetParams.Stored,
       Registry <- FleetParams.Registry, Concurrency <- FleetParams.Concurrency,
       MaxRuns <- FleetParams.MaxRuns, MaxTicks <- FleetParams.MaxTicks

Posture == INSTANCE Posture
  WITH Clean <- PostureParams.Clean, Today <- PostureParams.Today,
       MaxChanges <- PostureParams.MaxChanges, Hosts <- PostureParams.Hosts,
       Selections <- PostureParams.Selections, Requests <- PostureParams.Requests

Desktop == INSTANCE DesktopProofs
  WITH app <- host, book <- left, Command <- DesktopParams.Command,
       Plugin <- DesktopParams.Plugin, Selections <- DesktopParams.Selections,
       Id <- DesktopParams.Id, Cooldown <- DesktopParams.Cooldown,
       MaxScans <- DesktopParams.MaxScans, MaxTicks <- DesktopParams.MaxTicks,
       MaxFaults <- DesktopParams.MaxFaults, Books <- DesktopParams.Books

\* The parts there are.
Part == {"ssh", "kernel", "pam", "audit", "firewall", "services", "mac", "permissions",
         "order", "key", "database", "fleet", "posture", "desktop"}

\* What the theorems about these modules take of their constants.
ASSUME PartsAssumption ==
    /\ ActiveParts \subseteq Part
    /\ Key!KeyAssumption /\ Database!DatabaseAssumption /\ Fleet!FleetAssumption
    /\ Desktop!DesktopAssumption /\ Order!OrderAssumption /\ Posture!PostureAssumption

Init ==
    /\ part \in ActiveParts
    /\ part # "fleet" => (clock = 0 /\ task = Absent /\ last = Absent)
    /\ part # "database" => writer = Absent
    /\ CASE part = "ssh" -> Ssh!Init
         [] part = "kernel" -> Kernel!Init
         [] part = "pam" -> Pam!Init
         [] part = "audit" -> Audit!Init
         [] part = "firewall" -> Firewall!Init
         [] part = "services" -> Serv!Init
         [] part = "mac" -> Mac!Init
         [] part = "permissions" -> Perm!Init
         [] part = "order" -> Order!Init
         [] part = "key" -> Key!Init
         [] part = "database" -> Database!Init
         [] part = "fleet" -> Fleet!Init
         [] part = "posture" -> Posture!Init
         [] part = "desktop" -> Desktop!Init

Next ==
    /\ UNCHANGED part
    /\ part # "fleet" => UNCHANGED aside
    /\ part # "database" => UNCHANGED writer
    /\ \/ part = "ssh" /\ Ssh!Next
       \/ part = "kernel" /\ Kernel!Next
       \/ part = "pam" /\ Pam!Next
       \/ part = "audit" /\ Audit!Next
       \/ part = "firewall" /\ Firewall!Next
       \/ part = "services" /\ Serv!Next
       \/ part = "mac" /\ Mac!Next
       \/ part = "permissions" /\ Perm!Next
       \/ part = "order" /\ Order!Next
       \/ part = "key" /\ Key!Next
       \/ part = "database" /\ Database!Next
       \/ part = "fleet" /\ Fleet!Next
       \/ part = "posture" /\ Posture!Next
       \/ part = "desktop" /\ Desktop!Next

Spec == Init /\ [][Next]_vars

(***************************************************************************)
(* The properties of the parts.                                            *)
(***************************************************************************)

\* The state every part keeps has its shape, whoever else writes the host.
TypeOK ==
    CASE part = "ssh" -> Ssh!TypeOK
      [] part = "kernel" -> Kernel!TypeOK
      [] part = "pam" -> Pam!TypeOK
      [] part = "audit" -> Audit!TypeOK
      [] part = "firewall" -> Firewall!TypeOK
      [] part = "services" -> Serv!TypeOK
      [] part = "mac" -> Mac!TypeOK
      [] part = "permissions" -> Perm!TypeOK
      [] part = "order" -> Order!TypeOK
      [] part = "key" -> Key!TypeOK
      [] part = "database" -> Database!TypeOK
      [] part = "fleet" -> Fleet!TypeOK
      [] part = "posture" -> Posture!TypeOK
      [] part = "desktop" -> Desktop!TypeOK

\* What each plugin promises of an apply it reports as a success, of a host nobody
\* else, another apply included, has changed since it began.  ssh: no directive sshd
\* obeys is insecure, but those reported as skipped and those of `Unasked`; the same
\* of the files, where it reports that there was nothing to do.  pam: nothing to find
\* but what nothing asks the file for, and the drift of layers there was before it.
\* audit: no rule missing after a boot.  services: none left of those systemctl spoke
\* about.  mac: the running mode enforces.  permissions: no path to find.  kernel: a
\* parameter the next boot brings another value for is one a scan reports, whoever
\* wrote meanwhile.  firewall: the default asked for is kept, no rule at odds with
\* it is left, and what was written runs.
SuccessIsEarned ==
    CASE part = "ssh" -> Ssh!SuccessMeansHardened /\ Ssh!NoopMeansCompliant
      [] part = "kernel" -> Kernel!HardeningSurvivesBoot
      [] part = "pam" -> Pam!SuccessMeansHardened
      [] part = "audit" -> Audit!SuccessMeansAudited
      [] part = "firewall" -> Firewall!SuccessMeansKept
      [] part = "services" -> Serv!SuccessMeansMinimised
      [] part = "mac" -> Mac!SuccessMeansEnforcing
      [] part = "permissions" -> Perm!SuccessMeansClean
      [] OTHER -> TRUE

\* No step of an apply, on a host nobody else has changed since it began, leaves
\* weaker what it found: no directive of sshd that complied, but those skipped and
\* those a failed write of the main file strands (`Stranded`); no running or persisted
\* kernel parameter; no pam value in force; no mode a mask is to tighten.  A
\* rollback lowers the MAC mode only on the word of the file it restored, and stops no
\* firewall but the table this tool loaded.
NeverLoosens ==
  [][CASE part = "ssh" -> Ssh!KeepsCompliance
       [] part = "kernel" -> Kernel!NeverLoosens
       [] part = "pam" -> Pam!NeverLoosens
       [] part = "mac" -> Mac!NeverLoosensOnAGuess
       [] part = "permissions" -> Perm!MaskNeverAdds
       [] part = "firewall" -> Firewall!UndoNeverOpens
       [] OTHER -> TRUE]_vars

\* An apply changes nothing that the dry run of the same host did not announce.
PreviewIsHonest ==
  [][CASE part = "pam" -> Pam!PreviewIsHonest
       [] part = "audit" -> Audit!PreviewIsHonest
       [] part = "permissions" -> Perm!PreviewIsHonest
       [] OTHER -> TRUE]_vars

\* A rollback that reports success has put back the files and reloaded them, and
\* leaves nothing the apply made; one of a fleet has taken back, on each host it
\* reports, the last apply of the fleet.
UndoneMeansUndone ==
    CASE part = "audit" -> Audit!UndoneMeansUndone
      [] part = "firewall" -> Firewall!UndoneMeansUndone
      [] part = "services" -> Serv!UndoneMeansUndone
      [] part = "mac" -> Mac!UndoneMeansRestored
      [] part = "fleet" -> Fleet!UndoRestoresTheFleet
      [] OTHER -> TRUE

\* What a rollback says of the running system it did not put back is true: each
\* kernel parameter it reports as diverged is, one it says nothing about runs
\* what the boot brings, and every service that ran and does not now is told.
DivergencesAreTrue ==
    CASE part = "kernel" -> Kernel!DivergedIsReal /\ Kernel!SilenceIsEarned
      [] part = "services" -> Serv!LossIsTold
      [] OTHER -> TRUE

\* On a remote root session the root login is never closed (apply.rs: "the
\* PermitRootLogin target is downgraded so the apply cannot sever its own
\* access").
SshNeverLocksItselfOut == [][part = "ssh" => Ssh!NeverLocksItselfOut]_vars

\* A pam apply hides no value the vendor layer sets below the file it creates.
PamVendorSurvives == [][part = "pam" => Pam!VendorSurvives]_vars

\* An audit apply that succeeds unloads nothing but what its configuration excepts;
\* one that fails or dies, no rule that was loaded from the files, unless it has
\* flushed the kernel to load them anew (audit/mod.rs: "previously loaded audit rules
\* are still active").
AuditNothingUnloaded == part = "audit" => Audit!NothingUnloaded

\* A firewall apply that succeeds leaves admitted the ssh session it came through,
\* where the rule of the session is the one that was there to be kept.
FirewallSessionSurvives == part = "firewall" => Firewall!SessionSurvives

\* A services apply masks nothing that still runs, but what others have started
\* under it and what systemctl would not speak about.
ServicesNeverMasksRunning == [][part = "services" => Serv!NeverMasksRunning]_vars

\* A registry of plugins is refused only where it has no order, and an execution
\* brings one result of every plugin asked for, dependencies first.
PluginOrderIsSound == part = "order" => Order!OrderIsSound

\* A host has one signing key, whoever generated it, and a key that has signed
\* is not lost to its own migration.
KeyIsKept == part = "key" => (Key!OneKey /\ Key!SignedKeyKept)

\* A compliance report passes a control only on checks that were made and held,
\* or whose deviation is documented, or of which its scan says nothing (`Unsaid`).
PostureIsEarned == part = "posture" => Posture!PostureIsEarned

\* The desktop raises one prompt at a time, leaves no scan session behind, and
\* answers what is so of its checkpoints and of the scan a report rests on.
DesktopKeepsItsWord == [][part = "desktop" => Desktop!KeepsItsWord]_vars

\* A database carries all of an upgrade or nothing of it, and the upgrade of one
\* process does not fail on what another has added; that a process may be turned
\* away while another holds the lock is left aside.
UpgradeIsWhole == part = "database" => Database!UpgradeIsWhole

\* The exit code of a fleet command covers every host that was selected.
FleetCodeCoversEveryHost == part = "fleet" => Fleet!CodeCoversEveryHost

\* A fleet apply or validation that ends with 0 had no plugin that failed
\* (batch.rs: "0 = all clean, 1 = an apply/validation failure").
FleetZeroMeansAllClean == part = "fleet" => Fleet!ZeroMeansAllClean
=============================================================================
