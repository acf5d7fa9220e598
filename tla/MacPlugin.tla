------------------------------ MODULE MacPlugin ------------------------------
(***************************************************************************)
(* The mandatory access control plugin (crates/hardener-plugins/src/mac).  *)
(* An apply switches a running SELinux to enforcing and never touches its  *)
(* configuration; a rollback restores the configuration and switches the   *)
(* running mode to what the restored file says, or reloads AppArmor.       *)
(***************************************************************************)
EXTENDS Naturals

CONSTANTS Absent,   \* no file, no checkpoint
          Hosts, MaxApplies, MaxChanges

Mode   == {"enforcing", "permissive"}
Config == Mode \cup {"disabled", "nameless", "none"}
Host   == [system : {"selinux", "apparmor", "none"}, config : Config, mode : Mode,
           profiles : BOOLEAN, saved : {Absent} \cup Config]

MacAssumption == Absent \notin Mode /\ Hosts \subseteq Host

VARIABLES host,  \* system: what is loaded; config: SELINUX= of the file, or
                 \* "nameless" without one; mode: the running mode; profiles:
                 \* whether AppArmor's are those of the disk; saved: the
                 \* checkpoint's config
          call, left

vars == <<host, call, left>>

Detect == {host.system, "indeterminate"}

\* Seeded fault: a file that names no mode is one that is not enforcing.
ModeArgumentDefaulted(config) == IF config = "enforcing" THEN "enforcing" ELSE "permissive"

\* selinux_mode_argument: the mode the kernel comes to; Absent, that the file
\* does not say.
ModeArgument(config) ==
    CASE config = "nameless"  -> Absent
      [] config = "enforcing" -> "enforcing"
      [] OTHER                -> "permissive"

Idle == [pc |-> "idle", result |-> "none", quiet |-> TRUE, excepted |-> FALSE, mode |-> Absent]

Ends(result) == [call EXCEPT !.pc = "idle", !.result = result]

Init ==
    /\ host \in Hosts
    /\ call = Idle
    /\ left = [applies |-> MaxApplies, changes |-> MaxChanges]

(***************************************************************************)
(* apply                                                                   *)
(***************************************************************************)

\* The checkpoint is taken whatever runs here.  Nothing is changed on a host
\* without a system, under AppArmor, or where it cannot be told.
Begin ==
    /\ call.pc = "idle" /\ left.applies > 0
    /\ left' = [left EXCEPT !.applies = @ - 1]
    /\ \E excepted \in BOOLEAN, found \in Detect :
       \/ call' = [Idle EXCEPT !.result = "failed"] /\ UNCHANGED host
       \/ /\ host' = [host EXCEPT !.saved = host.config]
          /\ LET c == [Idle EXCEPT !.excepted = excepted] IN
             call' = CASE found = "selinux" /\ ~excepted -> [c EXCEPT !.pc = "read"]
                       [] found = "indeterminate"        -> [c EXCEPT !.result = "failed"]
                       [] OTHER                          -> [c EXCEPT !.result = "success"]

\* set_selinux_enforcing: getenforce, and then setenforce.
Read ==
    /\ call.pc = "read"
    /\ call' \in {Ends("failed"),
                  IF host.mode = "enforcing" THEN Ends("success")
                  ELSE [call EXCEPT !.pc = "set"]}
    /\ UNCHANGED <<host, left>>

\* Seeded fault: setenforce is believed.
SetUnreported ==
    /\ call.pc = "set"
    /\ host' \in {host, [host EXCEPT !.mode = "enforcing"]}
    /\ call' = Ends("success")
    /\ UNCHANGED left


Set ==
    /\ call.pc = "set"
    /\ \/ host' = [host EXCEPT !.mode = "enforcing"] /\ call' = Ends("success")
       \/ UNCHANGED host /\ call' = Ends("failed")
    /\ UNCHANGED left

(***************************************************************************)
(* rollback, whose detection skips the reload only for a host seen to have *)
(* no system.                                                              *)
(***************************************************************************)

Rollback ==
    /\ call.pc = "idle" /\ host.saved # Absent
    /\ host' = [host EXCEPT !.config = host.saved]
    /\ \E found \in Detect :
          call' = [Idle EXCEPT !.pc = IF found = "none" THEN "idle" ELSE "restored",
                               !.result = IF found = "none" THEN "undone" ELSE "none"]
    /\ UNCHANGED left

\* Seeded fault: a file that cannot be read is taken for one that is not there.
RestoredModeUnread ==
    /\ call.pc = "restored"
    /\ \E unread \in BOOLEAN :
          call' = IF unread \/ host.config = "none" THEN [call EXCEPT !.pc = "reload"]
                  ELSE IF ModeArgument(host.config) = Absent THEN Ends("undone_running_mode_left_alone")
                  ELSE [call EXCEPT !.pc = "setenforce", !.mode = ModeArgument(host.config)]
    /\ UNCHANGED <<host, left>>

\* restored_selinux_mode: a file that cannot be read is not one that is not
\* there, and neither is one that names no mode.
RestoredMode ==
    /\ call.pc = "restored"
    /\ \E unread \in BOOLEAN :
       CASE unread \/ ModeArgument(host.config) = Absent ->
              call' = Ends("undone_running_mode_left_alone")
         [] ~unread /\ host.config = "none" ->
              call' = [call EXCEPT !.pc = "reload"]
         [] OTHER ->
              call' = [call EXCEPT !.pc = "setenforce", !.mode = ModeArgument(host.config)]
    /\ UNCHANGED <<host, left>>

\* A setenforce that fails has AppArmor reloaded, which is not a success.
Setenforce ==
    /\ call.pc = "setenforce"
    /\ \/ /\ host.system = "selinux"
          /\ host' = [host EXCEPT !.mode = call.mode]
          /\ call' = Ends("undone_SELinux")
       \/ UNCHANGED host /\ call' = [call EXCEPT !.pc = "reload"]
    /\ UNCHANGED left

Reload ==
    /\ call.pc = "reload"
    /\ \E reloads \in BOOLEAN :
         /\ reloads => host.system = "apparmor"
         /\ host' = IF reloads THEN [host EXCEPT !.profiles = TRUE] ELSE host
         /\ call' = Ends(IF reloads /\ call.mode = Absent THEN "undone_AppArmor"
                         ELSE "undone_not_reloaded")
    /\ UNCHANGED left

Dies ==
    /\ call.pc # "idle"
    /\ call' = [Idle EXCEPT !.result = "died"]
    /\ UNCHANGED <<host, left>>

\* An administrator sets the mode or edits the file, a policy's profiles are
\* installed, or the host boots into the mode its file names.
Others ==
    /\ left.changes > 0
    /\ left' = [left EXCEPT !.changes = @ - 1]
    /\ call' = [call EXCEPT !.quiet = FALSE]
    /\ \/ /\ host.system = "selinux"
          /\ host' \in {[host EXCEPT !.mode = m] : m \in {"enforcing", "permissive"}}
                         \cup {[host EXCEPT !.config = c] :
                                c \in {"enforcing", "permissive", "nameless", "none"}}
       \/ host.system = "apparmor" /\ host' = [host EXCEPT !.profiles = FALSE]
       \/ /\ host.system = "selinux" /\ ModeArgument(host.config) # Absent
          /\ host' = [host EXCEPT !.mode = ModeArgument(host.config)]

Next == \/ Begin \/ Read \/ Set \/ Rollback \/ RestoredMode \/ Setenforce \/ Reload
        \/ Dies \/ Others

(***************************************************************************)
(* Properties.                                                             *)
(***************************************************************************)

TypeOK ==
    /\ host.mode \in {"enforcing", "permissive"}
    /\ call.pc \in {"idle", "read", "set", "restored", "setenforce", "reload"}

\* An apply that reports success on a host that runs SELinux leaves it
\* enforcing, unless the configuration excepts it.
SuccessMeansEnforcing ==
    (call.result = "success" /\ call.quiet /\ host.system = "selinux" /\ ~call.excepted) =>
        host.mode = "enforcing"

\* A rollback that says which system it brought back is right about it: the
\* running mode is the one the restored file names, and AppArmor is named
\* only where no SELinux file was restored.
UndoneMeansRestored ==
    call.quiet =>
        /\ (call.result = "undone_SELinux" => host.mode = ModeArgument(host.config))
        /\ (call.result = "undone_AppArmor" => host.config = "none" /\ host.profiles)

\* Enforcement is never lowered on a guess: only a rollback does, and the
\* file it restored names a mode that is not enforcing.
NeverLoosensOnAGuess ==
    (host.mode = "enforcing" /\ host'.mode = "permissive" /\ call'.quiet) =>
       host'.config \notin {"enforcing", "nameless", "none"}
=============================================================================
