----------------------------- MODULE ServicePlugin -----------------------------
(***************************************************************************)
(* The service minimisation plugin (crates/hardener-plugins/src/services): *)
(* of a list of units an apply stops, disables and masks those installed   *)
(* that run or would start; a rollback restores the links below            *)
(* /etc/systemd/system and starts nothing.                                 *)
(*                                                                         *)
(* A unit is a record: whether it is installed and runs, whether its file  *)
(* is enabled, static or disabled, and what its slot in the directory      *)
(* holds: nothing, the mask link, or an administrator's override.          *)
(***************************************************************************)
EXTENDS Naturals, Sequences

CONSTANTS Services,  \* UNNECESSARY_SERVICES: a sequence
          Absent,    \* no checkpoint
          Hosts, Configs, MaxApplies, MaxChanges

Service == {Services[i] : i \in DOMAIN Services}

Unit == [installed : BOOLEAN, active : BOOLEAN, file : {"enabled", "static", "disabled"},
         slot : {"none", "mask", "override"}]
Checkpoint == [unit : [Service -> Unit], declared : SUBSET Service, quiet : BOOLEAN]
Host == [unit : [Service -> Unit], saved : {Absent} \cup Checkpoint]

ServicesAssumption ==
    /\ Services \in Seq(Service) /\ Configs \subseteq SUBSET Service
    /\ Absent \notin Checkpoint
    /\ Hosts \subseteq Host /\ \A h \in Hosts : h.saved = Absent

VARIABLES host,  \* unit: the units; saved: the checkpoint, and whether nobody
                 \* else has changed the host since
          call, left

vars == <<host, call, left>>

\* What `is-enabled` prints, and the words for which it exits with zero: the
\* states list-unit-files shows for a unit that can be started.
Word(u)    == IF u.slot = "mask" THEN "masked" ELSE u.file
Enabled(u) == u.installed /\ Word(u) \in {"enabled", "static"}

\* scan: installed, and enabled or active.
Findings(config, h) ==
    {s \in Service : /\ h.unit[s].installed
                     /\ (Enabled(h.unit[s]) \/ h.unit[s].active)
                     /\ s \notin config}

(***************************************************************************)
(* apply.  A configuration is the set of services it excepts.  A probe     *)
(* that cannot be run reads as no: the services it was asked of are in     *)
(* `blind`; those others have started since it began are in `started`.     *)
(***************************************************************************)

Idle == [pc |-> "idle", step |-> 0, result |-> "none", quiet |-> TRUE, ok |-> TRUE,
         config |-> {}, todo |-> {}, blind |-> {}, started |-> {}, on |-> FALSE]

NextUnit == [call EXCEPT !.pc = "probe", !.step = @ + 1]
Goto(pc) == [call EXCEPT !.pc = pc]

Init ==
    /\ host \in Hosts
    /\ call = Idle
    /\ left = [applies |-> MaxApplies, changes |-> MaxChanges]

\* The installed units are listed once, and their mask links named to the
\* checkpoint, which also takes what the directory holds already.
Begin ==
    /\ call.pc = "idle" /\ left.applies > 0
    /\ left' = [left EXCEPT !.applies = @ - 1]
    /\ \E config \in Configs, blind \in SUBSET Service :
       LET seen == {s \in Service \ blind : host.unit[s].installed} IN
       \/ call' = [Idle EXCEPT !.result = "failed"] /\ UNCHANGED host
       \/ /\ call' = [Idle EXCEPT !.pc = "probe", !.step = 1, !.config = config,
                                  !.todo = seen, !.blind = blind]
          /\ host' = [host EXCEPT !.saved =
                [unit |-> host.unit, declared |-> seen, quiet |-> TRUE]]

\* Nothing is done for a service excepted, or neither enabled nor active.
Probe ==
    /\ call.pc = "probe" /\ call.step \in DOMAIN Services
    /\ LET s == Services[call.step]
           u == host.unit[s]
       IN
       \/ s \notin call.todo \ call.config /\ call' = NextUnit
       \/ /\ s \in call.todo \ call.config
          /\ \E on \in {Enabled(u), FALSE}, runs \in {u.active, FALSE} :
             LET c == [call EXCEPT !.on = on,
                          !.blind = IF on # Enabled(u) \/ runs # u.active THEN @ \cup {s} ELSE @]
             IN call' = CASE runs -> [c EXCEPT !.pc = "stop"]
                          [] on /\ ~runs -> [c EXCEPT !.pc = "disable"]
                          [] OTHER -> [c EXCEPT !.step = @ + 1]
    /\ UNCHANGED <<host, left>>

\* Seeded faults: a service that will not stop is not reported, or is masked.
StopUnreported ==
    /\ call.pc = "stop"
    /\ \/ /\ host' = [host EXCEPT !.unit[Services[call.step]].active = FALSE]
          /\ call' = Goto(IF call.on THEN "disable" ELSE "mask")
       \/ UNCHANGED host /\ call' = NextUnit
    /\ UNCHANGED left
StopPressesOn ==
    /\ call.pc = "stop"
    /\ \/ /\ host' = [host EXCEPT !.unit[Services[call.step]].active = FALSE]
          /\ call' = Goto(IF call.on THEN "disable" ELSE "mask")
       \/ UNCHANGED host /\ call' = [Goto("mask") EXCEPT !.ok = FALSE]
    /\ UNCHANGED left

\* A service that will not stop is neither disabled nor masked.
Stop ==
    /\ call.pc = "stop"
    /\ \/ /\ host' = [host EXCEPT !.unit[Services[call.step]].active = FALSE]
          /\ call' = Goto(IF call.on THEN "disable" ELSE "mask")
       \/ UNCHANGED host /\ call' = [NextUnit EXCEPT !.ok = FALSE]
    /\ UNCHANGED left

\* A unit with nothing to disable is disabled all the same.
Disable ==
    /\ call.pc = "disable"
    /\ \/ /\ host' = [host EXCEPT !.unit[Services[call.step]].file =
                         IF @ = "enabled" THEN "disabled" ELSE @]
          /\ call' = Goto("mask")
       \/ UNCHANGED host /\ call' = [Goto("mask") EXCEPT !.ok = FALSE]
    /\ UNCHANGED left

\* The link cannot be made where an administrator's file is.
Mask ==
    /\ call.pc = "mask"
    /\ \/ /\ host.unit[Services[call.step]].slot # "override"
          /\ host' = [host EXCEPT !.unit[Services[call.step]].slot = "mask"]
          /\ call' = NextUnit
       \/ UNCHANGED host /\ call' = [NextUnit EXCEPT !.ok = FALSE]
    /\ UNCHANGED left

Finish ==
    /\ call.pc = "probe" /\ call.step \notin DOMAIN Services
    /\ call' = [Goto("idle") EXCEPT !.result = IF call.ok THEN "success" ELSE "failed"]
    /\ UNCHANGED <<host, left>>

(***************************************************************************)
(* rollback.                                                               *)
(***************************************************************************)

\* Seeded fault: a link that was not there is left.
RestoredLinks(h, s) ==
    LET was == h.saved.unit[s] IN
    [h.unit[s] EXCEPT
        !.file = IF was.file = "enabled" THEN "enabled" ELSE @,
        !.slot = IF was.slot = "none" THEN @ ELSE was.slot]

\* The links captured are put back; of those that were not there, the ones
\* declared are removed.
Restored(h, s) ==
    LET was == h.saved.unit[s] IN
    [h.unit[s] EXCEPT
        !.file = IF was.file = "enabled" THEN "enabled" ELSE @,
        !.slot = IF was.slot = "none" /\ s \notin h.saved.declared THEN @ ELSE was.slot]

Rollback ==
    /\ call.pc = "idle" /\ host.saved # Absent
    /\ host' = [host EXCEPT !.unit = [s \in Service |-> Restored(host, s)]]
    /\ \E reloaded \in BOOLEAN :
          call' = [Idle EXCEPT !.result = IF reloaded THEN "undone" ELSE "undone_not_reloaded"]
    /\ UNCHANGED left

\* Seeded fault: only a unit that runs is asked about.
DivergenceOfRunning(u) ==
    IF Word(u) \in {"disabled", "masked"} /\ u.active THEN "diverged" ELSE "silent"

\* service_divergences, of an installed unit: enablement and activity are
\* compared where the unit has an enablement to compare.
Divergence(u) ==
    CASE Word(u) = "static"                     -> "unverifiable"
      [] Word(u) = "enabled" /\ ~u.active       -> "diverged"
      [] Word(u) \in {"disabled", "masked"} /\ u.active -> "diverged"
      [] OTHER                                  -> "silent"

Dies ==
    /\ call.pc # "idle"
    /\ call' = [Idle EXCEPT !.result = "died"]
    /\ UNCHANGED <<host, left>>

\* Another unit or an administrator starts one that is not masked; a package
\* is installed; an override is written; a boot.
Others ==
    /\ left.changes > 0
    /\ left' = [left EXCEPT !.changes = @ - 1]
    /\ \E s \in Service :
       LET u == host.unit[s]
           becomes(v) == [host EXCEPT !.unit[s] = v,
                             !.saved = IF @ = Absent THEN @ ELSE [@ EXCEPT !.quiet = FALSE]]
       IN
       \/ u.installed /\ u.slot # "mask" /\ host' = becomes([u EXCEPT !.active = TRUE])
       \/ ~u.installed /\ host' = becomes([u EXCEPT !.installed = TRUE, !.file = "enabled"])
       \/ u.slot = "none" /\ host' = becomes([u EXCEPT !.slot = "override"])
       \/ host' = becomes([u EXCEPT !.active = u.installed /\ Word(u) = "enabled"])
    /\ call' = [call EXCEPT !.quiet = FALSE,
                  !.started = @ \cup {s \in Service : host'.unit[s].active /\ ~host.unit[s].active}]

Next == \/ Begin \/ Probe \/ Stop \/ Disable \/ Mask \/ Finish \/ Rollback \/ Dies \/ Others

(***************************************************************************)
(* Properties.                                                             *)
(***************************************************************************)

TypeOK ==
    /\ call.pc \in {"idle", "probe", "stop", "disable", "mask"}
    /\ \A s \in Service : host.unit[s].slot \in {"none", "mask", "override"}

\* An apply that reports success leaves no finding but of a service it was
\* not told of: one excepted, or one systemctl would not speak about.
SuccessMeansMinimised ==
    (call.result = "success" /\ call.quiet) =>
        Findings(call.config, host) \subseteq call.blind

\* Whatever others do to the units between its commands, an apply masks nothing
\* that runs, but one they have started since it began and one systemctl would not
\* speak about: a service that would not stop is left such that the next scan and
\* the next apply see it.
NeverMasksRunning ==
    \A s \in Service :
       (/\ call.pc = "mask"
        /\ host.unit[s].slot # "mask" /\ host'.unit[s].slot = "mask") =>
           s \in call.blind \cup call.started \/ ~host.unit[s].active

\* A rollback with nobody between takes back every link the apply made or
\* removed.
UndoneMeansUndone ==
    (call.result = "undone" /\ call.quiet /\ host.saved.quiet) =>
        \A s \in Service :
            Word(host.unit[s]) = Word(host.saved.unit[s])
              /\ host.unit[s].slot = host.saved.unit[s].slot

\* It never starts a unit, and tells of every one that ran, and was to run,
\* before the apply and does not now.
LossIsTold ==
    (call.result = "undone" /\ call.quiet /\ host.saved.quiet) =>
        \A s \in Service :
            LET was == host.saved.unit[s] IN
            (was.installed /\ was.active /\ Word(was) = "enabled" /\ ~host.unit[s].active) =>
                Divergence(host.unit[s]) = "diverged"
=============================================================================
