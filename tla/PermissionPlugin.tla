--------------------------- MODULE PermissionPlugin ---------------------------
(***************************************************************************)
(* The file permissions plugin (crates/hardener-plugins/src/permissions).  *)
(* A mode is the set of its bits.  A directive is exact, or a mask of the  *)
(* bits a path may have, and an override may only take bits from it.       *)
(***************************************************************************)
EXTENDS Naturals, Sequences

CONSTANTS Paths,      \* CRITICAL_PERMISSIONS: a sequence
          Bits,
          MaxMask,    \* the paths whose directive is a mask
          Baseline,   \* each path's permission_mode
          Absent,     \* no path, no mode read, no checkpoint
          Hosts, Configs, MaxApplies, MaxChanges

Path == {Paths[i] : i \in DOMAIN Paths}
Mode == SUBSET Bits
Host == [mode : [Path -> Mode \cup {Absent}], fat : SUBSET Path, remote : BOOLEAN,
         saved : {Absent} \cup [Path -> Mode \cup {Absent}]]

PermissionsAssumption ==
    /\ Paths \in Seq(Path) /\ MaxMask \subseteq Path /\ Baseline \in [Path -> Mode]
    /\ Hosts \subseteq Host /\ \A mode \in Mode : mode # Absent

VARIABLES host,  \* mode: each path's bits, or Absent; fat: the paths on a
                 \* filesystem without modes; remote; saved: the checkpoint
          call, left

vars == <<host, call, left>>

\* A configuration overrides modes and excepts the exact mode of some paths.
Effective(config, p) ==
    IF config.override[p] # Absent /\ config.override[p] \subseteq Baseline[p]
    THEN config.override[p] ELSE Baseline[p]

Violates(p, directive, mode) ==
    IF p \in MaxMask THEN ~(mode \subseteq directive) ELSE mode # directive

\* Seeded fault: a mask is written as it stands.
TargetExact(p, directive, mode) == directive


Target(p, directive, mode) ==
    IF p \in MaxMask THEN mode \cap directive ELSE directive

Excepted(config, p, mode) == config.exception[p] # Absent /\ mode = config.exception[p]

\* Seeded fault: any exception documented for a path silences it.
FindingsByKey(config, h) ==
    {p \in Path : /\ h.mode[p] # Absent /\ p \notin h.fat
                  /\ Violates(p, Effective(config, p), h.mode[p])
                  /\ config.exception[p] = Absent}

\* What the scan finds and the dry run announces, of paths they can read.
Findings(config, h) ==
    {p \in Path : /\ h.mode[p] # Absent /\ p \notin h.fat
                  /\ Violates(p, Effective(config, p), h.mode[p])
                  /\ ~Excepted(config, p, h.mode[p])}

Idle == [pc |-> "idle", step |-> 0, result |-> "none", quiet |-> TRUE, ok |-> TRUE,
         config |-> Absent, mode |-> Absent, announced |-> {}, blind |-> {}]

P == Paths[call.step]
Directive == Effective(call.config, P)
NextPath(c) == [c EXCEPT !.pc = "observe", !.step = @ + 1, !.mode = Absent]
\* Seeded fault: a change that failed is not counted.
FailsQuietly == NextPath(call)


Fails == [NextPath(call) EXCEPT !.ok = FALSE]

Init ==
    /\ host \in Hosts
    /\ call = Idle
    /\ left = [applies |-> MaxApplies, changes |-> MaxChanges]

(***************************************************************************)
(* apply                                                                   *)
(***************************************************************************)

\* The checkpoint holds the modes alone.
Begin ==
    /\ call.pc = "idle" /\ left.applies > 0
    /\ left' = [left EXCEPT !.applies = @ - 1]
    /\ \E config \in Configs :
       \/ call' = [Idle EXCEPT !.result = "failed"] /\ UNCHANGED host
       \/ /\ host' = [host EXCEPT !.saved = host.mode]
          /\ call' = NextPath([Idle EXCEPT !.config = config,
                                           !.announced = Findings(config, host)])

\* The mode is read once, and every decision about the path is taken with
\* it; one that cannot be read matches no exception.
Observe ==
    /\ call.pc = "observe" /\ call.step \in DOMAIN Paths
    /\ \E mode \in {host.mode[P], Absent} :
          call' = IF mode # Absent /\ Excepted(call.config, P, mode)
                  THEN NextPath(call)
                  ELSE [call EXCEPT !.pc = "check", !.mode = mode,
                           !.blind = IF mode = Absent THEN @ \cup {P} ELSE @]
    /\ UNCHANGED <<host, left>>

\* apply_path_permissions.  Without a mode there is no target for a mask, and
\* an exact directive is written regardless.  A filesystem that cannot be
\* asked for is taken for one with modes.
Check ==
    /\ call.pc = "check"
    /\ \E asked \in BOOLEAN :
       call' \in {Fails,
          CASE host.mode[P] = Absent                                     -> NextPath(call)
            [] call.mode = Absent /\ P \in MaxMask                       -> NextPath(call)
            [] call.mode # Absent /\ ~Violates(P, Directive, call.mode)  -> NextPath(call)
            [] asked /\ P \in host.fat                                   -> NextPath(call)
            [] OTHER -> [call EXCEPT !.pc = "chmod"]}
    /\ UNCHANGED <<host, left>>

\* chmod(2) on a filesystem without modes changes none: here fchmod refuses,
\* and the command on a remote host may say it did.
Chmod ==
    /\ call.pc = "chmod"
    /\ LET target == Target(P, Directive, IF call.mode = Absent THEN {} ELSE call.mode) IN
       \/ call' = Fails /\ UNCHANGED host
       \/ /\ host.mode[P] # Absent /\ (host.remote \/ P \notin host.fat)
          /\ host' = IF P \in host.fat THEN host ELSE [host EXCEPT !.mode[P] = target]
          /\ call' = IF host.remote THEN [call EXCEPT !.pc = "verify"] ELSE NextPath(call)
    /\ UNCHANGED left

\* Only a remote chmod is read back.
Verify ==
    /\ call.pc = "verify"
    /\ \/ call' = Fails
       \/ /\ host.mode[P] # Absent /\ ~Violates(P, Directive, host.mode[P])
          /\ call' = NextPath(call)
    /\ UNCHANGED <<host, left>>

Finish ==
    /\ call.pc = "observe" /\ call.step \notin DOMAIN Paths
    /\ call' = [call EXCEPT !.pc = "idle", !.result = IF call.ok THEN "success" ELSE "failed"]
    /\ UNCHANGED <<host, left>>

\* The modes are put back on the paths that are there.
Rollback ==
    /\ call.pc = "idle" /\ host.saved # Absent
    /\ host' = [host EXCEPT !.mode = [p \in Path |->
                    IF @[p] = Absent \/ p \in host.fat THEN @[p] ELSE host.saved[p]]]
    /\ call' = [Idle EXCEPT !.result = "undone"]
    /\ UNCHANGED left

Dies ==
    /\ call.pc # "idle"
    /\ call' = [Idle EXCEPT !.result = "died"]
    /\ UNCHANGED <<host, left>>

\* An administrator or a package changes a mode, or removes a path.
Others ==
    /\ left.changes > 0
    /\ left' = [left EXCEPT !.changes = @ - 1]
    /\ \E p \in Path \ host.fat, mode \in Mode \cup {Absent} :
          host' = [host EXCEPT !.mode[p] = mode]
    /\ call' = [call EXCEPT !.quiet = FALSE]

Next == \/ Begin \/ Observe \/ Check \/ Chmod \/ Verify \/ Finish \/ Rollback
        \/ Dies \/ Others

(***************************************************************************)
(* Properties.                                                             *)
(***************************************************************************)

TypeOK ==
    /\ call.pc \in {"idle", "observe", "check", "chmod", "verify"}
    /\ \A p \in Path : host.mode[p] \in Mode \cup {Absent}

\* An apply that reports success leaves no path the next scan finds, but for
\* one it could not read.
SuccessMeansClean ==
    (call.result = "success" /\ call.quiet) => Findings(call.config, host) \subseteq call.blind

\* It changes no mode the dry run of that moment did not announce, but for a
\* path it could not read.
PreviewIsHonest ==
    \A p \in Path :
       (call.pc # "idle" /\ call'.quiet /\ host'.mode[p] # host.mode[p]) =>
           p \in call.announced \cup call.blind

\* A mask only ever takes bits away: /etc/shadow at 0000 stays there.
MaskNeverAdds ==
    \A p \in MaxMask :
       (call.pc # "idle" /\ call'.quiet /\ host.mode[p] # Absent) =>
           host'.mode[p] \subseteq host.mode[p]
=============================================================================
