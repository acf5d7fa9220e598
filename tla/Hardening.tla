------------------------------ MODULE Hardening ------------------------------
(***************************************************************************)
(* The eight hardening plugins on one host, each with the values of the    *)
(* constants that are its own.  Their states have nothing in common: what  *)
(* is composed here is only their names.                                   *)
(***************************************************************************)
EXTENDS Policy, FiniteSets

CONSTANTS Unset, Absent, Sessions, Process,
          SshParams, KernelParams, PamParams, AuditParams, FirewallParams,
          ServParams, MacParams, PermParams

VARIABLES host, call, left

Ssh == INSTANCE SshPlugin
  WITH MaxApplies <- SshParams.MaxApplies, MaxChanges <- SshParams.MaxChanges,
       Directive <- SshParams.Directive, Crypto <- SshParams.Crypto,
       Compare <- SshParams.Compare, Baseline <- SshParams.Baseline,
       RootLogin <- SshParams.RootLogin, No <- SshParams.No, Safe <- SshParams.Safe,
       Desired <- SshParams.Desired, Supported <- SshParams.Supported,
       Fragments <- SshParams.Fragments, Ours <- SshParams.Ours, Mains <- SshParams.Mains,
       Theirs <- SshParams.Theirs, Configs <- SshParams.Configs

Kernel == INSTANCE KernelPlugin
  WITH MaxApplies <- KernelParams.MaxApplies, MaxChanges <- KernelParams.MaxChanges,
       Params <- KernelParams.Params, Compare <- KernelParams.Compare,
       Baseline <- KernelParams.Baseline, Value <- KernelParams.Value,
       Default <- KernelParams.Default,
       Names <- KernelParams.Names, Ours <- KernelParams.Ours, Files <- KernelParams.Files,
       Kernels <- KernelParams.Kernels, Configs <- KernelParams.Configs

Pam == INSTANCE PamPlugin
  WITH MaxApplies <- PamParams.MaxApplies, MaxChanges <- PamParams.MaxChanges,
       Rewritten <- PamParams.Rewritten, Lockout <- PamParams.Lockout,
       Unmoduled <- PamParams.Unmoduled, FileOf <- PamParams.FileOf,
       OtherKeys <- PamParams.OtherKeys, Compare <- PamParams.Compare,
       Baseline <- PamParams.Baseline, Value <- PamParams.Value, Hosts <- PamParams.Hosts,
       Edits <- PamParams.Edits, Configs <- PamParams.Configs

Audit == INSTANCE AuditRules
  WITH MaxApplies <- AuditParams.MaxApplies, MaxChanges <- AuditParams.MaxChanges,
       Category <- AuditParams.Category, Versions <- AuditParams.Versions,
       Current <- AuditParams.Current, Hosts <- AuditParams.Hosts,
       Foreign <- AuditParams.Foreign, Configs <- AuditParams.Configs

Firewall == INSTANCE FirewallPlugin
  WITH MaxApplies <- FirewallParams.MaxApplies, MaxChanges <- FirewallParams.MaxChanges,
       Rules <- FirewallParams.Rules, Baseline <- FirewallParams.Baseline,
       Traffic <- FirewallParams.Traffic, Port <- FirewallParams.Port,
       Sessions <- FirewallParams.Sessions, SshRule <- FirewallParams.SshRule,
       DropRule <- FirewallParams.DropRule, Implicit <- FirewallParams.Implicit,
       Hosts <- FirewallParams.Hosts, Configs <- FirewallParams.Configs

Serv == INSTANCE ServicePlugin
  WITH MaxApplies <- ServParams.MaxApplies, MaxChanges <- ServParams.MaxChanges,
       Services <- ServParams.Services, Hosts <- ServParams.Hosts,
       Configs <- ServParams.Configs

Mac == INSTANCE MacPlugin
  WITH MaxApplies <- MacParams.MaxApplies, MaxChanges <- MacParams.MaxChanges,
       Hosts <- MacParams.Hosts

Perm == INSTANCE PermissionPlugin
  WITH MaxApplies <- PermParams.MaxApplies, MaxChanges <- PermParams.MaxChanges,
       Paths <- PermParams.Paths, Bits <- PermParams.Bits, MaxMask <- PermParams.MaxMask,
       Baseline <- PermParams.Baseline, Hosts <- PermParams.Hosts,
       Configs <- PermParams.Configs

\* What the theorems about the plugins take of their constants.
ASSUME HardeningAssumption ==
    Ssh!SshAssumption /\ Kernel!KernelAssumption /\ Pam!PamAssumption
    /\ Audit!RulesAssumption /\ Firewall!FirewallAssumption /\ Serv!ServicesAssumption
    /\ Mac!MacAssumption /\ Perm!PermissionsAssumption
=============================================================================
