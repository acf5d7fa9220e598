----------------------------- MODULE MCScanDaemon -----------------------------
(* A host, its daemon and the other writers: a finding that only a command  *)
(* records, since it is below the daemon's threshold, and a critical one.   *)
EXTENDS ScanDaemon

CONSTANTS here, c1, c2, once, other

MCSeverityOf == [f \in Finding |-> IF f = 1 THEN 2 ELSE 5]
MCPluginOf == [f \in Finding |-> IF f = 1 THEN "kernel" ELSE "ssh"]

\* A completed scan of an earlier run that found what there was.
Earlier(truth) ==
  [host |-> here, start |-> 0, status |-> "completed", counts |-> Counts(truth),
   rows |-> truth, told |-> "none", truth |-> truth, whole |-> TRUE]

\* Two of one second, of which the rowid tells the newer: the host got worse.
TwoOfOneSecond == <<Earlier({}), Earlier({2})>>

NoneYet == <<>>
==============================================================================
