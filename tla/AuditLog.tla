------------------------------- MODULE AuditLog -------------------------------
(***************************************************************************)
(* AuditLogger (crates/hardener-state/src/audit.rs) over its HashChain      *)
(* (hash_chain.rs), and the two ways the program comes to write an entry: a *)
(* command that reports its result through log_action, and a configuration  *)
(* write whose descriptor files it (WriteAudit::record in                   *)
(* crates/hardener-core/src/config_write.rs).                               *)
(*                                                                          *)
(* A process opens the log, recovers the chain from what it reads there     *)
(* once, and from then on chains every entry to the one it last wrote       *)
(* itself.  Writers inside one process take turns under its lock, so an     *)
(* entry is one step; processes take no lock at all.                        *)
(*                                                                          *)
(* SHA-256 is taken to be injective: a hash is the list of everything it    *)
(* covers, the previous hash first.                                         *)
(***************************************************************************)
EXTENDS Naturals, Sequences

CONSTANTS
  Process,
  Text,        \* what an error message or a detail may say
  NoText,
  Concurrent,  \* whether two processes may have the log open at once
  Failures,    \* what a failed or cut-off write may leave in the file
  Edits,       \* bound: changes made to the file by anything else
  MaxActs      \* bound: acts ever performed

ASSUME AuditAssumption ==
  /\ Concurrent \in BOOLEAN
  /\ NoText \notin Text
  /\ Failures \subseteq {"nothing", "cut", "bytes", "whole"}
  /\ Edits \in Nat /\ MaxActs \in Nat

VARIABLES
  log,      \* the lines of the file
  torn,     \* whether its last line lacks its newline
  proc,     \* process |-> its logger and what it is about to file
  acts,     \* everything done so far and what became of its entry (history)
  genuine,  \* the lines the program wrote, cut where the file was (history)
  edits,    \* how often anything else changed the file (history)
  forged    \* the hashes anything else computed (history)

vars == <<log, torn, proc, acts, genuine, edits, forged>>

Result == {"Success", "Failure"}

\* What the hash of an entry covers.
Covered == [act : 0 .. MaxActs, result : Result, error : Text \cup {NoText},
            other : Text \cup {NoText}]

Hash == Seq(Covered)

Genesis == <<>>

\* A line of the file.  One that does not parse is "cut", and "bytes" when it
\* is not even text: a multi-byte character cut in two.  An entry is of an act,
\* which stands for what is done, by whom and in which second, and `fraction`
\* says whether its time still has the fraction of a second it was written with.
Line == [form : {"entry", "cut", "bytes"}, act : 0 .. MaxActs, result : Result,
         fraction : BOOLEAN, error : Text \cup {NoText},
         other : Text \cup {NoText}, hash : Hash]

Proc == [pc : {"closed", "ready", "report"}, previous : Hash]

\* An act, by a command or a configuration write, and the fate of its entry:
\* acknowledged, refused by the logger, or an error or a death on the way.
Act == [via : {"command", "config"}, result : Result, text : Text,
        by : Process, fate : {"pending", "acked", "refused", "lost"}]

\* Every variable has its type.
TypeOK ==
  /\ log \in Seq(Line)
  /\ torn \in BOOLEAN
  /\ proc \in [Process -> Proc]
  /\ acts \in Seq(Act)
  /\ genuine \in Seq(Line)
  /\ edits \in Nat
  /\ forged \subseteq Hash

Init ==
  /\ log = <<>> /\ torn = FALSE
  /\ proc = [p \in Process |-> [pc |-> "closed", previous |-> Genesis]]
  /\ acts = <<>> /\ genuine = <<>> /\ edits = 0 /\ forged = {}

------------------------------------------------------------------------------
(* Entries, their hashes, and what a reader makes of the file. *)

(***************************************************************************)
(* hashable for a success, and the six-tuple of log_failure: a failure      *)
(* covers its `error` detail alone.  Of the time, both cover the second.    *)
(***************************************************************************)
Covers(e) ==
  [act |-> e.act, result |-> e.result, error |-> e.error,
   other |-> IF e.result = "Failure" THEN NoText ELSE e.other]

\* HashChain::next_hash
NextHash(previous, e) == Append(previous, Covers(e))

Cut(form) == [form |-> form, act |-> 0, result |-> "Success", fraction |-> TRUE,
              error |-> NoText, other |-> NoText, hash |-> Genesis]

Parsed(lines) == {i \in DOMAIN lines : lines[i].form = "entry"}

\* Seeded fault: the chain starts again with every process.
RecoveredNever(lines) == Genesis

\* recover_chain: the hash of the last line that parses, but the genesis for a
\* file that is not text throughout.
Recovered(lines) ==
  IF Parsed(lines) = {} \/ \E i \in DOMAIN lines : lines[i].form = "bytes"
  THEN Genesis
  ELSE lines[CHOOSE i \in Parsed(lines) : \A j \in Parsed(lines) : j <= i].hash

\* Seeded fault: the details of a failure are not looked at.
BrokenByHash(lines, i) ==
  \/ lines[i].form # "entry"
  \/ lines[i].hash # NextHash(IF i = 1 THEN Genesis ELSE lines[i - 1].hash, lines[i])

\* What stops verify_integrity at a line: it does not parse, it is a failure
\* with a detail outside its hash, or it does not chain to the line before.
Broken(lines, i) ==
  \/ lines[i].form # "entry"
  \/ lines[i].result = "Failure" /\ lines[i].other # NoText
  \/ lines[i].hash # NextHash(IF i = 1 THEN Genesis ELSE lines[i - 1].hash, lines[i])

AllEntries(lines) == \A i \in DOMAIN lines : lines[i].form = "entry"

\* verify_integrity answers "yes".
Verifies(lines) == \A i \in DOMAIN lines : ~Broken(lines, i)

------------------------------------------------------------------------------
(* Writing. *)

\* The entry an act gives rise to: AuditEntry::new, the details-bearing form
\* a configuration write files, or new_failure.
EntryFor(i, previous) ==
  LET a == acts[i]
      e == [form |-> "entry", act |-> i, result |-> a.result, fraction |-> TRUE,
            error |-> IF a.result = "Failure" THEN a.text ELSE NoText,
            other |-> IF a.result = "Success" /\ a.via = "config"
                      THEN a.text ELSE NoText,
            hash |-> Genesis]
  IN  [e EXCEPT !.hash = NextHash(previous, e)]

\* Seeded fault: the file is opened at its start.
LinesWithTruncating(line) == <<line>>

\* The file is open for appending: a line goes to its end, and into the last
\* line where that was never finished.
LinesWith(line) ==
  IF torn
  THEN [log EXCEPT ![Len(log)] =
          Cut(IF "bytes" \in {log[Len(log)].form, line.form} THEN "bytes" ELSE "cut")]
  ELSE Append(log, line)

Pending(p) == CHOOSE i \in DOMAIN acts : acts[i].by = p /\ acts[i].fate = "pending"

Entry(p) == EntryFor(Pending(p), proc[p].previous)

Turns(p, pc, previous) ==
  proc' = [proc EXCEPT ![p] = [pc |-> pc, previous |-> previous]]

Meets(p, fate) ==
  acts' = [acts EXCEPT ![Pending(p)] = [acts[Pending(p)] EXCEPT !.fate = fate]]

\* Seeded fault: the chain is not set before the first entry.
OpenUnset(p) ==
  /\ proc[p].pc = "closed"
  /\ Concurrent \/ \A q \in Process : proc[q].pc = "closed"
  /\ Turns(p, "ready", NoText)
  /\ UNCHANGED <<log, torn, acts, genuine, edits, forged>>

\* AuditLogger::new
Open(p) ==
  /\ proc[p].pc = "closed"
  /\ Concurrent \/ \A q \in Process : proc[q].pc = "closed"
  /\ Turns(p, "ready", Recovered(log))
  /\ UNCHANGED <<log, torn, acts, genuine, edits, forged>>

Close(p) ==
  /\ proc[p].pc = "ready"
  /\ Turns(p, "closed", Genesis)
  /\ UNCHANGED <<log, torn, acts, genuine, edits, forged>>

\* Something is done, and only then is there something to file.
Perform(p) ==
  /\ proc[p].pc = "ready" /\ Len(acts) < MaxActs
  /\ \E via \in {"command", "config"}, result \in Result, text \in Text :
       acts' = Append(acts, [via |-> via, result |-> result, text |-> text,
                             by |-> p, fate |-> "pending"])
  /\ Turns(p, "report", proc[p].previous)
  /\ UNCHANGED <<log, torn, genuine, edits, forged>>

\* log_action does not take a failure, and the commands that report one
\* through it discard the error.
Refusable(p) ==
  acts[Pending(p)].via = "command" /\ acts[Pending(p)].result = "Failure"

Refuse(p) ==
  /\ proc[p].pc = "report" /\ Refusable(p)
  /\ Meets(p, "refused")
  /\ Turns(p, "ready", proc[p].previous)
  /\ UNCHANGED <<log, torn, genuine, edits, forged>>

\* log_action, log_action_with_details and log_failure, to their end: the
\* entry is in the file and the chain moves on to it.
File(p) ==
  /\ proc[p].pc = "report" /\ ~Refusable(p)
  /\ log' = LinesWith(Entry(p)) /\ torn' = FALSE
  /\ genuine' = Append(genuine, Entry(p))
  /\ Meets(p, "acked")
  /\ Turns(p, "ready", Entry(p).hash)
  /\ UNCHANGED <<edits, forged>>

\* What is left behind by a write that was not whole.
Remains(p) ==
  \/ /\ "nothing" \in Failures
     /\ UNCHANGED <<log, torn, genuine>>
  \/ \E form \in {"cut", "bytes"} \cap Failures :
       /\ log' = LinesWith(Cut(form)) /\ torn' = TRUE
       /\ UNCHANGED genuine
  \/ /\ "whole" \in Failures  \* all but the newline
     /\ log' = LinesWith(Entry(p)) /\ torn' = TRUE
     /\ genuine' = Append(genuine, Entry(p))

\* Seeded fault: the chain moves on before the write has succeeded.
WriteFailsAdvanced(p) ==
  /\ proc[p].pc = "report" /\ ~Refusable(p)
  /\ Remains(p)
  /\ Meets(p, "lost")
  /\ Turns(p, "ready", Entry(p).hash)
  /\ UNCHANGED <<edits, forged>>

\* The write or the flush fails: the caller is told, and the chain stays.
WriteFails(p) ==
  /\ proc[p].pc = "report" /\ ~Refusable(p)
  /\ Remains(p)
  /\ Meets(p, "lost")
  /\ Turns(p, "ready", proc[p].previous)
  /\ UNCHANGED <<edits, forged>>

\* The process dies: with nothing to file, before it filed it, after the line
\* was in the file but before anyone was told, or in the middle.
Crash(p) ==
  /\ proc[p].pc # "closed"
  /\ Turns(p, "closed", Genesis)
  /\ IF proc[p].pc = "report" THEN Meets(p, "lost") ELSE UNCHANGED acts
  /\ \/ UNCHANGED <<log, torn, genuine>>
     \/ /\ proc[p].pc = "report" /\ ~Refusable(p)
        /\ \/ Remains(p)
           \/ /\ log' = LinesWith(Entry(p)) /\ torn' = FALSE
              /\ genuine' = Append(genuine, Entry(p))
  /\ UNCHANGED <<edits, forged>>

------------------------------------------------------------------------------
(* The file changed by anything but the program: a line altered (what is      *)
(* altered stands for all that a hash covers), dropped, or exchanged with its  *)
(* neighbour, or the tail cut off.                                            *)

Changed(lines) == log' = lines /\ edits' = edits + 1

Without(i) == SubSeq(log, 1, i - 1) \o SubSeq(log, i + 1, Len(log))

\* The hashes are left as they are.
Tamper ==
  /\ edits < Edits /\ ~torn
  /\ \/ \E i \in DOMAIN log, fraction \in BOOLEAN, result \in Result,
            error, other \in Text \cup {NoText} :
          LET e == [log[i] EXCEPT !.fraction = fraction, !.result = result,
                                  !.error = error, !.other = other]
          IN  /\ log[i].form = "entry" /\ e # log[i]
              /\ Changed([log EXCEPT ![i] = e])
              /\ UNCHANGED genuine
     \/ \E i \in 1 .. Len(log) - 1 : Changed(Without(i)) /\ UNCHANGED genuine
     \/ \E i \in 1 .. Len(log) - 1 :
          /\ Changed([log EXCEPT ![i] = log[i + 1], ![i + 1] = log[i]])
          /\ UNCHANGED genuine
     \/ \E n \in 0 .. Len(log) - 1 :
          /\ Changed(SubSeq(log, 1, n))
          /\ genuine' = SubSeq(genuine, 1, n)
  /\ UNCHANGED <<torn, proc, acts, forged>>

\* Lines that chain, from line i to the last: the hash takes no key, so whoever
\* can write the file can compute it.
Rechained(lines, i) ==
  LET before == IF i = 1 THEN Genesis ELSE lines[i - 1].hash
      hash(k) == before \o [n \in 1 .. k - i + 1 |-> Covers(lines[i + n - 1])]
  IN  [k \in DOMAIN lines |->
         IF k < i THEN lines[k] ELSE [lines[k] EXCEPT !.hash = hash(k)]]

\* A line is altered or dropped, and the hashes from there on made to fit.
Rewrite ==
  /\ edits < Edits /\ ~torn
  /\ \E i \in DOMAIN log :
       /\ \A k \in i .. Len(log) : log[k].form = "entry"
       /\ \/ \E result \in Result \ {log[i].result} :
               Changed(Rechained([log EXCEPT ![i] = [log[i] EXCEPT !.result = result]], i))
          \/ i < Len(log) /\ Changed(Rechained(Without(i), i))
       /\ forged' = forged \cup {log'[k].hash : k \in i .. Len(log')}
  /\ UNCHANGED <<torn, proc, acts, genuine>>

Next ==
  \/ \E p \in Process : \/ Open(p) \/ Close(p) \/ Perform(p) \/ Refuse(p)
                        \/ File(p) \/ WriteFails(p) \/ Crash(p)
  \/ Tamper \/ Rewrite

Spec == Init /\ [][Next]_vars

------------------------------------------------------------------------------
(***************************************************************************)
(* A log nothing but the program has written, and of which no write was cut *)
(* off, verifies: across restarts, crashes and failed writes.               *)
(***************************************************************************)
UntouchedVerifies ==
  edits = 0 /\ AllEntries(log) => Verifies(log)

\* A line as its hash sees it.
Second(e) == [e EXCEPT !.fraction = TRUE]

\* A line says of an act what was done, in the words it was first written in.
SaysWhatWasDone(i) ==
  LET a == log[i].act IN
    /\ a \in DOMAIN acts /\ acts[a].fate \in {"acked", "lost"}
    /\ Second(log[i]) = EntryFor(a, IF i = 1 THEN Genesis ELSE log[i - 1].hash)

\* No write was cut off, and one process wrote at a time.
Smooth ==
  /\ Failures \subseteq {"nothing"} \/ \A a \in DOMAIN acts : acts[a].fate # "lost"
  /\ ~Concurrent \/ \A a, b \in DOMAIN acts : acts[a].by = acts[b].by

\* A hash that covers none an editor computed: of a line by a process that
\* recovered the chain before any was.
Vouches(h) ==
  \A f \in forged : ~(Len(f) <= Len(h) /\ \A n \in DOMAIN f : f[n] = h[n])

(***************************************************************************)
(* Of a log that verifies, a line whose hash covers none that an editor     *)
(* computed vouches for itself and all before it: they say nothing but what *)
(* was done, word for word but for the fraction of the second, and in the   *)
(* order it was done, however often the file was changed and whatever was   *)
(* appended afterwards.  So whoever rewrites the chain must do it when no   *)
(* process that files anything later has it open.  (Of a chain that was     *)
(* rewritten to its end verify_integrity can tell nothing: the hash takes   *)
(* no key.)  After a single change that left the hashes alone, and if no    *)
(* write was ever cut off, the log is the whole trail up to a tail that was *)
(* removed.  (Two changes can lose an entry in the                          *)
(* middle: exchange the last two lines, let the program append, drop the    *)
(* line it did not chain to.  So can one, after a fragment that made        *)
(* recovery start over, or of two processes that began a log at once.)      *)
(***************************************************************************)
TamperEvident ==
  Verifies(log) =>
    /\ \A j \in DOMAIN log : Vouches(log[j].hash) =>
         /\ \A i \in 1 .. j : SaysWhatWasDone(i)
         /\ \A i \in 1 .. j - 1 : log[i].act < log[i + 1].act
    /\ edits <= 1 /\ forged = {} /\ Smooth =>
         \A i \in DOMAIN log : i \in DOMAIN genuine /\ Second(log[i]) = genuine[i]

(***************************************************************************)
(* An entry a writer was told is logged ("Ok(()) if logged successfully")   *)
(* can be read back, and stays in the log, whoever else writes to it; short *)
(* of a fragment, which spoils the entry that follows it.                   *)
(***************************************************************************)
AcknowledgedIsReadable ==
  edits = 0 /\ AllEntries(log) =>
    \A i \in DOMAIN acts : acts[i].fate = "acked" =>
      \E k \in DOMAIN log : log[k].act = i

\* The history an untorn log stands for is the one its last hash covers.
Trail ==
  INSTANCE Ledger WITH
    Data <- Covered,
    history <- Recovered(log),
    acked <- {Covers(log[k]) : k \in {k \in Parsed(log) :
                                        acts[log[k].act].fate = "acked"}}

\* The log is one history that only grows, and holds what it acknowledged.
ImplementsTrail == Trail!Spec

==============================================================================
