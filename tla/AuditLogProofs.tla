---------------------------- MODULE AuditLogProofs ----------------------------
(***************************************************************************)
(* What AuditLog establishes for any number of processes, acts and edits:   *)
(* its types; that a log only the program has touched verifies, if one      *)
(* process at a time has it open; that an acknowledged entry is in it,      *)
(* however many have, until a write that was cut off spoils one; that in a  *)
(* log which verifies every line up to one whose hash no editor had a hand  *)
(* in says what was done; and that one process that never fails half way    *)
(* implements Ledger.                                                       *)
(***************************************************************************)
EXTENDS AuditLog, FiniteSetTheorems, SequenceTheorems, WellFoundedInduction, TLAPS

\* A nonempty set of positions has a greatest, by well-foundedness of strict
\* inclusion on the sets of positions at or after each.
LEMMA Greatest ==
  ASSUME NEW n \in Nat, NEW P \in SUBSET (1 .. n), P # {}
  PROVE  \E x \in P : \A y \in P : y <= x
<1> DEFINE R == StrictSubsetOrdering(1 .. n)
           T == {i .. n : i \in P}
<1>1. IsWellFoundedOn(R, SUBSET (1 .. n))
  <2>1. IsFiniteSet(1 .. n)  BY FS_Interval
  <2> QED  BY <2>1, FS_StrictSubsetOrderingWellFounded, FS_FiniteSubsetsOfFinite
<1>2. T # {}  OBVIOUS
<1>3. T \subseteq SUBSET (1 .. n)
  <2>1. ASSUME NEW i \in P PROVE i .. n \in SUBSET (1 .. n)  OBVIOUS
  <2> QED  BY <2>1
<1>4. PICK t \in T : \A u \in T : <<u, t>> \notin R
  <2> HIDE DEF R, T
  <2> QED  BY <1>1, <1>2, <1>3, WFMin
<1>5. PICK x \in P : t = x .. n  OBVIOUS
<1>6. ASSUME NEW y \in P, ~ (y <= x) PROVE FALSE
  <2>1. (y .. n) \subseteq (x .. n) /\ (y .. n) # (x .. n) /\ (y .. n) \in T
    BY <1>6
  <2>2. (y .. n) \in SUBSET (1 .. n) /\ (x .. n) \in SUBSET (1 .. n)  OBVIOUS
  <2> QED  BY <2>1, <2>2, <1>4, <1>5 DEF StrictSubsetOrdering
<1> QED  BY <1>6

\* The position recovery stops at: the last line that parses.
LEMMA LastParsed ==
  ASSUME NEW lines \in Seq(Line), Parsed(lines) # {}
  PROVE  LET i == CHOOSE i \in Parsed(lines) : \A j \in Parsed(lines) : j <= i
         IN  i \in Parsed(lines) /\ \A j \in Parsed(lines) : j <= i
<1>1. Parsed(lines) \in SUBSET (1 .. Len(lines))  BY DEF Parsed
<1>2. Len(lines) \in Nat  OBVIOUS
<1> DEFINE P == Parsed(lines)
<1> HIDE DEF P
<1>3. P \in SUBSET (1 .. Len(lines)) /\ P # {}  BY <1>1 DEF P
<1>4. \E i \in P : \A j \in P : j <= i  BY <1>2, <1>3, Greatest
<1> QED  BY <1>4 DEF P

\* Recovery yields a hash, whatever is in the file.
LEMMA RecoveredType ==
  ASSUME NEW lines \in Seq(Line)
  PROVE  Recovered(lines) \in Hash
<1>1. Genesis \in Hash  BY DEF Genesis, Hash
<1>2. ASSUME NEW i \in DOMAIN lines PROVE lines[i].hash \in Hash
  <2>1. lines[i] \in Line  OBVIOUS
  <2> QED  BY <2>1 DEF Line
<1>3. Parsed(lines) \subseteq DOMAIN lines  BY DEF Parsed
<1> QED  BY <1>1, <1>2, <1>3, LastParsed DEF Recovered

\* An entry is a line, and its hash a hash.
LEMMA EntryType ==
  ASSUME AuditAssumption, acts \in Seq(Act), NEW i \in DOMAIN acts, Len(acts) <= MaxActs,
         NEW previous \in Hash
  PROVE  /\ EntryFor(i, previous) \in Line
         /\ EntryFor(i, previous).form = "entry"
         /\ EntryFor(i, previous).act = i
         /\ EntryFor(i, previous).hash = NextHash(previous, EntryFor(i, previous))
         /\ ~ (EntryFor(i, previous).result = "Failure" /\ EntryFor(i, previous).other # NoText)
<1> DEFINE a == acts[i]
           e == [form |-> "entry", act |-> i, result |-> a.result, fraction |-> TRUE,
                 error |-> IF a.result = "Failure" THEN a.text ELSE NoText,
                 other |-> IF a.result = "Success" /\ a.via = "config"
                           THEN a.text ELSE NoText,
                 hash |-> Genesis]
<1>1. a \in Act  OBVIOUS
<1>2. i \in 1 .. MaxActs  BY DEF AuditAssumption
<1>3. Genesis \in Hash  BY DEF Genesis, Hash
<1>4. e \in Line  BY <1>1, <1>2, <1>3 DEF Act, Line
<1>5. ~ (e.result = "Failure" /\ e.other # NoText)  BY <1>1
<1>6. Covers(e) \in Covered  BY <1>1, <1>2, <1>4 DEF Covers, Covered, Line, Act
<1>7. NextHash(previous, e) \in Hash  BY <1>6 DEF NextHash, Hash
<1>8. EntryFor(i, previous) = [e EXCEPT !.hash = NextHash(previous, e)]
  BY DEF EntryFor
<1>9. Covers([e EXCEPT !.hash = NextHash(previous, e)]) = Covers(e)
  BY DEF Covers
<1>10. e.form = "entry" /\ e.act = i  OBVIOUS
<1> HIDE DEF e
<1>11. [e EXCEPT !.hash = NextHash(previous, e)] \in Line
  BY <1>4, <1>7 DEF Line
<1> QED  BY <1>4, <1>5, <1>7, <1>8, <1>9, <1>10, <1>11 DEF NextHash, Line
------------------------------------------------------------------------------
(* Type correctness. *)

\* A process with something to report has performed it.
Performed ==
  \A p \in Process : proc[p].pc = "report" =>
    \E i \in DOMAIN acts : acts[i].by = p /\ acts[i].fate = "pending"

\* Only an unfinished last line can be one the program did not write whole.
NoLonger ==
  /\ Len(log) <= Len(genuine) + (IF torn THEN 1 ELSE 0)
  /\ torn => log # <<>>

\* The types, with what keeps them: acts are bounded, and looked up only if
\* they are there.
TypeInv == TypeOK /\ Len(acts) <= MaxActs /\ Performed /\ NoLonger

\* What a process looks up is its own act, still to be filed.
LEMMA PendingIs ==
  ASSUME Performed, NEW p \in Process, proc[p].pc = "report"
  PROVE  /\ Pending(p) \in DOMAIN acts
         /\ acts[Pending(p)].by = p /\ acts[Pending(p)].fate = "pending"
<1>1. \E i \in DOMAIN acts : acts[i].by = p /\ acts[i].fate = "pending"
  BY DEF Performed
<1> QED  BY <1>1 DEF Pending

\* The entry a process is about to file is a line of its own act.
LEMMA EntryIs ==
  ASSUME AuditAssumption, TypeInv, NEW p \in Process, proc[p].pc = "report"
  PROVE  /\ Entry(p) \in Line
         /\ Entry(p).form = "entry"
         /\ Entry(p).act = Pending(p)
         /\ Entry(p).hash = NextHash(proc[p].previous, Entry(p))
         /\ ~ (Entry(p).result = "Failure" /\ Entry(p).other # NoText)
<1>1. Pending(p) \in DOMAIN acts  BY PendingIs DEF TypeInv
<1>2. proc[p].previous \in Hash  BY DEF TypeInv, TypeOK, Proc
<1>3. acts \in Seq(Act) /\ Len(acts) <= MaxActs  BY DEF TypeInv, TypeOK
<1> QED  BY <1>1, <1>2, <1>3, EntryType DEF Entry

\* A line that does not parse is a line.
LEMMA CutType ==
  ASSUME AuditAssumption, NEW form \in {"cut", "bytes"}
  PROVE  Cut(form) \in Line /\ Cut(form).form = form
<1>1. Genesis \in Hash  BY DEF Genesis, Hash
<1>2. "Success" \in Result  BY DEF Result
<1> QED  BY <1>1, <1>2 DEF Cut, Line, AuditAssumption

\* Appending keeps the file a file, and makes it longer unless the line goes
\* into a fragment, which then stays one.
LEMMA LinesType ==
  ASSUME AuditAssumption, TypeOK, NoLonger, NEW line \in Line
  PROVE  /\ LinesWith(line) \in Seq(Line)
         /\ LinesWith(line) # <<>>
         /\ torn => Len(LinesWith(line)) = Len(log)
         /\ torn => LinesWith(line)[Len(log)].form # "entry"
         /\ ~torn => LinesWith(line) = Append(log, line)
<1>1. log \in Seq(Line)  BY DEF TypeOK
<1>2. CASE torn
  <2> DEFINE form == IF "bytes" \in {log[Len(log)].form, line.form} THEN "bytes" ELSE "cut"
  <2>1. form \in {"cut", "bytes"}  OBVIOUS
  <2>2. LinesWith(line) = [log EXCEPT ![Len(log)] = Cut(form)]
    BY <1>2 DEF LinesWith
  <2> HIDE DEF form
  <2>3. Cut(form) \in Line /\ Cut(form).form = form  BY <2>1, CutType
  <2> DEFINE c == Cut(form)
  <2>4. c \in Line /\ c.form # "entry"  BY <2>1, <2>3
  <2> HIDE DEF c
  <2>5. LinesWith(line) = [log EXCEPT ![Len(log)] = c]  BY <2>2 DEF c
  <2>6. log # <<>>  BY <1>2 DEF NoLonger
  <2>7. Len(log) \in 1 .. Len(log)  BY <1>1, <2>6
  <2>8. /\ LinesWith(line) \in Seq(Line) /\ Len(LinesWith(line)) = Len(log)
        /\ LinesWith(line)[Len(log)] = c
    BY <1>1, <2>4, <2>5, <2>7, ExceptSeq
  <2>9. LinesWith(line) # <<>>  BY <2>7, <2>8
  <2> QED  BY <1>2, <2>4, <2>8, <2>9
<1>3. CASE ~torn  BY <1>1, <1>3 DEF LinesWith
<1> QED  BY <1>2, <1>3

\* What remains of a write that was not whole is a file.
LEMMA RemainsType ==
  ASSUME AuditAssumption, TypeInv, NEW p \in Process, proc[p].pc = "report",
         \/ Remains(p)
         \/ /\ log' = LinesWith(Entry(p)) /\ torn' = FALSE
            /\ genuine' = Append(genuine, Entry(p))
  PROVE  /\ log' \in Seq(Line) /\ torn' \in BOOLEAN /\ genuine' \in Seq(Line)
         /\ NoLonger'
<1>1. TypeOK /\ NoLonger  BY DEF TypeInv
<1>2. log \in Seq(Line) /\ genuine \in Seq(Line)  BY <1>1 DEF TypeOK
<1>3. Entry(p) \in Line  BY EntryIs
<1>4. CASE UNCHANGED <<log, torn, genuine>>  BY <1>1, <1>4 DEF TypeOK, NoLonger
<1>5. ASSUME NEW form \in {"cut", "bytes"},
             log' = LinesWith(Cut(form)) /\ torn' = TRUE /\ genuine' = genuine
      PROVE  log' \in Seq(Line) /\ torn' \in BOOLEAN /\ genuine' \in Seq(Line) /\ NoLonger'
  <2>1. Cut(form) \in Line  BY CutType
  <2>2. log' \in Seq(Line) /\ log' # <<>>  BY <1>1, <1>5, <2>1, LinesType
  <2>3. Len(log') <= Len(log) + (IF torn THEN 0 ELSE 1)
    BY <1>1, <1>2, <1>5, <2>1, LinesType
  <2>4. Len(log') <= Len(genuine) + 1
    BY <1>1, <1>2, <2>2, <2>3 DEF NoLonger
  <2> QED  BY <1>2, <1>5, <2>2, <2>4 DEF NoLonger
<1>6. ASSUME log' = LinesWith(Entry(p)), torn' \in BOOLEAN,
             genuine' = Append(genuine, Entry(p))
      PROVE  log' \in Seq(Line) /\ torn' \in BOOLEAN /\ genuine' \in Seq(Line) /\ NoLonger'
  <2>1. log' \in Seq(Line) /\ log' # <<>>  BY <1>1, <1>3, <1>6, LinesType
  <2>2. Len(log') <= Len(log) + (IF torn THEN 0 ELSE 1)
    BY <1>1, <1>2, <1>3, <1>6, LinesType
  <2>3. Len(genuine') = Len(genuine) + 1 /\ genuine' \in Seq(Line)
    BY <1>2, <1>3, <1>6
  <2>4. Len(log') <= Len(genuine')
    BY <1>1, <1>2, <2>1, <2>2, <2>3 DEF NoLonger
  <2> QED  BY <1>6, <2>1, <2>3, <2>4 DEF NoLonger
<1> QED  BY <1>4, <1>5, <1>6 DEF Remains
\* Once an act has met its fate, every other process still has its own.
LEMMA MeetsKeeps ==
  ASSUME TypeInv, NEW p \in Process, proc[p].pc = "report",
         NEW fate \in {"acked", "refused", "lost"}, Meets(p, fate)
  PROVE  /\ acts' \in Seq(Act) /\ Len(acts') = Len(acts)
         /\ \A q \in Process \ {p} : proc[q].pc = "report" =>
              \E i \in DOMAIN acts' : acts'[i].by = q /\ acts'[i].fate = "pending"
<1> DEFINE k == Pending(p)
           a == [acts[k] EXCEPT !.fate = fate]
<1>1. k \in DOMAIN acts /\ acts[k].by = p  BY PendingIs DEF TypeInv
<1>2. acts \in Seq(Act) /\ DOMAIN acts = 1 .. Len(acts)  BY DEF TypeInv, TypeOK
<1>3. acts[k] \in Act  BY <1>1, <1>2
<1>4. a \in Act  BY <1>3 DEF Act
<1>5. acts' = [acts EXCEPT ![k] = a]  BY DEF Meets
<1> HIDE DEF a, k
<1>6. /\ acts' \in Seq(Act) /\ Len(acts') = Len(acts)
      /\ \A j \in 1 .. Len(acts) : acts'[j] = IF j = k THEN a ELSE acts[j]
  BY <1>1, <1>2, <1>4, <1>5, ExceptSeq
<1>7. ASSUME NEW q \in Process \ {p}, proc[q].pc = "report"
      PROVE  \E i \in DOMAIN acts' : acts'[i].by = q /\ acts'[i].fate = "pending"
  <2>1. PICK i \in DOMAIN acts : acts[i].by = q /\ acts[i].fate = "pending"
    BY <1>7 DEF TypeInv, Performed
  <2>2. i # k  BY <1>1, <2>1
  <2>3. DOMAIN acts' = 1 .. Len(acts)  BY <1>6
  <2> QED  BY <1>2, <1>6, <2>1, <2>2, <2>3
<1> QED  BY <1>6, <1>7

\* A process changes place; the others stay where they are.
LEMMA TurnsType ==
  ASSUME TypeOK, NEW p \in Process, NEW pc \in {"closed", "ready", "report"},
         NEW previous \in Hash, Turns(p, pc, previous)
  PROVE  /\ proc' \in [Process -> Proc]
         /\ proc'[p].pc = pc /\ proc'[p].previous = previous
         /\ \A q \in Process \ {p} : proc'[q] = proc[q]
BY DEF TypeOK, Turns, Proc

\* A file without a line is the lines before it and those after it.
LEMMA WithoutIs ==
  ASSUME log \in Seq(Line), NEW i \in 1 .. Len(log) - 1
  PROVE  /\ Without(i) \in Seq(Line) /\ Len(Without(i)) = Len(log) - 1
         /\ \A k \in 1 .. Len(log) - 1 :
              Without(i)[k] = IF k < i THEN log[k] ELSE log[k + 1]
<1> DEFINE u == SubSeq(log, 1, i - 1)
           v == SubSeq(log, i + 1, Len(log))
<1>1. Len(log) \in Nat /\ \A j \in 1 .. Len(log) : log[j] \in Line  OBVIOUS
<1>2. u \in Seq(Line) /\ Len(u) = i - 1 /\ \A j \in 1 .. i - 1 : u[j] = log[j]
  BY <1>1, SubSeqProperties
<1>3. /\ v \in Seq(Line) /\ Len(v) = Len(log) - i
      /\ \A j \in 1 .. Len(log) - i : v[j] = log[j + i]
  BY <1>1, SubSeqProperties
<1>4. Without(i) = u \o v  BY DEF Without
<1> HIDE DEF u, v
<1>5. Without(i) \in Seq(Line) /\ Len(Without(i)) = Len(log) - 1
  <2>1. u \o v \in Seq(Line)  BY <1>2, <1>3, ConcatProperties
  <2>2. Len(u \o v) = Len(u) + Len(v)  BY <1>2, <1>3, ConcatProperties
  <2>3. (i - 1) + (Len(log) - i) = Len(log) - 1  BY <1>1
  <2> QED  BY <1>2, <1>3, <1>4, <2>1, <2>2, <2>3
<1>6. ASSUME NEW k \in 1 .. Len(log) - 1
      PROVE  Without(i)[k] = IF k < i THEN log[k] ELSE log[k + 1]
  <2>1. CASE k < i
    <3>1. k <= Len(u)  BY <1>1, <1>2, <2>1
    <3> QED  BY <1>1, <1>2, <1>3, <1>4, <2>1, <3>1
  <2>2. CASE ~ (k < i)
    <3>1. Without(i)[k] = v[k - (i - 1)]  BY <1>1, <1>2, <1>3, <1>4, <2>2
    <3>2. k - (i - 1) \in 1 .. Len(log) - i /\ (k - (i - 1)) + i = k + 1
      BY <1>1, <2>2
    <3> QED  BY <1>3, <2>2, <3>1, <3>2
  <2> QED  BY <2>1, <2>2
<1> QED  BY <1>5, <1>6

\* Chaining lines anew from one on leaves what they say, and those before it.
LEMMA RechainedIs ==
  ASSUME AuditAssumption, NEW lines \in Seq(Line), NEW i \in 1 .. Len(lines)
  PROVE  /\ Rechained(lines, i) \in Seq(Line)
         /\ Len(Rechained(lines, i)) = Len(lines)
         /\ \A k \in 1 .. Len(lines) :
              /\ k < i => Rechained(lines, i)[k] = lines[k]
              /\ Rechained(lines, i)[k].act = lines[k].act
              /\ Rechained(lines, i)[k].form = lines[k].form
<1> DEFINE before == IF i = 1 THEN Genesis ELSE lines[i - 1].hash
           said(k) == [n \in 1 .. k - i + 1 |-> Covers(lines[i + n - 1])]
           hash(k) == before \o said(k)
           line(k) == IF k < i THEN lines[k] ELSE [lines[k] EXCEPT !.hash = hash(k)]
<1>1. /\ Len(lines) \in Nat /\ DOMAIN lines = 1 .. Len(lines)
      /\ \A k \in 1 .. Len(lines) : lines[k] \in Line
  OBVIOUS
<1>2. ASSUME NEW k \in 1 .. Len(lines), ~(k < i) PROVE hash(k) \in Hash
  <2>1. before \in Hash
    <3>1. i # 1 => lines[i - 1] \in Line  BY <1>1
    <3> QED  BY <3>1 DEF Line, Hash, Genesis
  <2>2. ASSUME NEW n \in 1 .. k - i + 1 PROVE Covers(lines[i + n - 1]) \in Covered
    <3>1. lines[i + n - 1] \in Line  BY <1>1, <1>2
    <3> QED  BY <3>1 DEF Line, Covers, Covered
  <2>3. said(k) \in Seq(Covered)
    <3>1. k - i + 1 \in Nat  BY <1>1, <1>2
    <3>2. said(k) \in [1 .. k - i + 1 -> Covered]  BY <2>2
    <3> HIDE DEF said
    <3> QED  BY <3>1, <3>2, SeqDef
  <2> HIDE DEF before, said
  <2> QED  BY <2>1, <2>3 DEF Hash
<1>3. Rechained(lines, i) = [k \in 1 .. Len(lines) |-> line(k)]
  BY <1>1 DEF Rechained
<1>4. ASSUME NEW k \in 1 .. Len(lines)
      PROVE  /\ line(k) \in Line /\ (k < i => line(k) = lines[k])
             /\ line(k).act = lines[k].act /\ line(k).form = lines[k].form
  <2>1. CASE k < i  BY <1>1, <2>1
  <2>2. CASE ~ (k < i)
    <3>1. hash(k) \in Hash  BY <1>2, <2>2
    <3> HIDE DEF hash
    <3> QED  BY <1>1, <2>2, <3>1 DEF Line
  <2> QED  BY <2>1, <2>2
<1> HIDE DEF line
<1>5. Rechained(lines, i) \in Seq(Line) /\ Len(Rechained(lines, i)) = Len(lines)
  <2>1. Rechained(lines, i) \in [1 .. Len(lines) -> Line]  BY <1>3, <1>4
  <2> QED  BY <1>1, <2>1, SeqDef, LenProperties
<1> QED  BY <1>3, <1>4, <1>5

\* What a rewritten file holds: lines that were there, and from some point on
\* lines of the same acts with hashes that were not.
LEMMA RewriteIs ==
  ASSUME AuditAssumption, TypeInv, Rewrite
  PROVE  /\ log' \in Seq(Line) /\ Len(log') <= Len(log) /\ edits' = edits + 1
         /\ forged' \subseteq Hash /\ forged' # {} /\ forged \subseteq forged'
         /\ \A k \in DOMAIN log' :
              /\ \/ k \in DOMAIN log /\ log'[k] = log[k]
                 \/ log'[k].hash \in forged'
              /\ \E j \in DOMAIN log : /\ log'[k].act = log[j].act
                                       /\ log'[k].form = log[j].form
<1>1. /\ log \in Seq(Line) /\ DOMAIN log = 1 .. Len(log) /\ Len(log) \in Nat
      /\ forged \subseteq Hash
  BY DEF TypeInv, TypeOK
<1>2. PICK i \in DOMAIN log :
        /\ \/ \E result \in Result \ {log[i].result} :
                Changed(Rechained([log EXCEPT ![i] = [log[i] EXCEPT !.result = result]], i))
           \/ i < Len(log) /\ Changed(Rechained(Without(i), i))
        /\ forged' = forged \cup {log'[k].hash : k \in i .. Len(log')}
  BY DEF Rewrite
<1> DEFINE Kept(lines) ==
             /\ Changed(Rechained(lines, i)) /\ i <= Len(lines) /\ Len(lines) <= Len(log)
             /\ \A k \in 1 .. Len(lines) :
                  /\ k < i => lines[k] = log[k]
                  /\ \E j \in DOMAIN log : /\ lines[k].act = log[j].act
                                           /\ lines[k].form = log[j].form
<1>3. \E lines \in Seq(Line) : Kept(lines)
  <2>1. ASSUME NEW result \in Result,
               Changed(Rechained([log EXCEPT ![i] = [log[i] EXCEPT !.result = result]], i))
        PROVE  \E lines \in Seq(Line) : Kept(lines)
    <3> DEFINE e == [log[i] EXCEPT !.result = result]
               lines == [log EXCEPT ![i] = e]
    <3>1. log[i] \in Line  BY <1>1
    <3>2. e \in Line /\ e.act = log[i].act /\ e.form = log[i].form  BY <3>1 DEF Line
    <3> HIDE DEF e
    <3>3. /\ lines \in Seq(Line) /\ Len(lines) = Len(log)
          /\ \A k \in 1 .. Len(log) : lines[k] = IF k = i THEN e ELSE log[k]
      BY <1>1, <3>2
    <3>4. Changed(Rechained(lines, i))  BY <2>1 DEF e
    <3>5. \A k \in 1 .. Len(log) : k \in DOMAIN log  BY <1>1
    <3> HIDE DEF lines
    <3>6. Kept(lines)  BY <1>1, <3>2, <3>3, <3>4, <3>5
    <3> QED  BY <3>3, <3>6
  <2>2. ASSUME i < Len(log), Changed(Rechained(Without(i), i))
        PROVE  \E lines \in Seq(Line) : Kept(lines)
    <3>1. i \in 1 .. Len(log) - 1  BY <1>1, <2>2
    <3>2. /\ Without(i) \in Seq(Line) /\ Len(Without(i)) = Len(log) - 1
          /\ \A k \in 1 .. Len(log) - 1 :
               Without(i)[k] = IF k < i THEN log[k] ELSE log[k + 1]
      BY <1>1, <3>1, WithoutIs
    <3>3. \A k \in 1 .. Len(log) - 1 : k \in DOMAIN log /\ k + 1 \in DOMAIN log
      BY <1>1
    <3>5. i <= Len(Without(i)) /\ Len(Without(i)) <= Len(log)  BY <1>1, <3>1, <3>2
    <3>6. ASSUME NEW k \in 1 .. Len(Without(i))
          PROVE  /\ k < i => Without(i)[k] = log[k]
                 /\ \E j \in DOMAIN log : /\ Without(i)[k].act = log[j].act
                                          /\ Without(i)[k].form = log[j].form
      <4>1. k \in 1 .. Len(log) - 1  BY <3>2
      <4> QED  BY <3>2, <3>3, <4>1
    <3>4. Kept(Without(i))  BY <2>2, <3>5, <3>6
    <3> QED  BY <3>2, <3>4
  <2> QED  BY <1>2, <2>1, <2>2
<1>4. PICK lines \in Seq(Line) : Kept(lines)  BY <1>3
<1>5. i \in 1 .. Len(lines) /\ Len(lines) \in Nat  BY <1>1, <1>4
<1>6. /\ log' = Rechained(lines, i) /\ edits' = edits + 1
      /\ log' \in Seq(Line) /\ Len(log') = Len(lines)
      /\ \A k \in 1 .. Len(lines) : /\ k < i => log'[k] = lines[k]
                                    /\ log'[k].act = lines[k].act
                                    /\ log'[k].form = lines[k].form
  <2>1. log' = Rechained(lines, i) /\ edits' = edits + 1  BY <1>4 DEF Changed
  <2> QED  BY <1>5, <2>1, RechainedIs
<1>7. DOMAIN log' = 1 .. Len(lines) /\ \A k \in DOMAIN log' : log'[k] \in Line  BY <1>6
<1>8. ASSUME NEW k \in DOMAIN log'
      PROVE  /\ \/ k \in DOMAIN log /\ log'[k] = log[k]
                \/ log'[k].hash \in forged'
             /\ \E j \in DOMAIN log : log'[k].act = log[j].act /\ log'[k].form = log[j].form
  <2>1. k \in 1 .. Len(lines)  BY <1>7
  <2>2. k < i => k \in DOMAIN log /\ log'[k] = log[k]  BY <1>1, <1>4, <1>6, <2>1
  <2>3. ~(k < i) => k \in i .. Len(log')  BY <1>1, <1>5, <1>6, <2>1
  <2> QED  BY <1>2, <1>4, <1>6, <2>1, <2>2, <2>3
<1>9. forged' \subseteq Hash /\ forged' # {}
  <2>1. i \in i .. Len(log') /\ i .. Len(log') \subseteq DOMAIN log'
    BY <1>1, <1>5, <1>6, <1>7
  <2>2. \A k \in DOMAIN log' : log'[k].hash \in Hash  BY <1>7 DEF Line
  <2> QED  BY <1>1, <1>2, <2>1, <2>2
<1> QED  BY <1>2, <1>4, <1>6, <1>8, <1>9

\* Nothing but a rewriting adds to the hashes an editor computed.
LEMMA ForgedStep ==
  ASSUME [Next]_vars
  PROVE  UNCHANGED forged \/ Rewrite
BY DEF Next, vars, Open, Close, Perform, Refuse, File, WriteFails, Crash, Tamper

\* An edit leaves a file, no longer than it was.
LEMMA TamperType ==
  ASSUME AuditAssumption, TypeInv, Tamper
  PROVE  log' \in Seq(Line) /\ genuine' \in Seq(Line) /\ NoLonger' /\ edits' = edits + 1
<1>1. TypeOK /\ NoLonger /\ ~torn /\ torn' = torn  BY DEF TypeInv, Tamper
<1>2. log \in Seq(Line) /\ genuine \in Seq(Line) /\ Len(log) <= Len(genuine)
  BY <1>1 DEF TypeOK, NoLonger
<1>3. ASSUME NEW lines \in Seq(Line), Len(lines) <= Len(log), Changed(lines), UNCHANGED genuine
      PROVE  log' \in Seq(Line) /\ genuine' \in Seq(Line) /\ NoLonger' /\ edits' = edits + 1
  BY <1>1, <1>2, <1>3 DEF Changed, NoLonger
<1>4. ASSUME NEW i \in 1 .. Len(log) - 1
      PROVE  Without(i) \in Seq(Line) /\ Len(Without(i)) <= Len(log)
  BY <1>2, WithoutIs
<1>5. ASSUME NEW i \in 1 .. Len(log) - 1
      PROVE  LET s == [log EXCEPT ![i] = log[i + 1], ![i + 1] = log[i]]
             IN  s \in Seq(Line) /\ Len(s) = Len(log)
  <2> DEFINE t == [log EXCEPT ![i] = log[i + 1]]
  <2>1. log[i] \in Line /\ log[i + 1] \in Line  BY <1>2
  <2>2. t \in Seq(Line) /\ Len(t) = Len(log)  BY <1>2, <2>1, ExceptSeq
  <2> HIDE DEF t
  <2>3. [t EXCEPT ![i + 1] = log[i]] \in Seq(Line) /\ Len([t EXCEPT ![i + 1] = log[i]]) = Len(log)
    BY <1>2, <2>1, <2>2, ExceptSeq
  <2> QED  BY <2>3 DEF t
<1>6. ASSUME NEW n \in 0 .. Len(log) - 1
      PROVE  /\ SubSeq(log, 1, n) \in Seq(Line) /\ Len(SubSeq(log, 1, n)) = n
             /\ SubSeq(genuine, 1, n) \in Seq(Line) /\ Len(SubSeq(genuine, 1, n)) = n
  <2>1. \A j \in 1 .. n : log[j] \in Line /\ genuine[j] \in Line  BY <1>2
  <2> QED  BY <1>2, <2>1, SubSeqProperties
<1>7. ASSUME NEW n \in 0 .. Len(log) - 1,
             Changed(SubSeq(log, 1, n)), genuine' = SubSeq(genuine, 1, n)
      PROVE  log' \in Seq(Line) /\ genuine' \in Seq(Line) /\ NoLonger' /\ edits' = edits + 1
  BY <1>1, <1>2, <1>6, <1>7 DEF Changed, NoLonger
<1> DEFINE Goal == log' \in Seq(Line) /\ genuine' \in Seq(Line) /\ NoLonger' /\ edits' = edits + 1
<1>8. ASSUME NEW i \in DOMAIN log, NEW fraction \in BOOLEAN, NEW result \in Result,
             NEW error \in Text \cup {NoText}, NEW other \in Text \cup {NoText},
             UNCHANGED genuine,
             Changed([log EXCEPT ![i] = [log[i] EXCEPT !.fraction = fraction, !.result = result,
                                                       !.error = error, !.other = other]])
      PROVE  Goal
  <2> DEFINE e == [log[i] EXCEPT !.fraction = fraction, !.result = result,
                                 !.error = error, !.other = other]
  <2>1. log[i] \in Line  BY <1>2
  <2>2. e \in Line  BY <2>1 DEF Line
  <2>3. i \in 1 .. Len(log)  BY <1>2
  <2>4. Changed([log EXCEPT ![i] = e])  BY <1>8
  <2> HIDE DEF e
  <2>5. [log EXCEPT ![i] = e] \in Seq(Line) /\ Len([log EXCEPT ![i] = e]) = Len(log)
    BY <1>2, <2>2, <2>3, ExceptSeq
  <2>6. Len([log EXCEPT ![i] = e]) <= Len(log)  BY <1>2, <2>5
  <2> QED  BY <1>3, <1>8, <2>4, <2>5, <2>6
<1>9. ASSUME NEW i \in 1 .. Len(log) - 1, UNCHANGED genuine,
              Changed(Without(i))
       PROVE  Goal
  BY <1>3, <1>4, <1>9
<1>10. ASSUME NEW i \in 1 .. Len(log) - 1, UNCHANGED genuine,
              Changed([log EXCEPT ![i] = log[i + 1], ![i + 1] = log[i]])
       PROVE  Goal
  <2> DEFINE s == [log EXCEPT ![i] = log[i + 1], ![i + 1] = log[i]]
  <2>1. s \in Seq(Line) /\ Len(s) = Len(log)  BY <1>5
  <2>2. Changed(s)  BY <1>10
  <2> HIDE DEF s
  <2>3. Len(s) <= Len(log)  BY <1>2, <2>1
  <2> QED  BY <1>3, <1>10, <2>1, <2>2, <2>3
<1> HIDE DEF Goal
<1>11. Goal  BY <1>7, <1>8, <1>9, <1>10, Zenon DEF Tamper, Goal
<1> QED  BY <1>11 DEF Goal
\* Every step keeps the types.
LEMMA TypeStep ==
  ASSUME AuditAssumption, TypeInv, [Next]_vars
  PROVE  TypeInv'
<1> USE AuditAssumption
<1>1. /\ TypeOK /\ Len(acts) <= MaxActs /\ Performed /\ NoLonger
      /\ acts \in Seq(Act) /\ edits \in Nat
  BY DEF TypeInv, TypeOK
<1>2. \A p \in Process : proc[p] \in Proc /\ proc[p].previous \in Hash
  BY <1>1 DEF TypeOK, Proc
<1>3. Genesis \in Hash  BY DEF Genesis, Hash
<1>4. ASSUME UNCHANGED vars PROVE TypeInv'
  BY <1>4 DEF TypeInv, TypeOK, Performed, NoLonger, vars
<1>5. ASSUME NEW p \in Process, Open(p) PROVE TypeInv'
  <2>1. Recovered(log) \in Hash  BY <1>1, RecoveredType DEF TypeOK
  <2>2. /\ proc' \in [Process -> Proc] /\ proc'[p].pc # "report"
        /\ \A q \in Process \ {p} : proc'[q] = proc[q]
    BY <1>1, <1>5, <2>1, TurnsType DEF Open
  <2>3. UNCHANGED <<log, torn, acts, genuine, edits, forged>>  BY <1>5 DEF Open
  <2>4. Performed'  BY <1>1, <2>2, <2>3 DEF Performed
  <2> QED  BY <1>1, <2>2, <2>3, <2>4 DEF TypeInv, TypeOK, NoLonger
<1>6. ASSUME NEW p \in Process, Close(p) PROVE TypeInv'
  <2>1. /\ proc' \in [Process -> Proc] /\ proc'[p].pc # "report"
        /\ \A q \in Process \ {p} : proc'[q] = proc[q]
    BY <1>1, <1>3, <1>6, TurnsType DEF Close
  <2>2. UNCHANGED <<log, torn, acts, genuine, edits, forged>>  BY <1>6 DEF Close
  <2>3. Performed'  BY <1>1, <2>1, <2>2 DEF Performed
  <2> QED  BY <1>1, <2>1, <2>2, <2>3 DEF TypeInv, TypeOK, NoLonger
<1>7. ASSUME NEW p \in Process, Perform(p) PROVE TypeInv'
  <2>1. /\ proc' \in [Process -> Proc]
        /\ \A q \in Process \ {p} : proc'[q] = proc[q]
    BY <1>1, <1>2, <1>7, TurnsType DEF Perform
  <2>2. PICK via \in {"command", "config"}, result \in Result, text \in Text :
          acts' = Append(acts, [via |-> via, result |-> result, text |-> text,
                                by |-> p, fate |-> "pending"])
    BY <1>7 DEF Perform
  <2> DEFINE a == [via |-> via, result |-> result, text |-> text,
                   by |-> p, fate |-> "pending"]
  <2>3. a \in Act /\ a.by = p /\ a.fate = "pending" /\ acts' = Append(acts, a)
    BY <2>2 DEF Act
  <2> HIDE DEF a
  <2>4. acts' \in Seq(Act) /\ Len(acts') = Len(acts) + 1  BY <1>1, <2>3
  <2>5. acts'[Len(acts) + 1] = a /\ \A i \in DOMAIN acts : acts'[i] = acts[i] /\ i \in DOMAIN acts'
    BY <1>1, <2>3
  <2>6. Len(acts) + 1 \in DOMAIN acts'  BY <1>1, <2>4
  <2>7. Performed'
    <3>1. ASSUME NEW q \in Process, proc'[q].pc = "report", q # p
          PROVE  \E i \in DOMAIN acts' : acts'[i].by = q /\ acts'[i].fate = "pending"
      BY <1>1, <2>1, <2>5, <3>1 DEF Performed
    <3> QED  BY <2>3, <2>5, <2>6, <3>1 DEF Performed
  <2>8. Len(acts') <= MaxActs  BY <1>1, <1>7, <2>4 DEF Perform, AuditAssumption
  <2> QED  BY <1>1, <1>7, <2>1, <2>4, <2>7, <2>8 DEF TypeInv, TypeOK, NoLonger, Perform
<1>8. ASSUME NEW p \in Process, proc[p].pc = "report",
             NEW fate \in {"acked", "refused", "lost"}, Meets(p, fate),
             NEW pc \in {"closed", "ready"}, NEW previous \in Hash, Turns(p, pc, previous),
             log' \in Seq(Line), torn' \in BOOLEAN, genuine' \in Seq(Line), NoLonger',
             UNCHANGED <<edits, forged>>
      PROVE  TypeInv'
  <2>1. /\ proc' \in [Process -> Proc] /\ proc'[p].pc # "report"
        /\ \A q \in Process \ {p} : proc'[q] = proc[q]
    BY <1>1, <1>8, TurnsType
  <2>2. /\ acts' \in Seq(Act) /\ Len(acts') = Len(acts)
        /\ \A q \in Process \ {p} : proc[q].pc = "report" =>
             \E i \in DOMAIN acts' : acts'[i].by = q /\ acts'[i].fate = "pending"
    BY <1>8, MeetsKeeps
  <2>3. Performed'  BY <2>1, <2>2 DEF Performed
  <2> QED  BY <1>1, <1>8, <2>1, <2>2, <2>3 DEF TypeInv, TypeOK
<1>9. ASSUME NEW p \in Process, Refuse(p) PROVE TypeInv'
  <2>1. log' \in Seq(Line) /\ torn' \in BOOLEAN /\ genuine' \in Seq(Line) /\ NoLonger'
    BY <1>1, <1>9 DEF Refuse, TypeOK, NoLonger
  <2> QED  BY <1>2, <1>8, <1>9, <2>1 DEF Refuse
<1>10. ASSUME NEW p \in Process, File(p) PROVE TypeInv'
  <2>1. log' \in Seq(Line) /\ torn' \in BOOLEAN /\ genuine' \in Seq(Line) /\ NoLonger'
    BY <1>10, RemainsType DEF File
  <2>2. Entry(p).hash \in Hash  BY <1>10, EntryIs DEF File, Line
  <2> QED  BY <1>8, <1>10, <2>1, <2>2 DEF File
<1>11. ASSUME NEW p \in Process, WriteFails(p) PROVE TypeInv'
  <2>1. log' \in Seq(Line) /\ torn' \in BOOLEAN /\ genuine' \in Seq(Line) /\ NoLonger'
    BY <1>11, RemainsType DEF WriteFails
  <2> QED  BY <1>2, <1>8, <1>11, <2>1 DEF WriteFails
<1>12. ASSUME NEW p \in Process, Crash(p) PROVE TypeInv'
  <2>1. CASE proc[p].pc = "report"
    <3>1. log' \in Seq(Line) /\ torn' \in BOOLEAN /\ genuine' \in Seq(Line) /\ NoLonger'
      <4>1. CASE UNCHANGED <<log, torn, genuine>>  BY <1>1, <4>1 DEF TypeOK, NoLonger
      <4>2. CASE \/ Remains(p)
                 \/ /\ log' = LinesWith(Entry(p)) /\ torn' = FALSE
                    /\ genuine' = Append(genuine, Entry(p))
        BY <2>1, <4>2, RemainsType
      <4> QED  BY <1>12, <4>1, <4>2 DEF Crash
    <3> QED  BY <1>3, <1>8, <1>12, <2>1, <3>1 DEF Crash
  <2>2. CASE proc[p].pc # "report"
    <3>1. /\ proc' \in [Process -> Proc] /\ proc'[p].pc # "report"
          /\ \A q \in Process \ {p} : proc'[q] = proc[q]
      BY <1>1, <1>3, <1>12, TurnsType DEF Crash
    <3> QED  BY <1>1, <1>12, <2>2, <3>1 DEF TypeInv, TypeOK, Performed, NoLonger, Crash
  <2> QED  BY <2>1, <2>2
<1>13. ASSUME Tamper PROVE TypeInv'
  <2>1. log' \in Seq(Line) /\ genuine' \in Seq(Line) /\ NoLonger' /\ edits' = edits + 1
    BY <1>13, TamperType
  <2>2. UNCHANGED <<torn, proc, acts, forged>>  BY <1>13 DEF Tamper
  <2> QED  BY <1>1, <2>1, <2>2 DEF TypeInv, TypeOK, Performed
<1>14. ASSUME Rewrite PROVE TypeInv'
  <2>1. /\ log' \in Seq(Line) /\ Len(log') <= Len(log) /\ edits' = edits + 1
        /\ forged' \subseteq Hash
    BY <1>14, RewriteIs
  <2>2. UNCHANGED <<torn, proc, acts, genuine>> /\ ~torn  BY <1>14 DEF Rewrite
  <2>3. Len(log') \in Nat /\ Len(log) \in Nat /\ Len(genuine) \in Nat
    BY <1>1, <2>1 DEF TypeOK
  <2>4. NoLonger'  BY <1>1, <2>1, <2>2, <2>3 DEF NoLonger
  <2> QED  BY <1>1, <2>1, <2>2, <2>4 DEF TypeInv, TypeOK, Performed
<1> QED
  BY <1>4, <1>5, <1>6, <1>7, <1>9, <1>10, <1>11, <1>12, <1>13, <1>14 DEF Next

\* The types hold to begin with.
LEMMA TypeInit ==
  ASSUME AuditAssumption, Init
  PROVE  TypeInv
<1>1. Genesis \in Hash  BY DEF Genesis, Hash
<1>2. log \in Seq(Line) /\ genuine \in Seq(Line) /\ acts \in Seq(Act) /\ Len(acts) = 0
  BY DEF Init
<1>3. \A p \in Process : proc[p] \in Proc /\ proc[p].pc = "closed"
  BY <1>1 DEF Init, Proc
<1>4. proc \in [Process -> Proc]  BY <1>1 DEF Init, Proc
<1>5. Len(log) = 0 /\ Len(genuine) = 0 /\ torn = FALSE /\ edits \in Nat /\ forged = {}
  BY DEF Init
<1>6. TypeOK  BY <1>2, <1>4, <1>5 DEF TypeOK
<1>7. Performed  BY <1>3 DEF Performed
<1>8. NoLonger  BY <1>5 DEF NoLonger
<1> QED  BY <1>2, <1>6, <1>7, <1>8 DEF TypeInv, AuditAssumption

\* Every variable of the audit log keeps its type: AuditLogger, its file and
\* what is done and filed.
THEOREM TypeCorrect == Spec => []TypeOK
<1>1. Init => TypeInv  BY AuditAssumption, TypeInit
<1>2. TypeInv /\ [Next]_vars => TypeInv'  BY AuditAssumption, TypeStep
<1>3. TypeInv => TypeOK  BY DEF TypeInv
<1> QED  BY <1>1, <1>2, <1>3, PTL DEF Spec
------------------------------------------------------------------------------
(***************************************************************************)
(* The chain.  While nothing has edited the file and every line of it is an *)
(* entry, it verifies, and the one process that has it open knows the hash  *)
(* it ends with, unless the last line lacks its newline, in which case      *)
(* whatever comes next will spoil it.                                       *)
(***************************************************************************)

LastHash(lines) == IF lines = <<>> THEN Genesis ELSE lines[Len(lines)].hash

Alone == \A p, q \in Process : proc[p].pc # "closed" /\ proc[q].pc # "closed" => p = q

Chained ==
  edits = 0 /\ AllEntries(log) =>
    /\ Verifies(log)
    /\ \A p \in Process : proc[p].pc # "closed" =>
         torn \/ proc[p].previous = LastHash(log)

\* Of a file of entries, recovery yields the last hash.
LEMMA RecoveredIsLast ==
  ASSUME NEW lines \in Seq(Line), AllEntries(lines)
  PROVE  Recovered(lines) = LastHash(lines)
<1>1. Parsed(lines) = DOMAIN lines /\ ~ \E i \in DOMAIN lines : lines[i].form = "bytes"
  BY DEF Parsed, AllEntries
<1>2. CASE lines = <<>>  BY <1>1, <1>2 DEF Recovered, LastHash
<1>3. CASE lines # <<>>
  <2>1. Len(lines) \in Parsed(lines) /\ DOMAIN lines = 1 .. Len(lines)  BY <1>1, <1>3
  <2> DEFINE k == CHOOSE i \in Parsed(lines) : \A j \in Parsed(lines) : j <= i
  <2>2. k \in Parsed(lines) /\ \A j \in Parsed(lines) : j <= k  BY <2>1, LastParsed
  <2>3. Recovered(lines) = lines[k].hash  BY <1>1, <2>1 DEF Recovered
  <2> HIDE DEF k
  <2>4. k = Len(lines)  BY <1>1, <2>1, <2>2
  <2> QED  BY <1>3, <2>3, <2>4 DEF LastHash
<1> QED  BY <1>2, <1>3

\* An entry chained to the last keeps a log that verifies one that does.
LEMMA AppendVerifies ==
  ASSUME NEW lines \in Seq(Line), Verifies(lines), NEW e \in Line, e.form = "entry",
         ~ (e.result = "Failure" /\ e.other # NoText),
         e.hash = NextHash(LastHash(lines), e)
  PROVE  Verifies(Append(lines, e)) /\ LastHash(Append(lines, e)) = e.hash
<1> DEFINE s == Append(lines, e)
           n == Len(lines) + 1
<1>1. /\ Len(s) = n /\ DOMAIN s = 1 .. n /\ DOMAIN lines = 1 .. Len(lines)
      /\ s[n] = e /\ \A i \in 1 .. Len(lines) : s[i] = lines[i]
      /\ Len(lines) \in Nat /\ (lines = <<>> <=> Len(lines) = 0)
  OBVIOUS
<1> HIDE DEF s
<1>2. ASSUME NEW i \in 1 .. Len(lines) PROVE ~Broken(s, i)
  <2>1. ~Broken(lines, i)  BY <1>1 DEF Verifies
  <2>2. i # 1 => i - 1 \in 1 .. Len(lines)  BY <1>1
  <2> QED  BY <1>1, <2>1, <2>2 DEF Broken
<1>3. ~Broken(s, n)
  <2>1. LastHash(lines) = IF n = 1 THEN Genesis ELSE s[n - 1].hash
    BY <1>1 DEF LastHash
  <2> QED  BY <1>1, <2>1 DEF Broken
<1>4. Verifies(s)
  <2>1. \A i \in 1 .. n : i = n \/ i \in 1 .. Len(lines)  BY <1>1
  <2> QED  BY <1>1, <1>2, <1>3, <2>1 DEF Verifies
<1>5. s # <<>>  BY <1>1
<1> QED  BY <1>1, <1>4, <1>5 DEF LastHash, s

\* However much of a write is left, the file verifies if it is all entries, and
\* ends with the writer's entry, or as before, or without its newline.
LEMMA RemainsChained ==
  ASSUME AuditAssumption, TypeInv, Chained, NEW p \in Process, proc[p].pc = "report",
         edits = 0, AllEntries(log'),
         \/ Remains(p)
         \/ /\ log' = LinesWith(Entry(p)) /\ torn' = FALSE
            /\ genuine' = Append(genuine, Entry(p))
  PROVE  /\ Verifies(log')
         /\ \/ UNCHANGED <<log, torn>> \/ torn' \/ LastHash(log') = Entry(p).hash
<1>1. log \in Seq(Line) /\ TypeOK /\ NoLonger  BY DEF TypeInv, TypeOK
<1>2. /\ Entry(p) \in Line /\ Entry(p).form = "entry"
      /\ Entry(p).hash = NextHash(proc[p].previous, Entry(p))
      /\ ~ (Entry(p).result = "Failure" /\ Entry(p).other # NoText)
  BY EntryIs
<1>3. CASE UNCHANGED <<log, torn>>  BY <1>3 DEF Chained
<1>4. ASSUME NEW form \in {"cut", "bytes"}, log' = LinesWith(Cut(form)) PROVE FALSE
  <2>1. Cut(form) \in Line /\ Cut(form).form # "entry"  BY CutType
  <2>2. CASE torn
    <3>1. /\ LinesWith(Cut(form))[Len(log)].form # "entry"
          /\ Len(LinesWith(Cut(form))) = Len(log) /\ LinesWith(Cut(form)) \in Seq(Line)
      BY <1>1, <2>1, <2>2, LinesType
    <3>2. Len(log) \in DOMAIN log'  BY <1>1, <1>4, <2>2, <3>1 DEF NoLonger
    <3> QED  BY <1>4, <3>1, <3>2 DEF AllEntries
  <2>3. CASE ~torn
    <3>1. log' = Append(log, Cut(form))  BY <1>1, <1>4, <2>1, <2>3, LinesType
    <3>2. Len(log) + 1 \in DOMAIN log' /\ log'[Len(log) + 1] = Cut(form)  BY <1>1, <3>1
    <3> QED  BY <2>1, <3>2 DEF AllEntries
  <2> QED  BY <2>2, <2>3
<1>5. ASSUME log' = LinesWith(Entry(p))
      PROVE  Verifies(log') /\ LastHash(log') = Entry(p).hash
  <2>1. CASE torn
    <3>1. /\ LinesWith(Entry(p))[Len(log)].form # "entry"
          /\ Len(LinesWith(Entry(p))) = Len(log) /\ LinesWith(Entry(p)) \in Seq(Line)
      BY <1>1, <1>2, <2>1, LinesType
    <3>2. Len(log) \in DOMAIN log'  BY <1>1, <1>5, <2>1, <3>1 DEF NoLonger
    <3> QED  BY <1>5, <3>1, <3>2 DEF AllEntries
  <2>2. CASE ~torn
    <3>1. log' = Append(log, Entry(p))  BY <1>1, <1>2, <1>5, <2>2, LinesType
    <3>2. AllEntries(log)
      <4>1. \A i \in DOMAIN log : i \in DOMAIN log' /\ log'[i] = log[i]  BY <1>1, <1>2, <3>1
      <4> QED  BY <4>1 DEF AllEntries
    <3>3. Verifies(log) /\ proc[p].previous = LastHash(log)
      BY <2>2, <3>2 DEF Chained
    <3> QED  BY <1>1, <1>2, <3>1, <3>3, AppendVerifies
  <2> QED  BY <2>1, <2>2
<1> QED  BY <1>3, <1>4, <1>5 DEF Remains
\* A step that turns one process to another place, with the file as it was,
\* keeps the chain if that process knows its end or is done with it.
LEMMA TurnKeepsChained ==
  ASSUME TypeOK, Chained, Alone, NEW p \in Process, UNCHANGED <<log, torn, edits>>,
         NEW pc \in {"closed", "ready", "report"}, NEW previous \in Hash,
         Turns(p, pc, previous),
         pc # "closed" => \/ proc[p].pc # "closed" /\ previous = proc[p].previous
                          \/ AllEntries(log) => previous = LastHash(log)
  PROVE  Chained'
<1>1. /\ proc'[p].pc = pc /\ proc'[p].previous = previous
      /\ \A q \in Process \ {p} : proc'[q] = proc[q]
  BY TurnsType
<1>2. ASSUME edits = 0, AllEntries(log)
      PROVE  /\ Verifies(log)
             /\ \A q \in Process : proc'[q].pc # "closed" =>
                  torn \/ proc'[q].previous = LastHash(log)
  BY <1>1, <1>2 DEF Chained
<1> QED  BY <1>2 DEF Chained

\* If one process at a time has the log open, every step keeps that so and the
\* chain whole.
LEMMA ChainStep ==
  ASSUME AuditAssumption, ~Concurrent, TypeInv, Chained, Alone, [Next]_vars
  PROVE  Chained' /\ Alone'
<1> USE AuditAssumption
<1>1. TypeOK /\ edits \in Nat /\ log \in Seq(Line)  BY DEF TypeInv, TypeOK
<1>2. \A p \in Process : proc[p].previous \in Hash  BY <1>1 DEF TypeOK, Proc
<1>3. Genesis \in Hash  BY DEF Genesis, Hash
<1>4. ASSUME UNCHANGED vars PROVE Chained' /\ Alone'
  BY <1>4 DEF Chained, Alone, vars
<1>5. ASSUME NEW p \in Process, Open(p) PROVE Chained' /\ Alone'
  <2>1. Recovered(log) \in Hash  BY <1>1, RecoveredType
  <2>2. AllEntries(log) => Recovered(log) = LastHash(log)  BY <1>1, RecoveredIsLast
  <2>3. Chained'  BY <1>1, <1>5, <2>1, <2>2, TurnKeepsChained DEF Open
  <2>4. \A q \in Process \ {p} : proc'[q].pc = "closed"
    BY <1>1, <1>5, <2>1, TurnsType DEF Open
  <2> QED  BY <2>3, <2>4 DEF Alone
<1>6. ASSUME NEW p \in Process, NEW pc \in {"closed", "ready", "report"},
             NEW previous \in Hash, Turns(p, pc, previous), proc[p].pc # "closed"
      PROVE  Alone' /\ \A q \in Process \ {p} : proc'[q] = proc[q] /\ proc[q].pc = "closed"
  <2>1. \A q \in Process \ {p} : proc'[q] = proc[q]  BY <1>1, <1>6, TurnsType
  <2>2. \A q \in Process \ {p} : proc[q].pc = "closed"  BY <1>6 DEF Alone
  <2> QED  BY <2>1, <2>2 DEF Alone
<1>7. ASSUME NEW p \in Process, Close(p) PROVE Chained' /\ Alone'
  BY <1>1, <1>3, <1>6, <1>7, TurnKeepsChained DEF Close
<1>8. ASSUME NEW p \in Process, Perform(p) PROVE Chained' /\ Alone'
  <2>1. /\ UNCHANGED <<log, torn, edits>> /\ proc[p].pc = "ready"
        /\ Turns(p, "report", proc[p].previous)
    BY <1>8 DEF Perform
  <2> QED  BY <1>1, <1>2, <1>6, <2>1, TurnKeepsChained
<1>9. ASSUME NEW p \in Process, Refuse(p) PROVE Chained' /\ Alone'
  <2>1. /\ UNCHANGED <<log, torn, edits>> /\ proc[p].pc = "report"
        /\ Turns(p, "ready", proc[p].previous)
    BY <1>9 DEF Refuse
  <2> QED  BY <1>1, <1>2, <1>6, <2>1, TurnKeepsChained
<1>10. ASSUME NEW p \in Process, File(p) PROVE Chained' /\ Alone'
  <2>1. /\ log' = LinesWith(Entry(p)) /\ torn' = FALSE
        /\ genuine' = Append(genuine, Entry(p)) /\ edits' = edits
        /\ proc[p].pc = "report" /\ Turns(p, "ready", Entry(p).hash)
    BY <1>10 DEF File
  <2>2. Entry(p).hash \in Hash  BY <2>1, EntryIs DEF Line
  <2>3. Alone' /\ \A q \in Process \ {p} : proc'[q].pc = "closed"  BY <1>6, <2>1, <2>2
  <2>4. proc'[p].previous = Entry(p).hash  BY <1>1, <2>1, <2>2, TurnsType
  <2>5. ASSUME edits = 0, AllEntries(log')
        PROVE  Verifies(log') /\ LastHash(log') = Entry(p).hash
    <3>1. /\ Verifies(log')
          /\ \/ UNCHANGED <<log, torn>> \/ torn' \/ LastHash(log') = Entry(p).hash
      BY <2>1, <2>5, RemainsChained
    <3>2. log' # log
      <4>1. CASE torn
        <5>1. LinesWith(Entry(p))[Len(log)].form # "entry" /\ log' \in Seq(Line)
              /\ Len(log') = Len(log)
          BY <1>1, <2>1, <4>1, EntryIs, LinesType DEF TypeInv
        <5>2. Len(log) \in DOMAIN log'  BY <1>1, <4>1, <5>1 DEF TypeInv, NoLonger
        <5> QED  BY <2>1, <2>5, <5>1, <5>2 DEF AllEntries
      <4>2. CASE ~torn
        <5>1. log' = Append(log, Entry(p))  BY <1>1, <2>1, <4>2, EntryIs, LinesType DEF TypeInv
        <5>2. Entry(p) \in Line  BY <2>1, EntryIs
        <5>3. Len(log') = Len(log) + 1  BY <1>1, <5>1, <5>2
        <5> QED  BY <1>1, <5>3
      <4> QED  BY <4>1, <4>2
    <3> QED  BY <2>1, <3>1, <3>2
  <2>6. Chained'  BY <2>1, <2>3, <2>4, <2>5 DEF Chained
  <2> QED  BY <2>3, <2>6
<1>11. ASSUME NEW p \in Process, WriteFails(p) PROVE Chained' /\ Alone'
  <2>1. /\ Remains(p) /\ edits' = edits
        /\ proc[p].pc = "report" /\ Turns(p, "ready", proc[p].previous)
    BY <1>11 DEF WriteFails
  <2>2. Alone' /\ \A q \in Process \ {p} : proc'[q].pc = "closed"  BY <1>2, <1>6, <2>1
  <2>3. proc'[p].previous = proc[p].previous  BY <1>1, <1>2, <2>1, TurnsType
  <2>4. ASSUME edits = 0, AllEntries(log')
        PROVE  Verifies(log') /\ (torn' \/ proc[p].previous = LastHash(log'))
    <3>1. Verifies(log')  BY <2>1, <2>4, RemainsChained
    <3>2. torn' \/ UNCHANGED <<log, torn>>  BY <2>1 DEF Remains
    <3>3. CASE UNCHANGED <<log, torn>>  BY <2>1, <2>4, <3>3 DEF Chained
    <3> QED  BY <3>1, <3>2, <3>3
  <2>5. Chained'  BY <2>1, <2>2, <2>3, <2>4 DEF Chained
  <2> QED  BY <2>2, <2>5
<1>12. ASSUME NEW p \in Process, Crash(p) PROVE Chained' /\ Alone'
  <2>1. edits' = edits /\ proc[p].pc # "closed" /\ Turns(p, "closed", Genesis)
    BY <1>12 DEF Crash
  <2>2. Alone' /\ \A q \in Process \ {p} : proc'[q].pc = "closed"  BY <1>3, <1>6, <2>1
  <2>3. proc'[p].pc = "closed"  BY <1>1, <1>3, <2>1, TurnsType
  <2>4. ASSUME edits = 0, AllEntries(log') PROVE Verifies(log')
    <3>1. CASE UNCHANGED <<log, torn, genuine>>  BY <2>4, <3>1 DEF Chained
    <3>2. CASE /\ proc[p].pc = "report"
               /\ \/ Remains(p)
                  \/ /\ log' = LinesWith(Entry(p)) /\ torn' = FALSE
                     /\ genuine' = Append(genuine, Entry(p))
      BY <2>4, <3>2, RemainsChained
    <3> QED  BY <1>12, <3>1, <3>2 DEF Crash
  <2>5. Chained'  BY <2>1, <2>2, <2>3, <2>4 DEF Chained
  <2> QED  BY <2>2, <2>5
<1>13. ASSUME Tamper PROVE Chained' /\ Alone'
  <2>1. edits' = edits + 1  BY <1>13, TamperType
  <2>2. proc' = proc  BY <1>13 DEF Tamper
  <2>3. edits' # 0  BY <1>1, <2>1
  <2> QED  BY <2>2, <2>3 DEF Chained, Alone
<1>14. ASSUME Rewrite PROVE Chained' /\ Alone'
  <2>1. edits' = edits + 1  BY <1>14, RewriteIs
  <2>2. proc' = proc  BY <1>14 DEF Rewrite
  <2>3. edits' # 0  BY <1>1, <2>1
  <2> QED  BY <2>2, <2>3 DEF Chained, Alone
<1> QED
  BY <1>4, <1>5, <1>7, <1>8, <1>9, <1>10, <1>11, <1>12, <1>13, <1>14 DEF Next

\* A log that only the program has written, one process at a time, and of
\* which every line is an entry, verifies, through any number of crashes and
\* failed or cut-off writes: recover_chain, the writers and verify_integrity
\* agree on what each hash covers.
THEOREM UntouchedLogVerifies ==
  ASSUME ~Concurrent
  PROVE  Spec => []UntouchedVerifies
<1>1. Init => TypeInv /\ Chained /\ Alone
  <2> SUFFICES ASSUME Init PROVE TypeInv /\ Chained /\ Alone  OBVIOUS
  <2>1. TypeInv  BY AuditAssumption, TypeInit
  <2>2. \A p \in Process : proc[p].pc = "closed"  BY DEF Init
  <2>3. Verifies(log)  BY DEF Init, Verifies
  <2> QED  BY <2>1, <2>2, <2>3 DEF Chained, Alone
<1>2. TypeInv /\ Chained /\ Alone /\ [Next]_vars => (TypeInv /\ Chained /\ Alone)'
  BY AuditAssumption, TypeStep, ChainStep
<1>3. Chained => UntouchedVerifies  BY DEF Chained, UntouchedVerifies, AllEntries
<1> QED  BY <1>1, <1>2, <1>3, PTL DEF Spec
------------------------------------------------------------------------------
(* Acknowledgement, with any number of processes at once. *)

\* The log has the entry of an act.
HasEntry(lines, i) == \E k \in DOMAIN lines : lines[k].form = "entry" /\ lines[k].act = i

\* A file of entries is missing nothing acknowledged.
Held ==
  edits = 0 /\ AllEntries(log) =>
    \A i \in DOMAIN acts : acts[i].fate = "acked" => HasEntry(log, i)

\* What a line written to a file does not spoil, it keeps.
LEMMA WrittenKeeps ==
  ASSUME AuditAssumption, TypeInv, NEW line \in Line, log' = LinesWith(line),
         AllEntries(log')
  PROVE  /\ AllEntries(log) /\ line.form = "entry" /\ HasEntry(log', line.act)
         /\ \A i : HasEntry(log, i) => HasEntry(log', i)
<1>1. TypeOK /\ NoLonger /\ log \in Seq(Line)  BY DEF TypeInv, TypeOK
<1>2. ~torn
  <2>1. SUFFICES ASSUME torn PROVE FALSE  OBVIOUS
  <2>2. log'[Len(log)].form # "entry" /\ Len(log') = Len(log) /\ log' \in Seq(Line)
    BY <1>1, <2>1, LinesType
  <2>3. Len(log) \in DOMAIN log'  BY <1>1, <2>1, <2>2 DEF NoLonger
  <2> QED  BY <2>2, <2>3 DEF AllEntries
<1>3. log' = Append(log, line)  BY <1>1, <1>2, LinesType
<1>4. \A k \in DOMAIN log : k \in DOMAIN log' /\ log'[k] = log[k]  BY <1>1, <1>3
<1>5. Len(log) + 1 \in DOMAIN log' /\ log'[Len(log) + 1] = line  BY <1>1, <1>3
<1> QED  BY <1>4, <1>5 DEF AllEntries, HasEntry

\* So does a write that was not whole.
LEMMA RemainsKeeps ==
  ASSUME AuditAssumption, TypeInv, NEW p \in Process, proc[p].pc = "report",
         Remains(p), AllEntries(log')
  PROVE  AllEntries(log) /\ \A i : HasEntry(log, i) => HasEntry(log', i)
<1>1. CASE UNCHANGED <<log, torn, genuine>>  BY <1>1
<1>2. ASSUME NEW form \in {"cut", "bytes"}, log' = LinesWith(Cut(form)) PROVE FALSE
  <2>1. Cut(form) \in Line /\ Cut(form).form = form  BY CutType
  <2>2. Cut(form).form = "entry"  BY <1>2, <2>1, WrittenKeeps
  <2> QED  BY <2>1, <2>2
<1>3. CASE log' = LinesWith(Entry(p))  BY <1>3, EntryIs, WrittenKeeps
<1> QED  BY <1>1, <1>2, <1>3 DEF Remains

\* Every step keeps what was acknowledged.
LEMMA HeldStep ==
  ASSUME AuditAssumption, TypeInv, Held, [Next]_vars
  PROVE  Held'
<1> USE AuditAssumption
<1>1. /\ TypeOK /\ edits \in Nat /\ acts \in Seq(Act) /\ DOMAIN acts = 1 .. Len(acts)
  BY DEF TypeInv, TypeOK
<1>2. ASSUME NEW p \in Process, proc[p].pc = "report", log' = LinesWith(Entry(p)),
             AllEntries(log')
      PROVE  /\ AllEntries(log) /\ HasEntry(log', Pending(p))
             /\ \A i : HasEntry(log, i) => HasEntry(log', i)
  <2>1. Entry(p) \in Line /\ Entry(p).act = Pending(p)  BY <1>2, EntryIs
  <2> QED  BY <1>2, <2>1, WrittenKeeps
<1>3. ASSUME NEW p \in Process, proc[p].pc = "report",
             NEW fate \in {"acked", "refused", "lost"}, Meets(p, fate), edits' = edits,
             AllEntries(log') =>
               /\ AllEntries(log)
               /\ \A i : HasEntry(log, i) => HasEntry(log', i)
               /\ fate = "acked" => HasEntry(log', Pending(p))
      PROVE  Held'
  <2> DEFINE k == Pending(p)
             a == [acts[k] EXCEPT !.fate = fate]
  <2>1. k \in DOMAIN acts  BY <1>3, PendingIs DEF TypeInv
  <2>2. acts[k] \in Act  BY <1>1, <2>1
  <2>3. a \in Act /\ a.fate = fate  BY <2>2 DEF Act
  <2>4. acts' = [acts EXCEPT ![k] = a]  BY <1>3 DEF Meets
  <2> HIDE DEF a, k
  <2>5. DOMAIN acts' = DOMAIN acts /\ \A i \in DOMAIN acts : acts'[i] = IF i = k THEN a ELSE acts[i]
    BY <1>1, <2>1, <2>4
  <2>6. ASSUME edits = 0, AllEntries(log'), NEW i \in DOMAIN acts', acts'[i].fate = "acked"
        PROVE  HasEntry(log', i)
    <3>1. CASE i = k  BY <1>3, <2>3, <2>5, <2>6, <3>1 DEF k
    <3>2. CASE i # k  BY <1>3, <2>5, <2>6, <3>2 DEF Held
    <3> QED  BY <3>1, <3>2
  <2> QED  BY <1>3, <2>6 DEF Held
<1>4. ASSUME UNCHANGED <<log, torn, acts, edits>> PROVE Held'
  BY <1>4 DEF Held, HasEntry, AllEntries
<1>5. ASSUME NEW p \in Process, Perform(p) PROVE Held'
  <2>1. PICK via \in {"command", "config"}, result \in Result, text \in Text :
          acts' = Append(acts, [via |-> via, result |-> result, text |-> text,
                                by |-> p, fate |-> "pending"])
    BY <1>5 DEF Perform
  <2> DEFINE a == [via |-> via, result |-> result, text |-> text,
                   by |-> p, fate |-> "pending"]
  <2>2. a.fate = "pending" /\ acts' = Append(acts, a)  BY <2>1
  <2> HIDE DEF a
  <2>3. \A i \in DOMAIN acts' : acts'[i] = a \/ (i \in DOMAIN acts /\ acts'[i] = acts[i])
    BY <1>1, <2>2
  <2>4. UNCHANGED <<log, torn, edits>>  BY <1>5 DEF Perform
  <2> QED  BY <2>2, <2>3, <2>4 DEF Held, HasEntry, AllEntries
<1>6. ASSUME NEW p \in Process, Refuse(p) PROVE Held'
  <2>1. UNCHANGED <<log, torn, edits>> /\ proc[p].pc = "report" /\ Meets(p, "refused")
    BY <1>6 DEF Refuse
  <2> QED  BY <1>3, <2>1 DEF AllEntries, HasEntry
<1>7. ASSUME NEW p \in Process, File(p) PROVE Held'
  <2>1. /\ log' = LinesWith(Entry(p)) /\ edits' = edits
        /\ proc[p].pc = "report" /\ Meets(p, "acked")
    BY <1>7 DEF File
  <2> QED  BY <1>2, <1>3, <2>1
<1>8. ASSUME NEW p \in Process, WriteFails(p) PROVE Held'
  <2>1. Remains(p) /\ edits' = edits /\ proc[p].pc = "report" /\ Meets(p, "lost")
    BY <1>8 DEF WriteFails
  <2> QED  BY <1>3, <2>1, RemainsKeeps
<1>9. ASSUME NEW p \in Process, Crash(p) PROVE Held'
  <2>1. edits' = edits  BY <1>9 DEF Crash
  <2>2. CASE proc[p].pc = "report"
    <3>1. Meets(p, "lost")  BY <1>9, <2>2 DEF Crash
    <3>2. CASE UNCHANGED <<log, torn, genuine>>
      BY <1>3, <2>1, <2>2, <3>1, <3>2 DEF AllEntries, HasEntry
    <3>3. CASE log' = LinesWith(Entry(p))  BY <1>2, <1>3, <2>1, <2>2, <3>1, <3>3
    <3>4. CASE Remains(p)  BY <1>3, <2>1, <2>2, <3>1, <3>4, RemainsKeeps
    <3> QED  BY <1>9, <3>2, <3>3, <3>4 DEF Crash
  <2>3. CASE proc[p].pc # "report"
    <3>1. UNCHANGED <<log, torn, acts, edits>>  BY <1>9, <2>3 DEF Crash
    <3> QED  BY <1>4, <3>1
  <2> QED  BY <2>2, <2>3
<1>10. ASSUME Tamper \/ Rewrite PROVE Held'
  <2>1. edits' = edits + 1  BY <1>10, TamperType, RewriteIs
  <2>2. edits' # 0  BY <1>1, <2>1
  <2> QED  BY <2>2 DEF Held
<1> QED
  BY <1>4, <1>5, <1>6, <1>7, <1>8, <1>9, <1>10 DEF Next, vars, Open, Close

\* An entry a writer was told is logged can be read back from a file no write
\* to which was cut off, however many processes have it open and however many
\* of them crashed.
THEOREM AcknowledgedIsHeld == Spec => []AcknowledgedIsReadable
<1>1. Init => TypeInv /\ Held
  <2>1. Init => Held  BY DEF Init, Held
  <2> QED  BY <2>1, AuditAssumption, TypeInit
<1>2. TypeInv /\ Held /\ [Next]_vars => (TypeInv /\ Held)'
  BY AuditAssumption, TypeStep, HeldStep
<1>3. Held => AcknowledgedIsReadable  BY DEF Held, HasEntry, AcknowledgedIsReadable
<1> QED  BY <1>1, <1>2, <1>3, PTL DEF Spec

------------------------------------------------------------------------------
(* What a step does to the acts and to the file. *)

\* A filed act is one whose entry is, or may be, in the file.
IsFiled(as, i) == i \in DOMAIN as /\ as[i].fate \in {"acked", "lost"}

\* Whoever meets a fate is the only one whose act changes, and only its fate.
LEMMA MeetsIs ==
  ASSUME TypeInv, NEW p \in Process, proc[p].pc = "report",
         NEW fate \in {"acked", "refused", "lost"}, Meets(p, fate)
  PROVE  /\ DOMAIN acts' = DOMAIN acts
         /\ acts'[Pending(p)].fate = fate
         /\ \A i \in DOMAIN acts :
              /\ acts'[i].via = acts[i].via /\ acts'[i].result = acts[i].result
              /\ acts'[i].text = acts[i].text /\ acts'[i].by = acts[i].by
              /\ i # Pending(p) => acts'[i] = acts[i]
<1> DEFINE k == Pending(p)
           a == [acts[k] EXCEPT !.fate = fate]
<1>1. k \in DOMAIN acts  BY PendingIs DEF TypeInv
<1>2. acts \in Seq(Act) /\ DOMAIN acts = 1 .. Len(acts)  BY DEF TypeInv, TypeOK
<1>3. acts[k] \in Act  BY <1>1, <1>2
<1>4. /\ a \in Act /\ a.fate = fate /\ a.via = acts[k].via /\ a.result = acts[k].result
      /\ a.text = acts[k].text /\ a.by = acts[k].by
  BY <1>3 DEF Act
<1>5. acts' = [acts EXCEPT ![k] = a]  BY DEF Meets
<1> HIDE DEF a
<1>6. DOMAIN acts' = DOMAIN acts
      /\ \A j \in DOMAIN acts : acts'[j] = IF j = k THEN a ELSE acts[j]
  BY <1>1, <1>2, <1>5
<1> QED  BY <1>1, <1>4, <1>6

\* What a step may do to the acts: add one, or settle one that was pending.
LEMMA ActsStep ==
  ASSUME AuditAssumption, TypeInv, [Next]_vars
  PROVE  \/ UNCHANGED acts
         \/ \E p \in Process :
              /\ proc[p].pc = "ready" /\ Turns(p, "report", proc[p].previous)
              /\ UNCHANGED <<log, torn, genuine, edits>>
              /\ \E a \in Act : a.by = p /\ a.fate = "pending" /\ acts' = Append(acts, a)
         \/ \E p \in Process, fate \in {"acked", "refused", "lost"} :
              proc[p].pc = "report" /\ Meets(p, fate)
<1>1. ASSUME NEW p \in Process, Perform(p)
      PROVE  \E a \in Act : a.by = p /\ a.fate = "pending" /\ acts' = Append(acts, a)
  <2>1. PICK via \in {"command", "config"}, result \in Result, text \in Text :
          acts' = Append(acts, [via |-> via, result |-> result, text |-> text,
                                by |-> p, fate |-> "pending"])
    BY <1>1 DEF Perform
  <2>2. [via |-> via, result |-> result, text |-> text, by |-> p, fate |-> "pending"] \in Act
    BY DEF Act
  <2> QED  BY <2>1, <2>2
<1>2. ASSUME NEW p \in Process, Perform(p)
      PROVE  /\ proc[p].pc = "ready" /\ Turns(p, "report", proc[p].previous)
             /\ UNCHANGED <<log, torn, genuine, edits>>
  BY <1>2 DEF Perform
<1>3. ASSUME NEW p \in Process, Refuse(p) \/ File(p) \/ WriteFails(p)
      PROVE  \E fate \in {"acked", "refused", "lost"} : proc[p].pc = "report" /\ Meets(p, fate)
  BY <1>3 DEF Refuse, File, WriteFails
<1>4. ASSUME NEW p \in Process, Crash(p)
      PROVE  UNCHANGED acts \/ (proc[p].pc = "report" /\ Meets(p, "lost"))
  BY <1>4 DEF Crash
<1>5. ASSUME NEW p \in Process, Open(p) \/ Close(p) PROVE UNCHANGED acts
  BY <1>5 DEF Open, Close
<1>6. Tamper \/ Rewrite => UNCHANGED acts  BY DEF Tamper, Rewrite
<1>7. UNCHANGED vars => UNCHANGED acts  BY DEF vars
<1> QED  BY <1>1, <1>2, <1>3, <1>4, <1>5, <1>6, <1>7 DEF Next

\* What an act was stays, and its fate once it has one.
LEMMA ActsKept ==
  ASSUME AuditAssumption, TypeInv, [Next]_vars, NEW i \in DOMAIN acts
  PROVE  /\ i \in DOMAIN acts' /\ Len(acts) <= Len(acts')
         /\ acts'[i].via = acts[i].via /\ acts'[i].result = acts[i].result
         /\ acts'[i].text = acts[i].text /\ acts'[i].by = acts[i].by
         /\ acts[i].fate # "pending" => acts'[i].fate = acts[i].fate
         /\ IsFiled(acts, i) => IsFiled(acts', i)
         /\ \A h : EntryFor(i, h)' = EntryFor(i, h')
<1>1. acts \in Seq(Act) /\ acts' \in Seq(Act)  BY TypeStep DEF TypeInv, TypeOK
<1> DEFINE Kept == /\ i \in DOMAIN acts' /\ Len(acts) <= Len(acts')
                   /\ acts'[i].via = acts[i].via /\ acts'[i].result = acts[i].result
                   /\ acts'[i].text = acts[i].text /\ acts'[i].by = acts[i].by
                   /\ acts[i].fate # "pending" => acts'[i].fate = acts[i].fate
<1>2. ASSUME UNCHANGED acts PROVE Kept  BY <1>1, <1>2
<1>3. ASSUME NEW a \in Act, acts' = Append(acts, a) PROVE Kept
  <2>1. Len(acts') = Len(acts) + 1 /\ i \in 1 .. Len(acts) /\ acts'[i] = acts[i]
    BY <1>1, <1>3
  <2>2. i \in DOMAIN acts' /\ Len(acts) <= Len(acts')  BY <1>1, <2>1
  <2> QED  BY <2>1, <2>2
<1>4. ASSUME NEW p \in Process, NEW fate \in {"acked", "refused", "lost"},
             proc[p].pc = "report", Meets(p, fate)
      PROVE  Kept
  <2>1. acts[Pending(p)].fate = "pending"  BY <1>4, PendingIs DEF TypeInv
  <2>2. DOMAIN acts' = DOMAIN acts  BY <1>4, MeetsIs
  <2>3. Len(acts') = Len(acts)  BY <1>1, <2>2
  <2> QED  BY <1>4, <2>1, <2>2, <2>3, MeetsIs
<1>5. Kept  BY <1>2, <1>3, <1>4, ActsStep
<1> HIDE DEF Kept
<1>6. \A h : EntryFor(i, h)' = EntryFor(i, h')  BY <1>5 DEF Kept, EntryFor, NextHash, Covers
<1> QED  BY <1>5, <1>6 DEF Kept, IsFiled

\* What a step may do to the file: nothing, or a change from without, or the
\* writing, whole or not, of one process.
Writes(p, fate) ==
  /\ proc[p].pc = "report" /\ Meets(p, fate) /\ edits' = edits
  /\ \A q \in Process \ {p} : proc'[q] = proc[q]
  /\ \/ /\ \E form \in {"cut", "bytes"} \cap Failures : log' = LinesWith(Cut(form))
        /\ torn' = TRUE /\ genuine' = genuine /\ fate = "lost"
     \/ /\ log' = LinesWith(Entry(p)) /\ genuine' = Append(genuine, Entry(p))
        /\ \/ "whole" \in Failures /\ torn' = TRUE /\ fate = "lost"
           \/ torn' = FALSE /\ fate = "acked" /\ proc'[p].previous = Entry(p).hash
           \/ torn' = FALSE /\ fate = "lost" /\ proc'[p].pc = "closed"

\* Every step is one of those.
LEMMA FileStep ==
  ASSUME TypeInv, [Next]_vars
  PROVE  \/ UNCHANGED <<log, torn, genuine, edits>>
         \/ \E p \in Process, fate \in {"acked", "lost"} : Writes(p, fate)
         \/ Tamper
         \/ Rewrite
<1> DEFINE Same == UNCHANGED <<log, torn, genuine, edits>>
<1>1. proc \in [Process -> Proc]  BY DEF TypeInv, TypeOK
<1>2. ASSUME NEW p \in Process, Open(p) \/ Close(p) \/ Perform(p) \/ Refuse(p) PROVE Same
  BY <1>2 DEF Open, Close, Perform, Refuse
<1>3. ASSUME NEW p \in Process, File(p) PROVE Writes(p, "acked")
  <2>1. proc'[p].previous = Entry(p).hash /\ \A q \in Process \ {p} : proc'[q] = proc[q]
    BY <1>1, <1>3 DEF File, Turns
  <2> QED  BY <1>3, <2>1 DEF File, Writes
<1>4. ASSUME NEW p \in Process, proc[p].pc = "report", Meets(p, "lost"), edits' = edits,
             \A q \in Process \ {p} : proc'[q] = proc[q], Remains(p)
      PROVE  Same \/ Writes(p, "lost")
  BY <1>4 DEF Remains, Writes
<1>5. ASSUME NEW p \in Process, WriteFails(p) PROVE Same \/ Writes(p, "lost")
  <2>1. \A q \in Process \ {p} : proc'[q] = proc[q]  BY <1>1, <1>5 DEF WriteFails, Turns
  <2> QED  BY <1>4, <1>5, <2>1 DEF WriteFails
<1>6. ASSUME NEW p \in Process, Crash(p) PROVE Same \/ Writes(p, "lost")
  <2>1. /\ edits' = edits /\ proc'[p].pc = "closed"
        /\ \A q \in Process \ {p} : proc'[q] = proc[q]
    BY <1>1, <1>6 DEF Crash, Turns
  <2>2. CASE UNCHANGED <<log, torn, genuine>>  BY <2>1, <2>2
  <2>3. CASE ~ UNCHANGED <<log, torn, genuine>>
    <3>1. proc[p].pc = "report" /\ Meets(p, "lost")  BY <1>6, <2>3 DEF Crash
    <3>2. \/ Remains(p)
          \/ log' = LinesWith(Entry(p)) /\ torn' = FALSE /\ genuine' = Append(genuine, Entry(p))
      BY <1>6, <2>3 DEF Crash
    <3> QED  BY <1>4, <2>1, <3>1, <3>2 DEF Writes
  <2> QED  BY <2>2, <2>3
<1>7. UNCHANGED vars => Same  BY DEF vars
<1> QED  BY <1>2, <1>3, <1>5, <1>6, <1>7 DEF Next

\* Every entry in the file is of an act that is filed.
Filed == \A k \in DOMAIN log : log[k].form = "entry" => IsFiled(acts, log[k].act)

\* A line of the file as it was changed is an old line, or the same with other
\* words and the same act and hash.
LEMMA TamperLines ==
  ASSUME AuditAssumption, TypeInv, Tamper, NEW k \in DOMAIN log'
  PROVE  \E j \in DOMAIN log : /\ log'[k].act = log[j].act /\ log'[k].hash = log[j].hash
                               /\ log'[k].form = log[j].form
<1> DEFINE Goal == \E j \in DOMAIN log : /\ log'[k].act = log[j].act /\ log'[k].hash = log[j].hash
                                         /\ log'[k].form = log[j].form
<1>1. log \in Seq(Line) /\ DOMAIN log = 1 .. Len(log) /\ Len(log) \in Nat
  BY DEF TypeInv, TypeOK
<1>2. ASSUME NEW i \in DOMAIN log, NEW fraction \in BOOLEAN, NEW result \in Result,
             NEW error \in Text \cup {NoText}, NEW other \in Text \cup {NoText},
             Changed([log EXCEPT ![i] = [log[i] EXCEPT !.fraction = fraction, !.result = result,
                                                       !.error = error, !.other = other]])
      PROVE  Goal
  <2> DEFINE e == [log[i] EXCEPT !.fraction = fraction, !.result = result,
                                 !.error = error, !.other = other]
  <2>1. log[i] \in Line  BY <1>1
  <2>2. e.act = log[i].act /\ e.hash = log[i].hash /\ e.form = log[i].form
    BY <2>1 DEF Line
  <2>3. log' = [log EXCEPT ![i] = e]  BY <1>2 DEF Changed
  <2> HIDE DEF e
  <2>4. k \in DOMAIN log /\ log'[k] = IF k = i THEN e ELSE log[k]  BY <1>1, <2>3
  <2> QED  BY <2>2, <2>4
<1>3. ASSUME NEW i \in 1 .. Len(log) - 1,
             Changed(Without(i))
      PROVE  Goal
  <2>1. log' = Without(i)  BY <1>3 DEF Changed
  <2>2. /\ Without(i) \in Seq(Line) /\ Len(Without(i)) = Len(log) - 1
        /\ \A l \in 1 .. Len(log) - 1 :
             Without(i)[l] = IF l < i THEN log[l] ELSE log[l + 1]
    BY <1>1, WithoutIs
  <2>3. k \in 1 .. Len(log) - 1  BY <1>1, <2>1, <2>2
  <2>4. log'[k] = IF k < i THEN log[k] ELSE log[k + 1]  BY <2>1, <2>2, <2>3
  <2>5. k \in DOMAIN log /\ k + 1 \in DOMAIN log  BY <1>1, <2>3
  <2> QED  BY <2>4, <2>5
<1>4. ASSUME NEW i \in 1 .. Len(log) - 1,
             Changed([log EXCEPT ![i] = log[i + 1], ![i + 1] = log[i]])
      PROVE  Goal
  <2>1. log' = [log EXCEPT ![i] = log[i + 1], ![i + 1] = log[i]]  BY <1>4 DEF Changed
  <2>2. k \in DOMAIN log /\ \E j \in DOMAIN log : log'[k] = log[j]  BY <1>1, <2>1
  <2> QED  BY <2>2
<1>5. ASSUME NEW n \in 0 .. Len(log) - 1, Changed(SubSeq(log, 1, n)) PROVE Goal
  <2>1. log' = SubSeq(log, 1, n)  BY <1>5 DEF Changed
  <2>2. k \in DOMAIN log /\ log'[k] = log[k]  BY <1>1, <2>1
  <2> QED  BY <2>2
<1> HIDE DEF Goal
<1>6. Goal  BY <1>2, <1>3, <1>4, <1>5, Zenon DEF Tamper
<1> QED  BY <1>6 DEF Goal

\* What a line written to a file leaves in it: its lines as they were, but for
\* a fragment it runs into, and itself.
LEMMA LinesAre ==
  ASSUME AuditAssumption, TypeInv, NEW line \in Line, log' = LinesWith(line),
         NEW k \in DOMAIN log'
  PROVE  \/ k \in DOMAIN log /\ log'[k] = log[k]
         \/ k = Len(log) + 1 /\ log'[k] = line
         \/ log'[k].form # "entry" /\ log'[k].hash = Genesis
<1>1. TypeOK /\ NoLonger /\ log \in Seq(Line)  BY DEF TypeInv, TypeOK
<1>2. CASE torn
  <2> DEFINE form == IF "bytes" \in {log[Len(log)].form, line.form} THEN "bytes" ELSE "cut"
  <2>1. log' = [log EXCEPT ![Len(log)] = Cut(form)]  BY <1>2 DEF LinesWith
  <2>2. form \in {"cut", "bytes"}  OBVIOUS
  <2> HIDE DEF form
  <2>3. Cut(form).form # "entry" /\ Cut(form).hash = Genesis  BY <2>2 DEF Cut
  <2>4. k \in DOMAIN log /\ log'[k] = IF k = Len(log) THEN Cut(form) ELSE log[k]
    BY <1>1, <2>1
  <2> QED  BY <2>3, <2>4
<1>3. CASE ~torn
  <2>1. log' = Append(log, line)  BY <1>1, <1>3, LinesType
  <2> QED  BY <1>1, <2>1
<1> QED  BY <1>2, <1>3

\* Every step keeps the entries to filed acts.
LEMMA FiledStep ==
  ASSUME AuditAssumption, TypeInv, Filed, [Next]_vars
  PROVE  Filed'
<1> USE AuditAssumption
<1>1. log \in Seq(Line)  BY DEF TypeInv, TypeOK
<1>2. \A i : IsFiled(acts, i) => IsFiled(acts', i)  BY ActsKept DEF IsFiled
<1>3. CASE UNCHANGED <<log, torn, genuine, edits>>  BY <1>2, <1>3 DEF Filed
<1>4. ASSUME NEW p \in Process, NEW fate \in {"acked", "lost"}, Writes(p, fate)
      PROVE  Filed'
  <2>1. proc[p].pc = "report" /\ Meets(p, fate)  BY <1>4 DEF Writes
  <2>2. Entry(p) \in Line /\ Entry(p).act = Pending(p)  BY <2>1, EntryIs
  <2>3. IsFiled(acts', Pending(p))
    <3>1. Pending(p) \in DOMAIN acts  BY <2>1, PendingIs DEF TypeInv
    <3>2. Pending(p) \in DOMAIN acts' /\ acts'[Pending(p)].fate = fate  BY <2>1, <3>1, MeetsIs
    <3> QED  BY <3>2 DEF IsFiled
  <2>4. \E line \in Line : log' = LinesWith(line) /\ (line.form # "entry" \/ line = Entry(p))
    <3>1. \A form \in {"cut", "bytes"} : Cut(form) \in Line /\ Cut(form).form # "entry"
      BY CutType
    <3> QED  BY <1>4, <2>2, <3>1 DEF Writes
  <2>5. PICK line \in Line : log' = LinesWith(line) /\ (line.form # "entry" \/ line = Entry(p))
    BY <2>4
  <2>6. ASSUME NEW k \in DOMAIN log', log'[k].form = "entry" PROVE IsFiled(acts', log'[k].act)
    <3>1. CASE k \in DOMAIN log /\ log'[k] = log[k]  BY <1>2, <2>6, <3>1 DEF Filed
    <3>2. CASE log'[k] = line  BY <2>2, <2>3, <2>5, <2>6, <3>2 DEF IsFiled
    <3> QED  BY <2>5, <2>6, <3>1, <3>2, LinesAre
  <2> QED  BY <2>6 DEF Filed
<1>5. CASE Tamper
  <2>1. ASSUME NEW k \in DOMAIN log', log'[k].form = "entry" PROVE IsFiled(acts', log'[k].act)
    <3>1. PICK j \in DOMAIN log : log'[k].act = log[j].act /\ log'[k].form = log[j].form
      BY <1>5, <2>1, TamperLines
    <3>2. IsFiled(acts, log[j].act)  BY <2>1, <3>1 DEF Filed
    <3>3. IsFiled(acts, log[j].act) => log[j].act \in DOMAIN acts' /\ acts'[log[j].act].fate \in {"acked", "lost"}
      BY <3>2, ActsKept DEF IsFiled
    <3> QED  BY <3>1, <3>2, <3>3 DEF IsFiled
  <2> QED  BY <2>1 DEF Filed
<1>6. CASE Rewrite
  <2>1. ASSUME NEW k \in DOMAIN log', log'[k].form = "entry" PROVE IsFiled(acts', log'[k].act)
    <3>1. PICK j \in DOMAIN log : log'[k].act = log[j].act /\ log'[k].form = log[j].form
      BY <1>6, <2>1, RewriteIs
    <3>2. IsFiled(acts, log[j].act)  BY <2>1, <3>1 DEF Filed
    <3> QED  BY <1>2, <3>1, <3>2
  <2> QED  BY <2>1 DEF Filed
<1> QED  BY <1>3, <1>4, <1>5, <1>6, FileStep

------------------------------------------------------------------------------
(***************************************************************************)
(* The trail.  Where one process at a time has the log open, nothing else   *)
(* edits it and a write that fails leaves nothing, the log is a Ledger: the *)
(* entry that goes to the file is appended to the history its last hash     *)
(* covers, and nothing else changes that history or what is acknowledged.   *)
(***************************************************************************)

\* The file is whole, and every line of it an entry of an act that is filed.
Whole == edits = 0 /\ ~torn /\ AllEntries(log) /\ Filed

\* The entries whose writers were told they are recorded.
Acked == {Covers(log[k]) : k \in {k \in Parsed(log) : acts[log[k].act].fate = "acked"}}

\* A step that writes nothing changes neither the history nor the entries
\* acknowledged.
LEMMA QuietStutters ==
  ASSUME AuditAssumption, TypeInv, Whole, [Next]_vars, UNCHANGED <<log, torn, genuine, edits>>
  PROVE  Whole' /\ Recovered(log)' = Recovered(log) /\ Acked' = Acked
<1>1. Filed'  BY FiledStep DEF Whole
<1>2. ASSUME NEW k \in Parsed(log) PROVE acts'[log[k].act].fate = acts[log[k].act].fate
  <2>1. IsFiled(acts, log[k].act)  BY DEF Whole, Filed, Parsed
  <2> QED  BY <2>1, ActsKept DEF IsFiled
<1>3. {k \in Parsed(log) : acts'[log[k].act].fate = "acked"}
        = {k \in Parsed(log) : acts[log[k].act].fate = "acked"}
  BY <1>2
<1>4. Acked' = Acked  BY <1>3 DEF Acked, Parsed
<1> QED  BY <1>1, <1>4 DEF Whole, AllEntries, Recovered, Parsed

\* An entry written to the file is recorded, and acknowledged if its writer is
\* told so.
LEMMA WritingRecords ==
  ASSUME AuditAssumption, ~Concurrent, Failures \subseteq {"nothing"},
         TypeInv, Chained, Alone, Whole, [Next]_vars,
         NEW p \in Process, NEW fate \in {"acked", "lost"}, Writes(p, fate)
  PROVE  /\ Whole'
         /\ Covers(Entry(p)) \in Covered
         /\ Recovered(log)' = Append(Recovered(log), Covers(Entry(p)))
         /\ Acked' = IF fate = "acked" THEN Acked \cup {Covers(Entry(p))} ELSE Acked
<1> DEFINE e == Entry(p)
           n == Len(log) + 1
<1>1. /\ TypeOK /\ log \in Seq(Line) /\ DOMAIN log = 1 .. Len(log) /\ Len(log) \in Nat
      /\ edits' = 0 /\ proc[p].pc = "report" /\ Meets(p, fate)
      /\ log' = LinesWith(e) /\ torn' = FALSE
  BY DEF TypeInv, TypeOK, Whole, Writes
<1>2. /\ e \in Line /\ e.form = "entry" /\ e.act = Pending(p)
      /\ e.hash = NextHash(proc[p].previous, e)
  BY <1>1, EntryIs
<1>3. log' = Append(log, e)  BY <1>1, <1>2, LinesType DEF TypeInv, Whole
<1> HIDE DEF e
<1>4. /\ DOMAIN log' = 1 .. n /\ Len(log') = n /\ log'[n] = e /\ log' \in Seq(Line)
      /\ \A k \in 1 .. Len(log) : log'[k] = log[k]
  BY <1>1, <1>2, <1>3
<1>5. AllEntries(log')  BY <1>1, <1>2, <1>4 DEF Whole, AllEntries
<1>6. Whole'  BY <1>1, <1>5, FiledStep DEF Whole
<1>7. proc[p].previous = LastHash(log)  BY <1>1 DEF Chained, Whole
<1>8. Recovered(log) = LastHash(log) /\ Recovered(log') = e.hash
  BY <1>1, <1>4, <1>5, RecoveredIsLast DEF Whole, LastHash
<1>9. Recovered(log)' = Append(Recovered(log), Covers(e))
  BY <1>2, <1>7, <1>8 DEF NextHash, Recovered, Parsed
<1>10. Covers(e) \in Covered
  <2>1. Pending(p) \in 1 .. Len(acts) /\ Len(acts) <= MaxActs /\ Len(acts) \in Nat
    BY <1>1, PendingIs DEF TypeInv, TypeOK
  <2>2. e.act \in 1 .. MaxActs  BY <1>2, <2>1 DEF AuditAssumption
  <2> QED  BY <1>2, <2>2 DEF Covers, Covered, Line
<1>11. acts'[Pending(p)].fate = fate /\ acts[Pending(p)].fate = "pending"
  BY <1>1, MeetsIs, PendingIs DEF TypeInv
<1>12. ASSUME NEW k \in 1 .. Len(log) PROVE acts'[log'[k].act].fate = acts[log[k].act].fate
  <2>1. IsFiled(acts, log[k].act)  BY <1>1 DEF Whole, Filed, AllEntries
  <2> QED  BY <1>4, <2>1, ActsKept DEF IsFiled
<1>13. Parsed(log) = 1 .. Len(log) /\ Parsed(log') = 1 .. n
  BY <1>1, <1>4, <1>5 DEF Parsed, AllEntries, Whole
<1> DEFINE K == {k \in 1 .. Len(log) : acts[log[k].act].fate = "acked"}
           L == {k \in 1 .. n : acts'[log'[k].act].fate = "acked"}
<1>14. L = IF fate = "acked" THEN K \cup {n} ELSE K
  <2>1. acts'[log'[n].act].fate = fate  BY <1>2, <1>4, <1>11
  <2>2. 1 .. n = (1 .. Len(log)) \cup {n}  BY <1>1
  <2> QED  BY <1>12, <2>1, <2>2
<1>15. Acked = {Covers(log[k]) : k \in K} /\ Acked' = {Covers(log'[k]) : k \in L}
  BY <1>13 DEF Acked, Parsed, Covers
<1>16. \A k \in K : log'[k] = log[k]  BY <1>4
<1> HIDE DEF K, L, n
<1>17. CASE fate = "acked"
  <2>1. L = K \cup {n}  BY <1>14, <1>17
  <2>2. {Covers(log'[k]) : k \in L} = {Covers(log[k]) : k \in K} \cup {Covers(e)}
    BY <1>4, <1>16, <2>1
  <2> QED  BY <1>6, <1>9, <1>10, <1>15, <1>17, <2>2 DEF e
<1>18. CASE fate = "lost"
  <2>1. L = K  BY <1>14, <1>18
  <2>2. {Covers(log'[k]) : k \in L} = {Covers(log[k]) : k \in K}  BY <1>16, <2>1
  <2> QED  BY <1>6, <1>9, <1>10, <1>15, <1>18, <2>2 DEF e
<1> QED  BY <1>17, <1>18

\* AuditLogger with one process at a time, nothing else editing its file and
\* no write cut off, is an audit trail: one history that only grows, an entry
\* at a time, whatever crashes and restarts, and every acknowledged act in it.
THEOREM LogImplementsTrail ==
  ASSUME ~Concurrent, Edits = 0, Failures \subseteq {"nothing"}
  PROVE  Spec => ImplementsTrail
<1> DEFINE IInv == TypeInv /\ Chained /\ Alone /\ Whole
<1>1. Init => IInv
  <2> SUFFICES ASSUME Init PROVE IInv  OBVIOUS
  <2>1. TypeInv  BY AuditAssumption, TypeInit
  <2>2. (\A p \in Process : proc[p].pc = "closed") /\ log = <<>> /\ ~torn /\ edits = 0
    BY DEF Init
  <2>3. Verifies(log)  BY <2>2 DEF Verifies
  <2> QED  BY <2>1, <2>2, <2>3 DEF Chained, Alone, Whole, AllEntries, Filed
<1>2. IInv /\ [Next]_vars => IInv'
  <2> SUFFICES ASSUME IInv, [Next]_vars PROVE IInv'  OBVIOUS
  <2>1. TypeInv' /\ Chained' /\ Alone'  BY AuditAssumption, TypeStep, ChainStep
  <2>2. ~Tamper /\ ~Rewrite  BY DEF Tamper, Rewrite, Whole
  <2>3. Whole'  BY <2>2, AuditAssumption, FileStep, QuietStutters, WritingRecords
  <2> QED  BY <2>1, <2>3
<1>3. Init => Trail!Init
  BY DEF Init, Trail!Init, Recovered, Parsed, Genesis
<1>4. IInv /\ [Next]_vars => [Trail!Next]_<<Recovered(log), Acked>>
  <2> SUFFICES ASSUME IInv, [Next]_vars PROVE [Trail!Next]_<<Recovered(log), Acked>>
    OBVIOUS
  <2>1. ~Tamper /\ ~Rewrite  BY DEF Tamper, Rewrite, Whole
  <2>2. CASE UNCHANGED <<log, torn, genuine, edits>>
    BY <2>2, AuditAssumption, QuietStutters
  <2>3. ASSUME NEW p \in Process, NEW fate \in {"acked", "lost"}, Writes(p, fate)
        PROVE  Trail!Next
    <3>1. /\ Covers(Entry(p)) \in Covered
          /\ Recovered(log)' = Append(Recovered(log), Covers(Entry(p)))
          /\ Acked' \in {Acked, Acked \cup {Covers(Entry(p))}}
      BY <2>3, AuditAssumption, WritingRecords
    <3>2. \E d \in Covered : /\ Recovered(log)' = Append(Recovered(log), d)
                             /\ Acked' \in {Acked, Acked \cup {d}}
      BY <3>1
    <3> QED  BY <3>2 DEF Trail!Next, Trail!Record, Acked
  <2> QED  BY <2>1, <2>2, <2>3, FileStep
<1> QED  BY <1>1, <1>2, <1>3, <1>4, PTL DEF Spec, ImplementsTrail, Trail!Spec, Acked

------------------------------------------------------------------------------
(***************************************************************************)
(* Tampering.  Every hash there is, in the file or held by a process, that  *)
(* covers none an editor computed spells out acts that were filed, word for *)
(* word and in the order they were done: a process files its acts one at a  *)
(* time, each later than any its chain already covers.  So a line with such *)
(* a hash that chains to the one before says one of those acts.             *)
(***************************************************************************)

\* What the hash of an entry for an act covers.
Said(as, i) ==
  [act |-> i, result |-> as[i].result,
   error |-> IF as[i].result = "Failure" THEN as[i].text ELSE NoText,
   other |-> IF as[i].result = "Success" /\ as[i].via = "config"
             THEN as[i].text ELSE NoText]

\* A hash covers nothing but filed acts, in the order they were done.
Told(as, h) ==
  /\ \A n \in DOMAIN h : IsFiled(as, h[n].act) /\ h[n] = Said(as, h[n].act)
  /\ \A m, n \in DOMAIN h : m < n => h[m].act < h[n].act

\* Who has an act pending is about to report it, and it alone.
OnePending ==
  \A i \in DOMAIN acts : acts[i].fate = "pending" =>
    /\ proc[acts[i].by].pc = "report"
    /\ \A j \in DOMAIN acts :
         acts[j].fate = "pending" /\ acts[j].by = acts[i].by => i = j

\* Every hash that vouches tells of filed acts, and a process's of earlier ones
\* than its own.
Truthful ==
  /\ OnePending
  /\ \A k \in DOMAIN log : Vouches(log[k].hash) => Told(acts, log[k].hash)
  /\ \A p \in Process : Vouches(proc[p].previous) => Told(acts, proc[p].previous)
  /\ \A i \in DOMAIN acts :
       acts[i].fate = "pending" /\ Vouches(proc[acts[i].by].previous) =>
         \A n \in DOMAIN proc[acts[i].by].previous : proc[acts[i].by].previous[n].act < i

\* What vouches after a step did so before it.
LEMMA VouchesKept ==
  ASSUME AuditAssumption, TypeInv, [Next]_vars, NEW h,
         \A f \in forged' : ~(Len(f) <= Len(h) /\ \A n \in DOMAIN f : f[n] = h[n])
  PROVE  Vouches(h)
<1>1. forged \subseteq forged'  BY ForgedStep, RewriteIs
<1> QED  BY <1>1 DEF Vouches

\* A hash that begins one that vouches does so too.
LEMMA VouchesBefore ==
  ASSUME NEW g \in Hash, NEW h \in Hash, forged \subseteq Hash, Vouches(h),
         Len(g) <= Len(h), \A n \in 1 .. Len(g) : g[n] = h[n]
  PROVE  Vouches(g)
<1>1. SUFFICES ASSUME NEW f \in forged, Len(f) <= Len(g), \A n \in DOMAIN f : f[n] = g[n]
               PROVE  Len(f) <= Len(h) /\ \A n \in DOMAIN f : f[n] = h[n]
  BY DEF Vouches
<1>2. f \in Hash  BY <1>1
<1>3. /\ Len(f) \in Nat /\ Len(g) \in Nat /\ Len(h) \in Nat /\ DOMAIN f = 1 .. Len(f)
  BY <1>2 DEF Hash
<1>4. \A n \in DOMAIN f : n \in 1 .. Len(g)  BY <1>1, <1>3
<1> QED  BY <1>1, <1>3, <1>4

\* The entry for an act is what it is, and its hash covers what is said of it.
LEMMA EntrySays ==
  ASSUME acts \in Seq(Act), NEW i \in DOMAIN acts, NEW previous
  PROVE  /\ EntryFor(i, previous) =
              [form |-> "entry", act |-> i, result |-> Said(acts, i).result, fraction |-> TRUE,
               error |-> Said(acts, i).error, other |-> Said(acts, i).other,
               hash |-> Append(previous, Said(acts, i))]
         /\ Covers(EntryFor(i, previous)) = Said(acts, i)
         /\ Said(acts, i).act = i
         /\ Said(acts, i).result = "Failure" => Said(acts, i).other = NoText
<1> DEFINE e == [form |-> "entry", act |-> i, result |-> acts[i].result, fraction |-> TRUE,
                 error |-> IF acts[i].result = "Failure" THEN acts[i].text ELSE NoText,
                 other |-> IF acts[i].result = "Success" /\ acts[i].via = "config"
                           THEN acts[i].text ELSE NoText,
                 hash |-> Genesis]
           s == Said(acts, i)
           f == [form |-> "entry", act |-> i, result |-> s.result, fraction |-> TRUE,
                 error |-> s.error, other |-> s.other, hash |-> Append(previous, s)]
<1>1. /\ s.result = acts[i].result /\ s.act = i /\ s.error = e.error /\ s.other = e.other
      /\ s.result = "Failure" => s.other = NoText
      /\ s = [act |-> i, result |-> s.result, error |-> s.error, other |-> s.other]
  BY DEF Said
<1>2. EntryFor(i, previous) = [e EXCEPT !.hash = NextHash(previous, e)]
  BY DEF EntryFor
<1>3. Covers(e) = [act |-> i, result |-> s.result, error |-> s.error, other |-> s.other]
  BY <1>1 DEF Covers
<1>4. Covers(e) = s  BY <1>1, <1>3
<1>5. e = [form |-> "entry", act |-> i, result |-> s.result, fraction |-> TRUE,
           error |-> s.error, other |-> s.other, hash |-> Genesis]
  BY <1>1
<1> HIDE DEF e, s
<1>6. EntryFor(i, previous) = [e EXCEPT !.hash = Append(previous, s)]
  BY <1>2, <1>4 DEF NextHash
<1>7. EntryFor(i, previous) = f  BY <1>5, <1>6
<1>8. Covers(f) = [act |-> i, result |-> s.result, error |-> s.error, other |-> s.other]
  BY <1>1 DEF Covers
<1> QED  BY <1>1, <1>7, <1>8 DEF s

\* What was said of an act is said of it ever after.
LEMMA ToldKept ==
  ASSUME AuditAssumption, TypeInv, [Next]_vars, NEW h, Told(acts, h)
  PROVE  Told(acts', h)
<1>1. ASSUME NEW n \in DOMAIN h
      PROVE  IsFiled(acts', h[n].act) /\ h[n] = Said(acts', h[n].act)
  <2>1. IsFiled(acts, h[n].act) /\ h[n] = Said(acts, h[n].act)  BY DEF Told
  <2>2. Said(acts', h[n].act) = Said(acts, h[n].act)
    BY <2>1, ActsKept DEF Said, IsFiled
  <2> QED  BY <2>1, <2>2, ActsKept DEF IsFiled
<1> QED  BY <1>1 DEF Told

\* A step may leave a process its hash, have it start over, recover it from the
\* file, or take it from the entry it has filed.
LEMMA HashStep ==
  ASSUME AuditAssumption, TypeInv, [Next]_vars, NEW q \in Process
  PROVE  \/ /\ proc'[q].previous = proc[q].previous
            /\ proc[q].pc = "closed" <=> proc'[q].pc = "closed"
         \/ proc'[q].previous = Genesis /\ proc'[q].pc = "closed"
         \/ proc[q].pc = "closed" /\ proc'[q].previous = Recovered(log)
         \/ /\ Writes(q, "acked") /\ torn' = FALSE
            /\ proc'[q].pc = "ready" /\ proc'[q].previous = Entry(q).hash
<1> DEFINE Goal == \/ /\ proc'[q].previous = proc[q].previous
                      /\ proc[q].pc = "closed" <=> proc'[q].pc = "closed"
                   \/ proc'[q].previous = Genesis /\ proc'[q].pc = "closed"
                   \/ proc[q].pc = "closed" /\ proc'[q].previous = Recovered(log)
                   \/ /\ Writes(q, "acked") /\ torn' = FALSE
                      /\ proc'[q].pc = "ready" /\ proc'[q].previous = Entry(q).hash
<1>1. proc \in [Process -> Proc]  BY DEF TypeInv, TypeOK
<1>2. ASSUME NEW p \in Process, Open(p) PROVE Goal
  <2>1. proc' = [proc EXCEPT ![p] = [pc |-> "ready", previous |-> Recovered(log)]]
        /\ proc[p].pc = "closed"
    BY <1>2 DEF Open, Turns
  <2>2. proc'[q] = IF q = p THEN [pc |-> "ready", previous |-> Recovered(log)] ELSE proc[q]
    BY <1>1, <2>1
  <2> QED  BY <2>1, <2>2
<1>3. ASSUME NEW p \in Process, Close(p) \/ Crash(p) PROVE Goal
  <2>1. proc' = [proc EXCEPT ![p] = [pc |-> "closed", previous |-> Genesis]]
    BY <1>3 DEF Close, Crash, Turns
  <2>2. proc'[q] = IF q = p THEN [pc |-> "closed", previous |-> Genesis] ELSE proc[q]
    BY <1>1, <2>1
  <2> QED  BY <2>2
<1>4. ASSUME NEW p \in Process, Perform(p) \/ Refuse(p) \/ WriteFails(p) PROVE Goal
  <2>1. \E pc \in {"ready", "report"} :
          proc' = [proc EXCEPT ![p] = [pc |-> pc, previous |-> proc[p].previous]]
    BY <1>4 DEF Perform, Refuse, WriteFails, Turns
  <2>2. proc[p].pc # "closed"  BY <1>4 DEF Perform, Refuse, WriteFails
  <2>3. /\ proc'[q].previous = proc[q].previous
        /\ proc[q].pc = "closed" <=> proc'[q].pc = "closed"
    BY <1>1, <2>1, <2>2
  <2> QED  BY <2>3
<1>5. ASSUME NEW p \in Process, File(p) PROVE Goal
  <2>1. /\ proc' = [proc EXCEPT ![p] = [pc |-> "ready", previous |-> Entry(p).hash]]
        /\ torn' = FALSE
    BY <1>5 DEF File, Turns
  <2>2. Writes(p, "acked")  BY <1>1, <1>5, <2>1 DEF File, Writes
  <2>3. proc'[q] = IF q = p THEN [pc |-> "ready", previous |-> Entry(p).hash] ELSE proc[q]
    BY <1>1, <2>1
  <2> QED  BY <2>1, <2>2, <2>3
<1>6. Tamper \/ Rewrite \/ UNCHANGED vars => Goal  BY DEF Tamper, Rewrite, vars
<1> QED  BY <1>2, <1>3, <1>4, <1>5, <1>6 DEF Next

\* Recovery takes a hash from the file, or starts over.
LEMMA RecoveredIsHeld ==
  ASSUME NEW lines \in Seq(Line)
  PROVE  Recovered(lines) = Genesis \/ \E k \in DOMAIN lines : Recovered(lines) = lines[k].hash
<1>1. Parsed(lines) \subseteq DOMAIN lines  BY DEF Parsed
<1> QED  BY <1>1, LastParsed DEF Recovered

\* A process has one act pending at most, and only while it reports.
LEMMA OnePendingStep ==
  ASSUME AuditAssumption, TypeInv, OnePending, [Next]_vars
  PROVE  OnePending'
<1>1. proc \in [Process -> Proc] /\ acts \in Seq(Act) /\ Len(acts) \in Nat
  BY DEF TypeInv, TypeOK
<1>2. ASSUME NEW i \in DOMAIN acts PROVE acts[i].by \in Process
  <2>1. acts[i] \in Act  BY <1>1
  <2> QED  BY <2>1 DEF Act
<1>3. ASSUME NEW p \in Process, proc[p].pc # "report",
             \A q \in Process \ {p} : proc'[q] = proc[q], UNCHANGED acts
      PROVE  OnePending'
  BY <1>2, <1>3 DEF OnePending
<1>4. ASSUME NEW p \in Process, Open(p) \/ Close(p) PROVE OnePending'
  <2>1. proc[p].pc # "report" /\ \A q \in Process \ {p} : proc'[q] = proc[q]
    BY <1>1, <1>4 DEF Open, Close, Turns
  <2>2. UNCHANGED acts  BY <1>4 DEF Open, Close
  <2> QED  BY <1>3, <2>1, <2>2
<1>5. ASSUME NEW p \in Process, Perform(p) PROVE OnePending'
  <2>1. \A i \in DOMAIN acts : acts[i].fate = "pending" => acts[i].by # p
    BY <1>5 DEF OnePending, Perform
  <2>2. proc'[p].pc = "report" /\ \A q \in Process \ {p} : proc'[q] = proc[q]
    BY <1>1, <1>5 DEF Perform, Turns
  <2>3. \E a : a.by = p /\ acts' = Append(acts, a)  BY <1>5 DEF Perform
  <2>4. PICK a : a.by = p /\ acts' = Append(acts, a)  BY <2>3
  <2>5. /\ DOMAIN acts' = DOMAIN acts \cup {Len(acts) + 1} /\ acts'[Len(acts) + 1] = a
        /\ \A i \in DOMAIN acts : acts'[i] = acts[i]
    BY <1>1, <2>4
  <2> QED  BY <1>2, <2>1, <2>2, <2>4, <2>5 DEF OnePending
<1>6. ASSUME NEW p \in Process, NEW fate \in {"acked", "refused", "lost"},
             proc[p].pc = "report", Meets(p, fate),
             \A q \in Process \ {p} : proc'[q] = proc[q]
      PROVE  OnePending'
  <2>1. /\ DOMAIN acts' = DOMAIN acts /\ acts'[Pending(p)].fate = fate
        /\ \A i \in DOMAIN acts : /\ acts'[i].by = acts[i].by
                                  /\ i # Pending(p) => acts'[i] = acts[i]
    BY <1>6, MeetsIs
  <2>2. Pending(p) \in DOMAIN acts /\ acts[Pending(p)].by = p /\ acts[Pending(p)].fate = "pending"
    BY <1>6, PendingIs DEF TypeInv
  <2>3. \A i \in DOMAIN acts : acts'[i].fate = "pending" =>
          acts[i].fate = "pending" /\ acts[i].by # p
    BY <2>1, <2>2 DEF OnePending
  <2> QED  BY <1>2, <1>6, <2>1, <2>3 DEF OnePending
<1>7. ASSUME NEW p \in Process, Refuse(p) \/ File(p) \/ WriteFails(p) PROVE OnePending'
  <2>1. \A q \in Process \ {p} : proc'[q] = proc[q]
    BY <1>1, <1>7 DEF Refuse, File, WriteFails, Turns
  <2>2. \E fate \in {"acked", "refused", "lost"} : proc[p].pc = "report" /\ Meets(p, fate)
    BY <1>7 DEF Refuse, File, WriteFails
  <2> QED  BY <1>6, <2>1, <2>2
<1>8. ASSUME NEW p \in Process, Crash(p) PROVE OnePending'
  <2>1. \A q \in Process \ {p} : proc'[q] = proc[q]  BY <1>1, <1>8 DEF Crash, Turns
  <2>2. CASE proc[p].pc = "report"  BY <1>6, <1>8, <2>1, <2>2 DEF Crash
  <2>3. CASE proc[p].pc # "report"  BY <1>3, <1>8, <2>1, <2>3 DEF Crash
  <2> QED  BY <2>2, <2>3
<1>9. Tamper \/ Rewrite \/ UNCHANGED vars => OnePending'
  BY DEF Tamper, Rewrite, vars, OnePending
<1> QED  BY <1>4, <1>5, <1>7, <1>8, <1>9 DEF Next

\* The hash of the entry a process files tells of its act after all the ones
\* it told of before.
LEMMA EntryTold ==
  ASSUME AuditAssumption, TypeInv, Truthful, [Next]_vars,
         NEW p \in Process, NEW fate \in {"acked", "lost"},
         proc[p].pc = "report", Meets(p, fate), Vouches(Entry(p).hash)
  PROVE  Told(acts', Entry(p).hash)
<1> DEFINE k == Pending(p)
           h == proc[p].previous
           s == Said(acts, k)
           g == Append(h, s)
<1>1. k \in DOMAIN acts /\ acts[k].by = p /\ acts[k].fate = "pending"
  BY PendingIs DEF TypeInv
<1>2. acts \in Seq(Act) /\ h \in Hash
  <2>1. acts \in Seq(Act) /\ proc[p] \in Proc  BY DEF TypeInv, TypeOK
  <2> QED  BY <2>1 DEF Proc
<1>3. Entry(p).hash = g /\ s.act = k
  <2>1. Entry(p) = EntryFor(k, h)  BY DEF Entry
  <2>2. /\ EntryFor(k, h) =
             [form |-> "entry", act |-> k, result |-> s.result, fraction |-> TRUE,
              error |-> s.error, other |-> s.other, hash |-> g]
        /\ s.act = k
    BY <1>1, <1>2, EntrySays
  <2> HIDE DEF k, h, s, g
  <2> QED  BY <2>1, <2>2
<1>4. Vouches(h) /\ Told(acts', h)
  <2>1. g \in Hash  BY <1>3, EntryIs DEF Line
  <2>2. forged \subseteq Hash  BY DEF TypeInv, TypeOK
  <2>3. Len(h) <= Len(g) /\ \A n \in 1 .. Len(h) : g[n] = h[n]
    <3> HIDE DEF h, s
    <3> QED  BY <1>2 DEF Hash
  <2>4. Vouches(g)  BY <1>3
  <2> HIDE DEF g
  <2>5. Vouches(h)  BY <1>2, <2>1, <2>2, <2>3, <2>4, VouchesBefore
  <2>6. Told(acts, h)  BY <2>5 DEF Truthful
  <2> QED  BY <2>5, <2>6, ToldKept
<1>5. IsFiled(acts', k)  BY <1>1, MeetsIs DEF IsFiled
<1>6. s = Said(acts', k)  BY <1>1, ActsKept DEF Said
<1>7. \A n \in DOMAIN h : h[n].act < k  BY <1>1, <1>4 DEF Truthful
<1>8. \A n \in DOMAIN h : h[n].act \in Nat
  <2>1. \A n \in DOMAIN h : h[n] \in Covered  BY <1>2 DEF Hash
  <2> QED  BY <2>1 DEF Covered
<1> HIDE DEF k, h, s
<1>9. /\ DOMAIN g = 1 .. Len(h) + 1 /\ DOMAIN h = 1 .. Len(h) /\ Len(h) \in Nat
      /\ g[Len(h) + 1] = s /\ \A n \in 1 .. Len(h) : g[n] = h[n]
  BY <1>2 DEF Hash
<1> HIDE DEF g
<1>10. ASSUME NEW n \in DOMAIN g PROVE IsFiled(acts', g[n].act) /\ g[n] = Said(acts', g[n].act)
  <2>1. CASE n = Len(h) + 1  BY <1>3, <1>5, <1>6, <1>9, <2>1
  <2>2. CASE n \in 1 .. Len(h)  BY <1>4, <1>9, <2>2 DEF Told
  <2> QED  BY <1>9, <2>1, <2>2
<1>11. ASSUME NEW m \in DOMAIN g, NEW n \in DOMAIN g, m < n PROVE g[m].act < g[n].act
  <2>1. m \in 1 .. Len(h)  BY <1>9, <1>11
  <2>2. CASE n = Len(h) + 1  BY <1>3, <1>7, <1>9, <2>1, <2>2
  <2>3. CASE n \in 1 .. Len(h)  BY <1>4, <1>9, <1>11, <2>1, <2>3 DEF Told
  <2> QED  BY <1>9, <2>2, <2>3
<1> QED  BY <1>3, <1>10, <1>11 DEF Told

\* Every step keeps the hashes truthful.
LEMMA TruthfulStep ==
  ASSUME AuditAssumption, TypeInv, Truthful, [Next]_vars
  PROVE  Truthful'
<1> USE AuditAssumption
<1>1. /\ log \in Seq(Line) /\ acts \in Seq(Act) /\ Len(acts) \in Nat
      /\ DOMAIN acts = 1 .. Len(acts) /\ proc \in [Process -> Proc]
  BY DEF TypeInv, TypeOK
<1>2. \A h : Told(acts, h) => Told(acts', h)  BY ToldKept
<1> DEFINE Backed(h) ==
             \A f \in forged' : ~(Len(f) <= Len(h) /\ \A n \in DOMAIN f : f[n] = h[n])
<1>8. \A h : Backed(h) => Vouches(h)  BY VouchesKept
<1> HIDE DEF Backed
<1>3. \A as : Told(as, Genesis)  BY DEF Told, Genesis
<1>4. OnePending'  BY OnePendingStep DEF Truthful
<1>5. ASSUME NEW k \in DOMAIN log', Backed(log'[k].hash) PROVE Told(acts', log'[k].hash)
  <2>1. CASE UNCHANGED <<log, torn, genuine, edits>>
    BY <1>2, <1>5, <1>8, <2>1 DEF Truthful
  <2>2. ASSUME NEW p \in Process, NEW fate \in {"acked", "lost"}, Writes(p, fate)
        PROVE  Told(acts', log'[k].hash)
    <3>1. proc[p].pc = "report" /\ Meets(p, fate)  BY <2>2 DEF Writes
    <3>2. Entry(p) \in Line /\ (Vouches(Entry(p).hash) => Told(acts', Entry(p).hash))
      BY <3>1, EntryIs, EntryTold
    <3>3. \A form \in {"cut", "bytes"} : Cut(form) \in Line /\ Cut(form).hash = Genesis
      BY CutType DEF Cut
    <3>4. \E line \in Line :
            /\ log' = LinesWith(line)
            /\ Vouches(line.hash) => Told(acts', line.hash)
      BY <1>3, <2>2, <3>2, <3>3 DEF Writes
    <3>5. PICK line \in Line :
            /\ log' = LinesWith(line)
            /\ Vouches(line.hash) => Told(acts', line.hash)
      BY <3>4
    <3>6. \A j \in DOMAIN log : Vouches(log[j].hash) => Told(acts', log[j].hash)
      BY <1>2 DEF Truthful
    <3>7. Vouches(log'[k].hash)  BY <1>5, <1>8
    <3>8. CASE k \in DOMAIN log /\ log'[k] = log[k]  BY <3>6, <3>7, <3>8
    <3>9. CASE log'[k] = line
      <4>1. log'[k].hash = line.hash  BY <3>9
      <4>2. Vouches(line.hash)  BY <3>7, <4>1
      <4>3. Told(acts', line.hash)  BY <3>5, <4>2
      <4> QED  BY <4>1, <4>3
    <3>10. CASE log'[k].hash = Genesis  BY <1>3, <3>10
    <3>11. \/ k \in DOMAIN log /\ log'[k] = log[k]
           \/ log'[k] = line
           \/ log'[k].hash = Genesis
      BY <3>5, LinesAre
    <3> QED  BY <3>8, <3>9, <3>10, <3>11
  <2>3. CASE Tamper
    <3>1. PICK j \in DOMAIN log : log'[k].hash = log[j].hash  BY <2>3, TamperLines
    <3> QED  BY <1>2, <1>5, <1>8, <3>1 DEF Truthful
  <2>4. CASE Rewrite
    <3>1. /\ forged' \subseteq Hash
          /\ \/ k \in DOMAIN log /\ log'[k] = log[k]
             \/ log'[k].hash \in forged'
      BY <2>4, RewriteIs
    <3>2. log'[k].hash \notin forged'
      <4>1. SUFFICES ASSUME log'[k].hash \in forged' PROVE FALSE  OBVIOUS
      <4>2. log'[k].hash \in Hash  BY <3>1, <4>1
      <4>3. Len(log'[k].hash) <= Len(log'[k].hash)  BY <4>2 DEF Hash
      <4> QED  BY <1>5, <4>1, <4>3 DEF Backed
    <3>3. Vouches(log[k].hash) /\ k \in DOMAIN log /\ log'[k] = log[k]
      BY <1>5, <1>8, <3>1, <3>2
    <3> QED  BY <1>2, <3>3 DEF Truthful
  <2> QED  BY <2>1, <2>2, <2>3, <2>4, FileStep
<1>6. ASSUME NEW q \in Process, Backed(proc'[q].previous)
      PROVE  Told(acts', proc'[q].previous)
  <2>5. Vouches(proc'[q].previous)  BY <1>6, <1>8
  <2>1. CASE proc'[q].previous = proc[q].previous  BY <1>2, <2>1, <2>5 DEF Truthful
  <2>2. CASE proc'[q].previous = Genesis  BY <1>3, <2>2
  <2>3. CASE proc'[q].previous = Recovered(log)
    BY <1>1, <1>2, <1>3, <2>3, <2>5, RecoveredIsHeld DEF Truthful
  <2>4. CASE Writes(q, "acked") /\ proc'[q].previous = Entry(q).hash
    BY <2>4, <2>5, EntryTold DEF Writes
  <2> QED  BY <2>1, <2>2, <2>3, <2>4, HashStep
<1>7. ASSUME NEW i \in DOMAIN acts', acts'[i].fate = "pending",
             Backed(proc'[acts'[i].by].previous),
             NEW n \in DOMAIN proc'[acts'[i].by].previous
      PROVE  proc'[acts'[i].by].previous[n].act < i
  <2>1. CASE i \in DOMAIN acts
    <3> DEFINE q == acts[i].by
    <3>1. acts'[i].by = q /\ acts[i].fate = "pending"  BY <1>7, <2>1, ActsKept
    <3>2. q \in Process /\ proc[q].pc = "report"
      <4>1. acts[i] \in Act  BY <1>1, <2>1
      <4> QED  BY <2>1, <3>1, <4>1 DEF Truthful, OnePending, Act
    <3>3. ~ Meets(q, "acked")
      <4>1. SUFFICES ASSUME Meets(q, "acked") PROVE FALSE  OBVIOUS
      <4>2. acts'[Pending(q)].fate = "acked"  BY <3>2, <4>1, MeetsIs
      <4>3. /\ Pending(q) \in DOMAIN acts /\ acts[Pending(q)].by = q
            /\ acts[Pending(q)].fate = "pending"
        BY <3>2, PendingIs DEF TypeInv
      <4>4. Pending(q) = i  BY <2>1, <3>1, <4>3 DEF Truthful, OnePending
      <4> QED  BY <1>7, <4>2, <4>4
    <3> HIDE DEF q
    <3>4. proc'[q].previous = proc[q].previous \/ proc'[q].previous = Genesis
      BY <3>2, <3>3, HashStep DEF Writes
    <3>5. CASE proc'[q].previous = proc[q].previous
      <4>1. Vouches(proc[q].previous)  BY <1>7, <1>8, <3>1, <3>5
      <4> QED  BY <1>7, <2>1, <3>1, <3>5, <4>1 DEF Truthful, q
    <3>6. CASE proc'[q].previous = Genesis  BY <1>7, <3>1, <3>6 DEF Genesis
    <3> QED  BY <3>4, <3>5, <3>6
  <2>2. CASE i \notin DOMAIN acts
    <3>1. ~ UNCHANGED acts  BY <1>7, <2>2
    <3>2. ~ \E p \in Process, fate \in {"acked", "refused", "lost"} :
              proc[p].pc = "report" /\ Meets(p, fate)
      BY <1>7, <2>2, MeetsIs
    <3>3. PICK p \in Process : /\ Turns(p, "report", proc[p].previous)
                               /\ \E a \in Act : a.by = p /\ acts' = Append(acts, a)
      BY <3>1, <3>2, ActsStep
    <3>4. PICK a \in Act : a.by = p /\ acts' = Append(acts, a)  BY <3>3
    <3>5. i = Len(acts) + 1 /\ acts'[i].by = p  BY <1>1, <1>7, <2>2, <3>4
    <3>6. proc'[p].previous = proc[p].previous  BY <1>1, <3>3 DEF Turns
    <3>7. Told(acts, proc[p].previous)
      <4>1. Vouches(proc[p].previous)  BY <1>7, <1>8, <3>5, <3>6
      <4> QED  BY <4>1 DEF Truthful
    <3>8. n \in DOMAIN proc[p].previous  BY <1>7, <3>5, <3>6
    <3>9. proc[p].previous[n].act \in DOMAIN acts  BY <3>7, <3>8 DEF Told, IsFiled
    <3>10. proc[p].previous[n].act < i  BY <1>1, <3>5, <3>9
    <3> QED  BY <3>5, <3>6, <3>10
  <2> QED  BY <2>1, <2>2
<1> QED  BY <1>4, <1>5, <1>6, <1>7 DEF Truthful, Vouches, Backed

\* A nonempty set of numbers has a least, by well-foundedness of strict
\* inclusion on the initial segments of the numbers.
LEMMA Least ==
  ASSUME NEW X \in SUBSET Nat, X # {}
  PROVE  \E x \in X : \A y \in X : x <= y
<1> DEFINE T == {0 .. x : x \in X}
           R == StrictSubsetOrdering(Nat)
           F == FiniteSubsetsOf(Nat)
<1>1. T \subseteq F
  <2>1. ASSUME NEW x \in X PROVE 0 .. x \in F
    <3>1. IsFiniteSet(0 .. x)  BY FS_Interval
    <3>2. 0 .. x \in SUBSET Nat  OBVIOUS
    <3> QED  BY <3>1, <3>2 DEF FiniteSubsetsOf
  <2> HIDE DEF F
  <2> QED  BY <2>1
<1>2. T # {}  OBVIOUS
<1>3. IsWellFoundedOn(R, F)  BY FS_StrictSubsetOrderingWellFounded
<1>4. \E t \in T : \A u \in T : ~(<<u, t>> \in R)
  <2> HIDE DEF T, R, F
  <2> QED  BY <1>1, <1>2, <1>3, WFMin
<1>5. PICK x \in X : \A y \in X : ~(<<0 .. y, 0 .. x>> \in R)  BY <1>4
<1>6. ASSUME NEW y \in X, y < x PROVE <<0 .. y, 0 .. x>> \in R
  <2>1. 0 .. y \in SUBSET Nat /\ 0 .. x \in SUBSET Nat  OBVIOUS
  <2>2. 0 .. y \subseteq 0 .. x /\ x \in 0 .. x /\ x \notin 0 .. y  BY <1>6
  <2> QED  BY <2>1, <2>2 DEF StrictSubsetOrdering
<1>7. ASSUME NEW y \in X PROVE x <= y
  <2>1. ~(y < x)  BY <1>5, <1>6
  <2> QED  BY <2>1
<1> QED  BY <1>7

\* Of a log that verifies, each hash covers the lines up to its own.
LEMMA HashCovers ==
  ASSUME NEW lines \in Seq(Line), Verifies(lines), NEW j \in DOMAIN lines
  PROVE  /\ Len(lines[j].hash) = j
         /\ \A i \in 1 .. j : lines[j].hash[i] = Covers(lines[i])
<1> DEFINE Fine(m) == /\ Len(lines[m].hash) = m
                      /\ \A i \in 1 .. m : lines[m].hash[i] = Covers(lines[i])
           Bad == {m \in DOMAIN lines : ~Fine(m)}
<1>1. DOMAIN lines = 1 .. Len(lines) /\ Len(lines) \in Nat  OBVIOUS
<1>2. ASSUME NEW m \in DOMAIN lines, m = 1 \/ Fine(m - 1) PROVE Fine(m)
  <2> DEFINE g == IF m = 1 THEN Genesis ELSE lines[m - 1].hash
  <2>1. lines[m].hash = Append(g, Covers(lines[m]))  BY DEF Verifies, Broken, NextHash
  <2>2. g \in Hash
    <3>1. m # 1 => lines[m - 1] \in Line  BY <1>1
    <3> QED  BY <3>1 DEF Line, Hash, Genesis
  <2>3. Len(g) = m - 1 /\ \A i \in 1 .. m - 1 : g[i] = Covers(lines[i])
    <3>1. CASE m = 1  BY <3>1 DEF Genesis
    <3>2. CASE m # 1  BY <1>2, <3>2
    <3> QED  BY <3>1, <3>2
  <2> HIDE DEF g
  <2>4. DOMAIN g = 1 .. m - 1  BY <1>1, <2>2, <2>3 DEF Hash
  <2>5. Len(lines[m].hash) = m  BY <1>1, <2>1, <2>2, <2>3 DEF Hash
  <2>6. ASSUME NEW i \in 1 .. m PROVE lines[m].hash[i] = Covers(lines[i])
    <3>1. CASE i = m  BY <1>1, <2>1, <2>2, <2>3, <3>1 DEF Hash
    <3>2. CASE i # m
      <4>1. i \in 1 .. m - 1  BY <1>1, <3>2
      <4> QED  BY <2>1, <2>2, <2>3, <2>4, <4>1 DEF Hash
    <3> QED  BY <3>1, <3>2
  <2> QED  BY <2>5, <2>6
<1> HIDE DEF Fine
<1>3. Bad = {}
  <2>1. SUFFICES ASSUME Bad # {} PROVE FALSE  OBVIOUS
  <2>2. Bad \in SUBSET Nat  BY <1>1
  <2> HIDE DEF Bad
  <2>3. PICK m \in Bad : \A y \in Bad : m <= y  BY <2>1, <2>2, Least
  <2>4. m \in DOMAIN lines /\ ~Fine(m)  BY <2>3 DEF Bad
  <2>5. m # 1 /\ ~Fine(m - 1)  BY <1>2, <2>4
  <2>6. m - 1 \in DOMAIN lines  BY <1>1, <2>4, <2>5
  <2>7. m - 1 \in Bad  BY <2>5, <2>6 DEF Bad
  <2> QED  BY <1>1, <2>3, <2>4, <2>7
<1>4. Fine(j)  BY <1>3
<1> QED  BY <1>4 DEF Fine

\* A line as its hash sees it, spelled out.
LEMMA SecondIs ==
  ASSUME NEW e \in Line
  PROVE  Second(e) = [form |-> e.form, act |-> e.act, result |-> e.result, fraction |-> TRUE,
                      error |-> e.error, other |-> e.other, hash |-> e.hash]
<1> DEFINE f == e.form
           a == e.act
           r == e.result
           x == e.fraction
           u == e.error
           o == e.other
           h == e.hash
<1>1. e = [form |-> f, act |-> a, result |-> r, fraction |-> x,
           error |-> u, other |-> o, hash |-> h]
  BY DEF Line
<1> HIDE DEF f, a, r, x, u, o, h
<1>2. \A y : [e EXCEPT !.fraction = y] = [form |-> f, act |-> a, result |-> r, fraction |-> y,
                                         error |-> u, other |-> o, hash |-> h]
  BY <1>1
<1> QED  BY <1>2, Zenon DEF Second, f, a, r, u, o, h

\* So a log that verifies says nothing but filed acts, in their order, up to any
\* line whose hash vouches.
LEMMA VerifiedIsTold ==
  ASSUME AuditAssumption, TypeInv, Truthful, Verifies(log),
         NEW l \in DOMAIN log, Vouches(log[l].hash)
  PROVE  /\ \A i \in 1 .. l : SaysWhatWasDone(i)
         /\ \A i, j \in 1 .. l : i < j => log[i].act < log[j].act
<1>1. /\ log \in Seq(Line) /\ acts \in Seq(Act) /\ DOMAIN log = 1 .. Len(log)
      /\ Len(log) \in Nat /\ forged \subseteq Hash
  BY DEF TypeInv, TypeOK
<1>4. ASSUME NEW i \in 1 .. l PROVE i \in DOMAIN log /\ Told(acts, log[i].hash)
  <2>1. i \in DOMAIN log /\ i <= l /\ i \in Nat /\ l \in Nat  BY <1>1
  <2>2. log[i] \in Line /\ log[l] \in Line  BY <1>1, <2>1
  <2>3. log[i].hash \in Hash /\ log[l].hash \in Hash  BY <2>2 DEF Line
  <2>4. /\ Len(log[i].hash) = i /\ Len(log[l].hash) = l
        /\ \A n \in 1 .. i : log[i].hash[n] = Covers(log[n])
        /\ \A n \in 1 .. l : log[l].hash[n] = Covers(log[n])
    BY <1>1, <2>1, HashCovers
  <2>5. \A n \in 1 .. i : n \in 1 .. l  BY <2>1
  <2>6. Vouches(log[i].hash)  BY <1>1, <2>1, <2>3, <2>4, <2>5, VouchesBefore
  <2> QED  BY <2>1, <2>6 DEF Truthful
<1>2. ASSUME NEW i \in 1 .. l PROVE SaysWhatWasDone(i)
  <2>11. i \in DOMAIN log  BY <1>4
  <2> DEFINE e == log[i]
             a == e.act
             g == IF i = 1 THEN Genesis ELSE log[i - 1].hash
  <2>1. /\ e.form = "entry" /\ ~ (e.result = "Failure" /\ e.other # NoText)
        /\ e.hash = Append(g, Covers(e))
    BY <2>11 DEF Verifies, Broken, NextHash
  <2>2. Len(e.hash) = i /\ e.hash[i] = Covers(e)
    <3>1. i \in 1 .. i  BY <1>1
    <3> QED  BY <1>1, <2>11, <3>1, HashCovers
  <2>3. i \in DOMAIN e.hash
    <3>1. e \in Line  BY <1>1, <2>11
    <3> QED  BY <1>1, <2>2, <3>1 DEF Line, Hash
  <2>4. Covers(e).act = a  BY DEF Covers
  <2>5. IsFiled(acts, a) /\ Covers(e) = Said(acts, a)
    BY <1>4, <2>2, <2>3, <2>4 DEF Told
  <2>6. /\ EntryFor(a, g) = [form |-> "entry", act |-> a, result |-> Said(acts, a).result,
                             fraction |-> TRUE, error |-> Said(acts, a).error,
                             other |-> Said(acts, a).other, hash |-> Append(g, Said(acts, a))]
    BY <1>1, <2>5, EntrySays DEF IsFiled
  <2>7. /\ Said(acts, a).result = e.result /\ Said(acts, a).error = e.error
        /\ Said(acts, a).other = e.other
    <3>1. Covers(e).result = e.result /\ Covers(e).error = e.error /\ Covers(e).other = e.other
      BY <2>1 DEF Covers
    <3> QED  BY <2>5, <3>1
  <2>8. e \in Line  BY <1>1, <2>11
  <2>9. Second(e) = [form |-> "entry", act |-> a, result |-> e.result, fraction |-> TRUE,
                     error |-> e.error, other |-> e.other, hash |-> e.hash]
    <3>1. e.form = "entry"  BY <2>1
    <3> HIDE DEF e
    <3> QED  BY <2>8, <3>1, SecondIs
  <2>10. Second(e) = EntryFor(a, g)  BY <2>1, <2>5, <2>6, <2>7, <2>9
  <2> QED  BY <2>5, <2>10 DEF SaysWhatWasDone, IsFiled
<1>3. ASSUME NEW i \in 1 .. l, NEW j \in 1 .. l, i < j
      PROVE  log[i].act < log[j].act
  <2>4. i \in DOMAIN log /\ j \in DOMAIN log  BY <1>4
  <2> DEFINE h == log[j].hash
  <2>1. Len(h) = j /\ h[i] = Covers(log[i]) /\ h[j] = Covers(log[j])
    <3>1. i \in 1 .. j /\ j \in 1 .. j  BY <1>1, <1>3
    <3> QED  BY <1>1, <2>4, <3>1, HashCovers
  <2>2. i \in DOMAIN h /\ j \in DOMAIN h
    <3>1. log[j] \in Line  BY <1>1, <2>4
    <3>2. h \in Seq(Covered)  BY <3>1 DEF Line, Hash
    <3> QED  BY <1>1, <1>3, <2>1, <3>2
  <2>3. h[i].act < h[j].act  BY <1>3, <1>4, <2>2 DEF Told
  <2> QED  BY <2>1, <2>3 DEF Covers
<1> QED  BY <1>2, <1>3

(***************************************************************************)
(* What is left of the lines the program wrote.  Until the file is edited    *)
(* it is exactly those, and a lone writer knows its end; one edit that      *)
(* computes no hash either leaves every hash where it was, or puts a hash on *)
(* a line whose number is not how much it covers, and no later write puts    *)
(* that right.                                                              *)
(***************************************************************************)

\* A line the program wrote: the entry of a filed act, chained to some hash.
Own(as, e) ==
  /\ IsFiled(as, e.act)
  /\ \E h \in Hash :
       e = [form |-> "entry", act |-> e.act, result |-> Said(as, e.act).result,
            fraction |-> TRUE, error |-> Said(as, e.act).error,
            other |-> Said(as, e.act).other, hash |-> Append(h, Said(as, e.act))]

AllOwn == \A i \in DOMAIN genuine : Own(acts, genuine[i])

\* Whether a process is the only one that ever does anything.
Lone(p) == ~Concurrent \/ \A a \in DOMAIN acts : acts[a].by = p

Early ==
  edits = 0 /\ Smooth =>
    /\ log = genuine /\ ~torn /\ Verifies(log)
    /\ \A p \in Process : proc[p].pc # "closed" /\ Lone(p) =>
         proc[p].previous = LastHash(log)

\* Line for line, the file has the hashes the program wrote.
SameHashes ==
  Len(log) = Len(genuine) /\ \A i \in DOMAIN log : log[i].hash = genuine[i].hash

\* Some line has a hash of another place.
Displaced == \E k \in DOMAIN log : Len(log[k].hash) # k

Once == edits = 1 /\ forged = {} /\ Smooth => ~torn /\ (SameHashes \/ Displaced)

\* A log that was smooth after a step was so before.
LEMMA SmoothBefore ==
  ASSUME AuditAssumption, TypeInv, [Next]_vars, Smooth'
  PROVE  Smooth
<1>1. \A a \in DOMAIN acts : a \in DOMAIN acts' /\ acts'[a].by = acts[a].by
  BY ActsKept
<1>2. \A a \in DOMAIN acts : acts[a].fate = "lost" => acts'[a].fate = "lost"
  BY ActsKept
<1> QED  BY <1>1, <1>2 DEF Smooth

\* In a smooth log what is written is an entry, whole.
LEMMA SmoothWrites ==
  ASSUME AuditAssumption, TypeInv, Smooth', ~torn,
         NEW p \in Process, NEW fate \in {"acked", "lost"}, Writes(p, fate)
  PROVE  /\ torn' = FALSE /\ log' = Append(log, Entry(p)) /\ genuine' = Append(genuine, Entry(p))
         /\ (fate = "acked" /\ proc'[p].previous = Entry(p).hash) \/ proc'[p].pc = "closed"
<1>1. proc[p].pc = "report" /\ Meets(p, fate)  BY DEF Writes
<1>2. Pending(p) \in DOMAIN acts' /\ acts'[Pending(p)].fate = fate
  BY <1>1, MeetsIs, PendingIs DEF TypeInv
<1>3. fate = "lost" => Failures \subseteq {"nothing"}  BY <1>2 DEF Smooth
<1>4. /\ log' = LinesWith(Entry(p)) /\ genuine' = Append(genuine, Entry(p)) /\ torn' = FALSE
      /\ (fate = "acked" /\ proc'[p].previous = Entry(p).hash) \/ proc'[p].pc = "closed"
  BY <1>3 DEF Writes
<1>5. LinesWith(Entry(p)) = Append(log, Entry(p))
  BY <1>1, EntryIs, LinesType DEF TypeInv
<1> QED  BY <1>4, <1>5

\* Every step keeps the program's lines what they are.
LEMMA OwnStep ==
  ASSUME AuditAssumption, TypeInv, AllOwn, [Next]_vars
  PROVE  AllOwn'
<1> USE AuditAssumption
<1>1. genuine \in Seq(Line) /\ DOMAIN genuine = 1 .. Len(genuine) /\ Len(genuine) \in Nat
      /\ log \in Seq(Line) /\ NoLonger
  BY DEF TypeInv, TypeOK
<1>2. ASSUME NEW e, Own(acts, e) PROVE Own(acts', e)
  <2>1. IsFiled(acts, e.act)  BY <1>2 DEF Own
  <2>2. Said(acts', e.act) = Said(acts, e.act)  BY <2>1, ActsKept DEF Said, IsFiled
  <2>3. IsFiled(acts', e.act)  BY <2>1, ActsKept DEF IsFiled
  <2> QED  BY <1>2, <2>2, <2>3 DEF Own
<1>3. ASSUME NEW p \in Process, NEW fate \in {"acked", "lost"}, Writes(p, fate)
      PROVE  Own(acts', Entry(p))
  <2> DEFINE k == Pending(p)
             h == proc[p].previous
  <2>1. proc[p].pc = "report" /\ Meets(p, fate)  BY <1>3 DEF Writes
  <2>2. k \in DOMAIN acts /\ acts'[k].fate = fate  BY <2>1, MeetsIs, PendingIs DEF TypeInv
  <2>3. IsFiled(acts', k)  BY <2>2, ActsKept DEF IsFiled
  <2>4. acts \in Seq(Act) /\ proc[p] \in Proc  BY DEF TypeInv, TypeOK
  <2>5. h \in Hash  BY <2>4 DEF Proc
  <2>6. Said(acts', k) = Said(acts, k)  BY <2>2, ActsKept DEF Said
  <2>7. Entry(p) = EntryFor(k, h)  BY DEF Entry
  <2>8. EntryFor(k, h) = [form |-> "entry", act |-> k, result |-> Said(acts, k).result,
                          fraction |-> TRUE, error |-> Said(acts, k).error,
                          other |-> Said(acts, k).other, hash |-> Append(h, Said(acts, k))]
    BY <2>2, <2>4, EntrySays
  <2>9. Entry(p).act = k  BY <2>1, EntryIs
  <2> HIDE DEF k, h
  <2> QED  BY <2>3, <2>5, <2>6, <2>7, <2>8, <2>9 DEF Own
<1>4. CASE UNCHANGED genuine  BY <1>2, <1>4 DEF AllOwn
<1>5. ASSUME NEW p \in Process, NEW fate \in {"acked", "lost"}, Writes(p, fate),
             genuine' = Append(genuine, Entry(p))
      PROVE  AllOwn'
  <2>1. \A i \in DOMAIN genuine' : \/ i \in DOMAIN genuine /\ genuine'[i] = genuine[i]
                                   \/ genuine'[i] = Entry(p)
    BY <1>1, <1>5
  <2> QED  BY <1>2, <1>3, <1>5, <2>1 DEF AllOwn
<1>6. ASSUME NEW p \in Process, NEW fate \in {"acked", "lost"}, Writes(p, fate) PROVE AllOwn'
  BY <1>4, <1>5, <1>6 DEF Writes
<1>7. CASE Tamper
  <2>1. ASSUME NEW n \in 0 .. Len(log) - 1, genuine' = SubSeq(genuine, 1, n) PROVE AllOwn'
    <3>1. n <= Len(genuine)
      <4>1. ~torn  BY <1>7 DEF Tamper
      <4>2. Len(log) <= Len(genuine) /\ Len(log) \in Nat  BY <1>1, <4>1 DEF NoLonger
      <4> QED  BY <1>1, <4>2
    <3>2. \A i \in DOMAIN genuine' : i \in DOMAIN genuine /\ genuine'[i] = genuine[i]
      BY <1>1, <2>1, <3>1
    <3> QED  BY <1>2, <3>2 DEF AllOwn
  <2>2. UNCHANGED genuine \/ \E n \in 0 .. Len(log) - 1 : genuine' = SubSeq(genuine, 1, n)
    BY <1>7, Zenon DEF Tamper
  <2> QED  BY <1>4, <2>1, <2>2
<1>8. UNCHANGED <<log, torn, genuine, edits>> \/ Rewrite => UNCHANGED genuine
  BY DEF Rewrite
<1> QED  BY <1>4, <1>6, <1>7, <1>8, FileStep

\* Until an edit, every step keeps the file what the program wrote.
LEMMA EarlyStep ==
  ASSUME AuditAssumption, TypeInv, Early, ~Concurrent => Alone, [Next]_vars
  PROVE  Early'
<1> USE AuditAssumption
<1>1. SUFFICES ASSUME edits' = 0, Smooth'
               PROVE  /\ log' = genuine' /\ ~torn' /\ Verifies(log')
                      /\ \A q \in Process : proc'[q].pc # "closed" /\ Lone(q)' =>
                           proc'[q].previous = LastHash(log')
  BY DEF Early, Verifies, Broken, LastHash
<1>2. Smooth /\ log \in Seq(Line) /\ edits \in Nat  BY <1>1, SmoothBefore DEF TypeInv, TypeOK
<1>3. ~Tamper /\ ~Rewrite  BY <1>1, <1>2, TamperType, RewriteIs
<1>4. edits = 0
  <2>1. edits' = edits  BY <1>3, FileStep DEF Writes
  <2> QED  BY <1>1, <2>1
<1>5. /\ log = genuine /\ ~torn /\ Verifies(log)
      /\ \A p \in Process : proc[p].pc # "closed" /\ Lone(p) => proc[p].previous = LastHash(log)
  BY <1>2, <1>4 DEF Early
<1>6. \A q \in Process : Lone(q)' => Lone(q)
  <2>1. \A a \in DOMAIN acts : a \in DOMAIN acts' /\ acts'[a].by = acts[a].by  BY ActsKept
  <2> QED  BY <2>1 DEF Lone
<1>7. ASSUME NEW p \in Process, NEW fate \in {"acked", "lost"}, Writes(p, fate)
      PROVE  /\ log' = genuine' /\ ~torn' /\ Verifies(log')
             /\ \A q \in Process : proc'[q].pc # "closed" /\ Lone(q)' =>
                  proc'[q].previous = LastHash(log')
  <2> DEFINE e == Entry(p)
  <2>1. /\ torn' = FALSE /\ log' = Append(log, e) /\ genuine' = Append(genuine, e)
        /\ proc'[p].previous = e.hash \/ proc'[p].pc = "closed"
    BY <1>1, <1>5, <1>7, SmoothWrites
  <2>2. proc[p].pc = "report" /\ Meets(p, fate) /\ \A q \in Process \ {p} : proc'[q] = proc[q]
    BY <1>7 DEF Writes
  <2>3. /\ Pending(p) \in DOMAIN acts' /\ acts'[Pending(p)].by = p
    BY <2>2, PendingIs, ActsKept DEF TypeInv
  <2>4. Lone(p)  BY <1>1, <1>6, <2>3 DEF Smooth, Lone
  <2>5. proc[p].previous = LastHash(log)  BY <1>5, <2>2, <2>4
  <2>6. /\ e \in Line /\ e.form = "entry" /\ e.hash = NextHash(proc[p].previous, e)
        /\ ~ (e.result = "Failure" /\ e.other # NoText)
    BY <2>2, EntryIs
  <2> HIDE DEF e
  <2>7. Verifies(log') /\ LastHash(log') = e.hash
    BY <1>2, <1>5, <2>1, <2>5, <2>6, AppendVerifies
  <2>8. ASSUME NEW q \in Process, proc'[q].pc # "closed", Lone(q)', q # p PROVE FALSE
    <3>1. proc[q].pc # "closed"  BY <2>2, <2>8
    <3>2. Concurrent  BY <2>2, <2>8, <3>1 DEF Alone
    <3> QED  BY <2>3, <2>8, <3>2 DEF Lone
  <2> QED  BY <1>5, <2>1, <2>7, <2>8
<1>8. ASSUME UNCHANGED <<log, torn, genuine, edits>>,
             ~ \E p \in Process, fate \in {"acked", "lost"} : Writes(p, fate)
      PROVE  /\ log' = genuine' /\ ~torn' /\ Verifies(log')
             /\ \A q \in Process : proc'[q].pc # "closed" /\ Lone(q)' =>
                  proc'[q].previous = LastHash(log')
  <2>1. Recovered(log) = LastHash(log)
    <3>1. AllEntries(log)  BY <1>5 DEF Verifies, Broken, AllEntries
    <3> QED  BY <1>2, <3>1, RecoveredIsLast
  <2>2. ASSUME NEW q \in Process, proc'[q].pc # "closed", Lone(q)'
        PROVE  proc'[q].previous = LastHash(log)
    <3>1. \/ proc[q].pc # "closed" /\ proc'[q].previous = proc[q].previous
          \/ proc'[q].previous = Recovered(log)
      BY <1>8, <2>2, HashStep
    <3> QED  BY <1>5, <1>6, <2>1, <2>2, <3>1
  <2> QED  BY <1>5, <1>8, <2>2
<1> QED  BY <1>3, <1>7, <1>8, FileStep

\* One edit of a file that is what the program wrote leaves the hashes where
\* they were or puts one out of its place.
LEMMA EditShows ==
  ASSUME AuditAssumption, TypeInv, Tamper
  PROVE  log = genuine /\ Verifies(log) => SameHashes' \/ Displaced'
<1>1. /\ log \in Seq(Line) /\ DOMAIN log = 1 .. Len(log) /\ Len(log) \in Nat
  BY DEF TypeInv, TypeOK
<1>2. Verifies(log) => \A k \in DOMAIN log : Len(log[k].hash) = k  BY <1>1, HashCovers
<1> DEFINE Goal == log = genuine /\ Verifies(log) => SameHashes' \/ Displaced'
<1>3. ASSUME NEW i \in DOMAIN log, NEW fraction \in BOOLEAN, NEW result \in Result,
             NEW error \in Text \cup {NoText}, NEW other \in Text \cup {NoText},
             UNCHANGED genuine,
             Changed([log EXCEPT ![i] = [log[i] EXCEPT !.fraction = fraction, !.result = result,
                                                       !.error = error, !.other = other]])
      PROVE  Goal
  <2> SUFFICES ASSUME log = genuine, Verifies(log) PROVE SameHashes' \/ Displaced'
    OBVIOUS
  <2> DEFINE e == [log[i] EXCEPT !.fraction = fraction, !.result = result,
                                 !.error = error, !.other = other]
  <2>1. log[i] \in Line  BY <1>1
  <2>2. e.hash = log[i].hash  BY <2>1 DEF Line
  <2>3. log' = [log EXCEPT ![i] = e]  BY <1>3 DEF Changed
  <2> HIDE DEF e
  <2>4. /\ Len(log') = Len(log) /\ DOMAIN log' = DOMAIN log
        /\ \A k \in DOMAIN log : log'[k] = IF k = i THEN e ELSE log[k]
    BY <1>1, <2>3
  <2>5. SameHashes'  BY <1>3, <2>2, <2>4 DEF SameHashes
  <2> QED  BY <2>5
<1>4. ASSUME NEW i \in 1 .. Len(log) - 1,
             Changed(Without(i))
      PROVE  Goal
  <2> SUFFICES ASSUME log = genuine, Verifies(log) PROVE SameHashes' \/ Displaced'
    OBVIOUS
  <2>1. log' = Without(i)  BY <1>4 DEF Changed
  <2>4. i \in DOMAIN log' /\ log'[i] = log[i + 1]
    <3>1. /\ log' \in Seq(Line) /\ Len(log') = Len(log) - 1
          /\ log'[i] = IF i < i THEN log[i] ELSE log[i + 1]
      BY <1>1, <2>1, WithoutIs
    <3> QED  BY <1>1, <3>1
  <2>5. Len(log'[i].hash) = i + 1  BY <1>1, <1>2, <2>4
  <2>6. i + 1 # i  OBVIOUS
  <2> QED  BY <2>4, <2>5, <2>6 DEF Displaced
<1>5. ASSUME NEW i \in 1 .. Len(log) - 1,
             Changed([log EXCEPT ![i] = log[i + 1], ![i + 1] = log[i]])
      PROVE  Goal
  <2> SUFFICES ASSUME log = genuine, Verifies(log) PROVE SameHashes' \/ Displaced'
    OBVIOUS
  <2>1. log' = [log EXCEPT ![i] = log[i + 1], ![i + 1] = log[i]]  BY <1>5 DEF Changed
  <2>2. i \in DOMAIN log' /\ log'[i] = log[i + 1]  BY <1>1, <2>1
  <2>3. Len(log'[i].hash) = i + 1  BY <1>1, <1>2, <2>2
  <2>4. i + 1 # i  OBVIOUS
  <2> QED  BY <2>2, <2>3, <2>4 DEF Displaced
<1>6. ASSUME NEW n \in 0 .. Len(log) - 1, Changed(SubSeq(log, 1, n)),
             genuine' = SubSeq(genuine, 1, n)
      PROVE  Goal
  <2> SUFFICES ASSUME log = genuine, Verifies(log) PROVE SameHashes' \/ Displaced'
    OBVIOUS
  <2>1. log' = genuine'  BY <1>6 DEF Changed
  <2> QED  BY <2>1 DEF SameHashes
<1> HIDE DEF Goal
<1>7. Goal  BY <1>3, <1>4, <1>5, <1>6, Zenon DEF Tamper
<1> QED  BY <1>7 DEF Goal

\* After an edit, no step puts right what it did.
LEMMA OnceStep ==
  ASSUME AuditAssumption, TypeInv, Early, Once, [Next]_vars
  PROVE  Once'
<1> USE AuditAssumption
<1>1. SUFFICES ASSUME edits' = 1, forged' = {}, Smooth'
               PROVE  ~torn' /\ (SameHashes' \/ Displaced')
  BY DEF Once
<1>6. ~Rewrite /\ forged = {}  BY <1>1, ForgedStep, RewriteIs
<1>2. /\ Smooth /\ log \in Seq(Line) /\ genuine \in Seq(Line) /\ edits \in Nat
      /\ DOMAIN log = 1 .. Len(log) /\ Len(log) \in Nat
  BY <1>1, SmoothBefore DEF TypeInv, TypeOK
<1>3. CASE Tamper
  <2>1. edits = 0 /\ torn' = torn
    <3>1. edits' = edits + 1  BY <1>3, TamperType
    <3>2. torn' = torn  BY <1>3 DEF Tamper
    <3> QED  BY <1>1, <1>2, <3>1, <3>2
  <2>2. log = genuine /\ ~torn /\ Verifies(log)  BY <1>2, <2>1 DEF Early
  <2> QED  BY <1>3, <2>1, <2>2, EditShows
<1>4. CASE UNCHANGED <<log, torn, genuine, edits>>
  <2>1. ~torn /\ (SameHashes \/ Displaced)  BY <1>1, <1>2, <1>4, <1>6 DEF Once
  <2> QED  BY <1>4, <2>1 DEF SameHashes, Displaced
<1>5. ASSUME NEW p \in Process, NEW fate \in {"acked", "lost"}, Writes(p, fate)
      PROVE  ~torn' /\ (SameHashes' \/ Displaced')
  <2> DEFINE e == Entry(p)
  <2>1. edits' = edits /\ proc[p].pc = "report"  BY <1>5 DEF Writes
  <2>2. ~torn /\ (SameHashes \/ Displaced)  BY <1>1, <1>2, <1>6, <2>1 DEF Once
  <2>3. torn' = FALSE /\ log' = Append(log, e) /\ genuine' = Append(genuine, e)
    BY <1>1, <1>5, <2>2, SmoothWrites
  <2> HIDE DEF e
  <2>4. /\ DOMAIN log' = 1 .. Len(log) + 1 /\ Len(log') = Len(log) + 1
        /\ log'[Len(log) + 1] = e /\ \A k \in DOMAIN log : log'[k] = log[k]
    BY <1>2, <2>3
  <2>5. CASE SameHashes
    <3>1. /\ Len(genuine') = Len(log) + 1 /\ genuine'[Len(log) + 1] = e
          /\ \A k \in DOMAIN log : genuine'[k] = genuine[k]
      BY <1>2, <2>3, <2>5 DEF SameHashes
    <3>2. ASSUME NEW k \in DOMAIN log' PROVE log'[k].hash = genuine'[k].hash
      <4>1. CASE k = Len(log) + 1  BY <2>4, <3>1, <4>1
      <4>2. CASE k \in DOMAIN log  BY <2>4, <2>5, <3>1, <4>2 DEF SameHashes
      <4> QED  BY <1>2, <2>4, <4>1, <4>2
    <3> QED  BY <2>3, <2>4, <3>1, <3>2 DEF SameHashes
  <2>6. CASE Displaced
    <3>1. PICK k \in DOMAIN log : Len(log[k].hash) # k  BY <2>6 DEF Displaced
    <3>2. k \in DOMAIN log' /\ Len(log'[k].hash) # k  BY <1>2, <2>4, <3>1
    <3> QED  BY <2>3, <3>2 DEF Displaced
  <2> QED  BY <2>2, <2>5, <2>6
<1> QED  BY <1>3, <1>4, <1>5, <1>6, FileStep

\* A line that says what was done and has the hash of one the program wrote is
\* that line, but for the fraction of a second.
LEMMA SameLine ==
  ASSUME AuditAssumption, TypeInv, NEW i \in DOMAIN log, SaysWhatWasDone(i),
         NEW g, Own(acts, g), log[i].hash = g.hash
  PROVE  Second(log[i]) = g
<1> DEFINE e == log[i]
           a == e.act
           b == g.act
           h == IF i = 1 THEN Genesis ELSE log[i - 1].hash
<1>1. /\ log \in Seq(Line) /\ acts \in Seq(Act) /\ DOMAIN log = 1 .. Len(log)
      /\ DOMAIN acts = 1 .. Len(acts) /\ Len(acts) <= MaxActs /\ Len(acts) \in Nat
  BY DEF TypeInv, TypeOK
<1>2. a \in DOMAIN acts /\ Second(e) = EntryFor(a, h)  BY DEF SaysWhatWasDone
<1>3. e \in Line /\ h \in Hash
  <2>1. e \in Line  BY <1>1
  <2>2. h \in Hash
    <3>1. i # 1 => log[i - 1] \in Line  BY <1>1
    <3>2. Genesis \in Hash  BY DEF Genesis, Hash
    <3>3. i # 1 => log[i - 1].hash \in Hash  BY <3>1 DEF Line
    <3> QED  BY <3>2, <3>3
  <2> QED  BY <2>1, <2>2
<1>4. EntryFor(a, h) = [form |-> "entry", act |-> a, result |-> Said(acts, a).result,
                        fraction |-> TRUE, error |-> Said(acts, a).error,
                        other |-> Said(acts, a).other, hash |-> Append(h, Said(acts, a))]
  BY <1>1, <1>2, EntrySays
<1>5. e.hash = Append(h, Said(acts, a))
  <2>1. Second(e).hash = e.hash
    <3> HIDE DEF e
    <3> QED  BY <1>3, SecondIs
  <2> HIDE DEF e, h, a
  <2> QED  BY <1>2, <1>4, <2>1
<1>6. b \in DOMAIN acts  BY DEF Own, IsFiled
<1>7. PICK k \in Hash :
        g = [form |-> "entry", act |-> b, result |-> Said(acts, b).result,
             fraction |-> TRUE, error |-> Said(acts, b).error,
             other |-> Said(acts, b).other, hash |-> Append(k, Said(acts, b))]
  BY DEF Own
<1>8. ASSUME NEW c \in DOMAIN acts PROVE Said(acts, c) \in Covered /\ Said(acts, c).act = c
  <2>1. acts[c] \in Act  BY <1>1, <1>8
  <2>2. c \in 1 .. MaxActs  BY <1>1, <1>8 DEF AuditAssumption
  <2> QED  BY <2>1, <2>2 DEF Said, Covered, Act
<1>9. g.hash = Append(k, Said(acts, b))
  <2> HIDE DEF b
  <2> QED  BY <1>7
<1>10. Append(h, Said(acts, a)) = Append(k, Said(acts, b))  BY <1>5, <1>9
<1>11. h = k /\ Said(acts, a) = Said(acts, b)
  <2> HIDE DEF a, b, h
  <2> QED  BY <1>2, <1>3, <1>6, <1>7, <1>8, <1>10, AppendInjective DEF Hash
<1>12. a = b
  <2> HIDE DEF a, b, h
  <2> QED  BY <1>2, <1>6, <1>8, <1>11
<1> HIDE DEF a, b, h, e
<1>13. Second(e) = g  BY <1>2, <1>4, <1>7, <1>11, <1>12
<1> QED  BY <1>13 DEF e

\* Of a log that verifies, the lines up to one whose hash covers none an editor
\* computed say nothing but what was done, in order, for any number of processes
\* and of changes to the file, rewritten chains among them, with any failures;
\* and after one change that computed no hash, of a log one process at a time
\* wrote whole, it is all there up to a tail that was cut off: verify_integrity
\* against next_hash.
THEOREM LogIsTamperEvident == Spec => []TamperEvident
<1> DEFINE Traced == Truthful /\ AllOwn /\ Early /\ Once
           IInv == TypeInv /\ Traced /\ (~Concurrent => Chained /\ Alone)
<1>1. Init => IInv
  <2> SUFFICES ASSUME Init PROVE IInv  OBVIOUS
  <2>1. TypeInv  BY AuditAssumption, TypeInit
  <2>2. log = <<>> /\ genuine = <<>> /\ acts = <<>> /\ ~torn /\ edits = 0  BY DEF Init
  <2>3. Verifies(log)  BY <2>2 DEF Verifies
  <2>4. \A p \in Process : proc[p].pc = "closed" /\ proc[p].previous = Genesis  BY DEF Init
  <2>5. Truthful  BY <2>2, <2>4 DEF Truthful, OnePending, Told, Genesis
  <2>6. AllOwn /\ Early /\ Once  BY <2>2, <2>3, <2>4 DEF AllOwn, Early, Once
  <2>7. Chained /\ Alone  BY <2>3, <2>4 DEF Chained, Alone
  <2> QED  BY <2>1, <2>5, <2>6, <2>7
<1>2. IInv /\ [Next]_vars => IInv'
  <2> SUFFICES ASSUME IInv, [Next]_vars PROVE IInv'  OBVIOUS
  <2>1. TypeInv'  BY AuditAssumption, TypeStep
  <2>2. (~Concurrent => Chained /\ Alone)'  BY AuditAssumption, ChainStep
  <2>3. Truthful' /\ AllOwn'  BY AuditAssumption, TruthfulStep, OwnStep
  <2>4. Early' /\ Once'  BY AuditAssumption, EarlyStep, OnceStep
  <2> QED  BY <2>1, <2>2, <2>3, <2>4
<1>3. IInv => TamperEvident
  <2> SUFFICES ASSUME IInv, Verifies(log) PROVE TamperEvident  BY DEF TamperEvident
  <2>1. ASSUME NEW j \in DOMAIN log, Vouches(log[j].hash)
        PROVE  /\ \A i \in 1 .. j : SaysWhatWasDone(i)
               /\ \A i \in 1 .. j - 1 : log[i].act < log[i + 1].act
    <3>1. \A i \in 1 .. j - 1 : i \in 1 .. j /\ i + 1 \in 1 .. j /\ i < i + 1
      <4>1. j \in Nat  BY DEF TypeInv, TypeOK
      <4> QED  BY <4>1
    <3> QED  BY <2>1, <3>1, AuditAssumption, VerifiedIsTold
  <2>2. ASSUME edits <= 1, forged = {}, Smooth, NEW i \in DOMAIN log
        PROVE  i \in DOMAIN genuine /\ Second(log[i]) = genuine[i]
    <3>1. /\ log \in Seq(Line) /\ genuine \in Seq(Line) /\ edits \in Nat
          /\ DOMAIN log = 1 .. Len(log) /\ DOMAIN genuine = 1 .. Len(genuine)
      BY DEF TypeInv, TypeOK
    <3>2. ~Displaced  BY <3>1, HashCovers DEF Displaced
    <3>3. SameHashes
      <4>1. CASE edits = 0  BY <2>2, <4>1 DEF Early, SameHashes
      <4>2. CASE edits = 1  BY <2>2, <3>2, <4>2 DEF Once
      <4> QED  BY <2>2, <3>1, <4>1, <4>2
    <3>4. i \in DOMAIN genuine /\ log[i].hash = genuine[i].hash  BY <3>1, <3>3 DEF SameHashes
    <3>5. SaysWhatWasDone(i) /\ Own(acts, genuine[i])
      <4>1. Vouches(log[i].hash)  BY <2>2 DEF Vouches
      <4>2. i \in 1 .. i  BY <3>1
      <4> QED  BY <2>1, <3>4, <4>1, <4>2 DEF AllOwn
    <3> QED  BY <3>4, <3>5, AuditAssumption, SameLine
  <2> QED  BY <2>1, <2>2 DEF TamperEvident
<1> QED  BY <1>1, <1>2, <1>3, PTL DEF Spec

==============================================================================
