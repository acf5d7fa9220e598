----------------------------- MODULE FleetProofs -----------------------------
(***************************************************************************)
(* What holds of Fleet for any machines, accounts, inventories, plugins,    *)
(* requests and checkpoints of earlier runs: the exit code covers every     *)
(* host, and a rollback takes the last apply back.                          *)
(***************************************************************************)
EXTENDS Fleet, FiniteSetTheorems, WellFoundedInduction, TLAPS

\* A job stands where its command takes it, and has a status when it is done.
Fits(r, t) ==
    /\ t.pc = "waiting" => t = Waiting
    /\ t.pc = "scan" => r.verb = "scan"
    /\ t.pc \in {"plugin", "write"} => r.verb \in {"validate", "apply"} /\ t.at > 0
    /\ t.pc = "write" => r.verb = "apply" /\ t.at \in DOMAIN r.plugins
    /\ t.pc = "select" => r.verb \in {"preview", "rollback"}
    /\ t.pc = "restore" => r.verb = "rollback"
    /\ t.status # "none" <=> t.pc = "done"

\* A run has a job for each host, and one that writes tells them apart.
Tasked ==
    run.open \/ task # <<>> =>
        /\ Len(task) = Len(run.profiles)
        /\ run.verb \in Verb /\ run.plugins # <<>> /\ IsInjective(run.plugins)
        /\ Executes(run.verb) => ~Colliding(run.profiles)

Shape ==
    /\ Tasked
    /\ \A i \in DOMAIN task : Fits(run, task[i])
    /\ \A k \in DOMAIN db : db[k].stamp <= clock

TypeInv == TypeOK /\ Shape

-----------------------------------------------------------------------------
\* The jobs account for the plugins they have been through.
Counts(r, t) ==
    /\ t.pc \in {"plugin", "write"} /\ t.at > 1 => t.ok + t.failed > 0 \/ t.erred \/ t.skipped
    /\ t.status = "applied" => t.ok + t.failed > 0
    /\ t.pc = "done" /\ r.verb = "apply" => t.status \in {"failed", "applied"}

Coded ==
    ~run.open /\ task # <<>> =>
        /\ \A i \in DOMAIN task : task[i].pc \in {"done", "gone"}
        /\ run.code = ExitCode(Assembled)

CodeInv == Coded /\ \A i \in DOMAIN task : Counts(run, task[i])

-----------------------------------------------------------------------------
\* The last apply filed what it found of a machine under this key only.
Only(m, key) == \A x \in last.taken : x[1][2] = m => x[1] = key

\* What an apply with its second to itself took are the newest checkpoints,
\* one of each plugin under each key, and say what it found.
FiledFrom(b) ==
    /\ \A j \in 1 .. b : db[j].stamp < clock
    /\ \A j \in 1 .. b, k \in b + 1 .. Len(db) : db[j].stamp < db[k].stamp
    /\ \A j, k \in b + 1 .. Len(db) : db[j].key = db[k].key /\ db[j].name = db[k].name => j = k
    /\ \A k \in b + 1 .. Len(db) : <<db[k].key, db[k].name>> \in last.taken
    /\ \A x \in last.taken : \E k \in b + 1 .. Len(db) :
         /\ db[k].key = x[1] /\ db[k].name = x[2]
         /\ Only(x[1][2], x[1]) => db[k].found = last.host[x[1][2]][x[2]]

Filed == last.quiet => \E b \in 0 .. Len(db) : FiledFrom(b)

\* While it runs: what has not been captured has not been changed, and a job
\* captures each plugin once, before it writes.
Takes(t, key) ==
    /\ t.pc = "waiting" => \A x \in last.taken : x[1] # key
    /\ t.pc \in {"plugin", "write"} => \A n \in DOMAIN run.plugins :
         <<key, run.plugins[n]>> \in last.taken => n < t.at \/ (n = t.at /\ t.pc = "write")
    /\ t.pc = "write" => <<key, run.plugins[t.at]>> \in last.taken

Applying ==
    last.quiet /\ run.open /\ run.verb = "apply" =>
        /\ \A m \in Machine, n \in Plugin :
             (\A x \in last.taken : ~(x[1][2] = m /\ x[2] = n)) => host[m][n] = last.host[m][n]
        /\ \A i \in DOMAIN task : Takes(task[i], Key(run.profiles[i]))

\* Of a rollback: what is to be restored is what the apply found, and what has
\* been restored is there.
Restores(t, p) ==
    t.pc = "restore" \/ t.status = "rolled_back" =>
        /\ t.status = "rolled_back" => t.todo = {}
        /\ \A x \in t.todo : db[x[2]].name = run.plugins[x[1]]
        /\ Alone(p.machine) /\ Only(p.machine, Key(p)) =>
             \A n \in DOMAIN run.plugins : <<Key(p), run.plugins[n]>> \in last.taken =>
               /\ \A x \in t.todo : x[1] = n =>
                    db[x[2]].found = last.host[p.machine][run.plugins[n]]
               /\ t.failed = 0 /\ (\A x \in t.todo : x[1] # n) =>
                    host[p.machine][run.plugins[n]] = last.host[p.machine][run.plugins[n]]

Undoing ==
    last.quiet /\ run.verb = "rollback" =>
        \A i \in DOMAIN task : Restores(task[i], run.profiles[i])

UndoInv == Filed /\ Applying /\ Undoing

-----------------------------------------------------------------------------
(* The pieces of a run.                                                     *)

\* A profile is filed under an account and its own machine.
LEMMA KeyType ==
  ASSUME FleetAssumption, NEW p \in Profile
  PROVE  /\ Key(p) \in HostKey /\ Key(p)[2] = p.machine
         /\ Keys(p) \subseteq HostKey /\ Key(p) \in Keys(p)
         /\ \A k \in Keys(p) : k[2] = p.machine
BY DEF FleetAssumption, Key, Keys, HostKey, Profile

\* The hosts of a request are profiles.
LEMMA ResolvedType ==
  ASSUME FleetAssumption, NEW r \in Requests
  PROVE  Resolved(r.names, r.inline) \in Seq(Profile)
<1> DEFINE S == {p \in r.inline : \A i \in DOMAIN r.names : r.names[i] # p}
           n == Cardinality(S)
<1>1. IsFiniteSet(S) /\ S \subseteq Profile
  <2>1. IsFiniteSet(r.inline) /\ r.inline \subseteq Profile  BY DEF FleetAssumption
  <2> QED  BY <2>1, FS_Subset
<1>2. n \in Nat /\ ExistsBijection(1 .. n, S)
  BY <1>1, FS_CardinalityType
<1>3. SetToSeq(S) \in [1 .. n -> S]
  <2>1. \E f \in [1 .. n -> S] : IsInjective(f)
    BY <1>2 DEF ExistsBijection, Bijection, Injection, IsInjective
  <2> HIDE DEF S
  <2> QED  BY <2>1 DEF SetToSeq
<1>4. SetToSeq(S) \in Seq(Profile)
  <2> HIDE DEF S, n
  <2> QED  BY <1>1, <1>2, <1>3
<1>5. r.names \in Seq(Profile)  BY DEF FleetAssumption
<1> HIDE DEF S
<1>6. r.names \o SetToSeq(S) \in Seq(Profile)  BY <1>4, <1>5
<1> QED  BY <1>6 DEF Resolved, S

\* The plugins of a run are some of the registry's, each once.
LEMMA FilteredType ==
  ASSUME FleetAssumption, NEW r \in Requests
  PROVE  /\ Filtered(r.plugins) \in Seq(Plugin) /\ Filtered(r.plugins) # <<>>
         /\ IsInjective(Filtered(r.plugins))
BY DEF FleetAssumption, Filtered

\* The registry has finitely many plugins.
LEMMA PluginFinite ==
  ASSUME FleetAssumption
  PROVE  \A S \in SUBSET Plugin : Cardinality(S) \in Nat
<1>1. DOMAIN Registry = 1 .. Len(Registry) /\ Len(Registry) \in Nat  BY DEF FleetAssumption
<1>2. IsFiniteSet(DOMAIN Registry)  BY <1>1, FS_Interval
<1>3. Registry \in Surjection(DOMAIN Registry, Plugin)
  BY <1>1 DEF FleetAssumption, Surjection, Plugin
<1>4. IsFiniteSet(Plugin)  BY <1>2, <1>3, FS_Surjection
<1> QED  BY <1>4, FS_Subset, FS_CardinalityType

\* Of two checkpoints the later, or of one second the one stored first.
Later(j, k) == db[k].stamp < db[j].stamp \/ (db[k].stamp = db[j].stamp /\ j <= k)

(***************************************************************************)
(* Some checkpoint of a name is the latest, by the well-foundedness of      *)
(* strict inclusion on the sets of those later than each; and               *)
(* select_latest_named takes it.                                            *)
(***************************************************************************)
LEMMA LatestIsThere ==
  ASSUME TypeOK, NEW keys, NEW name, Named(keys, name) # {}
  PROVE  /\ Latest(keys, name) \in Named(keys, name)
         /\ \A j \in Named(keys, name) : Later(Latest(keys, name), j)
<1> DEFINE S == Named(keys, name)
<1>1. IsFiniteSet(S) /\ S \subseteq Nat /\ S \subseteq DOMAIN db
  <2>1. DOMAIN db = 1 .. Len(db) /\ Len(db) \in Nat  BY DEF TypeOK
  <2>2. IsFiniteSet(1 .. Len(db))  BY <2>1, FS_Interval
  <2>3. S \subseteq 1 .. Len(db)  BY <2>1 DEF Named
  <2> QED  BY <2>1, <2>2, <2>3, FS_Subset
<1>2. \A i \in S : db[i].stamp \in Nat /\ i \in Nat
  <2>1. \A i \in S : db[i] \in Point  BY <1>1 DEF TypeOK
  <2> QED  BY <1>1, <2>1 DEF Point
<1>3. S # {}  OBVIOUS
<1> HIDE DEF S
<1> DEFINE From(i) == {j \in S : Later(j, i)}
           T == {From(i) : i \in S}
           R == StrictSubsetOrdering(S)
<1>4. IsWellFoundedOn(R, SUBSET S)
  BY <1>1, FS_StrictSubsetOrderingWellFounded, FS_FiniteSubsetsOfFinite
<1>5. T # {} /\ T \subseteq SUBSET S  BY <1>3
<1>6. PICK u \in T : \A v \in T : <<v, u>> \notin R
  <2> HIDE DEF R, T
  <2> QED  BY <1>4, <1>5, WFMin
<1>7. PICK i \in S : u = From(i)  OBVIOUS
<1>8. ASSUME NEW j \in S, ~Later(i, j) PROVE FALSE
  <2>1. Later(j, i) /\ i # j  BY <1>2, <1>8 DEF Later
  <2>2. \A k \in From(j) : k \in From(i)  BY <1>2, <2>1 DEF Later
  <2>3. i \in From(i) /\ i \notin From(j)  BY <1>2, <1>8 DEF Later
  <2>4. From(j) \subseteq From(i) /\ From(j) # From(i)  BY <2>2, <2>3
  <2>5. From(j) \in SUBSET S /\ From(i) \in SUBSET S /\ From(j) \in T  OBVIOUS
  <2> HIDE DEF From, T
  <2> QED  BY <1>6, <1>7, <2>4, <2>5 DEF StrictSubsetOrdering
<1>9. \E k \in S : \A j \in S : db[j].stamp < db[k].stamp \/ (db[j].stamp = db[k].stamp /\ k <= j)
  BY <1>7, <1>8 DEF Later
<1>10. Latest(keys, name) = CHOOSE k \in S : \A j \in S :
         db[j].stamp < db[k].stamp \/ (db[j].stamp = db[k].stamp /\ k <= j)
  BY Zenon DEF S, Latest
<1>11. /\ Latest(keys, name) \in S
       /\ \A j \in S : \/ db[j].stamp < db[Latest(keys, name)].stamp
                       \/ db[j].stamp = db[Latest(keys, name)].stamp /\ Latest(keys, name) <= j
  BY <1>9, <1>10
<1> QED  BY <1>11 DEF S, Later

\* What a rollback is to restore are places of the run's plugins, each with a
\* checkpoint of that plugin under one of the host's keys.
LEMMA SelectedPoints ==
  ASSUME TypeOK, NEW p \in Profile, NEW x \in Selected(p)
  PROVE  /\ x \in (DOMAIN run.plugins) \X (DOMAIN db)
         /\ x[2] = Latest(Keys(p), run.plugins[x[1]])
         /\ x[2] \in Named(Keys(p), run.plugins[x[1]])
<1>1. PICK n \in DOMAIN run.plugins :
        Named(Keys(p), run.plugins[n]) # {} /\ x = <<n, Latest(Keys(p), run.plugins[n])>>
  BY DEF Selected
<1>2. x[2] \in Named(Keys(p), run.plugins[n])  BY <1>1, LatestIsThere
<1> QED  BY <1>1, <1>2 DEF Named

-----------------------------------------------------------------------------
(* The shape of the state.                                                  *)

LastApply == [host : Hosts, taken : SUBSET (HostKey \X Plugin), quiet : BOOLEAN]

\* A job that comes to the next plugin keeps the rest.
LEMMA NextJob ==
  ASSUME NEW t \in Job
  PROVE  /\ Next1(t) \in Job /\ Ok(t) \in Job /\ Failed(t) \in Job /\ Erred(t) \in Job
         /\ \A u \in {Next1(t), Ok(t), Failed(t), Erred(t)} :
              u.pc = "plugin" /\ u.at = t.at + 1 /\ u.todo = t.todo /\ u.status = t.status
              /\ u.skipped = t.skipped
         /\ Next1(t).ok = t.ok /\ Next1(t).failed = t.failed /\ Next1(t).erred = t.erred
         /\ Ok(t).ok = t.ok + 1 /\ Ok(t).failed = t.failed /\ Ok(t).erred = t.erred
         /\ Failed(t).failed = t.failed + 1 /\ Failed(t).ok = t.ok /\ Failed(t).erred = t.erred
         /\ Erred(t).erred = TRUE /\ Erred(t).ok = t.ok /\ Erred(t).failed = t.failed
<1>1. t.at + 1 \in Nat /\ t.ok + 1 \in Nat /\ t.failed + 1 \in Nat
  <2>1. t.at \in Nat /\ t.ok \in Nat /\ t.failed \in Nat  BY Zenon DEF Job
  <2> QED  BY <2>1
<1>2. \A n \in Nat :
        LET v == [t EXCEPT !.pc = "plugin", !.at = n]
        IN  /\ v \in Job /\ v.pc = "plugin" /\ v.at = n /\ v.todo = t.todo /\ v.status = t.status
            /\ v.skipped = t.skipped /\ v.ok = t.ok /\ v.failed = t.failed /\ v.erred = t.erred
  BY DEF Job
<1> DEFINE u == Next1(t)
<1>3. /\ u \in Job /\ u.pc = "plugin" /\ u.at = t.at + 1 /\ u.todo = t.todo /\ u.status = t.status
      /\ u.skipped = t.skipped /\ u.ok = t.ok /\ u.failed = t.failed /\ u.erred = t.erred
  BY <1>1, <1>2, Zenon DEF Next1
<1> HIDE DEF u
<1>4. LET v == [u EXCEPT !.erred = TRUE]
      IN  /\ v \in Job /\ v.pc = u.pc /\ v.at = u.at /\ v.todo = u.todo /\ v.status = u.status
          /\ v.skipped = u.skipped /\ v.erred = TRUE /\ v.ok = u.ok /\ v.failed = u.failed
  BY <1>3 DEF Job
<1>5. Ok(t) = [u EXCEPT !.ok = u.ok + 1]  BY Zenon DEF u, Ok
<1>6. Failed(t) = [u EXCEPT !.failed = u.failed + 1]  BY Zenon DEF u, Failed
<1>7. Erred(t) = [u EXCEPT !.erred = TRUE]  BY Zenon DEF u, Erred
<1> DEFINE n == u.ok + 1
           m == u.failed + 1
<1>8. n \in Nat /\ m \in Nat  BY <1>1, <1>3
<1>9. Ok(t) = [u EXCEPT !.ok = n] /\ Failed(t) = [u EXCEPT !.failed = m]  BY <1>5, <1>6
<1> HIDE DEF n, m
<1>10. /\ Ok(t) \in Job /\ Ok(t).pc = u.pc /\ Ok(t).at = u.at /\ Ok(t).todo = u.todo
       /\ Ok(t).status = u.status /\ Ok(t).skipped = u.skipped /\ Ok(t).ok = n
       /\ Ok(t).failed = u.failed /\ Ok(t).erred = u.erred
  BY <1>3, <1>8, <1>9 DEF Job
<1>11. /\ Failed(t) \in Job /\ Failed(t).pc = u.pc /\ Failed(t).at = u.at /\ Failed(t).todo = u.todo
       /\ Failed(t).status = u.status /\ Failed(t).skipped = u.skipped /\ Failed(t).failed = m
       /\ Failed(t).ok = u.ok /\ Failed(t).erred = u.erred
  BY <1>3, <1>8, <1>9 DEF Job
<1>12. Next1(t) = u  BY DEF u
<1> QED  BY <1>3, <1>4, <1>7, <1>10, <1>11, <1>12 DEF n, m

\* A job that ends is done.
LEMMA DoneJob ==
  ASSUME NEW t \in Job, NEW status \in {"failed", "scanned", "applied", "validated", "nothing",
                                        "previewed", "rolled_back"}
  PROVE  LET u == [t EXCEPT !.pc = "done", !.status = status]
         IN  /\ u \in Job /\ u.pc = "done" /\ u.status = status /\ u.todo = t.todo
             /\ u.ok = t.ok /\ u.failed = t.failed /\ u.erred = t.erred
             /\ \A r : Fits(r, u)
BY DEF Job, Fits

\* A step of a job that fits the run, with at most one checkpoint filed.
LEMMA JobMoves ==
  ASSUME TypeInv, run.open, NEW i \in DOMAIN task, NEW t \in Job, Fits(run, t),
         t.todo \subseteq (DOMAIN run.plugins) \X (DOMAIN db),
         task' = [task EXCEPT ![i] = t], clock' = clock, run' = run,
         db' = db \/ \E c \in Point : c.stamp = clock /\ db' = Append(db, c),
         host' \in Hosts, last' \in LastApply
  PROVE  TypeInv'
<1>1. /\ db' \in Seq(Point) /\ DOMAIN db \subseteq DOMAIN db'
      /\ \A k \in DOMAIN db' : db'[k].stamp <= clock
  <2>1. db \in Seq(Point) /\ clock \in Nat /\ \A k \in DOMAIN db : db[k].stamp <= clock
    BY DEF TypeInv, TypeOK, Shape
  <2>2. CASE db' = db  BY <2>1, <2>2
  <2>3. ASSUME NEW c \in Point, c.stamp = clock, db' = Append(db, c)
        PROVE  /\ db' \in Seq(Point) /\ DOMAIN db \subseteq DOMAIN db'
               /\ \A k \in DOMAIN db' : db'[k].stamp <= clock
    <3>1. /\ db' \in Seq(Point) /\ DOMAIN db' = 1 .. Len(db) + 1
          /\ \A k \in DOMAIN db' : db'[k] = IF k = Len(db) + 1 THEN c ELSE db[k]
      BY <2>1, <2>3
    <3> QED  BY <2>1, <2>3, <3>1
  <2> QED  BY <2>2, <2>3
<1>2. task' \in Seq(Job) /\ DOMAIN task' = DOMAIN task /\ Len(task') = Len(task)
      /\ \A j \in DOMAIN task' : task'[j] = IF j = i THEN t ELSE task[j]
  BY DEF TypeInv, TypeOK
<1>3. TypeOK'
  <2>1. \A j \in DOMAIN task' : task'[j].todo \subseteq (DOMAIN run.plugins) \X (DOMAIN db')
    BY <1>1, <1>2 DEF TypeInv, TypeOK
  <2> QED  BY <1>1, <1>2, <2>1 DEF TypeInv, TypeOK, LastApply
<1>4. Shape'
  <2>1. \A j \in DOMAIN task' : Fits(run', task'[j])
    BY <1>2 DEF TypeInv, Shape
  <2>2. Tasked'
    BY <1>2 DEF TypeInv, Shape, Tasked
  <2> QED  BY <1>1, <2>1, <2>2 DEF Shape
<1> QED  BY <1>3, <1>4 DEF TypeInv

\* A run that opens is the run that was asked for.
LEMMA OpenedRun ==
  ASSUME NEW r \in Run
  PROVE  LET o == [r EXCEPT !.open = TRUE, !.code = 0]
         IN  /\ o \in Run /\ o.verb = r.verb /\ o.profiles = r.profiles /\ o.plugins = r.plugins
             /\ o.disabled = r.disabled /\ o.open
<1> DEFINE q == [r EXCEPT !.open = TRUE]
<1>1. /\ q \in Run /\ q.verb = r.verb /\ q.profiles = r.profiles /\ q.plugins = r.plugins
      /\ q.disabled = r.disabled /\ q.open
  BY DEF Run
<1>2. [r EXCEPT !.open = TRUE, !.code = 0] = [q EXCEPT !.code = 0]  OBVIOUS
<1>3. 0 \in 0 .. 2  OBVIOUS
<1> HIDE DEF q
<1> QED  BY <1>1, <1>2, <1>3 DEF Run

\* A run begins with a job for each host it was asked for, all waiting.
LEMMA BeginTyped ==
  ASSUME FleetAssumption, TypeInv, Begin
  PROVE  TypeInv'
<1>1. PICK verb \in Verb, request \in Requests :
        LET profiles == Resolved(request.names, request.inline)
            asked == [run EXCEPT !.verb = verb, !.profiles = profiles,
                        !.plugins = Filtered(request.plugins),
                        !.left = IF Executes(verb) THEN @ - 1 ELSE 0]
        IN  IF Executes(verb) /\ Colliding(profiles)
            THEN /\ run' = [asked EXCEPT !.code = 2]
                 /\ task' = <<>>
                 /\ UNCHANGED last
            ELSE /\ run' = [asked EXCEPT !.open = TRUE, !.code = 0]
                 /\ task' = [i \in DOMAIN profiles |-> Waiting]
                 /\ last' = IF verb = "apply"
                            THEN [host |-> host, taken |-> {},
                                       quiet |-> \A k \in DOMAIN db : db[k].stamp # clock]
                            ELSE last
  BY Zenon DEF Begin
<1> DEFINE profiles == Resolved(request.names, request.inline)
           plugins == Filtered(request.plugins)
<1>2. profiles \in Seq(Profile) /\ plugins \in Seq(Plugin) /\ plugins # <<>> /\ IsInjective(plugins)
  BY ResolvedType, FilteredType
<1>3. ~run.open /\ run.left > 0 /\ host' = host /\ db' = db /\ clock' = clock
  BY DEF Begin
<1>4. Waiting \in Job /\ Waiting.todo = {} /\ \A r : Fits(r, Waiting)
  BY DEF Waiting, Job, Fits
<1> HIDE DEF profiles, plugins
<1> DEFINE asked == [run EXCEPT !.verb = verb, !.profiles = profiles, !.plugins = plugins,
                       !.left = IF Executes(verb) THEN @ - 1 ELSE 0]
<1>5. /\ asked \in Run /\ asked.verb = verb /\ asked.profiles = profiles
      /\ asked.plugins = plugins /\ asked.open = run.open
  <2> DEFINE left == IF Executes(verb) THEN run.left - 1 ELSE 0
  <2>1. run \in Run /\ left \in Nat  BY <1>3 DEF TypeInv, TypeOK, Run
  <2>2. asked = [run EXCEPT !.verb = verb, !.profiles = profiles, !.plugins = plugins,
                            !.left = left]
    BY Zenon
  <2> HIDE DEF left, asked
  <2> QED  BY <1>2, <2>1, <2>2 DEF Run
<1>6. CASE Executes(verb) /\ Colliding(profiles)
  <2>1. run' = [asked EXCEPT !.code = 2] /\ task' = <<>> /\ last' = last
    BY <1>1, <1>6 DEF profiles, plugins
  <2> HIDE DEF asked
  <2>2. run' \in Run /\ ~run'.open  BY <1>3, <1>5, <2>1 DEF Run
  <2> QED  BY <1>3, <2>1, <2>2 DEF TypeInv, TypeOK, Shape, Tasked
<1>7. CASE ~(Executes(verb) /\ Colliding(profiles))
  <2>1. /\ run' = [asked EXCEPT !.open = TRUE, !.code = 0]
        /\ task' = [i \in DOMAIN profiles |-> Waiting]
        /\ last' = IF verb = "apply"
                   THEN [host |-> host, taken |-> {},
                              quiet |-> \A k \in DOMAIN db : db[k].stamp # clock]
                   ELSE last
    BY <1>1, <1>7 DEF profiles, plugins
  <2> HIDE DEF asked
  <2>2. /\ run' \in Run /\ run'.verb = verb /\ run'.profiles = profiles /\ run'.plugins = plugins
    <3>1. run' = [asked EXCEPT !.open = TRUE, !.code = 0]  BY <2>1
    <3>2. asked \in Run  BY <1>5
    <3> QED  BY <1>5, <3>1, <3>2, OpenedRun, Zenon
  <2>3. /\ task' \in Seq(Job) /\ Len(task') = Len(profiles)
        /\ \A i \in DOMAIN task' : task'[i] = Waiting
    BY <1>2, <1>4, <2>1
  <2>4. last' \in LastApply
    BY <2>1 DEF TypeInv, TypeOK, LastApply
  <2>5. TypeOK'
    BY <1>3, <1>4, <2>2, <2>3, <2>4 DEF TypeInv, TypeOK, LastApply
  <2>6. Tasked'
    BY <1>2, <1>7, <2>2, <2>3 DEF Tasked
  <2>7. Shape'
    BY <1>3, <1>4, <2>3, <2>6 DEF TypeInv, Shape
  <2> QED  BY <2>5, <2>7 DEF TypeInv
<1> QED  BY <1>6, <1>7

\* A job of a run, the profile it is for, and what it is about to do.
LEMMA JobOf ==
  ASSUME TypeInv, NEW i \in DOMAIN task
  PROVE  /\ task[i] \in Job /\ Fits(run, task[i]) /\ run.profiles[i] \in Profile
         /\ task[i].todo \subseteq (DOMAIN run.plugins) \X (DOMAIN db)
         /\ run.profiles[i].machine \in Machine
         /\ HasPlugin(i) \/ At(i, "write") => Current(i) \in Plugin
         /\ run \in Run /\ last \in LastApply /\ host \in Hosts /\ clock \in Nat
<1>1. /\ task \in Seq(Job) /\ run.profiles \in Seq(Profile) /\ run.plugins \in Seq(Plugin)
      /\ run \in Run /\ last \in LastApply /\ host \in Hosts /\ clock \in Nat
  BY DEF TypeInv, TypeOK, Run, LastApply
<1>2. task # <<>> /\ Len(task) = Len(run.profiles)
  BY <1>1 DEF TypeInv, Shape, Tasked
<1>3. task[i] \in Job /\ i \in DOMAIN run.profiles  BY <1>1, <1>2
<1>4. run.profiles[i] \in Profile  BY <1>1, <1>3
<1>5. Fits(run, task[i])  BY DEF TypeInv, Shape
<1>6. task[i].todo \subseteq (DOMAIN run.plugins) \X (DOMAIN db)  BY DEF TypeInv, TypeOK
<1>7. HasPlugin(i) \/ At(i, "write") => task[i].at \in DOMAIN run.plugins
  BY <1>5 DEF HasPlugin, At, Fits
<1> QED  BY <1>1, <1>3, <1>4, <1>5, <1>6, <1>7 DEF Current, Profile

\* A change of one plugin on one machine.
LEMMA HostsType ==
  ASSUME host \in Hosts, NEW m \in Machine, NEW n \in Plugin, NEW v \in {"bare", "hard"}
  PROVE  /\ [host EXCEPT ![m][n] = v] \in Hosts
         /\ \A k \in Machine, l \in Plugin :
              [host EXCEPT ![m][n] = v][k][l] = IF k = m /\ l = n THEN v ELSE host[k][l]
BY DEF Hosts

\* A job that is done needs nothing more.
LEMMA DoneTyped ==
  ASSUME TypeInv, run.open, NEW i \in DOMAIN task, NEW t \in Job, t.todo = task[i].todo,
         NEW status \in {"failed", "scanned", "applied", "validated", "nothing",
                         "previewed", "rolled_back"},
         Done(i, t, status), UNCHANGED <<host, db, clock, run, last>>
  PROVE  TypeInv'
<1> DEFINE u == [t EXCEPT !.pc = "done", !.status = status]
<1>1. u \in Job /\ u.todo = t.todo /\ Fits(run, u)  BY DEF Job, Fits
<1>2. task' = [task EXCEPT ![i] = u]  BY DEF Done
<1> HIDE DEF u
<1> QED  BY <1>1, <1>2, JobOf, JobMoves

\* A job whose plugin is behind it comes to the next.
LEMMA StepTyped ==
  ASSUME TypeInv, run.open, NEW i \in DOMAIN task, task[i].pc \in {"plugin", "write"},
         NEW t \in {Next1(task[i]), Ok(task[i]), Failed(task[i]), Erred(task[i])},
         task' = [task EXCEPT ![i] = t], UNCHANGED <<db, clock, run, last>>, host' \in Hosts
  PROVE  TypeInv'
<1>1. task[i] \in Job /\ task[i].status = "none" /\ task[i].at \in Nat
      /\ run.verb \in {"validate", "apply"}
  BY JobOf DEF Fits, Job
<1>2. t \in Job /\ t.pc = "plugin" /\ t.at = task[i].at + 1 /\ t.todo = task[i].todo
      /\ t.status = "none"
  BY <1>1, NextJob
<1>3. Fits(run, t)  BY <1>1, <1>2 DEF Fits
<1> QED  BY <1>2, <1>3, JobOf, JobMoves

\* Every step of a job keeps the state in shape.
LEMMA TaskTyped ==
  ASSUME FleetAssumption, TypeInv, NEW i \in DOMAIN task, Task(i)
  PROVE  TypeInv'
<1>1. /\ task[i] \in Job /\ Fits(run, task[i]) /\ run.profiles[i] \in Profile
      /\ task[i].todo \subseteq (DOMAIN run.plugins) \X (DOMAIN db)
      /\ run.profiles[i].machine \in Machine
      /\ HasPlugin(i) \/ At(i, "write") => Current(i) \in Plugin
      /\ run \in Run /\ last \in LastApply /\ host \in Hosts /\ clock \in Nat
  BY JobOf
<1>2. CASE Connect(i)
  <2>1. run.open /\ task[i] = Waiting /\ UNCHANGED <<host, db, clock, run, last>>
    BY <1>1, <1>2 DEF Connect, At, Fits
  <2>2. CASE Done(i, task[i], "failed")  BY <1>1, <2>1, <2>2, DoneTyped
  <2> DEFINE pc == CASE run.verb = "scan" -> "scan"
                     [] run.verb \in {"validate", "apply"} -> "plugin"
                     [] OTHER -> "select"
             t == [task[i] EXCEPT !.pc = pc]
  <2>3. CASE task' = [task EXCEPT ![i].pc = pc]
    <3>1. run.verb \in Verb  BY <2>1 DEF TypeInv, Shape, Tasked
    <3>2. pc \in {"scan", "plugin", "select"}
          /\ (pc = "scan" => run.verb = "scan")
          /\ (pc = "plugin" => run.verb \in {"validate", "apply"})
          /\ (pc = "select" => run.verb \in {"preview", "rollback"})
      BY <3>1 DEF Verb
    <3>3. task' = [task EXCEPT ![i] = t]  BY <2>3, Zenon
    <3> HIDE DEF pc
    <3>4. t \in Job /\ t.pc = pc /\ t.at = 1 /\ t.status = "none" /\ t.todo = task[i].todo
      <4>1. task[i] \in Job /\ task[i].at = 1 /\ task[i].status = "none"
        BY <1>1, <2>1 DEF Waiting
      <4>2. pc \in {"waiting", "scan", "plugin", "write", "select", "restore", "done", "gone"}
        BY <3>2
      <4> QED  BY <4>1, <4>2 DEF Job
    <3>5. Fits(run, t)  BY <3>2, <3>4 DEF Fits
    <3> HIDE DEF t
    <3> QED  BY <1>1, <2>1, <3>3, <3>4, <3>5, JobMoves
  <2> QED  BY <1>2, <2>2, <2>3 DEF Connect
<1>3. CASE Panic(i)
  <2> DEFINE t == [Waiting EXCEPT !.pc = "gone"]
  <2>1. t \in Job /\ t.todo = {} /\ Fits(run, t)  BY DEF Waiting, Job, Fits
  <2>2. run.open /\ task' = [task EXCEPT ![i] = t] /\ UNCHANGED <<host, db, clock, run, last>>
    BY <1>3 DEF Panic, Active
  <2> HIDE DEF t
  <2> QED  BY <1>1, <2>1, <2>2, JobMoves
<1>4. CASE Scan(i)
  <2>1. run.open /\ UNCHANGED <<host, db, clock, run, last>>  BY <1>4 DEF Scan, At
  <2>2. CASE Done(i, task[i], "failed")  BY <1>1, <2>1, <2>2, DoneTyped
  <2>3. ASSUME NEW found \in SUBSET Plugin,
               Done(i, [task[i] EXCEPT !.failed = Cardinality(found)], "scanned")
        PROVE  TypeInv'
    <3>1. Cardinality(found) \in Nat  BY PluginFinite
    <3> DEFINE n == Cardinality(found)
    <3> HIDE DEF n
    <3>2. [task[i] EXCEPT !.failed = n] \in Job /\ [task[i] EXCEPT !.failed = n].todo = task[i].todo
      BY <1>1, <3>1 DEF Job, n
    <3>3. Done(i, [task[i] EXCEPT !.failed = n], "scanned")  BY <2>3 DEF n
    <3> QED  BY <2>1, <3>2, <3>3, DoneTyped
  <2>4. \/ Done(i, task[i], "failed")
        \/ \E read \in SUBSET Plugin :
             LET found == {p \in read : host[run.profiles[i].machine][p] = "bare"} IN
             Done(i, [task[i] EXCEPT !.failed = Cardinality(found)], "scanned")
    BY <1>4, Zenon DEF Scan
  <2> QED  BY <2>2, <2>3, <2>4
<1>5. CASE SkipPlugin(i)
  <2>1. run.open /\ task[i].pc = "plugin" /\ UNCHANGED <<host, db, clock, run, last>>
        /\ task' = [task EXCEPT ![i] = [Next1(task[i]) EXCEPT !.skipped = TRUE]]
    BY <1>5 DEF SkipPlugin, HasPlugin, At
  <2> DEFINE u == Next1(task[i])
             t == [u EXCEPT !.skipped = TRUE]
  <2>2. u \in Job /\ u.pc = "plugin" /\ u.at = task[i].at + 1 /\ u.todo = task[i].todo
        /\ u.status = task[i].status
    BY <1>1, NextJob
  <2> HIDE DEF u
  <2>3. t \in Job /\ t.pc = "plugin" /\ t.at = u.at /\ t.todo = u.todo /\ t.status = u.status
    BY <2>2 DEF Job
  <2>4. task[i].at \in Nat  BY <1>1 DEF Job
  <2>5. Fits(run, t)  BY <1>1, <2>1, <2>2, <2>3, <2>4 DEF Fits
  <2>6. task' = [task EXCEPT ![i] = t]  BY <2>1 DEF u
  <2> HIDE DEF t
  <2> QED  BY <1>1, <2>1, <2>2, <2>3, <2>5, <2>6, JobMoves
<1>6. CASE ValidatePlugin(i)
  <2>1. run.open /\ task[i].pc = "plugin" /\ UNCHANGED <<host, db, clock, run, last>>
        /\ \E t \in {Ok(task[i]), Failed(task[i]), Erred(task[i])} : task' = [task EXCEPT ![i] = t]
    BY <1>6 DEF ValidatePlugin, HasPlugin, At
  <2> QED  BY <1>1, <2>1, StepTyped
<1>7. CASE CapturePlugin(i)
  <2> DEFINE p == run.profiles[i]
             c == [key |-> Key(p), name |-> Current(i), stamp |-> clock,
                   found |-> host[p.machine][Current(i)]]
             t == [task[i] EXCEPT !.pc = "write"]
  <2>1. /\ run.open /\ task[i].pc = "plugin" /\ task[i].at \in DOMAIN run.plugins
        /\ run.verb = "apply" /\ UNCHANGED <<host, clock, run>>
    BY <1>7 DEF CapturePlugin, HasPlugin, At
  <2>2. CASE UNCHANGED <<db, last>> /\ \E u \in {Erred(task[i]), Ok(task[i])} : task' = [task EXCEPT ![i] = u]
    BY <1>1, <2>1, <2>2, StepTyped
  <2>3. CASE /\ db' = Append(db, c) /\ task' = [task EXCEPT ![i].pc = "write"]
             /\ last' = [last EXCEPT !.taken = @ \cup {<<Key(p), Current(i)>>}]
    <3>1. Key(p) \in HostKey /\ Current(i) \in Plugin  BY <1>1, <1>7, KeyType DEF CapturePlugin
    <3>2. c \in Point /\ c.stamp = clock  BY <1>1, <3>1 DEF Point, Hosts
    <3>3. last' \in LastApply
      <4> DEFINE taken == last.taken \cup {<<Key(p), Current(i)>>}
      <4>1. taken \in SUBSET (HostKey \X Plugin)  BY <1>1, <3>1 DEF LastApply
      <4>2. last' = [last EXCEPT !.taken = taken]  BY <2>3
      <4> HIDE DEF taken
      <4> QED  BY <1>1, <4>1, <4>2 DEF LastApply
    <3>4. t \in Job /\ t.pc = "write" /\ t.at = task[i].at /\ t.todo = task[i].todo
          /\ t.status = task[i].status
      BY <1>1 DEF Job
    <3>5. Fits(run, t)  BY <1>1, <2>1, <3>4 DEF Fits
    <3>6. task' = [task EXCEPT ![i] = t]  BY <2>3, Zenon
    <3>7. db' = Append(db, c)  BY <2>3
    <3> HIDE DEF t, c
    <3> QED  BY <1>1, <2>1, <3>2, <3>3, <3>4, <3>5, <3>6, <3>7, JobMoves
  <2> QED  BY <1>7, <2>2, <2>3, Zenon DEF CapturePlugin
<1>8. CASE WritePlugin(i)
  <2>1. run.open /\ task[i].pc = "write" /\ UNCHANGED <<db, clock, run, last>>
        /\ \E t \in {Ok(task[i]), Failed(task[i]), Erred(task[i])} : task' = [task EXCEPT ![i] = t]
    BY <1>8 DEF WritePlugin, At
  <2>2. host' \in {host, [host EXCEPT ![run.profiles[i].machine][Current(i)] = "hard"]}
    BY <1>8 DEF WritePlugin
  <2>3. host' \in Hosts
    <3>1. Current(i) \in Plugin /\ run.profiles[i].machine \in Machine
      BY <1>1, <1>8 DEF WritePlugin
    <3>2. "hard" \in {"bare", "hard"}  OBVIOUS
    <3>3. [host EXCEPT ![run.profiles[i].machine][Current(i)] = "hard"] \in Hosts
      BY <1>1, <3>1, <3>2, HostsType
    <3> QED  BY <1>1, <2>2, <3>3
  <2> QED  BY <1>1, <2>1, <2>3, StepTyped
<1>9. CASE PluginsDone(i)
  <2>1. StatusOf(task[i]) \in {"failed", "applied", "validated"}  BY DEF StatusOf
  <2>2. run.open /\ UNCHANGED <<host, db, clock, run, last>> /\ Done(i, task[i], StatusOf(task[i]))
    BY <1>9 DEF PluginsDone, At
  <2> QED  BY <1>1, <2>1, <2>2, DoneTyped
<1>10. CASE Select(i)
  <2> DEFINE points == Selected(run.profiles[i])
             t == [task[i] EXCEPT !.pc = "restore", !.todo = points]
  <2>1. run.open /\ task[i].pc = "select" /\ UNCHANGED <<host, db, clock, run, last>>
    BY <1>10 DEF Select, At
  <2>2. CASE \E status \in {"failed", "nothing", "previewed"} : Done(i, task[i], status)
    BY <1>1, <2>1, <2>2, DoneTyped
  <2>3. CASE run.verb = "rollback" /\ task' = [task EXCEPT ![i].pc = "restore", ![i].todo = points]
    <3>1. points \subseteq (DOMAIN run.plugins) \X (DOMAIN db)
      BY <1>1, SelectedPoints DEF TypeInv
    <3>2. points \in SUBSET Choice
      <4>1. run.plugins \in Seq(Plugin) /\ db \in Seq(Point)  BY DEF TypeInv, TypeOK, Run
      <4>2. DOMAIN run.plugins \subseteq Nat /\ DOMAIN db \subseteq Nat  BY <4>1
      <4> HIDE DEF points
      <4> QED  BY <3>1, <4>2 DEF Choice
    <3> HIDE DEF points
    <3>3. t \in Job /\ t.pc = "restore" /\ t.todo = points /\ t.status = task[i].status
      BY <1>1, <3>2 DEF Job
    <3>4. Fits(run, t)  BY <1>1, <2>1, <2>3, <3>3 DEF Fits
    <3>5. task' = [task EXCEPT ![i] = t]  BY <2>3, Zenon
    <3> HIDE DEF t
    <3> QED  BY <1>1, <2>1, <3>1, <3>3, <3>4, <3>5, JobMoves
  <2> QED  BY <1>10, <2>2, <2>3, Zenon DEF Select
<1>11. CASE Restore(i)
  <2>1. run.open /\ task[i].pc = "restore" /\ UNCHANGED <<db, clock, run, last>>
    BY <1>11 DEF Restore, At
  <2>2. PICK point \in task[i].todo :
          LET p == run.profiles[i]
              c == db[point[2]]
              restored == [host EXCEPT ![p.machine][c.name] = c.found]
              rest == [task[i] EXCEPT !.todo = @ \ {point}]
              failing == [task EXCEPT ![i] = [rest EXCEPT !.failed = @ + 1]]
          IN
          \/ c.key # Key(p) /\ task' = failing /\ UNCHANGED host
          \/ c.key = Key(p) /\ task' = failing /\ host' \in {host, restored}
          \/ /\ c.key = Key(p)
             /\ task' = [task EXCEPT ![i] = [rest EXCEPT !.ok = @ + 1]]
             /\ host' = restored
    BY <1>11, Zenon DEF Restore
  <2> DEFINE c == db[point[2]]
             restored == [host EXCEPT ![run.profiles[i].machine][c.name] = c.found]
             todo == task[i].todo \ {point}
             rest == [task[i] EXCEPT !.todo = todo]
             failing == [rest EXCEPT !.failed = rest.failed + 1]
             going == [rest EXCEPT !.ok = rest.ok + 1]
  <2>3. c \in Point
    BY <1>1, <2>2 DEF TypeInv, TypeOK
  <2>4. restored \in Hosts  BY <1>1, <2>3, HostsType DEF Point
  <2>5. host' \in Hosts /\ \E t \in {failing, going} : task' = [task EXCEPT ![i] = t]
    BY <1>1, <2>2, <2>4, Zenon
  <2>6. todo \in SUBSET Choice /\ todo \subseteq (DOMAIN run.plugins) \X (DOMAIN db)
    BY <1>1 DEF Job
  <2> HIDE DEF todo
  <2>7. rest \in Job /\ rest.pc = "restore" /\ rest.todo = todo /\ rest.status = task[i].status
        /\ rest.failed \in Nat /\ rest.ok \in Nat
    BY <1>1, <2>1, <2>6 DEF Job
  <2> DEFINE m == rest.failed + 1
             n == rest.ok + 1
  <2>8. m \in Nat /\ n \in Nat  BY <2>7
  <2>9. failing = [rest EXCEPT !.failed = m] /\ going = [rest EXCEPT !.ok = n]  OBVIOUS
  <2> HIDE DEF m, n, rest
  <2>10. \A t \in {[rest EXCEPT !.failed = m], [rest EXCEPT !.ok = n]} :
           t \in Job /\ t.pc = "restore" /\ t.todo = todo /\ t.status = task[i].status
    BY <2>7, <2>8 DEF Job
  <2>11. PICK t \in {failing, going} : task' = [task EXCEPT ![i] = t]  BY <2>5
  <2>12. t \in Job /\ t.pc = "restore" /\ t.todo = todo /\ t.status = task[i].status
    BY <2>9, <2>10, <2>11
  <2>13. Fits(run, t)  BY <1>1, <2>1, <2>12 DEF Fits
  <2> HIDE DEF failing, going
  <2> QED  BY <1>1, <2>1, <2>5, <2>6, <2>11, <2>12, <2>13, JobMoves
<1>12. CASE RestoresDone(i)
  <2>1. run.open /\ UNCHANGED <<host, db, clock, run, last>> /\ Done(i, task[i], "rolled_back")
    BY <1>12 DEF RestoresDone, At
  <2> QED  BY <1>1, <2>1, DoneTyped
<1> QED
  BY <1>2, <1>3, <1>4, <1>5, <1>6, <1>7, <1>8, <1>9, <1>10, <1>11, <1>12 DEF Task

\* Before any run the state has its shape.
LEMMA InitTyped ==
  ASSUME FleetAssumption, Init
  PROVE  TypeInv
<1>1. host \in Hosts  BY DEF Init, Hosts
<1>2. db \in Seq(Point) /\ clock = 1 /\ \A k \in DOMAIN db : db[k].stamp <= clock
  <2>1. db \in {<<>>, Stored} /\ clock = 1  BY DEF Init
  <2>2. Stored \in Seq(Point) /\ \A k \in DOMAIN Stored : Stored[k].stamp <= 1
    BY DEF FleetAssumption
  <2>3. CASE db = <<>>  BY <2>1, <2>3
  <2>4. CASE db = Stored  BY <2>1, <2>2, <2>4
  <2> QED  BY <2>1, <2>3, <2>4
<1>3. Registry[Len(Registry)] \in Plugin  BY DEF FleetAssumption, Plugin
<1>4. \A disabled \in SUBSET Plugin : NoRun(disabled) \in Run /\ ~NoRun(disabled).open
  BY DEF NoRun, Run, FleetAssumption
<1>5. run \in Run /\ ~run.open  BY <1>3, <1>4 DEF Init
<1>6. task = <<>>  BY DEF Init
<1>7. last \in LastApply  BY <1>1 DEF Init, LastApply
<1>8. TypeOK  BY <1>1, <1>2, <1>5, <1>6, <1>7 DEF TypeOK, LastApply
<1>9. Shape  BY <1>2, <1>5, <1>6 DEF Shape, Tasked
<1> QED  BY <1>8, <1>9 DEF TypeInv

\* The end of a run changes the exit code.
LEMMA ReportTyped ==
  ASSUME TypeInv, Report
  PROVE  /\ TypeInv' /\ run'.verb = run.verb /\ run'.profiles = run.profiles
         /\ run'.plugins = run.plugins /\ ~run'.open
<1>1. /\ run' = [run EXCEPT !.open = FALSE, !.code = ExitCode(Assembled)]
      /\ run.open /\ UNCHANGED <<host, db, clock, task, last>>
  BY DEF Report
<1> DEFINE code == ExitCode(Assembled)
<1>2. code \in 0 .. 2
  <2> DEFINE S == {0} \cup {IF Assembled[i] = "failed" THEN 2
                            ELSE IF task[i].failed > 0 THEN 1 ELSE 0 : i \in DOMAIN Assembled}
  <2>1. 0 \in S /\ S \subseteq {0, 1, 2}  OBVIOUS
  <2> HIDE DEF S
  <2>2. \E x \in S : \A y \in S : y <= x
    <3>1. CASE 2 \in S  BY <2>1, <3>1
    <3>2. CASE 2 \notin S /\ 1 \in S  BY <2>1, <3>2
    <3>3. CASE 2 \notin S /\ 1 \notin S  BY <2>1, <3>3
    <3> QED  BY <3>1, <3>2, <3>3
  <2>3. Greatest(S) \in S  BY <2>2 DEF Greatest
  <2> QED  BY <2>1, <2>3 DEF ExitCode, S
<1> HIDE DEF code
<1> DEFINE q == [run EXCEPT !.open = FALSE]
<1>3. run \in Run  BY DEF TypeInv, TypeOK
<1>4. /\ q \in Run /\ q.verb = run.verb /\ q.profiles = run.profiles /\ q.plugins = run.plugins
      /\ ~q.open
  BY <1>3 DEF Run
<1>5. run' = [q EXCEPT !.code = code]  BY <1>1 DEF code
<1> HIDE DEF q
<1>6. /\ run' \in Run /\ run'.verb = run.verb /\ run'.profiles = run.profiles
      /\ run'.plugins = run.plugins /\ ~run'.open
  BY <1>2, <1>4, <1>5 DEF Run
<1>7. TypeOK'  BY <1>1, <1>6 DEF TypeInv, TypeOK
<1>8. Shape'
  <2>1. Tasked'  BY <1>1, <1>6 DEF TypeInv, Shape, Tasked
  <2>2. \A i \in DOMAIN task : Fits(run, task[i]) => Fits(run', task[i])
    BY <1>6 DEF Fits
  <2> QED  BY <1>1, <2>1, <2>2 DEF TypeInv, Shape
<1> QED  BY <1>6, <1>7, <1>8 DEF TypeInv

\* Time passes, and one machine may be another.
LEMMA OthersTyped ==
  ASSUME TypeInv, Others
  PROVE  TypeInv'
<1>1. clock' = clock + 1 /\ clock \in Nat /\ UNCHANGED <<db, run, task>>
  BY DEF Others, TypeInv, TypeOK
<1>2. host' \in Hosts /\ last' \in LastApply
  <2>1. host \in Hosts /\ last \in LastApply  BY DEF TypeInv, TypeOK, LastApply
  <2>2. CASE UNCHANGED <<host, last>>  BY <2>1, <2>2
  <2>3. ASSUME NEW m \in Machine, NEW p \in Plugin, NEW v \in {"bare", "hard"},
               host' = [host EXCEPT ![m][p] = v], last' = [last EXCEPT !.quiet = FALSE]
        PROVE  host' \in Hosts /\ last' \in LastApply
    <3>1. host' \in Hosts  BY <2>1, <2>3, HostsType
    <3>2. last' \in LastApply  BY <2>1, <2>3 DEF LastApply
    <3> QED  BY <3>1, <3>2
  <2> QED  BY <2>2, <2>3 DEF Others
<1>3. \A k \in DOMAIN db : db[k].stamp <= clock + 1
  <2>1. db \in Seq(Point) /\ \A k \in DOMAIN db : db[k].stamp <= clock
    BY DEF TypeInv, TypeOK, Shape
  <2>2. ASSUME NEW k \in DOMAIN db PROVE db[k].stamp \in Nat
    <3>1. db[k] \in Point  BY <2>1
    <3> QED  BY <3>1 DEF Point
  <2> QED  BY <1>1, <2>1, <2>2
<1>4. TypeOK'  BY <1>1, <1>2 DEF TypeInv, TypeOK, LastApply
<1>5. Shape'  BY <1>1, <1>3 DEF TypeInv, Shape, Tasked
<1> QED  BY <1>4, <1>5 DEF TypeInv

\* The state keeps its shape, whatever is asked for, fails, or panics.
LEMMA TypeInvariant ==
  ASSUME FleetAssumption
  PROVE  Spec => []TypeInv
<1>1. Init => TypeInv  BY InitTyped
<1>2. TypeInv /\ [Next]_vars => TypeInv'
  <2>1. ASSUME TypeInv, UNCHANGED vars PROVE TypeInv'
    BY <2>1 DEF vars, TypeInv, TypeOK, Shape, Tasked
  <2> QED  BY <2>1, BeginTyped, ReportTyped, OthersTyped, TaskTyped DEF Next
<1> QED  BY <1>1, <1>2, PTL DEF Spec

\* Every variable of a fleet run keeps its type, for any hosts, plugins and
\* requests; what a rollback selects are checkpoints that are there.
THEOREM TypeCorrect ==
  ASSUME FleetAssumption
  PROVE  Spec => []TypeOK
<1>1. TypeInv => TypeOK  BY DEF TypeInv
<1> QED  BY <1>1, TypeInvariant, PTL

-----------------------------------------------------------------------------
(* The exit code.                                                           *)
(*                                                                          *)
(* A host of which nothing is counted as failed had a plugin that ran,      *)
(* though the counters do not know of plugins that erred: a job that has    *)
(* been through a plugin says of it that it was applied, failed, erred or   *)
(* was skipped (Counts), and StatusOf tells the cases apart.                *)

\* A step of a job is of that job alone, within a run.
LEMMA OneJob ==
  ASSUME TypeInv, NEW i \in DOMAIN task, Task(i)
  PROVE  /\ run.open /\ run' = run /\ clock' = clock
         /\ DOMAIN task' = DOMAIN task
         /\ \A j \in DOMAIN task : j # i => task'[j] = task[j]
<1>1. run.open /\ run' = run /\ clock' = clock
  BY DEF Task, Connect, Panic, Scan, SkipPlugin, ValidatePlugin, CapturePlugin, WritePlugin,
     PluginsDone, Select, Restore, RestoresDone, At, HasPlugin, Active
<1>2. \E t : task' = [task EXCEPT ![i] = t]
  <2>1. CASE Connect(i)  BY <2>1 DEF Connect, Done
  <2>2. CASE Panic(i)  BY <2>2 DEF Panic
  <2>3. CASE Scan(i)  BY <2>3 DEF Scan, Done
  <2>4. CASE SkipPlugin(i) \/ ValidatePlugin(i) \/ WritePlugin(i)
    BY <2>4 DEF SkipPlugin, ValidatePlugin, WritePlugin
  <2>5. CASE CapturePlugin(i)  BY <2>5 DEF CapturePlugin
  <2>6. CASE PluginsDone(i) \/ RestoresDone(i)  BY <2>6 DEF PluginsDone, RestoresDone, Done
  <2>7. CASE Select(i)
    <3>1. CASE \E status : Done(i, task[i], status)  BY <3>1 DEF Done
    <3>2. CASE task' = [task EXCEPT ![i].pc = "restore", ![i].todo = Selected(run.profiles[i])]
      <4>1. task' = [task EXCEPT ![i] = [task[i] EXCEPT !.pc = "restore",
                                                        !.todo = Selected(run.profiles[i])]]
        BY <3>2, Zenon
      <4> QED  BY <4>1
    <3> QED  BY <2>7, <3>1, <3>2, Zenon DEF Select
  <2>8. CASE Restore(i)  BY <2>8, Zenon DEF Restore
  <2> QED  BY <2>1, <2>2, <2>3, <2>4, <2>5, <2>6, <2>7, <2>8 DEF Task
<1>3. task \in Seq(Job)  BY DEF TypeInv, TypeOK
<1>4. PICK t : task' = [task EXCEPT ![i] = t]  BY <1>2
<1> QED  BY <1>1, <1>3, <1>4

\* A job that has been through a plugin accounts for it.
LEMMA TaskCounts ==
  ASSUME FleetAssumption, TypeInv, NEW i \in DOMAIN task, Counts(run, task[i]), Task(i)
  PROVE  Counts(run, task'[i])
<1>1. /\ task[i] \in Job /\ Fits(run, task[i]) /\ run \in Run /\ task \in Seq(Job)
      /\ task[i].at \in Nat /\ task[i].ok \in Nat /\ task[i].failed \in Nat
  <2>1. task[i] \in Job /\ Fits(run, task[i]) /\ run \in Run  BY JobOf
  <2>2. task \in Seq(Job)  BY DEF TypeInv, TypeOK
  <2> QED  BY <2>1, <2>2 DEF Job
<1>2. \A t : task' = [task EXCEPT ![i] = t] => task'[i] = t
  BY <1>1
<1>3. ASSUME NEW t \in Job, NEW status \in {"failed", "scanned", "validated", "nothing",
                                            "previewed", "rolled_back"},
             Done(i, t, status), run.verb = "apply" => status = "failed"
      PROVE  Counts(run, task'[i])
  <2>1. task'[i] = [t EXCEPT !.pc = "done", !.status = status]  BY <1>2, <1>3 DEF Done
  <2>2. task'[i].pc = "done" /\ task'[i].status = status  BY <1>3, <2>1 DEF Job
  <2> QED  BY <1>3, <2>2 DEF Counts
<1>4. ASSUME NEW t \in {Ok(task[i]), Failed(task[i]), Erred(task[i])},
             task' = [task EXCEPT ![i] = t], task[i].pc \in {"plugin", "write"}
      PROVE  Counts(run, task'[i])
  <2>1. task'[i] = t /\ task[i].status = "none"  BY <1>1, <1>2, <1>4 DEF Fits
  <2> DEFINE u == task[i]
  <2>2. u \in Job /\ u.status = "none" /\ u.ok + 1 + u.failed > 0 /\ u.ok + (u.failed + 1) > 0
    BY <1>1, <2>1
  <2> HIDE DEF u
  <2>3. \A v \in {Ok(u), Failed(u), Erred(u)} :
          v.pc = "plugin" /\ v.status = "none" /\ (v.ok + v.failed > 0 \/ v.erred)
    <3>1. Ok(u).ok + Ok(u).failed > 0 /\ Failed(u).ok + Failed(u).failed > 0 /\ Erred(u).erred
      BY <2>2, NextJob
    <3>2. /\ Ok(u).pc = "plugin" /\ Ok(u).status = "none"
          /\ Failed(u).pc = "plugin" /\ Failed(u).status = "none"
          /\ Erred(u).pc = "plugin" /\ Erred(u).status = "none"
      BY <2>2, NextJob
    <3> QED  BY <3>1, <3>2
  <2>4. t \in {Ok(u), Failed(u), Erred(u)}  BY <1>4 DEF u
  <2> QED  BY <2>1, <2>3, <2>4 DEF Counts
<1>5. CASE Connect(i)
  <2>1. CASE Done(i, task[i], "failed")  BY <1>1, <1>3, <2>1
  <2>2. CASE task' = [task EXCEPT ![i].pc =
                        CASE run.verb = "scan" -> "scan"
                          [] run.verb \in {"validate", "apply"} -> "plugin"
                          [] OTHER -> "select"]
    <3> DEFINE pc == CASE run.verb = "scan" -> "scan"
                       [] run.verb \in {"validate", "apply"} -> "plugin"
                       [] OTHER -> "select"
    <3>1. pc # "done"  OBVIOUS
    <3>2. task' = [task EXCEPT ![i] = [task[i] EXCEPT !.pc = pc]]  BY <2>2, Zenon
    <3> HIDE DEF pc
    <3>3. task'[i] = [task[i] EXCEPT !.pc = pc]  BY <1>2, <3>2
    <3>4. task[i].at = 1 /\ task[i].status = "none"
      BY <1>1, <1>5 DEF Connect, At, Fits, Waiting
    <3>5. task'[i].at = 1 /\ task'[i].status = "none" /\ task'[i].pc = pc
      BY <1>1, <3>3, <3>4 DEF Job
    <3> QED  BY <3>1, <3>5 DEF Counts
  <2> QED  BY <1>5, <2>1, <2>2 DEF Connect
<1>6. CASE Panic(i)
  <2>1. task'[i] = [Waiting EXCEPT !.pc = "gone"]  BY <1>2, <1>6 DEF Panic
  <2>2. task'[i].pc = "gone" /\ task'[i].status = "none"  BY <2>1 DEF Waiting
  <2> QED  BY <2>2 DEF Counts
<1>7. CASE Scan(i)
  <2>1. run.verb = "scan"  BY <1>1, <1>7 DEF Scan, At, Fits
  <2>2. CASE Done(i, task[i], "failed")  BY <1>1, <1>3, <2>2
  <2>3. ASSUME NEW found \in SUBSET Plugin,
               Done(i, [task[i] EXCEPT !.failed = Cardinality(found)], "scanned")
        PROVE  Counts(run, task'[i])
    <3>1. Cardinality(found) \in Nat  BY PluginFinite
    <3> DEFINE n == Cardinality(found)
    <3>2. n \in Nat /\ Done(i, [task[i] EXCEPT !.failed = n], "scanned")  BY <2>3, <3>1
    <3> HIDE DEF n
    <3>3. [task[i] EXCEPT !.failed = n] \in Job  BY <1>1, <3>2 DEF Job
    <3> QED  BY <1>3, <2>1, <3>2, <3>3
  <2>4. \/ Done(i, task[i], "failed")
        \/ \E read \in SUBSET Plugin :
             LET found == {p \in read : host[run.profiles[i].machine][p] = "bare"} IN
             Done(i, [task[i] EXCEPT !.failed = Cardinality(found)], "scanned")
    BY <1>7, Zenon DEF Scan
  <2> QED  BY <2>2, <2>3, <2>4
<1>8. CASE SkipPlugin(i)
  <2> DEFINE u == Next1(task[i])
  <2>1. task'[i] = [u EXCEPT !.skipped = TRUE]  BY <1>2, <1>8 DEF SkipPlugin
  <2>2. u \in Job /\ u.pc = "plugin" /\ u.status = "none"
    BY <1>1, <1>8, NextJob DEF SkipPlugin, HasPlugin, At, Fits
  <2> HIDE DEF u
  <2>3. task'[i].pc = "plugin" /\ task'[i].skipped /\ task'[i].status = "none"
    BY <2>1, <2>2 DEF Job
  <2> QED  BY <2>3 DEF Counts
<1>9. CASE ValidatePlugin(i) \/ WritePlugin(i)
  <2>1. \E t \in {Ok(task[i]), Failed(task[i]), Erred(task[i])} : task' = [task EXCEPT ![i] = t]
    BY <1>9 DEF ValidatePlugin, WritePlugin
  <2>2. task[i].pc \in {"plugin", "write"}  BY <1>9 DEF ValidatePlugin, WritePlugin, HasPlugin, At
  <2> QED  BY <1>4, <2>1, <2>2
<1>10. CASE CapturePlugin(i)
  <2>1. task[i].pc = "plugin"  BY <1>10 DEF CapturePlugin, HasPlugin, At
  <2>2. CASE \E t \in {Ok(task[i]), Erred(task[i])} : task' = [task EXCEPT ![i] = t]
    BY <1>4, <2>1, <2>2
  <2>3. CASE task' = [task EXCEPT ![i].pc = "write"]
    <3>1. task' = [task EXCEPT ![i] = [task[i] EXCEPT !.pc = "write"]]  BY <2>3, Zenon
    <3>2. task'[i] = [task[i] EXCEPT !.pc = "write"]  BY <1>2, <3>1
    <3>3. /\ task'[i].pc = "write" /\ task'[i].at = task[i].at /\ task'[i].ok = task[i].ok
          /\ task'[i].failed = task[i].failed /\ task'[i].erred = task[i].erred
          /\ task'[i].skipped = task[i].skipped /\ task'[i].status = task[i].status
      BY <1>1, <3>2 DEF Job
    <3> QED  BY <1>1, <2>1, <3>3 DEF Counts, Fits
  <2> QED  BY <1>10, <2>2, <2>3, Zenon DEF CapturePlugin
<1>11. CASE PluginsDone(i)
  <2> DEFINE t == task[i]
             status == StatusOf(t)
  <2>1. t.pc = "plugin" /\ t.at \notin DOMAIN run.plugins /\ Done(i, t, status)
    BY <1>11 DEF PluginsDone, At
  <2>2. t.at > 1
    <3>1. run.plugins \in Seq(Plugin) /\ run.plugins # <<>>
      BY <1>1, <1>11 DEF TypeInv, Shape, Tasked, PluginsDone, At, Run
    <3>2. 1 \in DOMAIN run.plugins  BY <3>1
    <3>3. t.at > 0  BY <1>1, <2>1 DEF Fits
    <3> QED  BY <1>1, <2>1, <3>2, <3>3
  <2>3. t.ok + t.failed > 0 \/ t.erred \/ t.skipped  BY <2>1, <2>2 DEF Counts
  <2>4. CASE status = "failed"  BY <1>1, <1>3, <2>1, <2>4
  <2>5. CASE status = "validated" /\ run.verb # "apply"  BY <1>1, <1>3, <2>1, <2>5
  <2>6. CASE status = "applied" /\ t.ok + t.failed > 0
    <3>1. task'[i] = [t EXCEPT !.pc = "done", !.status = "applied"]
      BY <1>2, <2>1, <2>6 DEF Done
    <3>2. task'[i].pc = "done" /\ task'[i].status = "applied"
          /\ task'[i].ok = t.ok /\ task'[i].failed = t.failed
      BY <1>1, <3>1 DEF Job
    <3> QED  BY <2>6, <3>2 DEF Counts
  <2>7. /\ status \in {"failed", "validated", "applied"}
        /\ status = "validated" => run.verb # "apply"
        /\ status = "applied" => t.ok + t.failed > 0
    <3>1. t.ok + t.failed \in Nat  BY <1>1
    <3>2. CASE t.ok + t.failed = 0
      BY <1>1, <2>1, <2>3, <3>2 DEF StatusOf, Fits
    <3>3. CASE t.ok + t.failed > 0
      BY <3>1, <3>3 DEF StatusOf
    <3> QED  BY <3>1, <3>2, <3>3
  <2> QED  BY <2>4, <2>5, <2>6, <2>7
<1>12. CASE Select(i)
  <2>1. run.verb \in {"preview", "rollback"}  BY <1>1, <1>12 DEF Select, At, Fits
  <2>2. CASE \E status \in {"failed", "nothing", "previewed"} : Done(i, task[i], status)
    BY <1>1, <1>3, <2>1, <2>2
  <2> DEFINE points == Selected(run.profiles[i])
  <2>3. CASE task' = [task EXCEPT ![i].pc = "restore", ![i].todo = points]
    <3>1. task' = [task EXCEPT ![i] = [task[i] EXCEPT !.pc = "restore", !.todo = points]]
      BY <2>3, Zenon
    <3> HIDE DEF points
    <3>2. task'[i] = [task[i] EXCEPT !.pc = "restore", !.todo = points]  BY <1>2, <3>1
    <3>3. task'[i].pc = "restore" /\ task'[i].status = task[i].status
      BY <1>1, <3>2 DEF Job
    <3>4. task[i].status = "none"  BY <1>1, <1>12 DEF Select, At, Fits
    <3> QED  BY <3>3, <3>4 DEF Counts
  <2> QED  BY <1>12, <2>2, <2>3, Zenon DEF Select
<1>13. CASE Restore(i)
  <2>1. task[i].pc = "restore" /\ task[i].status = "none"  BY <1>1, <1>13 DEF Restore, At, Fits
  <2>2. PICK point, n : LET rest == [task[i] EXCEPT !.todo = @ \ {point}] IN
           \/ task' = [task EXCEPT ![i] = [rest EXCEPT !.failed = n]]
           \/ task' = [task EXCEPT ![i] = [rest EXCEPT !.ok = n]]
    BY <1>13, Zenon DEF Restore
  <2> DEFINE todo == task[i].todo \ {point}
             rest == [task[i] EXCEPT !.todo = todo]
  <2>3. task'[i] \in {[rest EXCEPT !.failed = n], [rest EXCEPT !.ok = n]}
    BY <1>2, <2>2
  <2> HIDE DEF todo
  <2>4. task'[i].pc = "restore" /\ task'[i].status = "none"
    BY <1>1, <2>1, <2>3 DEF Job
  <2> QED  BY <2>4 DEF Counts
<1>14. CASE RestoresDone(i)
  <2>1. run.verb # "apply"  BY <1>1, <1>14 DEF RestoresDone, At, Fits
  <2> QED  BY <1>1, <1>3, <1>14, <2>1 DEF RestoresDone
<1> QED
  BY <1>5, <1>6, <1>7, <1>8, <1>9, <1>10, <1>11, <1>12, <1>13, <1>14 DEF Task

\* What comes of a run that reports: no host gets less than its due.
LEMMA CodeOf ==
  ASSUME TypeInv, NEW c, c = ExitCode(Assembled)
  PROVE  /\ c \in 0 .. 2
         /\ c < 2 => \A i \in DOMAIN task : task[i].pc = "done" /\ task[i].status # "failed"
         /\ c = 0 => \A i \in DOMAIN task : task[i].failed = 0
<1> DEFINE Due(i) == IF Assembled[i] = "failed" THEN 2 ELSE IF task[i].failed > 0 THEN 1 ELSE 0
           S == {0} \cup {Due(i) : i \in DOMAIN task}
<1>1. S \subseteq 0 .. 2 /\ 0 \in S  OBVIOUS
<1>2. c = Greatest(S)  BY Zenon DEF ExitCode, Assembled
<1>3. \A i \in DOMAIN task : Due(i) \in S  OBVIOUS
<1>4. \A i \in DOMAIN task : task[i].failed \in Nat
  BY JobOf DEF Job
<1> HIDE DEF S
<1>5. \E x \in S : \A y \in S : y <= x
  <2>1. CASE 2 \in S  BY <1>1, <2>1
  <2>2. CASE 2 \notin S /\ 1 \in S  BY <1>1, <2>2
  <2>3. CASE 2 \notin S /\ 1 \notin S  BY <1>1, <2>3
  <2> QED  BY <2>1, <2>2, <2>3
<1>6. c \in S /\ \A y \in S : y <= c  BY <1>2, <1>5 DEF Greatest
<1>7. ASSUME NEW i \in DOMAIN task
      PROVE  /\ c < 2 => task[i].pc = "done" /\ task[i].status # "failed"
             /\ c = 0 => task[i].failed = 0
  <2>1. Due(i) <= c /\ Due(i) \in 0 .. 2 /\ c \in 0 .. 2  BY <1>1, <1>3, <1>6
  <2>2. Assembled[i] = IF task[i].pc = "done" THEN task[i].status ELSE "failed"
    BY DEF Assembled
  <2> QED  BY <1>4, <2>1, <2>2
<1> QED  BY <1>1, <1>6, <1>7

\* The exit code is that of the jobs, and they account for their plugins.
LEMMA CodeInvariant ==
  ASSUME FleetAssumption
  PROVE  Spec => [](TypeInv /\ CodeInv)
<1>1. Init => CodeInv
  <2>1. Init => task = <<>>  BY DEF Init
  <2> QED  BY <2>1 DEF CodeInv, Coded
<1>2. ASSUME TypeInv, CodeInv, Begin PROVE CodeInv'
  <2>1. CASE task' = <<>>  BY <2>1 DEF CodeInv, Coded
  <2>2. ASSUME NEW profiles, task' = [i \in DOMAIN profiles |-> Waiting], run'.open
        PROVE  CodeInv'
    <3>1. \A r : Counts(r, Waiting)  BY DEF Counts, Waiting
    <3>2. \A i \in DOMAIN task' : task'[i] = Waiting  BY <2>2
    <3> QED  BY <2>2, <3>1, <3>2 DEF CodeInv, Coded
  <2>3. task' = <<>> \/ \E profiles : task' = [i \in DOMAIN profiles |-> Waiting]
    BY <1>2, Zenon DEF Begin
  <2>4. task' # <<>> => run'.open
    <3>1. run \in Run  BY <1>2 DEF TypeInv, TypeOK
    <3> QED  BY <1>2, <3>1 DEF Begin, Run
  <2>5. CASE task' # <<>>
    <3>1. PICK profiles : task' = [i \in DOMAIN profiles |-> Waiting]  BY <2>3, <2>5
    <3> QED  BY <2>2, <2>4, <2>5, <3>1
  <2> QED  BY <2>1, <2>5
<1>3. ASSUME TypeInv, CodeInv, Report PROVE CodeInv'
  <2>1. run \in Run /\ ExitCode(Assembled) \in 0 .. 2
    BY <1>3, CodeOf DEF TypeInv, TypeOK
  <2>2. /\ task' = task /\ run'.code = ExitCode(Assembled) /\ run'.verb = run.verb
        /\ \A i \in DOMAIN task : task[i].pc \in {"done", "gone"}
    BY <1>3, <2>1 DEF Report, Run
  <2>3. ExitCode(Assembled)' = ExitCode(Assembled)  BY <2>2 DEF ExitCode, Assembled
  <2>4. Coded'  BY <2>2, <2>3 DEF Coded
  <2>5. \A i \in DOMAIN task : Counts(run', task[i])  BY <1>3, <2>2 DEF CodeInv, Counts
  <2> QED  BY <2>2, <2>4, <2>5 DEF CodeInv
<1>4. ASSUME CodeInv, UNCHANGED <<run, task>> PROVE CodeInv'
  BY <1>4 DEF CodeInv, Coded, ExitCode, Assembled
<1>5. ASSUME TypeInv, CodeInv, NEW i \in DOMAIN task, Task(i) PROVE CodeInv'
  <2>1. /\ run.open /\ run' = run /\ DOMAIN task' = DOMAIN task
        /\ \A j \in DOMAIN task : j # i => task'[j] = task[j]
    BY <1>5, OneJob
  <2>2. Counts(run, task'[i])  BY <1>5, TaskCounts DEF CodeInv
  <2>3. \A j \in DOMAIN task' : Counts(run', task'[j])  BY <1>5, <2>1, <2>2 DEF CodeInv
  <2> QED  BY <2>1, <2>3 DEF CodeInv, Coded
<1>6. TypeInv /\ CodeInv /\ [Next]_vars => CodeInv'
  BY <1>2, <1>3, <1>4, <1>5 DEF Next, Others, vars
<1> QED  BY <1>1, <1>6, TypeInvariant, PTL DEF Spec

\* The exit code of a fleet run covers every host that was selected: below 2
\* each was reached and its task came to its end, at 0 none reported a failure
\* and, of an apply, none was left without a plugin that ran; for any hosts,
\* plugins and requests, whichever sessions fail and whichever tasks panic.
THEOREM ExitCodeCoversEveryHost ==
  ASSUME FleetAssumption
  PROVE  Spec => []CodeCoversEveryHost
<1>1. ASSUME TypeInv, CodeInv, Ended(Verb) PROVE CodeCoversEveryHost
  <2>1. /\ run.code = ExitCode(Assembled) /\ DOMAIN run.profiles = DOMAIN task
        /\ \A i \in DOMAIN task : Counts(run, task[i]) /\ task[i] \in Job
    <3>1. run.profiles \in Seq(Profile) /\ task \in Seq(Job)
      BY <1>1 DEF TypeInv, TypeOK, Run
    <3>2. Len(task) = Len(run.profiles)  BY <1>1 DEF Ended, TypeInv, Shape, Tasked
    <3> QED  BY <1>1, <3>1, <3>2 DEF Ended, CodeInv, Coded
  <2>2. ASSUME NEW i \in DOMAIN task, run.code = 0, run.verb = "apply"
        PROVE  task[i].ok > 0
    <3>1. task[i].pc = "done" /\ task[i].status # "failed" /\ task[i].failed = 0
      BY <1>1, <2>1, <2>2, CodeOf
    <3>2. task[i].status = "applied"  BY <2>1, <2>2, <3>1 DEF Counts
    <3>3. task[i].ok \in Nat  BY <2>1 DEF Job
    <3> QED  BY <2>1, <3>1, <3>2, <3>3 DEF Counts
  <2> QED  BY <1>1, <2>1, <2>2, CodeOf DEF CodeCoversEveryHost
<1>2. TypeInv /\ CodeInv => CodeCoversEveryHost
  BY <1>1 DEF CodeCoversEveryHost
<1> QED  BY <1>2, CodeInvariant, PTL

-----------------------------------------------------------------------------
(* The last apply and its undoing.                                          *)

\* The hosts of a run that writes have each a key of their own.
LEMMA KeysApart ==
  ASSUME TypeInv, run.open, Executes(run.verb),
         NEW i \in DOMAIN task, NEW j \in DOMAIN task, i # j
  PROVE  Key(run.profiles[i]) # Key(run.profiles[j])
<1>1. task \in Seq(Job) /\ run.profiles \in Seq(Profile)
  BY DEF TypeInv, TypeOK, Run
<1>2. Len(task) = Len(run.profiles) /\ ~Colliding(run.profiles)
  BY DEF TypeInv, Shape, Tasked
<1>3. i \in DOMAIN run.profiles /\ j \in DOMAIN run.profiles /\ i \in Nat /\ j \in Nat
  BY <1>1, <1>2
<1>4. i < j \/ j < i  BY <1>3
<1> QED  BY <1>2, <1>3, <1>4 DEF Colliding

\* What was filed stays filed while time passes.
LEMMA FiledStays ==
  ASSUME TypeInv, Filed, db' = db, clock' \in {clock, clock + 1},
         last' = last \/ ~last'.quiet
  PROVE  Filed'
<1>1. CASE ~last'.quiet  BY <1>1 DEF Filed
<1>2. ASSUME last' = last, last.quiet PROVE Filed'
  <2>1. PICK b \in 0 .. Len(db) : FiledFrom(b)  BY <1>2 DEF Filed
  <2>2. db \in Seq(Point) /\ clock \in Nat  BY DEF TypeInv, TypeOK
  <2>3. \A j \in 1 .. b : db[j].stamp \in Nat
    <3>1. \A j \in 1 .. b : db[j] \in Point  BY <2>1, <2>2
    <3> QED  BY <3>1 DEF Point
  <2>4. \A j \in 1 .. b : db[j].stamp < clock'  BY <2>1, <2>2, <2>3 DEF FiledFrom
  <2>5. FiledFrom(b)'  BY <1>2, <2>1, <2>4 DEF FiledFrom, Only
  <2> QED  BY <2>1, <2>5 DEF Filed
<1> QED  BY <1>1, <1>2

\* A step of a job that changes neither a host nor the checkpoints.
LEMMA QuietStep ==
  ASSUME TypeInv, UndoInv, NEW i \in DOMAIN task, Task(i), UNCHANGED <<host, db, last>>,
         run.verb = "apply" /\ Takes(task[i], Key(run.profiles[i]))
           => Takes(task'[i], Key(run.profiles[i])),
         last.quiet /\ run.verb = "rollback" => Restores(task'[i], run.profiles[i])
  PROVE  UndoInv'
<1>1. /\ run.open /\ run' = run /\ clock' = clock /\ DOMAIN task' = DOMAIN task
      /\ \A j \in DOMAIN task : j # i => task'[j] = task[j]
  BY OneJob
<1>2. Filed'  BY <1>1, FiledStays DEF UndoInv
<1>3. Applying'
  <2>1. ASSUME last.quiet, run.verb = "apply", NEW j \in DOMAIN task
        PROVE  Takes(task'[j], Key(run.profiles[j]))
    BY <1>1, <2>1 DEF UndoInv, Applying
  <2> QED  BY <1>1, <2>1 DEF UndoInv, Applying, Takes
<1>4. Undoing'
  <2>1. ASSUME last.quiet, run.verb = "rollback", NEW j \in DOMAIN task
        PROVE  Restores(task'[j], run.profiles[j])
    BY <1>1, <2>1 DEF UndoInv, Undoing
  <2>2. ASSUME NEW t, NEW p, Restores(t, p) PROVE Restores(t, p)'
    BY <1>1, <2>2 DEF Restores, Alone, Only
  <2>3. ASSUME last'.quiet, run'.verb = "rollback", NEW j \in DOMAIN task'
        PROVE  Restores(task[j], run.profiles[j])'
    BY <1>1, <2>1, <2>2, <2>3
  <2> QED  BY <2>3 DEF Undoing
<1> QED  BY <1>2, <1>3, <1>4 DEF UndoInv

\* A checkpoint that an apply files is the first of its plugin under its key,
\* and says what the apply found.
LEMMA CaptureFiles ==
  ASSUME FleetAssumption, TypeInv, UndoInv, last.quiet, run.open, run.verb = "apply",
         NEW p \in Profile, NEW name \in Plugin, <<Key(p), name>> \notin last.taken,
         clock' = clock,
         db' = Append(db, [key |-> Key(p), name |-> name, stamp |-> clock,
                           found |-> host[p.machine][name]]),
         last' = [last EXCEPT !.taken = @ \cup {<<Key(p), name>>}]
  PROVE  Filed'
<1> DEFINE c == [key |-> Key(p), name |-> name, stamp |-> clock,
                 found |-> host[p.machine][name]]
           y == <<Key(p), name>>
<1>1. /\ db \in Seq(Point) /\ clock \in Nat /\ last \in LastApply
      /\ p.machine \in Machine /\ Key(p)[2] = p.machine
  BY KeyType DEF TypeInv, TypeOK, LastApply, Profile
<1>2. last'.taken = last.taken \cup {y} /\ last'.host = last.host /\ last'.quiet
  BY <1>1 DEF LastApply
<1>3. /\ Len(db') = Len(db) + 1 /\ db'[Len(db) + 1] = c
      /\ \A k \in 1 .. Len(db) : db'[k] = db[k]
  BY <1>1
<1>4. c.key = Key(p) /\ c.name = name /\ c.stamp = clock /\ c.found = host[p.machine][name]
  OBVIOUS
<1>5. y[1] = Key(p) /\ y[2] = name  OBVIOUS
<1> HIDE DEF c
<1>6. PICK b \in 0 .. Len(db) : FiledFrom(b)  BY DEF UndoInv, Filed
<1>7. \A m, key : (\A x \in last'.taken : x[1][2] = m => x[1] = key) => Only(m, key)
  BY <1>2 DEF Only
<1>8. (\A x \in last'.taken : x[1][2] = p.machine => x[1] = Key(p)) =>
        c.found = last.host[p.machine][name]
  <2>1. ASSUME Only(p.machine, Key(p)), NEW x \in last.taken
        PROVE  ~(x[1][2] = p.machine /\ x[2] = name)
    <3>1. x \in HostKey \X Plugin  BY <1>1 DEF LastApply
    <3>2. x = <<x[1], x[2]>>  BY <3>1
    <3> QED  BY <2>1, <3>2 DEF Only
  <2> QED  BY <1>1, <1>4, <1>7, <2>1 DEF UndoInv, Applying
<1>9. FiledFrom(b)'
  <2> DEFINE new == Len(db) + 1
  <2>1. b \in Nat /\ new \in Nat /\ b < new /\ b + 1 .. Len(db') = (b + 1 .. Len(db)) \cup {new}
    BY <1>1, <1>3, <1>6
  <2>2. \A j \in 1 .. b : db'[j] = db[j]  BY <1>1, <1>3, <1>6
  <2>3. \A k \in b + 1 .. Len(db) : db'[k] = db[k]  BY <1>1, <1>3, <1>6
  <2>4. \A j \in 1 .. b : db'[j].stamp < clock'  BY <1>6, <2>2 DEF FiledFrom
  <2>5. \A j \in 1 .. b, k \in b + 1 .. Len(db') : db'[j].stamp < db'[k].stamp
    BY <1>3, <1>4, <1>6, <2>1, <2>2, <2>3 DEF FiledFrom
  <2>6. \A k \in b + 1 .. Len(db') : <<db'[k].key, db'[k].name>> \in last'.taken
    BY <1>2, <1>3, <1>4, <1>6, <2>1, <2>3 DEF FiledFrom
  <2>7. \A k \in b + 1 .. Len(db) : ~(db[k].key = Key(p) /\ db[k].name = name)
    BY <1>6 DEF FiledFrom
  <2>8. \A j, k \in b + 1 .. Len(db') :
          db'[j].key = db'[k].key /\ db'[j].name = db'[k].name => j = k
    BY <1>3, <1>4, <1>6, <2>1, <2>3, <2>7 DEF FiledFrom
  <2>9. ASSUME NEW x \in last'.taken
        PROVE  \E k \in b + 1 .. Len(db') :
                 /\ db'[k].key = x[1] /\ db'[k].name = x[2]
                 /\ (\A z \in last'.taken : z[1][2] = x[1][2] => z[1] = x[1])
                      => db'[k].found = last'.host[x[1][2]][x[2]]
    <3>1. CASE x = y
      <4>1. new \in b + 1 .. Len(db')  BY <2>1
      <4> QED  BY <1>1, <1>2, <1>3, <1>4, <1>5, <1>8, <3>1, <4>1
    <3>2. CASE x \in last.taken
      <4>1. PICK k \in b + 1 .. Len(db) :
              /\ db[k].key = x[1] /\ db[k].name = x[2]
              /\ Only(x[1][2], x[1]) => db[k].found = last.host[x[1][2]][x[2]]
        BY <1>6, <3>2 DEF FiledFrom
      <4>2. k \in b + 1 .. Len(db') /\ db'[k] = db[k]  BY <2>1, <2>3, <4>1
      <4>3. (\A z \in last'.taken : z[1][2] = x[1][2] => z[1] = x[1]) => Only(x[1][2], x[1])
        BY <1>2 DEF Only
      <4> QED  BY <1>2, <4>1, <4>2, <4>3
    <3> QED  BY <1>2, <3>1, <3>2
  <2> HIDE DEF new
  <2> QED  BY <2>4, <2>5, <2>6, <2>8, <2>9 DEF FiledFrom, Only
<1> QED  BY <1>3, <1>1, <1>6, <1>9 DEF Filed

\* A plugin that is before a job has not been captured under its key.
LEMMA NotYetTaken ==
  ASSUME NEW t, NEW key, Takes(t, key), t.pc = "plugin", t.at \in DOMAIN run.plugins, t.at \in Nat
  PROVE  <<key, run.plugins[t.at]>> \notin last.taken
BY DEF Takes

\* What a job has captured is no concern of a job with another key.
LEMMA TakesOfOthers ==
  ASSUME NEW t, NEW key, NEW y, Takes(t, key), y[1] # key,
         last'.taken = last.taken \cup {y}, run' = run
  PROVE  Takes(t, key)'
<1>1. \A n : <<key, n>> \in last'.taken => <<key, n>> \in last.taken  OBVIOUS
<1>2. (\A x \in last.taken : x[1] # key) => \A x \in last'.taken : x[1] # key  OBVIOUS
<1>3. last.taken \subseteq last'.taken  OBVIOUS
<1> QED  BY <1>1, <1>2, <1>3 DEF Takes

\* A job that has ended a plugin is before the next.
LEMMA NextPlace ==
  ASSUME NEW t \in Job, NEW u \in {Next1(t), Ok(t), Failed(t), Erred(t)}
  PROVE  u.pc = "plugin" /\ u.at = t.at + 1 /\ u.status = t.status
BY NextJob

\* A plugin that was captured is accounted for: what has not been is as it was.
LEMMA CaptureStep ==
  ASSUME FleetAssumption, TypeInv, UndoInv, NEW i \in DOMAIN task, CapturePlugin(i),
         task' = [task EXCEPT ![i].pc = "write"],
         db' = Append(db, [key |-> Key(run.profiles[i]), name |-> Current(i), stamp |-> clock,
                           found |-> host[run.profiles[i].machine][Current(i)]]),
         last' = [last EXCEPT !.taken = @ \cup {<<Key(run.profiles[i]), Current(i)>>}]
  PROVE  UndoInv'
<1> DEFINE t == task[i]
           p == run.profiles[i]
           y == <<Key(p), Current(i)>>
<1>1. /\ run.open /\ run' = run /\ clock' = clock /\ host' = host /\ run.verb = "apply"
      /\ t.pc = "plugin" /\ t.at \in DOMAIN run.plugins /\ Current(i) = run.plugins[t.at]
  BY DEF CapturePlugin, HasPlugin, At, Current
<1>2. /\ t \in Job /\ p \in Profile /\ Current(i) \in Plugin /\ last \in LastApply
      /\ task \in Seq(Job) /\ run.plugins \in Seq(Plugin)
  BY JobOf DEF CapturePlugin, TypeInv, TypeOK, Run
<1>3. last'.taken = last.taken \cup {y} /\ last'.host = last.host /\ last'.quiet = last.quiet
  BY <1>2 DEF LastApply
<1>4. /\ DOMAIN task' = DOMAIN task /\ \A j \in DOMAIN task : j # i => task'[j] = task[j]
      /\ task'[i].pc = "write" /\ task'[i].at = t.at
  <2>1. task' = [task EXCEPT ![i] = [t EXCEPT !.pc = "write"]]  BY Zenon
  <2>2. task'[i] = [t EXCEPT !.pc = "write"]  BY <1>2, <2>1
  <2> QED  BY <1>2, <2>1, <2>2 DEF Job
<1>5. Undoing'  BY <1>1 DEF Undoing
<1>6. CASE ~last.quiet  BY <1>3, <1>5, <1>6 DEF UndoInv, Filed, Applying
<1>7. CASE last.quiet
  <2>1. \A j \in DOMAIN task : Takes(task[j], Key(run.profiles[j]))
    BY <1>1, <1>7 DEF UndoInv, Applying
  <2>2. y \notin last.taken
    <3>1. Takes(t, Key(p))  BY <2>1
    <3>2. t.at \in Nat  BY <1>2 DEF Job
    <3> HIDE DEF t, p
    <3> QED  BY <1>1, <3>1, <3>2, NotYetTaken
  <2>3. Filed'
    <3>1. last.quiet = TRUE  BY <1>2, <1>7 DEF LastApply
    <3> HIDE DEF p
    <3> QED  BY <1>1, <1>2, <1>7, <2>2, CaptureFiles DEF p
  <2>4. ASSUME NEW m \in Machine, NEW n \in Plugin,
               \A x \in last'.taken : ~(x[1][2] = m /\ x[2] = n)
        PROVE  host'[m][n] = last'.host[m][n]
    BY <1>1, <1>3, <1>7, <2>4 DEF UndoInv, Applying
  <2>5. ASSUME NEW j \in DOMAIN task PROVE Takes(task[j], Key(run.profiles[j]))'
    <3>1. CASE j = i
      <4>1. \A n \in DOMAIN run.plugins :
              <<Key(p), run.plugins[n]>> \in last.taken \cup {y} => n < t.at \/ n = t.at
        <5>1. \A n \in DOMAIN run.plugins : run.plugins[n] = run.plugins[t.at] => n = t.at
          BY <1>1 DEF TypeInv, Shape, Tasked, IsInjective
        <5>2. Takes(t, Key(p))  BY <2>1
        <5> QED  BY <1>1, <5>1, <5>2 DEF Takes
      <4> QED  BY <1>1, <1>3, <1>4, <3>1, <4>1 DEF Takes
    <3>2. CASE j # i
      <4>1. Key(p) # Key(run.profiles[j])  BY <1>1, <3>2, KeysApart DEF Executes
      <4>2. task'[j] = task[j] /\ Takes(task[j], Key(run.profiles[j]))  BY <1>4, <2>1, <3>2
      <4> HIDE DEF p
      <4>3. ASSUME NEW u, NEW key, key # Key(p), Takes(u, key) PROVE Takes(u, key)'
        <5>1. y[1] = Key(p)  OBVIOUS
        <5> HIDE DEF y
        <5> QED  BY <1>1, <1>3, <4>3, <5>1, TakesOfOthers
      <4> QED  BY <1>1, <4>1, <4>2, <4>3
    <3> QED  BY <3>1, <3>2
  <2>6. Applying'  BY <1>4, <2>4, <2>5 DEF Applying
  <2> QED  BY <1>5, <2>3, <2>6 DEF UndoInv
<1> QED  BY <1>6, <1>7

\* What an apply writes is what it has captured.
LEMMA WriteStep ==
  ASSUME FleetAssumption, TypeInv, UndoInv, NEW i \in DOMAIN task, WritePlugin(i)
  PROVE  UndoInv'
<1> DEFINE t == task[i]
           m == run.profiles[i].machine
           n == Current(i)
<1>1. /\ run.open /\ t.pc = "write" /\ UNCHANGED <<db, clock, run, last>>
      /\ host' = host \/ host' = [host EXCEPT ![m][n] = "hard"]
      /\ \E u \in {Ok(t), Failed(t), Erred(t)} : task' = [task EXCEPT ![i] = u]
  BY DEF WritePlugin, At
<1>2. /\ t \in Job /\ run.verb = "apply" /\ n \in Plugin /\ n = run.plugins[t.at]
      /\ task \in Seq(Job) /\ m \in Machine /\ Key(run.profiles[i])[2] = m /\ host \in Hosts
      /\ t.at \in DOMAIN run.plugins
  BY <1>1, JobOf, KeyType DEF At, Fits, TypeInv, TypeOK, Current
<1>3. PICK u \in {Ok(t), Failed(t), Erred(t)} : task' = [task EXCEPT ![i] = u]  BY <1>1
<1>4. u.pc = "plugin" /\ u.at = t.at + 1  BY <1>2, NextPlace
<1>5. /\ task'[i] = u /\ DOMAIN task' = DOMAIN task
      /\ \A j \in DOMAIN task : j # i => task'[j] = task[j]
  BY <1>2, <1>3
<1>6. Filed'  BY <1>1, FiledStays DEF UndoInv
<1>7. Undoing'  BY <1>1, <1>2 DEF Undoing
<1>8. ASSUME last.quiet PROVE Applying'
  <2>1. \A j \in DOMAIN task : Takes(task[j], Key(run.profiles[j]))
    BY <1>1, <1>2, <1>8 DEF UndoInv, Applying
  <2>2. <<Key(run.profiles[i]), n>> \in last.taken
    <3>1. Takes(t, Key(run.profiles[i]))  BY <2>1
    <3> QED  BY <1>1, <1>2, <3>1 DEF Takes
  <2>3. ASSUME NEW w \in Machine, NEW o \in Plugin,
               \A x \in last.taken : ~(x[1][2] = w /\ x[2] = o)
        PROVE  host'[w][o] = last.host[w][o]
    <3>1. ~(m = w /\ n = o)  BY <1>2, <2>2, <2>3
    <3>2. host'[w][o] = host[w][o]
      <4> HIDE DEF m, n
      <4> QED  BY <1>1, <1>2, <3>1 DEF Hosts
    <3> QED  BY <1>1, <1>2, <1>8, <2>3, <3>2 DEF UndoInv, Applying
  <2>4. Takes(u, Key(run.profiles[i]))
    <3>1. Takes(t, Key(run.profiles[i])) /\ t.at \in Nat  BY <1>2, <2>1 DEF Job
    <3>2. \A k \in DOMAIN run.plugins : k < t.at \/ k = t.at => k < t.at + 1
      <4>1. run.plugins \in Seq(Plugin)  BY JobOf DEF Run
      <4> QED  BY <3>1, <4>1
    <3> QED  BY <1>1, <1>4, <3>1, <3>2 DEF Takes
  <2>5. ASSUME NEW j \in DOMAIN task PROVE Takes(task'[j], Key(run.profiles[j]))
    BY <1>5, <2>1, <2>4
  <2> QED  BY <1>1, <1>5, <2>3, <2>5 DEF Applying, Takes
<1>9. Applying'  BY <1>1, <1>8 DEF Applying
<1> QED  BY <1>6, <1>7, <1>9 DEF UndoInv

\* What a rollback selects of a machine is, of each plugin the apply captured,
\* what the apply found; whatever there is from before.
LEMMA SelectsTheFiled ==
  ASSUME FleetAssumption, TypeInv, Filed, last.quiet,
         NEW p \in Profile, Only(p.machine, Key(p)),
         NEW x \in Selected(p), <<Key(p), run.plugins[x[1]]>> \in last.taken
  PROVE  db[x[2]].found = last.host[p.machine][run.plugins[x[1]]]
<1> DEFINE name == run.plugins[x[1]]
           j == x[2]
<1>1. j \in DOMAIN db /\ j \in Named(Keys(p), name) /\ j = Latest(Keys(p), name)
  BY SelectedPoints DEF TypeInv
<1>2. \A k \in Named(Keys(p), name) : Later(j, k)
  BY <1>1, LatestIsThere DEF TypeInv
<1>3. PICK b \in 0 .. Len(db) : FiledFrom(b)  BY DEF Filed
<1>4. db \in Seq(Point) /\ DOMAIN db = 1 .. Len(db) /\ Len(db) \in Nat
  BY DEF TypeInv, TypeOK
<1>5. Key(p) \in Keys(p) /\ Key(p)[2] = p.machine /\ \A k \in Keys(p) : k[2] = p.machine
  BY KeyType
<1> DEFINE y == <<Key(p), name>>
<1>6. y \in last.taken /\ y[1] = Key(p) /\ y[2] = name  OBVIOUS
<1> HIDE DEF y, name, j
<1>7. PICK k \in b + 1 .. Len(db) :
        /\ db[k].key = Key(p) /\ db[k].name = name
        /\ Only(p.machine, Key(p)) => db[k].found = last.host[p.machine][name]
  BY <1>3, <1>5, <1>6 DEF FiledFrom
<1>8. k \in Named(Keys(p), name)  BY <1>3, <1>4, <1>5, <1>7 DEF Named
<1>9. j \in b + 1 .. Len(db)
  <2>1. ASSUME j \in 1 .. b PROVE FALSE
    <3>1. db[j].stamp < db[k].stamp  BY <1>3, <1>7, <2>1 DEF FiledFrom
    <3>2. db[k].stamp <= db[j].stamp
      <4>1. db[k] \in Point /\ db[j] \in Point  BY <1>1, <1>3, <1>4, <1>7
      <4>2. db[k].stamp \in Nat /\ db[j].stamp \in Nat  BY <4>1 DEF Point
      <4> QED  BY <1>2, <1>8, <4>2 DEF Later
    <3>3. db[k].stamp \in Nat /\ db[j].stamp \in Nat
      <4>1. db[k] \in Point /\ db[j] \in Point  BY <1>1, <1>3, <1>4, <1>7
      <4> QED  BY <4>1 DEF Point
    <3> QED  BY <3>1, <3>2, <3>3
  <2> QED  BY <1>1, <1>3, <1>4, <2>1
<1>10. db[j].key = Key(p) /\ db[j].name = name
  <2>1. db[j].key \in Keys(p) /\ db[j].name = name  BY <1>1 DEF Named
  <2> DEFINE z == <<db[j].key, db[j].name>>
  <2>2. z \in last.taken /\ z[1] = db[j].key  BY <1>3, <1>9 DEF FiledFrom
  <2> HIDE DEF z
  <2> QED  BY <1>5, <2>1, <2>2 DEF Only
<1>11. j = k  BY <1>3, <1>7, <1>9, <1>10 DEF FiledFrom
<1> QED  BY <1>7, <1>11 DEF name, j

\* A job that neither restores nor has restored.
LEMMA RestoresNothing ==
  ASSUME NEW t, NEW p, t.pc # "restore", t.status # "rolled_back"
  PROVE  Restores(t, p)
BY DEF Restores

\* A rollback begins to restore what it selected.
LEMMA SelectStep ==
  ASSUME FleetAssumption, TypeInv, UndoInv, last.quiet, NEW i \in DOMAIN task, NEW t \in Job,
         t.todo = Selected(run.profiles[i]), t.status # "rolled_back"
  PROVE  Restores(t, run.profiles[i])
<1> DEFINE p == run.profiles[i]
<1>1. p \in Profile  BY JobOf
<1>2. run.plugins \in Seq(Plugin)
  BY DEF TypeInv, TypeOK, Run
<1>3. TypeOK /\ Filed  BY DEF TypeInv, UndoInv
<1> HIDE DEF p
<1>4. ASSUME NEW x \in Selected(p) PROVE db[x[2]].name = run.plugins[x[1]]
  <2>1. x[2] \in Named(Keys(p), run.plugins[x[1]])  BY <1>1, <1>3, SelectedPoints
  <2> QED  BY <2>1 DEF Named
<1>5. ASSUME Only(p.machine, Key(p)), NEW n \in DOMAIN run.plugins,
             <<Key(p), run.plugins[n]>> \in last.taken
      PROVE  /\ \A x \in Selected(p) : x[1] = n =>
                  db[x[2]].found = last.host[p.machine][run.plugins[n]]
             /\ \E x \in Selected(p) : x[1] = n
  <2>1. ASSUME NEW x \in Selected(p), x[1] = n
        PROVE  db[x[2]].found = last.host[p.machine][run.plugins[n]]
    BY <1>1, <1>3, <1>5, <2>1, SelectsTheFiled
  <2>2. Named(Keys(p), run.plugins[n]) # {}
    <3> DEFINE y == <<Key(p), run.plugins[n]>>
    <3>1. y \in last.taken /\ y[1] = Key(p) /\ y[2] = run.plugins[n]  BY <1>5
    <3> HIDE DEF y
    <3>2. PICK b \in 0 .. Len(db) : FiledFrom(b)  BY <1>3 DEF Filed
    <3>3. PICK k \in b + 1 .. Len(db) : db[k].key = Key(p) /\ db[k].name = run.plugins[n]
      BY <3>1, <3>2 DEF FiledFrom
    <3>4. DOMAIN db = 1 .. Len(db) /\ Len(db) \in Nat  BY <1>3 DEF TypeOK
    <3>5. k \in DOMAIN db  BY <3>2, <3>3, <3>4
    <3> QED  BY <1>1, <3>3, <3>5, KeyType DEF Named
  <2>3. <<n, Latest(Keys(p), run.plugins[n])>> \in Selected(p)
    BY <1>5, <2>2 DEF Selected
  <2> QED  BY <2>1, <2>3
<1> QED  BY <1>4, <1>5 DEF Restores, p

\* A job that restores a checkpoint changes its own machine only, and there the
\* plugin of the checkpoint.
LEMMA RestoreStep ==
  ASSUME FleetAssumption, TypeInv, UndoInv, NEW i \in DOMAIN task, Restore(i)
  PROVE  UndoInv'
<1> DEFINE t == task[i]
           p == run.profiles[i]
           m == p.machine
<1>1. /\ run.open /\ t.pc = "restore" /\ UNCHANGED <<db, clock, run, last>>
  BY DEF Restore, At
<1>2. /\ t \in Job /\ run.verb = "rollback" /\ p \in Profile /\ m \in Machine
      /\ task \in Seq(Job) /\ host \in Hosts /\ t.status = "none" /\ t.failed \in Nat
      /\ t.todo \subseteq (DOMAIN run.plugins) \X (DOMAIN db)
  BY <1>1, JobOf DEF Fits, TypeInv, TypeOK, Job
<1>3. PICK point \in t.todo :
        LET c == db[point[2]]
            restored == [host EXCEPT ![m][c.name] = c.found]
            rest == [task[i] EXCEPT !.todo = @ \ {point}]
            failing == [task EXCEPT ![i] = [rest EXCEPT !.failed = @ + 1]]
        IN  \/ c.key # Key(p) /\ task' = failing /\ UNCHANGED host
            \/ c.key = Key(p) /\ task' = failing /\ host' \in {host, restored}
            \/ /\ c.key = Key(p)
               /\ task' = [task EXCEPT ![i] = [rest EXCEPT !.ok = @ + 1]]
               /\ host' = restored
  BY Zenon DEF Restore
<1> DEFINE name == db[point[2]].name
           found == db[point[2]].found
           todo == t.todo \ {point}
           rest == [t EXCEPT !.todo = todo]
           failed == t.failed + 1
           ok == rest.ok + 1
<1>4. /\ host' = host \/ host' = [host EXCEPT ![m][name] = found]
      /\ \/ task' = [task EXCEPT ![i] = [rest EXCEPT !.failed = rest.failed + 1]]
         \/ /\ task' = [task EXCEPT ![i] = [rest EXCEPT !.ok = ok]]
            /\ host' = [host EXCEPT ![m][name] = found]
  BY <1>3
<1> HIDE DEF todo, ok
<1>5. /\ rest \in Job /\ rest.failed = t.failed /\ rest.todo = todo
      /\ rest.pc = "restore" /\ rest.status = "none"
  <2>1. todo \in SUBSET (Nat \X Nat)
    <3>1. run.plugins \in Seq(Plugin) /\ db \in Seq(Point)
      BY DEF TypeInv, TypeOK, Run
    <3> QED  BY <1>2, <3>1 DEF todo
  <2> QED  BY <1>1, <1>2, <2>1 DEF Job, Choice
<1> HIDE DEF rest
<1>6. /\ task'[i].pc = "restore" /\ task'[i].status = "none" /\ task'[i].todo = todo
      /\ \/ task'[i].failed = failed
         \/ task'[i].failed = t.failed /\ host' = [host EXCEPT ![m][name] = found]
  <2>1. CASE task' = [task EXCEPT ![i] = [rest EXCEPT !.failed = rest.failed + 1]]
    <3>1. task'[i] = [rest EXCEPT !.failed = failed]  BY <1>2, <1>5, <2>1
    <3> HIDE DEF failed, name, found
    <3> QED  BY <1>5, <3>1 DEF Job
  <2>2. CASE task' = [task EXCEPT ![i] = [rest EXCEPT !.ok = ok]]
             /\ host' = [host EXCEPT ![m][name] = found]
    <3>1. task'[i] = [rest EXCEPT !.ok = ok]  BY <1>2, <2>2
    <3> HIDE DEF failed, name, found
    <3> QED  BY <1>5, <2>2, <3>1 DEF Job
  <2> QED  BY <1>4, <2>1, <2>2
<1>7. DOMAIN task' = DOMAIN task /\ \A j \in DOMAIN task : j # i => task'[j] = task[j]
  <2> HIDE DEF failed, name, found
  <2> QED  BY <1>2, <1>4
<1>8. \A w \in Machine : w # m => host'[w] = host[w]
  <2> HIDE DEF name, found, m
  <2> QED  BY <1>2, <1>4 DEF Hosts
<1>9. \A o \in Plugin : o # name => host'[m][o] = host[m][o]
  <2> HIDE DEF name, found, m
  <2> QED  BY <1>2, <1>4 DEF Hosts
<1>10. name \in Plugin /\ (host' = [host EXCEPT ![m][name] = found] => host'[m][name] = found)
  <2>1. db \in Seq(Point) /\ point[2] \in DOMAIN db  BY <1>2 DEF TypeInv, TypeOK
  <2>2. name \in Plugin
    <3>1. db[point[2]] \in Point  BY <2>1
    <3> QED  BY <3>1 DEF Point
  <2> HIDE DEF name, found, m
  <2> QED  BY <1>2, <2>2 DEF Hosts
<1> HIDE DEF name, found, failed
<1>11. Filed' /\ Applying'  BY <1>1, <1>2, FiledStays DEF UndoInv, Applying
<1>12. ASSUME last.quiet PROVE Undoing'
  <2>1. \A j \in DOMAIN task : Restores(task[j], run.profiles[j])
    BY <1>2, <1>12 DEF UndoInv, Undoing
  <2>2. ASSUME NEW j \in DOMAIN task, j = i PROVE Restores(task[j], run.profiles[j])'
    <3>1. Restores(t, p)  BY <2>1
    <3>2. \A x \in todo : x \in t.todo /\ x # point  BY DEF todo
    <3>3. name = run.plugins[point[1]]  BY <1>1, <3>1 DEF Restores, name
    <3>4. ASSUME Alone(m), Only(m, Key(p)), NEW n \in DOMAIN run.plugins,
                 <<Key(p), run.plugins[n]>> \in last.taken
          PROVE  /\ \A x \in todo : x[1] = n => db[x[2]].found = last.host[m][run.plugins[n]]
                 /\ task'[i].failed = 0 /\ (\A x \in todo : x[1] # n) =>
                      host'[m][run.plugins[n]] = last.host[m][run.plugins[n]]
      <4>1. /\ \A x \in t.todo : x[1] = n => db[x[2]].found = last.host[m][run.plugins[n]]
            /\ t.failed = 0 /\ (\A x \in t.todo : x[1] # n) =>
                 host[m][run.plugins[n]] = last.host[m][run.plugins[n]]
        BY <1>1, <3>1, <3>4 DEF Restores
      <4>2. ASSUME task'[i].failed = 0, \A x \in todo : x[1] # n
            PROVE  host'[m][run.plugins[n]] = last.host[m][run.plugins[n]]
        <5>1. t.failed = 0 /\ host' = [host EXCEPT ![m][name] = found]
          BY <1>2, <1>6, <4>2 DEF failed
        <5>2. CASE point[1] = n  BY <1>10, <3>3, <4>1, <5>1, <5>2 DEF found
        <5>3. CASE point[1] # n
          <6>1. \A x \in t.todo : x[1] # n  BY <4>2, <5>3 DEF todo
          <6>2. run.plugins[n] # name /\ run.plugins[n] \in Plugin
            <7>1. IsInjective(run.plugins) /\ run.plugins \in Seq(Plugin)
              BY <1>1, <1>2 DEF TypeInv, TypeOK, Run, Shape, Tasked
            <7>2. point[1] \in DOMAIN run.plugins  BY <1>2
            <7> QED  BY <3>3, <3>4, <5>3, <7>1, <7>2 DEF IsInjective
          <6> QED  BY <1>9, <4>1, <5>1, <6>1, <6>2
        <5> QED  BY <5>2, <5>3
      <4> QED  BY <3>2, <4>1, <4>2
    <3>5. \A x \in todo : db[x[2]].name = run.plugins[x[1]]  BY <1>1, <3>1, <3>2 DEF Restores
    <3> HIDE DEF t
    <3> QED  BY <1>1, <1>6, <2>2, <3>4, <3>5 DEF Restores, Alone, Only
  <2>3. ASSUME NEW j \in DOMAIN task, j # i PROVE Restores(task[j], run.profiles[j])'
    <3> DEFINE q == run.profiles[j]
    <3>1. Restores(task[j], q) /\ task'[j] = task[j]  BY <1>7, <2>1, <2>3
    <3>2. Alone(q.machine) => host'[q.machine] = host[q.machine]
      <4>1. Key(q) # Key(p)  BY <1>1, <1>2, <2>3, KeysApart DEF Executes
      <4>2. i \in DOMAIN run.profiles /\ j \in DOMAIN run.profiles
        <5>1. run.profiles \in Seq(Profile) /\ Len(task) = Len(run.profiles)
          BY <1>1 DEF TypeInv, TypeOK, Run, Shape, Tasked
        <5> QED  BY <1>2, <5>1
      <4>3. q.machine \in Machine  BY JobOf
      <4> QED  BY <1>8, <4>1, <4>2, <4>3 DEF Alone
    <3>3. ASSUME NEW u, NEW r, Restores(u, r), Alone(r.machine) => host'[r.machine] = host[r.machine]
          PROVE  Restores(u, r)'
      BY <1>1, <3>3 DEF Restores, Alone, Only
    <3> QED  BY <1>1, <3>1, <3>2, <3>3
  <2> QED  BY <1>7, <2>2, <2>3 DEF Undoing
<1>13. Undoing'  BY <1>1, <1>12 DEF Undoing
<1> QED  BY <1>11, <1>13 DEF UndoInv

\* What a job does short of capturing, writing and restoring.
LEMMA OtherSteps ==
  ASSUME FleetAssumption, TypeInv, UndoInv, NEW i \in DOMAIN task, Task(i),
         UNCHANGED <<host, db, last>>, ~WritePlugin(i), ~Restore(i)
  PROVE  UndoInv'
<1> DEFINE t == task[i]
           key == Key(run.profiles[i])
           p == run.profiles[i]
           Goal == /\ run.verb = "apply" /\ Takes(t, key) => Takes(task'[i], key)
                   /\ last.quiet /\ run.verb = "rollback" => Restores(task'[i], p)
<1>1. t \in Job /\ Fits(run, t) /\ task \in Seq(Job) /\ t.at \in Nat /\ run.plugins \in Seq(Plugin)
  <2>1. t \in Job /\ Fits(run, t)  BY JobOf
  <2> QED  BY <2>1 DEF TypeInv, TypeOK, Run, Job
<1>2. \A u : task' = [task EXCEPT ![i] = u] => task'[i] = u  BY <1>1
<1>3. ASSUME task'[i].pc \in {"done", "gone", "scan", "select"}, task'[i].status # "rolled_back"
      PROVE  Goal
  <2>1. Takes(task'[i], key)  BY <1>3 DEF Takes
  <2> HIDE DEF key
  <2> QED  BY <1>3, <2>1, RestoresNothing
<1>4. ASSUME NEW status \in {"failed", "scanned", "applied", "validated", "nothing", "previewed"},
             NEW n \in Nat, Done(i, [t EXCEPT !.failed = n], status)
      PROVE  Goal
  <2> DEFINE v == [t EXCEPT !.failed = n]
  <2>1. v \in Job  BY <1>1, <1>4 DEF Job
  <2>2. task'[i] = [v EXCEPT !.pc = "done", !.status = status]
    BY <1>2, <1>4 DEF Done
  <2> HIDE DEF v
  <2>3. task'[i].pc = "done" /\ task'[i].status = status  BY <2>1, <2>2 DEF Job
  <2> HIDE DEF Goal
  <2> QED  BY <1>3, <2>3
<1>5. ASSUME NEW status \in {"failed", "scanned", "applied", "validated", "nothing", "previewed"},
             Done(i, t, status)
      PROVE  Goal
  <2>1. task'[i] = [t EXCEPT !.pc = "done", !.status = status]  BY <1>2, <1>5 DEF Done
  <2>2. task'[i].pc = "done" /\ task'[i].status = status  BY <1>1, <2>1 DEF Job
  <2> HIDE DEF Goal
  <2> QED  BY <1>3, <2>2
<1>6. ASSUME task'[i].pc = "plugin", task'[i].at = t.at + 1 \/ t.pc = "waiting",
             t.pc \in {"plugin", "waiting"},
             task'[i].status = "none", run.verb # "rollback"
      PROVE  Goal
  <2>1. Takes(t, key) => Takes(task'[i], key)
    <3>1. ASSUME Takes(t, key), NEW n \in DOMAIN run.plugins,
                 <<key, run.plugins[n]>> \in last.taken
          PROVE  n < task'[i].at
      <4> DEFINE y == <<key, run.plugins[n]>>
      <4>1. y[1] = key /\ y \in last.taken  BY <3>1
      <4> HIDE DEF y
      <4>2. t.pc # "waiting"  BY <3>1, <4>1 DEF Takes
      <4>3. n < t.at  BY <1>6, <3>1, <4>2 DEF Takes
      <4>4. n \in Nat  BY <1>1
      <4> HIDE DEF t
      <4> QED  BY <1>1, <1>6, <4>2, <4>3, <4>4
    <3> QED  BY <1>6, <3>1 DEF Takes
  <2> QED  BY <1>6, <2>1
<1> SUFFICES Goal  BY QuietStep
<1> HIDE DEF Goal
<1>7. CASE Connect(i)
  <2> DEFINE pc == CASE run.verb = "scan" -> "scan"
                     [] run.verb \in {"validate", "apply"} -> "plugin"
                     [] OTHER -> "select"
  <2>1. CASE Done(i, t, "failed")  BY <1>5, <2>1
  <2>2. CASE task' = [task EXCEPT ![i].pc = pc]
    <3>1. task' = [task EXCEPT ![i] = [t EXCEPT !.pc = pc]]  BY <2>2, Zenon
    <3>2. pc \in {"scan", "select"} \/ (pc = "plugin" /\ run.verb # "rollback")  OBVIOUS
    <3> HIDE DEF pc
    <3>3. task'[i] = [t EXCEPT !.pc = pc]  BY <1>2, <3>1
    <3>4. t.pc = "waiting" /\ t.status = "none"  BY <1>1, <1>7 DEF Connect, At, Fits
    <3>5. task'[i].pc = pc /\ task'[i].status = "none"  BY <1>1, <3>3, <3>4 DEF Job
    <3> QED  BY <1>3, <1>6, <3>2, <3>4, <3>5
  <2> QED  BY <1>7, <2>1, <2>2 DEF Connect
<1>8. CASE Panic(i)
  <2>1. task'[i] = [Waiting EXCEPT !.pc = "gone"]  BY <1>2, <1>8 DEF Panic
  <2>2. task'[i].pc = "gone" /\ task'[i].status = "none"  BY <2>1 DEF Waiting
  <2> QED  BY <1>3, <2>2
<1>9. CASE Scan(i)
  <2>1. \/ Done(i, t, "failed")
        \/ \E read \in SUBSET Plugin :
             LET found == {o \in read : host[run.profiles[i].machine][o] = "bare"} IN
             Done(i, [t EXCEPT !.failed = Cardinality(found)], "scanned")
    BY <1>9, Zenon DEF Scan
  <2>2. ASSUME NEW found \in SUBSET Plugin,
               Done(i, [t EXCEPT !.failed = Cardinality(found)], "scanned")
        PROVE  Goal
    <3>1. Cardinality(found) \in Nat  BY PluginFinite
    <3> QED  BY <1>4, <2>2, <3>1
  <2> HIDE DEF t
  <2> QED  BY <1>5, <2>1, <2>2
<1>10. ASSUME NEW u, task' = [task EXCEPT ![i] = u], t.pc = "plugin",
              u \in {Ok(t), Failed(t), Erred(t)} \/ u = [Next1(t) EXCEPT !.skipped = TRUE]
       PROVE  Goal
  <2>1. t.status = "none" /\ run.verb # "rollback"  BY <1>1, <1>10 DEF Fits
  <2>2. task'[i] = u  BY <1>2, <1>10
  <2>3. CASE u \in {Ok(t), Failed(t), Erred(t)}
    <3>1. u.pc = "plugin" /\ u.at = t.at + 1 /\ u.status = t.status  BY <1>1, <2>3, NextPlace
    <3> QED  BY <1>6, <1>10, <2>1, <2>2, <3>1
  <2>4. CASE u = [Next1(t) EXCEPT !.skipped = TRUE]
    <3> DEFINE v == Next1(t)
    <3>1. v \in Job /\ v.pc = "plugin" /\ v.at = t.at + 1 /\ v.status = t.status  BY <1>1, NextJob
    <3>2. u = [v EXCEPT !.skipped = TRUE]  BY <2>4
    <3> HIDE DEF v
    <3>3. u.pc = "plugin" /\ u.at = t.at + 1 /\ u.status = t.status  BY <3>1, <3>2 DEF Job
    <3> QED  BY <1>6, <1>10, <2>1, <2>2, <3>3
  <2> QED  BY <1>10, <2>3, <2>4
<1>11. CASE SkipPlugin(i) \/ ValidatePlugin(i)
  BY <1>10, <1>11 DEF SkipPlugin, ValidatePlugin, HasPlugin, At
<1>12. CASE CapturePlugin(i)
  <2>1. db' # Append(db, [key |-> key, name |-> Current(i), stamp |-> clock,
                          found |-> host[p.machine][Current(i)]])
    BY DEF TypeInv, TypeOK
  <2>2. \E u \in {Ok(t), Erred(t)} : task' = [task EXCEPT ![i] = u]
    BY <1>12, <2>1 DEF CapturePlugin
  <2>3. t.pc = "plugin"  BY <1>12 DEF CapturePlugin, HasPlugin, At
  <2> QED  BY <1>10, <2>2, <2>3
<1>13. CASE PluginsDone(i)
  <2>1. Done(i, t, StatusOf(t))  BY <1>13 DEF PluginsDone
  <2>2. StatusOf(t) \in {"failed", "applied", "validated"}  BY DEF StatusOf
  <2> QED  BY <1>5, <2>1, <2>2
<1>14. CASE Select(i)
  <2> DEFINE points == Selected(p)
  <2>1. \/ \E status \in {"failed", "nothing", "previewed"} : Done(i, t, status)
        \/ task' = [task EXCEPT ![i].pc = "restore", ![i].todo = points]
    BY <1>14, Zenon DEF Select
  <2>2. CASE task' = [task EXCEPT ![i].pc = "restore", ![i].todo = points]
    <3>1. task' = [task EXCEPT ![i] = [t EXCEPT !.pc = "restore", !.todo = points]]
      BY <2>2, Zenon
    <3>2. points \in SUBSET Choice
      <4>1. run.profiles[i] \in Profile  BY JobOf
      <4>2. \A x \in points : x \in (DOMAIN run.plugins) \X (DOMAIN db)
        BY <4>1, SelectedPoints DEF TypeInv
      <4>3. db \in Seq(Point)  BY DEF TypeInv, TypeOK
      <4> HIDE DEF points
      <4> QED  BY <1>1, <4>2, <4>3 DEF Choice
    <3> HIDE DEF points
    <3>3. task'[i] = [t EXCEPT !.pc = "restore", !.todo = points]  BY <1>2, <3>1
    <3>4. t.status = "none" /\ t.pc = "select" /\ run.verb # "apply"
      BY <1>1, <1>14 DEF Select, At, Fits
    <3>5. task'[i] \in Job /\ task'[i].todo = points /\ task'[i].status = "none"
      BY <1>1, <3>2, <3>3, <3>4 DEF Job
    <3>6. last.quiet => Restores(task'[i], p)
      BY <3>5, SelectStep DEF points
    <3> QED  BY <3>4, <3>6 DEF Goal
  <2> QED  BY <1>5, <2>1, <2>2
<1>15. CASE RestoresDone(i)
  <2>1. t.pc = "restore" /\ t.todo = {} /\ run.verb = "rollback"
    BY <1>1, <1>15 DEF RestoresDone, At, Fits
  <2>2. task'[i] = [t EXCEPT !.pc = "done", !.status = "rolled_back"]
    BY <1>2, <1>15 DEF RestoresDone, Done
  <2>3. task'[i].todo = {} /\ task'[i].failed = t.failed  BY <1>1, <2>1, <2>2 DEF Job
  <2>4. last.quiet => Restores(t, p)  BY <2>1 DEF UndoInv, Undoing
  <2>5. last.quiet => Restores(task'[i], p)  BY <2>1, <2>3, <2>4 DEF Restores
  <2> QED  BY <2>1, <2>5 DEF Goal
<1> QED
  BY <1>7, <1>8, <1>9, <1>11, <1>12, <1>13, <1>14, <1>15 DEF Task

\* What the last apply filed is there to be restored, and what a rollback has
\* restored is as it was.
LEMMA UndoInvariant ==
  ASSUME FleetAssumption
  PROVE  Spec => [](TypeInv /\ UndoInv)
<1>1. Init => UndoInv
  <2>1. Init => ~last.quiet  BY DEF Init
  <2> QED  BY <2>1 DEF UndoInv, Filed, Applying, Undoing
<1>2. ASSUME TypeInv, UndoInv, Begin PROVE UndoInv'
  <2>1. PICK verb \in Verb, request \in Requests :
          LET profiles == Resolved(request.names, request.inline)
              asked == [run EXCEPT !.verb = verb, !.profiles = profiles,
                          !.plugins = Filtered(request.plugins),
                          !.left = IF Executes(verb) THEN @ - 1 ELSE 0]
          IN  IF Executes(verb) /\ Colliding(profiles)
              THEN /\ run' = [asked EXCEPT !.code = 2]
                   /\ task' = <<>>
                   /\ UNCHANGED last
              ELSE /\ run' = [asked EXCEPT !.open = TRUE, !.code = 0]
                   /\ task' = [i \in DOMAIN profiles |-> Waiting]
                   /\ last' = IF verb = "apply"
                              THEN [host |-> host, taken |-> {},
                                         quiet |-> \A k \in DOMAIN db : db[k].stamp # clock]
                              ELSE last
    BY <1>2, Zenon DEF Begin
  <2>2. ~run.open /\ host' = host /\ db' = db /\ clock' = clock /\ run \in Run
    BY <1>2 DEF Begin, TypeInv, TypeOK
  <2>3. run'.verb = verb
    BY <2>1, <2>2 DEF Run
  <2>4. \/ task' = <<>> /\ last' = last /\ ~run'.open
        \/ \E profiles : /\ task' = [i \in DOMAIN profiles |-> Waiting]
                         /\ last' = IF verb = "apply"
                                    THEN [host |-> host, taken |-> {},
                                          quiet |-> \A k \in DOMAIN db : db[k].stamp # clock]
                                    ELSE last
    BY <2>1, <2>2 DEF Run
  <2>5. CASE task' = <<>> /\ last' = last /\ ~run'.open
    <3>1. Filed'  BY <1>2, <2>2, <2>5, FiledStays DEF UndoInv
    <3> QED  BY <2>5, <3>1 DEF UndoInv, Applying, Undoing
  <2>6. ASSUME NEW profiles, task' = [i \in DOMAIN profiles |-> Waiting],
               last' = IF verb = "apply"
                       THEN [host |-> host, taken |-> {},
                             quiet |-> \A k \in DOMAIN db : db[k].stamp # clock]
                       ELSE last
        PROVE  UndoInv'
    <3>1. \A i \in DOMAIN task' : task'[i] = Waiting  BY <2>6
    <3>2. Undoing'
      <4>1. \A t, p : t = Waiting => Restores(t, p)'  BY DEF Restores, Waiting
      <4> QED  BY <3>1, <4>1 DEF Undoing
    <3>3. CASE verb # "apply"
      <4>1. Filed'  BY <1>2, <2>2, <2>6, <3>3, FiledStays DEF UndoInv
      <4> QED  BY <2>3, <3>2, <3>3, <4>1 DEF UndoInv, Applying
    <3>4. CASE verb = "apply"
      <4>1. /\ last'.host = host /\ last'.taken = {}
            /\ last'.quiet => \A k \in DOMAIN db : db[k].stamp # clock
        BY <2>6, <3>4
      <4>2. ASSUME last'.quiet PROVE FiledFrom(Len(db))'
        <5>1. db \in Seq(Point) /\ clock \in Nat /\ \A k \in DOMAIN db : db[k].stamp <= clock
          BY <1>2 DEF TypeInv, TypeOK, Shape
        <5>2. ASSUME NEW k \in 1 .. Len(db) PROVE db[k].stamp < clock
          <6>1. db[k] \in Point /\ k \in DOMAIN db  BY <5>1
          <6>2. db[k].stamp \in Nat  BY <6>1 DEF Point
          <6> QED  BY <4>1, <4>2, <5>1, <6>1, <6>2
        <5>3. Len(db) \in Nat /\ Len(db) + 1 .. Len(db) = {}  BY <5>1
        <5> QED  BY <2>2, <4>1, <5>2, <5>3 DEF FiledFrom
      <4>3. Filed'
        <5>1. Len(db) \in 0 .. Len(db)  BY <1>2 DEF TypeInv, TypeOK
        <5> QED  BY <2>2, <4>2, <5>1 DEF Filed
      <4>4. Applying'
        <5>1. \A t, key : t = Waiting => Takes(t, key)'  BY <4>1 DEF Takes, Waiting
        <5> QED  BY <2>2, <3>1, <4>1, <5>1 DEF Applying
      <4> QED  BY <3>2, <4>3, <4>4 DEF UndoInv
    <3> QED  BY <3>3, <3>4
  <2> QED  BY <2>4, <2>5, <2>6
<1>3. ASSUME TypeInv, UndoInv, Report PROVE UndoInv'
  <2>1. run \in Run /\ UNCHANGED <<host, db, clock, task, last>>
        /\ run' = [run EXCEPT !.open = FALSE, !.code = ExitCode(Assembled)]
    BY <1>3 DEF Report, TypeInv, TypeOK
  <2>2. ~run'.open /\ run'.verb = run.verb /\ run'.profiles = run.profiles /\ run'.plugins = run.plugins
    BY <2>1 DEF Run
  <2>3. Filed' /\ Applying'  BY <1>3, <2>1, <2>2, FiledStays DEF UndoInv, Applying
  <2>4. ASSUME NEW t, NEW p, Restores(t, p) PROVE Restores(t, p)'
    BY <2>1, <2>2, <2>4 DEF Restores, Alone, Only
  <2>5. Undoing'  BY <1>3, <2>1, <2>2, <2>4 DEF UndoInv, Undoing
  <2> QED  BY <2>3, <2>5 DEF UndoInv
<1>4. ASSUME TypeInv, UndoInv, Others PROVE UndoInv'
  <2>1. /\ clock' = clock + 1 /\ UNCHANGED <<db, run, task>>
        /\ UNCHANGED <<host, last>> \/ ~last'.quiet
    <3>1. last \in LastApply  BY <1>4 DEF TypeInv, TypeOK, LastApply
    <3> QED  BY <1>4, <3>1 DEF Others, LastApply
  <2>2. Filed'  BY <1>4, <2>1, FiledStays DEF UndoInv
  <2>3. CASE UNCHANGED <<host, last>>
    <3>1. ASSUME NEW t, NEW key, Takes(t, key) PROVE Takes(t, key)'
      BY <2>1, <2>3, <3>1 DEF Takes
    <3>2. ASSUME NEW t, NEW p, Restores(t, p) PROVE Restores(t, p)'
      BY <2>1, <2>3, <3>2 DEF Restores, Alone, Only
    <3>3. Applying'  BY <1>4, <2>1, <2>3, <3>1 DEF UndoInv, Applying
    <3>4. Undoing'  BY <1>4, <2>1, <2>3, <3>2 DEF UndoInv, Undoing
    <3> QED  BY <2>2, <3>3, <3>4 DEF UndoInv
  <2>4. CASE ~last'.quiet  BY <2>2, <2>4 DEF UndoInv, Applying, Undoing
  <2> QED  BY <2>1, <2>3, <2>4
<1>5. ASSUME UndoInv, UNCHANGED vars PROVE UndoInv'
  BY <1>5 DEF vars, UndoInv, Filed, FiledFrom, Applying, Undoing, Takes, Restores, Alone, Only
<1>6. ASSUME TypeInv, UndoInv, NEW i \in DOMAIN task, Task(i) PROVE UndoInv'
  <2>1. CASE WritePlugin(i)  BY <1>6, <2>1, WriteStep
  <2>2. CASE Restore(i)  BY <1>6, <2>2, RestoreStep
  <2>3. CASE UNCHANGED <<host, db, last>> /\ ~WritePlugin(i) /\ ~Restore(i)
    BY <1>6, <2>3, OtherSteps
  <2>4. CASE CapturePlugin(i)
    <3>1. host' = host  BY <2>4 DEF CapturePlugin
    <3>2. CASE UNCHANGED <<db, last>>
      BY <1>6, <2>1, <2>2, <2>3, <3>1, <3>2
    <3>3. CASE /\ db' = Append(db, [key |-> Key(run.profiles[i]), name |-> Current(i),
                                    stamp |-> clock,
                                    found |-> host[run.profiles[i].machine][Current(i)]])
               /\ task' = [task EXCEPT ![i].pc = "write"]
               /\ last' = [last EXCEPT !.taken = @ \cup {<<Key(run.profiles[i]), Current(i)>>}]
      BY <1>6, <2>4, <3>3, CaptureStep
    <3> QED  BY <2>4, <3>2, <3>3 DEF CapturePlugin
  <2>5. Task(i) => WritePlugin(i) \/ Restore(i) \/ CapturePlugin(i) \/ UNCHANGED <<host, db, last>>
    BY DEF Task, Connect, Panic, Scan, SkipPlugin, ValidatePlugin, PluginsDone, Select, RestoresDone
  <2> QED  BY <1>6, <2>1, <2>2, <2>3, <2>4, <2>5
<1>7. TypeInv /\ UndoInv /\ [Next]_vars => UndoInv'
  BY <1>2, <1>3, <1>4, <1>5, <1>6 DEF Next
<1> QED  BY <1>1, <1>7, TypeInvariant, PTL DEF Spec

\* A fleet rollback that reports a host rolled back has taken the last apply of
\* the fleet back there: every plugin that apply captured under the host's key
\* holds what the apply found; for any hosts, accounts, requests and checkpoints
\* of earlier runs, in whatever order the tasks of either run took their steps.
THEOREM RollbackRestoresTheFleet ==
  ASSUME FleetAssumption
  PROVE  Spec => []UndoRestoresTheFleet
<1>1. ASSUME TypeInv, UndoInv, Ended({"rollback"}), last.quiet, NEW i \in DOMAIN task,
             task[i].status = "rolled_back", task[i].failed = 0, Alone(run.profiles[i].machine),
             {k \in last.taken : k[1][2] = run.profiles[i].machine
                                  /\ k[1] # Key(run.profiles[i])} = {},
             NEW n \in DOMAIN run.plugins,
             <<Key(run.profiles[i]), run.plugins[n]>> \in last.taken
      PROVE  host[run.profiles[i].machine][run.plugins[n]]
               = last.host[run.profiles[i].machine][run.plugins[n]]
  <2>1. Restores(task[i], run.profiles[i])  BY <1>1 DEF Ended, UndoInv, Undoing
  <2>2. Only(run.profiles[i].machine, Key(run.profiles[i]))  BY <1>1 DEF Only
  <2> QED  BY <1>1, <2>1, <2>2 DEF Restores
<1>2. TypeInv /\ UndoInv => UndoRestoresTheFleet
  BY <1>1 DEF UndoRestoresTheFleet
<1> QED  BY <1>2, UndoInvariant, PTL

==============================================================================
