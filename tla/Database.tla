------------------------------ MODULE Database ------------------------------
(***************************************************************************)
(* The opening of the state database (crates/hardener-state/src/db.rs) by  *)
(* several processes, of a file that is new or that an earlier release has *)
(* left: the schema, then every migration in one transaction.              *)
(*                                                                         *)
(* SQLite's part in it: one writer at a time, whose changes others see     *)
(* when it commits, and which are gone when it rolls back or dies.         *)
(***************************************************************************)
EXTENDS Naturals, Sequences

CONSTANTS Process,
          Migrations,    \* the columns, in the order MIGRATIONS adds them
          Schema,        \* those of them a table created today has already
          Earlier,       \* the columns that releases have left behind
          MaxFaults

VARIABLES file,     \* the committed columns; whether there are tables at all
          writer,   \* the process with the write lock, if any, and what it sees
          opener,   \* process -> where it is in init_db
          past      \* faults, and the columns before any opener came

vars == <<file, writer, opener, past>>

Column == {Migrations[i] : i \in DOMAIN Migrations}

\* The columns a release has ever had are those that are migrated to.
DatabaseAssumption ==
    /\ Migrations \in Seq(Column)
    /\ Schema \subseteq Column
    /\ Earlier \subseteq SUBSET Column
    /\ "none" \notin Process

Nobody == [process |-> "none", columns |-> {}]
Closed == [pc |-> "closed", at |-> 1]

Init ==
    /\ file \in {[tables |-> FALSE, columns |-> {}]}
                \cup {[tables |-> TRUE, columns |-> c] : c \in Earlier}
    /\ writer = Nobody
    /\ opener = [p \in Process |-> Closed]
    /\ past = [faults |-> 0, columns |-> file.columns]

At(p, pc) == opener[p].pc = pc
Goto(p, pc) == opener' = [opener EXCEPT ![p].pc = pc]
Locked(p) == writer.process = p
Fault == past.faults < MaxFaults /\ past' = [past EXCEPT !.faults = @ + 1]

\* init_db: CREATE TABLE IF NOT EXISTS, which adds no column to a table; what one
\* process leaves undone of it the next one does.
CreateTables(p) ==
    /\ At(p, "closed") /\ writer = Nobody
    /\ Goto(p, "begin")
    /\ file' = IF file.tables THEN file ELSE [tables |-> TRUE, columns |-> Schema]
    /\ past' = IF file.tables THEN past ELSE [past EXCEPT !.columns = Schema]
    /\ UNCHANGED writer

\* Seeded fault: a deferred BEGIN, which takes no lock.
BeginDeferred(p) ==
    /\ At(p, "begin")
    /\ opener' = [opener EXCEPT ![p].pc = "check", ![p].at = 1]
    /\ UNCHANGED <<file, writer, past>>

\* BEGIN IMMEDIATE waits for the lock.
BeginImmediate(p) ==
    /\ At(p, "begin") /\ writer = Nobody
    /\ opener' = [opener EXCEPT ![p].pc = "check", ![p].at = 1]
    /\ writer' = [process |-> p, columns |-> file.columns]
    /\ UNCHANGED <<file, past>>

\* It waits five seconds and no more.
Busy(p) ==
    /\ At(p, "begin") /\ writer # Nobody
    /\ Goto(p, "busy")
    /\ UNCHANGED <<file, writer, past>>

Sees(p) == IF Locked(p) THEN writer.columns ELSE file.columns

\* add_column_if_missing, the first statement.
Check(p) ==
    /\ At(p, "check") /\ opener[p].at \in DOMAIN Migrations
    /\ \/ /\ Migrations[opener[p].at] \in Sees(p)
          /\ opener' = [opener EXCEPT ![p].at = @ + 1]
       \/ /\ Migrations[opener[p].at] \notin Sees(p)
          /\ Goto(p, "alter")
    /\ UNCHANGED <<file, writer, past>>

\* And the second, which SQLite refuses where the column is there.
Alter(p) ==
    /\ At(p, "alter")
    /\ LET column == Migrations[opener[p].at] IN
       IF column \in Sees(p)
       THEN /\ Goto(p, "failed")
            /\ UNCHANGED <<file, writer>>
       ELSE /\ opener' = [opener EXCEPT ![p].pc = "check", ![p].at = @ + 1]
            /\ IF Locked(p)
               THEN /\ writer' = [writer EXCEPT !.columns = @ \cup {column}]
                    /\ UNCHANGED file
               ELSE /\ file' = [file EXCEPT !.columns = @ \cup {column}]
                    /\ UNCHANGED writer
    /\ UNCHANGED past

AlterFails(p) ==
    /\ At(p, "alter")
    /\ Goto(p, "failed")
    /\ Fault
    /\ UNCHANGED <<file, writer>>

Release(p) == writer' = IF Locked(p) THEN Nobody ELSE writer

Commit(p) ==
    /\ At(p, "check") /\ opener[p].at \notin DOMAIN Migrations
    /\ Goto(p, "open")
    /\ file' = IF Locked(p) THEN [file EXCEPT !.columns = writer.columns] ELSE file
    /\ Release(p)
    /\ UNCHANGED past

\* Seeded fault: what was added before the failure is committed.
CommitAnyway(p) ==
    /\ At(p, "failed")
    /\ Goto(p, "refused")
    /\ file' = IF Locked(p) THEN [file EXCEPT !.columns = writer.columns] ELSE file
    /\ Release(p)
    /\ UNCHANGED past

Rollback(p) ==
    /\ At(p, "failed")
    /\ Goto(p, "refused")
    /\ Release(p)
    /\ UNCHANGED <<file, past>>

\* A process ends, is refused or dies; another may open the database after it.
Close(p) ==
    /\ opener[p].pc \in {"open", "busy", "refused"}
    /\ opener' = [opener EXCEPT ![p] = Closed]
    /\ UNCHANGED <<file, writer, past>>

Die(p) ==
    /\ opener[p].pc \in {"begin", "check", "alter"}
    /\ opener' = [opener EXCEPT ![p] = Closed]
    /\ Fault
    /\ Release(p)
    /\ UNCHANGED file

Step(p) ==
    \/ CreateTables(p) \/ BeginImmediate(p) \/ Busy(p) \/ Check(p) \/ Alter(p)
    \/ AlterFails(p) \/ Commit(p) \/ Rollback(p) \/ Close(p) \/ Die(p)

Next == \E p \in Process : Step(p)

Spec == Init /\ [][Next]_vars

-----------------------------------------------------------------------------
(* Properties.                                                             *)

TypeOK ==
    /\ file.columns \subseteq Column /\ writer.columns \subseteq Column
    /\ writer.process \in Process \cup {"none"}
    /\ \A p \in Process : opener[p].at \in 1..(Len(Migrations) + 1)

\* A database carries all of an upgrade's columns or none of them; a process
\* that has opened it finds them all; and no migration of one fails on a column
\* that another added.  A process that waits for the lock longer than SQLite's
\* five seconds is turned away (Busy), and of that nothing is said here.
UpgradeIsWhole ==
    /\ file.columns \in {past.columns, Column}
    /\ \A p \in Process :
          /\ At(p, "open") => file.columns = Column
          /\ (At(p, "failed") \/ At(p, "refused")) => past.faults > 0
=============================================================================
