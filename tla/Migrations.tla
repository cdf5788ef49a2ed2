----------------------------- MODULE Migrations -----------------------------
(***************************************************************************)
(* store.Migrate (server/internal/store/migrate.go) as any number of       *)
(* processes run it against one database: the two commands of              *)
(* clawgard-server, on every replica.                                      *)
(*                                                                         *)
(* One step per statement.  A transaction is open while its process is at  *)
(* "recording" or "committing"; the database drops it when the process or  *)
(* its connection is gone, so a process that leaves these steps by any     *)
(* other way than Commit has rolled back.                                  *)
(***************************************************************************)
EXTENDS Naturals

CONSTANTS
    Procs,      \* processes that run clawgard-server
    NFiles,     \* the migration files, 1 .. NFiles in the order of their names
    Needs,      \* Needs[f]: the files whose tables the body of f refers to
    MaxFaults   \* bound on crashes, signals and failing statements

Files == 1 .. NFiles

ASSUME FilesAssumption == NFiles \in Nat \ {0}
ASSUME NeedsAssumption == Needs \in [Files -> SUBSET Files] /\ \A f \in Files : \A g \in Needs[f] : g < f
ASSUME FaultsAssumption == MaxFaults \in Nat

VARIABLES
    bodies,     \* the files whose tables exist
    recorded,   \* the files in schema_migrations
    proc,       \* proc[p]: the step of process p and the file it is at
    faults      \* how many faults there were

schemaVars == <<bodies, recorded>>

Migrating == {"creating", "checking", "applying", "recording", "committing"}

GoTo(p, at_, file_) == proc' = [proc EXCEPT ![p] = [at |-> at_, file |-> file_]]

Fault == faults < MaxFaults /\ faults' = faults + 1

\* Migrate returns an error, and with it main.
Exit(p) == GoTo(p, "off", 0)

-----------------------------------------------------------------------------

\* CREATE TABLE IF NOT EXISTS schema_migrations.
CreateLedger(p) ==
    /\ proc[p].at = "creating"
    /\ GoTo(p, "checking", 1)
    /\ UNCHANGED <<schemaVars, faults>>

\* Mutant: one file that is recorded stands for all of them.
CheckAny(p) ==
    /\ proc[p].at = "checking"
    /\ LET f == proc[p].file
       IN \/ (f > NFiles \/ recorded # {}) /\ GoTo(p, "migrated", 0)
          \/ f \in Files \ recorded /\ GoTo(p, "applying", f)
    /\ UNCHANGED <<schemaVars, faults>>

\* Mutant: a file that is recorded is skipped together with the next one.
CheckSkips(p) ==
    /\ proc[p].at = "checking"
    /\ LET f == proc[p].file
       IN \/ f > NFiles /\ GoTo(p, "migrated", 0)
          \/ f \in recorded /\ GoTo(p, "checking", f + 2)
          \/ f \in Files \ recorded /\ GoTo(p, "applying", f)
    /\ UNCHANGED <<schemaVars, faults>>

\* SELECT EXISTS, for one file after the other.
Check(p) ==
    /\ proc[p].at = "checking"
    /\ LET f == proc[p].file
       IN \/ f > NFiles /\ GoTo(p, "migrated", 0)
          \/ f \in recorded /\ GoTo(p, "checking", f + 1)
          \/ f \in Files \ recorded /\ GoTo(p, "applying", f)
    /\ UNCHANGED <<schemaVars, faults>>

InTx(q, f) == proc[q].at \in {"recording", "committing"} /\ proc[q].file = f

\* BEGIN and the body of the file.  CREATE TABLE waits for a transaction that
\* has created the same table, and fails when the table is there, as does a
\* reference to a table that is not.
Apply(p) ==
    /\ proc[p].at = "applying"
    /\ LET f == proc[p].file
       IN /\ \A q \in Procs \ {p} : ~ InTx(q, f)
          /\ IF f \notin bodies /\ Needs[f] \subseteq bodies
             THEN GoTo(p, "recording", f)
             ELSE Exit(p)
    /\ UNCHANGED <<schemaVars, faults>>

\* INSERT INTO schema_migrations, whose filename is the primary key.
Record(p) ==
    /\ proc[p].at = "recording"
    /\ IF proc[p].file \notin recorded THEN GoTo(p, "committing", proc[p].file) ELSE Exit(p)
    /\ UNCHANGED <<schemaVars, faults>>

\* Mutant: the file is recorded after the transaction of its body.
CommittedBodyOnly(f) == bodies' = bodies \cup {f} /\ UNCHANGED recorded

Committed(f) == bodies' = bodies \cup {f} /\ recorded' = recorded \cup {f}

Commit(p) ==
    /\ proc[p].at = "committing"
    /\ Committed(proc[p].file)
    /\ GoTo(p, "checking", proc[p].file + 1)
    /\ UNCHANGED faults

\* The COMMIT succeeds and its confirmation is lost.
CommitUnconfirmed(p) ==
    /\ proc[p].at = "committing" /\ Fault
    /\ Committed(proc[p].file)
    /\ Exit(p)

\* Any statement fails, the context is cancelled by a signal, or the process
\* is killed: what its transaction did is rolled back.
Abort(p) ==
    /\ proc[p].at \in Migrating /\ Fault
    /\ Exit(p)
    /\ UNCHANGED schemaVars

MigrateOn(p) == CreateLedger(p) \/ Check(p) \/ Apply(p) \/ Record(p) \/ Commit(p)

Migrate(p) == MigrateOn(p) \/ CommitUnconfirmed(p) \/ Abort(p)
=============================================================================
