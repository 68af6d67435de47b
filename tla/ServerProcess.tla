---------------------------- MODULE ServerProcess ----------------------------
(***************************************************************************)
(* The life of the API processes (cmd/pushnotify/main.go,                  *)
(* database/migrate.go): boot, migrations that several processes apply to   *)
(* one database, serving, and the shutdown on a signal.  A process that     *)
(* ends is started again.                                                  *)
(***************************************************************************)
EXTENDS Integers, FiniteSets

CONSTANTS
    Servers,    \* API processes
    Migrations, \* the number of *.up.sql files
    MaxSignals, \* bound on SIGTERMs
    MaxKills    \* bound on deaths, a container's grace period that ran out included

ASSUME ServersAssumption ==
    Migrations \in Nat \ {0} /\ MaxSignals \in Nat /\ MaxKills \in Nat /\ IsFiniteSet(Servers)

VARIABLES
    server,    \* the step of each process
    version,   \* the migration it is at
    tracked,   \* the schema_migrations table exists
    schema,    \* committed: the migrations whose statements were executed
    recorded,  \* committed: the rows of schema_migrations
    migrating, \* the process whose transaction holds the locks of its DDL
    open,      \* the kinds of connections each process serves
    signals, kills

serverVars == <<server, version, tracked, schema, recorded, migrating, open, signals, kills>>

ServerInit ==
    /\ server = [p \in Servers |-> "down"] /\ version = [p \in Servers |-> 1]
    /\ tracked = FALSE /\ schema = {} /\ recorded = {} /\ migrating = {}
    /\ open = [p \in Servers |-> {}] /\ signals = 0 /\ kills = 0

Go(p, s)  == server' = [server EXCEPT ![p] = s]
Moves(p)  == version' = [version EXCEPT ![p] = @ + 1]
Ends(p)   == Go(p, "down") /\ version' = [version EXCEPT ![p] = 1] /\ open' = [open EXCEPT ![p] = {}]
database  == <<tracked, schema, recorded, migrating>>

Boot(p) ==
    /\ server[p] = "down" /\ Go(p, "booting")
    /\ UNCHANGED <<version, database, open, signals, kills>>

-----------------------------------------------------------------------------
(* RunMigrations.  CREATE TABLE IF NOT EXISTS looks for the table, and fails *)
(* when another process creates it after that; log.Fatal ends the process.  *)
LookForTable(p) ==
    /\ server[p] = "booting" /\ Go(p, IF tracked THEN "checking" ELSE "creating")
    /\ UNCHANGED <<version, database, open, signals, kills>>

CreateTable(p) ==
    /\ server[p] = "creating" /\ tracked' = TRUE
    /\ IF tracked THEN Ends(p) ELSE Go(p, "checking") /\ UNCHANGED <<version, open>>
    /\ UNCHANGED <<schema, recorded, migrating, signals, kills>>

(* A migration that is not recorded is about to be applied.                 *)
CheckMigration(p) ==
    /\ server[p] = "checking"
    /\ IF version[p] > Migrations THEN Go(p, "serving") /\ UNCHANGED version
       ELSE IF version[p] \in recorded THEN Moves(p) /\ UNCHANGED server
       ELSE Go(p, "applying") /\ UNCHANGED version
    /\ UNCHANGED <<database, open, signals, kills>>

(* Mutant of ApplyMigration: its statements are not in the transaction.     *)
ApplyOutside(p) ==
    /\ server[p] = "applying" /\ migrating = {}
    /\ \/ /\ version[p] \notin schema /\ Go(p, "recording")
          /\ migrating' = {p} /\ schema' = schema \cup {version[p]} /\ UNCHANGED <<version, open>>
       \/ version[p] \in schema /\ Ends(p) /\ UNCHANGED <<migrating, schema>>
    /\ UNCHANGED <<tracked, recorded, signals, kills>>

(* The statements wait for another transaction that creates the same        *)
(* objects, and fail when they exist.                                       *)
ApplyMigration(p) ==
    /\ server[p] = "applying" /\ migrating = {}
    /\ \/ version[p] \notin schema /\ Go(p, "recording") /\ migrating' = {p} /\ UNCHANGED <<version, open>>
       \/ version[p] \in schema /\ Ends(p) /\ UNCHANGED migrating
    /\ UNCHANGED <<tracked, schema, recorded, signals, kills>>

(* The record and the commit.                                               *)
CommitMigration(p) ==
    /\ server[p] = "recording" /\ Go(p, "checking") /\ Moves(p)
    /\ schema' = schema \cup {version[p]} /\ recorded' = recorded \cup {version[p]}
    /\ migrating' = {}
    /\ UNCHANGED <<tracked, open, signals, kills>>

-----------------------------------------------------------------------------
(* A request is answered some time; a live-metrics stream ends when its     *)
(* client goes.                                                             *)
Accept(p, kind) ==
    /\ server[p] = "serving" /\ kind \notin open[p]
    /\ open' = [open EXCEPT ![p] = @ \cup {kind}]
    /\ UNCHANGED <<server, version, database, signals, kills>>

Answered(p, kind) ==
    /\ kind \in open[p] /\ open' = [open EXCEPT ![p] = @ \ {kind}]
    /\ UNCHANGED <<server, version, database, signals, kills>>

(* waitForSignal. *)
Signal(p) ==
    /\ server[p] = "serving" /\ Go(p, "shutting")
    /\ signals < MaxSignals /\ signals' = signals + 1
    /\ UNCHANGED <<version, database, open, kills>>

(* Mutant of ShutdownReturns: without a deadline.                           *)
ShutdownWaits(p) ==
    /\ server[p] = "shutting" /\ open[p] = {} /\ Go(p, "draining")
    /\ UNCHANGED <<version, database, open, signals, kills>>

(* srv.Shutdown returns when nothing is open, or after thirty seconds.      *)
ShutdownReturns(p) ==
    /\ server[p] = "shutting" /\ Go(p, "draining")
    /\ UNCHANGED <<version, database, open, signals, kills>>

(* The consumer's Stop returns (JobQueue, StopTerminates), and main ends.   *)
Exit(p) ==
    /\ server[p] = "draining" /\ Ends(p)
    /\ UNCHANGED <<database, signals, kills>>

(* A transaction of a process that dies is rolled back.                     *)
Kill(p) ==
    /\ server[p] # "down" /\ Ends(p)
    /\ kills < MaxKills /\ kills' = kills + 1
    /\ migrating' = migrating \ {p}
    /\ UNCHANGED <<tracked, schema, recorded, signals>>

Migrate(p) == LookForTable(p) \/ CreateTable(p) \/ CheckMigration(p) \/ ApplyMigration(p) \/ CommitMigration(p)

ServerNext ==
    \E p \in Servers : \/ Boot(p) \/ Migrate(p)
                       \/ \E kind \in {"request", "stream"} : Accept(p, kind) \/ Answered(p, kind)
                       \/ Signal(p) \/ ShutdownReturns(p) \/ Exit(p) \/ Kill(p)

ServerSpec == ServerInit /\ [][ServerNext]_serverVars

-----------------------------------------------------------------------------
(* Whoever dies and whoever else migrates at the same time, the recorded    *)
(* migrations are the executed ones, a prefix of all, and complete where a  *)
(* process serves.                                                          *)
SchemaMatchesRecord ==
    /\ schema = recorded /\ recorded = 1..Cardinality(recorded)
    /\ \A p \in Servers : server[p] \in {"serving", "shutting", "draining"} => recorded = 1..Migrations

(* A process that was started serves in the end, though it lost the race     *)
(* for a migration, or died in one, and had to start again; and one that    *)
(* was told to stop is replaced, though a stream it serves may never end.   *)
EverybodyServes == \A p \in Servers : server[p] # "down" ~> server[p] = "serving"
=============================================================================
