---------------------------- MODULE Server_proofs ----------------------------
(***************************************************************************)
(* The schema and its record agree, for every number of processes,         *)
(* migrations, signals and deaths.                                         *)
(***************************************************************************)
EXTENDS ServerProcess, FiniteSetTheorems, TLAPS

Positions == {"down", "booting", "creating", "checking", "applying", "recording",
              "serving", "shutting", "draining"}

(* The recorded migrations are those up to v.                               *)
UpTo(v) == v \in 0..Migrations /\ schema = 1..v /\ recorded = 1..v

(* What a process's step says of the database: it passed what is recorded;  *)
(* one that is recording holds the locks, and its migration is not there.   *)
Passed(p) ==
    /\ version[p] \in 1..(Migrations + 1) /\ (1..(version[p] - 1)) \subseteq recorded
    /\ server[p] \in {"applying", "recording"} => version[p] <= Migrations
    /\ server[p] = "recording" => migrating = {p} /\ version[p] \notin schema
    /\ server[p] \in {"serving", "shutting", "draining"} => recorded = 1..Migrations

MigrationInv ==
    /\ server \in [Servers -> Positions] /\ version \in [Servers -> Nat]
    /\ \E v \in Nat : UpTo(v)
    /\ \A p \in Servers : Passed(p)

LEMMA MigrationStart == ServerInit => MigrationInv
<1> SUFFICES ASSUME ServerInit PROVE MigrationInv
  OBVIOUS
<1> USE ServersAssumption DEF ServerInit
<1>1. server \in [Servers -> Positions] /\ version \in [Servers -> Nat]
  BY DEF Positions
<1>2. UpTo(0)
  BY DEF UpTo
<1>3. \A p \in Servers : Passed(p)
  BY DEF Passed
<1> QED BY <1>1, <1>2, <1>3 DEF MigrationInv

(* Steps of one process that leave the database alone, and that take the    *)
(* process only where it may be.                                            *)
LEMMA ProcessStep ==
    ASSUME MigrationInv, UNCHANGED <<schema, recorded>>, NEW p \in Servers,
           NEW s \in Positions, NEW v \in Nat,
           server' = [server EXCEPT ![p] = s], version' = [version EXCEPT ![p] = v],
           migrating' = migrating \/ migrating' = migrating \ {p}
              \/ (migrating = {} /\ migrating' = {p}),
           Passed(p)'
    PROVE  MigrationInv'
<1>1. server' \in [Servers -> Positions] /\ version' \in [Servers -> Nat]
  BY DEF MigrationInv
<1>2. \E n \in Nat : UpTo(n)'
  BY DEF MigrationInv, UpTo
<1>3. ASSUME NEW q \in Servers, q # p PROVE Passed(q)'
  <2>1. server'[q] = server[q] /\ version'[q] = version[q] /\ Passed(q)
    BY <1>3 DEF MigrationInv
  <2>2. server[q] = "recording" => migrating' = migrating
    BY <1>3, <2>1 DEF Passed
  <2> QED BY <2>1, <2>2 DEF Passed
<1> QED BY <1>1, <1>2, <1>3 DEF MigrationInv

(* A process that ends, or dies, starts from the first migration.           *)
LEMMA EndsStep ==
    ASSUME MigrationInv, UNCHANGED <<schema, recorded>>, NEW p \in Servers, Ends(p),
           migrating' = migrating \/ migrating' = migrating \ {p}
    PROVE  MigrationInv'
<1>1. server' = [server EXCEPT ![p] = "down"] /\ version' = [version EXCEPT ![p] = 1]
  BY DEF Ends, Go
<1>2. Passed(p)'
  BY <1>1, ServersAssumption DEF MigrationInv, Passed
<1>3. "down" \in Positions
  BY DEF Positions
<1> QED BY <1>1, <1>2, <1>3, ProcessStep

(* The commit: between the check and the commit nobody else committed, or   *)
(* the statements would have failed; so it is the next migration.           *)
LEMMA CommitStep ==
    ASSUME MigrationInv, NEW p \in Servers, CommitMigration(p)
    PROVE  MigrationInv'
<1> USE ServersAssumption
<1> PICK n \in Nat : n = version[p]
  BY DEF MigrationInv
<1>1. /\ server[p] = "recording" /\ n \in 1..Migrations /\ 1..(n - 1) \subseteq recorded
      /\ migrating = {p} /\ n \notin schema
  BY DEF MigrationInv, Passed, CommitMigration
<1>2. PICK v \in Nat : UpTo(v)
  BY DEF MigrationInv
<1>3. n = v + 1
  <2>1. ~(n <= v)
    BY <1>1, <1>2 DEF UpTo
  <2>2. ~(n > v + 1)
    <3> SUFFICES ASSUME n > v + 1 PROVE FALSE
      OBVIOUS
    <3>1. n - 1 \in 1..(n - 1) /\ n - 1 \notin 1..v
      BY <1>1
    <3> QED BY <1>1, <1>2, <3>1 DEF UpTo
  <2> QED BY <2>1, <2>2
<1>4. /\ server' = [server EXCEPT ![p] = "checking"] /\ version' = [version EXCEPT ![p] = n + 1]
      /\ schema' = 1..n /\ recorded' = 1..n /\ migrating' = {}
  BY <1>2, <1>3, <1>1 DEF CommitMigration, Go, Moves, UpTo
<1>5. server' \in [Servers -> Positions] /\ version' \in [Servers -> Nat]
  BY <1>1, <1>4 DEF MigrationInv, Positions
<1>6. UpTo(n)'
  BY <1>1, <1>4 DEF UpTo
<1>7. Passed(p)'
  BY <1>1, <1>4 DEF Passed, MigrationInv
<1>8. ASSUME NEW q \in Servers, q # p PROVE Passed(q)'
  <2>1. server'[q] = server[q] /\ version'[q] = version[q] /\ Passed(q)
    BY <1>4, <1>8 DEF MigrationInv
  <2>2. server[q] # "recording"
    BY <1>1, <1>8, <2>1 DEF Passed
  <2>3. recorded \subseteq recorded'
    BY <1>2, <1>3, <1>4 DEF UpTo
  <2>4. server[q] \notin {"serving", "shutting", "draining"}
    BY <1>1, <1>2, <1>3, <2>1 DEF Passed, UpTo
  <2> QED BY <2>1, <2>2, <2>3, <2>4 DEF Passed
<1> QED BY <1>5, <1>6, <1>7, <1>8, <1>1 DEF MigrationInv

(* The other steps of a boot: what a process is about to apply was not      *)
(* recorded when it looked, and the lock tells whether it still is not.     *)
LEMMA BootStep ==
    ASSUME MigrationInv, NEW p \in Servers,
           Boot(p) \/ LookForTable(p) \/ CreateTable(p) \/ CheckMigration(p) \/ ApplyMigration(p)
    PROVE  MigrationInv'
<1> USE ServersAssumption
<1>1. version[p] \in Nat /\ server[p] \in Positions /\ Passed(p)
      /\ version = [version EXCEPT ![p] = version[p]] /\ server = [server EXCEPT ![p] = server[p]]
  BY DEF MigrationInv
<1>2. PICK v \in Nat : UpTo(v)
  BY DEF MigrationInv
<1>3. CASE Boot(p)
  <2>1. /\ server' = [server EXCEPT ![p] = "booting"] /\ "booting" \in Positions
        /\ UNCHANGED <<version, schema, recorded, migrating>>
    BY <1>3 DEF Boot, Go, database, Positions
  <2>2. Passed(p)'
    BY <1>1, <2>1 DEF Passed, MigrationInv
  <2> QED BY <1>1, <2>1, <2>2, ProcessStep
<1>4. CASE LookForTable(p)
  <2>1. PICK s \in {"checking", "creating"} :
          server' = [server EXCEPT ![p] = s] /\ UNCHANGED <<version, schema, recorded, migrating>>
    BY <1>4 DEF LookForTable, Go, database
  <2>2. Passed(p)' /\ s \in Positions
    BY <1>1, <2>1 DEF Passed, MigrationInv, Positions
  <2> QED BY <1>1, <2>1, <2>2, ProcessStep
<1>5. CASE CreateTable(p)
  <2>1. UNCHANGED <<schema, recorded, migrating>>
    BY <1>5 DEF CreateTable
  <2>2. CASE tracked
    BY <1>5, <2>1, <2>2, EndsStep DEF CreateTable
  <2>3. CASE ~tracked
    <3>1. server' = [server EXCEPT ![p] = "checking"] /\ version' = version /\ "checking" \in Positions
      BY <1>5, <2>3 DEF CreateTable, Go, Positions
    <3>2. Passed(p)'
      BY <1>1, <2>1, <3>1 DEF Passed, MigrationInv
    <3> QED BY <1>1, <2>1, <3>1, <3>2, ProcessStep
  <2> QED BY <2>2, <2>3
<1>6. CASE CheckMigration(p)
  <2>1. server[p] = "checking" /\ UNCHANGED <<schema, recorded, migrating>>
    BY <1>6 DEF CheckMigration, database
  <2>2. CASE version[p] > Migrations
    <3>1. server' = [server EXCEPT ![p] = "serving"] /\ version' = version /\ "serving" \in Positions
      BY <1>6, <2>2 DEF CheckMigration, Go, Positions
    <3>2. recorded = 1..Migrations
      BY <1>1, <1>2, <2>2 DEF Passed, UpTo
    <3>3. Passed(p)'
      BY <1>1, <2>1, <3>1, <3>2 DEF Passed, MigrationInv
    <3> QED BY <1>1, <2>1, <3>1, <3>3, ProcessStep
  <2>3. CASE ~(version[p] > Migrations) /\ version[p] \in recorded
    <3>1. version' = [version EXCEPT ![p] = version[p] + 1] /\ server' = server
      BY <1>6, <2>3 DEF CheckMigration, Moves
    <3>2. 1..version[p] \subseteq recorded
      BY <1>1, <1>2, <2>3 DEF Passed, UpTo
    <3>3. Passed(p)'
      BY <1>1, <2>1, <2>3, <3>1, <3>2 DEF Passed, MigrationInv
    <3>4. version[p] + 1 \in Nat
      BY <1>1
    <3> QED BY <1>1, <2>1, <3>1, <3>3, <3>4, ProcessStep
  <2>4. CASE ~(version[p] > Migrations) /\ version[p] \notin recorded
    <3>1. server' = [server EXCEPT ![p] = "applying"] /\ version' = version /\ "applying" \in Positions
      BY <1>6, <2>4 DEF CheckMigration, Go, Positions
    <3>2. Passed(p)'
      BY <1>1, <2>1, <2>4, <3>1 DEF Passed, MigrationInv
    <3> QED BY <1>1, <2>1, <3>1, <3>2, ProcessStep
  <2> QED BY <2>2, <2>3, <2>4
<1>7. CASE ApplyMigration(p)
  <2>1. server[p] = "applying" /\ migrating = {} /\ UNCHANGED <<schema, recorded>>
    BY <1>7 DEF ApplyMigration
  <2>2. CASE version[p] \in schema
    BY <1>7, <2>1, <2>2, EndsStep DEF ApplyMigration
  <2>3. CASE version[p] \notin schema
    <3>1. /\ server' = [server EXCEPT ![p] = "recording"] /\ version' = version
          /\ migrating' = {p} /\ "recording" \in Positions
      BY <1>7, <2>3 DEF ApplyMigration, Go, Positions
    <3>2. Passed(p)'
      BY <1>1, <2>1, <2>3, <3>1 DEF Passed, MigrationInv
    <3> QED BY <1>1, <2>1, <3>1, <3>2, ProcessStep
  <2> QED BY <2>2, <2>3
<1> QED BY <1>3, <1>4, <1>5, <1>6, <1>7

(* The life of a process that serves.                                       *)
LEMMA ServingStep ==
    ASSUME MigrationInv, NEW p \in Servers,
           \/ \E kind \in {"request", "stream"} : Accept(p, kind) \/ Answered(p, kind)
           \/ Signal(p) \/ ShutdownReturns(p) \/ Exit(p) \/ Kill(p)
    PROVE  MigrationInv'
<1>1. version[p] \in Nat /\ server[p] \in Positions /\ Passed(p)
      /\ version = [version EXCEPT ![p] = version[p]] /\ server = [server EXCEPT ![p] = server[p]]
  BY DEF MigrationInv
<1>2. CASE \E kind \in {"request", "stream"} : Accept(p, kind) \/ Answered(p, kind)
  <2>1. UNCHANGED <<server, version, schema, recorded, migrating>>
    BY <1>2 DEF Accept, Answered, database
  <2>2. Passed(p)'
    BY <1>1, <2>1 DEF Passed
  <2> QED BY <1>1, <2>1, <2>2, ProcessStep
<1>3. CASE Signal(p) \/ ShutdownReturns(p)
  <2>1. /\ server[p] \in {"serving", "shutting"} /\ UNCHANGED <<version, schema, recorded, migrating>>
        /\ \E s \in {"shutting", "draining"} : server' = [server EXCEPT ![p] = s]
    BY <1>3 DEF Signal, ShutdownReturns, Go, database
  <2>2. PICK s \in {"shutting", "draining"} : server' = [server EXCEPT ![p] = s]
    BY <2>1
  <2>3. Passed(p)' /\ s \in Positions
    BY <1>1, <2>1, <2>2 DEF Passed, MigrationInv, Positions
  <2> QED BY <1>1, <2>1, <2>2, <2>3, ProcessStep
<1>4. CASE Exit(p) \/ Kill(p)
  BY <1>4, EndsStep DEF Exit, Kill, database
<1> QED BY <1>2, <1>3, <1>4, <1>1

LEMMA MigrationStep == MigrationInv /\ [ServerNext]_serverVars => MigrationInv'
<1> SUFFICES ASSUME MigrationInv, [ServerNext]_serverVars PROVE MigrationInv'
  OBVIOUS
<1>1. CASE UNCHANGED serverVars
  BY <1>1 DEF serverVars, MigrationInv, UpTo, Passed
<1>2. ASSUME NEW p \in Servers, Migrate(p) PROVE MigrationInv'
  BY <1>2, BootStep, CommitStep DEF Migrate
<1> QED BY <1>1, <1>2, BootStep, ServingStep DEF ServerNext

(* What the invariant means: a prefix of the migrations.                    *)
LEMMA MigrationMeans == MigrationInv => SchemaMatchesRecord
<1> SUFFICES ASSUME MigrationInv PROVE SchemaMatchesRecord
  OBVIOUS
<1>1. PICK v \in Nat : UpTo(v)
  BY DEF MigrationInv
<1>2. Cardinality(1..v) = v
  BY <1>1, FS_Interval
<1>3. schema = recorded /\ recorded = 1..Cardinality(recorded)
  BY <1>1, <1>2 DEF UpTo
<1>4. \A p \in Servers : server[p] \in {"serving", "shutting", "draining"} => recorded = 1..Migrations
  BY DEF MigrationInv, Passed
<1> QED BY <1>3, <1>4 DEF SchemaMatchesRecord

(* THEOREM: the recorded migrations are the executed ones, a prefix of all, *)
(* and all of them where a process serves.                                  *)
THEOREM SchemaRecorded ==
    ServerSpec => []SchemaMatchesRecord
BY MigrationStart, MigrationStep, MigrationMeans, PTL DEF ServerSpec
=============================================================================
