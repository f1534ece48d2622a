----------------------------- MODULE Migrations ------------------------------
(***************************************************************************)
(* The migration runner (storage/migrations.go), which the supervisor runs *)
(* before it starts. A migration is a list of statements, each its own     *)
(* transaction, followed by a row with the checksum of the file; the       *)
(* process may die between any two. Between runs a release may bring a     *)
(* further migration or a changed file.                                    *)
(*                                                                         *)
(* A file is its number of statements, which is also its checksum. Every   *)
(* statement creates an object IF NOT EXISTS.                              *)
(***************************************************************************)
EXTENDS Integers

CONSTANTS MaxVersions,    \* bound on migrations
          MaxStatements   \* bound on the statements of one

Versions == 1..MaxVersions

ASSUME MigrationsAssumption == MaxVersions \in Nat \ {0} /\ MaxStatements \in Nat \ {0, 1}

VARIABLES
  files,      \* the migrations of this release: version -> statements
  objects,    \* objects[v]: the objects of migration v in the database
  recorded,   \* recorded[v]: the checksum in schema_migrations, or 0
  boot,       \* "off", "check", "exec", "record", "up", "failed"
  nth,         \* the migration in hand
  statement   \* its next statement

schemaVars == <<files, objects, recorded, boot, nth, statement>>

Release == DOMAIN files

-----------------------------------------------------------------------------
\* WAL mode, the schema_migrations table, and the sorted list of files.
Migrate ==
  /\ boot \in {"off", "failed"}
  /\ boot' \in {"check", "failed"} /\ nth' = 1 /\ statement' = 1
  /\ UNCHANGED <<files, objects, recorded>>

\* Mutant of CheckApplied: the row is written before the statements run.
CheckAndRecord ==
  /\ boot = "check" /\ nth \in Release
  /\ \/ recorded[nth] = files[nth] /\ nth' = nth + 1 /\ UNCHANGED <<boot, recorded>>
     \/ recorded[nth] # files[nth] /\ recorded[nth] # 0 /\ boot' = "failed" /\ UNCHANGED <<nth, recorded>>
     \/ recorded[nth] = 0 /\ boot' = "exec" /\ recorded' = [recorded EXCEPT ![nth] = files[nth]]
        /\ UNCHANGED nth
  /\ statement' = 1
  /\ UNCHANGED <<files, objects>>

\* applyMigration: applied with this checksum, with another, not at all; or
\* the query fails.
CheckApplied ==
  /\ boot = "check" /\ nth \in Release
  /\ \/ recorded[nth] = files[nth] /\ nth' = nth + 1 /\ UNCHANGED boot
     \/ recorded[nth] \notin {0, files[nth]} /\ boot' = "failed" /\ UNCHANGED nth
     \/ recorded[nth] = 0 /\ boot' = "exec" /\ UNCHANGED nth
  /\ statement' = 1
  /\ UNCHANGED <<files, objects, recorded>>

ExecStatement ==
  /\ boot = "exec"
  /\ objects' = [objects EXCEPT ![nth] = @ \cup {statement}]
  /\ statement' = statement + 1
  /\ boot' = IF statement = files[nth] THEN "record" ELSE "exec"
  /\ UNCHANGED <<files, recorded, nth>>

RecordMigration ==
  /\ boot = "record"
  /\ recorded' = [recorded EXCEPT ![nth] = files[nth]]
  /\ nth' = nth + 1 /\ boot' = "check"
  /\ UNCHANGED <<files, objects, statement>>

\* Any statement may fail, and the supervisor does not start.
StatementFails ==
  /\ boot \in {"check", "exec", "record"}
  /\ boot' = "failed"
  /\ UNCHANGED <<files, objects, recorded, nth, statement>>

MigrateReturns ==
  /\ boot = "check" /\ nth \notin Release
  /\ boot' = "up"
  /\ UNCHANGED <<files, objects, recorded, nth, statement>>

\* The process ends, at any point.
ProcessDies ==
  /\ boot # "off"
  /\ boot' = "off"
  /\ UNCHANGED <<files, objects, recorded, nth, statement>>

\* A release with one more migration, or with a statement more in a file.
NewRelease ==
  /\ boot = "off"
  /\ \E v \in Versions :
       /\ v \in Release => files[v] < MaxStatements
       /\ \A x \in Versions : x < v => x \in Release
       /\ files' = [x \in Release \cup {v} |->
                      IF x # v THEN files[x] ELSE IF v \in Release THEN files[v] + 1 ELSE 1]
  /\ UNCHANGED <<objects, recorded, boot, nth, statement>>

MigrationsInit ==
  /\ files = [v \in {1} |-> MaxStatements - 1]
  /\ objects = [v \in Versions |-> {}] /\ recorded = [v \in Versions |-> 0]
  /\ boot = "off" /\ nth = 1 /\ statement = 1

MigrationsNext ==
  \/ Migrate \/ CheckApplied \/ ExecStatement \/ RecordMigration \/ StatementFails \/ MigrateReturns
  \/ ProcessDies \/ NewRelease

MigrationsSpec == MigrationsInit /\ [][MigrationsNext]_schemaVars

-----------------------------------------------------------------------------
\* A supervisor that is up has every object its own release asks for, after
\* any crashes between statements and rows, failed starts, new migrations
\* and changed files (the row comes after the statements, and a changed
\* file is refused by its checksum).
UpIsMigrated == boot = "up" => \A v \in Release : 1..files[v] \subseteq objects[v]
=============================================================================
