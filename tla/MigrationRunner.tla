---------------------------- MODULE MigrationRunner ----------------------------
(***************************************************************************)
(* cmd/migrate: it goes through the migration files in lexical order.  For *)
(* each it asks schema_migrations whether the file is recorded, and if not *)
(* runs the file, which PostgreSQL does in one implicit transaction, and   *)
(* records it in a statement of its own.  Any error ends the process.      *)
(*                                                                         *)
(* Runs may overlap (two deployments), die between any two statements and  *)
(* be started again.  A file whose statements cannot be executed twice     *)
(* (CREATE TABLE, ADD COLUMN, an INSERT with no ON CONFLICT) fails on a    *)
(* schema that has its effects already.                                    *)
(***************************************************************************)
EXTENDS Integers

CONSTANTS
  Runs,         \* processes of the command
  Files,        \* how many migration files there are
  Repeatable,   \* those that can be executed again
  Overlap       \* whether two runs may be under way at once

ASSUME MigrationAssumption ==
  /\ Files \in Nat
  /\ Repeatable \subseteq 1 .. Files
  /\ Overlap \in BOOLEAN

VARIABLES
  applied,    \* files whose effects are in the schema
  recorded,   \* rows of schema_migrations
  file,       \* the file each run is at
  doing       \* and the statement

migrationVars == <<applied, recorded, file, doing>>

MigrationTypeOK ==
  /\ applied \subseteq 1 .. Files
  /\ recorded \subseteq 1 .. Files
  /\ file \in [Runs -> 1 .. Files + 1]
  /\ doing \in [Runs -> {"unstarted", "check", "apply", "record", "finished", "fatal", "dead"}]

MigrationInit ==
  /\ applied = {} /\ recorded = {}
  /\ file = [p \in Runs |-> 1]
  /\ doing = [p \in Runs |-> "unstarted"]

Become(p, what) == doing' = [doing EXCEPT ![p] = what]

Launch(p) ==
  /\ doing[p] = "unstarted"
  /\ Overlap \/ \A q \in Runs : doing[q] \notin {"check", "apply", "record"}
  /\ Become(p, IF Files = 0 THEN "finished" ELSE "check")
  /\ UNCHANGED <<applied, recorded, file>>

AdvancePastTheEnd(p) ==
  /\ file' = [file EXCEPT ![p] = @ + 1]
  /\ Become(p, IF file[p] > Files THEN "finished" ELSE "check")

\* On to the next file, or to the end.
Advance(p) ==
  /\ file' = [file EXCEPT ![p] = @ + 1]
  /\ Become(p, IF file[p] = Files THEN "finished" ELSE "check")

\* SELECT EXISTS(... WHERE version = $1).
Check(p) ==
  /\ doing[p] = "check"
  /\ IF file[p] \in recorded
       THEN Advance(p)
       ELSE Become(p, "apply") /\ UNCHANGED file
  /\ UNCHANGED <<applied, recorded>>

\* pool.Exec(body): all of the file or nothing of it.
Apply(p) ==
  /\ doing[p] = "apply"
  /\ file[p] \notin applied \/ file[p] \in Repeatable
  /\ applied' = applied \cup {file[p]}
  /\ Become(p, "record")
  /\ UNCHANGED <<recorded, file>>

\* The file fails, its effects being there already.
ApplyRefused(p) ==
  /\ doing[p] = "apply"
  /\ file[p] \in applied \ Repeatable
  /\ Become(p, "fatal")
  /\ UNCHANGED <<applied, recorded, file>>

\* INSERT INTO schema_migrations: another run may have recorded the file meanwhile.
Record(p) ==
  /\ doing[p] = "record"
  /\ IF file[p] \in recorded
       THEN Become(p, "fatal") /\ UNCHANGED <<recorded, file>>
       ELSE recorded' = recorded \cup {file[p]} /\ Advance(p)
  /\ UNCHANGED applied

DieIgnoringTheError(p) ==
  /\ doing[p] \in {"check", "apply", "record"}
  /\ Become(p, IF doing[p] = "apply" THEN "record" ELSE "dead")
  /\ UNCHANGED <<applied, recorded, file>>

\* A statement fails for a reason of its own (the connection), or the process is killed.
Die(p) ==
  /\ doing[p] \in {"check", "apply", "record"}
  /\ Become(p, "dead")
  /\ UNCHANGED <<applied, recorded, file>>

MigrationNext ==
  \E p \in Runs :
    Launch(p) \/ Check(p) \/ Apply(p) \/ ApplyRefused(p) \/ Record(p) \/ Die(p)

MigrationSpec == MigrationInit /\ [][MigrationNext]_migrationVars

-------------------------------------------------------------------------------
(* Properties.                                                               *)

(***************************************************************************)
(* Whatever runs overlap and wherever they die, the schema has the files   *)
(* up to some point, schema_migrations the same or all but the last of     *)
(* them: no file runs before an earlier one, and none is recorded that did *)
(* not run.                                                                *)
(***************************************************************************)
SchemaIsPrefix ==
  \E n \in 0 .. Files :
    /\ applied = 1 .. n
    /\ recorded \in {1 .. n, 1 .. n - 1}

(***************************************************************************)
(* "Tracks applied versions in a schema_migrations table so it's safe to   *)
(* re-run": no run fails on what earlier runs have left.                   *)
(***************************************************************************)
SafeToRerun == \A p \in Runs : doing[p] # "fatal"

===============================================================================
