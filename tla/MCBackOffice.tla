----------------------------- MODULE MCBackOffice -----------------------------
(***************************************************************************)
(* The parts of the server beside the queue, checked in one run.  They     *)
(* share no state, so a behaviour exercises one of them, which `part`      *)
(* names, and the others rest in an initial state.                         *)
(***************************************************************************)
EXTENDS ServiceCatalog, StaffSessions, UserAccounts, CounterRoster, SpeechEndpoint,
        MigrationRunner

VARIABLE part

otherVars == <<catalogVars, sessionVars, accountVars, rosterVars,
               speechVars, migrationVars>>

\* The parts with many initial states start from one of them unless they are exercised.
BackOfficeInit ==
  /\ part \in {"catalog", "sessions", "accounts", "counters", "speech", "migration"}
  /\ CatalogInit /\ SessionInit /\ AccountInit /\ RosterInit
  /\ SpeechInit /\ MigrationInit
  /\ part # "catalog" => catalog = [s \in Services |-> NoRow]
  /\ part # "sessions" => account = [u \in Users |-> Gone]
  /\ part # "accounts" => users = [id \in Accounts |-> Vacant]
  /\ part # "counters" => /\ counter = [c \in Counters |-> Unborn]
                         /\ person = [u \in Staff |-> CHOOSE n \in Names : TRUE]

BackOfficeNext ==
  /\ UNCHANGED part
  /\ \/ part = "catalog" /\ CatalogNext
        /\ UNCHANGED <<sessionVars, accountVars, rosterVars, speechVars, migrationVars>>
     \/ part = "sessions" /\ SessionNext
        /\ UNCHANGED <<catalogVars, accountVars, rosterVars, speechVars, migrationVars>>
     \/ part = "accounts" /\ AccountNext
        /\ UNCHANGED <<catalogVars, sessionVars, rosterVars, speechVars, migrationVars>>
     \/ part = "counters" /\ RosterNext
        /\ UNCHANGED <<catalogVars, sessionVars, accountVars, speechVars, migrationVars>>
     \/ part = "speech" /\ SpeechNext
        /\ UNCHANGED <<catalogVars, sessionVars, accountVars, rosterVars, migrationVars>>
     \/ part = "migration" /\ MigrationNext
        /\ UNCHANGED <<catalogVars, sessionVars, accountVars, rosterVars, speechVars>>

BackOfficeSpec == BackOfficeInit /\ [][BackOfficeNext]_<<part, otherVars>>

\* Each part is well typed.
BackOfficeTypeOK ==
  /\ CatalogTypeOK /\ SessionTypeOK /\ AccountTypeOK /\ RosterTypeOK
  /\ SpeechTypeOK /\ MigrationTypeOK

(***************************************************************************)
(* Requests of each part and runs of the migration command are given the   *)
(* same names, and none of them is told from another.  The speech part has *)
(* one request more, which is left out of the symmetry.                    *)
(***************************************************************************)
Interchangeable == Permutations(Calls)

===============================================================================
