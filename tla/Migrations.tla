----------------------------- MODULE Migrations -----------------------------
(***************************************************************************)
(* The start of the bot: Database.init_database (src/core/database.py)     *)
(* brings the schema up to the migrations registered in                    *)
(* src/membership/models.py before anything is served.  The process may    *)
(* die between any two statements and is started again; a later release    *)
(* registers one more migration.                                           *)
(*                                                                         *)
(* The SQLite driver opens a transaction at the first INSERT and not       *)
(* before, so CREATE and ALTER take effect at once and outlive a rollback. *)
(* The code relies on it: the CREATE TABLE of _applied_versions is never   *)
(* committed, and yet the INSERT of _apply finds the table.                *)
(***************************************************************************)
EXTENDS Integers, Sequences, FiniteSets

CONSTANT MaxFaults    \* bound: deaths and database errors of a behaviour

ASSUME MaxFaultsAssumption == MaxFaults \in Nat

VARIABLES
    pc,          \* where the start is
    release,     \* how many migrations the deployed release registers
    journal,     \* does the table _migrations exist
    recorded,    \* the versions in _migrations
    schema,      \* the statements in effect, as <<version, position>>
    applied,     \* what _applied_versions returned
    at,          \* the registered migration whose turn it is
    step,        \* how many of its statements have been executed
    faults,      \* faults so far
    refused      \* history: has the database refused a statement

vars == <<pc, release, journal, recorded, schema, applied, at, step, faults, refused>>

(* The migrations, sorted by version.  Version 1 is CREATE ... IF NOT       *)
(* EXISTS throughout and may be executed again (two statements stand for    *)
(* its thirteen); the ALTER TABLE of version 2 may not.                     *)
Registered ==
    <<[version |-> 1, statements |-> 2, repeatable |-> TRUE],
      [version |-> 2, statements |-> 1, repeatable |-> FALSE]>>

Versions == {Registered[i].version : i \in DOMAIN Registered}
Effects(i) == {<<Registered[i].version, k>> : k \in 1..Registered[i].statements}

TypeOK ==
    /\ pc \in {"down", "versions", "apply", "serving"}
    /\ release \in DOMAIN Registered
    /\ journal \in BOOLEAN
    /\ recorded \subseteq Versions
    /\ recorded # {} => journal
    /\ schema \subseteq UNION {Effects(i) : i \in DOMAIN Registered}
    /\ applied \subseteq recorded
    /\ at \in 1..release + 1
    /\ step \in 0..2
    /\ faults \in 0..MaxFaults
    /\ refused \in BOOLEAN

Init ==
    /\ pc = "down"
    /\ release \in DOMAIN Registered
    /\ journal = FALSE
    /\ recorded = {}
    /\ schema = {}
    /\ applied = {}
    /\ at = 1
    /\ step = 0
    /\ faults = 0
    /\ refused = FALSE

Fault == faults < MaxFaults /\ faults' = faults + 1

-----------------------------------------------------------------------------
(* One start. *)

Boot ==
    /\ pc = "down"
    /\ pc' = "versions"
    /\ applied' = {}
    /\ at' = 1
    /\ step' = 0
    /\ UNCHANGED <<release, journal, recorded, schema, faults, refused>>

(* Mutant of VersionsAre: a missing table is not created.                   *)
VersionsOnly(versions) ==
    /\ pc = "versions"
    /\ applied' = versions
    /\ pc' = "apply"
    /\ UNCHANGED <<release, journal, recorded, schema, at, step, refused>>

(* The versions are known; the table has been created if it was missing.    *)
VersionsAre(versions) ==
    /\ pc = "versions"
    /\ applied' = versions
    /\ journal' = TRUE
    /\ pc' = "apply"
    /\ UNCHANGED <<release, recorded, schema, at, step, refused>>

(* Mutant of AppliedVersions: the answer is always that of an empty table.  *)
AppliedVersionsNone == VersionsAre({}) /\ UNCHANGED faults

AppliedVersions == VersionsAre(recorded) /\ UNCHANGED faults

(* The except clause takes every error of the SELECT for a missing table.   *)
AppliedVersionsUnread == VersionsAre({}) /\ Fault

Pending(i) == pc = "apply" /\ i <= release /\ Registered[i].version \notin applied

Skip ==
    /\ pc = "apply" /\ at <= release
    /\ Registered[at].version \in applied
    /\ at' = at + 1
    /\ UNCHANGED <<pc, release, journal, recorded, schema, applied, step, faults, refused>>

NextStatement == <<Registered[at].version, step + 1>>

(* Mutant of Refuses: CREATE TABLE without IF NOT EXISTS.                   *)
RefusesAgain == NextStatement \in schema

(* The database refuses to execute the statement a second time.             *)
Refuses == ~Registered[at].repeatable /\ NextStatement \in schema

Statement ==
    /\ Pending(at)
    /\ step < Registered[at].statements
    /\ ~Refuses
    /\ schema' = schema \cup {NextStatement}
    /\ step' = step + 1
    /\ UNCHANGED <<pc, release, journal, recorded, applied, at, faults, refused>>

(* The exception leaves main and ends the process.                          *)
Refused ==
    /\ pc' = "down"
    /\ refused' = TRUE
    /\ UNCHANGED <<release, journal, recorded, schema, applied, at, step, faults>>

(* The column is there already.                                             *)
StatementRefused ==
    /\ Pending(at)
    /\ step < Registered[at].statements
    /\ Refuses
    /\ Refused

(* Mutant of Record: the version is recorded before its last statement.     *)
RecordEarly ==
    /\ Pending(at)
    /\ step >= Registered[at].statements - 1
    /\ Registered[at].version \notin recorded
    /\ recorded' = recorded \cup {Registered[at].version}
    /\ at' = at + 1
    /\ step' = 0
    /\ UNCHANGED <<pc, release, journal, schema, applied, faults, refused>>

(* INSERT INTO _migrations, and the commit.                                 *)
Record ==
    /\ Pending(at)
    /\ step = Registered[at].statements
    /\ Registered[at].version \notin recorded
    /\ recorded' = recorded \cup {Registered[at].version}
    /\ at' = at + 1
    /\ step' = 0
    /\ UNCHANGED <<pc, release, journal, schema, applied, faults, refused>>

(* version is the PRIMARY KEY.                                              *)
RecordRefused ==
    /\ Pending(at)
    /\ step = Registered[at].statements
    /\ Registered[at].version \in recorded
    /\ Refused

(* Mutant of Serve: the loop stops one migration early.                     *)
ServeEarly ==
    /\ pc = "apply" /\ at >= release
    /\ pc' = "serving"
    /\ UNCHANGED <<release, journal, recorded, schema, applied, at, step, faults, refused>>

Serve ==
    /\ pc = "apply" /\ at > release
    /\ pc' = "serving"
    /\ UNCHANGED <<release, journal, recorded, schema, applied, at, step, faults, refused>>

-----------------------------------------------------------------------------
(* Around it. *)

(* The process dies, or the database raises in init_database: an INSERT not *)
(* committed is lost, a CREATE or ALTER is not.                             *)
Die ==
    /\ pc # "down"
    /\ Fault
    /\ pc' = "down"
    /\ UNCHANGED <<release, journal, recorded, schema, applied, at, step, refused>>

(* A signal ends a serving process.                                         *)
Stop ==
    /\ pc = "serving"
    /\ pc' = "down"
    /\ UNCHANGED <<release, journal, recorded, schema, applied, at, step, faults, refused>>

(* The next start is that of the next release.                              *)
Deploy ==
    /\ pc = "down"
    /\ release < Len(Registered)
    /\ release' = release + 1
    /\ UNCHANGED <<pc, journal, recorded, schema, applied, at, step, faults, refused>>

Start ==
    \/ Boot
    \/ AppliedVersions
    \/ Skip \/ Statement \/ StatementRefused \/ Record \/ RecordRefused
    \/ Serve

Next == Start \/ AppliedVersionsUnread \/ Die \/ Stop \/ Deploy

Spec == Init /\ [][Next]_vars

(* The process runs, and the container starts it again (restart: always).   *)
FairSpec == Spec /\ WF_vars(Start)

-----------------------------------------------------------------------------
(* Properties. *)

(* README: migrations run at startup, "so the schema cannot lag the code".  *)
(* Whatever deaths and errors came before, the bot serves only on a schema  *)
(* with every statement its release registers.                              *)
SchemaServesCode ==
    pc = "serving" => \A i \in 1..release : Effects(i) \subseteq schema

(* A version is on record only if all its statements took effect: the next  *)
(* start may skip it.                                                       *)
RecordedWasApplied ==
    \A i \in DOMAIN Registered :
        Registered[i].version \in recorded => Effects(i) \subseteq schema

(* The database refuses a statement of init_database only after a fault:    *)
(* stopping, starting and deploying alone never lead there.                 *)
RefusalNeedsFault == refused => faults > 0

(* The ALTER TABLE took effect and its version was not recorded.            *)
Torn ==
    \E i \in DOMAIN Registered :
        /\ ~Registered[i].repeatable
        /\ Registered[i].version \notin recorded
        /\ Effects(i) \subseteq schema

(* A start succeeds again and again, whatever deaths, stops and releases,   *)
(* unless a migration was torn: then every start fails, until someone mends *)
(* the table by hand.                                                       *)
StartsUnlessTorn == []<>(pc = "serving") \/ <>[]Torn

=============================================================================
