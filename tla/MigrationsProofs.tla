-------------------------- MODULE MigrationsProofs --------------------------
(***************************************************************************)
(* The safety properties of Migrations hold for any number of faults.      *)
(*                                                                         *)
(* Progress says what a start has done: the migrations before its turn are *)
(* in effect, and of the one whose turn it is the statements counted by    *)
(* step.  Untorn says, as long as there was no fault, that nothing else is *)
(* in effect but what is recorded, and that the start knows what is.       *)
(***************************************************************************)
EXTENDS Migrations, TLAPS

Progress ==
    /\ pc \in {"apply", "serving"} =>
          /\ \A i \in 1..at - 1 : Effects(i) \subseteq schema
          /\ \A k \in 1..step : <<Registered[at].version, k>> \in schema
    /\ pc = "serving" => at > release
    /\ pc = "versions" => at = 1 /\ step = 0
    /\ pc = "apply" => journal
    /\ pc \in {"apply", "serving"} /\ step > 0 =>
          /\ at <= release
          /\ step <= Registered[at].statements
          /\ Registered[at].version \notin applied

Untorn ==
    faults = 0 =>
        /\ \A i \in DOMAIN Registered, k \in 1..2 :
              <<Registered[i].version, k>> \in schema =>
                 \/ Registered[i].version \in recorded
                 \/ pc = "apply" /\ i = at /\ k <= step
        /\ pc = "apply" =>
              \A i \in DOMAIN Registered :
                 i >= at /\ Registered[i].version \in recorded => Registered[i].version \in applied

IInv == TypeOK /\ RecordedWasApplied /\ RefusalNeedsFault /\ Progress /\ Untorn

-----------------------------------------------------------------------------
(* What is registered. *)

LEMMA RegisteredIs ==
    /\ DOMAIN Registered = 1..2 /\ Len(Registered) = 2
    /\ \A i \in 1..2 :
          /\ Registered[i].version = i
          /\ Registered[i].statements = 3 - i
    /\ ~Registered[2].repeatable
    /\ Registered[1].repeatable
    /\ Versions = 1..2
<1>1. DOMAIN Registered = 1..2 /\ Len(Registered) = 2
  BY DEF Registered
<1>2. /\ Registered[1].version = 1 /\ Registered[1].statements = 2 /\ Registered[1].repeatable
      /\ Registered[2].version = 2 /\ Registered[2].statements = 1 /\ ~Registered[2].repeatable
  BY DEF Registered
<1>3. \A i \in 1..2 : Registered[i].version = i /\ Registered[i].statements = 3 - i
  BY <1>2
<1>4. Versions = 1..2
  BY <1>1, <1>3 DEF Versions
<1>. QED
  BY <1>1, <1>2, <1>3, <1>4

LEMMA EffectsAre ==
    \A i \in 1..2 : Effects(i) = {<<i, k>> : k \in 1..3 - i}
BY RegisteredIs DEF Effects

LEMMA FaultCounts ==
    ASSUME TypeOK, Fault
    PROVE  faults' \in 0..MaxFaults /\ faults' > 0
BY MaxFaultsAssumption DEF TypeOK, Fault

-----------------------------------------------------------------------------

LEMMA InitIInv == Init => IInv
<1>. SUFFICES ASSUME Init PROVE IInv
  OBVIOUS
<1>. USE RegisteredIs DEF Init
<1>1. TypeOK
  <2>1. at \in 1..release + 1 /\ step \in 0..2 /\ faults \in 0..MaxFaults
    BY MaxFaultsAssumption
  <2>. QED
    BY <2>1, Zenon DEF TypeOK
<1>2. RecordedWasApplied /\ RefusalNeedsFault
  BY DEF RecordedWasApplied, RefusalNeedsFault
<1>3. Progress /\ Untorn
  BY DEF Progress, Untorn
<1>. QED
  BY <1>1, <1>2, <1>3 DEF IInv

LEMMA NextIInv == IInv /\ [Next]_vars => IInv'
<1>. SUFFICES ASSUME IInv, [Next]_vars PROVE IInv'
  OBVIOUS
<1>. USE RegisteredIs, EffectsAre DEF IInv, TypeOK, RecordedWasApplied, RefusalNeedsFault, Progress, Untorn
<1>1. CASE UNCHANGED vars
  BY <1>1 DEF vars, Effects
<1>2. CASE Boot
  BY <1>2 DEF Boot
<1>3. CASE AppliedVersions
  BY <1>3 DEF AppliedVersions, VersionsAre
<1>4. CASE AppliedVersionsUnread
  BY <1>4, FaultCounts DEF AppliedVersionsUnread, VersionsAre
<1>5. CASE Skip
  BY <1>5 DEF Skip
<1>6. CASE Statement
  <2>. USE <1>6 DEF Statement, Pending, NextStatement
  <2>1. at \in 1..2 /\ step + 1 \in 1..2 /\ step + 1 <= 3 - at /\ schema' = schema \cup {<<at, step + 1>>}
    OBVIOUS
  <2>2. TypeOK'
    <3>1. <<at, step + 1>> \in Effects(at)
      BY <2>1
    <3>. QED
      BY <2>1, <3>1 DEF Effects
  <2>3. RecordedWasApplied' /\ RefusalNeedsFault'
    BY <2>1
  <2>4. Progress'
    BY <2>1
  <2>5. Untorn'
    BY <2>1
  <2>. QED
    BY <2>2, <2>3, <2>4, <2>5
<1>7. CASE StatementRefused
  BY <1>7 DEF StatementRefused, Pending, Refuses, NextStatement, Refused
<1>8. CASE Record
  <2>. USE <1>8 DEF Record, Pending
  <2>1. at \in 1..2 /\ step = 3 - at /\ recorded' = recorded \cup {at}
    OBVIOUS
  <2>2. Effects(at) \subseteq schema
    BY <2>1
  <2>3. TypeOK'
    BY <2>1
  <2>4. RecordedWasApplied' /\ RefusalNeedsFault'
    BY <2>1, <2>2
  <2>5. Progress'
    BY <2>1, <2>2
  <2>6. Untorn'
    BY <2>1
  <2>. QED
    BY <2>3, <2>4, <2>5, <2>6
<1>9. CASE RecordRefused
  BY <1>9 DEF RecordRefused, Pending, Refused
<1>10. CASE Serve
  BY <1>10 DEF Serve
<1>11. CASE Die
  BY <1>11, FaultCounts DEF Die
<1>12. CASE Stop
  BY <1>12 DEF Stop
<1>13. CASE Deploy
  BY <1>13 DEF Deploy
<1>. QED
  BY <1>1, <1>2, <1>3, <1>4, <1>5, <1>6, <1>7, <1>8, <1>9, <1>10, <1>11, <1>12, <1>13 DEF Next, Start

(* Every reachable state satisfies the inductive invariant.                 *)
THEOREM MigrationsInvariant == Spec => []IInv
BY InitIInv, NextIInv, PTL DEF Spec

-----------------------------------------------------------------------------

(* The type invariant of Migrations.                                        *)
THEOREM MigrationsTypeCorrect == Spec => []TypeOK
<1>1. IInv => TypeOK
  BY DEF IInv
<1>. QED
  BY <1>1, MigrationsInvariant, PTL

(* The bot never serves on a schema behind its code.                        *)
THEOREM SchemaServesCodeHolds == Spec => []SchemaServesCode
<1>1. IInv => SchemaServesCode
  BY RegisteredIs DEF IInv, TypeOK, Progress, SchemaServesCode
<1>. QED
  BY <1>1, MigrationsInvariant, PTL

(* What is on record may be skipped.                                        *)
THEOREM RecordedWasAppliedHolds == Spec => []RecordedWasApplied
<1>1. IInv => RecordedWasApplied
  BY DEF IInv
<1>. QED
  BY <1>1, MigrationsInvariant, PTL

(* No statement is refused without a fault before it.                       *)
THEOREM RefusalNeedsFaultHolds == Spec => []RefusalNeedsFault
<1>1. IInv => RefusalNeedsFault
  BY DEF IInv
<1>. QED
  BY <1>1, MigrationsInvariant, PTL

=============================================================================
