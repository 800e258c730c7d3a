----------------------- MODULE ExpirationLoopProofs -----------------------
(***************************************************************************)
(* Proofs about ExpirationLoop, for any users, handlers, calendar and      *)
(* number of faults: its types, that a mark is never set before its        *)
(* message has arrived, that a repeated reminder is always the price of a  *)
(* lost mark and a missing one that of a fault on every day of its window, *)
(* that reminders are timely, and that the loop implements AccessPromise.  *)
(***************************************************************************)
EXTENDS ExpirationLoop, SubscriptionsProofs

(* Row i carries the mark renewal_reminded_at. *)
Marked(i) == i \in DOMAIN subscriptions /\ subscriptions[i].reminded

(* The tasks with an insertion under way. *)
Inserting == {t \in Task : call[t].op \in {"activate", "trial"}}

(* Every insertion under way has a place in the table (Room). *)
RowsFit == Len(subscriptions) + Cardinality(Inserting) <= MaxRows

(* The rows of the snapshot still to be handled are not marked: nobody but  *)
(* the loop marks rows.                                                     *)
QueueIsUnmarked ==
    pc \in {"send", "mark"} => \A i \in queue : ~Marked(i)

(* A row about to be marked has had its message. *)
SentFirst == pc = "mark" => delivered[current] > 0

(* A message whose mark is not lost is in the count of one: of the row that *)
(* is marked, or about to be.                                               *)
MessagesAreCounted ==
    \A i \in Ids :
        delivered[i] <= IF Marked(i) \/ (pc = "mark" /\ current = i)
                        THEN mishaps[i] + 1 ELSE mishaps[i]

(* A row of the snapshot had no active successor then, and what is not      *)
(* active does not become so.                                               *)
NewestAtSnapshot ==
    pc \in {"send", "mark"} =>
        \A i \in queue : \A j \in DOMAIN subscriptions :
            /\ j > i
            /\ subscriptions[j].user = subscriptions[i].user
            /\ subscriptions[j].status = "active"
            => j > asOf

(* The inductive invariant. *)
LoopInv ==
    /\ SubscriptionsInv
    /\ LoopTypeOK
    /\ NewestAtSnapshot
    /\ RowsFit
    /\ QueueIsUnmarked
    /\ SentFirst
    /\ MarkedWasDelivered
    /\ MessagesAreCounted

-----------------------------------------------------------------------------
(* The loop's steps seen from the table. *)

(* A step of the loop, of a handler, of the process or of the calendar is a *)
(* step of Subscriptions or leaves the table and the calls alone.           *)
LEMMA LoopStepIsStep ==
    ASSUME LoopTypeOK, [LoopNext]_allVars
    PROVE  [Next]_vars
<1> USE LoopAssumption DEF LoopAssumption
<1>1. ASSUME Mark PROVE Next
  <2>1. current \in DOMAIN subscriptions
    BY <1>1 DEF Mark, LoopTypeOK
  <2> QED
    BY <1>1, <2>1 DEF Mark, Next
<1>2. ASSUME SweepStart \/ SweepDone \/ SweepRaises PROVE Next
  BY <1>2 DEF SweepStart, SweepDone, SweepRaises, Next
<1>3. ASSUME \/ QueryStart \/ Query \/ QueryRaises \/ SendDelivered
             \/ SendRaises \/ SendUnconfirmed \/ MarkRaises \/ Wake \/ Restart
             \/ UNCHANGED allVars
      PROVE  UNCHANGED vars
  BY <1>3 DEF QueryStart, Query, QueryRaises, SendDelivered, SendRaises,
              SendUnconfirmed, MarkRaises, Wake, Restart, allVars
<1>4. ASSUME Die \/ DayEnds \/ DayLost PROVE Next
  BY <1>4 DEF Die, DayEnds, DayLost, Next
<1>5. ASSUME HandlerStep PROVE Next
  BY <1>5 DEF HandlerStep, Handlers, Next
<1> QED
  BY <1>1, <1>2, <1>3, <1>4, <1>5 DEF LoopNext, Pass

(* An interval from 1 tells its end. *)
LEMMA SameEnd == \A m, n \in Nat : 1..m = 1..n => m = n
<1> SUFFICES ASSUME NEW m \in Nat, NEW n \in Nat, 1..m = 1..n PROVE m = n
  OBVIOUS
<1>1. m = 0 \/ m \in 1..n
  <2>1. m = 0 \/ m \in 1..m
    OBVIOUS
  <2> QED
    BY <2>1
<1>2. n = 0 \/ n \in 1..m
  <2>1. n = 0 \/ n \in 1..n
    OBVIOUS
  <2> QED
    BY <2>1
<1> QED
  BY <1>1, <1>2

(* What a step that marks no row does to the table. *)
KeepsMarks ==
    /\ DOMAIN subscriptions \subseteq DOMAIN subscriptions'
    /\ Len(subscriptions) \in Nat /\ Len(subscriptions') \in Nat
    /\ Len(subscriptions) <= Len(subscriptions')
    /\ \A i : Marked(i)' <=> Marked(i)

(* New rows are not marked, and purchases, trials, sweeps and cancellations *)
(* touch no mark.                                                           *)
LEMMA WritesKeepMarks ==
    ASSUME TypeOK, TypeOK',
           \/ UNCHANGED subscriptions
           \/ \E t \in Task : ActivateCommit(t) \/ TrialCommit(t) \/ ExpireCommit(t)
           \/ \E u \in User : Cancel(u)
    PROVE  KeepsMarks
<1>0. /\ subscriptions \in Seq(Row)
      /\ DOMAIN subscriptions = 1..Len(subscriptions)
      /\ Len(subscriptions) \in Nat
      /\ DOMAIN subscriptions' = 1..Len(subscriptions')
      /\ Len(subscriptions') \in Nat
  BY LenProperties DEF TypeOK
<1>1. CASE UNCHANGED subscriptions
  BY <1>0, <1>1 DEF KeepsMarks, Marked
<1>2. ASSUME DOMAIN subscriptions' = 1..Len(subscriptions) + 1,
             ~subscriptions'[Len(subscriptions) + 1].reminded,
             \A i \in DOMAIN subscriptions :
                subscriptions'[i].reminded = subscriptions[i].reminded
      PROVE  KeepsMarks
  <2> DEFINE n == Len(subscriptions)
  <2>1. Len(subscriptions') = n + 1
    BY <1>0, <1>2, n + 1 \in Nat, SameEnd
  <2>2. \A i : i \in DOMAIN subscriptions' <=> i \in DOMAIN subscriptions \/ i = n + 1
    BY <1>0, <1>2
  <2>3. n + 1 \notin DOMAIN subscriptions
    BY <1>0
  <2>4. ASSUME NEW i PROVE Marked(i)' <=> Marked(i)
    BY <1>2, <2>2, <2>3 DEF Marked
  <2>5. DOMAIN subscriptions \subseteq DOMAIN subscriptions'
    BY <2>2
  <2> QED
    BY <1>0, <2>1, <2>4, <2>5 DEF KeepsMarks
<1>3. ASSUME NEW t \in Task, ActivateCommit(t) PROVE KeepsMarks
  <2> DEFINE u == call[t].user
             end == call[t].at + call[t].days
             n == Len(subscriptions)
  <2>1. /\ u \in User /\ end \in Int
        /\ subscriptions' = Activated(subscriptions, u, end)
    BY <1>3, CallFields DEF ActivateCommit, TypeOK
  <2> HIDE DEF u, end
  <2>2. /\ DOMAIN subscriptions' = 1..n + 1
        /\ subscriptions'[n + 1] = NewRow(u, end, TRUE, "active")
        /\ \A i \in DOMAIN subscriptions :
              subscriptions'[i].reminded = subscriptions[i].reminded
    BY <1>0, <2>1, ActivatedTable
  <2>3. ~subscriptions'[n + 1].reminded
    BY <2>2 DEF NewRow
  <2> QED
    BY <1>0, <1>2, <2>2, <2>3, Zenon
<1>4. ASSUME NEW t \in Task, TrialCommit(t) PROVE KeepsMarks
  <2> DEFINE u == call[t].user
             end == call[t].at + TrialDays
             n == Len(subscriptions)
  <2>1. /\ u \in User /\ end \in Int
        /\ subscriptions' = TrialCreated(subscriptions, u, end)
    BY <1>4, CallFields DEF TrialCommit, TypeOK
  <2> HIDE DEF u, end
  <2>2. /\ DOMAIN subscriptions' = 1..n + 1
        /\ subscriptions'[n + 1] = NewRow(u, end, FALSE, "trial")
        /\ \A i \in DOMAIN subscriptions : subscriptions'[i] = subscriptions[i]
    BY <1>0, <2>1, TrialTable, Zenon
  <2>3. ~subscriptions'[n + 1].reminded
    BY <2>2 DEF NewRow
  <2> QED
    BY <1>0, <1>2, <2>2, <2>3, Zenon
<1>5. ASSUME DOMAIN subscriptions' = DOMAIN subscriptions,
             \A i \in DOMAIN subscriptions :
                subscriptions'[i].reminded = subscriptions[i].reminded
      PROVE  KeepsMarks
  <2>1. Len(subscriptions') = Len(subscriptions)
    BY <1>0, <1>5, SameEnd
  <2> QED
    BY <1>0, <1>5, <2>1 DEF KeepsMarks, Marked
<1>6. ASSUME NEW t \in Task, ExpireCommit(t) PROVE KeepsMarks
  <2>1. call[t].at \in Int /\ subscriptions' = Swept(subscriptions, call[t].at)
    BY <1>6, CallFields DEF ExpireCommit, TypeOK
  <2> QED
    BY <1>0, <1>5, <2>1, SweptTable
<1>7. ASSUME NEW u \in User, Cancel(u) PROVE KeepsMarks
  BY <1>0, <1>5, <1>7, CancelledTable DEF Cancel
<1> QED
  BY <1>1, <1>3, <1>4, <1>6, <1>7

(* No step but Mark marks a row. *)
LEMMA OnlyMarkMarks ==
    ASSUME TypeOK, TypeOK', [LoopNext]_allVars, ~Mark
    PROVE  KeepsMarks
<1> USE LoopAssumption DEF LoopAssumption
<1>1. CASE SweepDone
  BY <1>1, WritesKeepMarks DEF SweepDone
<1>2. CASE HandlerStep
  <2>1. \/ UNCHANGED subscriptions
        \/ \E t \in Task : ActivateCommit(t) \/ TrialCommit(t)
        \/ \E u \in User : Cancel(u)
    BY <1>2 DEF HandlerStep, Handlers, ActivateBegin, TrialBegin, Begin, Fail
  <2> QED
    BY <2>1, WritesKeepMarks
<1>3. CASE ~SweepDone /\ ~HandlerStep
  <2>1. UNCHANGED subscriptions
    BY <1>3 DEF LoopNext, Pass, SweepStart, ExpireBegin, Begin, SweepRaises, Fail,
       QueryStart, Query, QueryRaises, SendDelivered, SendRaises, SendUnconfirmed,
       MarkRaises, Wake, Die, Crash, Restart, DayEnds, DayLost, Tick, allVars, vars
  <2> QED
    BY <2>1, WritesKeepMarks
<1> QED
  BY <1>1, <1>2, <1>3

(* A mark is one row's, and changes no other. *)
LEMMA MarkEffect ==
    ASSUME TypeOK, TypeOK', NEW k \in DOMAIN subscriptions, MarkReminded(k)
    PROVE  /\ DOMAIN subscriptions' = DOMAIN subscriptions
           /\ Len(subscriptions') = Len(subscriptions)
           /\ \A i : Marked(i)' <=> Marked(i) \/ i = k
<1>1. /\ DOMAIN subscriptions = 1..Len(subscriptions)
      /\ \A i \in 1..Len(subscriptions) : subscriptions[i] \in Row
      /\ Len(subscriptions) \in Nat
      /\ DOMAIN subscriptions' = 1..Len(subscriptions')
      /\ Len(subscriptions') \in Nat
  BY LenProperties DEF TypeOK
<1>2. subscriptions'
        = [subscriptions EXCEPT ![k] = [subscriptions[k] EXCEPT !.reminded = TRUE]]
  BY DEF MarkReminded, Reminded
<1>3. DOMAIN subscriptions' = DOMAIN subscriptions
  BY <1>2
<1>4. Len(subscriptions') = Len(subscriptions)
  BY <1>1, <1>3, SameEnd
<1>5. [subscriptions[k] EXCEPT !.reminded = TRUE].reminded = TRUE
  BY <1>1 DEF Row
<1>6. \A i \in DOMAIN subscriptions :
        subscriptions'[i] = IF i = k THEN [subscriptions[k] EXCEPT !.reminded = TRUE]
                                     ELSE subscriptions[i]
  BY <1>2
<1> QED
  BY <1>3, <1>4, <1>5, <1>6 DEF Marked

-----------------------------------------------------------------------------
(* Room. *)

LEMMA RowsFitInductive == TypeOK /\ RowsFit /\ [Next]_vars => RowsFit'
<1> USE TasksAssumption, BoundsAssumption, DaysAssumption
        DEF TasksAssumption, BoundsAssumption, DaysAssumption
<1> SUFFICES ASSUME TypeOK, RowsFit, [Next]_vars PROVE RowsFit'
  OBVIOUS
<1>0. /\ subscriptions \in Seq(Row)
      /\ DOMAIN subscriptions = 1..Len(subscriptions)
      /\ Len(subscriptions) \in Nat
      /\ call \in [Task -> Call]
  BY LenProperties DEF TypeOK
<1>1. IsFiniteSet(Inserting) /\ Cardinality(Inserting) \in Nat
  <2>1. Inserting \in SUBSET Task
    BY DEF Inserting
  <2> QED
    BY <2>1, FS_Subset, FS_CardinalityType
<1>2. ASSUME Inserting' \subseteq Inserting, Len(subscriptions') = Len(subscriptions)
      PROVE  RowsFit'
  <2>1. IsFiniteSet(Inserting') /\ Cardinality(Inserting') <= Cardinality(Inserting)
    BY <1>1, <1>2, FS_Subset
  <2>2. Cardinality(Inserting') \in Nat
    BY <2>1, FS_CardinalityType
  <2> QED
    BY <1>0, <1>1, <1>2, <2>1, <2>2 DEF RowsFit
<1>3. ASSUME NEW t \in Task, Return(t) PROVE Inserting' = Inserting \ {t}
  BY <1>0, <1>3 DEF Return, Inserting, Idle
<1>4. ASSUME NEW t \in Task, NEW c, Begin(t, c), c.op \notin {"activate", "trial"}
      PROVE  Inserting' = Inserting
  BY <1>0, <1>4 DEF Begin, Inserting
<1>5. ASSUME NEW t \in Task, NEW c, Begin(t, c), Room
      PROVE  RowsFit'
  <2>1. Inserting' \subseteq Inserting \cup {t}
    BY <1>0, <1>5 DEF Begin, Inserting
  <2>2. /\ IsFiniteSet(Inserting \cup {t})
        /\ Cardinality(Inserting \cup {t}) <= Cardinality(Inserting) + 1
    BY <1>1, FS_AddElement
  <2>3. /\ IsFiniteSet(Inserting')
        /\ Cardinality(Inserting') <= Cardinality(Inserting \cup {t})
    BY <2>1, <2>2, FS_Subset
  <2>4. /\ Cardinality(Inserting') \in Nat
        /\ Cardinality(Inserting \cup {t}) \in Nat
    BY <2>2, <2>3, FS_CardinalityType
  <2>5. Len(subscriptions) + Cardinality(Inserting) < MaxRows
    BY <1>5 DEF Room, Inserting
  <2>6. subscriptions' = subscriptions
    BY <1>5 DEF Begin
  <2> QED
    BY <1>0, <1>1, <2>2, <2>3, <2>4, <2>5, <2>6 DEF RowsFit
<1>6. ASSUME NEW t \in Task, Return(t), t \in Inserting,
             DOMAIN subscriptions' = 1..Len(subscriptions) + 1,
             subscriptions' \in Seq(Row)
      PROVE  RowsFit'
  <2>1. Cardinality(Inserting') = Cardinality(Inserting) - 1
    BY <1>1, <1>3, <1>6, FS_RemoveElement
  <2>2. Len(subscriptions') = Len(subscriptions) + 1
    <3>1. Len(subscriptions') \in Nat /\ DOMAIN subscriptions' = 1..Len(subscriptions')
      BY <1>6, LenProperties
    <3> QED
      BY <1>0, <1>6, <3>1, Len(subscriptions) + 1 \in Nat, SameEnd
  <2> QED
    BY <1>0, <1>1, <2>1, <2>2 DEF RowsFit
<1>7. ASSUME DOMAIN subscriptions' = DOMAIN subscriptions, subscriptions' \in Seq(Row)
      PROVE  Len(subscriptions') = Len(subscriptions)
  <2>1. Len(subscriptions') \in Nat /\ DOMAIN subscriptions' = 1..Len(subscriptions')
    BY <1>7, LenProperties
  <2> QED
    BY <1>0, <1>7, <2>1, SameEnd
<1>8. CASE Tick
  BY <1>2, <1>8 DEF Tick, Inserting
<1>9. CASE Crash
  <2>1. Inserting' = {}
    BY <1>9 DEF Crash, Inserting, Idle
  <2> QED
    BY <1>2, <1>9, <2>1 DEF Crash
<1>10. ASSUME NEW t \in Task, NEW u \in User, NEW d \in Periods, ActivateBegin(t, u, d)
       PROVE  RowsFit'
  BY <1>5, <1>10 DEF ActivateBegin
<1>11. ASSUME NEW t \in Task, NEW u \in TrialUser, TrialBegin(t, u) PROVE RowsFit'
  BY <1>5, <1>11 DEF TrialBegin
<1>12. ASSUME NEW t \in Task, ActivateCommit(t) PROVE RowsFit'
  <2>1. /\ DOMAIN subscriptions' = 1..Len(subscriptions) + 1
        /\ subscriptions' \in Seq(Row)
    <3>1. call[t].user \in User /\ call[t].at + call[t].days \in Int
      BY <1>0, <1>12, CallFields DEF ActivateCommit
    <3>2. subscriptions' = Activated(subscriptions, call[t].user, call[t].at + call[t].days)
      BY <1>12 DEF ActivateCommit
    <3> QED
      BY <1>0, <3>1, <3>2, ActivatedTable, Zenon
  <2>2. t \in Inserting
    BY <1>12 DEF ActivateCommit, Inserting
  <2> QED
    BY <1>6, <1>12, <2>1, <2>2 DEF ActivateCommit
<1>13. ASSUME NEW t \in Task, TrialCommit(t) PROVE RowsFit'
  <2>1. call[t].user \in User /\ call[t].at + TrialDays \in Int
    BY <1>0, <1>13, CallFields DEF TrialCommit
  <2>2. /\ DOMAIN subscriptions' = 1..Len(subscriptions) + 1
        /\ subscriptions' \in Seq(Row)
    BY <1>0, <1>13, <2>1, TrialTable, Zenon DEF TrialCommit
  <2>3. t \in Inserting
    BY <1>13 DEF TrialCommit, Inserting
  <2> QED
    BY <1>6, <1>13, <2>2, <2>3 DEF TrialCommit
<1>14. ASSUME NEW t \in Task, ExpireBegin(t) PROVE RowsFit'
  <2>1. Inserting' = Inserting
    BY <1>4, <1>14 DEF ExpireBegin
  <2> QED
    BY <1>2, <1>14, <2>1 DEF ExpireBegin, Begin
<1>15. ASSUME NEW t \in Task, NEW u \in User, CheckBegin(t, u) PROVE RowsFit'
  <2>1. Inserting' = Inserting
    BY <1>4, <1>15 DEF CheckBegin
  <2> QED
    BY <1>2, <1>15, <2>1 DEF CheckBegin, Begin
<1>16. ASSUME NEW t \in Task, ExpireCommit(t) PROVE RowsFit'
  <2>1. call[t].at \in Int
    BY <1>0, <1>16, CallFields DEF ExpireCommit
  <2>2. DOMAIN subscriptions' = DOMAIN subscriptions /\ subscriptions' \in Seq(Row)
    BY <1>0, <1>16, <2>1, SweptTable DEF ExpireCommit
  <2> QED
    BY <1>2, <1>3, <1>7, <1>16, <2>2 DEF ExpireCommit
<1>17. ASSUME NEW t \in Task, CheckReturn(t) \/ Fail(t) PROVE RowsFit'
  BY <1>2, <1>3, <1>17 DEF CheckReturn, Fail
<1>18. ASSUME NEW u \in User, Cancel(u) PROVE RowsFit'
  <2>1. DOMAIN subscriptions' = DOMAIN subscriptions /\ subscriptions' \in Seq(Row)
    BY <1>0, <1>18, CancelledTable DEF Cancel
  <2> QED
    BY <1>2, <1>7, <1>18, <2>1 DEF Cancel, Inserting
<1>19. ASSUME NEW i \in DOMAIN subscriptions, MarkReminded(i) PROVE RowsFit'
  <2>1. DOMAIN subscriptions' = DOMAIN subscriptions /\ subscriptions' \in Seq(Row)
    BY <1>0, <1>19, RemindedTable DEF MarkReminded
  <2> QED
    BY <1>2, <1>7, <1>19, <2>1 DEF MarkReminded, Inserting
<1>20. CASE UNCHANGED vars
  BY <1>2, <1>20 DEF vars, Inserting
<1> QED
  BY <1>8, <1>9, <1>10, <1>11, <1>12, <1>13, <1>14, <1>15, <1>16, <1>17, <1>18,
     <1>19, <1>20 DEF Next

(* The rows of the table have a place in the counts. *)
LEMMA RowsHaveCounts ==
    ASSUME TypeOK, RowsFit
    PROVE  DOMAIN subscriptions \subseteq Ids
<1>1. IsFiniteSet(Inserting)
  <2>1. Inserting \in SUBSET Task
    BY DEF Inserting
  <2> QED
    BY <2>1, FS_Subset, TasksAssumption DEF TasksAssumption
<1>2. Cardinality(Inserting) \in Nat
  BY <1>1, FS_CardinalityType
<1>3. DOMAIN subscriptions = 1..Len(subscriptions) /\ Len(subscriptions) \in Nat
  BY LenProperties DEF TypeOK
<1> QED
  BY <1>2, <1>3, BoundsAssumption DEF BoundsAssumption, RowsFit, Ids

-----------------------------------------------------------------------------
(* The inductive invariant, part by part. *)

LEMMA BumpType ==
    ASSUME NEW count \in [Ids -> Nat], NEW i
    PROVE  /\ Bump(count, i) \in [Ids -> Nat]
           /\ \A j \in Ids : Bump(count, i)[j] = IF j = i THEN count[j] + 1 ELSE count[j]
<1>1. Bump(count, i) = [j \in Ids |-> IF j = i THEN count[j] + 1 ELSE count[j]]
  BY DEF Bump
<1>2. \A j \in Ids : (IF j = i THEN count[j] + 1 ELSE count[j]) \in Nat
  OBVIOUS
<1> QED
  BY <1>1, <1>2

(* A row dealt with leaves the snapshot, and the loop sends only while the  *)
(* snapshot lasts.                                                          *)
LEMMA NextRowEffect ==
    ASSUME NEW i, NextRow(i)
    PROVE  /\ queue' \subseteq queue
           /\ i \notin queue'
           /\ pc' \in {"asleep", "send"}
           /\ pc' = "send" => queue' # {}
BY DEF NextRow

LEMMA LoopTypeInductive == LoopTypeOK /\ [LoopNext]_allVars => LoopTypeOK'
<1> USE FaultsAssumption, BoundsAssumption
        DEF FaultsAssumption, BoundsAssumption, InPass
<1> SUFFICES ASSUME LoopTypeOK, [LoopNext]_allVars PROVE LoopTypeOK'
  OBVIOUS
<1>1. TypeOK /\ TypeOK'
  BY LoopStepIsStep, TypeInductive DEF LoopTypeOK
<1>2. /\ DOMAIN subscriptions \subseteq DOMAIN subscriptions'
      /\ Len(subscriptions) \in Nat /\ Len(subscriptions') \in Nat
      /\ Len(subscriptions) <= Len(subscriptions')
  <2>1. CASE Mark
    <3>1. current \in DOMAIN subscriptions /\ MarkReminded(current)
      BY <2>1 DEF Mark, LoopTypeOK
    <3>2. Len(subscriptions) \in Nat
      BY <1>1, LenProperties DEF TypeOK
    <3> QED
      BY <1>1, <3>1, <3>2, MarkEffect
  <2>2. CASE ~Mark
    BY <1>1, <2>2, OnlyMarkMarks DEF KeepsMarks
  <2> QED
    BY <2>1, <2>2
<1>3. /\ now \in 0..Horizon /\ now' \in 0..Horizon
      /\ queue \subseteq DOMAIN subscriptions'
      /\ InPass \/ pc \in {"start", "asleep", "down"}
      /\ pc \in {"send", "mark"} => queue # {}
      /\ pc = "mark" => current \in queue
      /\ lastPass \in 0..now
      /\ asked \in 0..now
      /\ faults \in 0..MaxFaults
      /\ asOf \in 0..Len(subscriptions')
      /\ delivered \in [Ids -> Nat]
      /\ mishaps \in [Ids -> Nat]
  BY <1>1, <1>2 DEF LoopTypeOK, TypeOK
<1>4. Fault => faults' \in 0..MaxFaults
  BY <1>3 DEF Fault
<1>5. CASE SweepStart
  BY <1>1, <1>3, <1>5 DEF SweepStart, ExpireBegin, Begin, LoopTypeOK
<1>6. CASE SweepDone
  BY <1>1, <1>3, <1>6 DEF SweepDone, ExpireCommit, LoopTypeOK
<1>7. CASE SweepRaises
  BY <1>1, <1>3, <1>4, <1>7 DEF SweepRaises, Fail, LoopTypeOK
<1>8. CASE Query
  <2>1. queue' \subseteq DOMAIN subscriptions'
    BY <1>2, <1>8 DEF Query, vars, Expiring
  <2> QED
    BY <1>1, <1>2, <1>3, <1>8, <2>1 DEF Query, vars, LoopTypeOK
<1>9. CASE QueryRaises
  BY <1>1, <1>3, <1>4, <1>9 DEF QueryRaises, vars, LoopTypeOK
<1>10. CASE SendDelivered
  <2>1. delivered' \in [Ids -> Nat] /\ current' \in queue
    BY <1>3, <1>10, BumpType DEF SendDelivered
  <2> QED
    BY <1>1, <1>3, <1>10, <2>1 DEF SendDelivered, vars, LoopTypeOK
<1>11. CASE SendRaises
  <2>1. PICK i \in queue : NextRow(i)
    BY <1>11 DEF SendRaises
  <2>2. faults' \in 0..MaxFaults
    BY <1>3, <1>4, <1>11 DEF SendRaises
  <2> QED
    BY <1>1, <1>3, <1>11, <2>1, <2>2, NextRowEffect DEF SendRaises, vars, LoopTypeOK
<1>12. CASE SendUnconfirmed
  <2>1. PICK i \in queue : /\ NextRow(i)
                           /\ delivered' = Bump(delivered, i)
                           /\ mishaps' = Bump(mishaps, i)
    BY <1>12 DEF SendUnconfirmed
  <2>2. delivered' \in [Ids -> Nat] /\ mishaps' \in [Ids -> Nat]
    BY <1>3, <2>1, BumpType
  <2> QED
    BY <1>1, <1>3, <1>4, <1>12, <2>1, <2>2, NextRowEffect
       DEF SendUnconfirmed, vars, LoopTypeOK
<1>13. CASE Mark
  BY <1>1, <1>3, <1>13, NextRowEffect DEF Mark, MarkReminded, LoopTypeOK
<1>14. CASE MarkRaises
  <2>1. mishaps' \in [Ids -> Nat]
    BY <1>3, <1>14, BumpType DEF MarkRaises
  <2> QED
    BY <1>1, <1>3, <1>4, <1>14, <2>1, NextRowEffect DEF MarkRaises, vars, LoopTypeOK
<1>15. CASE Wake \/ Restart
  BY <1>1, <1>3, <1>15 DEF Wake, Restart, vars, LoopTypeOK
<1>16. CASE Die
  <2>1. mishaps' \in [Ids -> Nat]
    BY <1>3, <1>16, BumpType DEF Die
  <2> QED
    BY <1>1, <1>3, <1>4, <1>16, <2>1 DEF Die, Crash, LoopTypeOK
<1>17. CASE DayEnds
  BY <1>1, <1>3, <1>17 DEF DayEnds, Tick, loopVars, LoopTypeOK
<1>18. CASE DayLost
  BY <1>1, <1>3, <1>4, <1>18 DEF DayLost, Tick, LoopTypeOK
<1>19. CASE HandlerStep
  <2>1. now' = now
    BY <1>19 DEF HandlerStep, ActivateBegin, ActivateCommit, TrialBegin, TrialCommit,
                 Begin, Fail, Cancel
  <2> QED
    BY <1>1, <1>3, <1>19, <2>1 DEF HandlerStep, loopVars, LoopTypeOK
<1>20. CASE UNCHANGED allVars
  BY <1>1, <1>3, <1>20 DEF allVars, loopVars, vars, LoopTypeOK
<1>21. CASE QueryStart
  BY <1>1, <1>3, <1>21 DEF QueryStart, vars, LoopTypeOK, TypeOK
<1> QED
  BY <1>5, <1>6, <1>7, <1>8, <1>9, <1>10, <1>11, <1>12, <1>13, <1>14, <1>15, <1>16,
     <1>17, <1>18, <1>19, <1>20, <1>21 DEF LoopNext, Pass

(* Only Mark marks a row, and the row leaves the snapshot with it. *)
LEMMA QueueInductive ==
    ASSUME LoopTypeOK, TypeOK', QueueIsUnmarked, [LoopNext]_allVars
    PROVE  QueueIsUnmarked'
<1>0. TypeOK
  BY DEF LoopTypeOK
<1>1. CASE Mark
  <2>1. current \in DOMAIN subscriptions /\ MarkReminded(current) /\ NextRow(current)
    BY <1>1 DEF Mark, LoopTypeOK
  <2>2. \A i : Marked(i)' <=> Marked(i) \/ i = current
    BY <1>0, <2>1, MarkEffect
  <2>3. \A i \in queue : ~Marked(i)
    BY <1>1 DEF Mark, QueueIsUnmarked
  <2>4. queue' \subseteq queue /\ current \notin queue'
    BY <2>1, NextRowEffect
  <2> QED
    BY <2>2, <2>3, <2>4 DEF QueueIsUnmarked
<1>2. CASE ~Mark
  <2>1. \A i : Marked(i)' <=> Marked(i)
    BY <1>0, <1>2, OnlyMarkMarks DEF KeepsMarks
  <2>2. CASE Query
    <3>1. \A i \in queue' : ~Marked(i)
      BY <2>2 DEF Query, Expiring, Marked
    <3> QED
      BY <2>1, <3>1 DEF QueueIsUnmarked
  <2>3. CASE SendDelivered
    BY <2>1, <2>3 DEF SendDelivered, QueueIsUnmarked
  <2>4. CASE SendRaises \/ SendUnconfirmed
    <3>1. PICK i \in queue : NextRow(i)
      BY <2>4 DEF SendRaises, SendUnconfirmed
    <3>2. queue' \subseteq queue /\ pc = "send"
      BY <2>4, <3>1, NextRowEffect DEF SendRaises, SendUnconfirmed
    <3> QED
      BY <2>1, <3>2 DEF QueueIsUnmarked
  <2>5. CASE MarkRaises
    <3>1. queue' \subseteq queue /\ pc = "mark"
      BY <2>5, NextRowEffect DEF MarkRaises
    <3> QED
      BY <2>1, <3>1 DEF QueueIsUnmarked
  <2>6. CASE UNCHANGED <<pc, queue>>
    BY <2>1, <2>6 DEF QueueIsUnmarked
  <2>7. CASE pc' \notin {"send", "mark"}
    BY <2>7 DEF QueueIsUnmarked
  <2>8. \/ Query \/ SendDelivered \/ SendRaises \/ SendUnconfirmed \/ MarkRaises
        \/ UNCHANGED <<pc, queue>>
        \/ pc' \notin {"send", "mark"}
    BY <1>2 DEF LoopNext, Pass, SweepStart, SweepDone, SweepRaises, QueryStart,
       QueryRaises, Wake, Die, Restart, DayEnds, DayLost, HandlerStep, loopVars,
       allVars
  <2> QED
    BY <2>2, <2>3, <2>4, <2>5, <2>6, <2>7, <2>8
<1> QED
  BY <1>1, <1>2

(* A message is counted when it is sent, a mark set or lost after that. *)
LEMMA CountsOnlyGrow ==
    ASSUME LoopTypeOK, [LoopNext]_allVars
    PROVE  \A i \in Ids : delivered[i] \in Nat /\ delivered[i] <= delivered'[i]
<1>0. delivered \in [Ids -> Nat]
  BY DEF LoopTypeOK
<1>1. ASSUME NEW i, delivered' = Bump(delivered, i)
      PROVE  \A j \in Ids : delivered[j] \in Nat /\ delivered[j] <= delivered'[j]
  BY <1>0, <1>1, BumpType
<1>2. CASE SendDelivered \/ SendUnconfirmed
  BY <1>1, <1>2 DEF SendDelivered, SendUnconfirmed
<1>3. CASE delivered' = delivered
  BY <1>0, <1>3
<1>4. SendDelivered \/ SendUnconfirmed \/ delivered' = delivered
  BY DEF LoopNext, Pass, SweepStart, SweepDone, SweepRaises, QueryStart, Query,
     QueryRaises, SendRaises, Mark, MarkRaises, Wake, Die, Restart, DayEnds, DayLost,
     HandlerStep, loopVars, allVars
<1> QED
  BY <1>2, <1>3, <1>4

(* Only SendDelivered leads to a mark. *)
LEMMA SentInductive ==
    ASSUME LoopTypeOK, RowsFit, SentFirst, [LoopNext]_allVars
    PROVE  SentFirst'
<1>0. TypeOK /\ delivered \in [Ids -> Nat]
  BY DEF LoopTypeOK
<1>1. CASE SendDelivered
  <2>1. PICK i \in queue : current' = i /\ delivered' = Bump(delivered, i)
    BY <1>1 DEF SendDelivered
  <2>2. i \in Ids
    BY <1>0, RowsHaveCounts DEF LoopTypeOK
  <2>3. delivered[i] \in Nat /\ delivered'[i] = delivered[i] + 1
    BY <1>0, <2>1, <2>2, BumpType
  <2> QED
    BY <2>1, <2>3 DEF SentFirst
<1>2. CASE UNCHANGED <<pc, current, delivered>>
  BY <1>2 DEF SentFirst
<1>3. CASE pc' # "mark"
  BY <1>3 DEF SentFirst
<1>4. SendDelivered \/ UNCHANGED <<pc, current, delivered>> \/ pc' # "mark"
  BY DEF LoopNext, Pass, SweepStart, SweepDone, SweepRaises, QueryStart, Query,
     QueryRaises, SendRaises, SendUnconfirmed, Mark, MarkRaises, NextRow, Wake, Die,
     Restart, DayEnds, DayLost, HandlerStep, loopVars, allVars
<1> QED
  BY <1>1, <1>2, <1>3, <1>4

(* The row marked has had its message, and no count ever shrinks. *)
LEMMA MarkedInductive ==
    ASSUME LoopTypeOK, TypeOK', RowsFit, RowsFit', SentFirst, MarkedWasDelivered,
           [LoopNext]_allVars
    PROVE  MarkedWasDelivered'
<1>0. TypeOK
  BY DEF LoopTypeOK
<1> SUFFICES ASSUME NEW i, Marked(i)' PROVE delivered'[i] > 0
  BY DEF MarkedWasDelivered, Marked
<1>1. Marked(i) \/ (Mark /\ i = current)
  <2>1. CASE Mark
    <3>1. current \in DOMAIN subscriptions /\ MarkReminded(current)
      BY <2>1 DEF Mark, LoopTypeOK
    <3> QED
      BY <1>0, <2>1, <3>1, MarkEffect
  <2>2. CASE ~Mark
    BY <1>0, <2>2, OnlyMarkMarks DEF KeepsMarks
  <2> QED
    BY <2>1, <2>2
<1>2. delivered[i] > 0
  BY <1>1 DEF Marked, MarkedWasDelivered, SentFirst, Mark
<1>3. i \in Ids
  <2>1. i \in DOMAIN subscriptions
    BY <1>0, <1>1 DEF Marked, LoopTypeOK, Mark
  <2> QED
    BY <1>0, <2>1, RowsHaveCounts
<1>4. delivered[i] \in Nat /\ delivered[i] <= delivered'[i]
  BY <1>3, CountsOnlyGrow
<1>5. delivered'[i] \in Nat
  <2>1. LoopTypeOK'
    BY LoopTypeInductive
  <2> QED
    BY <1>3, <2>1 DEF LoopTypeOK
<1> QED
  BY <1>2, <1>4, <1>5

(* A message sent is matched by its mark, set or to come, or by a mishap. *)
LEMMA CountsInductive ==
    ASSUME LoopTypeOK, TypeOK', RowsFit, QueueIsUnmarked, MessagesAreCounted,
           [LoopNext]_allVars
    PROVE  MessagesAreCounted'
<1> DEFINE Allowed(i) == Marked(i) \/ (pc = "mark" /\ current = i)
<1>0. /\ TypeOK
      /\ delivered \in [Ids -> Nat]
      /\ mishaps \in [Ids -> Nat]
      /\ queue \subseteq Ids
      /\ pc = "mark" => current \in queue
  BY RowsHaveCounts DEF LoopTypeOK
<1> SUFFICES ASSUME NEW j \in Ids
             PROVE  delivered'[j] <= IF Allowed(j)' THEN mishaps'[j] + 1 ELSE mishaps'[j]
  BY DEF MessagesAreCounted
<1>1. /\ delivered[j] \in Nat /\ mishaps[j] \in Nat
      /\ delivered[j] <= IF Allowed(j) THEN mishaps[j] + 1 ELSE mishaps[j]
  BY <1>0 DEF MessagesAreCounted
<1>2. CASE Mark
  <2>1. current \in DOMAIN subscriptions /\ MarkReminded(current)
    BY <1>2 DEF Mark, LoopTypeOK
  <2>2. Marked(j)' <=> Marked(j) \/ j = current
    BY <1>0, <2>1, MarkEffect
  <2>3. UNCHANGED <<delivered, mishaps>>
    BY <1>2 DEF Mark
  <2> QED
    BY <1>1, <2>2, <2>3
<1>3. CASE ~Mark
  <2>0. Marked(j)' <=> Marked(j)
    BY <1>0, <1>3, OnlyMarkMarks DEF KeepsMarks
  <2>1. CASE SendDelivered
    <3>1. PICK i \in queue : current' = i /\ delivered' = Bump(delivered, i)
      BY <2>1 DEF SendDelivered
    <3>2. delivered'[j] = IF j = i THEN delivered[j] + 1 ELSE delivered[j]
      BY <1>0, <3>1, BumpType
    <3>3. pc = "send" /\ pc' = "mark" /\ mishaps' = mishaps
      BY <2>1 DEF SendDelivered
    <3>4. ~Marked(i)
      BY <3>3 DEF QueueIsUnmarked
    <3> QED
      BY <1>1, <2>0, <3>1, <3>2, <3>3, <3>4
  <2>2. CASE SendUnconfirmed
    <3>1. PICK i \in queue : /\ delivered' = Bump(delivered, i)
                             /\ mishaps' = Bump(mishaps, i)
      BY <2>2 DEF SendUnconfirmed
    <3>2. /\ delivered'[j] = IF j = i THEN delivered[j] + 1 ELSE delivered[j]
          /\ mishaps'[j] = IF j = i THEN mishaps[j] + 1 ELSE mishaps[j]
      BY <1>0, <3>1, BumpType
    <3>3. pc = "send"
      BY <2>2 DEF SendUnconfirmed
    <3> QED
      BY <1>1, <2>0, <3>2, <3>3
  <2>3. CASE pc = "mark" /\ (MarkRaises \/ Die)
    <3>1. mishaps' = Bump(mishaps, current) /\ delivered' = delivered
      BY <2>3 DEF MarkRaises, Die
    <3>2. mishaps'[j] = IF j = current THEN mishaps[j] + 1 ELSE mishaps[j]
      BY <1>0, <3>1, BumpType
    <3> QED
      BY <1>1, <2>0, <3>1, <3>2
  <2>4. CASE pc # "mark" /\ UNCHANGED <<delivered, mishaps>>
    BY <1>1, <2>0, <2>4
  <2>5. CASE UNCHANGED <<pc, current, delivered, mishaps>>
    BY <1>1, <2>0, <2>5
  <2>6. \/ SendDelivered \/ SendUnconfirmed
        \/ pc = "mark" /\ (MarkRaises \/ Die)
        \/ pc # "mark" /\ UNCHANGED <<delivered, mishaps>>
        \/ UNCHANGED <<pc, current, delivered, mishaps>>
    BY <1>3 DEF LoopNext, Pass, SweepStart, SweepDone, SweepRaises, QueryStart, Query,
       QueryRaises, SendRaises, MarkRaises, Wake, Die, Restart, DayEnds, DayLost,
       HandlerStep, loopVars, allVars
  <2> QED
    BY <2>1, <2>2, <2>3, <2>4, <2>5, <2>6
<1> QED
  BY <1>2, <1>3

(* A snapshot is taken by the query, and only shrinks until the pass ends.  *)
LEMMA SnapshotSteps ==
    ASSUME LoopTypeOK, [LoopNext]_allVars
    PROVE  \/ Query
           \/ /\ pc \in {"send", "mark"}
              /\ queue' \subseteq queue /\ asOf' = asOf /\ lastPass' = lastPass
           \/ pc' \notin {"send", "mark"}
<1>1. ASSUME \E i \in queue : NextRow(i) PROVE queue' \subseteq queue
  BY <1>1, NextRowEffect
<1>2. CASE SendRaises \/ SendUnconfirmed
  BY <1>1, <1>2 DEF SendRaises, SendUnconfirmed
<1>3. CASE Mark \/ MarkRaises
  BY <1>1, <1>3 DEF Mark, MarkRaises, LoopTypeOK
<1>4. CASE SendDelivered
  BY <1>4 DEF SendDelivered
<1>5. CASE HandlerStep \/ DayEnds \/ UNCHANGED allVars
  BY <1>5 DEF HandlerStep, DayEnds, loopVars, allVars
<1>6. \/ Query \/ SendRaises \/ SendUnconfirmed \/ Mark \/ MarkRaises \/ SendDelivered
      \/ HandlerStep \/ DayEnds \/ UNCHANGED allVars
      \/ pc' \notin {"send", "mark"}
  BY DEF LoopNext, Pass, SweepStart, SweepDone, SweepRaises, QueryStart, QueryRaises,
     Wake, Die, Restart, DayLost
<1> QED
  BY <1>2, <1>3, <1>4, <1>5, <1>6

(* Rows bought after the snapshot are behind it; a row of the snapshot is   *)
(* active, so all older rows of its user had been closed.                   *)
LEMMA NewestInductive ==
    ASSUME SubscriptionsInv, LoopTypeOK, LoopTypeOK', NewestAtSnapshot,
           [LoopNext]_allVars
    PROVE  NewestAtSnapshot'
<1>0. TypeOK /\ CallsAreRecent /\ Supersession /\ [Next]_vars
  BY LoopStepIsStep DEF SubscriptionsInv
<1>1. /\ DOMAIN subscriptions = 1..Len(subscriptions)
      /\ DOMAIN subscriptions' = 1..Len(subscriptions')
      /\ Len(subscriptions) \in Nat /\ Len(subscriptions') \in Nat
      /\ asOf \in 0..Len(subscriptions)
  BY <1>0, LenProperties DEF TypeOK, LoopTypeOK
<1>2. CASE Query
  <2>1. \A i \in queue' : i \in DOMAIN subscriptions /\ subscriptions[i].status = "active"
    BY <1>2 DEF Query, Expiring
  <2>2. ASSUME NEW i \in queue', NEW j \in DOMAIN subscriptions,
               j > i, subscriptions[j].user = subscriptions[i].user
        PROVE  subscriptions[j].status # "active"
    <3>1. subscriptions[i].status = "active" /\ i \in DOMAIN subscriptions
      BY <2>1
    <3>2. subscriptions[j].status = "active" => subscriptions[i].status = "expired"
      BY <1>0, <1>1, <2>2, <3>1 DEF Supersession
    <3> QED
      BY <3>1, <3>2
  <2>3. subscriptions' = subscriptions
    BY <1>2 DEF Query, vars
  <2> QED
    BY <2>2, <2>3 DEF NewestAtSnapshot
<1>3. CASE pc \in {"send", "mark"} /\ queue' \subseteq queue /\ asOf' = asOf
  <2> SUFFICES ASSUME NEW i \in queue', NEW j \in DOMAIN subscriptions', j > i,
                      subscriptions'[j].user = subscriptions'[i].user,
                      subscriptions'[j].status = "active"
               PROVE  j > asOf
    BY <1>3 DEF NewestAtSnapshot
  <2>1. i \in DOMAIN subscriptions
    BY <1>3 DEF LoopTypeOK
  <2>2. CASE j \in DOMAIN subscriptions
    <3>1. /\ subscriptions[j].user = subscriptions[i].user
          /\ subscriptions[j].status = "active"
      BY <1>0, <2>1, <2>2, RowKept
    <3> QED
      BY <1>3, <2>2, <3>1 DEF NewestAtSnapshot
  <2>3. CASE j \notin DOMAIN subscriptions
    BY <1>1, <2>3
  <2> QED
    BY <2>2, <2>3
<1>4. CASE pc' \notin {"send", "mark"}
  BY <1>4 DEF NewestAtSnapshot
<1> QED
  BY <1>2, <1>3, <1>4, SnapshotSteps

-----------------------------------------------------------------------------
(* The theorems. *)

(* The inductive invariant holds of every reachable state. *)
THEOREM LoopInvariant == LoopSpec => []LoopInv
<1>1. LoopInit => LoopInv
  <2> SUFFICES ASSUME LoopInit PROVE LoopInv
    OBVIOUS
  <2>1. TypeOK
    BY EmptySeq, BoundsAssumption
       DEF BoundsAssumption, LoopInit, Init, TypeOK, Call, Idle
  <2>2. Len(subscriptions) = 0 /\ DOMAIN subscriptions = {}
    BY EmptySeq DEF LoopInit, Init
  <2>3. LoopTypeOK
    BY <2>1, <2>2, FaultsAssumption
       DEF FaultsAssumption, LoopInit, Init, LoopTypeOK, InPass
  <2>4. RowsFit
    <3>1. Inserting = {}
      BY DEF LoopInit, Init, Inserting, Idle
    <3> QED
      BY <2>2, <3>1, FS_EmptySet, BoundsAssumption DEF BoundsAssumption, RowsFit
  <2>5. /\ QueueIsUnmarked /\ SentFirst /\ MarkedWasDelivered /\ MessagesAreCounted
        /\ NewestAtSnapshot
    BY <2>2 DEF LoopInit, QueueIsUnmarked, SentFirst, MarkedWasDelivered,
                MessagesAreCounted, NewestAtSnapshot, Marked
  <2>6. SubscriptionsInv
    BY InitInv DEF LoopInit
  <2> QED
    BY <2>3, <2>4, <2>5, <2>6 DEF LoopInv
<1>2. LoopInv /\ [LoopNext]_allVars => LoopInv'
  <2> SUFFICES ASSUME LoopInv, [LoopNext]_allVars PROVE LoopInv'
    OBVIOUS
  <2> USE DEF LoopInv
  <2>1. LoopTypeOK' /\ TypeOK'
    BY LoopTypeInductive DEF LoopTypeOK
  <2>2. RowsFit'
    BY LoopStepIsStep, RowsFitInductive DEF LoopTypeOK
  <2>3. QueueIsUnmarked'
    BY <2>1, QueueInductive
  <2>4. SentFirst'
    BY SentInductive
  <2>5. MarkedWasDelivered'
    BY <2>1, <2>2, MarkedInductive
  <2>6. MessagesAreCounted'
    BY <2>1, CountsInductive
  <2>7. NewestAtSnapshot'
    BY <2>1, NewestInductive
  <2>8. SubscriptionsInv'
    BY LoopStepIsStep, StepInv
  <2> QED
    BY <2>1, <2>2, <2>3, <2>4, <2>5, <2>6, <2>7, <2>8
<1> QED
  BY <1>1, <1>2, PTL DEF LoopSpec

(* The loop's own state is well typed whatever fails and whenever the       *)
(* process dies: while it sends, its snapshot is of rows of the table.      *)
THEOREM LoopTypeCorrect == LoopSpec => []LoopTypeOK
<1>1. LoopInv => LoopTypeOK
  BY DEF LoopInv
<1> QED
  BY <1>1, LoopInvariant, PTL

(* The mark is set after the message has been sent, so no fault leaves a    *)
(* row marked whose user never got a reminder (send before mark, in one     *)
(* try).                                                                    *)
THEOREM MarkedWasDeliveredHolds == LoopSpec => []MarkedWasDelivered
<1>1. LoopInv => MarkedWasDelivered
  BY DEF LoopInv
<1> QED
  BY <1>1, LoopInvariant, PTL

(* With no fault a row is announced once, and with faults at most once more *)
(* than marks were lost for it, at any number of them.                      *)
THEOREM RepeatsNeedMishapHolds == LoopSpec => []RepeatsNeedMishap
<1>1. LoopInv => RepeatsNeedMishap
  <2> SUFFICES ASSUME LoopInv, NEW i \in Ids PROVE delivered[i] <= mishaps[i] + 1
    BY DEF RepeatsNeedMishap
  <2>1. delivered[i] \in Nat /\ mishaps[i] \in Nat
    BY DEF LoopInv, LoopTypeOK
  <2>2. \/ delivered[i] <= mishaps[i] + 1
        \/ delivered[i] <= mishaps[i]
    BY DEF LoopInv, MessagesAreCounted
  <2> QED
    BY <2>1, <2>2
<1> QED
  BY <1>1, LoopInvariant, PTL

(* A mark is lost to a fault. *)
LEMMA MishapsAreFaults ==
    ASSUME LoopTypeOK, \A i \in Ids : mishaps[i] <= faults, [LoopNext]_allVars
    PROVE  \A i \in Ids : mishaps'[i] <= faults'
<1>0. /\ mishaps \in [Ids -> Nat]
      /\ faults \in Nat /\ (Fault => faults' = faults + 1)
  BY FaultsAssumption DEF FaultsAssumption, LoopTypeOK, Fault
<1>1. ASSUME NEW k, mishaps' = Bump(mishaps, k), Fault
      PROVE  \A i \in Ids : mishaps'[i] <= faults'
  BY <1>0, <1>1, BumpType
<1>2. CASE mishaps' = mishaps /\ (Fault \/ faults' = faults)
  BY <1>0, <1>2
<1>3. \/ mishaps' = mishaps /\ (Fault \/ faults' = faults)
      \/ Fault /\ \E k : mishaps' = Bump(mishaps, k)
  <2>1. CASE SendUnconfirmed
    BY <2>1 DEF SendUnconfirmed
  <2>2. CASE MarkRaises
    BY <2>2 DEF MarkRaises
  <2>3. CASE Die
    BY <2>3 DEF Die
  <2>4. CASE ~(SendUnconfirmed \/ MarkRaises \/ Die)
    BY <2>4 DEF LoopNext, Pass, SweepStart, SweepDone, SweepRaises, QueryStart, Query,
       QueryRaises, SendDelivered, SendRaises, Mark, Wake, Restart, DayEnds, DayLost,
       HandlerStep, loopVars, allVars
  <2> QED
    BY <2>1, <2>2, <2>3, <2>4
<1> QED
  BY <1>1, <1>2, <1>3

(* As long as nothing fails, the comment of the loop is right: "Remind      *)
(* expiring (once per subscription)", however many passes a day has and     *)
(* whatever the handlers do meanwhile.                                      *)
THEOREM OnceWithoutFaults == LoopSpec => [](faults = 0 => OncePerSubscription)
<1> DEFINE I == \A i \in Ids : mishaps[i] <= faults
<1>1. LoopInit => I
  BY DEF LoopInit
<1>2. I /\ LoopInv /\ [LoopNext]_allVars => I'
  BY MishapsAreFaults DEF LoopInv
<1>3. ASSUME I, LoopInv, faults = 0 PROVE OncePerSubscription
  <2> SUFFICES ASSUME NEW i \in Ids PROVE delivered[i] <= 1
    BY DEF OncePerSubscription
  <2>1. delivered[i] \in Nat /\ mishaps[i] \in Nat
    BY <1>3 DEF LoopInv, LoopTypeOK
  <2>2. delivered[i] <= mishaps[i] + 1 \/ delivered[i] <= mishaps[i]
    BY <1>3 DEF LoopInv, MessagesAreCounted
  <2> QED
    BY <1>3, <2>1, <2>2
<1> QED
  BY <1>1, <1>2, <1>3, LoopInvariant, PTL DEF LoopSpec

(* A message goes out for a row of the snapshot only. *)
LEMMA OnlyQueueIsSent ==
    ASSUME LoopTypeOK, [LoopNext]_allVars, NEW i \in Ids, Delivers(i)
    PROVE  pc = "send" /\ i \in queue
<1>0. delivered \in [Ids -> Nat]
  BY DEF LoopTypeOK
<1>1. CASE SendDelivered \/ SendUnconfirmed
  <2>1. PICK k \in queue : delivered' = Bump(delivered, k)
    BY <1>1 DEF SendDelivered, SendUnconfirmed
  <2>2. delivered'[i] = IF i = k THEN delivered[i] + 1 ELSE delivered[i]
    BY <1>0, <2>1, BumpType
  <2>3. i = k
    BY <1>0, <2>2 DEF Delivers
  <2> QED
    BY <1>1, <2>3 DEF SendDelivered, SendUnconfirmed
<1>2. CASE delivered' = delivered
  BY <1>0, <1>2 DEF Delivers
<1>3. SendDelivered \/ SendUnconfirmed \/ delivered' = delivered
  BY DEF LoopNext, Pass, SweepStart, SweepDone, SweepRaises, QueryStart, Query,
     QueryRaises, SendRaises, Mark, MarkRaises, Wake, Die, Restart, DayEnds, DayLost,
     HandlerStep, loopVars, allVars
<1> QED
  BY <1>1, <1>2, <1>3

(* However long a pass takes and whatever is bought meanwhile, a reminder   *)
(* is about a replaced subscription only if the replacement came after the  *)
(* snapshot of this pass.                                                   *)
THEOREM StaleOnlyWithinPassHolds == LoopSpec => StaleOnlyWithinPass
<1>1. ASSUME LoopInv, [LoopNext]_allVars,
             NEW i \in DOMAIN subscriptions, Delivers(i),
             NEW j \in DOMAIN subscriptions, j > i,
             subscriptions[j].user = subscriptions[i].user,
             subscriptions[j].status = "active"
      PROVE  j > asOf
  <2>1. i \in Ids
    BY <1>1, RowsHaveCounts DEF LoopInv, LoopTypeOK
  <2>2. pc = "send" /\ i \in queue
    BY <1>1, <2>1, OnlyQueueIsSent DEF LoopInv
  <2> QED
    BY <1>1, <2>2 DEF LoopInv, NewestAtSnapshot
<1>2. LoopInv /\ [LoopNext]_allVars =>
        [\A i \in DOMAIN subscriptions :
            Delivers(i) =>
               \A j \in DOMAIN subscriptions :
                  /\ j > i
                  /\ subscriptions[j].user = subscriptions[i].user
                  /\ subscriptions[j].status = "active"
                  => j > asOf]_allVars
  BY <1>1
<1> QED
  BY <1>2, LoopInvariant, PTL DEF LoopSpec, StaleOnlyWithinPass

-----------------------------------------------------------------------------
(* When reminders go out. *)

(* No operation takes longer than what it sells lasts. *)
PlansOutlastLag == \A d \in Periods : MaxLag <= d

(* ... and every plan is sold before its reminder is due. *)
PlansOutlastWindow == \A d \in Periods : DaysAhead + MaxLag < d

(* ... and a pass sees no more than one midnight. *)
PassesAreShort == MaxPass <= 1

(* A sweep under way goes by the clock its pass began with, a query by one  *)
(* read no earlier.                                                         *)
ClocksAreOrdered ==
    /\ pc = "sweeping" => call[Loop].at = lastPass
    /\ pc = "query" => lastPass <= asked

(* After the sweep and until the pass is over, no active row was past its   *)
(* end date when the pass began, ...                                        *)
SweptIsOpen ==
    pc \in {"swept", "query", "send", "mark"} =>
        \A i \in DOMAIN subscriptions :
            subscriptions[i].status = "active" => lastPass <= subscriptions[i].endAt

(* ... and nor was any of the snapshot, active still or not, and all of it  *)
(* ends within days_ahead.                                                  *)
QueueIsTimely ==
    pc \in {"send", "mark"} =>
        \A i \in queue : /\ lastPass <= subscriptions[i].endAt
                         /\ subscriptions[i].endAt <= now + DaysAhead

TimelyInv == ClocksAreOrdered /\ SweptIsOpen /\ QueueIsTimely

(* A row whose user waits for a reminder that can arrive. *)
Unannounced(i) ==
    /\ subscriptions[i].user \notin TrialUser \cup Blocked
    /\ delivered[i] = 0

(* The loop has been at row i in the pass begun last, or will not be. *)
PassedOver(i) ==
    \/ pc = "asleep"
    \/ pc \in {"send", "mark"} /\ i \notin queue

(* The day the loop has got to: the one its pass began on, whatever day it  *)
(* is by then, or today when its next step is to begin one.                 *)
LoopDay == IF pc \in {"start", "down"} THEN now ELSE lastPass

(* A running loop is at most a day behind the calendar. *)
DayByDay == pc \notin {"start", "down"} => now <= lastPass + 1

(* Every day of its window on which a pass should have announced an active  *)
(* row and did not has cost a fault.                                        *)
DaysCostFaults ==
    \A i \in DOMAIN subscriptions :
        LET late == LoopDay - (subscriptions[i].endAt - DaysAhead) IN
        subscriptions[i].status = "active" /\ Unannounced(i) =>
            /\ late <= faults
            /\ PassedOver(i) => late < faults

(* A row in grace has spent its whole window. *)
GraceCostWindow ==
    \A i \in DOMAIN subscriptions :
        subscriptions[i].status = "grace" /\ Unannounced(i) => DaysAhead < faults

(* Trials are of trial users. *)
TrialsAreGiven ==
    \A i \in DOMAIN subscriptions :
        subscriptions[i].status = "trial" => subscriptions[i].user \in TrialUser

AnnouncedInv ==
    /\ TrialsAreGiven
    /\ ClocksAreOrdered
    /\ DayByDay
    /\ DaysCostFaults
    /\ GraceCostWindow

(* The calendar: a day ends when the loop sleeps after a pass begun on it,  *)
(* during a pass, or while the process is down at the price of a fault.     *)
LEMMA DaySteps ==
    ASSUME [LoopNext]_allVars
    PROVE  \/ now' = now
           \/ /\ now' = now + 1 /\ UNCHANGED loopVars
              /\ \/ pc = "asleep" /\ lastPass = now
                 \/ InPass /\ now - lastPass < MaxPass
           \/ now' = now + 1 /\ pc = "down" /\ pc' = "down" /\ Fault
<1>1. CASE HandlerStep \/ UNCHANGED allVars
  BY <1>1 DEF HandlerStep, ActivateBegin, ActivateCommit, TrialBegin, TrialCommit,
              Begin, Fail, Cancel, allVars, vars
<1>2. CASE DayEnds \/ DayLost
  BY <1>2 DEF DayEnds, DayLost, Tick
<1>3. \/ HandlerStep \/ UNCHANGED allVars \/ DayEnds \/ DayLost
      \/ now' = now
  BY DEF LoopNext, Pass, SweepStart, ExpireBegin, Begin, SweepDone, ExpireCommit,
     SweepRaises, Fail, QueryStart, Query, QueryRaises, SendDelivered, SendRaises,
     SendUnconfirmed, Mark, MarkReminded, MarkRaises, Wake, Die, Crash, Restart, vars
<1> QED
  BY <1>1, <1>2, <1>3

(* The day the last pass began changes only with a new pass. *)
LEMMA PassSteps ==
    ASSUME [LoopNext]_allVars
    PROVE  lastPass' = lastPass \/ SweepStart
BY DEF LoopNext, Pass, SweepDone, SweepRaises, QueryStart, Query, QueryRaises,
   SendDelivered, SendRaises, SendUnconfirmed, Mark, MarkRaises, Wake, Die, Restart,
   DayEnds, DayLost, HandlerStep, loopVars, allVars

(* The clock of the loop's own call stays what it was read as. *)
LEMMA ClocksInductive ==
    ASSUME LoopTypeOK, ClocksAreOrdered, [LoopNext]_allVars
    PROVE  ClocksAreOrdered'
<1> USE LoopAssumption DEF LoopAssumption
<1>0. call \in [Task -> Call] /\ lastPass \in 0..now
  BY DEF LoopTypeOK, TypeOK
<1>1. CASE SweepStart
  BY <1>0, <1>1 DEF SweepStart, ExpireBegin, Begin, ClocksAreOrdered
<1>2. CASE QueryStart
  BY <1>0, <1>2 DEF QueryStart, ClocksAreOrdered
<1>3. CASE HandlerStep
  <2>1. UNCHANGED <<pc, lastPass, asked>>
    BY <1>3 DEF HandlerStep, loopVars
  <2>2. call'[Loop] = call[Loop]
    BY <1>0, <1>3 DEF HandlerStep, Handlers, ActivateBegin, ActivateCommit, TrialBegin,
                      TrialCommit, Begin, Return, Fail, Cancel
  <2> QED
    BY <2>1, <2>2 DEF ClocksAreOrdered
<1>4. CASE UNCHANGED <<pc, lastPass, asked, call>>
  BY <1>4 DEF ClocksAreOrdered
<1>5. CASE pc' \notin {"sweeping", "query"}
  BY <1>5 DEF ClocksAreOrdered
<1>6. \/ SweepStart \/ QueryStart \/ HandlerStep
      \/ UNCHANGED <<pc, lastPass, asked, call>>
      \/ pc' \notin {"sweeping", "query"}
  BY DEF LoopNext, Pass, SweepDone, SweepRaises, Query, QueryRaises, SendDelivered,
     SendRaises, SendUnconfirmed, Mark, MarkRaises, NextRow, Wake, Die, Restart,
     DayEnds, DayLost, Tick, loopVars, allVars, vars
<1> QED
  BY <1>1, <1>2, <1>3, <1>4, <1>5, <1>6

(* What is bought on a day ends no earlier. *)
LEMMA BoughtEndsLater ==
    ASSUME TypeOK, CallsAreRecent, [Next]_vars, NEW k \in Nat,
           \A d \in Periods : k + MaxLag <= d,
           NEW i \in DOMAIN subscriptions', i \notin DOMAIN subscriptions,
           subscriptions'[i].status = "active"
    PROVE  now' = now /\ now + k <= subscriptions'[i].endAt
<1>1. PICK t \in Task : /\ ActivateCommit(t)
                        /\ subscriptions'[i].endAt = call[t].at + call[t].days
  BY RowNew
<1>2. /\ call[t].at \in Int /\ call[t].days \in Periods
      /\ now - call[t].at <= MaxLag
  BY <1>1, CallFields DEF ActivateCommit, CallsAreRecent, TypeOK
<1>3. call[t].days \in Nat /\ k + MaxLag <= call[t].days
  <2>1. \A d \in Periods : d \in Nat
    BY PeriodsAssumption DEF PeriodsAssumption
  <2> QED
    BY <1>2, <2>1, Zenon
<1>4. now \in Int /\ MaxLag \in Nat
  BY TableTypes, DaysAssumption DEF DaysAssumption
<1>5. now' = now
  BY RowNew
<1> QED
  BY <1>1, <1>2, <1>3, <1>4, <1>5

(* End dates are days. *)
LEMMA EndDatesAreDays ==
    ASSUME TypeOK, [Next]_vars
    PROVE  \A i \in DOMAIN subscriptions' : subscriptions'[i].endAt \in Int
<1>1. TypeOK'
  BY TypeInductive
<1>2. \A i \in DOMAIN subscriptions' : subscriptions'[i] \in Row
  BY <1>1, LenProperties DEF TypeOK
<1> QED
  BY <1>2 DEF Row

LEMMA SweptInductive ==
    ASSUME PlansOutlastLag, SubscriptionsInv, LoopTypeOK, TimelyInv, [LoopNext]_allVars
    PROVE  SweptIsOpen'
<1>0. /\ TypeOK /\ CallsAreRecent /\ [Next]_vars
      /\ now \in Int /\ lastPass \in Int /\ lastPass <= now
      /\ \A i \in DOMAIN subscriptions : subscriptions[i].endAt \in Int
  BY LoopStepIsStep, TableTypes DEF SubscriptionsInv, LoopTypeOK
<1>1. CASE SweepDone
  <2>1. ExpireCommit(Loop) /\ call[Loop].at = lastPass /\ lastPass' = lastPass
    BY <1>1 DEF SweepDone, TimelyInv, ClocksAreOrdered
  <2>2. /\ DOMAIN subscriptions' = DOMAIN subscriptions
        /\ \A i \in DOMAIN subscriptions :
              /\ subscriptions'[i].status = StatusAfterSweep(subscriptions[i], lastPass)
              /\ subscriptions'[i].endAt = subscriptions[i].endAt
    BY <1>0, <2>1, LoopAssumption, ExpireEffect DEF LoopAssumption
  <2>3. ASSUME NEW i \in DOMAIN subscriptions, subscriptions'[i].status = "active"
        PROVE  lastPass <= subscriptions[i].endAt
    <3>1. StatusAfterSweep(subscriptions[i], lastPass) = "active"
      BY <2>2, <2>3
    <3>2. /\ subscriptions[i].status = "active"
          /\ ~( /\ subscriptions[i].endAt < lastPass
                /\ subscriptions[i].endAt > lastPass - GraceDays)
          /\ ~(subscriptions[i].endAt <= lastPass - GraceDays)
      BY <3>1 DEF StatusAfterSweep, Open
    <3> QED
      BY <1>0, <3>2, DaysAssumption DEF DaysAssumption
  <2> QED
    BY <2>1, <2>2, <2>3 DEF SweptIsOpen
<1>2. CASE pc \in {"swept", "query", "send", "mark"} /\ lastPass' = lastPass
  <2> SUFFICES ASSUME NEW i \in DOMAIN subscriptions', subscriptions'[i].status = "active"
               PROVE  lastPass <= subscriptions'[i].endAt
    BY <1>2 DEF SweptIsOpen
  <2>1. CASE i \in DOMAIN subscriptions
    <3>1. /\ subscriptions[i].status = "active"
          /\ subscriptions'[i].endAt = subscriptions[i].endAt
      BY <1>0, <2>1, RowKept
    <3> QED
      BY <1>2, <2>1, <3>1 DEF TimelyInv, SweptIsOpen
  <2>2. CASE i \notin DOMAIN subscriptions
    <3>1. \A d \in Periods : 0 + MaxLag <= d
      BY DaysAssumption DEF PlansOutlastLag, DaysAssumption
    <3>2. now + 0 <= subscriptions'[i].endAt
      BY <1>0, <2>2, <3>1, 0 \in Nat, BoughtEndsLater
    <3>3. subscriptions'[i].endAt \in Int
      BY <1>0, EndDatesAreDays
    <3> QED
      BY <1>0, <3>2, <3>3
  <2> QED
    BY <2>1, <2>2
<1>3. CASE pc' \notin {"swept", "query", "send", "mark"}
  BY <1>3 DEF SweptIsOpen
<1>4. \/ SweepDone
      \/ pc \in {"swept", "query", "send", "mark"} /\ lastPass' = lastPass
      \/ pc' \notin {"swept", "query", "send", "mark"}
  BY DEF LoopNext, Pass, SweepStart, SweepRaises, QueryStart, Query, QueryRaises,
     SendDelivered, SendRaises, SendUnconfirmed, Mark, MarkRaises, Wake, Die, Restart,
     DayEnds, DayLost, HandlerStep, loopVars, allVars
<1> QED
  BY <1>1, <1>2, <1>3, <1>4

LEMMA QueueTimelyInductive ==
    ASSUME SubscriptionsInv, LoopTypeOK, TimelyInv, [LoopNext]_allVars
    PROVE  QueueIsTimely'
<1>0. /\ TypeOK /\ CallsAreRecent /\ [Next]_vars
      /\ now \in Int /\ now' \in Int /\ now <= now' /\ DaysAhead \in Int
      /\ asked \in 0..now
      /\ \A i \in DOMAIN subscriptions : subscriptions[i].endAt \in Int
  <2>1. now \in Int /\ (now' = now \/ now' = now + 1)
    BY TableTypes, DaySteps DEF SubscriptionsInv
  <2> QED
    BY <2>1, LoopStepIsStep, TableTypes, DaysAssumption
       DEF DaysAssumption, SubscriptionsInv, LoopTypeOK
<1>1. CASE Query
  <2>1. \A i \in queue' : /\ i \in DOMAIN subscriptions
                          /\ subscriptions[i].status = "active"
                          /\ subscriptions[i].endAt <= asked + DaysAhead
    BY <1>1 DEF Query, Expiring
  <2>2. \A i \in queue' : lastPass <= subscriptions[i].endAt
    BY <1>1, <2>1 DEF Query, TimelyInv, SweptIsOpen
  <2>3. subscriptions' = subscriptions /\ now' = now /\ lastPass' = lastPass
    BY <1>1 DEF Query, vars
  <2>4. \A i \in queue' : subscriptions[i].endAt <= now + DaysAhead
    BY <1>0, <2>1
  <2> QED
    BY <2>2, <2>3, <2>4 DEF QueueIsTimely
<1>2. CASE pc \in {"send", "mark"} /\ queue' \subseteq queue /\ lastPass' = lastPass
  <2>1. \A i \in queue : /\ lastPass <= subscriptions[i].endAt
                         /\ subscriptions[i].endAt <= now + DaysAhead
                         /\ i \in DOMAIN subscriptions
    BY <1>2 DEF TimelyInv, QueueIsTimely, LoopTypeOK
  <2>2. \A i \in queue : subscriptions'[i].endAt = subscriptions[i].endAt
    BY <1>0, <2>1, RowKept
  <2>3. \A i \in queue : subscriptions[i].endAt <= now' + DaysAhead
    BY <1>0, <2>1
  <2> QED
    BY <1>2, <2>1, <2>2, <2>3 DEF QueueIsTimely
<1>3. CASE pc' \notin {"send", "mark"}
  BY <1>3 DEF QueueIsTimely
<1> QED
  BY <1>1, <1>2, <1>3, SnapshotSteps

(* A reminder announces an end date that had not passed when its pass began *)
(* and is no further than days_ahead away, whatever fails, whatever is      *)
(* bought and however many days end during a pass, as long as no plan is    *)
(* shorter than the time its purchase takes.                                *)
THEOREM RemindersAreTimelyHolds ==
    ASSUME PlansOutlastLag
    PROVE  LoopSpec => RemindersAreTimely
<1>1. LoopInit => TimelyInv
  BY DEF LoopInit, TimelyInv, ClocksAreOrdered, SweptIsOpen, QueueIsTimely
<1>2. TimelyInv /\ LoopInv /\ [LoopNext]_allVars => TimelyInv'
  BY ClocksInductive, SweptInductive, QueueTimelyInductive DEF TimelyInv, LoopInv
<1>3. LoopSpec => []TimelyInv
  BY <1>1, <1>2, LoopInvariant, PTL DEF LoopSpec
<1>4. TimelyInv /\ LoopInv /\ [LoopNext]_allVars =>
        [\A i \in DOMAIN subscriptions :
            Delivers(i) => /\ lastPass <= subscriptions[i].endAt
                           /\ subscriptions[i].endAt <= now + DaysAhead]_allVars
  <2> SUFFICES ASSUME TimelyInv, LoopInv, [LoopNext]_allVars,
                      NEW i \in DOMAIN subscriptions, Delivers(i)
               PROVE  /\ lastPass <= subscriptions[i].endAt
                      /\ subscriptions[i].endAt <= now + DaysAhead
    OBVIOUS
  <2>1. i \in Ids
    BY RowsHaveCounts DEF LoopInv, LoopTypeOK
  <2>2. pc = "send" /\ i \in queue
    BY <2>1, OnlyQueueIsSent DEF LoopInv
  <2> QED
    BY <2>2 DEF TimelyInv, QueueIsTimely
<1> QED
  BY <1>3, <1>4, LoopInvariant, PTL DEF LoopSpec, RemindersAreTimely

-----------------------------------------------------------------------------
(* Why no lapse comes as a surprise. *)

LEMMA FaultSteps ==
    ASSUME LoopTypeOK, [LoopNext]_allVars
    PROVE  faults \in Nat /\ (faults' = faults \/ faults' = faults + 1)
<1>1. faults \in Nat
  BY FaultsAssumption DEF FaultsAssumption, LoopTypeOK
<1>2. faults' = faults \/ Fault
  BY DEF LoopNext, Pass, SweepStart, SweepDone, SweepRaises, QueryStart, Query,
     QueryRaises, SendDelivered, SendRaises, SendUnconfirmed, Mark, MarkRaises, Wake,
     Die, Restart, DayEnds, DayLost, HandlerStep, loopVars, allVars
<1> QED
  BY <1>1, <1>2 DEF Fault

(* A row that is not announced after a step was not so before it. *)
LEMMA UnannouncedBefore ==
    ASSUME TypeOK, CallsAreRecent, RowsFit, LoopTypeOK, [LoopNext]_allVars,
           NEW i \in DOMAIN subscriptions, Unannounced(i)'
    PROVE  Unannounced(i)
<1>1. subscriptions'[i].user = subscriptions[i].user
  BY LoopStepIsStep, RowKept
<1>2. i \in Ids
  BY RowsHaveCounts
<1>3. delivered[i] \in Nat /\ delivered[i] <= delivered'[i]
  BY <1>2, CountsOnlyGrow
<1> QED
  BY <1>1, <1>3 DEF Unannounced

LEMMA TrialsInductive ==
    ASSUME TypeOK, CallsAreRecent, TrialsAreGiven, [Next]_vars
    PROVE  TrialsAreGiven'
<1> SUFFICES ASSUME NEW i \in DOMAIN subscriptions', subscriptions'[i].status = "trial"
             PROVE  subscriptions'[i].user \in TrialUser
  BY DEF TrialsAreGiven
<1>1. CASE i \in DOMAIN subscriptions
  BY <1>1, RowKept DEF TrialsAreGiven
<1>2. CASE i \notin DOMAIN subscriptions
  BY <1>2, RowNew DEF CallsAreRecent, TrialCommit
<1> QED
  BY <1>1, <1>2

(* Only the sweep of a pass begun after its end date puts a row in grace. *)
LEMMA GraceComes ==
    ASSUME LoopInv, ClocksAreOrdered, [LoopNext]_allVars,
           NEW i \in DOMAIN subscriptions', subscriptions'[i].status = "grace"
    PROVE  /\ i \in DOMAIN subscriptions
           /\ \/ subscriptions[i].status = "grace"
              \/ /\ subscriptions[i].status \in {"active", "trial"}
                 /\ pc = "sweeping" /\ subscriptions[i].endAt < lastPass
<1>0. TypeOK /\ CallsAreRecent /\ LoopTypeOK /\ [Next]_vars
  BY LoopStepIsStep DEF LoopInv, SubscriptionsInv
<1>1. i \in DOMAIN subscriptions
  BY <1>0, RowNew
<1>2. CASE subscriptions' = subscriptions
  BY <1>1, <1>2
<1>3. CASE \E t \in Task : ActivateCommit(t)
  BY <1>0, <1>1, <1>3, ActivateEffect
<1>4. CASE \E t \in Task : TrialCommit(t)
  BY <1>0, <1>1, <1>4, TrialEffect
<1>5. CASE SweepDone
  <2>1. Loop \in Task /\ ExpireCommit(Loop) /\ pc = "sweeping" /\ call[Loop].at = lastPass
    BY <1>5, LoopAssumption DEF LoopAssumption, SweepDone, ClocksAreOrdered
  <2>2. subscriptions'[i].status = StatusAfterSweep(subscriptions[i], lastPass)
    BY <1>0, <1>1, <2>1, ExpireEffect
  <2>3. \/ subscriptions[i].status = "grace"
        \/ /\ subscriptions[i].status \in {"active", "trial"}
           /\ subscriptions[i].endAt < lastPass
    BY <2>2 DEF StatusAfterSweep
  <2> QED
    BY <1>1, <2>1, <2>3
<1>6. CASE \/ \E u \in User : Cancel(u)
           \/ \E k \in DOMAIN subscriptions : MarkReminded(k)
  BY <1>0, <1>1, <1>6, FlagEffect
<1>7. \/ subscriptions' = subscriptions
      \/ \E t \in Task : ActivateCommit(t)
      \/ \E t \in Task : TrialCommit(t)
      \/ SweepDone
      \/ \E u \in User : Cancel(u)
      \/ \E k \in DOMAIN subscriptions : MarkReminded(k)
  <2>1. CASE HandlerStep
    BY <2>1 DEF HandlerStep, Handlers, ActivateBegin, TrialBegin, Begin, Fail
  <2>2. CASE Mark
    BY <1>0, <2>2 DEF Mark, LoopTypeOK
  <2>3. CASE ~HandlerStep /\ ~Mark /\ ~SweepDone
    BY <2>3 DEF LoopNext, Pass, SweepStart, ExpireBegin, Begin, SweepRaises, Fail,
       QueryStart, Query, QueryRaises, SendDelivered, SendRaises, SendUnconfirmed,
       MarkRaises, Wake, Die, Crash, Restart, DayEnds, DayLost, Tick, allVars, vars
  <2> QED
    BY <2>1, <2>2, <2>3
<1> QED
  BY <1>2, <1>3, <1>4, <1>5, <1>6, <1>7

LEMMA GraceInductive ==
    ASSUME LoopInv, AnnouncedInv, [LoopNext]_allVars
    PROVE  GraceCostWindow'
<1>0. /\ TypeOK /\ CallsAreRecent /\ RowsFit /\ LoopTypeOK /\ [Next]_vars
      /\ faults \in Nat /\ (faults' = faults \/ faults' = faults + 1)
      /\ lastPass \in Int /\ DaysAhead \in Nat
      /\ \A i \in DOMAIN subscriptions : subscriptions[i].endAt \in Int
  BY LoopStepIsStep, FaultSteps, TableTypes, DaysAssumption
     DEF DaysAssumption, LoopInv, SubscriptionsInv, LoopTypeOK
<1> SUFFICES ASSUME NEW i \in DOMAIN subscriptions',
                    subscriptions'[i].status = "grace", Unannounced(i)'
             PROVE  DaysAhead < faults'
  BY DEF GraceCostWindow
<1>1. /\ i \in DOMAIN subscriptions
      /\ \/ subscriptions[i].status = "grace"
         \/ /\ subscriptions[i].status \in {"active", "trial"}
            /\ pc = "sweeping" /\ subscriptions[i].endAt < lastPass
  BY GraceComes DEF AnnouncedInv
<1>2. Unannounced(i)
  BY <1>0, <1>1, UnannouncedBefore
<1>3. CASE subscriptions[i].status = "grace"
  <2>1. DaysAhead < faults
    BY <1>1, <1>2, <1>3 DEF AnnouncedInv, GraceCostWindow
  <2> QED
    BY <1>0, <2>1
<1>4. CASE /\ subscriptions[i].status = "active"
           /\ pc = "sweeping" /\ subscriptions[i].endAt < lastPass
  <2>1. lastPass - (subscriptions[i].endAt - DaysAhead) <= faults
    BY <1>1, <1>2, <1>4 DEF AnnouncedInv, DaysCostFaults, LoopDay
  <2> QED
    BY <1>0, <1>1, <1>4, <2>1
<1>5. CASE subscriptions[i].status = "trial"
  BY <1>1, <1>2, <1>5 DEF AnnouncedInv, TrialsAreGiven, Unannounced
<1> QED
  BY <1>1, <1>3, <1>4, <1>5

(* A running loop stays with the calendar, for a day ends only after a pass *)
(* begun on it or as the one midnight of a pass.                            *)
LEMMA DayByDayInductive ==
    ASSUME PassesAreShort, LoopTypeOK, DayByDay, [LoopNext]_allVars
    PROVE  DayByDay'
<1>0. now \in Int /\ lastPass \in Int /\ MaxPass \in Int /\ MaxPass <= 1
  BY PassAssumption DEF PassAssumption, PassesAreShort, LoopTypeOK, TypeOK
<1>1. CASE SweepStart
  BY <1>0, <1>1 DEF SweepStart, ExpireBegin, Begin, DayByDay
<1>2. CASE lastPass' = lastPass /\ now' = now
  <2>1. pc' \notin {"start", "down"} => pc \notin {"start", "down"} \/ SweepStart
    BY DEF LoopNext, Pass, SweepDone, SweepRaises, QueryStart, Query, QueryRaises,
       SendDelivered, SendRaises, SendUnconfirmed, Mark, MarkRaises, Wake, Die,
       Restart, DayEnds, DayLost, HandlerStep, loopVars, allVars
  <2> QED
    BY <1>1, <1>2, <2>1 DEF DayByDay
<1>3. CASE /\ now' = now + 1 /\ UNCHANGED loopVars
           /\ \/ pc = "asleep" /\ lastPass = now
              \/ InPass /\ now - lastPass < MaxPass
  <2>1. now + 1 <= lastPass + 1
    BY <1>0, <1>3
  <2> QED
    BY <1>3, <2>1 DEF DayByDay, loopVars
<1>4. CASE pc' = "down"
  BY <1>4 DEF DayByDay
<1> QED
  BY <1>1, <1>2, <1>3, <1>4, DaySteps, PassSteps

(* Without a fault the loop passes over a row that is not announced only    *)
(* when its window had not begun when the pass did.                         *)
LEMMA PassingOver ==
    ASSUME LoopInv, ClocksAreOrdered, [LoopNext]_allVars, faults' = faults,
           NEW i \in DOMAIN subscriptions, subscriptions[i].status = "active",
           Unannounced(i), PassedOver(i)'
    PROVE  PassedOver(i) \/ subscriptions[i].endAt > lastPass + DaysAhead
<1>0. /\ LoopTypeOK /\ SentFirst /\ MarkedWasDelivered
      /\ now \in Int /\ faults \in Nat /\ subscriptions[i].endAt \in Int
      /\ lastPass \in Int /\ asked \in Int
      /\ DaysAhead \in Nat
  BY FaultSteps, TableTypes, DaysAssumption
     DEF DaysAssumption, LoopInv, SubscriptionsInv, LoopTypeOK
<1>1. ~Fault
  BY <1>0 DEF Fault
<1>2. CASE Query
  <2>1. i \notin queue'
    BY <1>2 DEF Query, PassedOver
  <2>2. ~subscriptions[i].reminded
    BY <1>0 DEF MarkedWasDelivered, Unannounced
  <2>3. ~(subscriptions[i].endAt <= asked + DaysAhead)
    BY <1>2, <2>1, <2>2 DEF Query, Expiring
  <2>4. lastPass <= asked
    BY <1>2 DEF Query, ClocksAreOrdered
  <2> QED
    BY <1>0, <2>3, <2>4
<1>3. CASE SendDelivered
  BY <1>3 DEF SendDelivered, PassedOver
<1>4. ASSUME NEW k \in queue, NextRow(k), k # i, pc \in {"send", "mark"}
      PROVE  PassedOver(i)
  BY <1>4 DEF NextRow, PassedOver
<1>5. CASE SendRaises
  <2>1. PICK k \in queue : ~Reachable(k) /\ NextRow(k)
    BY <1>1, <1>5 DEF SendRaises
  <2>2. k # i
    BY <2>1 DEF Reachable, Unannounced
  <2> QED
    BY <1>4, <1>5, <2>1, <2>2 DEF SendRaises
<1>6. CASE Mark
  <2>1. current \in queue /\ delivered[current] > 0 /\ NextRow(current)
    BY <1>0, <1>6 DEF Mark, LoopTypeOK, SentFirst
  <2>2. current # i
    BY <2>1 DEF Unannounced
  <2> QED
    BY <1>4, <1>6, <2>1, <2>2 DEF Mark
<1>7. CASE UNCHANGED <<pc, queue>>
  BY <1>7 DEF PassedOver
<1>8. CASE pc' \notin {"asleep", "send", "mark"}
  BY <1>8 DEF PassedOver
<1>9. \/ Query \/ SendDelivered \/ SendRaises \/ Mark
      \/ UNCHANGED <<pc, queue>>
      \/ pc' \notin {"asleep", "send", "mark"}
  BY <1>1 DEF LoopNext, Pass, SweepStart, SweepDone, SweepRaises, QueryStart,
     QueryRaises, SendUnconfirmed, MarkRaises, Wake, Die, Restart, DayEnds, DayLost,
     HandlerStep, loopVars, allVars
<1> QED
  BY <1>2, <1>3, <1>5, <1>6, <1>7, <1>8, <1>9

(* The day the loop has got to moves on by one at most, and then only past  *)
(* a day whose pass is over, or at the price of a fault.                    *)
LEMMA LoopDaySteps ==
    ASSUME LoopTypeOK, DayByDay, [LoopNext]_allVars
    PROVE  \/ LoopDay' = LoopDay
           \/ LoopDay' = LoopDay + 1 /\ pc = "asleep" /\ pc' = "start"
           \/ LoopDay' = LoopDay + 1 /\ pc' = "down" /\ Fault
<1>0. now \in Int /\ lastPass \in Int /\ lastPass <= now
  BY DEF LoopTypeOK, TypeOK
<1>1. CASE SweepStart
  BY <1>1 DEF SweepStart, LoopDay
<1>2. CASE Wake
  <2>1. /\ pc = "asleep" /\ pc' = "start" /\ now' = now
        /\ now = lastPass \/ now = lastPass + 1
    BY <1>0, <1>2 DEF Wake, vars, DayByDay
  <2> QED
    BY <2>1 DEF LoopDay
<1>3. CASE Restart
  BY <1>3 DEF Restart, vars, LoopDay
<1>4. CASE Die
  <2>1. pc # "down" /\ pc' = "down" /\ now' = now /\ Fault
    BY <1>4 DEF Die, Crash
  <2>2. CASE pc = "start"
    BY <2>1, <2>2 DEF LoopDay
  <2>3. CASE pc # "start"
    <3>1. now = lastPass \/ now = lastPass + 1
      BY <1>0, <2>1, <2>3 DEF DayByDay
    <3> QED
      BY <2>1, <2>3, <3>1 DEF LoopDay
  <2> QED
    BY <2>2, <2>3
<1>5. CASE DayEnds
  BY <1>5 DEF DayEnds, InPass, loopVars, LoopDay
<1>6. CASE DayLost
  BY <1>6 DEF DayLost, Tick, LoopDay
<1>7. CASE HandlerStep \/ UNCHANGED allVars
  <2>1. now' = now /\ UNCHANGED <<pc, lastPass>>
    BY <1>7 DEF HandlerStep, loopVars, ActivateBegin, ActivateCommit, TrialBegin,
                TrialCommit, Begin, Fail, Cancel, allVars, vars
  <2> QED
    BY <2>1 DEF LoopDay
<1>8. CASE /\ pc \notin {"start", "down"} /\ pc' \notin {"start", "down"}
           /\ lastPass' = lastPass
  BY <1>8 DEF LoopDay
<1>9. \/ SweepStart \/ Wake \/ Restart \/ Die \/ DayEnds \/ DayLost
      \/ HandlerStep \/ UNCHANGED allVars
      \/ /\ pc \notin {"start", "down"} /\ pc' \notin {"start", "down"}
         /\ lastPass' = lastPass
  BY DEF LoopNext, Pass, SweepDone, SweepRaises, QueryStart, Query, QueryRaises,
     SendDelivered, SendRaises, SendUnconfirmed, Mark, MarkRaises, NextRow
<1> QED
  BY <1>1, <1>2, <1>3, <1>4, <1>5, <1>6, <1>7, <1>8, <1>9

LEMMA DaysInductive ==
    ASSUME PlansOutlastWindow, LoopInv, AnnouncedInv, [LoopNext]_allVars,
           LoopTypeOK'
    PROVE  DaysCostFaults'
<1>0. /\ TypeOK /\ CallsAreRecent /\ RowsFit /\ LoopTypeOK /\ [Next]_vars
      /\ faults \in Nat /\ (faults' = faults \/ faults' = faults + 1)
      /\ now \in Int /\ DaysAhead \in Nat /\ MaxLag \in Nat
      /\ \A i \in DOMAIN subscriptions : subscriptions[i].endAt \in Int
  BY LoopStepIsStep, FaultSteps, TableTypes, DaysAssumption
     DEF DaysAssumption, LoopInv, SubscriptionsInv
<1>1. LoopDay \in Int /\ LoopDay' \in Int /\ LoopDay' <= now'
  BY DEF LoopDay, LoopInv, LoopTypeOK, TypeOK
<1> SUFFICES ASSUME NEW i \in DOMAIN subscriptions',
                    subscriptions'[i].status = "active", Unannounced(i)'
             PROVE  LET late == LoopDay' - (subscriptions'[i].endAt - DaysAhead) IN
                    late <= faults' /\ (PassedOver(i)' => late < faults')
  BY DEF DaysCostFaults
<1>2. CASE i \notin DOMAIN subscriptions
  <2>1. \A d \in Periods : (DaysAhead + 1) + MaxLag <= d
    <3>1. \A d \in Periods : d \in Nat /\ DaysAhead + MaxLag < d
      BY PeriodsAssumption DEF PeriodsAssumption, PlansOutlastWindow
    <3> QED
      BY <1>0, <3>1
  <2>2. DaysAhead + 1 \in Nat
    BY <1>0
  <2>3. now' = now /\ now + (DaysAhead + 1) <= subscriptions'[i].endAt
    BY <1>0, <1>2, <2>1, <2>2, BoughtEndsLater
  <2>4. subscriptions'[i].endAt \in Int
    BY <1>0, EndDatesAreDays
  <2> QED
    BY <1>0, <1>1, <2>3, <2>4
<1>3. CASE i \in DOMAIN subscriptions
  <2> DEFINE end == subscriptions[i].endAt
             late == LoopDay - (end - DaysAhead)
  <2>1. subscriptions[i].status = "active" /\ subscriptions'[i].endAt = end
    BY <1>0, <1>3, RowKept
  <2>2. Unannounced(i)
    BY <1>0, <1>3, UnannouncedBefore
  <2>3. late <= faults /\ (PassedOver(i) => late < faults)
    BY <1>3, <2>1, <2>2 DEF AnnouncedInv, DaysCostFaults
  <2>4. end \in Int /\ late \in Int
    BY <1>0, <1>1, <1>3
  <2>5. CASE LoopDay' = LoopDay
    <3>1. CASE faults' = faults + 1
      BY <1>0, <2>1, <2>3, <2>4, <2>5, <3>1
    <3>2. CASE faults' = faults /\ PassedOver(i)'
      <4>1. PassedOver(i) \/ end > lastPass + DaysAhead
        BY <1>3, <2>1, <2>2, <3>2, PassingOver DEF AnnouncedInv
      <4>2. LoopDay' = lastPass'
        BY <3>2 DEF PassedOver, LoopDay
      <4>3. lastPass' = lastPass /\ lastPass \in Int
        BY <1>0, <3>2, PassSteps DEF SweepStart, PassedOver, LoopTypeOK
      <4> QED
        BY <1>0, <1>1, <2>1, <2>3, <2>4, <2>5, <3>2, <4>1, <4>2, <4>3
    <3>3. CASE faults' = faults /\ ~PassedOver(i)'
      BY <2>1, <2>3, <2>5, <3>3
    <3> QED
      BY <1>0, <3>1, <3>2, <3>3
  <2>6. CASE LoopDay' = LoopDay + 1 /\ pc = "asleep" /\ pc' = "start"
    <3>1. late < faults
      BY <2>3, <2>6 DEF PassedOver
    <3>2. ~PassedOver(i)'
      BY <2>6 DEF PassedOver
    <3> QED
      BY <1>0, <1>1, <2>1, <2>4, <2>6, <3>1, <3>2
  <2>7. CASE LoopDay' = LoopDay + 1 /\ pc' = "down" /\ Fault
    <3>1. ~PassedOver(i)' /\ faults' = faults + 1
      BY <2>7 DEF PassedOver, Fault
    <3> QED
      BY <1>0, <1>1, <2>1, <2>3, <2>4, <2>7, <3>1
  <2>8. DayByDay
    BY DEF AnnouncedInv
  <2> QED
    BY <1>0, <2>5, <2>6, <2>7, <2>8, LoopDaySteps
<1> QED
  BY <1>2, <1>3

(* No paid subscription gets into its grace period unannounced while the    *)
(* faults are no more than days_ahead: each day of the window on which the  *)
(* reminder does not arrive costs a fault of its own, and there are         *)
(* days_ahead + 1 of them.  It holds for plans long enough to be sold       *)
(* before their window begins and passes that see one midnight at most, for *)
(* then every day the process is up begins a pass.                          *)
THEOREM LapseIsAnnouncedHolds ==
    ASSUME PlansOutlastWindow, PassesAreShort
    PROVE  LoopSpec => []LapseIsAnnounced
<1>1. LoopInit => AnnouncedInv
  <2> SUFFICES ASSUME LoopInit PROVE AnnouncedInv
    OBVIOUS
  <2>1. DOMAIN subscriptions = {}
    BY DEF LoopInit, Init
  <2>2. ClocksAreOrdered /\ DayByDay
    BY DEF LoopInit, ClocksAreOrdered, DayByDay
  <2> QED
    BY <2>1, <2>2 DEF AnnouncedInv, TrialsAreGiven, DaysCostFaults, GraceCostWindow
<1>2. AnnouncedInv /\ LoopInv /\ LoopInv' /\ [LoopNext]_allVars => AnnouncedInv'
  <2> SUFFICES ASSUME AnnouncedInv, LoopInv, LoopInv', [LoopNext]_allVars
               PROVE  AnnouncedInv'
    OBVIOUS
  <2>1. TrialsAreGiven'
    BY LoopStepIsStep, TrialsInductive DEF AnnouncedInv, LoopInv, SubscriptionsInv
  <2>2. ClocksAreOrdered'
    BY ClocksInductive DEF AnnouncedInv, LoopInv
  <2>3. DayByDay'
    BY DayByDayInductive DEF AnnouncedInv, LoopInv
  <2>4. DaysCostFaults'
    BY DaysInductive DEF LoopInv
  <2> QED
    BY <2>1, <2>2, <2>3, <2>4, GraceInductive DEF AnnouncedInv
<1>3. ASSUME AnnouncedInv, LoopInv PROVE LapseIsAnnounced
  <2> SUFFICES ASSUME faults <= DaysAhead, NEW i \in DOMAIN subscriptions,
                      subscriptions[i].status = "grace",
                      subscriptions[i].user \notin TrialUser \cup Blocked
               PROVE  delivered[i] > 0
    BY DEF LapseIsAnnounced
  <2>1. i \in Ids
    BY <1>3, RowsHaveCounts DEF LoopInv, LoopTypeOK
  <2>2. delivered[i] \in Nat /\ faults \in Nat /\ DaysAhead \in Nat
    BY <1>3, <2>1, FaultsAssumption, DaysAssumption
       DEF FaultsAssumption, DaysAssumption, LoopInv, LoopTypeOK
  <2>3. ASSUME delivered[i] = 0 PROVE FALSE
    <3>1. DaysAhead < faults
      BY <1>3, <2>3 DEF AnnouncedInv, GraceCostWindow, Unannounced
    <3> QED
      BY <2>2, <3>1
  <2> QED
    BY <2>2, <2>3
<1> QED
  BY <1>1, <1>2, <1>3, LoopInvariant, PTL DEF LoopSpec

(* The loop implements the table: whatever it does, its faults and restarts *)
(* included, is a step of Subscriptions or none.                            *)
THEOREM LoopImplementsTable == LoopSpec => Spec
<1>1. LoopInit => Init
  BY DEF LoopInit
<1>2. LoopInv /\ [LoopNext]_allVars => [Next]_vars
  BY LoopStepIsStep DEF LoopInv
<1> QED
  BY <1>1, <1>2, LoopInvariant, PTL DEF LoopSpec, Spec

(* The loop keeps the promise: sweeps, reminders, faults and restarts       *)
(* change nobody's access.                                                  *)
THEOREM LoopKeepsPromise == LoopSpec => KeepsPromise
BY LoopImplementsTable, KeepsPromiseHolds

=============================================================================
