-------------------------- MODULE ExpirationLoop --------------------------
(***************************************************************************)
(* The background task, expiration_loop of src/reminder/scheduler.py, over *)
(* the table of Subscriptions, while handlers go on buying and cancelling. *)
(* One pass sweeps the table, takes a snapshot of the rows that expire     *)
(* soon, and for each of them sends a message and then marks the row; an   *)
(* exception in the first part ends the pass, one in the second part only  *)
(* that row.  The process may die at any point and is started again.       *)
(*                                                                         *)
(* Every step that touches the table is an action of Subscriptions with    *)
(* the loop's own control around it.  The calendar may move on at every    *)
(* await of a pass: between the clock reading of the sweep, its commit,    *)
(* the clock reading of the query, the query and each message and mark.    *)
(***************************************************************************)
EXTENDS Subscriptions

CONSTANTS
    Loop,        \* the task that runs expiration_loop
    Blocked,     \* users every message to fails (they blocked the bot)
    MaxPass,     \* bound: days that end during one pass
    MaxFaults    \* bound: faults of a behaviour, days spent down included

ASSUME LoopAssumption == Loop \in Task
ASSUME TasksAssumption == IsFiniteSet(Task)
ASSUME BlockedAssumption == Blocked \subseteq User
ASSUME PassAssumption == MaxPass \in Nat
ASSUME FaultsAssumption == MaxFaults \in Nat

VARIABLES
    pc,          \* where the loop is
    queue,       \* the rows of the snapshot still to be handled
    current,     \* the row whose message has been sent, when pc is "mark"
    lastPass,    \* the day the last pass began: the clock its sweep read
    asked,       \* the clock a query for expiring rows goes by, when pc is
                 \* "query"; 0 else
    faults,      \* faults so far
    asOf,        \* history: length of the table at the snapshot
    delivered,   \* history: messages that reached the user, by row
    mishaps      \* history: messages sent whose mark was then lost, by row

loopVars == <<pc, queue, current, lastPass, asked, faults, asOf, delivered,
              mishaps>>
allVars == <<vars, loopVars>>

Handlers == Task \ {Loop}
Ids == 1..MaxRows

(* The loop is somewhere between the clock reading of its sweep and the end *)
(* of its pass.                                                             *)
InPass == pc \in {"sweeping", "swept", "query", "send", "mark"}

LoopTypeOK ==
    /\ TypeOK
    /\ InPass \/ pc \in {"start", "asleep", "down"}
    /\ queue \subseteq DOMAIN subscriptions
    /\ pc \in {"send", "mark"} => queue # {}
    /\ pc = "mark" => current \in queue
    /\ lastPass \in 0..now
    /\ asked \in 0..now
    /\ faults \in 0..MaxFaults
    /\ asOf \in 0..Len(subscriptions)
    /\ delivered \in [Ids -> Nat]
    /\ mishaps \in [Ids -> Nat]

LoopInit ==
    /\ Init
    /\ pc = "start"
    /\ queue = {}
    /\ current = 0
    /\ lastPass = 0
    /\ asked = 0
    /\ faults = 0
    /\ asOf = 0
    /\ delivered = [i \in Ids |-> 0]
    /\ mishaps = [i \in Ids |-> 0]

Fault == faults < MaxFaults /\ faults' = faults + 1

(* One more in the count of row i. *)
Bump(count, i) == [count EXCEPT ![i] = @ + 1]

(* Mutant of NextRow: the end of the snapshot is not noticed. *)
NextRowAlways(i) == queue' = queue \ {i} /\ pc' = "send"

(* The row is done with, for this pass. *)
NextRow(i) ==
    /\ queue' = queue \ {i}
    /\ pc' = IF queue' = {} THEN "asleep" ELSE "send"

-----------------------------------------------------------------------------
(* One pass of the loop. *)

SweepStart ==
    /\ pc = "start"
    /\ ExpireBegin(Loop)
    /\ pc' = "sweeping"
    /\ lastPass' = now
    /\ UNCHANGED <<queue, current, asked, faults, asOf, delivered, mishaps>>

SweepDone ==
    /\ pc = "sweeping"
    /\ ExpireCommit(Loop)
    /\ pc' = "swept"
    /\ UNCHANGED <<queue, current, lastPass, asked, faults, asOf, delivered, mishaps>>

(* Mutant of SweepRaises: a failed sweep does not end the pass. *)
SweepRaisesOnwards ==
    /\ pc = "sweeping"
    /\ Fail(Loop)
    /\ Fault
    /\ pc' = "swept"
    /\ UNCHANGED <<queue, current, lastPass, asked, asOf, delivered, mishaps>>

(* The outer except: no query and no reminder in this pass. *)
SweepRaises ==
    /\ pc = "sweeping"
    /\ Fail(Loop)
    /\ Fault
    /\ pc' = "asleep"
    /\ UNCHANGED <<queue, current, lastPass, asked, asOf, delivered, mishaps>>

(* get_expiring_subscriptions reads the clock before it opens its session. *)
QueryStart ==
    /\ pc = "swept"
    /\ pc' = "query"
    /\ asked' = now
    /\ UNCHANGED <<vars, queue, current, lastPass, faults, asOf, delivered, mishaps>>

(* Its rows: the snapshot the rest of the pass works on. *)
Query ==
    /\ pc = "query"
    /\ queue' = Expiring(subscriptions, asked)
    /\ pc' = IF queue' = {} THEN "asleep" ELSE "send"
    /\ asOf' = Len(subscriptions)
    /\ asked' = 0
    /\ UNCHANGED <<vars, current, lastPass, faults, delivered, mishaps>>

QueryRaises ==
    /\ pc = "query"
    /\ Fault
    /\ pc' = "asleep"
    /\ asked' = 0
    /\ UNCHANGED <<vars, queue, current, lastPass, asOf, delivered, mishaps>>

(* The row whose turn it is: the snapshot is ordered by end date. *)
IsNext(i) ==
    /\ i \in queue
    /\ \A j \in queue : subscriptions[i].endAt <= subscriptions[j].endAt

Reachable(i) == subscriptions[i].user \notin Blocked

SendDelivered ==
    /\ pc = "send"
    /\ \E i \in queue :
          /\ IsNext(i)
          /\ Reachable(i)
          /\ current' = i
          /\ delivered' = Bump(delivered, i)
    /\ pc' = "mark"
    /\ UNCHANGED <<vars, queue, lastPass, asked, faults, asOf, mishaps>>

(* Mutants of SendRaises: the failure ends the pass; the row is marked      *)
(* although its message failed.                                             *)
SendRaisesOutwards ==
    /\ pc = "send"
    /\ \E i \in queue :
          IsNext(i) /\ IF Reachable(i) THEN Fault ELSE UNCHANGED faults
    /\ queue' = {}
    /\ pc' = "asleep"
    /\ UNCHANGED <<vars, current, lastPass, asked, asOf, delivered, mishaps>>
SendRaisesAndMarks ==
    /\ pc = "send"
    /\ \E i \in queue :
          /\ IsNext(i)
          /\ IF Reachable(i) THEN Fault ELSE UNCHANGED faults
          /\ current' = i
    /\ pc' = "mark"
    /\ UNCHANGED <<vars, queue, lastPass, asked, asOf, delivered, mishaps>>

(* send_message raises and the inner except moves on to the next row. *)
SendRaises ==
    /\ pc = "send"
    /\ \E i \in queue :
          /\ IsNext(i)
          /\ IF Reachable(i) THEN Fault ELSE UNCHANGED faults
          /\ NextRow(i)
    /\ UNCHANGED <<vars, current, lastPass, asked, asOf, delivered, mishaps>>

(* The message arrives but its confirmation does not: the call raises. *)
SendUnconfirmed ==
    /\ pc = "send"
    /\ Fault
    /\ \E i \in queue :
          /\ IsNext(i)
          /\ Reachable(i)
          /\ delivered' = Bump(delivered, i)
          /\ mishaps' = Bump(mishaps, i)
          /\ NextRow(i)
    /\ UNCHANGED <<vars, current, lastPass, asked, asOf>>

Mark ==
    /\ pc = "mark"
    /\ MarkReminded(current)
    /\ NextRow(current)
    /\ UNCHANGED <<current, lastPass, asked, faults, asOf, delivered, mishaps>>

MarkRaises ==
    /\ pc = "mark"
    /\ Fault
    /\ mishaps' = Bump(mishaps, current)
    /\ NextRow(current)
    /\ UNCHANGED <<vars, current, lastPass, asked, asOf, delivered>>

(* asyncio.sleep(interval) is over. *)
Wake ==
    /\ pc = "asleep"
    /\ pc' = "start"
    /\ UNCHANGED <<vars, queue, current, lastPass, asked, faults, asOf, delivered,
                   mishaps>>

-----------------------------------------------------------------------------
(* The process, the calendar and the handlers. *)

Die ==
    /\ pc # "down"
    /\ Fault
    /\ Crash
    /\ pc' = "down"
    /\ queue' = {}
    /\ asked' = 0
    /\ mishaps' = IF pc = "mark" THEN Bump(mishaps, current) ELSE mishaps
    /\ UNCHANGED <<current, lastPass, asOf, delivered>>

Restart ==
    /\ pc = "down"
    /\ pc' = "start"
    /\ UNCHANGED <<vars, queue, current, lastPass, asked, faults, asOf, delivered,
                   mishaps>>

(* A day may end at any await of the loop.  Its sleep of a minute is short  *)
(* against a day, so every day begins a pass unless the process is down or  *)
(* a pass outlasts the day.  Bound: no more than MaxPass days end during    *)
(* one pass.                                                                *)
DayEnds ==
    /\ \/ pc = "asleep" /\ lastPass = now
       \/ InPass /\ now - lastPass < MaxPass
    /\ Tick
    /\ UNCHANGED loopVars

DayLost ==
    /\ pc = "down"
    /\ Fault
    /\ Tick
    /\ UNCHANGED <<pc, queue, current, lastPass, asked, asOf, delivered, mishaps>>

HandlerStep ==
    /\ pc # "down"
    /\ \/ \E t \in Handlers :
             \/ \E u \in User, d \in Periods : ActivateBegin(t, u, d)
             \/ ActivateCommit(t)
             \/ \E u \in TrialUser : TrialBegin(t, u)
             \/ TrialCommit(t)
             \/ Fail(t)
       \/ \E u \in User : Cancel(u)
    /\ UNCHANGED loopVars

Pass ==
    \/ SweepStart \/ SweepDone
    \/ QueryStart \/ Query
    \/ SendDelivered \/ SendRaises
    \/ Mark
    \/ Wake

LoopNext ==
    \/ Pass
    \/ SweepRaises \/ QueryRaises \/ SendUnconfirmed \/ MarkRaises
    \/ Die \/ Restart
    \/ DayEnds \/ DayLost
    \/ HandlerStep

LoopSpec == LoopInit /\ [][LoopNext]_allVars

(* The event loop runs the task, and the container is restarted whenever it *)
(* stops (restart: always).                                                 *)
FairLoopSpec == LoopSpec /\ WF_allVars(Pass) /\ WF_allVars(Restart)

-----------------------------------------------------------------------------
(* Properties. *)

(* A message about row i reaches its user. *)
Delivers(i) == delivered'[i] > delivered[i]

(* A reminder that comes after the end date it announces is late by no more *)
(* than this very pass has taken: the date was still to come when the pass  *)
(* began, because the sweep runs first and ends the pass if it fails.  And  *)
(* none is early: it is sent within days_ahead of the date.  Clock, table   *)
(* and message may be days apart, with purchases in between.                *)
RemindersAreTimely ==
    [][\A i \in DOMAIN subscriptions :
          Delivers(i) => /\ lastPass <= subscriptions[i].endAt
                         /\ subscriptions[i].endAt <= now + DaysAhead]_allVars

(* A user is told that a subscription runs out which has been replaced      *)
(* already only if the replacement was bought during this very pass, after  *)
(* the snapshot.                                                            *)
StaleOnlyWithinPass ==
    [][\A i \in DOMAIN subscriptions :
          Delivers(i) =>
             \A j \in DOMAIN subscriptions :
                /\ j > i
                /\ subscriptions[j].user = subscriptions[i].user
                /\ subscriptions[j].status = "active"
                => j > asOf]_allVars

(* A row is marked only when its user has received the message: a mark is   *)
(* never set for a message that failed (send before mark, in one try).      *)
MarkedWasDelivered ==
    \A i \in DOMAIN subscriptions :
        subscriptions[i].reminded => delivered[i] > 0

(* A repeated reminder is always the price of a fault: the user receives at *)
(* most one message more than marks were lost for that row.                 *)
RepeatsNeedMishap == \A i \in Ids : delivered[i] <= mishaps[i] + 1

(* What the comment of the loop says: "Remind expiring (once per            *)
(* subscription)".                                                          *)
OncePerSubscription == \A i \in Ids : delivered[i] <= 1

(* No paid subscription slips into its grace period unannounced, however    *)
(* the faults fall, as long as they are no more than the window has days to *)
(* spare (get_expiring_subscriptions selects a row on every pass of its     *)
(* last days_ahead + 1 days until it is marked).                            *)
LapseIsAnnounced ==
    faults <= DaysAhead =>
        \A i \in DOMAIN subscriptions :
            /\ subscriptions[i].status = "grace"
            /\ subscriptions[i].user \notin TrialUser \cup Blocked
            => delivered[i] > 0

(* Row i waits for its reminder. *)
Due(i) ==
    /\ i \in DOMAIN subscriptions
    /\ i \in Expiring(subscriptions, now)
    /\ Reachable(i)

(* Every row that is due is reminded or stops being active, even though     *)
(* messages to other users, earlier in the order, fail on every pass.       *)
ReminderArrives ==
    \A i \in Ids :
        Due(i) ~> /\ i \in DOMAIN subscriptions
                  /\ subscriptions[i].reminded \/ subscriptions[i].status # "active"

(* The list of members the administrators see and broadcast to              *)
(* (get_active_subscribers: status 'active' or 'trial', no date) gets rid   *)
(* of everyone whose end date is past.                                      *)
LapsedLeavesTheList ==
    \A i \in Ids :
        (i \in DOMAIN subscriptions /\ subscriptions[i].endAt < now)
            ~> (i \in DOMAIN subscriptions
                /\ subscriptions[i].status \notin {"active", "trial"})

=============================================================================
