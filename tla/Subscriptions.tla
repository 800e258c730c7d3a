--------------------------- MODULE Subscriptions ---------------------------
(***************************************************************************)
(* The subscription service, src/membership/service.py: the table          *)
(* "subscriptions" and the operations handlers and the background loop     *)
(* call on it, each an asyncio task of its own.                            *)
(*                                                                         *)
(* An operation that needs the time reads the clock BEFORE it opens its    *)
(* transaction (or query), so it is two steps here: ...Begin reads the     *)
(* clock, ...Commit runs the transaction, and any other task, or the       *)
(* calendar, may act in between.  A transaction is atomic in SQLite: it    *)
(* commits as one step, or fails (Fail, e.g. "database is locked") and     *)
(* leaves the table as it was.  Operations that do not read the clock      *)
(* are one step.                                                           *)
(***************************************************************************)
EXTENDS Integers, Sequences, FiniteSets

CONSTANTS
    User,        \* Telegram users
    Task,        \* the handler and loop tasks that may be running at once
    Periods,     \* the period_days of the plans on sale
    GraceDays,   \* settings.grace_days
    TrialDays,   \* settings.trial_days
    TrialUser,   \* users create_trial is called for; no handler calls it, so
                 \* {} is the bot as deployed
    DaysAhead,   \* days_ahead of get_expiring_subscriptions
    MaxLag,      \* bound: days between a task's clock reading and its commit
    Horizon,     \* bound: last day of a behaviour
    MaxRows      \* bound: rows of the table

ASSUME PeriodsAssumption == Periods \subseteq Nat
ASSUME DaysAssumption ==
    /\ GraceDays \in Nat
    /\ TrialDays \in Nat
    /\ DaysAhead \in Nat
    /\ MaxLag \in Nat
ASSUME TrialUserAssumption == TrialUser \subseteq User
ASSUME BoundsAssumption == Horizon \in Nat /\ MaxRows \in Nat
(* No operation takes as long as what it sells lasts (plans.period_days is  *)
(* 30 by default).                                                          *)
ASSUME LagAssumption ==
    /\ \A d \in Periods : MaxLag < d + GraceDays
    /\ TrialUser # {} => MaxLag < TrialDays + GraceDays

VARIABLES
    now,             \* the calendar, in days
    subscriptions,   \* the table; the id of a row is its index
    call             \* call[t]: the operation task t is in the middle of

vars == <<now, subscriptions, call>>

-----------------------------------------------------------------------------
(* The table. *)

Status == {"active", "trial", "grace", "expired"}

(* The statuses get_subscription accepts and activate_subscription closes. *)
Open == {"active", "trial", "grace"}

Row == [user : User, endAt : Int, autoRenew : BOOLEAN, status : Status,
        reminded : BOOLEAN]

NewRow(u, end, renew, status) ==
    [user |-> u, endAt |-> end, autoRenew |-> renew, status |-> status,
     reminded |-> FALSE]

(* Mutant of Matching: no date in the query, as before F4. *)
MatchingNoDate(tbl, u, at) ==
    {i \in DOMAIN tbl : tbl[i].user = u /\ tbl[i].status \in Open}

(* The access-control query: rows of u that are open and whose end date is *)
(* after the cutoff, GraceDays before the clock reading at.                *)
Matching(tbl, u, at) ==
    {i \in DOMAIN tbl : /\ tbl[i].user = u
                        /\ tbl[i].status \in Open
                        /\ tbl[i].endAt > at - GraceDays}

(* ORDER BY end_at DESC LIMIT 1. *)
GetSubscription(tbl, u, at) ==
    {i \in Matching(tbl, u, at) :
        \A j \in Matching(tbl, u, at) : tbl[j].endAt <= tbl[i].endAt}

IsSubscriber(tbl, u, at) == GetSubscription(tbl, u, at) # {}

(* Mutants of Activated: nothing, or not the grace rows, is closed. *)
ActivatedNoReplace(tbl, u, end) ==
    Append(tbl, NewRow(u, end, TRUE, "active"))
ActivatedKeepsGrace(tbl, u, end) ==
    Append([i \in DOMAIN tbl |->
                IF tbl[i].user = u /\ tbl[i].status \in {"active", "trial"}
                THEN [tbl[i] EXCEPT !.status = "expired"] ELSE tbl[i]],
           NewRow(u, end, TRUE, "active"))

(* The transaction of activate_subscription. *)
Activated(tbl, u, end) ==
    Append([i \in DOMAIN tbl |->
                IF tbl[i].user = u /\ tbl[i].status \in Open
                THEN [tbl[i] EXCEPT !.status = "expired"] ELSE tbl[i]],
           NewRow(u, end, TRUE, "active"))

TrialCreated(tbl, u, end) == Append(tbl, NewRow(u, end, FALSE, "trial"))

(* Mutant of Cancelled: cancelling ends the subscription at once. *)
CancelledAtOnce(tbl, u) ==
    [i \in DOMAIN tbl |->
        IF tbl[i].user = u /\ tbl[i].status = "active"
        THEN [tbl[i] EXCEPT !.autoRenew = FALSE, !.status = "expired"] ELSE tbl[i]]

Cancelled(tbl, u) ==
    [i \in DOMAIN tbl |->
        IF tbl[i].user = u /\ tbl[i].status = "active"
        THEN [tbl[i] EXCEPT !.autoRenew = FALSE] ELSE tbl[i]]

Reminded(tbl, i) == [tbl EXCEPT ![i].reminded = TRUE]

(* Mutants of StatusAfterSweep: a status no query knows; no grace period;   *)
(* closed rows are taken too; the cutoff is a day early; grace begins on    *)
(* the last day; trials are left alone, as before F4.                       *)
StatusUnknown(r, at) ==
    IF r.status \in Open /\ r.endAt <= at - GraceDays THEN "lapsed" ELSE r.status
StatusNoGrace(r, at) ==
    IF r.status \in Open /\ r.endAt < at THEN "expired" ELSE r.status
StatusRevives(r, at) ==
    CASE r.endAt < at /\ r.endAt > at - GraceDays -> "grace"
      [] r.endAt <= at - GraceDays                -> "expired"
      [] OTHER                                    -> r.status
StatusDayEarly(r, at) ==
    CASE r.status = "active" /\ r.endAt < at             -> "grace"
      [] r.status \in Open /\ r.endAt <= at - GraceDays + 1 -> "expired"
      [] OTHER                                           -> r.status
StatusLastDay(r, at) ==
    CASE r.status \in {"active", "trial"} /\ r.endAt <= at
                                  /\ r.endAt > at - GraceDays -> "grace"
      [] r.status \in Open /\ r.endAt <= at - GraceDays -> "expired"
      [] OTHER                                           -> r.status
StatusNoTrials(r, at) ==
    CASE r.status = "active" /\ r.endAt < at /\ r.endAt > at - GraceDays -> "grace"
      [] r.status \in {"active", "grace"} /\ r.endAt <= at - GraceDays -> "expired"
      [] OTHER                                           -> r.status

(* The three UPDATEs of expire_subscriptions on one row. *)
StatusAfterSweep(r, at) ==
    CASE /\ r.status \in {"active", "trial"}
         /\ r.endAt < at
         /\ r.endAt > at - GraceDays                     -> "grace"
      [] r.status \in Open /\ r.endAt <= at - GraceDays  -> "expired"
      [] OTHER                                           -> r.status

Swept(tbl, at) ==
    [i \in DOMAIN tbl |-> [tbl[i] EXCEPT !.status = StatusAfterSweep(tbl[i], at)]]

(* Mutants of Expiring: marks are not looked at; only the last day counts. *)
ExpiringAgain(tbl, at) ==
    {i \in DOMAIN tbl : tbl[i].status = "active" /\ tbl[i].endAt <= at + DaysAhead}
ExpiringLastDay(tbl, at) ==
    {i \in DOMAIN tbl : /\ tbl[i].status = "active"
                        /\ tbl[i].endAt <= at
                        /\ ~tbl[i].reminded}

(* The rows get_expiring_subscriptions selects. *)
Expiring(tbl, at) ==
    {i \in DOMAIN tbl : /\ tbl[i].status = "active"
                        /\ tbl[i].endAt <= at + DaysAhead
                        /\ ~tbl[i].reminded}

-----------------------------------------------------------------------------
(* The tasks. *)

Idle == [op |-> "idle"]

Call ==
    {Idle}
    \cup [op : {"activate"}, user : User, days : Periods, at : 0..Horizon]
    \cup [op : {"trial", "check"}, user : User, at : 0..Horizon]
    \cup [op : {"expire"}, at : 0..Horizon]

TypeOK ==
    /\ now \in 0..Horizon
    /\ subscriptions \in Seq(Row)
    /\ call \in [Task -> Call]

Init ==
    /\ now = 0
    /\ subscriptions = <<>>
    /\ call = [t \in Task |-> Idle]

(* Bound: every insertion under way has a place in the table. *)
Room ==
    Len(subscriptions)
        + Cardinality({t \in Task : call[t].op \in {"activate", "trial"}})
    < MaxRows

Begin(t, c) ==
    /\ call[t].op = "idle"
    /\ call' = [call EXCEPT ![t] = c]
    /\ UNCHANGED <<now, subscriptions>>

Return(t) == call' = [call EXCEPT ![t] = Idle]

(* The calendar.  Bound: no operation takes more than MaxLag days. *)
Tick ==
    /\ now < Horizon
    /\ \A t \in Task : call[t].op # "idle" => now - call[t].at < MaxLag
    /\ now' = now + 1
    /\ UNCHANGED <<subscriptions, call>>

ActivateBegin(t, u, d) ==
    /\ Room
    /\ Begin(t, [op |-> "activate", user |-> u, days |-> d, at |-> now])

ActivateCommit(t) ==
    /\ call[t].op = "activate"
    /\ subscriptions' =
           Activated(subscriptions, call[t].user, call[t].at + call[t].days)
    /\ Return(t)
    /\ UNCHANGED now

TrialBegin(t, u) ==
    /\ Room
    /\ Begin(t, [op |-> "trial", user |-> u, at |-> now])

TrialCommit(t) ==
    /\ call[t].op = "trial"
    /\ subscriptions' =
           TrialCreated(subscriptions, call[t].user, call[t].at + TrialDays)
    /\ Return(t)
    /\ UNCHANGED now

ExpireBegin(t) == Begin(t, [op |-> "expire", at |-> now])

ExpireCommit(t) ==
    /\ call[t].op = "expire"
    /\ subscriptions' = Swept(subscriptions, call[t].at)
    /\ Return(t)
    /\ UNCHANGED now

(* get_subscription and is_subscriber. *)
CheckBegin(t, u) == Begin(t, [op |-> "check", user |-> u, at |-> now])

Verdict(t) == IsSubscriber(subscriptions, call[t].user, call[t].at)

CheckReturn(t) ==
    /\ call[t].op = "check"
    /\ Return(t)
    /\ UNCHANGED <<now, subscriptions>>

Cancel(u) ==
    /\ subscriptions' = Cancelled(subscriptions, u)
    /\ UNCHANGED <<now, call>>

MarkReminded(i) ==
    /\ subscriptions' = Reminded(subscriptions, i)
    /\ UNCHANGED <<now, call>>

(* The transaction or the query raised: nothing was written. *)
Fail(t) ==
    /\ call[t].op # "idle"
    /\ Return(t)
    /\ UNCHANGED <<now, subscriptions>>

(* The process dies with every task in it; SQLite rolls back what was open. *)
Crash ==
    /\ call' = [t \in Task |-> Idle]
    /\ UNCHANGED <<now, subscriptions>>

Next ==
    \/ Tick
    \/ Crash
    \/ \E t \in Task :
          \/ \E u \in User, d \in Periods : ActivateBegin(t, u, d)
          \/ ActivateCommit(t)
          \/ \E u \in TrialUser : TrialBegin(t, u)
          \/ TrialCommit(t)
          \/ ExpireBegin(t)
          \/ ExpireCommit(t)
          \/ \E u \in User : CheckBegin(t, u)
          \/ CheckReturn(t)
          \/ Fail(t)
    \/ \E u \in User : Cancel(u)
    \/ \E i \in DOMAIN subscriptions : MarkReminded(i)

Spec == Init /\ [][Next]_vars

-----------------------------------------------------------------------------
(* Properties. *)

(* Row i gives access at time t: it is open, and not lapsed past the grace  *)
(* period.                                                                  *)
Alive(i, t) ==
    /\ subscriptions[i].status # "expired"
    /\ subscriptions[i].endAt + GraceDays > t

(* The end dates that give u access now: what AccessPromise remembers of u. *)
Entitlement(u) ==
    {subscriptions[i].endAt :
        i \in {j \in DOMAIN subscriptions :
                  subscriptions[j].user = u /\ Alive(j, now)}}

HasAccess(u) == Entitlement(u) # {}

(* A purchase supersedes: once a row of a user is 'active', every older row *)
(* of that user is 'expired' and stays so, and a user who never had a trial *)
(* has no open row but the newest.  Two purchases of one user that race, or *)
(* a sweep between them, must not leave two subscriptions open              *)
(* (activate_subscription's UPDATE before its INSERT, in one transaction).  *)
Supersession ==
    \A i, j \in DOMAIN subscriptions :
        /\ i < j
        /\ subscriptions[i].user = subscriptions[j].user
        /\ subscriptions[j].status = "active" \/ subscriptions[j].user \notin TrialUser
        => subscriptions[i].status = "expired"

(* The status column never runs ahead of the dates, whatever the delay      *)
(* between the clock reading of a sweep and its commit: 'grace' means the   *)
(* end date is past, and 'expired' that the grace period is past too or     *)
(* that a newer row of the same user took its place                         *)
(* (expire_subscriptions, activate_subscription).                           *)
StatusMatchesDate ==
    \A i \in DOMAIN subscriptions :
        LET r == subscriptions[i] IN
        /\ r.status = "grace" => r.endAt < now
        /\ r.status = "expired" =>
              \/ r.endAt + GraceDays <= now
              \/ \E j \in DOMAIN subscriptions :
                    j > i /\ subscriptions[j].user = r.user

(* A task never works with a clock reading of the future, or of more than   *)
(* MaxLag days ago, and trials are for trial users only: what the two       *)
(* invariants above, and AccessPromise, need to know of the calls under     *)
(* way.                                                                     *)
CallsAreRecent ==
    \A t \in Task :
        /\ call[t].op # "idle" => call[t].at <= now /\ now - call[t].at <= MaxLag
        /\ call[t].op = "trial" => call[t].user \in TrialUser

(* The inductive invariant. *)
SubscriptionsInv == TypeOK /\ CallsAreRecent /\ Supersession /\ StatusMatchesDate

(* How far along its life a row is. *)
Stage(status) ==
    CASE status \in {"active", "trial"} -> 0
      [] status = "grace"               -> 1
      [] status = "expired"             -> 2

(* A row only moves forward: no interleaving of sweeps, purchases and       *)
(* cancellations takes a row from 'expired' back to 'grace' or from 'grace' *)
(* back to 'active', turns auto-renewal on again, or moves an end date.     *)
RowsMoveForward ==
    [][\A i \in DOMAIN subscriptions :
          LET old == subscriptions[i]
              new == subscriptions'[i] IN
          /\ Stage(old.status) <= Stage(new.status)
          /\ new.autoRenew => old.autoRenew
          /\ old.reminded => new.reminded
          /\ new.user = old.user /\ new.endAt = old.endAt]_vars

(* The background sweep decides nothing about access, however stale the     *)
(* clock reading it works with (the F4 comment of get_subscription: access  *)
(* is set by the date, not by whether the loop has run).                    *)
SweepKeepsAccess ==
    [][\A t \in Task : ExpireCommit(t) =>
          \A u \in User : Entitlement(u)' = Entitlement(u)]_vars

(* The table and its tasks keep the promise: seen through the open rows not *)
(* yet over, every step is a day passing, a purchase, a trial or nothing.   *)
Promise == INSTANCE AccessPromise
               WITH ent <- [u \in User |-> Entitlement(u)]

KeepsPromise == Promise!Spec

=============================================================================
