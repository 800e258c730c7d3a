--------------------------- MODULE AccessPromise ---------------------------
(***************************************************************************)
(* What the bot promises its members, with no table, no status column and  *)
(* no background loop: a subscription is an end date, a member has access  *)
(* as long as one of the member's end dates, extended by the grace period, *)
(* lies in the future, and nothing but the calendar and the member's own   *)
(* purchases and trials changes that.                                      *)
(***************************************************************************)
EXTENDS Integers

CONSTANTS
    User,        \* Telegram users
    Periods,     \* the period_days of the plans on sale
    GraceDays,   \* GRACE_DAYS of the settings
    TrialDays,   \* TRIAL_DAYS of the settings
    TrialUser,   \* the users a trial is ever created for
    MaxLag       \* how long ago a purchase being recorded may have begun

VARIABLES
    now,         \* the calendar, in days
    ent          \* ent[u]: the end dates that still give u access

vars == <<now, ent>>

(* The end dates of S that are not yet over at time t, grace included. *)
Live(S, t) == {e \in S : e + GraceDays > t}

HasAccess(u) == ent[u] # {}

Init == now = 0 /\ ent = [u \in User |-> {}]

(* A day passes, and takes with it what it ends. *)
Tick ==
    /\ now' = now + 1
    /\ ent' = [u \in User |-> Live(ent[u], now')]

(* A purchase counts from the moment it was asked for and replaces whatever *)
(* the member had.                                                          *)
Buy(u) ==
    \E begun \in 0..now, d \in Periods :
        /\ now - begun <= MaxLag
        /\ ent' = [ent EXCEPT ![u] = Live({begun + d}, now)]
        /\ UNCHANGED now

(* A trial is added to whatever the member had. *)
StartTrial(u) ==
    \E begun \in 0..now :
        /\ now - begun <= MaxLag
        /\ ent' = [ent EXCEPT ![u] = @ \cup Live({begun + TrialDays}, now)]
        /\ UNCHANGED now

Next ==
    \/ Tick
    \/ \E u \in User : Buy(u)
    \/ \E u \in TrialUser : StartTrial(u)

Spec == Init /\ [][Next]_vars
=============================================================================
