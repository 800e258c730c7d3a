---------------------------- MODULE AccessReads ----------------------------
(***************************************************************************)
(* The access check seen by its caller.  is_subscriber reads the clock,    *)
(* then waits for its query; purchases, sweeps, cancellations and midnight *)
(* may come in between.  This module adds to Subscriptions the history the *)
(* question "was the answer ever right?" needs: could[t] is the set of     *)
(* truth values "the user has access" has taken since task t read the      *)
(* clock.                                                                  *)
(***************************************************************************)
EXTENDS Subscriptions

VARIABLE could

readVars == <<now, subscriptions, call, could>>

ReadInit == Init /\ could = [t \in Task |-> {}]

(* History only: what the checks in progress have lived through. *)
Witness ==
    could' = [t \in Task |->
                 IF call[t].op = "check" /\ call'[t].op = "check"
                 THEN could[t] \cup {HasAccess(call[t].user)'}
                 ELSE IF call'[t].op = "check"
                 THEN {HasAccess(call'[t].user)}
                 ELSE {}]

ReadNext == Next /\ Witness

ReadSpec == ReadInit /\ [][ReadNext]_readVars

(* An access check that returns answers what was true at some moment        *)
(* between its call and its return: a member whose row is swept, replaced   *)
(* or runs out while the check waits is never told something that was at no *)
(* time the case (get_subscription's cutoff, read before the query).        *)
AnswerWasTrue ==
    [][\A t \in Task :
          CheckReturn(t) => IsSubscriber(subscriptions, call[t].user, call[t].at)
                                \in could[t]]_readVars

=============================================================================
