------------------------ MODULE SubscriptionsProofs ------------------------
(***************************************************************************)
(* Proofs about Subscriptions, for any users, tasks, plans, grace period   *)
(* and bounds: type correctness, the inductive invariant behind            *)
(* Supersession and StatusMatchesDate, what a step may do to a row and to  *)
(* a user's access, and that the table implements AccessPromise.           *)
(***************************************************************************)
EXTENDS Subscriptions, SequenceTheorems, FiniteSetTheorems, TLAPS

-----------------------------------------------------------------------------
(* The operators on the table. *)

(* A table whose rows are replaced one by one is a table of the same length. *)
LEMMA TableMap ==
    ASSUME NEW tbl \in Seq(Row), NEW f \in [1..Len(tbl) -> Row]
    PROVE  f \in Seq(Row) /\ Len(f) = Len(tbl) /\ DOMAIN f = 1..Len(tbl)
<1>1. Len(tbl) \in Nat
  BY LenProperties
<1>2. f \in Seq(Row)
  BY <1>1, SeqDef
<1>3. DOMAIN f = 1..Len(f) /\ Len(f) \in Nat
  BY <1>2, LenProperties
<1>4. Len(f) = Len(tbl)
  BY <1>1, <1>3
<1> QED
  BY <1>2, <1>3, <1>4

(* Appending a row: every old index keeps its row, one index is new. *)
LEMMA TableAppend ==
    ASSUME NEW tbl \in Seq(Row), NEW r \in Row
    PROVE  /\ Append(tbl, r) \in Seq(Row)
           /\ DOMAIN Append(tbl, r) = 1..Len(tbl) + 1
           /\ Append(tbl, r)[Len(tbl) + 1] = r
           /\ \A i \in 1..Len(tbl) : Append(tbl, r)[i] = tbl[i]
<1>1. /\ Append(tbl, r) \in Seq(Row)
      /\ Len(Append(tbl, r)) = Len(tbl) + 1
      /\ \A i \in 1..Len(tbl) : Append(tbl, r)[i] = tbl[i]
      /\ Append(tbl, r)[Len(tbl) + 1] = r
  BY AppendProperties
<1>2. DOMAIN Append(tbl, r) = 1..Len(Append(tbl, r))
  BY <1>1, LenProperties
<1> QED
  BY <1>1, <1>2

(* The sweep keeps the rows where they are and changes nothing but status.  *)
LEMMA SweptTable ==
    ASSUME NEW tbl \in Seq(Row), NEW at \in Int
    PROVE  /\ Swept(tbl, at) \in Seq(Row)
           /\ DOMAIN Swept(tbl, at) = DOMAIN tbl
           /\ \A i \in DOMAIN tbl :
                 /\ Swept(tbl, at)[i].status = StatusAfterSweep(tbl[i], at)
                 /\ Swept(tbl, at)[i].user = tbl[i].user
                 /\ Swept(tbl, at)[i].endAt = tbl[i].endAt
                 /\ Swept(tbl, at)[i].autoRenew = tbl[i].autoRenew
                 /\ Swept(tbl, at)[i].reminded = tbl[i].reminded
<1>1. /\ DOMAIN tbl = 1..Len(tbl)
      /\ \A i \in 1..Len(tbl) : tbl[i] \in Row
  BY LenProperties
<1>2. \A r \in Row : StatusAfterSweep(r, at) \in Status
  BY DEF StatusAfterSweep, Row, Status
<1>3. \A i \in DOMAIN tbl :
        [tbl[i] EXCEPT !.status = StatusAfterSweep(tbl[i], at)] \in Row
  BY <1>1, <1>2 DEF Row
<1>4. Swept(tbl, at) \in [1..Len(tbl) -> Row]
  BY <1>1, <1>3 DEF Swept
<1>5. Swept(tbl, at) \in Seq(Row) /\ DOMAIN Swept(tbl, at) = DOMAIN tbl
  BY <1>1, <1>4, TableMap
<1>6. \A i \in DOMAIN tbl :
        Swept(tbl, at)[i] = [tbl[i] EXCEPT !.status = StatusAfterSweep(tbl[i], at)]
  BY DEF Swept
<1> QED
  BY <1>1, <1>5, <1>6 DEF Row

(* A cancellation changes nothing but auto_renew, and only to FALSE.        *)
LEMMA CancelledTable ==
    ASSUME NEW tbl \in Seq(Row), NEW u \in User
    PROVE  /\ Cancelled(tbl, u) \in Seq(Row)
           /\ DOMAIN Cancelled(tbl, u) = DOMAIN tbl
           /\ \A i \in DOMAIN tbl :
                 /\ Cancelled(tbl, u)[i].status = tbl[i].status
                 /\ Cancelled(tbl, u)[i].user = tbl[i].user
                 /\ Cancelled(tbl, u)[i].endAt = tbl[i].endAt
                 /\ Cancelled(tbl, u)[i].autoRenew => tbl[i].autoRenew
                 /\ Cancelled(tbl, u)[i].reminded = tbl[i].reminded
<1>1. /\ DOMAIN tbl = 1..Len(tbl)
      /\ \A i \in 1..Len(tbl) : tbl[i] \in Row
  BY LenProperties
<1>2. Cancelled(tbl, u) \in [1..Len(tbl) -> Row]
  BY <1>1 DEF Cancelled, Row
<1>3. Cancelled(tbl, u) \in Seq(Row) /\ DOMAIN Cancelled(tbl, u) = DOMAIN tbl
  BY <1>1, <1>2, TableMap
<1>4. \A i \in DOMAIN tbl :
        \/ Cancelled(tbl, u)[i] = [tbl[i] EXCEPT !.autoRenew = FALSE]
        \/ Cancelled(tbl, u)[i] = tbl[i]
  BY DEF Cancelled
<1> QED
  BY <1>1, <1>3, <1>4 DEF Row

(* A mark changes nothing but renewal_reminded_at of its row.               *)
LEMMA RemindedTable ==
    ASSUME NEW tbl \in Seq(Row), NEW k \in DOMAIN tbl
    PROVE  /\ Reminded(tbl, k) \in Seq(Row)
           /\ DOMAIN Reminded(tbl, k) = DOMAIN tbl
           /\ \A i \in DOMAIN tbl :
                 /\ Reminded(tbl, k)[i].status = tbl[i].status
                 /\ Reminded(tbl, k)[i].user = tbl[i].user
                 /\ Reminded(tbl, k)[i].endAt = tbl[i].endAt
                 /\ Reminded(tbl, k)[i].autoRenew = tbl[i].autoRenew
                 /\ tbl[i].reminded => Reminded(tbl, k)[i].reminded
<1>1. /\ DOMAIN tbl = 1..Len(tbl)
      /\ \A i \in 1..Len(tbl) : tbl[i] \in Row
      /\ tbl \in [1..Len(tbl) -> Row]
  BY LenProperties
<1>2. [tbl[k] EXCEPT !.reminded = TRUE] \in Row
  BY <1>1 DEF Row
<1>3. Reminded(tbl, k) = [tbl EXCEPT ![k] = [tbl[k] EXCEPT !.reminded = TRUE]]
  BY DEF Reminded
<1>4. Reminded(tbl, k) \in [1..Len(tbl) -> Row]
  BY <1>1, <1>2, <1>3
<1>5. Reminded(tbl, k) \in Seq(Row) /\ DOMAIN Reminded(tbl, k) = DOMAIN tbl
  BY <1>1, <1>4, TableMap
<1>6. \A i \in DOMAIN tbl :
        Reminded(tbl, k)[i] = IF i = k THEN [tbl[i] EXCEPT !.reminded = TRUE]
                                       ELSE tbl[i]
  BY <1>1, <1>3
<1> QED
  BY <1>1, <1>5, <1>6 DEF Row

(* A purchase closes the user's open rows, touches no other row, and adds   *)
(* the new one at the end.                                                  *)
LEMMA ActivatedTable ==
    ASSUME NEW tbl \in Seq(Row), NEW u \in User, NEW end \in Int
    PROVE  /\ Activated(tbl, u, end) \in Seq(Row)
           /\ DOMAIN Activated(tbl, u, end) = 1..Len(tbl) + 1
           /\ Activated(tbl, u, end)[Len(tbl) + 1] = NewRow(u, end, TRUE, "active")
           /\ \A i \in DOMAIN tbl :
                 LET new == Activated(tbl, u, end)[i] IN
                 /\ tbl[i].user = u => new.status = "expired"
                 /\ tbl[i].user # u => new.status = tbl[i].status
                 /\ new.user = tbl[i].user
                 /\ new.endAt = tbl[i].endAt
                 /\ new.autoRenew = tbl[i].autoRenew
                 /\ new.reminded = tbl[i].reminded
<1> DEFINE closed == [i \in DOMAIN tbl |->
                        IF tbl[i].user = u /\ tbl[i].status \in Open
                        THEN [tbl[i] EXCEPT !.status = "expired"] ELSE tbl[i]]
<1>1. /\ DOMAIN tbl = 1..Len(tbl)
      /\ \A i \in 1..Len(tbl) : tbl[i] \in Row
  BY LenProperties
<1>2. closed \in [1..Len(tbl) -> Row]
  BY <1>1 DEF Row, Status
<1>3. closed \in Seq(Row) /\ Len(closed) = Len(tbl)
  BY <1>2, TableMap
<1>4. NewRow(u, end, TRUE, "active") \in Row
  BY DEF NewRow, Row, Status
<1>5. Activated(tbl, u, end) = Append(closed, NewRow(u, end, TRUE, "active"))
  BY DEF Activated
<1>6. \A i \in DOMAIN tbl :
        closed[i] = IF tbl[i].user = u /\ tbl[i].status \in Open
                    THEN [tbl[i] EXCEPT !.status = "expired"] ELSE tbl[i]
  OBVIOUS
<1> DEFINE r == NewRow(u, end, TRUE, "active")
<1> HIDE DEF closed, r
<1>7. /\ Append(closed, r) \in Seq(Row)
      /\ DOMAIN Append(closed, r) = 1..Len(closed) + 1
      /\ Append(closed, r)[Len(closed) + 1] = r
      /\ \A i \in 1..Len(closed) : Append(closed, r)[i] = closed[i]
  <2>1. r \in Row
    BY <1>4 DEF r
  <2> QED
    BY <1>3, <2>1, TableAppend
<1>8. Activated(tbl, u, end) = Append(closed, r)
  BY <1>5 DEF r
<1>9. ASSUME NEW i \in DOMAIN tbl
      PROVE  LET new == Activated(tbl, u, end)[i] IN
             /\ tbl[i].user = u => new.status = "expired"
             /\ tbl[i].user # u => new.status = tbl[i].status
             /\ new.user = tbl[i].user
             /\ new.endAt = tbl[i].endAt
             /\ new.autoRenew = tbl[i].autoRenew
             /\ new.reminded = tbl[i].reminded
  <2>1. Activated(tbl, u, end)[i] = closed[i]
    BY <1>1, <1>3, <1>7, <1>8
  <2>2. tbl[i] \in Row
    BY <1>1
  <2>3. tbl[i].status \in Open \/ tbl[i].status = "expired"
    BY <2>2 DEF Row, Status, Open
  <2>4. closed[i] = IF tbl[i].user = u /\ tbl[i].status \in Open
                    THEN [tbl[i] EXCEPT !.status = "expired"] ELSE tbl[i]
    BY <1>6
  <2> QED
    BY <2>1, <2>2, <2>3, <2>4 DEF Row
<1> QED
  BY <1>3, <1>7, <1>8, <1>9 DEF r

(* A trial adds its row and touches no other.                               *)
LEMMA TrialTable ==
    ASSUME NEW tbl \in Seq(Row), NEW u \in User, NEW end \in Int
    PROVE  /\ TrialCreated(tbl, u, end) \in Seq(Row)
           /\ DOMAIN TrialCreated(tbl, u, end) = 1..Len(tbl) + 1
           /\ TrialCreated(tbl, u, end)[Len(tbl) + 1] = NewRow(u, end, FALSE, "trial")
           /\ \A i \in DOMAIN tbl : TrialCreated(tbl, u, end)[i] = tbl[i]
<1> DEFINE r == NewRow(u, end, FALSE, "trial")
<1>1. r \in Row
  BY DEF NewRow, Row, Status
<1>2. DOMAIN tbl = 1..Len(tbl)
  BY LenProperties
<1>3. TrialCreated(tbl, u, end) = Append(tbl, r)
  BY DEF TrialCreated
<1> HIDE DEF r
<1>4. /\ Append(tbl, r) \in Seq(Row)
      /\ DOMAIN Append(tbl, r) = 1..Len(tbl) + 1
      /\ Append(tbl, r)[Len(tbl) + 1] = r
      /\ \A i \in 1..Len(tbl) : Append(tbl, r)[i] = tbl[i]
  BY <1>1, TableAppend
<1> QED
  BY <1>2, <1>3, <1>4 DEF r

-----------------------------------------------------------------------------
(* Type correctness. *)

(* What a call record holds, by operation. *)
LEMMA CallFields ==
    ASSUME NEW c \in Call
    PROVE  /\ c.op # "idle" => c.at \in 0..Horizon /\ c.at \in Int
           /\ c.op = "activate" => /\ c.user \in User
                                  /\ c.days \in Periods
                                  /\ c.at + c.days \in Int
           /\ c.op \in {"trial", "check"} => c.user \in User
           /\ c.op = "trial" => c.at + TrialDays \in Int
<1> USE PeriodsAssumption, DaysAssumption, BoundsAssumption
        DEF PeriodsAssumption, DaysAssumption, BoundsAssumption
<1>1. CASE c = Idle
  BY <1>1 DEF Idle
<1>2. CASE c \in [op : {"activate"}, user : User, days : Periods, at : 0..Horizon]
  <2>1. c.op = "activate" /\ c.user \in User /\ c.days \in Periods /\ c.at \in 0..Horizon
    BY <1>2
  <2>2. \A d \in Periods : d \in Int
    OBVIOUS
  <2>3. c.days \in Int
    BY <2>1, <2>2, Zenon
  <2>4. c.at \in Int
    BY <2>1
  <2>5. c.at + c.days \in Int
    BY <2>3, <2>4
  <2> QED
    BY <2>1, <2>4, <2>5
<1>3. CASE c \in [op : {"trial", "check"}, user : User, at : 0..Horizon]
  BY <1>3
<1>4. CASE c \in [op : {"expire"}, at : 0..Horizon]
  BY <1>4
<1> QED
  BY <1>1, <1>2, <1>3, <1>4 DEF Call

LEMMA TypeInductive == TypeOK /\ [Next]_vars => TypeOK'
<1> USE PeriodsAssumption, DaysAssumption, TrialUserAssumption, BoundsAssumption
        DEF PeriodsAssumption, DaysAssumption, TrialUserAssumption, BoundsAssumption
<1> SUFFICES ASSUME TypeOK, [Next]_vars PROVE TypeOK'
  OBVIOUS
<1> USE DEF TypeOK
<1>0. now \in Int /\ DOMAIN subscriptions = 1..Len(subscriptions)
  BY LenProperties
<1>1. CASE Tick
  BY <1>1 DEF Tick
<1>2. CASE Crash
  BY <1>2 DEF Crash, Call
<1>3. ASSUME NEW t \in Task, NEW c \in Call, Begin(t, c) PROVE TypeOK'
  BY <1>3 DEF Begin
<1>4. ASSUME NEW t \in Task, Return(t) PROVE call' \in [Task -> Call]
  BY <1>4 DEF Return, Call
<1>5. ASSUME NEW t \in Task, NEW u \in User, NEW d \in Periods, ActivateBegin(t, u, d)
      PROVE TypeOK'
  <2>1. [op |-> "activate", user |-> u, days |-> d, at |-> now] \in Call
    BY DEF Call
  <2> QED
    BY <1>5, <1>3, <2>1 DEF ActivateBegin
<1>6. ASSUME NEW t \in Task, ActivateCommit(t) PROVE TypeOK'
  <2>1. call[t].user \in User /\ call[t].at + call[t].days \in Int
    BY <1>6, CallFields DEF ActivateCommit
  <2>2. subscriptions' \in Seq(Row)
    BY <1>6, <2>1, ActivatedTable DEF ActivateCommit
  <2> QED
    BY <1>4, <1>6, <2>2 DEF ActivateCommit
<1>7. ASSUME NEW t \in Task, NEW u \in TrialUser, TrialBegin(t, u) PROVE TypeOK'
  <2>1. [op |-> "trial", user |-> u, at |-> now] \in Call
    BY DEF Call
  <2> QED
    BY <1>7, <1>3, <2>1 DEF TrialBegin
<1>8. ASSUME NEW t \in Task, TrialCommit(t) PROVE TypeOK'
  <2>1. call[t].user \in User /\ call[t].at + TrialDays \in Int
    BY <1>8, CallFields DEF TrialCommit
  <2>2. subscriptions' \in Seq(Row)
    BY <1>8, <2>1, TrialTable DEF TrialCommit
  <2> QED
    BY <1>4, <1>8, <2>2 DEF TrialCommit
<1>9. ASSUME NEW t \in Task, ExpireBegin(t) PROVE TypeOK'
  <2>1. [op |-> "expire", at |-> now] \in Call
    BY DEF Call
  <2> QED
    BY <1>9, <1>3, <2>1 DEF ExpireBegin
<1>10. ASSUME NEW t \in Task, ExpireCommit(t) PROVE TypeOK'
  <2>1. call[t].at \in Int
    BY <1>10, CallFields DEF ExpireCommit
  <2>2. subscriptions' \in Seq(Row)
    BY <1>10, <2>1, SweptTable DEF ExpireCommit
  <2> QED
    BY <1>4, <1>10, <2>2 DEF ExpireCommit
<1>11. ASSUME NEW t \in Task, NEW u \in User, CheckBegin(t, u) PROVE TypeOK'
  <2>1. [op |-> "check", user |-> u, at |-> now] \in Call
    BY DEF Call
  <2> QED
    BY <1>11, <1>3, <2>1 DEF CheckBegin
<1>12. ASSUME NEW t \in Task, CheckReturn(t) \/ Fail(t) PROVE TypeOK'
  BY <1>4, <1>12 DEF CheckReturn, Fail
<1>13. ASSUME NEW u \in User, Cancel(u) PROVE TypeOK'
  BY <1>13, CancelledTable DEF Cancel
<1>14. ASSUME NEW i \in DOMAIN subscriptions, MarkReminded(i) PROVE TypeOK'
  BY <1>14, RemindedTable DEF MarkReminded
<1>15. CASE UNCHANGED vars
  BY <1>15 DEF vars
<1> QED
  BY <1>1, <1>2, <1>5, <1>6, <1>7, <1>8, <1>9, <1>10, <1>11, <1>12, <1>13, <1>14, <1>15
     DEF Next

(* The tasks, the table and the calendar always hold what the code puts     *)
(* there, whatever the interleaving: no call is about an unknown user or    *)
(* has read the clock of a day beyond the horizon.                          *)
THEOREM TypeCorrect == Spec => []TypeOK
<1>1. Init => TypeOK
  BY EmptySeq, BoundsAssumption DEF BoundsAssumption, Init, TypeOK, Call, Idle
<1> QED
  BY <1>1, TypeInductive, PTL DEF Spec

-----------------------------------------------------------------------------
(* The inductive invariant. *)

(* The steps, by what they do to the table and the calendar. *)
LEMMA StepCases ==
    ASSUME [Next]_vars
    PROVE  \/ UNCHANGED <<now, subscriptions>>
           \/ Tick
           \/ \E t \in Task : ActivateCommit(t)
           \/ \E t \in Task : TrialCommit(t)
           \/ \E t \in Task : ExpireCommit(t)
           \/ \E u \in User : Cancel(u)
           \/ \E i \in DOMAIN subscriptions : MarkReminded(i)
BY DEF Next, vars, Crash, Fail, CheckReturn, Begin,
       ActivateBegin, TrialBegin, ExpireBegin, CheckBegin

LEMMA CallsInductive ==
    TypeOK /\ CallsAreRecent /\ [Next]_vars => CallsAreRecent'
<1> USE DaysAssumption, TrialUserAssumption, BoundsAssumption
        DEF DaysAssumption, TrialUserAssumption, BoundsAssumption
<1> SUFFICES ASSUME TypeOK, CallsAreRecent, [Next]_vars,
                    NEW t \in Task
             PROVE  /\ call'[t].op # "idle" => /\ call'[t].at <= now'
                                               /\ now' - call'[t].at <= MaxLag
                    /\ call'[t].op = "trial" => call'[t].user \in TrialUser
  BY DEF CallsAreRecent
<1> DEFINE Good(c) ==
            /\ c.op # "idle" => c.at <= now /\ now - c.at <= MaxLag
            /\ c.op = "trial" => c.user \in TrialUser
<1>0. /\ call \in [Task -> Call]
      /\ now \in Int
      /\ \A s \in Task : Good(call[s])
  BY DEF TypeOK, CallsAreRecent
<1>1. CASE Tick
  <2>1. call[t].op # "idle" => now - call[t].at < MaxLag /\ call[t].at \in Int
    BY <1>0, <1>1, CallFields DEF Tick
  <2>2. call' = call /\ now' = now + 1
    BY <1>1 DEF Tick
  <2>3. call[t].op # "idle" => call[t].at <= now + 1 /\ (now + 1) - call[t].at <= MaxLag
    BY <1>0, <2>1
  <2> QED
    BY <1>0, <2>2, <2>3
<1>2. ASSUME NEW s \in Task, NEW c, call' = [call EXCEPT ![s] = c], now' = now, Good(c)
      PROVE  Good(call'[t]) /\ now' = now
  <2>1. call'[t] = IF t = s THEN c ELSE call[t]
    BY <1>0, <1>2
  <2> QED
    BY <1>0, <1>2, <2>1
<1>3. Good(Idle)
  BY DEF Idle
<1>4. ASSUME NEW s \in Task, Return(s), now' = now PROVE Good(call'[t]) /\ now' = now
  <2> HIDE DEF Good
  <2> QED
    BY <1>2, <1>3, <1>4 DEF Return
<1>5. CASE Crash
  BY <1>5, <1>3 DEF Crash
<1>6. ASSUME NEW s \in Task, NEW u \in User, NEW d \in Periods, ActivateBegin(s, u, d)
      PROVE  Good(call'[t]) /\ now' = now
  <2>1. Good([op |-> "activate", user |-> u, days |-> d, at |-> now])
    BY <1>0
  <2> HIDE DEF Good
  <2> QED
    BY <1>2, <1>6, <2>1 DEF ActivateBegin, Begin
<1>7. ASSUME NEW s \in Task, NEW u \in TrialUser, TrialBegin(s, u)
      PROVE  Good(call'[t]) /\ now' = now
  <2>1. Good([op |-> "trial", user |-> u, at |-> now])
    BY <1>0
  <2> HIDE DEF Good
  <2> QED
    BY <1>2, <1>7, <2>1 DEF TrialBegin, Begin
<1>8. ASSUME NEW s \in Task, ExpireBegin(s) PROVE Good(call'[t]) /\ now' = now
  <2>1. Good([op |-> "expire", at |-> now])
    BY <1>0
  <2> HIDE DEF Good
  <2> QED
    BY <1>2, <1>8, <2>1 DEF ExpireBegin, Begin
<1>9. ASSUME NEW s \in Task, NEW u \in User, CheckBegin(s, u)
      PROVE  Good(call'[t]) /\ now' = now
  <2>1. Good([op |-> "check", user |-> u, at |-> now])
    BY <1>0
  <2> HIDE DEF Good
  <2> QED
    BY <1>2, <1>9, <2>1 DEF CheckBegin, Begin
<1>10. ASSUME NEW s \in Task,
              ActivateCommit(s) \/ TrialCommit(s) \/ ExpireCommit(s)
                \/ CheckReturn(s) \/ Fail(s)
       PROVE  Good(call'[t]) /\ now' = now
  <2> HIDE DEF Good
  <2> QED
    BY <1>4, <1>10 DEF ActivateCommit, TrialCommit, ExpireCommit, CheckReturn, Fail
<1>11. ASSUME NEW u \in User, Cancel(u) PROVE Good(call'[t]) /\ now' = now
  BY <1>0, <1>11 DEF Cancel
<1>12. ASSUME NEW i \in DOMAIN subscriptions, MarkReminded(i)
       PROVE  Good(call'[t]) /\ now' = now
  BY <1>0, <1>12 DEF MarkReminded
<1>13. CASE UNCHANGED vars
  BY <1>0, <1>13 DEF vars
<1> QED
  BY <1>1, <1>5, <1>6, <1>7, <1>8, <1>9, <1>10, <1>11, <1>12, <1>13 DEF Next

(* What a purchase does to the table, in the terms of its call. *)
LEMMA ActivateEffect ==
    ASSUME TypeOK, NEW t \in Task, ActivateCommit(t)
    PROVE  LET u == call[t].user
               end == call[t].at + call[t].days
           IN  /\ u \in User /\ end \in Int
               /\ now' = now
               /\ DOMAIN subscriptions = 1..Len(subscriptions)
               /\ Len(subscriptions) \in Nat
               /\ DOMAIN subscriptions' = 1..Len(subscriptions) + 1
               /\ subscriptions'[Len(subscriptions) + 1].user = u
               /\ subscriptions'[Len(subscriptions) + 1].endAt = end
               /\ subscriptions'[Len(subscriptions) + 1].status = "active"
               /\ \A i \in DOMAIN subscriptions :
                     LET new == subscriptions'[i] IN
                     /\ subscriptions[i].user = u => new.status = "expired"
                     /\ subscriptions[i].user # u => new.status = subscriptions[i].status
                     /\ new.user = subscriptions[i].user
                     /\ new.endAt = subscriptions[i].endAt
                     /\ new.autoRenew = subscriptions[i].autoRenew
                     /\ new.reminded = subscriptions[i].reminded
<1>1. call[t] \in Call /\ subscriptions \in Seq(Row)
  BY DEF TypeOK
<1>2. call[t].user \in User /\ call[t].at + call[t].days \in Int
  BY <1>1, CallFields DEF ActivateCommit
<1>3. /\ subscriptions' = Activated(subscriptions, call[t].user, call[t].at + call[t].days)
      /\ now' = now
  BY DEF ActivateCommit
<1>4. DOMAIN subscriptions = 1..Len(subscriptions) /\ Len(subscriptions) \in Nat
  BY <1>1, LenProperties
<1> DEFINE u == call[t].user
           end == call[t].at + call[t].days
<1> HIDE DEF u, end
<1>5. u \in User /\ end \in Int /\ subscriptions' = Activated(subscriptions, u, end)
  BY <1>2, <1>3 DEF u, end
<1>6. /\ DOMAIN Activated(subscriptions, u, end) = 1..Len(subscriptions) + 1
      /\ Activated(subscriptions, u, end)[Len(subscriptions) + 1]
           = NewRow(u, end, TRUE, "active")
      /\ \A i \in DOMAIN subscriptions :
            LET new == Activated(subscriptions, u, end)[i] IN
            /\ subscriptions[i].user = u => new.status = "expired"
            /\ subscriptions[i].user # u => new.status = subscriptions[i].status
            /\ new.user = subscriptions[i].user
            /\ new.endAt = subscriptions[i].endAt
            /\ new.autoRenew = subscriptions[i].autoRenew
            /\ new.reminded = subscriptions[i].reminded
  BY <1>1, <1>5, ActivatedTable, Zenon
<1>7. LET r == NewRow(u, end, TRUE, "active")
      IN  r.user = u /\ r.endAt = end /\ r.status = "active"
  BY DEF NewRow
<1>8. \A i \in DOMAIN subscriptions :
         LET new == subscriptions'[i] IN
         /\ subscriptions[i].user = u => new.status = "expired"
         /\ subscriptions[i].user # u => new.status = subscriptions[i].status
         /\ new.user = subscriptions[i].user
         /\ new.endAt = subscriptions[i].endAt
         /\ new.autoRenew = subscriptions[i].autoRenew
         /\ new.reminded = subscriptions[i].reminded
  BY <1>5, <1>6
<1>9. /\ now' = now
      /\ DOMAIN subscriptions = 1..Len(subscriptions)
      /\ Len(subscriptions) \in Nat
      /\ DOMAIN subscriptions' = 1..Len(subscriptions) + 1
      /\ subscriptions'[Len(subscriptions) + 1].user = u
      /\ subscriptions'[Len(subscriptions) + 1].endAt = end
      /\ subscriptions'[Len(subscriptions) + 1].status = "active"
  BY <1>3, <1>4, <1>5, <1>6, <1>7
<1> QED
  BY <1>5, <1>8, <1>9, Zenon DEF u, end

LEMMA TrialEffect ==
    ASSUME TypeOK, NEW t \in Task, TrialCommit(t)
    PROVE  LET u == call[t].user
               end == call[t].at + TrialDays
           IN  /\ u \in User /\ end \in Int
               /\ now' = now
               /\ DOMAIN subscriptions = 1..Len(subscriptions)
               /\ Len(subscriptions) \in Nat
               /\ DOMAIN subscriptions' = 1..Len(subscriptions) + 1
               /\ subscriptions'[Len(subscriptions) + 1].user = u
               /\ subscriptions'[Len(subscriptions) + 1].endAt = end
               /\ subscriptions'[Len(subscriptions) + 1].status = "trial"
               /\ \A i \in DOMAIN subscriptions : subscriptions'[i] = subscriptions[i]
<1>1. call[t] \in Call /\ subscriptions \in Seq(Row)
  BY DEF TypeOK
<1>2. call[t].user \in User /\ call[t].at + TrialDays \in Int
  BY <1>1, CallFields DEF TrialCommit
<1>3. /\ subscriptions' = TrialCreated(subscriptions, call[t].user, call[t].at + TrialDays)
      /\ now' = now
  BY DEF TrialCommit
<1>4. DOMAIN subscriptions = 1..Len(subscriptions) /\ Len(subscriptions) \in Nat
  BY <1>1, LenProperties
<1> DEFINE u == call[t].user
           end == call[t].at + TrialDays
<1> HIDE DEF u, end
<1>5. u \in User /\ end \in Int /\ subscriptions' = TrialCreated(subscriptions, u, end)
  BY <1>2, <1>3 DEF u, end
<1>6. /\ DOMAIN TrialCreated(subscriptions, u, end) = 1..Len(subscriptions) + 1
      /\ TrialCreated(subscriptions, u, end)[Len(subscriptions) + 1]
           = NewRow(u, end, FALSE, "trial")
      /\ \A i \in DOMAIN subscriptions :
            TrialCreated(subscriptions, u, end)[i] = subscriptions[i]
  BY <1>1, <1>5, TrialTable
<1>7. LET r == NewRow(u, end, FALSE, "trial")
      IN  r.user = u /\ r.endAt = end /\ r.status = "trial"
  BY DEF NewRow
<1> QED
  BY <1>3, <1>4, <1>5, <1>6, <1>7, Zenon DEF u, end

(* What a sweep does: its clock reading is not of the future, and only the  *)
(* status column changes.                                                   *)
LEMMA ExpireEffect ==
    ASSUME TypeOK, CallsAreRecent, NEW t \in Task, ExpireCommit(t)
    PROVE  /\ call[t].at \in Int /\ call[t].at <= now
           /\ now' = now
           /\ DOMAIN subscriptions' = DOMAIN subscriptions
           /\ \A i \in DOMAIN subscriptions :
                 LET new == subscriptions'[i] IN
                 /\ new.status = StatusAfterSweep(subscriptions[i], call[t].at)
                 /\ new.user = subscriptions[i].user
                 /\ new.endAt = subscriptions[i].endAt
                 /\ new.autoRenew = subscriptions[i].autoRenew
                 /\ new.reminded = subscriptions[i].reminded
<1>1. call[t] \in Call /\ subscriptions \in Seq(Row)
  BY DEF TypeOK
<1>2. call[t].at \in Int /\ call[t].at <= now
  BY <1>1, CallFields DEF ExpireCommit, CallsAreRecent
<1> QED
  BY <1>1, <1>2, SweptTable DEF ExpireCommit

(* Cancellations and marks leave alone all that access depends on. *)
LEMMA FlagEffect ==
    ASSUME TypeOK,
           \/ \E u \in User : Cancel(u)
           \/ \E i \in DOMAIN subscriptions : MarkReminded(i)
    PROVE  /\ now' = now
           /\ DOMAIN subscriptions' = DOMAIN subscriptions
           /\ \A i \in DOMAIN subscriptions :
                 LET new == subscriptions'[i] IN
                 /\ new.status = subscriptions[i].status
                 /\ new.user = subscriptions[i].user
                 /\ new.endAt = subscriptions[i].endAt
                 /\ new.autoRenew => subscriptions[i].autoRenew
                 /\ subscriptions[i].reminded => new.reminded
<1>1. subscriptions \in Seq(Row)
  BY DEF TypeOK
<1>2. ASSUME NEW u \in User, Cancel(u)
      PROVE  subscriptions' = Cancelled(subscriptions, u) /\ now' = now
  BY <1>2 DEF Cancel
<1>3. ASSUME NEW k \in DOMAIN subscriptions, MarkReminded(k)
      PROVE  subscriptions' = Reminded(subscriptions, k) /\ now' = now
  BY <1>3 DEF MarkReminded
<1>4. CASE \E u \in User : Cancel(u)
  BY <1>1, <1>2, <1>4, CancelledTable
<1>5. CASE \E i \in DOMAIN subscriptions : MarkReminded(i)
  BY <1>1, <1>3, <1>5, RemindedTable
<1> QED
  BY <1>4, <1>5

(* A purchase closes all that is older, a trial is a trial user's, a sweep  *)
(* makes nothing active and reopens nothing.                                *)
LEMMA SupersessionInductive ==
    TypeOK /\ CallsAreRecent /\ Supersession /\ [Next]_vars => Supersession'
<1> SUFFICES ASSUME TypeOK, CallsAreRecent, Supersession, [Next]_vars,
                    NEW i \in DOMAIN subscriptions', NEW j \in DOMAIN subscriptions',
                    i < j,
                    subscriptions'[i].user = subscriptions'[j].user,
                    \/ subscriptions'[j].status = "active"
                    \/ subscriptions'[j].user \notin TrialUser
             PROVE  subscriptions'[i].status = "expired"
  BY DEF Supersession
<1>1. CASE UNCHANGED <<now, subscriptions>> \/ Tick
  BY <1>1 DEF Tick, Supersession
<1>2. CASE \E t \in Task : ActivateCommit(t)
  <2> PICK t \in Task : ActivateCommit(t)
    BY <1>2
  <2> DEFINE n == Len(subscriptions)
             u == call[t].user
  <2>1. /\ n \in Nat
        /\ DOMAIN subscriptions = 1..n
        /\ DOMAIN subscriptions' = 1..n + 1
        /\ subscriptions'[n + 1].user = u
        /\ \A k \in DOMAIN subscriptions :
              /\ subscriptions'[k].user = subscriptions[k].user
              /\ subscriptions[k].user = u => subscriptions'[k].status = "expired"
              /\ subscriptions[k].user # u =>
                    subscriptions'[k].status = subscriptions[k].status
    BY ActivateEffect, Zenon
  <2> HIDE DEF n, u
  <2>2. i \in DOMAIN subscriptions
    BY <2>1
  <2>3. CASE j = n + 1
    BY <2>1, <2>2, <2>3
  <2>4. CASE j # n + 1
    <3>1. j \in DOMAIN subscriptions
      BY <2>1, <2>4
    <3> QED
      BY <2>1, <2>2, <3>1 DEF Supersession
  <2> QED
    BY <2>3, <2>4
<1>3. CASE \E t \in Task : TrialCommit(t)
  <2> PICK t \in Task : TrialCommit(t)
    BY <1>3
  <2> DEFINE n == Len(subscriptions)
  <2>1. /\ n \in Nat
        /\ DOMAIN subscriptions = 1..n
        /\ DOMAIN subscriptions' = 1..n + 1
        /\ subscriptions'[n + 1].user = call[t].user
        /\ subscriptions'[n + 1].status = "trial"
        /\ \A k \in DOMAIN subscriptions : subscriptions'[k] = subscriptions[k]
    BY TrialEffect, Zenon
  <2>2. call[t].user \in TrialUser
    BY DEF CallsAreRecent, TrialCommit
  <2> HIDE DEF n
  <2>3. j # n + 1
    BY <2>1, <2>2
  <2>4. i \in DOMAIN subscriptions /\ j \in DOMAIN subscriptions
    BY <2>1, <2>3
  <2> QED
    BY <2>1, <2>4 DEF Supersession
<1>4. CASE \E t \in Task : ExpireCommit(t)
  <2> PICK t \in Task : ExpireCommit(t)
    BY <1>4
  <2>1. /\ DOMAIN subscriptions' = DOMAIN subscriptions
        /\ \A k \in DOMAIN subscriptions :
              /\ subscriptions'[k].user = subscriptions[k].user
              /\ subscriptions'[k].status
                    = StatusAfterSweep(subscriptions[k], call[t].at)
    BY ExpireEffect
  <2>2. ASSUME NEW r PROVE /\ StatusAfterSweep(r, call[t].at) = "active" => r.status = "active"
                           /\ r.status = "expired" =>
                                 StatusAfterSweep(r, call[t].at) = "expired"
    BY DEF StatusAfterSweep, Open
  <2> QED
    BY <2>1, <2>2 DEF Supersession
<1>5. CASE \/ \E u \in User : Cancel(u)
           \/ \E k \in DOMAIN subscriptions : MarkReminded(k)
  BY <1>5, FlagEffect DEF Supersession
<1> QED
  BY <1>1, <1>2, <1>3, <1>4, <1>5, StepCases

(* No step writes a status its row's date does not bear out: the clock      *)
(* reading of a sweep is never later than its commit.                       *)
LEMMA StatusInductive ==
    TypeOK /\ CallsAreRecent /\ StatusMatchesDate /\ [Next]_vars => StatusMatchesDate'
<1> USE DaysAssumption DEF DaysAssumption
<1> DEFINE Fits(tbl, t, i) ==
            /\ tbl[i].status = "grace" => tbl[i].endAt < t
            /\ tbl[i].status = "expired" =>
                  \/ tbl[i].endAt + GraceDays <= t
                  \/ \E j \in DOMAIN tbl : j > i /\ tbl[j].user = tbl[i].user
<1>0. StatusMatchesDate <=> \A i \in DOMAIN subscriptions : Fits(subscriptions, now, i)
  BY Zenon DEF StatusMatchesDate
<1>00. StatusMatchesDate' <=> \A i \in DOMAIN subscriptions' : Fits(subscriptions', now', i)
  BY Zenon DEF StatusMatchesDate
<1> SUFFICES ASSUME TypeOK, CallsAreRecent, StatusMatchesDate, [Next]_vars,
                    NEW i \in DOMAIN subscriptions'
             PROVE  Fits(subscriptions', now', i)
  BY <1>00
<1>01. /\ now \in Int
       /\ \A k \in DOMAIN subscriptions : subscriptions[k].endAt \in Int
       /\ DOMAIN subscriptions = 1..Len(subscriptions)
       /\ Len(subscriptions) \in Nat
  <2>1. subscriptions \in Seq(Row) /\ now \in Int
    BY DEF TypeOK
  <2>2. /\ DOMAIN subscriptions = 1..Len(subscriptions)
        /\ \A k \in 1..Len(subscriptions) : subscriptions[k] \in Row
        /\ Len(subscriptions) \in Nat
    BY <2>1, LenProperties
  <2> QED
    BY <2>1, <2>2 DEF Row
<1>1. CASE UNCHANGED <<now, subscriptions>>
  BY <1>0, <1>1
<1>2. CASE Tick
  <2>1. subscriptions' = subscriptions /\ now' = now + 1
    BY <1>2 DEF Tick
  <2>2. Fits(subscriptions, now, i)
    BY <1>0, <2>1
  <2> QED
    BY <1>01, <2>1, <2>2
<1>3. CASE \E t \in Task : ActivateCommit(t)
  <2> PICK t \in Task : ActivateCommit(t)
    BY <1>3
  <2> DEFINE n == Len(subscriptions)
             u == call[t].user
  <2>1. /\ now' = now
        /\ DOMAIN subscriptions' = 1..n + 1
        /\ subscriptions'[n + 1].user = u
        /\ subscriptions'[n + 1].status = "active"
        /\ \A k \in DOMAIN subscriptions :
              /\ subscriptions'[k].user = subscriptions[k].user
              /\ subscriptions'[k].endAt = subscriptions[k].endAt
              /\ subscriptions[k].user # u =>
                    subscriptions'[k].status = subscriptions[k].status
              /\ subscriptions[k].user = u => subscriptions'[k].status = "expired"
    BY ActivateEffect, Zenon
  <2> HIDE DEF u
  <2>2. CASE i = n + 1
    BY <2>1, <2>2
  <2>3. CASE i \in DOMAIN subscriptions /\ subscriptions[i].user = u
    <3>1. n + 1 \in DOMAIN subscriptions' /\ n + 1 > i
      BY <1>01, <2>1, <2>3
    <3> QED
      BY <2>1, <2>3, <3>1
  <2>4. CASE i \in DOMAIN subscriptions /\ subscriptions[i].user # u
    <3>1. Fits(subscriptions, now, i)
      BY <1>0, <2>4
    <3>2. DOMAIN subscriptions \subseteq DOMAIN subscriptions'
      BY <1>01, <2>1
    <3> QED
      BY <2>1, <2>4, <3>1, <3>2
  <2> QED
    BY <1>01, <2>1, <2>2, <2>3, <2>4
<1>4. CASE \E t \in Task : TrialCommit(t)
  <2> PICK t \in Task : TrialCommit(t)
    BY <1>4
  <2> DEFINE n == Len(subscriptions)
  <2>1. /\ now' = now
        /\ DOMAIN subscriptions' = 1..n + 1
        /\ subscriptions'[n + 1].status = "trial"
        /\ \A k \in DOMAIN subscriptions : subscriptions'[k] = subscriptions[k]
    BY TrialEffect, Zenon
  <2>2. CASE i = n + 1
    BY <2>1, <2>2
  <2>3. CASE i \in DOMAIN subscriptions
    <3>1. Fits(subscriptions, now, i)
      BY <1>0, <2>3
    <3>2. DOMAIN subscriptions \subseteq DOMAIN subscriptions'
      BY <1>01, <2>1
    <3> QED
      BY <2>1, <2>3, <3>1, <3>2
  <2> QED
    BY <1>01, <2>1, <2>2, <2>3
<1>5. CASE \E t \in Task : ExpireCommit(t)
  <2> PICK t \in Task : ExpireCommit(t)
    BY <1>5
  <2>1. /\ now' = now
        /\ call[t].at \in Int /\ call[t].at <= now
        /\ DOMAIN subscriptions' = DOMAIN subscriptions
        /\ \A k \in DOMAIN subscriptions :
              /\ subscriptions'[k].user = subscriptions[k].user
              /\ subscriptions'[k].endAt = subscriptions[k].endAt
              /\ subscriptions'[k].status
                    = StatusAfterSweep(subscriptions[k], call[t].at)
    BY ExpireEffect
  <2>2. Fits(subscriptions, now, i) /\ subscriptions[i].endAt \in Int
    BY <1>0, <1>01, <2>1
  <2> DEFINE old == subscriptions[i].status
             new == subscriptions'[i].status
  <2>3. /\ new = "grace" => old = "grace" \/ subscriptions[i].endAt < call[t].at
        /\ new = "expired" =>
              old = "expired" \/ subscriptions[i].endAt <= call[t].at - GraceDays
    BY <2>1 DEF StatusAfterSweep
  <2> HIDE DEF old, new
  <2>4. new = "grace" => subscriptions[i].endAt < now
    BY <1>01, <2>1, <2>2, <2>3 DEF old
  <2>5. new = "expired" =>
           \/ subscriptions[i].endAt + GraceDays <= now
           \/ \E j \in DOMAIN subscriptions :
                 j > i /\ subscriptions[j].user = subscriptions[i].user
    BY <1>01, <2>1, <2>2, <2>3 DEF old
  <2> QED
    BY <2>1, <2>4, <2>5 DEF new
<1>6. CASE \/ \E u \in User : Cancel(u)
           \/ \E k \in DOMAIN subscriptions : MarkReminded(k)
  <2>1. /\ now' = now
        /\ DOMAIN subscriptions' = DOMAIN subscriptions
        /\ \A k \in DOMAIN subscriptions :
              /\ subscriptions'[k].user = subscriptions[k].user
              /\ subscriptions'[k].endAt = subscriptions[k].endAt
              /\ subscriptions'[k].status = subscriptions[k].status
    BY <1>6, FlagEffect
  <2>2. Fits(subscriptions, now, i)
    BY <1>0, <2>1
  <2> QED
    BY <2>1, <2>2
<1> QED
  BY <1>1, <1>2, <1>3, <1>4, <1>5, <1>6, StepCases

LEMMA InitInv == Init => SubscriptionsInv
<1> SUFFICES ASSUME Init PROVE SubscriptionsInv
  OBVIOUS
<1>1. TypeOK
  BY EmptySeq, BoundsAssumption DEF BoundsAssumption, Init, TypeOK, Call, Idle
<1>2. DOMAIN subscriptions = {}
  BY DEF Init
<1>3. CallsAreRecent
  BY DEF Init, CallsAreRecent, Idle
<1> QED
  BY <1>1, <1>2, <1>3 DEF SubscriptionsInv, Supersession, StatusMatchesDate

LEMMA StepInv == SubscriptionsInv /\ [Next]_vars => SubscriptionsInv'
BY TypeInductive, CallsInductive, SupersessionInductive, StatusInductive
   DEF SubscriptionsInv

(* The invariant holds of every reachable state ...                         *)
THEOREM InvariantHolds == Spec => []SubscriptionsInv
BY InitInv, StepInv, PTL DEF Spec

(* ... and with it: whatever purchases race and whatever sweeps run between *)
(* them, at most the newest purchase of a user is open (any number of       *)
(* users, tasks, plans and rows).                                           *)
THEOREM SupersessionHolds == Spec => []Supersession
<1>1. SubscriptionsInv => Supersession
  BY DEF SubscriptionsInv
<1> QED
  BY <1>1, InvariantHolds, PTL

(* No paid subscription is closed before its date, grace period included,   *)
(* unless the user has bought again or was given a trial, and none is in    *)
(* grace before its end date, for any delay of the sweep.                   *)
THEOREM StatusMatchesDateHolds == Spec => []StatusMatchesDate
<1>1. SubscriptionsInv => StatusMatchesDate
  BY DEF SubscriptionsInv
<1> QED
  BY <1>1, InvariantHolds, PTL

-----------------------------------------------------------------------------
(* What a step may do to a row. *)

(* No step reopens a row, takes it back from grace, renews it again after a *)
(* cancellation, forgets a reminder or moves an end date.                   *)
THEOREM RowsMoveForwardHolds == Spec => RowsMoveForward
<1> DEFINE Forward(old, new) ==
            /\ Stage(old.status) <= Stage(new.status)
            /\ new.autoRenew => old.autoRenew
            /\ old.reminded => new.reminded
            /\ new.user = old.user /\ new.endAt = old.endAt
<1>1. ASSUME SubscriptionsInv, [Next]_vars, NEW i \in DOMAIN subscriptions
      PROVE  Forward(subscriptions[i], subscriptions'[i])
  <2>0. TypeOK /\ CallsAreRecent
    BY <1>1 DEF SubscriptionsInv
  <2>1. subscriptions[i].status \in Status
    <3>1. subscriptions \in Seq(Row)
      BY <2>0 DEF TypeOK
    <3>2. subscriptions[i] \in Row
      BY <1>1, <3>1
    <3> QED
      BY <3>2 DEF Row
  <2>2. \A st \in Status : Stage(st) \in {0, 1, 2} /\ (Stage(st) <= Stage(st))
    BY DEF Stage, Status
  <2>3. CASE subscriptions' = subscriptions
    BY <2>1, <2>2, <2>3
  <2>4. CASE \E t \in Task : ActivateCommit(t)
    <3> PICK t \in Task : ActivateCommit(t)
      BY <2>4
    <3>1. LET new == subscriptions'[i] IN
          /\ new.status = "expired" \/ new.status = subscriptions[i].status
          /\ new.user = subscriptions[i].user
          /\ new.endAt = subscriptions[i].endAt
          /\ new.autoRenew = subscriptions[i].autoRenew
          /\ new.reminded = subscriptions[i].reminded
      BY <2>0, ActivateEffect, Zenon
    <3>2. \A st \in Status : Stage(st) <= Stage("expired")
      BY DEF Stage, Status
    <3> QED
      BY <2>1, <2>2, <3>1, <3>2
  <2>5. CASE \E t \in Task : TrialCommit(t)
    <3>1. subscriptions'[i] = subscriptions[i]
      BY <2>0, <2>5, TrialEffect, Zenon
    <3> QED
      BY <2>1, <2>2, <3>1
  <2>6. CASE \E t \in Task : ExpireCommit(t)
    <3> PICK t \in Task : ExpireCommit(t)
      BY <2>6
    <3>1. LET new == subscriptions'[i] IN
          /\ new.status = StatusAfterSweep(subscriptions[i], call[t].at)
          /\ new.user = subscriptions[i].user
          /\ new.endAt = subscriptions[i].endAt
          /\ new.autoRenew = subscriptions[i].autoRenew
          /\ new.reminded = subscriptions[i].reminded
      BY <2>0, ExpireEffect, Zenon
    <3>2. Stage(subscriptions[i].status)
            <= Stage(StatusAfterSweep(subscriptions[i], call[t].at))
      BY <2>1 DEF StatusAfterSweep, Stage, Status, Open
    <3> QED
      BY <3>1, <3>2
  <2>7. CASE \/ \E u \in User : Cancel(u)
             \/ \E k \in DOMAIN subscriptions : MarkReminded(k)
    <3>1. LET new == subscriptions'[i] IN
          /\ new.status = subscriptions[i].status
          /\ new.user = subscriptions[i].user
          /\ new.endAt = subscriptions[i].endAt
          /\ new.autoRenew => subscriptions[i].autoRenew
          /\ subscriptions[i].reminded => new.reminded
      BY <2>0, <2>7, FlagEffect, Zenon
    <3> QED
      BY <2>1, <2>2, <3>1
  <2>8. CASE Tick
    BY <2>3, <2>8 DEF Tick
  <2> QED
    BY <1>1, <2>3, <2>4, <2>5, <2>6, <2>7, <2>8, StepCases
<1>2. SubscriptionsInv /\ [Next]_vars =>
        [\A i \in DOMAIN subscriptions :
            LET old == subscriptions[i]
                new == subscriptions'[i] IN
            /\ Stage(old.status) <= Stage(new.status)
            /\ new.autoRenew => old.autoRenew
            /\ old.reminded => new.reminded
            /\ new.user = old.user /\ new.endAt = old.endAt]_vars
  BY <1>1, Zenon
<1> QED
  BY <1>2, InvariantHolds, PTL DEF Spec, RowsMoveForward

-----------------------------------------------------------------------------
(* ORDER BY end_at DESC LIMIT 1. *)

(* Finitely many rows, at least one: some row has the latest end date.  The *)
(* sets of rows that end later than a given one are finite, so one of them  *)
(* is minimal, and it is empty.                                             *)
LEMMA LatestExists ==
    ASSUME NEW M, IsFiniteSet(M), M # {},
           NEW tbl, \A i \in M : tbl[i].endAt \in Int
    PROVE  \E i \in M : \A j \in M : tbl[j].endAt <= tbl[i].endAt
<1> DEFINE Later(i) == {j \in M : tbl[j].endAt > tbl[i].endAt}
           Sets == {Later(i) : i \in M}
<1>1. Sets # {} /\ Sets \subseteq FiniteSubsetsOf(M)
  <2>1. \A i \in M : IsFiniteSet(Later(i)) /\ Later(i) \in SUBSET M
    BY FS_Subset
  <2> QED
    BY <2>1 DEF FiniteSubsetsOf
<1>2. \E X \in Sets : \A Y \in Sets : ~ (<<Y, X>> \in StrictSubsetOrdering(M))
  <2> HIDE DEF Sets
  <2> QED
    BY <1>1, FS_StrictSubsetOrderingWellFounded, WFMin
<1>3. PICK i \in M : \A j \in M : <<Later(j), Later(i)>> \notin StrictSubsetOrdering(M)
  BY <1>2
<1>4. ASSUME NEW j \in Later(i) PROVE FALSE
  <2>1. j \in M /\ tbl[j].endAt > tbl[i].endAt
    OBVIOUS
  <2>2. Later(j) \subseteq Later(i)
    BY <2>1
  <2>3. j \notin Later(j)
    BY <2>1
  <2>4. Later(j) # Later(i)
    BY <2>3
  <2>5. Later(j) \in SUBSET M /\ Later(i) \in SUBSET M
    OBVIOUS
  <2> HIDE DEF Later
  <2>6. <<Later(j), Later(i)>> \in StrictSubsetOrdering(M)
    BY <2>2, <2>4, <2>5 DEF StrictSubsetOrdering
  <2> QED
    BY <1>3, <2>1, <2>6
<1>5. \A j \in M : ~(tbl[j].endAt > tbl[i].endAt)
  BY <1>4
<1> QED
  BY <1>5

(* LIMIT 1 loses nothing: the query answers as soon as a row matches.       *)
LEMMA NewestFound ==
    ASSUME TypeOK, NEW u, NEW at \in Int
    PROVE  /\ IsSubscriber(subscriptions, u, at) \in BOOLEAN
           /\ IsSubscriber(subscriptions, u, at) <=>
                 \E i \in DOMAIN subscriptions :
                    /\ subscriptions[i].user = u
                    /\ subscriptions[i].status \in Open
                    /\ subscriptions[i].endAt > at - GraceDays
<1> DEFINE M == Matching(subscriptions, u, at)
<1>1. /\ DOMAIN subscriptions = 1..Len(subscriptions)
      /\ Len(subscriptions) \in Nat
      /\ \A i \in DOMAIN subscriptions : subscriptions[i].endAt \in Int
  <2>1. /\ DOMAIN subscriptions = 1..Len(subscriptions)
        /\ \A k \in 1..Len(subscriptions) : subscriptions[k] \in Row
        /\ Len(subscriptions) \in Nat
    BY LenProperties DEF TypeOK
  <2> QED
    BY <2>1 DEF Row
<1>2. M \in SUBSET DOMAIN subscriptions
  BY DEF Matching
<1>3. IsFiniteSet(M)
  <2>1. 1 \in Int /\ Len(subscriptions) \in Int
    BY <1>1
  <2>2. IsFiniteSet(1..Len(subscriptions))
    BY <2>1, FS_Interval
  <2> HIDE DEF M
  <2> QED
    BY <1>1, <1>2, <2>2, FS_Subset
<1>4. M # {} => GetSubscription(subscriptions, u, at) # {}
  <2> HIDE DEF M
  <2>1. ASSUME M # {}
        PROVE  \E i \in M : \A j \in M : subscriptions[j].endAt <= subscriptions[i].endAt
    BY <1>1, <1>2, <1>3, <2>1, LatestExists
  <2> QED
    BY <2>1 DEF M, GetSubscription
<1>5. GetSubscription(subscriptions, u, at) \subseteq M
  BY DEF GetSubscription
<1> QED
  BY <1>4, <1>5 DEF IsSubscriber, Matching

-----------------------------------------------------------------------------
(* What becomes of a row, and where rows come from. *)

(* A row keeps its user and its end date, and its status only moves on.     *)
LEMMA RowKept ==
    ASSUME TypeOK, CallsAreRecent, [Next]_vars, NEW i \in DOMAIN subscriptions
    PROVE  /\ i \in DOMAIN subscriptions'
           /\ subscriptions'[i].user = subscriptions[i].user
           /\ subscriptions'[i].endAt = subscriptions[i].endAt
           /\ subscriptions[i].status = "expired" => subscriptions'[i].status = "expired"
           /\ subscriptions'[i].status = "active" => subscriptions[i].status = "active"
           /\ subscriptions'[i].status = "trial" => subscriptions[i].status = "trial"
<1>0. i \in 1..Len(subscriptions) + 1
  <2>1. DOMAIN subscriptions = 1..Len(subscriptions) /\ Len(subscriptions) \in Nat
    BY LenProperties DEF TypeOK
  <2> QED
    BY <2>1
<1>1. CASE subscriptions' = subscriptions
  BY <1>1
<1>2. CASE \E t \in Task : ActivateCommit(t)
  <2>1. /\ i \in DOMAIN subscriptions'
        /\ LET new == subscriptions'[i] IN
           /\ new.status = "expired" \/ new.status = subscriptions[i].status
           /\ new.user = subscriptions[i].user
           /\ new.endAt = subscriptions[i].endAt
    BY <1>0, <1>2, ActivateEffect, Zenon
  <2> QED
    BY <2>1
<1>3. CASE \E t \in Task : TrialCommit(t)
  <2>1. i \in DOMAIN subscriptions' /\ subscriptions'[i] = subscriptions[i]
    BY <1>0, <1>3, TrialEffect, Zenon
  <2> QED
    BY <2>1
<1>4. CASE \E t \in Task : ExpireCommit(t)
  <2>1. PICK t \in Task : ExpireCommit(t)
    BY <1>4
  <2>2. /\ i \in DOMAIN subscriptions'
        /\ subscriptions'[i].status = StatusAfterSweep(subscriptions[i], call[t].at)
        /\ subscriptions'[i].user = subscriptions[i].user
        /\ subscriptions'[i].endAt = subscriptions[i].endAt
    BY <2>1, ExpireEffect, Zenon
  <2> QED
    BY <2>2 DEF StatusAfterSweep, Open
<1>5. CASE \/ \E u \in User : Cancel(u)
           \/ \E k \in DOMAIN subscriptions : MarkReminded(k)
  <2>1. /\ i \in DOMAIN subscriptions'
        /\ subscriptions'[i].status = subscriptions[i].status
        /\ subscriptions'[i].user = subscriptions[i].user
        /\ subscriptions'[i].endAt = subscriptions[i].endAt
    BY <1>5, FlagEffect, Zenon
  <2> QED
    BY <2>1
<1> QED
  BY <1>1, <1>2, <1>3, <1>4, <1>5, StepCases DEF Tick

(* A new row is what the call that commits says, and it is not over yet.    *)
LEMMA RowNew ==
    ASSUME TypeOK, CallsAreRecent, [Next]_vars,
           NEW i \in DOMAIN subscriptions', i \notin DOMAIN subscriptions
    PROVE  /\ now' = now
           /\ i = Len(subscriptions) + 1
           /\ subscriptions'[i].endAt + GraceDays > now
           /\ \E t \in Task :
                 /\ subscriptions'[i].user = call[t].user
                 /\ \/ /\ ActivateCommit(t)
                       /\ subscriptions'[i].status = "active"
                       /\ subscriptions'[i].endAt = call[t].at + call[t].days
                    \/ /\ TrialCommit(t)
                       /\ subscriptions'[i].status = "trial"
                       /\ subscriptions'[i].endAt = call[t].at + TrialDays
<1> USE DaysAssumption, LagAssumption, PeriodsAssumption, TrialUserAssumption
        DEF DaysAssumption, LagAssumption, PeriodsAssumption, TrialUserAssumption
<1>0. now \in Int
  BY BoundsAssumption DEF TypeOK, BoundsAssumption
<1>1. CASE \E t \in Task : ActivateCommit(t)
  <2>1. PICK t \in Task : ActivateCommit(t)
    BY <1>1
  <2>2. PICK n \in Nat : n = Len(subscriptions)
    BY ActivateEffect, <2>1, Zenon
  <2>3. /\ now' = now
        /\ DOMAIN subscriptions = 1..n
        /\ DOMAIN subscriptions' = 1..n + 1
        /\ subscriptions'[n + 1].user = call[t].user
        /\ subscriptions'[n + 1].endAt = call[t].at + call[t].days
        /\ subscriptions'[n + 1].status = "active"
    BY <2>1, <2>2, ActivateEffect, Zenon
  <2>4. i = n + 1
    BY <2>3
  <2>5. /\ call[t].at \in Int /\ call[t].days \in Periods
        /\ now - call[t].at <= MaxLag
    BY <2>1, CallFields DEF ActivateCommit, CallsAreRecent, TypeOK
  <2>6. call[t].days \in Nat /\ MaxLag < call[t].days + GraceDays
    BY <2>5
  <2>7. call[t].at + call[t].days + GraceDays > now
    BY <1>0, <2>5, <2>6
  <2> QED
    BY <2>1, <2>2, <2>3, <2>4, <2>7
<1>2. CASE \E t \in Task : TrialCommit(t)
  <2>1. PICK t \in Task : TrialCommit(t)
    BY <1>2
  <2>2. PICK n \in Nat : n = Len(subscriptions)
    BY TrialEffect, <2>1, Zenon
  <2>3. /\ now' = now
        /\ DOMAIN subscriptions = 1..n
        /\ DOMAIN subscriptions' = 1..n + 1
        /\ subscriptions'[n + 1].user = call[t].user
        /\ subscriptions'[n + 1].endAt = call[t].at + TrialDays
        /\ subscriptions'[n + 1].status = "trial"
    BY <2>1, <2>2, TrialEffect, Zenon
  <2>4. i = n + 1
    BY <2>3
  <2>5. /\ call[t].at \in Int /\ call[t].user \in TrialUser
        /\ now - call[t].at <= MaxLag
    BY <2>1, CallFields DEF TrialCommit, CallsAreRecent, TypeOK
  <2>6. call[t].at + TrialDays + GraceDays > now
    BY <1>0, <2>5
  <2> QED
    BY <2>1, <2>2, <2>3, <2>4, <2>6
<1>3. CASE DOMAIN subscriptions' = DOMAIN subscriptions
  BY <1>3
<1>4. \/ \E t \in Task : ActivateCommit(t)
      \/ \E t \in Task : TrialCommit(t)
      \/ DOMAIN subscriptions' = DOMAIN subscriptions
  <2>1. CASE \E t \in Task : ExpireCommit(t)
    BY <2>1, ExpireEffect
  <2>2. CASE (\E u \in User : Cancel(u)) \/ (\E k \in DOMAIN subscriptions : MarkReminded(k))
    BY <2>2, FlagEffect, Zenon
  <2> QED
    BY <2>1, <2>2, StepCases DEF Tick
<1> QED
  BY <1>1, <1>2, <1>3, <1>4

-----------------------------------------------------------------------------
(* Access. *)

(* Two tables in which the same rows are alive give the same access. *)
LEMMA SameEntitlement ==
    ASSUME NEW u \in User,
           DOMAIN subscriptions' = DOMAIN subscriptions,
           \A i \in DOMAIN subscriptions :
              /\ subscriptions'[i].user = subscriptions[i].user
              /\ subscriptions'[i].endAt = subscriptions[i].endAt
              /\ Alive(i, now)' <=> Alive(i, now)
    PROVE  Entitlement(u)' = Entitlement(u)
BY DEF Entitlement

LEMMA TableTypes ==
    ASSUME TypeOK
    PROVE  /\ now \in Int /\ now >= 0
           /\ \A i \in DOMAIN subscriptions : subscriptions[i].endAt \in Int
           /\ DOMAIN subscriptions = 1..Len(subscriptions)
           /\ Len(subscriptions) \in Nat
<1>1. subscriptions \in Seq(Row) /\ now \in Int /\ now >= 0
  BY BoundsAssumption DEF TypeOK, BoundsAssumption
<1>2. /\ DOMAIN subscriptions = 1..Len(subscriptions)
      /\ \A k \in 1..Len(subscriptions) : subscriptions[k] \in Row
      /\ Len(subscriptions) \in Nat
  BY <1>1, LenProperties
<1> QED
  BY <1>1, <1>2 DEF Row

LEMMA SweepEntitlement ==
    ASSUME TypeOK, CallsAreRecent, NEW t \in Task, ExpireCommit(t), NEW u \in User
    PROVE  Entitlement(u)' = Entitlement(u)
<1> USE DaysAssumption DEF DaysAssumption
<1>1. /\ now' = now /\ now \in Int
      /\ call[t].at \in Int /\ call[t].at <= now
      /\ DOMAIN subscriptions' = DOMAIN subscriptions
      /\ \A i \in DOMAIN subscriptions :
            /\ subscriptions'[i].user = subscriptions[i].user
            /\ subscriptions'[i].endAt = subscriptions[i].endAt
            /\ subscriptions[i].endAt \in Int
            /\ subscriptions'[i].status = StatusAfterSweep(subscriptions[i], call[t].at)
  BY ExpireEffect, TableTypes
<1>2. ASSUME NEW i \in DOMAIN subscriptions PROVE Alive(i, now)' <=> Alive(i, now)
  <2> DEFINE old == subscriptions[i].status
             new == subscriptions'[i].status
             end == subscriptions[i].endAt
  <2>1. /\ old = "expired" => new = "expired"
        /\ new = "expired" => old = "expired" \/ end <= call[t].at - GraceDays
    BY <1>1 DEF StatusAfterSweep, Open
  <2>2. Alive(i, now) <=> old # "expired" /\ end + GraceDays > now
    BY DEF Alive
  <2>3. Alive(i, now)' <=> new # "expired" /\ end + GraceDays > now
    BY <1>1 DEF Alive
  <2>4. end \in Int
    BY <1>1
  <2> HIDE DEF old, new, end
  <2> QED
    BY <1>1, <2>1, <2>2, <2>3, <2>4
<1> QED
  BY <1>1, <1>2, SameEntitlement

(* The F4 claim: a sweep decides nothing about access, for any delay between *)
(* its clock reading and its commit.                                         *)
THEOREM SweepKeepsAccessHolds == Spec => SweepKeepsAccess
<1>1. SubscriptionsInv /\ [Next]_vars =>
        [\A t \in Task : ExpireCommit(t) =>
            \A u \in User : Entitlement(u)' = Entitlement(u)]_vars
  BY SweepEntitlement DEF SubscriptionsInv
<1> QED
  BY <1>1, InvariantHolds, PTL DEF Spec, SweepKeepsAccess

-----------------------------------------------------------------------------
(* The table implements AccessPromise: the initial table maps to the        *)
(* initial promise, the calendar to Tick, a purchase to Buy, a trial to     *)
(* StartTrial, and every other step to a stutter.                           *)

(* The substitution for the variable ent. *)
Ent == [u \in User |-> Entitlement(u)]

(* An end date gives access when one living row of the user carries it. *)
LEMMA EntitledBy ==
    ASSUME NEW u \in User, NEW e
    PROVE  e \in Entitlement(u) <=>
               \E i \in DOMAIN subscriptions :
                  subscriptions[i].user = u /\ Alive(i, now) /\ subscriptions[i].endAt = e
BY DEF Entitlement

(* ... and so after a step. *)
LEMMA EntitledByNext ==
    ASSUME NEW u \in User, NEW e
    PROVE  e \in Entitlement(u)' <=>
               \E i \in DOMAIN subscriptions' :
                  /\ subscriptions'[i].user = u
                  /\ subscriptions'[i].status # "expired"
                  /\ subscriptions'[i].endAt + GraceDays > now'
                  /\ subscriptions'[i].endAt = e
BY DEF Entitlement, Alive

(* ... in particular after a step that appends the row k.                   *)
LEMMA EntitledByAppended ==
    ASSUME NEW u \in User, NEW e, NEW k,
           now' = now, DOMAIN subscriptions' = DOMAIN subscriptions \cup {k}
    PROVE  e \in Entitlement(u)' <=>
               \E i \in DOMAIN subscriptions \cup {k} :
                  /\ subscriptions'[i].user = u
                  /\ subscriptions'[i].status # "expired"
                  /\ subscriptions'[i].endAt + GraceDays > now
                  /\ subscriptions'[i].endAt = e
BY EntitledByNext

(* A day that passes takes away what it ends, and nothing else. *)
LEMMA TickEntitlement ==
    ASSUME TypeOK, Tick, NEW u \in User
    PROVE  Entitlement(u)' = Promise!Live(Entitlement(u), now')
<1> USE DaysAssumption DEF DaysAssumption
<1>1. /\ subscriptions' = subscriptions /\ now' = now + 1 /\ now \in Int
      /\ \A i \in DOMAIN subscriptions : subscriptions[i].endAt \in Int
  BY TableTypes DEF Tick
<1>2. ASSUME NEW e PROVE e \in Entitlement(u)' <=> e \in Promise!Live(Entitlement(u), now')
  <2>1. ASSUME NEW i \in DOMAIN subscriptions, subscriptions[i].endAt = e
        PROVE  /\ subscriptions[i].status # "expired"
               /\ subscriptions[i].endAt + GraceDays > now'
               <=> Alive(i, now) /\ e + GraceDays > now'
    <3>1. subscriptions[i].endAt \in Int /\ now' = now + 1 /\ now \in Int
      BY <1>1
    <3> QED
      BY <2>1, <3>1 DEF Alive
  <2>2. e \in Promise!Live(Entitlement(u), now')
          <=> e \in Entitlement(u) /\ e + GraceDays > now'
    BY DEF Promise!Live
  <2>3. e \in Entitlement(u)' <=> e \in Entitlement(u) /\ e + GraceDays > now'
    BY <1>1, <2>1, EntitledBy, EntitledByNext
  <2> QED
    BY <2>2, <2>3
<1> QED
  BY <1>2

(* A purchase replaces all the buyer had by its own end date, and touches   *)
(* nobody else's access.                                                    *)
LEMMA ActivateEntitlement ==
    ASSUME TypeOK, NEW t \in Task, ActivateCommit(t), NEW v \in User
    PROVE  Entitlement(v)' =
               IF v = call[t].user
               THEN Promise!Live({call[t].at + call[t].days}, now)
               ELSE Entitlement(v)
<1> DEFINE u == call[t].user
           end == call[t].at + call[t].days
<1>0. PICK new : new = Len(subscriptions) + 1
  OBVIOUS
<1>1. /\ now' = now
      /\ DOMAIN subscriptions = 1..Len(subscriptions)
      /\ Len(subscriptions) \in Nat
      /\ DOMAIN subscriptions' = 1..new
      /\ subscriptions'[new].user = u
      /\ subscriptions'[new].endAt = end
      /\ subscriptions'[new].status = "active"
      /\ \A i \in DOMAIN subscriptions :
            /\ subscriptions[i].user = u => subscriptions'[i].status = "expired"
            /\ subscriptions[i].user # u =>
                  subscriptions'[i].status = subscriptions[i].status
            /\ subscriptions'[i].user = subscriptions[i].user
            /\ subscriptions'[i].endAt = subscriptions[i].endAt
  BY <1>0, ActivateEffect, Zenon
<1>2. DOMAIN subscriptions' = DOMAIN subscriptions \cup {new}
  BY <1>0, <1>1
<1> HIDE DEF u, end
<1>3. ASSUME NEW e
      PROVE  e \in Entitlement(v)' <=>
                 e \in IF v = u THEN Promise!Live({end}, now) ELSE Entitlement(v)
  <2>0. e \in Entitlement(v)' <=>
          \E i \in DOMAIN subscriptions \cup {new} :
             /\ subscriptions'[i].user = v
             /\ subscriptions'[i].status # "expired"
             /\ subscriptions'[i].endAt + GraceDays > now
             /\ subscriptions'[i].endAt = e
    <3>1. now' = now
      BY <1>1
    <3> QED
      BY <1>2, <3>1, EntitledByAppended
  <2>1. CASE v = u
    <3>1. e \in Promise!Live({end}, now) <=> e = end /\ end + GraceDays > now
      BY DEF Promise!Live
    <3>2. \A i \in DOMAIN subscriptions :
             subscriptions'[i].user = v => subscriptions'[i].status = "expired"
      BY <1>1, <2>1
    <3>3. e \in Entitlement(v)' <=> e = end /\ end + GraceDays > now
      BY <1>1, <2>0, <2>1, <3>2
    <3> QED
      BY <2>1, <3>1, <3>3
  <2>2. CASE v # u
    <3>1. e \in Entitlement(v)' <=>
            \E i \in DOMAIN subscriptions :
               /\ subscriptions'[i].user = v
               /\ subscriptions'[i].status # "expired"
               /\ subscriptions'[i].endAt + GraceDays > now
               /\ subscriptions'[i].endAt = e
      BY <1>1, <2>0, <2>2
    <3>2. \A i \in DOMAIN subscriptions :
             subscriptions[i].user = v =>
                subscriptions'[i].status = subscriptions[i].status
      BY <1>1, <2>2
    <3>3. e \in Entitlement(v)' <=> e \in Entitlement(v)
      BY <1>1, <3>1, <3>2, EntitledBy DEF Alive
    <3> QED
      BY <2>2, <3>3
  <2> QED
    BY <2>1, <2>2
<1>4. Entitlement(v)' = IF v = u THEN Promise!Live({end}, now) ELSE Entitlement(v)
  BY <1>3
<1> QED
  BY <1>4 DEF u, end

(* A trial is added to what its user has, and touches nobody else's access. *)
LEMMA TrialEntitlement ==
    ASSUME TypeOK, NEW t \in Task, TrialCommit(t), NEW v \in User
    PROVE  Entitlement(v)' =
               IF v = call[t].user
               THEN Entitlement(v) \cup Promise!Live({call[t].at + TrialDays}, now)
               ELSE Entitlement(v)
<1> DEFINE u == call[t].user
           end == call[t].at + TrialDays
<1>0. PICK new : new = Len(subscriptions) + 1
  OBVIOUS
<1>1. /\ now' = now
      /\ DOMAIN subscriptions = 1..Len(subscriptions)
      /\ Len(subscriptions) \in Nat
      /\ DOMAIN subscriptions' = 1..new
      /\ subscriptions'[new].user = u
      /\ subscriptions'[new].endAt = end
      /\ subscriptions'[new].status = "trial"
      /\ \A i \in DOMAIN subscriptions : subscriptions'[i] = subscriptions[i]
  BY <1>0, TrialEffect, Zenon
<1>2. DOMAIN subscriptions' = DOMAIN subscriptions \cup {new}
  BY <1>0, <1>1
<1> HIDE DEF u, end
<1>3. ASSUME NEW e
      PROVE  e \in Entitlement(v)' <=>
                 \/ e \in Entitlement(v)
                 \/ v = u /\ e \in Promise!Live({end}, now)
  <2>0. e \in Entitlement(v)' <=>
          \E i \in DOMAIN subscriptions \cup {new} :
             /\ subscriptions'[i].user = v
             /\ subscriptions'[i].status # "expired"
             /\ subscriptions'[i].endAt + GraceDays > now
             /\ subscriptions'[i].endAt = e
    <3>1. now' = now
      BY <1>1
    <3> QED
      BY <1>2, <3>1, EntitledByAppended
  <2>1. e \in Promise!Live({end}, now) <=> e = end /\ end + GraceDays > now
    BY DEF Promise!Live
  <2>2. e \in Entitlement(v) <=>
          \E i \in DOMAIN subscriptions :
             /\ subscriptions'[i].user = v
             /\ subscriptions'[i].status # "expired"
             /\ subscriptions'[i].endAt + GraceDays > now
             /\ subscriptions'[i].endAt = e
    BY <1>1, EntitledBy DEF Alive
  <2>3. e \in Entitlement(v)' <=>
          \/ e \in Entitlement(v)
          \/ v = u /\ e = end /\ end + GraceDays > now
    BY <1>1, <2>0, <2>2
  <2> QED
    BY <2>1, <2>3
<1>4. Entitlement(v)' = IF v = u THEN Entitlement(v) \cup Promise!Live({end}, now)
                                 ELSE Entitlement(v)
  BY <1>3
<1> QED
  BY <1>4 DEF u, end

-----------------------------------------------------------------------------
(* The steps. *)

LEMMA EntPointwise ==
    ASSUME \A u \in User : Entitlement(u)' = Entitlement(u)
    PROVE  Ent' = Ent
BY DEF Ent

LEMMA PromiseSteps ==
    ASSUME SubscriptionsInv, [Next]_vars
    PROVE  Promise!Next \/ (now' = now /\ Ent' = Ent)
<1>0. TypeOK /\ CallsAreRecent
  BY DEF SubscriptionsInv
<1>1. CASE UNCHANGED <<now, subscriptions>>
  <2>1. \A u \in User : Entitlement(u)' = Entitlement(u)
    BY <1>1 DEF Entitlement, Alive
  <2> QED
    BY <1>1, <2>1, EntPointwise
<1>2. CASE Tick
  <2>1. Ent' = [u \in User |-> Promise!Live(Ent[u], now')]
    BY <1>0, <1>2, TickEntitlement DEF Ent
  <2>2. Promise!Tick
    BY <1>2, <2>1 DEF Tick, Promise!Tick, Ent
  <2> QED
    BY <2>2 DEF Promise!Next
<1>3. CASE \E t \in Task : ActivateCommit(t)
  <2> PICK t \in Task : ActivateCommit(t)
    BY <1>3
  <2>1. /\ call[t].user \in User /\ call[t].days \in Periods
        /\ call[t].at \in 0..now /\ now - call[t].at <= MaxLag /\ now' = now
    <3>1. call[t] \in Call
      BY <1>0 DEF TypeOK
    <3>2. call[t].at \in 0..Horizon /\ call[t].user \in User /\ call[t].days \in Periods
      BY <3>1, CallFields DEF ActivateCommit
    <3>3. call[t].at <= now /\ now - call[t].at <= MaxLag /\ now' = now
      BY <1>0 DEF CallsAreRecent, ActivateCommit
    <3> QED
      BY <1>0, <3>2, <3>3, BoundsAssumption DEF TypeOK, BoundsAssumption
  <2>2. Ent' = [Ent EXCEPT ![call[t].user] =
                   Promise!Live({call[t].at + call[t].days}, now)]
    BY <1>0, <2>1, ActivateEntitlement DEF Ent
  <2>3. Promise!Buy(call[t].user)
    BY <2>1, <2>2 DEF Promise!Buy, Ent
  <2> QED
    BY <2>1, <2>3 DEF Promise!Next
<1>4. CASE \E t \in Task : TrialCommit(t)
  <2> PICK t \in Task : TrialCommit(t)
    BY <1>4
  <2>1. /\ call[t].user \in TrialUser /\ call[t].user \in User
        /\ call[t].at \in 0..now /\ now - call[t].at <= MaxLag /\ now' = now
    <3>1. call[t] \in Call
      BY <1>0 DEF TypeOK
    <3>2. call[t].at \in 0..Horizon /\ call[t].user \in User
      BY <3>1, CallFields DEF TrialCommit
    <3>3. /\ call[t].at <= now /\ now - call[t].at <= MaxLag /\ now' = now
          /\ call[t].user \in TrialUser
      BY <1>0 DEF CallsAreRecent, TrialCommit
    <3> QED
      BY <1>0, <3>2, <3>3, BoundsAssumption DEF TypeOK, BoundsAssumption
  <2>2. Ent' = [Ent EXCEPT ![call[t].user] =
                   @ \cup Promise!Live({call[t].at + TrialDays}, now)]
    BY <1>0, <2>1, TrialEntitlement DEF Ent
  <2>3. Promise!StartTrial(call[t].user)
    BY <2>1, <2>2 DEF Promise!StartTrial, Ent
  <2> QED
    BY <2>1, <2>3 DEF Promise!Next
<1>5. CASE \E t \in Task : ExpireCommit(t)
  <2>1. now' = now
    BY <1>5 DEF ExpireCommit
  <2> QED
    BY <1>0, <1>5, <2>1, SweepEntitlement, EntPointwise
<1>6. CASE \/ \E u \in User : Cancel(u)
           \/ \E i \in DOMAIN subscriptions : MarkReminded(i)
  <2>1. /\ now' = now
        /\ DOMAIN subscriptions' = DOMAIN subscriptions
        /\ \A i \in DOMAIN subscriptions :
              /\ subscriptions'[i].status = subscriptions[i].status
              /\ subscriptions'[i].user = subscriptions[i].user
              /\ subscriptions'[i].endAt = subscriptions[i].endAt
    BY <1>0, <1>6, FlagEffect, Zenon
  <2>2. \A u \in User : Entitlement(u)' = Entitlement(u)
    BY <2>1, SameEntitlement DEF Alive
  <2> QED
    BY <2>1, <2>2, EntPointwise
<1> QED
  BY <1>1, <1>2, <1>3, <1>4, <1>5, <1>6, StepCases

(* Whatever purchases, trials, cancellations, sweeps, failures and crashes  *)
(* interleave, the access the table gives is the access AccessPromise       *)
(* gives: only the calendar and a member's own purchases and trials change  *)
(* it (get_subscription, with the F4 comment).                              *)
THEOREM KeepsPromiseHolds == Spec => KeepsPromise
<1>1. Init => Promise!Init
  BY DEF Init, Promise!Init, Entitlement
<1>2. SubscriptionsInv /\ [Next]_vars => [Promise!Next]_(Promise!vars)
  BY PromiseSteps DEF Promise!vars, Ent
<1> QED
  BY <1>1, <1>2, InvariantHolds, PTL DEF Spec, KeepsPromise, Promise!Spec

=============================================================================
