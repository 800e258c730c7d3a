--------------------------- MODULE MembersProofs ---------------------------
(***************************************************************************)
(* Proofs about what members are told and shown: AccessReads, the access   *)
(* check seen by its caller, and Storefront, the handlers behind the       *)
(* buttons, for any users, tasks, plans and bounds.  Both work on the      *)
(* table of Subscriptions, and every step of theirs is a step of it or     *)
(* leaves it alone.                                                        *)
(***************************************************************************)
EXTENDS AccessReads, Storefront, SubscriptionsProofs

-----------------------------------------------------------------------------
(* Access, row by row. *)

(* A user has access when one row of hers is alive. *)
LEMMA AccessByRow ==
    ASSUME NEW u
    PROVE  /\ HasAccess(u) \in BOOLEAN
           /\ HasAccess(u) <=> \E i \in DOMAIN subscriptions :
                                  subscriptions[i].user = u /\ Alive(i, now)
BY DEF HasAccess, Entitlement

(* ... and so after a step. *)
LEMMA AccessByRowNext ==
    ASSUME NEW u
    PROVE  /\ HasAccess(u)' \in BOOLEAN
           /\ HasAccess(u)' <=> \E i \in DOMAIN subscriptions' :
                                  /\ subscriptions'[i].user = u
                                  /\ subscriptions'[i].status # "expired"
                                  /\ subscriptions'[i].endAt + GraceDays > now'
BY DEF HasAccess, Entitlement, Alive

-----------------------------------------------------------------------------
(* The access check (AccessReads). *)

(* What a check under way has lived through: the user's access as it is     *)
(* now, and access at some moment if any row of hers that is open reached   *)
(* beyond the clock reading.                                                *)
Lived(t) ==
    /\ HasAccess(call[t].user) \in could[t]
    /\ \A i \in DOMAIN subscriptions :
          /\ subscriptions[i].user = call[t].user
          /\ subscriptions[i].status # "expired"
          /\ subscriptions[i].endAt + GraceDays > call[t].at
          => TRUE \in could[t]

ChecksLived == \A t \in Task : call[t].op = "check" => Lived(t)

(* The inductive invariant of AccessReads. *)
ReadInv == SubscriptionsInv /\ ChecksLived

(* A check under way after a step was so before it, or has just begun. *)
LEMMA CheckSteps ==
    ASSUME TypeOK, Next, NEW t \in Task, call'[t].op = "check"
    PROVE  \/ call'[t] = call[t]
           \/ call[t].op # "check" /\ \E u \in User : CheckBegin(t, u)
<1>0. call \in [Task -> Call]
  BY DEF TypeOK
<1>1. ASSUME NEW s \in Task, NEW c, Begin(s, c), c.op # "check"
      PROVE  call'[t] = call[t]
  BY <1>0, <1>1 DEF Begin
<1>2. ASSUME NEW s \in Task, Return(s) PROVE call'[t] = call[t]
  BY <1>0, <1>2 DEF Return, Idle
<1>3. ASSUME NEW s \in Task, NEW u \in User, CheckBegin(s, u)
      PROVE  call'[t] = call[t] \/ (s = t /\ call[t].op # "check")
  BY <1>0, <1>3 DEF CheckBegin, Begin
<1>4. ASSUME NEW s \in Task,
             \/ \E u \in User, d \in Periods : ActivateBegin(s, u, d)
             \/ \E u \in TrialUser : TrialBegin(s, u)
             \/ ExpireBegin(s)
      PROVE  call'[t] = call[t]
  BY <1>1, <1>4 DEF ActivateBegin, TrialBegin, ExpireBegin
<1>5. ASSUME NEW s \in Task,
             \/ ActivateCommit(s) \/ TrialCommit(s) \/ ExpireCommit(s)
             \/ CheckReturn(s) \/ Fail(s)
      PROVE  call'[t] = call[t]
  BY <1>2, <1>5 DEF ActivateCommit, TrialCommit, ExpireCommit, CheckReturn, Fail
<1>6. CASE Crash
  BY <1>0, <1>6 DEF Crash, Idle
<1>7. CASE \/ Tick
           \/ \E u \in User : Cancel(u)
           \/ \E i \in DOMAIN subscriptions : MarkReminded(i)
  BY <1>7 DEF Tick, Cancel, MarkReminded
<1> QED
  BY <1>3, <1>4, <1>5, <1>6, <1>7 DEF Next

LEMMA LivedInductive ==
    ASSUME SubscriptionsInv, ChecksLived, Next, Witness,
           NEW t \in Task, call'[t].op = "check"
    PROVE  Lived(t)'
<1> PICK u : u = call'[t].user
  OBVIOUS
<1>0. TypeOK /\ CallsAreRecent /\ [Next]_vars
  BY DEF SubscriptionsInv
<1>1. CASE call'[t] = call[t]
  <2>1. could'[t] = could[t] \cup {HasAccess(u)'}
    <3>1. HasAccess(call[t].user)' = HasAccess(u)'
      BY DEF HasAccess, Entitlement, Alive
    <3> QED
      BY <1>1, <3>1 DEF Witness
  <2>2. ASSUME NEW i \in DOMAIN subscriptions',
               subscriptions'[i].user = u,
               subscriptions'[i].status # "expired",
               subscriptions'[i].endAt + GraceDays > call'[t].at
        PROVE  TRUE \in could'[t]
    <3>1. CASE i \in DOMAIN subscriptions
      <4>1. /\ subscriptions[i].user = call[t].user
            /\ subscriptions[i].status # "expired"
            /\ subscriptions[i].endAt + GraceDays > call[t].at
        BY <1>0, <1>1, <2>2, <3>1, RowKept
      <4>2. Lived(t)
        BY <1>1 DEF ChecksLived
      <4> QED
        BY <2>1, <3>1, <4>1, <4>2 DEF Lived
    <3>2. CASE i \notin DOMAIN subscriptions
      <4>1. subscriptions'[i].endAt + GraceDays > now'
        BY <1>0, <3>2, RowNew
      <4>2. HasAccess(u)' = TRUE
        BY <2>2, <4>1, AccessByRowNext
      <4> QED
        BY <2>1, <4>2
    <3> QED
      BY <3>1, <3>2
  <2>3. HasAccess(call[t].user)' = HasAccess(u)'
    BY DEF HasAccess, Entitlement, Alive
  <2> QED
    BY <2>1, <2>2, <2>3 DEF Lived
<1>2. CASE call[t].op # "check" /\ \E v \in User : CheckBegin(t, v)
  <2>1. could'[t] = {HasAccess(u)'}
    <3>1. could'[t] = {HasAccess(u)}
      BY <1>2 DEF Witness
    <3>2. HasAccess(u)' = HasAccess(u)
      BY <1>2 DEF CheckBegin, Begin, HasAccess, Entitlement, Alive
    <3> QED
      BY <3>1, <3>2
  <2>2. now' = now /\ call'[t].at = now
    <3>1. PICK v \in User : CheckBegin(t, v)
      BY <1>2
    <3>2. now' = now /\ call'[t] = [op |-> "check", user |-> v, at |-> now]
      BY <1>0, <3>1 DEF CheckBegin, Begin, TypeOK
    <3> QED
      BY <3>2
  <2>3. ASSUME NEW i \in DOMAIN subscriptions',
               subscriptions'[i].user = u,
               subscriptions'[i].status # "expired",
               subscriptions'[i].endAt + GraceDays > call'[t].at
        PROVE  HasAccess(u)' = TRUE
    BY <2>2, <2>3, AccessByRowNext
  <2>4. HasAccess(call[t].user)' = HasAccess(u)'
    BY DEF HasAccess, Entitlement, Alive
  <2> QED
    BY <2>1, <2>3, <2>4 DEF Lived
<1> QED
  BY <1>0, <1>1, <1>2, CheckSteps

(* The history of every check under way is true to what happened. *)
THEOREM ReadInvariant == ReadSpec => []ReadInv
<1>1. ReadInit => ReadInv
  <2> SUFFICES ASSUME ReadInit PROVE ReadInv
    OBVIOUS
  <2>1. ChecksLived
    BY DEF ReadInit, Init, ChecksLived, Idle
  <2> QED
    BY <2>1, InitInv DEF ReadInit, ReadInv
<1>2. ReadInv /\ [ReadNext]_readVars => ReadInv'
  <2> SUFFICES ASSUME ReadInv, [ReadNext]_readVars PROVE ReadInv'
    OBVIOUS
  <2>1. [Next]_vars
    BY DEF ReadNext, readVars, vars
  <2>2. SubscriptionsInv'
    BY <2>1, StepInv DEF ReadInv
  <2>3. CASE Next /\ Witness
    BY <2>2, <2>3, LivedInductive DEF ReadInv, ChecksLived
  <2>4. CASE UNCHANGED readVars
    <3>1. \A t \in Task : HasAccess(call[t].user)' = HasAccess(call[t].user)
      BY <2>4 DEF readVars, HasAccess, Entitlement, Alive
    <3>2. \A t \in Task : Lived(t)' <=> Lived(t)
      BY <2>4, <3>1 DEF readVars, Lived
    <3> QED
      BY <2>2, <2>4, <3>2 DEF ReadInv, ChecksLived, readVars
  <2> QED
    BY <2>3, <2>4 DEF ReadNext
<1> QED
  BY <1>1, <1>2, PTL DEF ReadSpec

(* A check that answers yes met a row that was alive at some moment since   *)
(* its clock reading; one that answers no says what is true as it returns.  *)
THEOREM AnswerWasTrueHolds == ReadSpec => AnswerWasTrue
<1>1. ASSUME ReadInv, NEW t \in Task, CheckReturn(t)
      PROVE  IsSubscriber(subscriptions, call[t].user, call[t].at) \in could[t]
  <2> DEFINE u == call[t].user
             verdict == IsSubscriber(subscriptions, u, call[t].at)
  <2>0. /\ TypeOK /\ CallsAreRecent /\ Lived(t)
        /\ GraceDays \in Int
        /\ now \in Int /\ call[t].at \in Int /\ call[t].at <= now
        /\ \A i \in DOMAIN subscriptions : /\ subscriptions[i].endAt \in Int
                                           /\ subscriptions[i].status \in Status
    <3>1. TypeOK /\ CallsAreRecent /\ Lived(t)
      BY <1>1 DEF ReadInv, SubscriptionsInv, ChecksLived, CheckReturn
    <3>2. call[t] \in Call
      BY <3>1 DEF TypeOK
    <3>3. call[t].at \in Int /\ call[t].at <= now
      BY <1>1, <3>1, <3>2, CallFields DEF CallsAreRecent, CheckReturn
    <3>4. \A i \in DOMAIN subscriptions : subscriptions[i].status \in Status
      <4>1. \A i \in DOMAIN subscriptions : subscriptions[i] \in Row
        BY <3>1, LenProperties DEF TypeOK
      <4> QED
        BY <4>1 DEF Row
    <3> QED
      BY <3>1, <3>3, <3>4, TableTypes, DaysAssumption DEF DaysAssumption
  <2>1. /\ verdict \in BOOLEAN
        /\ verdict <=> \E i \in DOMAIN subscriptions :
                          /\ subscriptions[i].user = u
                          /\ subscriptions[i].status \in Open
                          /\ subscriptions[i].endAt > call[t].at - GraceDays
    BY <2>0, NewestFound
  <2>2. CASE verdict
    <3>1. PICK i \in DOMAIN subscriptions :
             /\ subscriptions[i].user = u
             /\ subscriptions[i].status \in Open
             /\ subscriptions[i].endAt > call[t].at - GraceDays
      BY <2>1, <2>2
    <3>2. subscriptions[i].endAt + GraceDays > call[t].at
      BY <2>0, <3>1
    <3>3. subscriptions[i].status # "expired"
      BY <3>1 DEF Open
    <3>4. TRUE \in could[t]
      BY <2>0, <3>1, <3>2, <3>3 DEF Lived
    <3> QED
      BY <2>1, <2>2, <3>4
  <2>3. CASE ~verdict
    <3>1. ASSUME NEW i \in DOMAIN subscriptions, subscriptions[i].user = u, Alive(i, now)
          PROVE  FALSE
      <4>1. subscriptions[i].status \in Open
        BY <2>0, <3>1 DEF Alive, Open, Status
      <4>2. subscriptions[i].endAt > call[t].at - GraceDays
        BY <2>0, <3>1 DEF Alive
      <4> QED
        BY <2>1, <2>3, <3>1, <4>1, <4>2
    <3>2. HasAccess(u) = FALSE
      BY <3>1, AccessByRow
    <3> QED
      BY <2>0, <2>1, <2>3, <3>2 DEF Lived
  <2> QED
    BY <2>2, <2>3
<1>2. ReadInv /\ [ReadNext]_readVars =>
        [\A t \in Task :
            CheckReturn(t) => IsSubscriber(subscriptions, call[t].user, call[t].at)
                                  \in could[t]]_readVars
  BY <1>1
<1> QED
  BY <1>2, ReadInvariant, PTL DEF ReadSpec, AnswerWasTrue

-----------------------------------------------------------------------------
(* The handlers (Storefront). *)

(* The operation of the service each handler waits for. *)
Awaits(name) ==
    CASE name = "subscribe"         -> "activate"
      [] name \in {"content", "my"} -> "check"
      [] name = "sweep"             -> "expire"
      [] OTHER                      -> "idle"

(* A task is in the operation its handler has called, for the same user. *)
CallsMatch ==
    \A t \in Task :
        /\ call[t].op = Awaits(handler[t].name)
        /\ call[t].op \in {"activate", "check"} => call[t].user = handler[t].user

(* What the bot has sent a user, she has earned: she is in the table        *)
(* subscribers, the plan has been on sale, or she has been a member.        *)
Earned(u, b) ==
    /\ u \in subscribers
    /\ b.kind \in {"plan", "subscribe"} => b.days \in everOnSale
    /\ b.kind = "section" => u \in everMember

ButtonsEarned == \A u \in User : \A b \in offered[u] : Earned(u, b)

PlansAreKnown == onSale \subseteq everOnSale

(* So has the user whose press a handler works on, and the answer that it   *)
(* is left with, ...                                                        *)
HandlersEarned ==
    \A t \in Task :
        LET h == handler[t] IN
        /\ h.name \in {"greet", "subscribe", "content", "sections", "my"} =>
              h.user \in subscribers
        /\ h.name \in {"sections", "items"} => h.user \in everMember
        /\ h.name = "subscribe" => call[t].days \in everOnSale
        /\ h.name = "answer" => \A b \in h.buttons : Earned(h.user, b)

(* ... and whoever has a row, all of which were bought. *)
RowsEarned ==
    \A i \in DOMAIN subscriptions :
        LET r == subscriptions[i] IN
        /\ r.status # "trial"
        /\ r.user \in subscribers
        /\ r.user \in everMember
        /\ \E d \in everOnSale : r.endAt - d \in 0..now

(* The inductive invariant of Storefront. *)
StoreInv ==
    /\ StoreTypeOK
    /\ SubscriptionsInv
    /\ CallsMatch
    /\ PlansAreKnown
    /\ ButtonsEarned
    /\ HandlersEarned
    /\ RowsEarned

(* What a handler's record holds. *)
LEMMA HandlerFields ==
    ASSUME NEW h \in Handler, h.name \notin {"none", "sweep"}
    PROVE  h.user \in User
BY DEF Handler, None

LEMMA IdleCall ==
    ASSUME NEW c \in Call, c.op = "idle"
    PROVE  c = Idle
BY DEF Call, Idle

(* Every step of the handlers is a step of the service, or leaves it alone. *)
LEMMA StoreStepIsStep ==
    ASSUME TypeOK, [StoreNext]_storeVars
    PROVE  [Next]_vars
<1>1. ASSUME NEW t \in Task, HandlerRaises(t) PROVE [Next]_vars
  <2>1. CASE call[t].op = "idle"
    <3>1. call[t] = Idle /\ call' = [call EXCEPT ![t] = Idle]
      BY <1>1, <2>1, IdleCall DEF TypeOK, HandlerRaises, Return
    <3>2. call' = call
      BY <3>1 DEF TypeOK
    <3> QED
      BY <1>1, <3>2 DEF HandlerRaises, vars
  <2>2. CASE call[t].op # "idle"
    BY <1>1, <2>2 DEF HandlerRaises, Fail, Next
  <2> QED
    BY <2>1, <2>2
<1>2. CASE UNCHANGED storeVars
  BY <1>2 DEF storeVars, vars
<1>3. CASE StoreTick \/ StoreCrash \/ ChangePlans
  BY <1>3 DEF StoreTick, StoreCrash, ChangePlans, Next, vars
<1>4. ASSUME NEW u \in User, CancelSub(u) PROVE [Next]_vars
  BY <1>4 DEF CancelSub, Next, vars
<1>5. ASSUME NEW t \in Task, NEW u \in User,
             \/ Start(t, u) \/ ListPlans(t, u) \/ ListContent(t, u)
             \/ ViewSection(t, u) \/ MySubscription(t, u)
             \/ \E d \in Periods : SelectPlan(t, u, d) \/ Subscribe(t, u, d)
      PROVE  [Next]_vars
  BY <1>5 DEF Start, ListPlans, ListContent, ViewSection, MySubscription, SelectPlan,
              Subscribe, Next, vars
<1>6. ASSUME NEW t \in Task,
             \/ EnsureSubscriber(t) \/ Greet(t) \/ GreetRetried(t)
             \/ SectionsRead(t) \/ EditText(t) \/ ItemsShown(t)
      PROVE  [Next]_vars
  BY <1>6 DEF EnsureSubscriber, Greet, GreetRetried, SectionsRead, EditText, ItemsShown, vars
<1>7. ASSUME NEW t \in Task,
             \/ Subscribed(t) \/ ContentRefused(t) \/ ContentGranted(t)
             \/ SubscriptionRead(t) \/ SweepBegin(t) \/ SweepCommit(t)
      PROVE  [Next]_vars
  BY <1>7 DEF Subscribed, ContentRefused, ContentGranted, SubscriptionRead,
              SweepBegin, SweepCommit, Next
<1> QED
  BY <1>1, <1>2, <1>3, <1>4, <1>5, <1>6, <1>7 DEF StoreNext

(* Which steps write what. *)
LEMMA WhoWrites ==
    ASSUME StoreNext
    PROVE  /\ ChangePlans \/ UNCHANGED <<onSale, everOnSale>>
           /\ subscribers' = subscribers \/ \E t \in Task : EnsureSubscriber(t)
           /\ offered' = offered \/ \E t \in Task : Greet(t) \/ GreetRetried(t) \/ EditText(t)
           /\ readers' = readers \/ \E t \in Task : ItemsShown(t)
<1>1. ASSUME NEW t \in Task, NEW u \in User,
             \/ Start(t, u) \/ ListPlans(t, u) \/ ListContent(t, u)
             \/ ViewSection(t, u) \/ MySubscription(t, u)
             \/ \E d \in Periods : SelectPlan(t, u, d) \/ Subscribe(t, u, d)
      PROVE  UNCHANGED <<onSale, everOnSale, subscribers, offered, readers>>
  BY <1>1 DEF Start, ListPlans, ListContent, ViewSection, MySubscription, SelectPlan, Subscribe
<1>2. ASSUME NEW t \in Task,
             \/ Subscribed(t) \/ ContentRefused(t) \/ ContentGranted(t)
             \/ SectionsRead(t) \/ SubscriptionRead(t)
             \/ SweepBegin(t) \/ SweepCommit(t) \/ HandlerRaises(t)
      PROVE  UNCHANGED <<onSale, everOnSale, subscribers, offered, readers>>
  BY <1>2 DEF Subscribed, ContentRefused, ContentGranted, SectionsRead, SubscriptionRead,
              SweepBegin, SweepCommit, HandlerRaises
<1>3. ASSUME NEW t \in Task, Greet(t) \/ GreetRetried(t) \/ EditText(t)
      PROVE  UNCHANGED <<onSale, everOnSale, subscribers, readers>>
  BY <1>3 DEF Greet, GreetRetried, EditText
<1>4. ASSUME NEW t \in Task, EnsureSubscriber(t)
      PROVE  UNCHANGED <<onSale, everOnSale, offered, readers>>
  BY <1>4 DEF EnsureSubscriber
<1>5. ASSUME NEW t \in Task, ItemsShown(t)
      PROVE  UNCHANGED <<onSale, everOnSale, subscribers, offered>>
  BY <1>5 DEF ItemsShown
<1>6. ASSUME ChangePlans PROVE UNCHANGED <<subscribers, offered, readers>>
  BY <1>6 DEF ChangePlans
<1>7. ASSUME StoreTick \/ StoreCrash \/ \E u \in User : CancelSub(u)
      PROVE  UNCHANGED <<onSale, everOnSale, subscribers, offered, readers>>
  BY <1>7 DEF StoreTick, StoreCrash, CancelSub
<1> QED
  BY <1>1, <1>2, <1>3, <1>4, <1>5, <1>6, <1>7 DEF StoreNext

(* Nothing that has been earned is lost. *)
LEMMA HistoriesGrow ==
    ASSUME StoreNext
    PROVE  /\ subscribers \subseteq subscribers'
           /\ everOnSale \subseteq everOnSale'
           /\ everMember \subseteq everMember'
           /\ \A u \in User : HasAccess(u)' => u \in everMember'
<1>1. /\ everMember \subseteq everMember'
      /\ \A u \in User : HasAccess(u)' => u \in everMember'
  BY DEF StoreNext, Membership
<1>2. everOnSale \subseteq everOnSale'
  BY WhoWrites DEF ChangePlans
<1>3. ASSUME NEW t \in Task, EnsureSubscriber(t) PROVE subscribers \subseteq subscribers'
  BY <1>3 DEF EnsureSubscriber
<1> QED
  BY <1>1, <1>2, <1>3, WhoWrites

(* The buttons of an answer are buttons, and earned. *)
GoodAnswer(u, bs) == bs \in SUBSET Button /\ \A b \in bs : Earned(u, b)'

(* What buttons there are. *)
LEMMA ButtonKinds ==
    /\ \A k \in {"plans", "content", "my", "section", "cancel"} :
          Plain(k) \in Button /\ Plain(k).kind = k
    /\ \A k \in {"plan", "subscribe"}, d \in Periods :
          /\ ForPlan(k, d) \in Button
          /\ ForPlan(k, d).kind = k /\ ForPlan(k, d).days = d
<1>1. \A k \in {"plans", "content", "my", "section", "cancel"} :
         Plain(k) \in Button /\ Plain(k).kind = k
  BY DEF Plain, Button
<1>2. \A k \in {"plan", "subscribe"}, d \in Periods :
         /\ ForPlan(k, d) \in Button
         /\ ForPlan(k, d).kind = k /\ ForPlan(k, d).days = d
  BY DEF ForPlan, Button
<1> QED
  BY <1>1, <1>2

(* Any registered user may be sent these. *)
LEMMA PlainAnswer ==
    ASSUME NEW u \in User, u \in subscribers',
           NEW K, K \subseteq {"plans", "content", "my", "cancel"}
    PROVE  GoodAnswer(u, {Plain(k) : k \in K})
<1>1. /\ {Plain(k) : k \in K} \in SUBSET Button
      /\ \A b \in {Plain(k) : k \in K} : b.kind \in K
  BY ButtonKinds
<1>2. \A b \in {Plain(k) : k \in K} : Earned(u, b)'
  BY <1>1 DEF Earned
<1> QED
  BY <1>1, <1>2 DEF GoodAnswer

(* The users of the handlers are users, registered, and those of            *)
(* list_content and view_section have been members.                         *)
LEMMA HandlerUsers ==
    ASSUME StoreTypeOK, HandlersEarned, StoreNext, NEW t \in Task
    PROVE  /\ handler[t].name \notin {"none", "sweep"} => handler[t].user \in User
           /\ handler[t].name \in {"greet", "content", "sections", "my"} =>
                 handler[t].user \in subscribers'
           /\ handler[t].name = "sections" => handler[t].user \in everMember'
<1>1. handler[t] \in Handler
  BY DEF StoreTypeOK
<1> QED
  BY <1>1, HandlerFields, HistoriesGrow DEF HandlersEarned

(* A handler that reads answers with buttons that the user has earned. *)
LEMMA AnswerSteps ==
    ASSUME StoreTypeOK, PlansAreKnown, ButtonsEarned, HandlersEarned, StoreNext,
           NEW t \in Task,
           \/ ContentRefused(t) \/ SectionsRead(t) \/ SubscriptionRead(t)
           \/ \E u \in User : ListPlans(t, u) \/ \E d \in Periods : SelectPlan(t, u, d)
    PROVE  \E u \in User, bs \in SUBSET Button : Answers(t, u, bs) /\ GoodAnswer(u, bs)
<1> DEFINE Goal == \E u \in User, bs \in SUBSET Button : Answers(t, u, bs) /\ GoodAnswer(u, bs)
<1>1. ASSUME NEW u \in User, NEW bs, Answers(t, u, bs), GoodAnswer(u, bs) PROVE Goal
  BY <1>1 DEF GoodAnswer
<1>2. ASSUME NEW u \in User, ListPlans(t, u) PROVE Goal
  <2> DEFINE bs == {ForPlan("plan", d) : d \in onSale}
  <2>1. u \in subscribers'
    BY <1>2, HistoriesGrow DEF ListPlans, Pressed, ButtonsEarned, Earned
  <2>2. onSale \subseteq Periods /\ onSale \subseteq everOnSale'
    BY HistoriesGrow DEF StoreTypeOK, PlansAreKnown
  <2>3. bs \in SUBSET Button
    BY <2>2, ButtonKinds
  <2>4. ASSUME NEW d \in onSale PROVE Earned(u, ForPlan("plan", d))'
    BY <2>1, <2>2, ButtonKinds DEF Earned
  <2>5. GoodAnswer(u, bs)
    BY <2>3, <2>4 DEF GoodAnswer
  <2>6. Answers(t, u, bs)
    BY <1>2 DEF ListPlans
  <2> QED
    BY <1>1, <2>5, <2>6
<1>3. ASSUME NEW u \in User, NEW d \in Periods, SelectPlan(t, u, d) PROVE Goal
  <2>1. Earned(u, ForPlan("plan", d))
    BY <1>3 DEF SelectPlan, Pressed, ButtonsEarned
  <2>2. u \in subscribers' /\ d \in everOnSale'
    BY <2>1, ButtonKinds, HistoriesGrow DEF Earned
  <2>3. Earned(u, Plain("plans"))' /\ Earned(u, ForPlan("subscribe", d))'
    BY <2>2, ButtonKinds DEF Earned
  <2>4. GoodAnswer(u, {Plain("plans"), ForPlan("subscribe", d)})
    BY <2>3, ButtonKinds DEF GoodAnswer
  <2> QED
    BY <1>1, <1>3, <2>4 DEF SelectPlan
<1>4. CASE ContentRefused(t)
  <2>1. Answers(t, handler[t].user, {Plain(k) : k \in {"plans"}}) /\ handler[t].name = "content"
    BY <1>4 DEF ContentRefused
  <2>2. handler[t].user \in User /\ handler[t].user \in subscribers'
    BY <2>1, HandlerUsers
  <2> QED
    BY <1>1, <2>1, <2>2, PlainAnswer
<1>5. CASE SectionsRead(t)
  <2>1. PICK bs \in {{}, {Plain("section")}} : Answers(t, handler[t].user, bs)
    BY <1>5 DEF SectionsRead
  <2>2. PICK u \in User : u = handler[t].user /\ u \in subscribers' /\ u \in everMember'
    BY <1>5, HandlerUsers DEF SectionsRead
  <2>3. Earned(u, Plain("section"))'
    BY <2>2, ButtonKinds DEF Earned
  <2>4. GoodAnswer(u, bs)
    BY <2>1, <2>3, ButtonKinds DEF GoodAnswer
  <2> QED
    BY <1>1, <2>1, <2>2, <2>4
<1>6. CASE SubscriptionRead(t)
  <2>1. /\ \/ Answers(t, handler[t].user, {Plain(k) : k \in {"plans"}})
           \/ Answers(t, handler[t].user, {Plain(k) : k \in {"cancel"}})
           \/ Answers(t, handler[t].user, {Plain(k) : k \in {}})
        /\ handler[t].name = "my"
    BY <1>6 DEF SubscriptionRead
  <2>2. handler[t].user \in User /\ handler[t].user \in subscribers'
    BY <2>1, HandlerUsers
  <2> QED
    BY <1>1, <2>1, <2>2, PlainAnswer
<1> QED
  BY <1>2, <1>3, <1>4, <1>5, <1>6

(* What a step sends to a user, she has earned. *)
LEMMA OfferSteps ==
    ASSUME StoreTypeOK, HandlersEarned, StoreNext
    PROVE  \/ offered' = offered
           \/ \E u \in User : \E bs : Offer(u, bs) /\ GoodAnswer(u, bs)
<1>1. ASSUME NEW t \in Task, Greet(t) \/ GreetRetried(t)
      PROVE  offered' = offered \/ \E u \in User : \E bs : Offer(u, bs) /\ GoodAnswer(u, bs)
  <2>1. MainMenu = {Plain(k) : k \in {"plans", "content", "my"}}
    BY DEF MainMenu
  <2>2. handler[t].name = "greet" /\ (offered' = offered \/ Offer(handler[t].user, MainMenu))
    BY <1>1 DEF Greet, GreetRetried
  <2>3. handler[t].user \in User /\ GoodAnswer(handler[t].user, MainMenu)
    BY <2>1, <2>2, HandlerUsers, PlainAnswer
  <2> QED
    BY <2>2, <2>3
<1>2. ASSUME NEW t \in Task, EditText(t)
      PROVE  \E u \in User : \E bs : Offer(u, bs) /\ GoodAnswer(u, bs)
  <2>1. PICK u, bs : u = handler[t].user /\ bs = handler[t].buttons
    OBVIOUS
  <2>2. handler[t].name = "answer" /\ Offer(u, bs)
    BY <1>2, <2>1 DEF EditText
  <2>3. u \in User /\ bs \in SUBSET Button
    <3>1. handler[t] \in Handler
      BY DEF StoreTypeOK
    <3> QED
      BY <2>1, <2>2, <3>1 DEF Handler, None
  <2>4. \A b \in bs : Earned(u, b)'
    BY <2>1, <2>2, HistoriesGrow DEF HandlersEarned, Earned
  <2> QED
    BY <2>2, <2>3, <2>4 DEF GoodAnswer
<1> QED
  BY <1>1, <1>2, WhoWrites

LEMMA PlansAreKnownInductive ==
    ASSUME PlansAreKnown, StoreNext
    PROVE  PlansAreKnown'
BY WhoWrites DEF ChangePlans, PlansAreKnown

LEMMA ButtonsInductive ==
    ASSUME StoreTypeOK, ButtonsEarned, HandlersEarned, StoreNext
    PROVE  ButtonsEarned'
<1>1. \A u, b : Earned(u, b) => Earned(u, b)'
  BY HistoriesGrow DEF Earned
<1>2. CASE offered' = offered
  BY <1>1, <1>2 DEF ButtonsEarned
<1>3. ASSUME NEW v \in User, NEW bs, Offer(v, bs), GoodAnswer(v, bs)
      PROVE  ButtonsEarned'
  <2>1. \A u \in User : offered'[u] = IF u = v THEN offered[u] \cup bs ELSE offered[u]
    BY <1>3 DEF Offer, StoreTypeOK
  <2>2. ASSUME NEW u \in User, NEW b \in offered'[u] PROVE Earned(u, b)'
    <3>1. CASE b \in offered[u]
      BY <1>1, <3>1 DEF ButtonsEarned
    <3>2. CASE b \notin offered[u]
      BY <1>3, <2>1, <2>2, <3>2 DEF GoodAnswer
    <3> QED
      BY <3>1, <3>2
  <2> QED
    BY <2>2 DEF ButtonsEarned
<1> QED
  BY <1>2, <1>3, OfferSteps

LEMMA CallsMatchInductive ==
    ASSUME StoreTypeOK, CallsMatch, StoreNext
    PROVE  CallsMatch'
<1> DEFINE Match(h, c) == /\ c.op = Awaits(h.name)
                          /\ c.op \in {"activate", "check"} => c.user = h.user
           names == {"none", "ensure", "greet", "sections", "answer", "items"}
<1>0. /\ handler \in [Task -> Handler] /\ call \in [Task -> Call]
      /\ \A t \in Task : Match(handler[t], call[t])
      /\ \A n \in names : Awaits(n) = "idle"
      /\ None.name = "none" /\ Idle.op = "idle"
  BY DEF StoreTypeOK, TypeOK, CallsMatch, Awaits, None, Idle
<1>1. ASSUME NEW s \in Task, NEW h, NEW c, Match(h, c),
             handler' = [handler EXCEPT ![s] = h],
             call' = [call EXCEPT ![s] = c] \/ (call' = call /\ call[s] = c)
      PROVE  CallsMatch'
  <2>1. ASSUME NEW t \in Task PROVE Match(handler'[t], call'[t])
    <3>1. CASE t = s
      <4>1. handler'[t] = h /\ call'[t] = c
        BY <1>0, <1>1, <3>1
      <4> QED
        BY <1>1, <4>1
    <3>2. CASE t # s
      <4>1. handler'[t] = handler[t] /\ call'[t] = call[t]
        BY <1>0, <1>1, <3>2
      <4> QED
        BY <1>0, <4>1
    <3> QED
      BY <3>1, <3>2
  <2> QED
    BY <2>1 DEF CallsMatch
<1>2. ASSUME NEW s \in Task, NEW h, h.name \in names,
             handler' = [handler EXCEPT ![s] = h],
             Return(s) \/ (call' = call /\ call[s].op = "idle")
      PROVE  CallsMatch'
  <2>1. Match(h, Idle) /\ (call[s].op = "idle" => Match(h, call[s]))
    BY <1>0, <1>2
  <2> HIDE DEF Match
  <2> QED
    BY <1>1, <1>2, <2>1 DEF Return
<1>3. ASSUME NEW s \in Task, NEW u \in User,
             \/ Start(s, u) \/ ListPlans(s, u) \/ ListContent(s, u)
             \/ ViewSection(s, u) \/ MySubscription(s, u)
             \/ \E d \in Periods : SelectPlan(s, u, d) \/ Subscribe(s, u, d)
      PROVE  CallsMatch'
  <2>1. CASE \/ Start(s, u) \/ ListPlans(s, u) \/ ViewSection(s, u)
             \/ \E d \in Periods : SelectPlan(s, u, d)
    <3>0. call' = call /\ call[s].op = "idle"
      BY <2>1 DEF Start, ListPlans, ViewSection, SelectPlan, Free, vars
    <3>1. CASE Start(s, u)
      <4> DEFINE h == [name |-> "ensure", user |-> u]
      <4>1. h.name \in names
        OBVIOUS
      <4>2. handler' = [handler EXCEPT ![s] = h]
        BY <3>1 DEF Start, Starts
      <4> HIDE DEF h, names
      <4> QED
        BY <1>2, <3>0, <4>1, <4>2, Zenon
    <3>2. CASE ListPlans(s, u)
      <4> DEFINE h == [name |-> "answer", user |-> u,
                      buttons |-> {ForPlan("plan", d) : d \in onSale}]
      <4>1. h.name \in names
        OBVIOUS
      <4>2. handler' = [handler EXCEPT ![s] = h]
        BY <3>2 DEF ListPlans, Answers
      <4> HIDE DEF h, names
      <4> QED
        BY <1>2, <3>0, <4>1, <4>2, Zenon
    <3>3. CASE ViewSection(s, u)
      <4> DEFINE h == [name |-> "items", user |-> u, entitled |-> HasAccess(u)]
      <4>1. h.name \in names
        OBVIOUS
      <4>2. handler' = [handler EXCEPT ![s] = h]
        BY <3>3 DEF ViewSection
      <4> HIDE DEF h, names
      <4> QED
        BY <1>2, <3>0, <4>1, <4>2, Zenon
    <3>4. ASSUME NEW d \in Periods, SelectPlan(s, u, d) PROVE CallsMatch'
      <4> DEFINE h == [name |-> "answer", user |-> u,
                      buttons |-> {Plain("plans"), ForPlan("subscribe", d)}]
      <4>1. h.name \in names
        OBVIOUS
      <4>2. handler' = [handler EXCEPT ![s] = h]
        BY <3>4 DEF SelectPlan, Answers
      <4> HIDE DEF h, names
      <4> QED
        BY <1>2, <3>0, <4>1, <4>2, Zenon
    <3> QED
      BY <2>1, <3>1, <3>2, <3>3, <3>4
  <2>2. CASE ListContent(s, u) \/ MySubscription(s, u)
    <3>1. PICK n \in {"content", "my"} : handler' = [handler EXCEPT ![s] = [name |-> n, user |-> u]]
      BY <2>2 DEF ListContent, MySubscription, Starts
    <3>2. call' = [call EXCEPT ![s] = [op |-> "check", user |-> u, at |-> now]]
      BY <2>2 DEF ListContent, MySubscription, CheckBegin, Begin
    <3>3. Match([name |-> n, user |-> u], [op |-> "check", user |-> u, at |-> now])
      BY DEF Awaits
    <3> HIDE DEF Match
    <3> QED
      BY <1>1, <3>1, <3>2, <3>3
  <2>3. ASSUME NEW d \in Periods, Subscribe(s, u, d) PROVE CallsMatch'
    <3>1. Match([name |-> "subscribe", user |-> u],
                [op |-> "activate", user |-> u, days |-> d, at |-> now])
      BY DEF Awaits
    <3> HIDE DEF Match
    <3> QED
      BY <1>1, <2>3, <3>1 DEF Subscribe, Starts, ActivateBegin, Begin
  <2> QED
    BY <1>3, <2>1, <2>2, <2>3
<1>4. ASSUME NEW s \in Task,
             \/ EnsureSubscriber(s) \/ Greet(s) \/ GreetRetried(s)
             \/ SectionsRead(s) \/ EditText(s) \/ ItemsShown(s)
      PROVE  CallsMatch'
  <2>1. call' = call /\ call[s].op = "idle"
    BY <1>0, <1>4 DEF EnsureSubscriber, Greet, GreetRetried, SectionsRead, EditText,
                      ItemsShown, vars
  <2>2. \E h : h.name \in names /\ handler' = [handler EXCEPT ![s] = h]
    BY <1>0, <1>4 DEF EnsureSubscriber, Greet, GreetRetried, SectionsRead, EditText,
                      ItemsShown, Runs, Answers, Ends
  <2> HIDE DEF names
  <2> QED
    BY <1>2, <2>1, <2>2, Zenon
<1>5. ASSUME NEW s \in Task,
             \/ Subscribed(s) \/ ContentRefused(s) \/ ContentGranted(s)
             \/ SubscriptionRead(s) \/ SweepCommit(s) \/ HandlerRaises(s)
      PROVE  CallsMatch'
  <2>1. Return(s)
    BY <1>5 DEF Subscribed, ActivateCommit, ContentRefused, ContentGranted, CheckReturn,
                SubscriptionRead, SweepCommit, ExpireCommit, HandlerRaises
  <2>2. \E h : h.name \in names /\ handler' = [handler EXCEPT ![s] = h]
    BY <1>0, <1>5 DEF Subscribed, ContentRefused, ContentGranted, SubscriptionRead,
                      SweepCommit, HandlerRaises, Runs, Answers, Ends
  <2> HIDE DEF names
  <2> QED
    BY <1>2, <2>1, <2>2, Zenon
<1>6. ASSUME NEW s \in Task, SweepBegin(s) PROVE CallsMatch'
  <2>1. Match([name |-> "sweep"], [op |-> "expire", at |-> now])
    BY DEF Awaits
  <2> HIDE DEF Match
  <2> QED
    BY <1>1, <1>6, <2>1 DEF SweepBegin, ExpireBegin, Begin
<1>7. CASE StoreCrash
  BY <1>0, <1>7 DEF StoreCrash, Crash, CallsMatch
<1>8. CASE UNCHANGED <<handler, call>>
  BY <1>8 DEF CallsMatch
<1>9. CASE StoreTick \/ ChangePlans \/ \E u \in User : CancelSub(u)
  BY <1>8, <1>9 DEF StoreTick, Tick, ChangePlans, CancelSub, Cancel, vars
<1> QED
  BY <1>3, <1>4, <1>5, <1>6, <1>7, <1>9 DEF StoreNext

(* A check says yes only to a user with a row. *)
LEMMA VerdictHasRow ==
    ASSUME StoreTypeOK, CallsMatch, RowsEarned, NEW t \in Task,
           handler[t].name = "content", Verdict(t)
    PROVE  handler[t].user \in everMember
<1>1. call[t].op = "check" /\ call[t].user = handler[t].user
  BY DEF CallsMatch, Awaits
<1>2. TypeOK /\ call[t].at \in Int
  BY <1>1, CallFields DEF StoreTypeOK, TypeOK
<1>3. \E i \in DOMAIN subscriptions : subscriptions[i].user = call[t].user
  BY <1>2, NewestFound DEF Verdict
<1> QED
  BY <1>1, <1>3 DEF RowsEarned

LEMMA HandlersInductive ==
    ASSUME StoreTypeOK, CallsMatch, PlansAreKnown, ButtonsEarned, HandlersEarned,
           RowsEarned, StoreNext
    PROVE  HandlersEarned'
<1> DEFINE Got(u, b) ==
              /\ u \in subscribers'
              /\ b.kind \in {"plan", "subscribe"} => b.days \in everOnSale'
              /\ b.kind = "section" => u \in everMember'
           Fine(h, c) ==
              /\ h.name \in {"greet", "subscribe", "content", "sections", "my"} =>
                    h.user \in subscribers'
              /\ h.name \in {"sections", "items"} => h.user \in everMember'
              /\ h.name = "subscribe" => c.days \in everOnSale'
              /\ h.name = "answer" => \A b \in h.buttons : Got(h.user, b)
<1>0. /\ handler \in [Task -> Handler] /\ call \in [Task -> Call]
      /\ None.name = "none"
      /\ subscribers \subseteq subscribers' /\ everOnSale \subseteq everOnSale'
      /\ everMember \subseteq everMember'
  BY HistoriesGrow DEF StoreTypeOK, TypeOK, None
<1>a. \A t \in Task : Fine(handler[t], call[t])
  BY <1>0 DEF HandlersEarned, Earned
<1>1. ASSUME NEW s \in Task, NEW h,
             Fine(h, call'[s]),
             handler' = [handler EXCEPT ![s] = h],
             \A t \in Task : t # s => call'[t] = call[t]
      PROVE  HandlersEarned'
  <2>1. ASSUME NEW t \in Task PROVE Fine(handler'[t], call'[t])
    <3>1. CASE t = s
      BY <1>0, <1>1, <3>1
    <3>2. CASE t # s
      <4>1. handler'[t] = handler[t] /\ call'[t] = call[t]
        BY <1>0, <1>1, <3>2
      <4> HIDE DEF Fine
      <4> QED
        BY <1>a, <4>1
    <3> QED
      BY <3>1, <3>2
  <2> QED
    BY <2>1 DEF HandlersEarned, Earned
<1>2. ASSUME NEW s \in Task, NEW u \in User,
             \/ Start(s, u) \/ ListContent(s, u) \/ MySubscription(s, u)
             \/ ViewSection(s, u)
             \/ \E d \in Periods : Subscribe(s, u, d)
      PROVE  HandlersEarned'
  <2>0. \A b \in offered[u] : Earned(u, b)
    BY DEF ButtonsEarned
  <2>1. CASE Start(s, u)
    <3> DEFINE h == [name |-> "ensure", user |-> u]
    <3>1. /\ handler' = [handler EXCEPT ![s] = h]
          /\ \A t \in Task : t # s => call'[t] = call[t]
      BY <2>1 DEF Start, Starts, vars
    <3>2. Fine(h, call'[s])
      OBVIOUS
    <3> HIDE DEF h, Fine
    <3> QED
      BY <1>1, <3>1, <3>2
  <2>2. CASE ListContent(s, u) \/ MySubscription(s, u)
    <3>1. PICK n \in {"content", "my"} : handler' = [handler EXCEPT ![s] = [name |-> n, user |-> u]]
      BY <2>2 DEF ListContent, MySubscription, Starts
    <3>2. \A t \in Task : t # s => call'[t] = call[t]
      BY <1>0, <2>2 DEF ListContent, MySubscription, CheckBegin, Begin
    <3>3. u \in subscribers
      BY <2>0, <2>2 DEF ListContent, MySubscription, Pressed, Earned
    <3>4. Fine([name |-> n, user |-> u], call'[s])
      BY <1>0, <3>3
    <3> HIDE DEF Fine
    <3> QED
      BY <1>1, <3>1, <3>2, <3>4
  <2>3. ASSUME NEW d \in Periods, Subscribe(s, u, d) PROVE HandlersEarned'
    <3>1. Earned(u, ForPlan("subscribe", d))
      BY <2>0, <2>3 DEF Subscribe, Pressed
    <3>2. u \in subscribers' /\ d \in everOnSale'
      BY <1>0, <3>1 DEF Earned, ForPlan
    <3>3. /\ call'[s].days = d
          /\ \A t \in Task : t # s => call'[t] = call[t]
      BY <1>0, <2>3 DEF Subscribe, ActivateBegin, Begin
    <3>4. Fine([name |-> "subscribe", user |-> u], call'[s])
      BY <3>2, <3>3
    <3> HIDE DEF Fine
    <3> QED
      BY <1>1, <2>3, <3>3, <3>4 DEF Subscribe, Starts
  <2>4. CASE ViewSection(s, u)
    <3>1. PICK h : /\ h.name = "items" /\ h.user = u
                   /\ handler' = [handler EXCEPT ![s] = h]
      BY <2>4 DEF ViewSection
    <3>2. u \in everMember'
      BY <1>0, <2>0, <2>4, ButtonKinds DEF ViewSection, Pressed, Earned
    <3>3. Fine(h, call'[s])
      BY <3>1, <3>2
    <3> HIDE DEF Fine
    <3> QED
      BY <1>1, <2>4, <3>1, <3>3 DEF ViewSection, vars
  <2> QED
    BY <1>2, <2>1, <2>2, <2>3, <2>4
<1>3. ASSUME NEW s \in Task, EnsureSubscriber(s) PROVE HandlersEarned'
  <2>1. Fine([name |-> "greet", user |-> handler[s].user], call'[s])
    BY <1>3 DEF EnsureSubscriber
  <2> HIDE DEF Fine
  <2> QED
    BY <1>1, <1>3, <2>1 DEF EnsureSubscriber, Runs, vars
<1>4. ASSUME NEW s \in Task, ContentGranted(s) PROVE HandlersEarned'
  <2>1. handler[s].name = "content" /\ Verdict(s)
    BY <1>4 DEF ContentGranted
  <2>2. handler[s].user \in subscribers' /\ handler[s].user \in everMember'
    BY <1>0, <1>a, <2>1, VerdictHasRow
  <2>3. Fine([name |-> "sections", user |-> handler[s].user], call'[s])
    BY <2>2
  <2>4. \A t \in Task : t # s => call'[t] = call[t]
    BY <1>0, <1>4 DEF ContentGranted, CheckReturn, Return
  <2> HIDE DEF Fine
  <2> QED
    BY <1>1, <1>4, <2>3, <2>4 DEF ContentGranted, Runs
<1>5. ASSUME NEW s \in Task,
             \/ Greet(s) \/ GreetRetried(s) \/ EditText(s) \/ ItemsShown(s)
             \/ Subscribed(s)
             \/ SweepBegin(s) \/ SweepCommit(s) \/ HandlerRaises(s)
      PROVE  HandlersEarned'
  <2>1. \A t \in Task : t # s => call'[t] = call[t]
    BY <1>0, <1>5
       DEF Greet, GreetRetried, EditText, ItemsShown, Subscribed, ActivateCommit,
           SweepBegin, ExpireBegin, Begin, SweepCommit, ExpireCommit, HandlerRaises,
           Return, vars
  <2>2. PICK h : /\ h.name \in {"none", "ensure", "sweep"}
                /\ handler' = [handler EXCEPT ![s] = h]
    BY <1>0, <1>5
       DEF Greet, GreetRetried, EditText, ItemsShown, Subscribed, SweepBegin,
           SweepCommit, HandlerRaises, Runs, Ends
  <2>3. Fine(h, call'[s])
    BY <2>2
  <2> HIDE DEF Fine
  <2> QED
    BY <1>1, <2>1, <2>2, <2>3
<1>6. ASSUME NEW s \in Task,
              \/ ContentRefused(s) \/ SectionsRead(s) \/ SubscriptionRead(s)
              \/ \E u \in User : ListPlans(s, u) \/ \E d \in Periods : SelectPlan(s, u, d)
       PROVE  HandlersEarned'
  <2>1. PICK u \in User, bs \in SUBSET Button : Answers(s, u, bs) /\ GoodAnswer(u, bs)
    BY <1>6, AnswerSteps
  <2>2. \A t \in Task : t # s => call'[t] = call[t]
    BY <1>0, <1>6 DEF ContentRefused, SectionsRead, SubscriptionRead, ListPlans, SelectPlan,
                       CheckReturn, Return, vars
  <2>3. Fine([name |-> "answer", user |-> u, buttons |-> bs], call'[s])
    BY <2>1 DEF GoodAnswer, Earned
  <2> HIDE DEF Fine
  <2> QED
    BY <1>1, <2>1, <2>2, <2>3 DEF Answers
<1>7. CASE StoreCrash
  BY <1>0, <1>7 DEF StoreCrash, HandlersEarned
<1>8. CASE UNCHANGED <<handler, call>>
  <2>1. \A t \in Task : Fine(handler'[t], call'[t])
    BY <1>a, <1>8
  <2> QED
    BY <2>1 DEF HandlersEarned, Earned
<1>9. CASE StoreTick \/ ChangePlans \/ \E u \in User : CancelSub(u)
  BY <1>8, <1>9 DEF StoreTick, Tick, ChangePlans, CancelSub, Cancel, vars
<1> QED
  BY <1>2, <1>3, <1>4, <1>5, <1>7, <1>9, <1>6 DEF StoreNext

LEMMA RowsEarnedInductive ==
    ASSUME StoreInv, StoreNext
    PROVE  RowsEarned'
<1>0. /\ TypeOK /\ CallsAreRecent /\ [Next]_vars
      /\ now \in Int /\ now' \in Int /\ now <= now'
  <2>1. TypeOK /\ CallsAreRecent
    BY DEF StoreInv, SubscriptionsInv
  <2>2. [Next]_vars
    BY <2>1, StoreStepIsStep
  <2>3. now' = now \/ now' = now + 1
    BY <2>2, StepCases DEF Tick, ActivateCommit, TrialCommit, ExpireCommit, Cancel, MarkReminded
  <2> QED
    BY <2>1, <2>2, <2>3, TableTypes
<1>1. ASSUME NEW i \in DOMAIN subscriptions', i \in DOMAIN subscriptions
      PROVE  LET r == subscriptions'[i] IN
             /\ r.status # "trial"
             /\ r.user \in subscribers'
             /\ r.user \in everMember'
             /\ \E d \in everOnSale' : r.endAt - d \in 0..now'
  <2>1. /\ subscriptions'[i].user = subscriptions[i].user
        /\ subscriptions'[i].endAt = subscriptions[i].endAt
        /\ subscriptions'[i].status = "trial" => subscriptions[i].status = "trial"
    BY <1>0, <1>1, RowKept
  <2>2. LET r == subscriptions[i] IN
        /\ r.status # "trial"
        /\ r.user \in subscribers
        /\ r.user \in everMember
        /\ \E d \in everOnSale : r.endAt - d \in 0..now
    BY <1>1 DEF StoreInv, RowsEarned
  <2>3. PICK d \in everOnSale : d \in Periods /\ subscriptions[i].endAt - d \in 0..now
    BY <2>2 DEF StoreInv, StoreTypeOK
  <2>4. subscriptions'[i].endAt - d \in 0..now'
    BY <1>0, <2>1, <2>3
  <2> QED
    BY <2>1, <2>2, <2>3, <2>4, HistoriesGrow
<1>2. ASSUME NEW i \in DOMAIN subscriptions', i \notin DOMAIN subscriptions
      PROVE  LET r == subscriptions'[i] IN
             /\ r.status # "trial"
             /\ r.user \in subscribers'
             /\ r.user \in everMember'
             /\ \E d \in everOnSale' : r.endAt - d \in 0..now'
  <2>1. PICK t \in Task :
           /\ subscriptions'[i].user = call[t].user
           /\ \/ /\ call[t].op = "activate"
                 /\ subscriptions'[i].status = "active"
                 /\ subscriptions'[i].endAt = call[t].at + call[t].days
              \/ call[t].op = "trial"
    BY <1>0, <1>2, RowNew DEF ActivateCommit, TrialCommit
  <2>2. call[t].op = "activate" /\ handler[t].name = "subscribe" /\ call[t].user = handler[t].user
    BY <2>1 DEF StoreInv, CallsMatch, Awaits
  <2>3. /\ call[t].user \in User /\ call[t].days \in Periods
        /\ call[t].at \in 0..Horizon /\ call[t].at <= now
    BY <1>0, <2>2, CallFields DEF TypeOK, CallsAreRecent
  <2>4. call[t].user \in subscribers' /\ call[t].days \in everOnSale'
    BY <2>2, HistoriesGrow DEF StoreInv, HandlersEarned
  <2>5. call[t].user \in everMember'
    <3>1. subscriptions'[i].endAt + GraceDays > now'
      BY <1>0, <1>2, RowNew
    <3>2. PICK u \in User : u = call[t].user
      BY <2>3
    <3>3. HasAccess(u)'
      BY <1>2, <2>1, <2>2, <3>1, <3>2, AccessByRowNext
    <3> QED
      BY <3>2, <3>3, HistoriesGrow
  <2>6. subscriptions'[i].endAt - call[t].days \in 0..now'
    <3>1. subscriptions'[i].endAt = call[t].at + call[t].days
      BY <2>1, <2>2
    <3>2. call[t].days \in Nat /\ call[t].at \in Nat
      <4>1. \A d \in Periods : d \in Nat
        BY PeriodsAssumption DEF PeriodsAssumption
      <4>2. \A n \in 0..Horizon : n \in Nat
        BY BoundsAssumption DEF BoundsAssumption
      <4> QED
        BY <2>3, <4>1, <4>2, Zenon
    <3> QED
      BY <1>0, <2>3, <3>1, <3>2
  <2> QED
    BY <2>1, <2>2, <2>3, <2>4, <2>5, <2>6
<1> QED
  BY <1>1, <1>2 DEF RowsEarned

LEMMA StoreTypeInductive ==
    ASSUME StoreInv, StoreNext
    PROVE  StoreTypeOK'
<1>0. /\ StoreTypeOK /\ TypeOK
      /\ handler \in [Task -> Handler]
      /\ \A t \in Task :
            handler[t].name \notin {"none", "sweep"} => handler[t].user \in User
  <2>1. StoreTypeOK /\ TypeOK /\ handler \in [Task -> Handler]
    BY DEF StoreInv, StoreTypeOK
  <2> QED
    BY <2>1, HandlerFields
<1>1. TypeOK'
  BY <1>0, StoreStepIsStep, TypeInductive
<1>2. handler' \in [Task -> Handler]
  <2>0. /\ None \in Handler /\ [name |-> "sweep"] \in Handler
        /\ \A n \in {"ensure", "greet", "subscribe", "content", "sections", "my"}, u \in User :
              [name |-> n, user |-> u] \in Handler
        /\ \A u \in User, bs \in SUBSET Button :
              [name |-> "answer", user |-> u, buttons |-> bs] \in Handler
        /\ \A u \in User, e \in BOOLEAN : [name |-> "items", user |-> u, entitled |-> e] \in Handler
    BY DEF Handler
  <2>1. ASSUME NEW s \in Task, NEW h \in Handler, handler' = [handler EXCEPT ![s] = h]
        PROVE  handler' \in [Task -> Handler]
    BY <1>0, <2>1
  <2>2. ASSUME NEW s \in Task, NEW u \in User,
               \/ Start(s, u) \/ ListContent(s, u) \/ MySubscription(s, u)
               \/ ViewSection(s, u)
               \/ \E d \in Periods : Subscribe(s, u, d)
        PROVE  handler' \in [Task -> Handler]
    <3>1. HasAccess(u) \in BOOLEAN
      BY AccessByRow
    <3> QED
      BY <2>0, <2>1, <2>2, <3>1
         DEF Start, ListContent, MySubscription, ViewSection, Subscribe, Starts
  <2>3. ASSUME NEW s \in Task,
               EnsureSubscriber(s) \/ GreetRetried(s) \/ ContentGranted(s)
        PROVE  handler' \in [Task -> Handler]
    <3>1. handler[s].user \in User
      BY <1>0, <2>3 DEF EnsureSubscriber, GreetRetried, ContentGranted
    <3> QED
      BY <2>0, <2>1, <2>3, <3>1 DEF EnsureSubscriber, GreetRetried, ContentGranted, Runs
  <2>4. ASSUME NEW s \in Task,
               \/ Greet(s) \/ Subscribed(s) \/ EditText(s) \/ ItemsShown(s)
               \/ SweepBegin(s) \/ SweepCommit(s) \/ HandlerRaises(s)
        PROVE  handler' \in [Task -> Handler]
    BY <2>0, <2>1, <2>4
       DEF Greet, Subscribed, EditText, ItemsShown, SweepBegin, SweepCommit,
           HandlerRaises, Ends
  <2>7. ASSUME NEW s \in Task,
               \/ ContentRefused(s) \/ SectionsRead(s) \/ SubscriptionRead(s)
               \/ \E u \in User : ListPlans(s, u) \/ \E d \in Periods : SelectPlan(s, u, d)
        PROVE  handler' \in [Task -> Handler]
    <3>1. PICK u \in User, bs \in SUBSET Button : Answers(s, u, bs)
      BY <2>7, AnswerSteps DEF StoreInv
    <3> QED
      BY <2>0, <2>1, <3>1 DEF Answers
  <2>5. CASE StoreCrash
    BY <2>0, <2>5 DEF StoreCrash
  <2>6. CASE StoreTick \/ ChangePlans \/ \E u \in User : CancelSub(u)
    BY <1>0, <2>6 DEF StoreTick, ChangePlans, CancelSub
  <2> QED
    BY <2>2, <2>3, <2>4, <2>5, <2>6, <2>7 DEF StoreNext
<1>3. subscribers' \subseteq User
  <2>1. ASSUME NEW s \in Task, EnsureSubscriber(s) PROVE subscribers' \subseteq User
    BY <1>0, <2>1 DEF EnsureSubscriber, StoreTypeOK
  <2> QED
    BY <1>0, <2>1, WhoWrites DEF StoreTypeOK
<1>4. onSale' \subseteq Periods /\ everOnSale' \subseteq Periods
  BY <1>0, WhoWrites DEF ChangePlans, StoreTypeOK
<1>5. offered' \in [User -> SUBSET Button]
  <2>1. offered \in [User -> SUBSET Button]
    BY <1>0 DEF StoreTypeOK
  <2>2. ASSUME NEW u \in User, NEW bs \in SUBSET Button, Offer(u, bs)
        PROVE  offered' \in [User -> SUBSET Button]
    <3>1. offered[u] \cup bs \in SUBSET Button
      BY <2>1
    <3> QED
      BY <2>1, <2>2, <3>1 DEF Offer
  <2> QED
    BY <2>1, <2>2, OfferSteps DEF StoreInv, GoodAnswer
<1>6. everMember' \subseteq User
  BY <1>0 DEF StoreTypeOK, StoreNext, Membership
<1>7. readers' \subseteq User
  <2>1. ASSUME NEW t \in Task, ItemsShown(t) PROVE readers' \subseteq User
    BY <1>0, <2>1 DEF ItemsShown, StoreTypeOK
  <2> QED
    BY <1>0, <2>1, WhoWrites DEF StoreTypeOK
<1> QED
  BY <1>1, <1>2, <1>3, <1>4, <1>5, <1>6, <1>7 DEF StoreTypeOK

(* What the handlers know of each other, of the table and of the chats      *)
(* holds of every reachable state.                                          *)
THEOREM StoreInvariant == StoreSpec => []StoreInv
<1>1. StoreInit => StoreInv
  <2> SUFFICES ASSUME StoreInit PROVE StoreInv
    OBVIOUS
  <2>1. SubscriptionsInv /\ DOMAIN subscriptions = {}
    BY InitInv DEF StoreInit, Init
  <2>2. StoreTypeOK
    BY <2>1 DEF SubscriptionsInv, StoreInit, StoreTypeOK, Handler
  <2>3. CallsMatch
    BY DEF StoreInit, Init, CallsMatch, Awaits, None, Idle
  <2>4. ButtonsEarned /\ PlansAreKnown
    BY DEF StoreInit, ButtonsEarned, PlansAreKnown
  <2>5. HandlersEarned
    BY DEF StoreInit, HandlersEarned, None
  <2> QED
    BY <2>1, <2>2, <2>3, <2>4, <2>5 DEF StoreInv, RowsEarned
<1>2. StoreInv /\ [StoreNext]_storeVars => StoreInv'
  <2> SUFFICES ASSUME StoreInv, [StoreNext]_storeVars PROVE StoreInv'
    OBVIOUS
  <2>1. SubscriptionsInv'
    BY StoreStepIsStep, StepInv DEF StoreInv, SubscriptionsInv
  <2>2. CASE StoreNext
    BY <2>1, <2>2, StoreTypeInductive, CallsMatchInductive, PlansAreKnownInductive,
       ButtonsInductive, HandlersInductive, RowsEarnedInductive DEF StoreInv
  <2>3. CASE UNCHANGED storeVars
    <3>1. StoreTypeOK'
      BY <2>1, <2>3 DEF StoreInv, SubscriptionsInv, StoreTypeOK, storeVars, shopVars
    <3>2. CallsMatch' /\ PlansAreKnown'
      BY <2>3 DEF StoreInv, CallsMatch, PlansAreKnown, storeVars, shopVars, vars
    <3>3. ButtonsEarned' /\ HandlersEarned' /\ RowsEarned'
      BY <2>3 DEF StoreInv, ButtonsEarned, HandlersEarned, Earned, RowsEarned, storeVars,
                  shopVars, vars
    <3> QED
      BY <2>1, <3>1, <3>2, <3>3 DEF StoreInv
  <2> QED
    BY <2>2, <2>3
<1> QED
  BY <1>1, <1>2, PTL DEF StoreSpec

(* The handlers, the buttons and the tables hold what the code puts there:  *)
(* no button names a plan that does not exist, no handler works for an      *)
(* unknown user.                                                            *)
THEOREM StoreTypeCorrect == StoreSpec => []StoreTypeOK
<1>1. StoreInv => StoreTypeOK
  BY DEF StoreInv
<1> QED
  BY <1>1, StoreInvariant, PTL

(* Nobody is on the members' list twice, and nobody whose end date has not  *)
(* passed is missing from it.                                               *)
THEOREM MembersAreListedOnceHolds == StoreSpec => []MembersAreListedOnce
<1>1. ASSUME StoreInv PROVE MembersAreListedOnce
  <2>0. /\ Supersession /\ StatusMatchesDate /\ RowsEarned
        /\ now \in Int
        /\ \A i \in DOMAIN subscriptions : /\ subscriptions[i].endAt \in Int
                                           /\ subscriptions[i].status \in Status
        /\ \A i, j \in DOMAIN subscriptions : i < j \/ j < i \/ i = j
    <3>1. TypeOK /\ Supersession /\ StatusMatchesDate /\ RowsEarned
      BY <1>1 DEF StoreInv, SubscriptionsInv
    <3>2. \A i \in DOMAIN subscriptions : subscriptions[i] \in Row
      BY <3>1, LenProperties DEF TypeOK
    <3>3. \A i \in DOMAIN subscriptions : subscriptions[i].status \in Status
      BY <3>2 DEF Row
    <3> QED
      BY <3>1, <3>3, TableTypes
  <2>1. ASSUME NEW i \in GetActiveSubscribers, NEW j \in GetActiveSubscribers,
               subscriptions[i].user = subscriptions[j].user, i < j
        PROVE  FALSE
    <3>1. subscriptions[i].status = "active" /\ subscriptions[j].status = "active"
      BY <2>0 DEF GetActiveSubscribers, RowsEarned
    <3>2. i \in DOMAIN subscriptions /\ j \in DOMAIN subscriptions
      BY DEF GetActiveSubscribers
    <3>3. subscriptions[i].status = "expired"
      BY <2>0, <2>1, <3>1, <3>2 DEF Supersession
    <3> QED
      BY <3>1, <3>3
  <2>2. ASSUME NEW i \in DOMAIN subscriptions, Alive(i, now), subscriptions[i].endAt >= now
        PROVE  i \in GetActiveSubscribers
    <3>1. subscriptions[i].status = "active"
      BY <2>0, <2>2 DEF Alive, StatusMatchesDate, RowsEarned, Status
    <3> QED
      BY <2>0, <3>1 DEF GetActiveSubscribers, RowsEarned
  <2>3. GetActiveSubscribers \subseteq DOMAIN subscriptions
    BY DEF GetActiveSubscribers
  <2> QED
    BY <2>0, <2>1, <2>2, <2>3 DEF MembersAreListedOnce
<1> QED
  BY <1>1, StoreInvariant, PTL

(* Only plans that have been on sale are bought, also through an old list   *)
(* or menu, and the end date is that plan's period after a day that has     *)
(* come.                                                                    *)
THEOREM NoSaleBeforeLaunchHolds == StoreSpec => []NoSaleBeforeLaunch
<1>1. StoreInv => NoSaleBeforeLaunch
  BY DEF StoreInv, RowsEarned, NoSaleBeforeLaunch
<1> QED
  BY <1>1, StoreInvariant, PTL

(* The buttons of the sections are sent only to users who have been         *)
(* members.                                                                 *)
THEOREM SectionsWereEarnedHolds == StoreSpec => []SectionsWereEarned
<1>1. StoreInv => SectionsWereEarned
  BY DEF StoreInv, ButtonsEarned, Earned, SectionsWereEarned, Plain
<1> QED
  BY <1>1, StoreInvariant, PTL

(* The cancel button of a renewing subscription works until its end date    *)
(* has passed: until then no sweep has taken its row out of 'active'.       *)
THEOREM CancelWorksHolds == StoreSpec => []CancelWorksUntilEndDate
<1>1. ASSUME StoreInv PROVE CancelWorksUntilEndDate
  <2>1. ASSUME NEW u \in User, NEW i \in DOMAIN subscriptions,
               subscriptions[i].user = u, Alive(i, now),
               subscriptions[i].endAt >= now, subscriptions[i].autoRenew
        PROVE  Cancelled(subscriptions, u) # subscriptions
    <3>0. TypeOK /\ StatusMatchesDate /\ RowsEarned
      BY <1>1 DEF StoreInv, SubscriptionsInv
    <3>1. now \in Int /\ subscriptions[i].endAt \in Int /\ subscriptions[i] \in Row
      BY <3>0, TableTypes, LenProperties DEF TypeOK
    <3>2. subscriptions[i].status \in Status
      BY <3>1 DEF Row
    <3>3. subscriptions[i].status = "active"
      BY <2>1, <3>0, <3>1, <3>2 DEF Alive, StatusMatchesDate, RowsEarned, Status
    <3>4. Cancelled(subscriptions, u)[i] = [subscriptions[i] EXCEPT !.autoRenew = FALSE]
      BY <2>1, <3>3 DEF Cancelled
    <3>5. Cancelled(subscriptions, u)[i].autoRenew = FALSE
      BY <3>1, <3>4 DEF Row
    <3> QED
      BY <2>1, <3>5
  <2> QED
    BY <2>1 DEF CancelWorksUntilEndDate
<1> QED
  BY <1>1, StoreInvariant, PTL

(* What is true of view_section, which asks nothing: whoever was shown the  *)
(* items of a section without a subscription has had one before.            *)
THEOREM ReadersWereMembers == StoreSpec => [](readers \subseteq everMember)
<1> DEFINE I == readers \subseteq everMember
<1>1. StoreInit => I
  BY DEF StoreInit
<1>2. I /\ StoreInv /\ [StoreNext]_storeVars => I'
  <2> SUFFICES ASSUME I, StoreInv, [StoreNext]_storeVars PROVE I'
    OBVIOUS
  <2>1. ASSUME NEW t \in Task, ItemsShown(t)
        PROVE  readers' \subseteq readers \cup everMember
    BY <2>1 DEF ItemsShown, StoreInv, HandlersEarned
  <2>2. readers' = readers \/ \E t \in Task : ItemsShown(t)
    BY WhoWrites DEF storeVars, shopVars
  <2>3. everMember \subseteq everMember'
    BY HistoriesGrow DEF storeVars, shopVars
  <2> QED
    BY <2>1, <2>2, <2>3
<1> QED
  BY <1>1, <1>2, StoreInvariant, PTL DEF StoreSpec

-----------------------------------------------------------------------------
(* Composition. *)

(* The members' handlers implement the table: each of their steps is a step *)
(* of Subscriptions or none.                                                *)
THEOREM StoreImplementsTable == StoreSpec => Spec
<1>1. StoreInit => Init
  BY DEF StoreInit
<1>2. StoreInv /\ [StoreNext]_storeVars => [Next]_vars
  BY StoreStepIsStep DEF StoreInv, StoreTypeOK
<1> QED
  BY <1>1, <1>2, StoreInvariant, PTL DEF StoreSpec, Spec

(* The members' handlers keep the promise: whatever is pressed and whatever *)
(* fails, access changes by the calendar and by purchases only.             *)
THEOREM StoreKeepsPromise == StoreSpec => KeepsPromise
BY StoreImplementsTable, KeepsPromiseHolds

=============================================================================
