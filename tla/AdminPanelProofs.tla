-------------------------- MODULE AdminPanelProofs --------------------------
(***************************************************************************)
(* The properties of AdminPanel hold for any users, messages and bounds.   *)
(*                                                                         *)
(* The handler of a broadcast asks is_admin once and works on across its   *)
(* awaits; that is sound because a gate forgets only when the process dies *)
(* with all its tasks (SendersAreAdmins).  The guesses are bounded because *)
(* what was compared is what the gate counts (ComparedIsCounted).  The     *)
(* copies of a message are bounded by the runs of its handler (Copies): a  *)
(* run that has not reached a member yet comes after reports that failed.  *)
(***************************************************************************)
EXTENDS AdminPanel, TLAPS

SendersAreAdmins ==
    \A m \in DOMAIN task :
        /\ task[m].stage \in {"query", "sending"} => IsAdmin(From(m))
        /\ task[m].stage = "sending" => task[m].outcome = "sent"

ComparedIsCounted == \A u \in User : compared[u] = attempts[u]

(* The present run of m's handler may have reached u.                       *)
Reached(m, u) ==
    \/ task[m].stage = "sending" /\ u \notin task[m].todo
    \/ task[m].stage \in {"clear", "answer"} /\ task[m].outcome = "sent"
    \/ task[m].stage = "done"

CopiesOf(m, u) ==
    /\ received[m][u] <= unreported[m] + 1
    /\ received[m][u] <= MaxRetries
    /\ task[m].stage # "done" => /\ task[m].retries < MaxRetries
                                 /\ received[m][u] <= task[m].retries + 1
    /\ ~Reached(m, u) => /\ received[m][u] <= unreported[m]
                         /\ received[m][u] <= task[m].retries

Copies ==
    \A m \in Message, u \in Member :
        IF m \in DOMAIN task THEN CopiesOf(m, u) ELSE received[m][u] = 0

(* A handler under way may still be retried.                                *)
RetriesAreLeft == \A m \in DOMAIN task : task[m].stage # "done" => task[m].retries < MaxRetries

IInv == PanelTypeOK /\ SendersAreAdmins /\ ComparedIsCounted /\ RetriesAreLeft /\ Copies

-----------------------------------------------------------------------------
(* What a step does to the task of a message. *)

Stages == {"sent", "run", "query", "sending", "clear", "answer", "done"}
Outcomes == {"none", "asked", "menu", "wrong", "throttled", "denied", "blank", "sent"}
Handlers == {"none", "start", "admin", "password", "broadcast"}

TasksTypeOK == DOMAIN task \subseteq Message /\ \A m \in DOMAIN task : task[m] \in Task

(* Message m has now this outcome, stage, recipients and retries.           *)
Edited(m, o, s, todo, k) ==
    /\ DOMAIN task' = DOMAIN task
    /\ \A n \in DOMAIN task \ {m} : task'[n] = task[n]
    /\ task'[m] \in Task
    /\ task'[m].from = task[m].from
    /\ task'[m].outcome = o /\ task'[m].stage = s /\ task'[m].todo = todo /\ task'[m].retries = k

LEMMA TaskFields ==
    ASSUME NEW r \in Task
    PROVE  /\ r = [from |-> r.from, text |-> r.text, handler |-> r.handler, outcome |-> r.outcome,
                   stage |-> r.stage, todo |-> r.todo, retries |-> r.retries]
           /\ r.from \in User /\ r.text \in Text /\ r.handler \in Handlers /\ r.outcome \in Outcomes
           /\ r.stage \in Stages /\ r.todo \in SUBSET Member /\ r.retries \in 0..MaxRetries
BY DEF Task, Stages, Outcomes, Handlers

LEMMA GoesToEdits ==
    ASSUME TasksTypeOK, NEW m \in DOMAIN task, NEW s \in Stages, GoesTo(m, s)
    PROVE  Edited(m, task[m].outcome, s, task[m].todo, task[m].retries)
<1>1. task[m] \in Task
  BY DEF TasksTypeOK
<1>. QED
  BY <1>1, TaskFields DEF GoesTo, Edited, Task, Stages

LEMMA EndsEdits ==
    ASSUME TasksTypeOK, NEW m \in DOMAIN task, NEW o \in Outcomes, NEW s \in Stages, Ends(m, o, s)
    PROVE  Edited(m, o, s, task[m].todo, task[m].retries)
<1>1. task[m] \in Task
  BY DEF TasksTypeOK
<1>2. /\ DOMAIN task' = DOMAIN task
      /\ \A n \in DOMAIN task \ {m} : task'[n] = task[n]
      /\ task'[m] = [task[m] EXCEPT !.outcome = o, !.stage = s]
  BY DEF Ends
<1>3. task'[m] \in Task
  BY <1>1, <1>2 DEF Task, Stages, Outcomes
<1>4. /\ task'[m].from = task[m].from
      /\ task'[m].outcome = o /\ task'[m].stage = s
      /\ task'[m].todo = task[m].todo /\ task'[m].retries = task[m].retries
  BY <1>1, <1>2 DEF Task
<1>. QED
  BY <1>2, <1>3, <1>4 DEF Edited

LEMMA DispatchEdits ==
    ASSUME PanelTypeOK, NEW m \in Message, Dispatch(m)
    PROVE  \E s \in {"run", "done"} : Edited(m, task[m].outcome, s, task[m].todo, task[m].retries)
<1>1. m \in DOMAIN task /\ task[m] \in Task
  BY DEF PanelTypeOK, Dispatch, At
<1>. DEFINE h == HandlerFor(From(m), task[m].text)
<1>2. h \in Handlers
  BY <1>1, TaskFields DEF HandlerFor, From, PanelTypeOK, Dialogue, Handlers
<1>3. task' = [task EXCEPT ![m].handler = h, ![m].stage = IF h = "none" THEN "done" ELSE "run"]
  BY DEF Dispatch
<1>. HIDE DEF h
<1>. QED
  BY <1>1, <1>2, <1>3, TaskFields DEF Edited, Task, Handlers

LEMMA ServedEdits ==
    ASSUME TasksTypeOK, NEW m \in DOMAIN task, NEW u, Served(m, u)
    PROVE  \E s \in {"answer", "sending"} :
              Edited(m, task[m].outcome, s, task[m].todo \ {u}, task[m].retries)
<1>1. task[m] \in Task
  BY DEF TasksTypeOK
<1>. QED
  BY <1>1, TaskFields DEF Served, Edited, Task

LEMMA QueryEdits ==
    ASSUME TasksTypeOK, NEW m \in Message, QueryListed(m)
    PROVE  m \in DOMAIN task /\ \E listed \in SUBSET Member, s \in {"answer", "sending"} :
              Edited(m, "sent", s, listed, task[m].retries)
<1>1. m \in DOMAIN task /\ task[m] \in Task
  BY DEF TasksTypeOK, QueryListed, At
<1>2. PICK listed \in SUBSET Member :
          task' = [task EXCEPT ![m].todo = listed, ![m].outcome = "sent",
                               ![m].stage = IF listed = {} THEN "answer" ELSE "sending"]
  BY DEF QueryListed
<1>. QED
  BY <1>1, <1>2, TaskFields DEF Edited, Task

LEMMA FailEdits ==
    ASSUME TasksTypeOK, RetriesAreLeft, NEW m \in Message, AnswerFails(m)
    PROVE  m \in DOMAIN task /\ task[m].retries < MaxRetries /\
           \E s \in {"run", "done"} :
              /\ Edited(m, "none", s, task[m].todo, task[m].retries + 1)
              /\ s = "run" => task[m].retries + 1 < MaxRetries
<1>1. m \in DOMAIN task /\ task[m] \in Task /\ task[m].stage = "answer"
  BY DEF TasksTypeOK, AnswerFails, At
<1>2. task[m].retries + 1 \in 0..MaxRetries
  BY <1>1, TaskFields, LimitsAssumption DEF RetriesAreLeft
<1>. DEFINE k == task[m].retries + 1
<1>3. task' = [task EXCEPT ![m].retries = k, ![m].outcome = "none",
                           ![m].stage = IF k >= MaxRetries THEN "done" ELSE "run"]
  BY DEF AnswerFails
<1>4. k \in 0..MaxRetries
  BY <1>2
<1>5. \E s \in {"run", "done"} : Edited(m, "none", s, task[m].todo, k) /\ (s = "run" => k < MaxRetries)
  <2>. HIDE DEF k
  <2>. QED
    BY <1>1, <1>3, <1>4, TaskFields, LimitsAssumption DEF Edited, Task
<1>. QED
  BY <1>1, <1>5 DEF RetriesAreLeft

-----------------------------------------------------------------------------
(* Type correctness. *)

LEMMA EditKeepsTypes ==
    ASSUME TasksTypeOK, NEW m \in DOMAIN task, NEW o, NEW s, NEW todo, NEW k, Edited(m, o, s, todo, k)
    PROVE  TasksTypeOK'
BY DEF TasksTypeOK, Edited

LEMMA FaultCounts ==
    ASSUME PanelTypeOK, Fault
    PROVE  faults' \in 0..MaxFaults
BY LimitsAssumption DEF PanelTypeOK, Fault

RestTypeOK ==
    /\ dialogue \in [User -> Dialogue]
    /\ authorized \subseteq User
    /\ attempts \in [User -> 0..MaxAttempts]
    /\ menu \subseteq User
    /\ faults \in 0..MaxFaults
    /\ prompts \in [User -> 0..MaxPrompts]
    /\ compared \in [User -> Nat]
    /\ received \in [Message -> [Member -> Nat]]
    /\ unreported \in [Message -> Nat]

LEMMA TypesAre == PanelTypeOK <=> TasksTypeOK /\ RestTypeOK
BY DEF PanelTypeOK, TasksTypeOK, RestTypeOK

LEMMA AttemptsAre ==
    ASSUME PanelTypeOK, NEW u \in User
    PROVE  attempts[u] \in 0..MaxAttempts /\ MaxAttempts \in Nat
<1>1. attempts \in [User -> 0..MaxAttempts]
  BY DEF PanelTypeOK
<1>. QED
  BY <1>1, LimitsAssumption

(* Every step leaves the tasks well formed, and at most one of them behind. *)
LEMMA NextTasks ==
    ASSUME IInv, Next
    PROVE  TasksTypeOK'
<1>. USE TypesAre DEF IInv
<1>1. ASSUME NEW m \in Message, NEW u \in User, NEW text \in Text, Send(m, u, text)
      PROVE  TasksTypeOK'
  <2>1. [from |-> u, text |-> text, handler |-> "none", outcome |-> "none", stage |-> "sent",
         todo |-> {}, retries |-> 0] \in Task
    BY <1>1, LimitsAssumption DEF Task
  <2>. QED
    BY <1>1, <2>1 DEF Send, TasksTypeOK
<1>2. ASSUME NEW m \in Message, Dispatch(m)
      PROVE  TasksTypeOK'
  BY <1>2, DispatchEdits, EditKeepsTypes DEF Dispatch, At
<1>3. ASSUME NEW m \in Message, Start(m) \/ Clear(m) \/ Answer(m) \/ Raises(m) \/ BroadcastSend(m) \/ AdminEntry(m)
      PROVE  TasksTypeOK'
  <2>1. m \in DOMAIN task
    BY <1>3 DEF Start, Clear, Answer, Raises, BroadcastSend, AdminEntry, At, Runs
  <2>2. (\E s \in Stages : GoesTo(m, s)) \/ (\E o \in Outcomes, s \in Stages : Ends(m, o, s))
    BY <1>3 DEF Start, Clear, Answer, Raises, BroadcastSend, AdminEntry, Stages, Outcomes
  <2>. QED
    BY <2>1, <2>2, GoesToEdits, EndsEdits, EditKeepsTypes
<1>4. ASSUME NEW m \in Message, CheckPassword(m)
      PROVE  TasksTypeOK'
  <2>1. m \in DOMAIN task
    BY <1>4 DEF CheckPassword, At, Runs
  <2>2. \E o \in Outcomes, s \in Stages : Ends(m, o, s)
    BY <1>4 DEF CheckPassword, Authorize, Stages, Outcomes
  <2>. QED
    BY <2>1, <2>2, EndsEdits, EditKeepsTypes
<1>5. ASSUME NEW m \in Message, QueryListed(m)
      PROVE  TasksTypeOK'
  BY <1>5, QueryEdits, EditKeepsTypes
<1>6. ASSUME NEW m \in Message, NEW u \in Member, Deliver(m, u) \/ DeliverFails(m, u)
      PROVE  TasksTypeOK'
  <2>1. m \in DOMAIN task /\ Served(m, u)
    BY <1>6 DEF Deliver, DeliverFails, At
  <2>. QED
    BY <2>1, ServedEdits, EditKeepsTypes
<1>7. ASSUME NEW m \in Message, AnswerFails(m)
      PROVE  TasksTypeOK'
  BY <1>7, FailEdits, EditKeepsTypes
<1>8. ASSUME NEW u \in User, BroadcastStart(u) \/ WindowEnds(u)
      PROVE  TasksTypeOK'
  BY <1>8 DEF BroadcastStart, WindowEnds, TasksTypeOK
<1>9. ASSUME Restart
      PROVE  TasksTypeOK'
  BY <1>9, TaskFields DEF Restart, TasksTypeOK, Task
<1>. QED
  BY <1>1, <1>2, <1>3, <1>4, <1>5, <1>6, <1>7, <1>8, <1>9 DEF Next

LEMMA NextRest ==
    ASSUME IInv, Next
    PROVE  RestTypeOK'
<1>. USE TypesAre DEF IInv
<1>1. ASSUME NEW m \in Message, NEW u \in User, NEW text \in Text, Send(m, u, text)
      PROVE  RestTypeOK'
  BY <1>1 DEF Send, RestTypeOK, gate, history
<1>2. ASSUME NEW m \in Message, m \in DOMAIN task => From(m) \in User,
             Dispatch(m) \/ Start(m) \/ AdminEntry(m) \/ BroadcastSend(m) \/ QueryListed(m) \/ Clear(m)
      PROVE  RestTypeOK'
  BY <1>2 DEF Dispatch, Start, AdminEntry, BroadcastSend, QueryListed, Clear, Leaves, Runs, At,
     Dialogue, RestTypeOK, gate, history
<1>3. ASSUME NEW m \in Message, From(m) \in User, CheckPassword(m)
      PROVE  RestTypeOK'
  BY <1>3, LimitsAssumption DEF CheckPassword, Authorize, RestTypeOK, gate
<1>4. ASSUME NEW m \in Message, NEW u \in Member, Deliver(m, u) \/ DeliverFails(m, u)
      PROVE  RestTypeOK'
  <2>1. \E n \in {0, 1} : received' = [received EXCEPT ![m][u] = @ + n]
    BY <1>4 DEF Deliver, DeliverFails
  <2>2. received' \in [Message -> [Member -> Nat]]
    BY <2>1 DEF RestTypeOK
  <2>3. faults' \in 0..MaxFaults
    BY <1>4, FaultCounts DEF Deliver, DeliverFails, RestTypeOK
  <2>. QED
    BY <1>4, <2>2, <2>3 DEF Deliver, DeliverFails, RestTypeOK, gate
<1>5. ASSUME NEW m \in Message, From(m) \in User, Answer(m) \/ AnswerFails(m) \/ Raises(m)
      PROVE  RestTypeOK'
  BY <1>5, FaultCounts DEF Answer, AnswerFails, Raises, MenuShown, RestTypeOK, gate, history
<1>6. ASSUME NEW u \in User, BroadcastStart(u)
      PROVE  RestTypeOK'
  BY <1>6, LimitsAssumption DEF BroadcastStart, Dialogue, RestTypeOK, gate
<1>7. ASSUME NEW u \in User, WindowEnds(u)
      PROVE  RestTypeOK'
  BY <1>7, FaultCounts, LimitsAssumption DEF WindowEnds, RestTypeOK
<1>8. ASSUME Restart
      PROVE  RestTypeOK'
  BY <1>8, FaultCounts, LimitsAssumption DEF Restart, Dialogue, RestTypeOK
<1>9. \A m \in DOMAIN task : From(m) \in User
  BY TaskFields DEF TasksTypeOK, From
<1>10. ASSUME NEW m \in Message, CheckPassword(m) \/ Answer(m) \/ AnswerFails(m) \/ Raises(m)
       PROVE  m \in DOMAIN task
  BY <1>10 DEF CheckPassword, Answer, AnswerFails, Raises, Runs, At
<1>. QED
  BY <1>1, <1>2, <1>3, <1>4, <1>5, <1>6, <1>7, <1>8, <1>9, <1>10 DEF Next
-----------------------------------------------------------------------------
(* The other parts of the invariant. *)

LEMMA NextCounted ==
    ASSUME IInv, Next
    PROVE  ComparedIsCounted'
<1>. USE DEF IInv, ComparedIsCounted
<1>1. ASSUME NEW m \in Message, CheckPassword(m)
      PROVE  ComparedIsCounted'
  <2>1. task[m] \in Task /\ From(m) \in User
    BY <1>1, TaskFields DEF CheckPassword, Runs, At, PanelTypeOK, From
  <2>. QED
    <3>1. CASE IsThrottled(From(m))
      BY <1>1, <3>1 DEF CheckPassword, gate
    <3>2. CASE ~IsThrottled(From(m)) /\ task[m].text = "password"
      BY <1>1, <2>1, <3>2 DEF CheckPassword, Authorize, PanelTypeOK
    <3>3. CASE ~IsThrottled(From(m)) /\ task[m].text # "password"
      <4>1. attempts[From(m)] < MaxAttempts
        BY <2>1, <3>3, AttemptsAre DEF IsThrottled
      <4>. QED
        BY <1>1, <2>1, <3>3, <4>1 DEF CheckPassword, Authorize, PanelTypeOK
    <3>. QED
      BY <3>1, <3>2, <3>3
<1>2. ASSUME NEW u \in User, WindowEnds(u)
      PROVE  ComparedIsCounted'
  BY <1>2 DEF WindowEnds, PanelTypeOK
<1>3. ASSUME Restart
      PROVE  ComparedIsCounted'
  BY <1>3 DEF Restart
<1>4. ASSUME UNCHANGED <<attempts, compared>>
      PROVE  ComparedIsCounted'
  BY <1>4
<1>5. ASSUME NEW m \in Message, NEW u \in User, NEW text \in Text, Send(m, u, text)
      PROVE  UNCHANGED <<attempts, compared>>
  BY <1>5 DEF Send, gate, history
<1>6. ASSUME NEW m \in Message,
             Dispatch(m) \/ Start(m) \/ AdminEntry(m) \/ BroadcastSend(m) \/ QueryListed(m)
             \/ Clear(m) \/ Answer(m) \/ AnswerFails(m) \/ Raises(m)
      PROVE  UNCHANGED <<attempts, compared>>
  BY <1>6 DEF Dispatch, Start, AdminEntry, BroadcastSend, QueryListed, Clear, Answer, AnswerFails,
     Raises, gate, history
<1>7. ASSUME NEW m \in Message, NEW u \in Member, Deliver(m, u) \/ DeliverFails(m, u)
      PROVE  UNCHANGED <<attempts, compared>>
  BY <1>7 DEF Deliver, DeliverFails, gate
<1>8. ASSUME NEW u \in User, BroadcastStart(u)
      PROVE  UNCHANGED <<attempts, compared>>
  BY <1>8 DEF BroadcastStart, gate
<1>. QED
  BY <1>1, <1>2, <1>3, <1>4, <1>5, <1>6, <1>7, <1>8 DEF Next

(* A task that is not sending needs no administrator.                       *)
LEMMA EditKeepsSenders ==
    ASSUME IInv, NEW m \in DOMAIN task, NEW o, NEW s, NEW todo, NEW k, Edited(m, o, s, todo, k),
           authorized \subseteq authorized',
           s \in {"query", "sending"} => IsAdmin(From(m)),
           s = "sending" => o = "sent"
    PROVE  SendersAreAdmins'
BY DEF IInv, SendersAreAdmins, Edited, IsAdmin, From

LEMMA EditKeepsRetries ==
    ASSUME IInv, NEW m \in DOMAIN task, NEW o, NEW s, NEW todo, NEW k, Edited(m, o, s, todo, k),
           s # "done" => k < MaxRetries
    PROVE  RetriesAreLeft'
BY DEF IInv, RetriesAreLeft, Edited

LEMMA NextSenders ==
    ASSUME IInv, Next
    PROVE  SendersAreAdmins' /\ RetriesAreLeft'
<1>. DEFINE Goal == SendersAreAdmins' /\ RetriesAreLeft'
<1>. USE TypesAre DEF IInv
<1>1. ASSUME NEW m \in Message, NEW u \in User, NEW text \in Text, Send(m, u, text)
      PROVE  Goal
  BY <1>1, LimitsAssumption DEF Send, SendersAreAdmins, RetriesAreLeft, IsAdmin, From, gate
<1>2. ASSUME NEW m \in Message, Dispatch(m)
      PROVE  Goal
  <2>1. m \in DOMAIN task /\ task[m].stage = "sent" /\ UNCHANGED authorized
    BY <1>2 DEF Dispatch, At, gate
  <2>2. task[m].retries < MaxRetries
    BY <2>1 DEF RetriesAreLeft
  <2>. QED
    BY <1>2, <2>1, <2>2, DispatchEdits, EditKeepsSenders, EditKeepsRetries
<1>3. ASSUME NEW m \in Message,
             Start(m) \/ Clear(m) \/ Answer(m) \/ Raises(m) \/ AdminEntry(m) \/ CheckPassword(m)
      PROVE  Goal
  <2>1. m \in DOMAIN task /\ task[m].stage # "done" /\ authorized \subseteq authorized'
    BY <1>3 DEF Start, Clear, Answer, Raises, AdminEntry, CheckPassword, Authorize, Runs, At, gate
  <2>2. \/ \E s \in Stages \ {"query", "sending"} : GoesTo(m, s)
        \/ \E o \in Outcomes, s \in Stages \ {"query", "sending"} : Ends(m, o, s)
    BY <1>3 DEF Start, Clear, Answer, Raises, AdminEntry, CheckPassword, Authorize, Stages, Outcomes
  <2>3. \E o, s : Edited(m, o, s, task[m].todo, task[m].retries) /\ s \notin {"query", "sending"}
    BY <2>1, <2>2, GoesToEdits, EndsEdits
  <2>4. task[m].retries < MaxRetries
    BY <2>1 DEF RetriesAreLeft
  <2>. QED
    BY <2>1, <2>3, <2>4, EditKeepsSenders, EditKeepsRetries
<1>4. ASSUME NEW m \in Message, BroadcastSend(m)
      PROVE  Goal
  <2>1. m \in DOMAIN task /\ task[m].stage # "done" /\ UNCHANGED authorized
    BY <1>4 DEF BroadcastSend, Runs, At, gate
  <2>2. \/ IsAdmin(From(m)) /\ GoesTo(m, "query")
        \/ \E o \in {"denied", "blank"} : Ends(m, o, "answer")
    BY <1>4 DEF BroadcastSend
  <2>3. \E o, s : /\ Edited(m, o, s, task[m].todo, task[m].retries)
                  /\ s \in {"query", "sending"} => IsAdmin(From(m))
                  /\ s # "sending"
    BY <2>1, <2>2, GoesToEdits, EndsEdits DEF Stages, Outcomes
  <2>4. task[m].retries < MaxRetries
    BY <2>1 DEF RetriesAreLeft
  <2>. QED
    BY <2>1, <2>3, <2>4, EditKeepsSenders, EditKeepsRetries
<1>5. ASSUME NEW m \in Message, QueryListed(m)
      PROVE  Goal
  <2>1. m \in DOMAIN task /\ task[m].stage = "query" /\ UNCHANGED authorized
    BY <1>5 DEF QueryListed, At, gate
  <2>2. task[m].retries < MaxRetries /\ IsAdmin(From(m))
    BY <2>1 DEF RetriesAreLeft, SendersAreAdmins
  <2>. QED
    BY <1>5, <2>1, <2>2, QueryEdits, EditKeepsSenders, EditKeepsRetries
<1>6. ASSUME NEW m \in Message, NEW u \in Member, Deliver(m, u) \/ DeliverFails(m, u)
      PROVE  Goal
  <2>1. m \in DOMAIN task /\ task[m].stage = "sending" /\ UNCHANGED authorized /\ Served(m, u)
    BY <1>6 DEF Deliver, DeliverFails, At, gate
  <2>2. task[m].retries < MaxRetries /\ IsAdmin(From(m)) /\ task[m].outcome = "sent"
    BY <2>1 DEF RetriesAreLeft, SendersAreAdmins
  <2>3. PICK s \in {"answer", "sending"} :
              Edited(m, task[m].outcome, s, task[m].todo \ {u}, task[m].retries)
    BY <2>1, ServedEdits
  <2>4. SendersAreAdmins'
    BY <2>1, <2>2, <2>3, EditKeepsSenders
  <2>5. RetriesAreLeft'
    BY <2>1, <2>2, <2>3, EditKeepsRetries
  <2>. QED
    BY <2>4, <2>5
<1>7. ASSUME NEW m \in Message, AnswerFails(m)
      PROVE  Goal
  <2>1. UNCHANGED authorized
    BY <1>7 DEF AnswerFails, gate
  <2>. QED
    BY <1>7, <2>1, FailEdits, EditKeepsSenders, EditKeepsRetries
<1>8. ASSUME NEW u \in User, BroadcastStart(u) \/ WindowEnds(u)
      PROVE  Goal
  BY <1>8 DEF BroadcastStart, WindowEnds, SendersAreAdmins, RetriesAreLeft, IsAdmin, From, gate
<1>9. ASSUME Restart
      PROVE  Goal
  BY <1>9, TaskFields DEF Restart, SendersAreAdmins, RetriesAreLeft, TasksTypeOK
<1>. QED
  BY <1>1, <1>2, <1>3, <1>4, <1>5, <1>6, <1>7, <1>8, <1>9 DEF Next
-----------------------------------------------------------------------------
(* The copies of a message. *)

LEMMA CountsAre ==
    ASSUME IInv, NEW m \in Message, NEW u \in Member
    PROVE  /\ received[m][u] \in Nat /\ unreported[m] \in Nat /\ MaxRetries \in Nat \ {0}
           /\ m \in DOMAIN task => task[m].retries \in 0..MaxRetries
BY LimitsAssumption, TaskFields DEF IInv, PanelTypeOK

(* A step that changes no count: what may have been reached stays so.       *)
LEMMA QuietStep ==
    ASSUME IInv, NEW m \in DOMAIN task, NEW o, NEW s, NEW todo,
           Edited(m, o, s, todo, task[m].retries),
           UNCHANGED <<received, unreported>>,
           task[m].stage # "done",
           \A u \in Member : Reached(m, u) => Reached(m, u)'
    PROVE  Copies'
<1>. SUFFICES ASSUME NEW n \in Message, NEW u \in Member
              PROVE  IF n \in DOMAIN task' THEN CopiesOf(n, u)' ELSE received'[n][u] = 0
  BY DEF Copies
<1>1. CASE n = m
  BY <1>1, CountsAre DEF IInv, Copies, CopiesOf, Edited
<1>2. CASE n # m
  BY <1>2 DEF IInv, Copies, CopiesOf, Reached, Edited
<1>. QED
  BY <1>1, <1>2

LEMMA DeliverCopies ==
    ASSUME IInv, NEW m \in Message, NEW v \in Member, Deliver(m, v) \/ DeliverFails(m, v)
    PROVE  Copies'
<1>1. m \in DOMAIN task /\ task[m].stage = "sending" /\ v \in task[m].todo /\ Served(m, v)
  BY DEF Deliver, DeliverFails, At
<1>2. PICK n \in {0, 1} : received' = [received EXCEPT ![m][v] = @ + n]
  BY DEF Deliver, DeliverFails
<1>3. unreported' = unreported
  BY DEF Deliver, DeliverFails
<1>4. PICK s \in {"answer", "sending"} :
          Edited(m, task[m].outcome, s, task[m].todo \ {v}, task[m].retries)
  BY <1>1, TypesAre, ServedEdits DEF IInv
<1>5. s = "answer" => task[m].todo \ {v} = {} /\ task[m].outcome = "sent"
  <2>1. task[m] \in Task /\ task[m].outcome = "sent" /\ task'[m].stage = s
    BY <1>1, <1>4 DEF Edited, IInv, PanelTypeOK, SendersAreAdmins
  <2>2. task'[m].stage = IF task[m].todo \ {v} = {} THEN "answer" ELSE "sending"
    BY <1>1, <2>1 DEF Served, Task
  <2>. QED
    BY <2>1, <2>2
<1>. SUFFICES ASSUME NEW l \in Message, NEW u \in Member
              PROVE  IF l \in DOMAIN task' THEN CopiesOf(l, u)' ELSE received'[l][u] = 0
  BY DEF Copies
<1>6. received'[l][u] = IF l = m /\ u = v THEN received[l][u] + n ELSE received[l][u]
  BY <1>2 DEF IInv, PanelTypeOK
<1>. QED
  BY <1>1, <1>3, <1>4, <1>5, <1>6, CountsAre DEF IInv, Copies, CopiesOf, Reached, Edited

LEMMA FailCopies ==
    ASSUME IInv, NEW m \in Message, AnswerFails(m)
    PROVE  Copies'
<1>1. PICK s \in {"run", "done"} :
          /\ Edited(m, "none", s, task[m].todo, task[m].retries + 1)
          /\ s = "run" => task[m].retries + 1 < MaxRetries
  BY TypesAre, FailEdits DEF IInv
<1>2. m \in DOMAIN task /\ task[m].stage = "answer"
  BY DEF AnswerFails, At
<1>3. received' = received
  BY DEF AnswerFails
<1>. SUFFICES ASSUME NEW l \in Message, NEW u \in Member
              PROVE  IF l \in DOMAIN task' THEN CopiesOf(l, u)' ELSE received'[l][u] = 0
  BY DEF Copies
<1>4. unreported'[l] = IF l = m /\ task[m].outcome = "sent" THEN unreported[l] + 1 ELSE unreported[l]
  BY DEF AnswerFails, IInv, PanelTypeOK
<1>. QED
  BY <1>1, <1>2, <1>3, <1>4, CountsAre DEF IInv, Copies, CopiesOf, Reached, Edited

LEMMA NextCopies ==
    ASSUME IInv, Next
    PROVE  Copies'
<1>. USE TypesAre DEF IInv
<1>1. ASSUME NEW m \in Message, NEW u \in User, NEW text \in Text, Send(m, u, text)
      PROVE  Copies'
  BY <1>1, CountsAre, LimitsAssumption DEF Send, Copies, CopiesOf, Reached, history
<1>2. ASSUME NEW m \in Message, Dispatch(m)
      PROVE  Copies'
  <2>1. m \in DOMAIN task /\ task[m].stage = "sent" /\ UNCHANGED <<received, unreported>>
    BY <1>2 DEF Dispatch, At, history
  <2>2. PICK s \in {"run", "done"} : Edited(m, task[m].outcome, s, task[m].todo, task[m].retries)
    BY <1>2, DispatchEdits
  <2>3. \A u \in Member : ~Reached(m, u)
    BY <2>1 DEF Reached
  <2>. QED
    BY <2>1, <2>2, <2>3, QuietStep
<1>3. ASSUME NEW m \in Message,
             Start(m) \/ AdminEntry(m) \/ CheckPassword(m) \/ BroadcastSend(m)
      PROVE  Copies'
  <2>1. m \in DOMAIN task /\ task[m].stage = "run" /\ UNCHANGED <<received, unreported>>
    BY <1>3 DEF Start, AdminEntry, CheckPassword, BroadcastSend, Runs, At, history
  <2>2. \/ \E s \in Stages : GoesTo(m, s)
        \/ \E o \in Outcomes, s \in Stages : Ends(m, o, s)
    BY <1>3 DEF Start, AdminEntry, CheckPassword, Authorize, BroadcastSend, Stages, Outcomes
  <2>3. \E o, s : Edited(m, o, s, task[m].todo, task[m].retries)
    BY <2>1, <2>2, GoesToEdits, EndsEdits
  <2>4. \A u \in Member : ~Reached(m, u)
    BY <2>1 DEF Reached
  <2>. QED
    BY <2>1, <2>3, <2>4, QuietStep
<1>4. ASSUME NEW m \in Message, Clear(m) \/ Answer(m) \/ Raises(m)
      PROVE  Copies'
  <2>1. m \in DOMAIN task /\ task[m].stage \in {"clear", "answer", "query", "run"}
        /\ UNCHANGED <<received, unreported>>
    BY <1>4 DEF Clear, Answer, Raises, Runs, At, history
  <2>2. PICK s \in {"clear", "answer", "done"} : GoesTo(m, s)
    BY <1>4 DEF Clear, Answer, Raises
  <2>3. Edited(m, task[m].outcome, s, task[m].todo, task[m].retries)
    BY <2>1, <2>2, GoesToEdits DEF Stages
  <2>4. \A u \in Member : Reached(m, u) => Reached(m, u)'
    BY <2>1, <2>3 DEF Reached, Edited
  <2>. QED
    BY <2>1, <2>3, <2>4, QuietStep
<1>5. ASSUME NEW m \in Message, QueryListed(m)
      PROVE  Copies'
  <2>1. task[m].stage = "query" /\ UNCHANGED <<received, unreported>>
    BY <1>5 DEF QueryListed, At, history
  <2>2. \A u \in Member : ~Reached(m, u)
    BY <2>1 DEF Reached
  <2>. QED
    BY <1>5, <2>1, <2>2, QueryEdits, QuietStep
<1>6. ASSUME NEW u \in User, BroadcastStart(u) \/ WindowEnds(u)
      PROVE  Copies'
  BY <1>6 DEF BroadcastStart, WindowEnds, Copies, CopiesOf, Reached
<1>7. ASSUME Restart
      PROVE  Copies'
  <2>1. DOMAIN task' = DOMAIN task /\ \A m \in DOMAIN task : task'[m].stage = "done"
    BY <1>7, TaskFields DEF Restart, TasksTypeOK
  <2>2. UNCHANGED <<received, unreported>>
    BY <1>7 DEF Restart
  <2>. QED
    BY <2>1, <2>2 DEF Copies, CopiesOf, Reached
<1>. QED
  BY <1>1, <1>2, <1>3, <1>4, <1>5, <1>6, <1>7, DeliverCopies, FailCopies DEF Next

-----------------------------------------------------------------------------
(* Theorems. *)

LEMMA InitIInv == PanelInit => IInv
<1>. SUFFICES ASSUME PanelInit PROVE IInv
  OBVIOUS
<1>. USE DEF PanelInit, NoTask
<1>1. TasksTypeOK
  BY DEF TasksTypeOK
<1>2. RestTypeOK
  BY LimitsAssumption DEF RestTypeOK, Dialogue
<1>3. SendersAreAdmins /\ ComparedIsCounted /\ RetriesAreLeft
  BY DEF SendersAreAdmins, ComparedIsCounted, RetriesAreLeft
<1>4. Copies
  BY DEF Copies
<1>. QED
  BY <1>1, <1>2, <1>3, <1>4, TypesAre DEF IInv

LEMMA NextIInv == IInv /\ [Next]_vars => IInv'
<1>1. ASSUME IInv, Next PROVE IInv'
  BY <1>1, TypesAre, NextTasks, NextRest, NextSenders, NextCounted, NextCopies
     DEF IInv, TasksTypeOK, RestTypeOK, PanelTypeOK
<1>2. ASSUME IInv, UNCHANGED vars PROVE IInv'
  BY <1>2 DEF vars, IInv, PanelTypeOK, SendersAreAdmins, IsAdmin, From, ComparedIsCounted,
     RetriesAreLeft, Copies, CopiesOf, Reached
<1>. QED
  BY <1>1, <1>2

(* Every reachable state satisfies the inductive invariant.                 *)
THEOREM PanelInvariant == Spec => []IInv
BY InitIInv, NextIInv, PTL DEF Spec

(* The type invariant of AdminPanel.                                        *)
THEOREM PanelTypeCorrect == Spec => []PanelTypeOK
<1>1. IInv => PanelTypeOK
  BY DEF IInv
<1>. QED
  BY <1>1, PanelInvariant, PTL

(* At most MaxAttempts guesses are compared in a window.                    *)
THEOREM GuessesAreBoundedHolds == Spec => []GuessesAreBounded
<1>1. IInv => GuessesAreBounded
  <2>. SUFFICES ASSUME IInv, NEW u \in User PROVE compared[u] <= MaxAttempts
    BY DEF GuessesAreBounded
  <2>. QED
    BY AttemptsAre DEF IInv, ComparedIsCounted
<1>. QED
  BY <1>1, PanelInvariant, PTL

(* A member is sent a message twice only after a report that failed.        *)
THEOREM RepeatsNeedFailedReportHolds == Spec => []RepeatsNeedFailedReport
<1>1. IInv => RepeatsNeedFailedReport
  <2>. SUFFICES ASSUME IInv, NEW m \in Message, NEW u \in Member
                PROVE  received[m][u] <= unreported[m] + 1 /\ received[m][u] <= MaxRetries
    BY DEF RepeatsNeedFailedReport
  <2>. QED
    BY CountsAre DEF IInv, Copies, CopiesOf
<1>. QED
  BY <1>1, PanelInvariant, PTL

(* Nobody but an administrator reaches the members.                         *)
THEOREM OnlyAdminsBroadcastHolds == Spec => OnlyAdminsBroadcast
<1>. DEFINE Sends == \A m \in Message, u \in Member :
                        received'[m][u] > received[m][u] => IsAdmin(From(m))
<1>1. IInv /\ [Next]_vars => [Sends]_vars
  <2>. SUFFICES ASSUME IInv, Next, NEW m \in Message, NEW u \in Member,
                       received'[m][u] > received[m][u]
                PROVE  IsAdmin(From(m))
    OBVIOUS
  <2>1. received' # received
    BY CountsAre
  <2>2. PICK n \in Message, v \in Member : Deliver(n, v) \/ DeliverFails(n, v)
    BY <2>1 DEF Next, Send, Dispatch, Start, AdminEntry, CheckPassword, BroadcastSend, QueryListed,
       Clear, Answer, AnswerFails, Raises, BroadcastStart, WindowEnds, Restart, history
  <2>3. n \in DOMAIN task /\ task[n].stage = "sending"
    BY <2>2 DEF Deliver, DeliverFails, At
  <2>4. m = n
    BY <2>2, CountsAre DEF Deliver, DeliverFails, IInv, PanelTypeOK
  <2>. QED
    BY <2>3, <2>4 DEF IInv, SendersAreAdmins
<1>. QED
  BY <1>1, PanelInvariant, PTL DEF Spec, OnlyAdminsBroadcast
=============================================================================
