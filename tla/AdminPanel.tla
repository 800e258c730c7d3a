----------------------------- MODULE AdminPanel -----------------------------
(***************************************************************************)
(* The administrators' side, src/admin/handlers.py: the password dialogue  *)
(* and the broadcast, under RetryMiddleware (src/core/errors.py), which    *)
(* runs the handler of a message again when Telegram fails in it.          *)
(*                                                                         *)
(* The dispatcher handles updates concurrently.  It reads the sender's     *)
(* dialogue state to choose the handler, and the handler changes that      *)
(* state later, after other awaits.  The dialogue state outlives a restart *)
(* if it is kept in Redis; who is authorised, the failed attempts and the  *)
(* messages being handled do not.                                          *)
(*                                                                         *)
(* AdminGate is a class of the library botkit-core: is_admin, authorize    *)
(* and is_throttled are modelled from what handlers and tests rely on.     *)
(***************************************************************************)
EXTENDS Integers

CONSTANTS
    User,         \* Telegram users
    ConfigAdmin,  \* settings.admin_ids
    Member,       \* the users get_active_subscribers may return
    Message,      \* the messages of a behaviour (bound)
    MaxAttempts,  \* failed attempts of a window after which the gate throttles
    MaxRetries,   \* max_retries of RetryMiddleware
    MaxFaults,    \* bound: failed calls, deaths and ended windows
    MaxPrompts    \* bound: times a user presses the button of the broadcast

ASSUME ConfigAdminAssumption == ConfigAdmin \subseteq User
ASSUME LimitsAssumption ==
    /\ MaxAttempts \in Nat \ {0}
    /\ MaxRetries \in Nat \ {0}
    /\ MaxFaults \in Nat
    /\ MaxPrompts \in Nat

VARIABLES
    dialogue,     \* dialogue[u]: the FSM state of u
    authorized,   \* gate: users who have given the password
    attempts,     \* gate: attempts[u], the failed attempts of the window
    menu,         \* users who have been sent the admin menu
    task,         \* task[m]: how far the handling of message m is
    faults,       \* faults so far
    prompts,      \* prompts[u]: how often u was asked for a text
    compared,     \* history: compared[u], passwords of u compared in the window
    received,     \* history: received[m][u], copies of m that reached u
    unreported    \* history: unreported[m], final reports of m that failed

vars == <<dialogue, authorized, attempts, menu, task, faults,
          prompts, compared, received, unreported>>

history == <<prompts, compared, received, unreported>>
gate == <<authorized, attempts>>

Text == {"/start", "/admin", "password", "other", "blank"}
Dialogue == {"none", "password", "broadcast"}

(* The task of a message: who sent what, the handler chosen for it, the     *)
(* outcome so far, the await it has reached, the recipients still to be     *)
(* served and the retries.                                                  *)
Task ==
    [from : User, text : Text,
     handler : {"none", "start", "admin", "password", "broadcast"},
     outcome : {"none", "asked", "menu", "wrong", "throttled", "denied",
                "blank", "sent"},
     stage : {"sent", "run", "query", "sending", "clear", "answer", "done"},
     todo : SUBSET Member,
     retries : 0..MaxRetries]

PanelTypeOK ==
    /\ dialogue \in [User -> Dialogue]
    /\ authorized \subseteq User
    /\ attempts \in [User -> 0..MaxAttempts]
    /\ menu \subseteq User
    /\ DOMAIN task \subseteq Message
    /\ \A m \in DOMAIN task : task[m] \in Task
    /\ faults \in 0..MaxFaults
    /\ prompts \in [User -> 0..MaxPrompts]
    /\ compared \in [User -> Nat]
    /\ received \in [Message -> [Member -> Nat]]
    /\ unreported \in [Message -> Nat]

NoTask == [m \in {} |-> {}]

PanelInit ==
    /\ dialogue = [u \in User |-> "none"]
    /\ authorized = {}
    /\ attempts = [u \in User |-> 0]
    /\ menu = {}
    /\ task = NoTask
    /\ faults = 0
    /\ prompts = [u \in User |-> 0]
    /\ compared = [u \in User |-> 0]
    /\ received = [m \in Message |-> [u \in Member |-> 0]]
    /\ unreported = [m \in Message |-> 0]

Fault == faults < MaxFaults /\ faults' = faults + 1

At(m, stage) == m \in DOMAIN task /\ task[m].stage = stage
From(m) == task[m].from
GoesTo(m, stage) == task' = [task EXCEPT ![m].stage = stage]
Leaves(u) == dialogue' = [dialogue EXCEPT ![u] = "none"]

IsAdmin(u) == u \in ConfigAdmin \cup authorized
IsThrottled(u) == attempts[u] = MaxAttempts

-----------------------------------------------------------------------------
(* Updates. *)

Send(m, u, text) ==
    /\ m \notin DOMAIN task
    /\ task' = [n \in DOMAIN task \cup {m} |->
                   IF n = m
                   THEN [from |-> u, text |-> text, handler |-> "none",
                         outcome |-> "none", stage |-> "sent", todo |-> {},
                         retries |-> 0]
                   ELSE task[n]]
    /\ UNCHANGED <<dialogue, gate, menu, faults, history>>

(* Filters: commands first, whatever the state; then the state decides.     *)
HandlerFor(u, text) ==
    CASE text = "/start"                -> "start"
      [] text = "/admin"                -> "admin"
      [] OTHER                          -> dialogue[u]

Dispatch(m) ==
    /\ At(m, "sent")
    /\ LET h == HandlerFor(From(m), task[m].text)
       IN  task' = [task EXCEPT ![m].handler = h,
                                ![m].stage = IF h = "none" THEN "done" ELSE "run"]
    /\ UNCHANGED <<dialogue, gate, menu, faults, history>>

Runs(m, handler) == At(m, "run") /\ task[m].handler = handler

(* state.clear() of /start; the rest of that handler is in Storefront.      *)
Start(m) ==
    /\ Runs(m, "start")
    /\ Leaves(From(m))
    /\ GoesTo(m, "done")
    /\ UNCHANGED <<gate, menu, faults, history>>

Ends(m, outcome, stage) ==
    task' = [task EXCEPT ![m].outcome = outcome, ![m].stage = stage]

AdminEntry(m) ==
    /\ Runs(m, "admin")
    /\ IF IsAdmin(From(m))
       THEN Ends(m, "menu", "answer") /\ UNCHANGED dialogue
       ELSE /\ Ends(m, "asked", "answer")
            /\ dialogue' = [dialogue EXCEPT ![From(m)] = "password"]
    /\ UNCHANGED <<gate, menu, faults, history>>

-----------------------------------------------------------------------------
(* The password dialogue. *)

(* gate.authorize: a right password admits and forgets the failed attempts. *)
Authorize(m) ==
    LET u == From(m) IN
    IF task[m].text = "password"
    THEN /\ authorized' = authorized \cup {u}
         /\ attempts' = [attempts EXCEPT ![u] = 0]
         /\ compared' = [compared EXCEPT ![u] = 0]
         /\ Ends(m, "menu", "clear")
    ELSE /\ attempts' = [attempts EXCEPT ![u] = IF @ < MaxAttempts THEN @ + 1 ELSE @]
         /\ compared' = [compared EXCEPT ![u] = @ + 1]
         /\ Ends(m, "wrong", "answer")
         /\ UNCHANGED authorized

(* Mutant of CheckPassword: the gate is asked whether it throttles after    *)
(* authorize has compared.                                                  *)
CheckPasswordFirst(m) ==
    /\ Runs(m, "password")
    /\ Authorize(m)
    /\ UNCHANGED <<dialogue, menu, faults, prompts, received, unreported>>

(* No await between is_throttled and authorize.                             *)
CheckPassword(m) ==
    /\ Runs(m, "password")
    /\ IF IsThrottled(From(m))
       THEN Ends(m, "throttled", "clear") /\ UNCHANGED <<gate, compared>>
       ELSE Authorize(m)
    /\ UNCHANGED <<dialogue, menu, faults, prompts, received, unreported>>

-----------------------------------------------------------------------------
(* The broadcast. *)

(* The button of the menu, for administrators.                              *)
BroadcastStart(u) ==
    /\ u \in menu
    /\ IsAdmin(u)
    /\ prompts[u] < MaxPrompts
    /\ dialogue' = [dialogue EXCEPT ![u] = "broadcast"]
    /\ prompts' = [prompts EXCEPT ![u] = @ + 1]
    /\ UNCHANGED <<gate, menu, task, faults, compared, received, unreported>>

(* Mutant of BroadcastSend: only the menu's button asks for an admin.       *)
BroadcastSendAnyone(m) ==
    /\ Runs(m, "broadcast")
    /\ IF task[m].text = "blank" THEN Ends(m, "blank", "answer") ELSE GoesTo(m, "query")
    /\ UNCHANGED <<dialogue, gate, menu, faults, history>>

BroadcastSend(m) ==
    /\ Runs(m, "broadcast")
    /\ IF ~IsAdmin(From(m)) THEN Ends(m, "denied", "answer")
       ELSE IF task[m].text = "blank" THEN Ends(m, "blank", "answer")
       ELSE GoesTo(m, "query")
    /\ UNCHANGED <<dialogue, gate, menu, faults, history>>

(* Who is listed at that moment is up to Subscriptions.                     *)
QueryListed(m) ==
    /\ At(m, "query")
    /\ \E listed \in SUBSET Member :
          task' = [task EXCEPT ![m].todo = listed, ![m].outcome = "sent",
                               ![m].stage = IF listed = {} THEN "answer" ELSE "sending"]
    /\ UNCHANGED <<dialogue, gate, menu, faults, history>>

Served(m, u) ==
    LET left == task[m].todo \ {u} IN
    task' = [task EXCEPT ![m].todo = left,
                         ![m].stage = IF left = {} THEN "answer" ELSE "sending"]

Deliver(m, u) ==
    /\ At(m, "sending") /\ u \in task[m].todo
    /\ Served(m, u)
    /\ received' = [received EXCEPT ![m][u] = @ + 1]
    /\ UNCHANGED <<dialogue, gate, menu, faults, prompts, compared, unreported>>

(* Mutant of DeliverFails: a failed message is tried again.                 *)
DeliverFailsAgain(m, u) ==
    /\ At(m, "sending") /\ u \in task[m].todo
    /\ Fault
    /\ received' = [received EXCEPT ![m][u] = @ + 1]
    /\ UNCHANGED <<dialogue, gate, menu, task, prompts, compared, unreported>>

(* The message may have arrived although the call raised.                   *)
DeliverFails(m, u) ==
    /\ At(m, "sending") /\ u \in task[m].todo
    /\ Fault
    /\ Served(m, u)
    /\ \E arrived \in {0, 1} : received' = [received EXCEPT ![m][u] = @ + arrived]
    /\ UNCHANGED <<dialogue, gate, menu, prompts, compared, unreported>>

-----------------------------------------------------------------------------
(* How a handler ends. *)

(* Broadcasts answer first and clear the state last, the password dialogue  *)
(* the other way round.                                                     *)
Clear(m) ==
    /\ At(m, "clear")
    /\ Leaves(From(m))
    /\ GoesTo(m, IF task[m].handler = "broadcast" THEN "done" ELSE "answer")
    /\ UNCHANGED <<gate, menu, faults, history>>

MenuShown(m) == IF task[m].outcome = "menu" THEN menu \cup {From(m)} ELSE menu

Answer(m) ==
    /\ At(m, "answer")
    /\ GoesTo(m, IF task[m].outcome \in {"blank", "sent"} THEN "clear" ELSE "done")
    /\ menu' = MenuShown(m)
    /\ UNCHANGED <<dialogue, gate, faults, history>>

(* Mutant of AnswerFails: one retry more than max_retries allows.           *)
AnswerFailsOnceMore(m) ==
    /\ At(m, "answer")
    /\ Fault
    /\ LET failed == task[m].retries + 1 IN
       task' = [task EXCEPT ![m].retries = failed,
                            ![m].outcome = "none",
                            ![m].stage = IF failed > MaxRetries THEN "done" ELSE "run"]
    /\ unreported' = [unreported EXCEPT ![m] =
                         IF task[m].outcome = "sent" THEN @ + 1 ELSE @]
    /\ UNCHANGED <<dialogue, gate, menu, prompts, compared, received>>

(* RetryMiddleware: the handler runs again from its beginning; the last     *)
(* failure is raised and leaves the dialogue where it is.  The answer may   *)
(* have arrived all the same.                                               *)
AnswerFails(m) ==
    /\ At(m, "answer")
    /\ Fault
    /\ LET failed == task[m].retries + 1 IN
       task' = [task EXCEPT ![m].retries = failed,
                            ![m].outcome = "none",
                            ![m].stage = IF failed >= MaxRetries THEN "done" ELSE "run"]
    /\ menu' \in {menu, MenuShown(m)}
    /\ unreported' = [unreported EXCEPT ![m] =
                         IF task[m].outcome = "sent" THEN @ + 1 ELSE @]
    /\ UNCHANGED <<dialogue, gate, prompts, compared, received>>

(* An error the middleware does not retry: of the database, of the storage  *)
(* of the dialogues, or a refusal of Telegram.                              *)
Raises(m) ==
    /\ \/ At(m, "query") \/ At(m, "clear") \/ At(m, "answer")
       \/ Runs(m, "start")
       \/ Runs(m, "admin") /\ ~IsAdmin(From(m))
    /\ Fault
    /\ GoesTo(m, "done")
    /\ UNCHANGED <<dialogue, gate, menu, history>>

-----------------------------------------------------------------------------
(* Around the handlers. *)

(* The throttle window of the gate is over.                                 *)
WindowEnds(u) ==
    /\ attempts[u] > 0
    /\ Fault
    /\ attempts' = [attempts EXCEPT ![u] = 0]
    /\ compared' = [compared EXCEPT ![u] = 0]
    /\ UNCHANGED <<dialogue, authorized, menu, task, prompts, received, unreported>>

(* RedisStorage or MemoryStorage: see create_storage.                       *)
Restart ==
    /\ Fault
    /\ authorized' = {}
    /\ attempts' = [u \in User |-> 0]
    /\ compared' = [u \in User |-> 0]
    /\ task' = [m \in DOMAIN task |-> [task[m] EXCEPT !.stage = "done"]]
    /\ \/ UNCHANGED dialogue
       \/ dialogue' = [u \in User |-> "none"]
    /\ UNCHANGED <<menu, prompts, received, unreported>>

Next ==
    \/ \E m \in Message :
          \/ \E u \in User, text \in Text : Send(m, u, text)
          \/ Dispatch(m)
          \/ Start(m) \/ AdminEntry(m)
          \/ CheckPassword(m)
          \/ BroadcastSend(m) \/ QueryListed(m)
          \/ \E u \in Member : Deliver(m, u) \/ DeliverFails(m, u)
          \/ Clear(m) \/ Answer(m) \/ AnswerFails(m) \/ Raises(m)
    \/ \E u \in User : BroadcastStart(u) \/ WindowEnds(u)
    \/ Restart

Spec == PanelInit /\ [][Next]_vars

-----------------------------------------------------------------------------
(* Properties. *)

(* check_password asks is_throttled before authorize, "because authorize()  *)
(* accepts a correct password even inside the window": in one window and    *)
(* one life of the process a user has at most MaxAttempts wrong passwords   *)
(* compared, however many are typed at once and however often a handler is  *)
(* retried.                                                                 *)
GuessesAreBounded ==
    \A u \in User : compared[u] <= MaxAttempts

(* Whoever leaves a dialogue half done, races two messages or outlives a    *)
(* restart in it: nothing is sent to members on behalf of a user the gate   *)
(* does not count as an administrator at that moment.                       *)
OnlyAdminsBroadcast ==
    [][\A m \in Message, u \in Member :
          received'[m][u] > received[m][u] => IsAdmin(From(m))]_vars

(* A member receives a message twice only if the report to the              *)
(* administrator failed in between and the handler ran again, and so never  *)
(* more often than RetryMiddleware runs a handler.                          *)
RepeatsNeedFailedReport ==
    \A m \in Message, u \in Member :
        /\ received[m][u] <= unreported[m] + 1
        /\ received[m][u] <= MaxRetries

=============================================================================
