----------------------------- MODULE Storefront -----------------------------
(***************************************************************************)
(* The members' side of the bot, src/membership/handlers.py: /start and    *)
(* the handlers behind the inline buttons, run as concurrent asyncio tasks *)
(* over the table of Subscriptions.                                        *)
(*                                                                         *)
(* A button is not taken back: Telegram keeps it in the user's chat until  *)
(* the message is edited, /start may be sent again to get another message, *)
(* and a press carries nothing but the callback data.  So the buttons a    *)
(* user may press are all those the bot has ever sent to that user, at any *)
(* later time, also after a restart.                                       *)
(*                                                                         *)
(* Plans are told apart by their period only.  The content tables and      *)
(* plans.is_active are written by the operator, not by the program.        *)
(***************************************************************************)
EXTENDS Subscriptions

VARIABLES
    handler,      \* handler[t]: the handler task t is in the middle of
    subscribers,  \* the table "subscribers"
    onSale,       \* the plans with is_active = 1
    offered,      \* offered[u]: the buttons u has ever been sent
    everOnSale,   \* history: the plans that have been on sale at some time
    everMember,   \* history: the users who have had access at some time
    readers       \* history: users to whom section items were shown that
                  \* were read when they had no access

shopVars == <<handler, subscribers, onSale, offered, everOnSale, everMember, readers>>
storeVars == <<vars, shopVars>>

None == [name |-> "none"]

(* callback_data: "mem:plans", "mem:plan:<id>", "mem:subscribe:<id>", ... *)
Plain(k) == [kind |-> k, days |-> -1]
ForPlan(k, d) == [kind |-> k, days |-> d]
Button ==
    {Plain(k) : k \in {"plans", "content", "my", "section", "cancel"}}
    \cup {ForPlan(k, d) : k \in {"plan", "subscribe"}, d \in Periods}

(* A handler that has read what it needs is left with its answer, "answer": *)
(* an awaited edit_text with a keyboard; or, "items", with the items that   *)
(* it has read when the user had access or had not.                         *)
Handler ==
    {None} \cup [name : {"ensure", "greet", "subscribe", "content", "sections", "my"},
                 user : User]
           \cup [name : {"answer"}, user : User, buttons : SUBSET Button]
           \cup [name : {"items"}, user : User, entitled : BOOLEAN]
           \cup [name : {"sweep"}]

(* and "mem:polls", which is in Polls *)
MainMenu == {Plain("plans"), Plain("content"), Plain("my")}

StoreTypeOK ==
    /\ TypeOK
    /\ handler \in [Task -> Handler]
    /\ subscribers \subseteq User
    /\ onSale \subseteq Periods
    /\ offered \in [User -> SUBSET Button]
    /\ everOnSale \subseteq Periods
    /\ everMember \subseteq User
    /\ readers \subseteq User

StoreInit ==
    /\ Init
    /\ handler = [t \in Task |-> None]
    /\ subscribers = {}
    /\ onSale \in SUBSET Periods
    /\ offered = [u \in User |-> {}]
    /\ everOnSale = onSale
    /\ everMember = {}
    /\ readers = {}

(* The rows of the members' list: the admin panel shows them, the broadcast *)
(* sends to them.                                                           *)
GetActiveSubscribers ==
    {i \in DOMAIN subscriptions :
        subscriptions[i].user \in subscribers /\ subscriptions[i].status \in {"active", "trial"}}

(* Buttons in a message to u. *)
Offer(u, bs) == offered' = [offered EXCEPT ![u] = @ \cup bs]

Free(t) == handler[t].name = "none" /\ call[t].op = "idle"
Runs(t, name) == handler' = [handler EXCEPT ![t] = [name |-> name, user |-> handler[t].user]]
Starts(t, name, u) == handler' = [handler EXCEPT ![t] = [name |-> name, user |-> u]]
Answers(t, u, bs) ==
    handler' = [handler EXCEPT ![t] = [name |-> "answer", user |-> u, buttons |-> bs]]
Ends(t) == handler' = [handler EXCEPT ![t] = None]

Pressed(u, b) == b \in offered[u]

-----------------------------------------------------------------------------
(* Handlers. *)

Start(t, u) ==
    /\ Free(t)
    /\ Starts(t, "ensure", u)
    /\ UNCHANGED <<vars, subscribers, onSale, offered, everOnSale, readers>>

(* Mutant of EnsureSubscriber: the write is skipped. *)
EnsureNothing(t) ==
    /\ handler[t].name = "ensure"
    /\ Runs(t, "greet")
    /\ UNCHANGED <<vars, subscribers, onSale, offered, everOnSale, readers>>

(* ensure_subscriber: an upsert, in a transaction of its own. *)
EnsureSubscriber(t) ==
    /\ handler[t].name = "ensure"
    /\ subscribers' = subscribers \cup {handler[t].user}
    /\ Runs(t, "greet")
    /\ UNCHANGED <<vars, onSale, offered, everOnSale, readers>>

Greet(t) ==
    /\ handler[t].name = "greet"
    /\ Offer(handler[t].user, MainMenu)
    /\ Ends(t)
    /\ UNCHANGED <<vars, subscribers, onSale, everOnSale, readers>>

(* RetryMiddleware: a network error of the answer, delivered or not, runs   *)
(* start again (the two retries are not counted).                           *)
GreetRetried(t) ==
    /\ handler[t].name = "greet"
    /\ Offer(handler[t].user, MainMenu) \/ UNCHANGED offered
    /\ Runs(t, "ensure")
    /\ UNCHANGED <<vars, subscribers, onSale, everOnSale, readers>>

(* edit_text: the keyboard shows what was read before it.                  *)
EditText(t) ==
    /\ handler[t].name = "answer"
    /\ Offer(handler[t].user, handler[t].buttons)
    /\ Ends(t)
    /\ UNCHANGED <<vars, subscribers, onSale, everOnSale, readers>>

(* Mutant of ListPlans: all plans are listed.                               *)
ListAllPlans(t, u) ==
    /\ Pressed(u, Plain("plans"))
    /\ Free(t)
    /\ Answers(t, u, {ForPlan("plan", d) : d \in Periods})
    /\ UNCHANGED <<vars, subscribers, onSale, offered, everOnSale, readers>>

(* get_active_plans lists what is on sale; the list may be shown later.     *)
ListPlans(t, u) ==
    /\ Pressed(u, Plain("plans"))
    /\ Free(t)
    /\ onSale # {}
    /\ Answers(t, u, {ForPlan("plan", d) : d \in onSale})
    /\ UNCHANGED <<vars, subscribers, onSale, offered, everOnSale, readers>>

(* get_plan does not look at is_active.                                     *)
SelectPlan(t, u, d) ==
    /\ Pressed(u, ForPlan("plan", d))
    /\ Free(t)
    /\ Answers(t, u, {Plain("plans"), ForPlan("subscribe", d)})
    /\ UNCHANGED <<vars, subscribers, onSale, offered, everOnSale, readers>>

(* get_plan, then activate_subscription: nothing in between. *)
Subscribe(t, u, d) ==
    /\ Pressed(u, ForPlan("subscribe", d))
    /\ Free(t)
    /\ ActivateBegin(t, u, d)
    /\ Starts(t, "subscribe", u)
    /\ UNCHANGED <<subscribers, onSale, offered, everOnSale, readers>>

Subscribed(t) ==
    /\ handler[t].name = "subscribe"
    /\ ActivateCommit(t)
    /\ Ends(t)
    /\ UNCHANGED <<subscribers, onSale, offered, everOnSale, readers>>

ListContent(t, u) ==
    /\ Pressed(u, Plain("content"))
    /\ Free(t)
    /\ CheckBegin(t, u)
    /\ Starts(t, "content", u)
    /\ UNCHANGED <<subscribers, onSale, offered, everOnSale, readers>>

ContentRefused(t) ==
    /\ handler[t].name = "content"
    /\ ~Verdict(t)
    /\ CheckReturn(t)
    /\ Answers(t, handler[t].user, {Plain("plans")})
    /\ UNCHANGED <<subscribers, onSale, offered, everOnSale, readers>>

(* Mutant of ContentGranted: the answer of is_subscriber is not looked at. *)
ContentUnchecked(t) ==
    /\ handler[t].name = "content"
    /\ CheckReturn(t)
    /\ Runs(t, "sections")
    /\ UNCHANGED <<subscribers, onSale, offered, everOnSale, readers>>

ContentGranted(t) ==
    /\ handler[t].name = "content"
    /\ Verdict(t)
    /\ CheckReturn(t)
    /\ Runs(t, "sections")
    /\ UNCHANGED <<subscribers, onSale, offered, everOnSale, readers>>

(* get_content_sections: there may be none.                                 *)
SectionsRead(t) ==
    /\ handler[t].name = "sections"
    /\ \E bs \in {{}, {Plain("section")}} : Answers(t, handler[t].user, bs)
    /\ UNCHANGED <<vars, subscribers, onSale, offered, everOnSale, readers>>

(* view_section reads the items and shows them; it asks nothing about u.    *)
ViewSection(t, u) ==
    /\ Pressed(u, Plain("section"))
    /\ Free(t)
    /\ handler' = [handler EXCEPT ![t] =
          [name |-> "items", user |-> u, entitled |-> HasAccess(u)]]
    /\ UNCHANGED <<vars, subscribers, onSale, offered, everOnSale, readers>>

ItemsShown(t) ==
    /\ handler[t].name = "items"
    /\ readers' = IF handler[t].entitled THEN readers ELSE readers \cup {handler[t].user}
    /\ Ends(t)
    /\ UNCHANGED <<vars, subscribers, onSale, offered, everOnSale>>

MySubscription(t, u) ==
    /\ Pressed(u, Plain("my"))
    /\ Free(t)
    /\ CheckBegin(t, u)
    /\ Starts(t, "my", u)
    /\ UNCHANGED <<subscribers, onSale, offered, everOnSale, readers>>

(* "Cancel auto-renewal" is offered by what the row says about auto_renew.  *)
SubscriptionRead(t) ==
    /\ handler[t].name = "my"
    /\ LET found == GetSubscription(subscriptions, call[t].user, call[t].at)
       IN  \/ found = {} /\ Answers(t, handler[t].user, {Plain("plans")})
           \/ \E i \in found :
                 Answers(t, handler[t].user,
                         IF subscriptions[i].autoRenew THEN {Plain("cancel")} ELSE {})
    /\ CheckReturn(t)
    /\ UNCHANGED <<subscribers, onSale, offered, everOnSale, readers>>

CancelSub(u) ==
    /\ Pressed(u, Plain("cancel"))
    /\ Cancel(u)
    /\ UNCHANGED <<handler, subscribers, onSale, offered, everOnSale, readers>>

(* Any await of a handler may raise; what was committed stays. *)
HandlerRaises(t) ==
    /\ handler[t].name # "none"
    /\ Ends(t)
    /\ Return(t)
    /\ UNCHANGED <<now, subscriptions, subscribers, onSale, offered, everOnSale, readers>>

-----------------------------------------------------------------------------
(* Around the handlers. *)

(* The background sweep. *)
SweepBegin(t) ==
    /\ Free(t)
    /\ ExpireBegin(t)
    /\ handler' = [handler EXCEPT ![t] = [name |-> "sweep"]]
    /\ UNCHANGED <<subscribers, onSale, offered, everOnSale, readers>>

SweepCommit(t) ==
    /\ ExpireCommit(t)
    /\ Ends(t)
    /\ UNCHANGED <<subscribers, onSale, offered, everOnSale, readers>>

(* The operator edits plans.is_active. *)
ChangePlans ==
    /\ \E ps \in SUBSET Periods : onSale' = ps
    /\ everOnSale' = everOnSale \cup onSale'
    /\ UNCHANGED <<vars, handler, subscribers, offered, readers>>

StoreCrash ==
    /\ Crash
    /\ handler' = [t \in Task |-> None]
    /\ UNCHANGED <<subscribers, onSale, offered, everOnSale, readers>>

StoreTick == Tick /\ UNCHANGED <<handler, subscribers, onSale, offered, everOnSale, readers>>

Membership ==
    everMember' = everMember \cup {u \in User : HasAccess(u)'}

StoreNext ==
    /\ \/ StoreTick
       \/ StoreCrash
       \/ ChangePlans
       \/ \E t \in Task :
             \/ \E u \in User :
                   \/ Start(t, u) \/ ListPlans(t, u) \/ ListContent(t, u)
                   \/ ViewSection(t, u) \/ MySubscription(t, u)
                   \/ \E d \in Periods : SelectPlan(t, u, d) \/ Subscribe(t, u, d)
             \/ EnsureSubscriber(t) \/ Greet(t) \/ GreetRetried(t)
             \/ Subscribed(t)
             \/ ContentRefused(t) \/ ContentGranted(t) \/ SectionsRead(t)
             \/ SubscriptionRead(t)
             \/ EditText(t) \/ ItemsShown(t)
             \/ SweepBegin(t) \/ SweepCommit(t)
             \/ HandlerRaises(t)
       \/ \E u \in User : CancelSub(u)
    /\ Membership

StoreSpec == StoreInit /\ [][StoreNext]_storeVars

-----------------------------------------------------------------------------
(* Properties. *)

(* The list of the admin panel and of the broadcast, which JOINs the table  *)
(* subscribers that a purchase does not write, and keeps no row in grace,   *)
(* names everyone whose subscription has not passed its end date, and       *)
(* nobody twice: the keyboard every purchase starts from is sent only after *)
(* ensure_subscriber has committed, a sweep with a stale clock takes no row *)
(* early, and a purchase closes the row before it.                          *)
MembersAreListedOnce ==
    \A u \in User :
        LET rows == {i \in GetActiveSubscribers : subscriptions[i].user = u}
        IN  /\ \A i, j \in rows : i = j
            /\ (\E i \in DOMAIN subscriptions :
                   subscriptions[i].user = u /\ Alive(i, now) /\ subscriptions[i].endAt >= now)
               => rows # {}

(* select_plan and subscribe do not ask whether a plan is on sale, and a    *)
(* list may be shown when it no longer is, so a withdrawn plan can still be *)
(* bought; but not one that the operator has only prepared: it has been on  *)
(* sale, and its period runs from a day that has come.                      *)
NoSaleBeforeLaunch ==
    \A i \in DOMAIN subscriptions :
        \E d \in everOnSale : subscriptions[i].endAt - d \in 0..now

(* The buttons of the content sections are sent only to users who have been *)
(* members at some time, whatever lapses, sweeps and purchases fall between *)
(* the check and the list (list_content).                                   *)
SectionsWereEarned ==
    \A u \in User : Plain("section") \in offered[u] => u \in everMember

(* Until the end date of a renewing subscription has passed, its cancel     *)
(* button works, however the background sweep and this handler interleave:  *)
(* cancel_subscription looks for status 'active' although the button is     *)
(* offered on auto_renew alone.                                             *)
CancelWorksUntilEndDate ==
    \A u \in User :
        /\ Plain("cancel") \in offered[u]
        /\ \E i \in DOMAIN subscriptions :
              /\ subscriptions[i].user = u
              /\ Alive(i, now)
              /\ subscriptions[i].endAt >= now
              /\ subscriptions[i].autoRenew
        => Cancelled(subscriptions, u) # subscriptions

(* README: "What a subscriber can reach is decided by subscription state."  *)
ContentFollowsSubscription == readers = {}

=============================================================================
