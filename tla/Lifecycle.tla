------------------------------ MODULE Lifecycle ------------------------------
(***************************************************************************)
(* The life of the process (bot.py): main, _run_webhook and _run_polling,  *)
(* with the expiration loop's task, aiogram's polling task, the signals    *)
(* and the container's restart policy.                                     *)
(*                                                                         *)
(* External, from how bot.py uses it: start_polling puts its own handler   *)
(* in the place of main's; that handler ends the polling and does nothing  *)
(* once the polling is over; stop_polling raises when none is running.     *)
(***************************************************************************)
EXTENDS Naturals

CONSTANTS
    MaxSignals,  \* bound: SIGTERM and SIGINT received
    MaxFaults    \* bound: calls that raise, and SIGKILLs

ASSUME BoundAssumption == MaxSignals \in Nat /\ MaxFaults \in Nat

VARIABLES
    webhook,     \* settings.webhook_url is set
    pc,          \* what main awaits
    loop,        \* the task of expiration_loop
    polling,     \* the task of start_polling
    event,       \* shutdown_event
    handler,     \* who handles a signal
    listening,   \* the HTTP server for updates is up
    registered,  \* Telegram has a webhook of the bot
    signals,     \* signals so far
    faults       \* faults so far

outside == <<registered, signals>>
vars == <<webhook, pc, loop, polling, event, handler, listening, outside, faults>>

Up == {"setup", "listen", "drop", "register", "metrics", "wait",
       "join", "unregister", "stop", "cleanup"}

TypeOK ==
    /\ webhook \in BOOLEAN /\ event \in BOOLEAN /\ listening \in BOOLEAN /\ registered \in BOOLEAN
    /\ pc \in Up \cup {"down"}
    /\ loop \in {"none", "running", "cancelled", "ended"}
    /\ polling \in {"off", "on", "stopping", "over"}
    /\ handler \in {"default", "event", "aiogram"}
    /\ signals \in 0..MaxSignals
    /\ faults \in 0..MaxFaults
    /\ loop = "none" <=> pc \in {"setup", "down"}
    /\ pc \in {"join", "unregister", "stop", "cleanup"} => event /\ loop # "running"
    /\ polling # "off" <=> handler = "aiogram"

(* The state of a process that does not exist.                              *)
Gone == pc = "down" /\ loop = "none" /\ polling = "off" /\ event = FALSE /\ handler = "default" /\ listening = FALSE

Init ==
    /\ webhook \in BOOLEAN
    /\ Gone
    /\ registered = FALSE
    /\ signals = 0
    /\ faults = 0

Fault == faults < MaxFaults /\ faults' = faults + 1

Goes(from, to) == pc = from /\ pc' = to

-----------------------------------------------------------------------------
(* main, up to the task of the loop and the signal handlers.                *)

Boot ==
    /\ Goes("down", "setup")
    /\ webhook' \in BOOLEAN
    /\ UNCHANGED <<loop, polling, event, handler, listening, outside, faults>>

Setup ==
    /\ Goes("setup", IF webhook THEN "listen" ELSE "drop")
    /\ loop' = "running"
    /\ handler' = "event"
    /\ UNCHANGED <<webhook, polling, event, listening, outside, faults>>

(* _run_webhook *)

Listen ==
    /\ Goes("listen", "drop")
    /\ listening' = TRUE
    /\ UNCHANGED <<webhook, loop, polling, event, handler, outside, faults>>

(* Mutant of DropWebhook: an error of delete_webhook is suppressed.         *)
DropSuppressed ==
    /\ Goes("drop", IF webhook THEN "register" ELSE "metrics")
    /\ registered' \in {registered, FALSE}
    /\ UNCHANGED <<webhook, loop, polling, event, handler, listening, signals, faults>>

(* delete_webhook, the first call to Telegram of both modes                 *)
DropWebhook ==
    /\ Goes("drop", IF webhook THEN "register" ELSE "metrics")
    /\ registered' = FALSE
    /\ UNCHANGED <<webhook, loop, polling, event, handler, listening, signals, faults>>

(* Mutant of Register: an error of set_webhook is suppressed.               *)
RegisterSuppressed ==
    /\ Goes("register", "wait")
    /\ registered' \in BOOLEAN
    /\ UNCHANGED <<webhook, loop, polling, event, handler, listening, signals, faults>>

Register ==
    /\ Goes("register", "wait")
    /\ registered' = TRUE
    /\ UNCHANGED <<webhook, loop, polling, event, handler, listening, signals, faults>>

(* _run_polling: the metrics' server, and the two tasks                     *)
StartTasks ==
    /\ Goes("metrics", "wait")
    /\ UNCHANGED <<webhook, loop, polling, event, handler, listening, outside, faults>>

-----------------------------------------------------------------------------
(* The other tasks. *)

PollingStarts ==
    /\ pc = "wait" /\ ~webhook /\ polling = "off"
    /\ polling' = "on"
    /\ handler' = "aiogram"
    /\ UNCHANGED <<webhook, pc, loop, event, listening, outside, faults>>

PollingStops ==
    /\ polling = "stopping"
    /\ polling' = "over"
    /\ UNCHANGED <<webhook, pc, loop, event, handler, listening, outside, faults>>

(* bot.me() raises, or whatever else aiogram does not retry                 *)
PollingFails ==
    /\ polling \in {"on", "stopping"}
    /\ Fault
    /\ polling' = "over"
    /\ UNCHANGED <<webhook, pc, loop, event, handler, listening, outside>>

LoopEnds ==
    /\ loop = "cancelled"
    /\ loop' = "ended"
    /\ UNCHANGED <<webhook, pc, polling, event, handler, listening, outside, faults>>

-----------------------------------------------------------------------------
(* The end.  asyncio.wait returns when both its tasks are done.             *)

Ready == event /\ (webhook \/ polling = "over")

(* Mutant of Finally: the loop is awaited but not cancelled.                *)
FinallyUncancelled ==
    /\ Ready
    /\ Goes("wait", "join")
    /\ UNCHANGED <<webhook, loop, polling, event, handler, listening, outside, faults>>

Finally ==
    /\ Ready
    /\ Goes("wait", "join")
    /\ loop' = IF loop = "running" THEN "cancelled" ELSE loop
    /\ UNCHANGED <<webhook, polling, event, handler, listening, outside, faults>>

(* Mutant of Joined: the cancelled loop is not awaited.                     *)
JoinedAtOnce ==
    /\ Goes("join", IF webhook THEN "unregister" ELSE "stop")
    /\ UNCHANGED <<webhook, loop, polling, event, handler, listening, outside, faults>>

Joined ==
    /\ loop = "ended"
    /\ Goes("join", IF webhook THEN "unregister" ELSE "stop")
    /\ UNCHANGED <<webhook, loop, polling, event, handler, listening, outside, faults>>

(* Mutant of Unregister: the server goes first.                             *)
UnregisterLast ==
    /\ Goes("unregister", "cleanup")
    /\ listening' = FALSE
    /\ UNCHANGED <<webhook, loop, polling, event, handler, outside, faults>>

Unregister ==
    /\ Goes("unregister", "cleanup")
    /\ registered' = FALSE
    /\ UNCHANGED <<webhook, loop, polling, event, handler, listening, signals, faults>>

Ends ==
    /\ pc' = "down" /\ loop' = "none" /\ polling' = "off"
    /\ event' = FALSE /\ handler' = "default" /\ listening' = FALSE
    /\ UNCHANGED webhook

Cleanup == pc = "cleanup" /\ Ends /\ UNCHANGED <<outside, faults>>

(* stop_polling raises RuntimeError: asyncio.wait returned, so the polling  *)
(* is over.  session.close and runner.cleanup are left to the process's     *)
(* end, like whatever follows any other call that raises.                   *)
StopPolling == pc = "stop" /\ polling = "over" /\ Ends /\ UNCHANGED <<outside, faults>>

-----------------------------------------------------------------------------
(* Faults: a call of main raises (Telegram may have acted on it), SIGKILL.  *)

MainRaises ==
    /\ pc \in {"setup", "listen", "drop", "register", "metrics", "unregister", "cleanup"}
    /\ Fault
    /\ Ends
    /\ registered' \in CASE pc = "register" -> BOOLEAN
                         [] pc \in {"drop", "unregister"} -> {registered, FALSE}
                         [] OTHER -> {registered}
    /\ UNCHANGED signals

Kill ==
    /\ pc # "down"
    /\ Fault
    /\ Ends
    /\ UNCHANGED outside

-----------------------------------------------------------------------------
(* SIGTERM or SIGINT. *)

Signalled == pc # "down" /\ signals < MaxSignals /\ signals' = signals + 1

(* Python's default; PID 1 of a container has none for SIGTERM              *)
SignalDefault ==
    /\ Signalled /\ handler = "default"
    /\ Ends \/ UNCHANGED <<webhook, pc, loop, polling, event, handler, listening>>
    /\ UNCHANGED <<registered, faults>>

SignalHandler ==
    /\ Signalled /\ handler = "event"
    /\ event' = TRUE
    /\ UNCHANGED <<webhook, pc, loop, polling, handler, listening, registered, faults>>

SignalAiogram ==
    /\ Signalled /\ handler = "aiogram"
    /\ polling' = IF polling = "on" THEN "stopping" ELSE polling
    /\ UNCHANGED <<webhook, pc, loop, event, handler, listening, registered, faults>>

Main ==
    \/ Setup \/ Listen \/ DropWebhook \/ Register \/ StartTasks
    \/ Finally \/ Joined \/ Unregister \/ Cleanup \/ StopPolling

Next ==
    \/ Boot \/ Main
    \/ PollingStarts \/ PollingStops \/ PollingFails \/ LoopEnds
    \/ MainRaises \/ Kill
    \/ SignalDefault \/ SignalHandler \/ SignalAiogram

(* The event loop runs every task that can run; deploy/compose.yml says     *)
(* "restart: always".                                                       *)
Fairness ==
    /\ WF_vars(Boot) /\ WF_vars(Main)
    /\ WF_vars(PollingStarts) /\ WF_vars(PollingStops) /\ WF_vars(LoopEnds)

Spec == Init /\ [][Next]_vars /\ Fairness

-----------------------------------------------------------------------------
(* Properties. *)

(* Telegram has a webhook to deliver to while nobody listens there only     *)
(* after a fault, or a signal before the handlers were in place: the server *)
(* listens before the webhook is registered and until it is deleted.        *)
RegisteredIsServed == registered => listening \/ faults > 0

(* Polling never starts while a webhook is registered (Telegram refuses     *)
(* getUpdates then), whatever mode ran before and however it died.          *)
PollingIsAlone == polling \in {"on", "stopping"} => ~registered

(* The loop sends no reminder through what is being torn down.              *)
LoopEndsFirst ==
    pc \in {"unregister", "stop", "cleanup", "down"} => loop \in {"ended", "none"}

(* What is set up last is torn down first, at whatever point a signal comes. *)
TornDownInOrder == RegisteredIsServed /\ LoopEndsFirst

(* Polling that has ended without the event, by a signal or an error, or    *)
(* with nobody left to set it.                                              *)
Hung == pc = "wait" /\ ~webhook /\ polling = "over" /\ ~event

(* A signal that found a handler stops the process, unless it leaves        *)
(* asyncio.wait halfway: polling over without the event, or the event set   *)
(* before polling began.                                                    *)
Halfway == pc = "wait" /\ ~webhook /\ (event # (polling = "over"))
StopsUnlessHalfway == event \/ polling = "stopping" ~> pc = "down" \/ Halfway

(* When signals and faults are over, the bot serves for good, in either     *)
(* mode, or is hung.                                                        *)
Serving ==
    /\ pc = "wait" /\ loop = "running"
    /\ IF webhook THEN listening /\ registered ELSE polling = "on"
ServesAgain == <>[](Serving \/ Hung)

=============================================================================
