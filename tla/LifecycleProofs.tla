-------------------------- MODULE LifecycleProofs --------------------------
(***************************************************************************)
(* The safety properties of Lifecycle hold for any number of signals and   *)
(* faults.  They are inductive together with Stages: which mode a point of *)
(* main belongs to, and what main has done and not yet undone there.       *)
(***************************************************************************)
EXTENDS Lifecycle, TLAPS

Stages ==
    /\ pc \in {"listen", "register", "unregister", "cleanup"} => webhook
    /\ pc \in {"metrics", "stop"} => ~webhook
    /\ handler = "default" <=> pc \in {"setup", "down"}
    /\ pc \in {"setup", "listen", "down"} => ~listening
    /\ webhook /\ pc \in {"drop", "register", "wait", "join", "unregister"} => listening
    /\ ~webhook /\ pc \in {"metrics", "wait", "join", "stop"} => ~registered
    /\ pc = "cleanup" => ~registered
    /\ polling # "off" => ~webhook /\ pc \in {"wait", "join", "stop"}
    /\ pc \in {"unregister", "stop", "cleanup"} => loop = "ended"

IInv == TypeOK /\ Stages /\ RegisteredIsServed

LEMMA InitIInv == Init => IInv
<1>. SUFFICES ASSUME Init PROVE IInv
  OBVIOUS
<1>1. TypeOK
  <2>1. signals \in 0..MaxSignals /\ faults \in 0..MaxFaults
    BY BoundAssumption DEF Init
  <2>2. webhook \in BOOLEAN /\ event \in BOOLEAN /\ listening \in BOOLEAN /\ registered \in BOOLEAN
    BY Zenon DEF Init, Gone
  <2>3. pc = "down" /\ loop = "none" /\ polling = "off" /\ handler = "default"
    BY DEF Init, Gone
  <2>. QED
    BY <2>1, <2>2, <2>3 DEF TypeOK
<1>2. Stages
  BY DEF Init, Gone, Stages
<1>3. RegisteredIsServed
  BY DEF Init, RegisteredIsServed
<1>. QED
  BY <1>1, <1>2, <1>3 DEF IInv

(* A fault stays within its bound, and is remembered.                       *)
LEMMA FaultCounts ==
    ASSUME TypeOK, Fault
    PROVE  faults' \in 0..MaxFaults /\ faults' > 0 /\ faults' > faults
BY BoundAssumption DEF TypeOK, Fault

LEMMA SignalCounts ==
    ASSUME TypeOK, Signalled
    PROVE  signals' \in 0..MaxSignals
BY BoundAssumption DEF TypeOK, Signalled

LEMMA NextIInv == IInv /\ [Next]_vars => IInv'
<1>. SUFFICES ASSUME IInv, [Next]_vars PROVE IInv'
  OBVIOUS
<1>. USE DEF IInv, TypeOK, Stages, RegisteredIsServed, Up, Goes, outside
<1>1. CASE Boot
  BY <1>1 DEF Boot
<1>2. CASE Setup
  BY <1>2 DEF Setup
<1>3. CASE Listen
  BY <1>3 DEF Listen
<1>4. CASE DropWebhook
  BY <1>4 DEF DropWebhook
<1>5. CASE Register
  BY <1>5 DEF Register
<1>6. CASE StartTasks
  BY <1>6 DEF StartTasks
<1>7. CASE Finally
  BY <1>7 DEF Finally, Ready
<1>8. CASE Joined
  BY <1>8 DEF Joined
<1>9. CASE Unregister
  BY <1>9 DEF Unregister
<1>10. CASE Cleanup
  BY <1>10 DEF Cleanup, Ends
<1>11. CASE StopPolling
  BY <1>11 DEF StopPolling, Ends
<1>12. CASE PollingStarts
  BY <1>12 DEF PollingStarts
<1>13. CASE PollingStops
  BY <1>13 DEF PollingStops
<1>14. CASE PollingFails
  <2>1. faults' \in 0..MaxFaults /\ faults' > 0
    BY <1>14, FaultCounts DEF PollingFails
  <2>. QED
    BY <1>14, <2>1 DEF PollingFails
<1>15. CASE LoopEnds
  BY <1>15 DEF LoopEnds
<1>16. CASE MainRaises
  <2>1. faults' \in 0..MaxFaults /\ faults' > 0
    BY <1>16, FaultCounts DEF MainRaises
  <2>2. registered' \in BOOLEAN
    BY <1>16 DEF MainRaises
  <2>. QED
    BY <1>16, <2>1, <2>2 DEF MainRaises, Ends
<1>17. CASE Kill
  <2>1. faults' \in 0..MaxFaults /\ faults' > 0
    BY <1>17, FaultCounts DEF Kill
  <2>. QED
    BY <1>17, <2>1 DEF Kill, Ends
<1>18. CASE SignalDefault
  <2>1. signals' \in 0..MaxSignals
    BY <1>18, SignalCounts DEF SignalDefault
  <2>2. pc = "setup" /\ polling = "off" /\ loop = "none" /\ (registered => faults > 0)
    BY <1>18 DEF SignalDefault, Signalled
  <2>3. CASE Ends
    BY <1>18, <2>1, <2>2, <2>3 DEF SignalDefault, Ends
  <2>4. CASE UNCHANGED <<webhook, pc, loop, polling, event, handler, listening>>
    BY <1>18, <2>1, <2>2, <2>4 DEF SignalDefault
  <2>. QED
    BY <1>18, <2>3, <2>4 DEF SignalDefault
<1>19. CASE SignalHandler
  <2>1. signals' \in 0..MaxSignals
    BY <1>19, SignalCounts DEF SignalHandler
  <2>. QED
    BY <1>19, <2>1 DEF SignalHandler
<1>20. CASE SignalAiogram
  <2>1. signals' \in 0..MaxSignals
    BY <1>20, SignalCounts DEF SignalAiogram
  <2>. QED
    BY <1>20, <2>1 DEF SignalAiogram
<1>21. CASE UNCHANGED vars
  BY <1>21 DEF vars
<1>. QED
  BY <1>1, <1>2, <1>3, <1>4, <1>5, <1>6, <1>7, <1>8, <1>9, <1>10, <1>11, <1>12, <1>13,
     <1>14, <1>15, <1>16, <1>17, <1>18, <1>19, <1>20, <1>21 DEF Next, Main

(* Every reachable state satisfies the inductive invariant.                 *)
THEOREM LifecycleInvariant == Spec => []IInv
BY InitIInv, NextIInv, PTL DEF Spec

-----------------------------------------------------------------------------

(* The type invariant, with what a process has at each point of main.       *)
THEOREM LifecycleTypeCorrect == Spec => []TypeOK
<1>1. IInv => TypeOK
  BY DEF IInv
<1>. QED
  BY <1>1, LifecycleInvariant, PTL

(* Without a fault, Telegram never delivers to a port nobody listens on;    *)
(* and nothing is torn down under the expiration loop.                      *)
THEOREM TornDownInOrderHolds == Spec => []TornDownInOrder
<1>1. IInv => LoopEndsFirst
  BY DEF IInv, Stages, TypeOK, LoopEndsFirst
<1>2. IInv => TornDownInOrder
  BY <1>1 DEF IInv, TornDownInOrder
<1>. QED
  BY <1>2, LifecycleInvariant, PTL

(* Polling runs only with no webhook registered, whatever came before.      *)
THEOREM PollingIsAloneHolds == Spec => []PollingIsAlone
<1>1. IInv => PollingIsAlone
  BY DEF IInv, Stages, TypeOK, PollingIsAlone
<1>. QED
  BY <1>1, LifecycleInvariant, PTL

=============================================================================
