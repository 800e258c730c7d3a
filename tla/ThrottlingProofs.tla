-------------------------- MODULE ThrottlingProofs --------------------------
(***************************************************************************)
(* The two promises of the throttle hold for any messages, limits and      *)
(* bounds: DroppedFollowsPassed and QuickRepeatIsExcused.                  *)
(*                                                                         *)
(* The argument for the second: a message that is not excused was alone    *)
(* under way, so that when it is handled the cache and the key hold its    *)
(* time (Fresh).  Whoever comes later reads a time at least as new, or a   *)
(* key that has expired, and then is late or far enough away.              *)
(***************************************************************************)
EXTENDS Throttling, TLAPS

(* o came before m, by less than RateLimit.                                 *)
Close(m, o) == task[m].now - task[o].now \in 0..(RateLimit - 1)

PassedIs ==
    \A m \in Message :
        /\ task[m].at \in {"unsent", "get", "dropped"} => ~task[m].passed
        /\ task[m].at \in {"set", "handled"} => task[m].passed

(* The cache holds the time of a message that was let through.              *)
CacheIsOf == cache # Never => \E o \in Passed : task[o].now = cache

(* Redis is asked about, and drops, only a message close behind another.    *)
BehindPassed ==
    \A m \in Message : task[m].at \in {"get", "dropped"} => \E o \in Passed \ {m} : Close(m, o)

OverlapExcused == \A m, o \in InFlight : m # o => m \in excused
DiedExcused == \A m \in Passed : task[m].at = "died" => m \in excused
KeyLives == key # Never => expires >= key + Lifetime

Fresh ==
    \A o \in Passed \ excused :
        /\ task[o].at = "set" => cache = task[o].now
        /\ task[o].at = "handled" =>
              /\ cache >= task[o].now
              /\ \A m \in InFlight : task[m].now >= task[o].now
              /\ key >= task[o].now \/ now >= task[o].now + Lifetime

Records == PassedIs /\ CacheIsOf /\ BehindPassed /\ DiedExcused /\ KeyLives
IInv == TypeOK /\ Records /\ OverlapExcused /\ Fresh /\ QuickRepeatIsExcused

-----------------------------------------------------------------------------

LEMMA Limits == /\ RateLimit \in Nat \ {0}
                /\ Lifetime \in Int /\ Lifetime >= RateLimit
                /\ Never = -RateLimit
BY LimitAssumption, LifetimeAssumption DEF Lifetime, Never

LEMMA InitIInv == Init => IInv
<1>. SUFFICES ASSUME Init PROVE IInv
  OBVIOUS
<1>. USE Limits DEF Init
<1>1. TypeOK
  BY BoundAssumption DEF TypeOK, Stage
<1>2. Passed = {} /\ InFlight = {}
  BY DEF Passed, InFlight
<1>3. Records
  BY <1>2 DEF Records, PassedIs, CacheIsOf, BehindPassed, DiedExcused, KeyLives
<1>. QED
  BY <1>1, <1>2, <1>3 DEF IInv, OverlapExcused, Fresh, QuickRepeatIsExcused

(* What is known of the times.                                              *)
LEMMA Times ==
    ASSUME TypeOK
    PROVE  /\ now \in Nat /\ cache \in Int /\ key \in Int /\ expires \in Int
           /\ \A m \in Message : task[m].now \in 0..now /\ task[m].at \in Stage
                                 /\ task[m].passed \in BOOLEAN
BY Limits, BoundAssumption DEF TypeOK

(* A message is let through: by the cache, by Redis, or because Redis       *)
(* fails.                                                                   *)
LEMMA PassStep ==
    ASSUME IInv, NEW m \in Message, NEW t \in 0..now,
           task[m].at \in {"unsent", "get"},
           Passes(m, t), UNCHANGED <<now, key, expires>>,
           excused \subseteq excused', excused' \subseteq Message,
           faults' \in 0..MaxFaults,
           InFlight \ {m} # {} => m \in excused' /\ InFlight \subseteq excused',
           \A o \in Passed \ excused' : task[o].at = "handled" => t >= task[o].now,
           m \notin excused' => \A o \in Passed \ excused' : t - task[o].now >= RateLimit
    PROVE  IInv'
<1>. USE Limits
<1>. DEFINE new == [at |-> "set", now |-> t, passed |-> TRUE]
<1>0. TypeOK /\ Records
  BY DEF IInv
<1>t. /\ now \in Nat /\ cache \in Int /\ key \in Int /\ expires \in Int
      /\ \A o \in Message : task[o].now \in 0..now
  BY <1>0, Times
<1>1. cache' = t /\ task' = [task EXCEPT ![m] = new]
  BY DEF Passes
<1>2. task'[m] = new /\ \A o \in Message \ {m} : task'[o] = task[o]
  BY <1>0, <1>1 DEF TypeOK
<1>3. ~task[m].passed
  BY <1>0 DEF Records, PassedIs
<1>4. Passed' = Passed \cup {m} /\ m \notin Passed
  BY <1>2, <1>3 DEF Passed
<1>5. InFlight' = InFlight \cup {m}
  BY <1>2 DEF InFlight
<1>6. TypeOK'
  BY <1>0, <1>1, <1>t DEF TypeOK, Stage
<1>7. PassedIs'
  BY <1>0, <1>2 DEF Records, PassedIs
<1>8. CacheIsOf'
  BY <1>1, <1>2, <1>4 DEF CacheIsOf
<1>9. BehindPassed'
  BY <1>0, <1>2, <1>3, <1>4 DEF Records, BehindPassed, Close, Passed
<1>10. DiedExcused' /\ KeyLives'
  BY <1>0, <1>2, <1>4 DEF Records, DiedExcused, KeyLives, Passed
<1>11. OverlapExcused'
  BY <1>5 DEF IInv, OverlapExcused
<1>12. Fresh'
  <2>. SUFFICES ASSUME NEW o \in Passed', o \notin excused'
                PROVE  /\ task'[o].at = "set" => cache' = task'[o].now
                       /\ task'[o].at = "handled" =>
                             /\ cache' >= task'[o].now
                             /\ \A x \in InFlight' : task'[x].now >= task'[o].now
                             /\ key' >= task'[o].now \/ now' >= task'[o].now + Lifetime
    BY DEF Fresh
  <2>1. CASE o = m
    BY <2>1, <1>1, <1>2
  <2>2. CASE o # m
    <3>1. o \in Passed \ excused /\ o \in Message /\ task'[o] = task[o]
      BY <2>2, <1>2, <1>4 DEF Passed
    <3>2. task[o].at # "set"
      BY <2>2, <3>1 DEF InFlight
    <3>3. ASSUME task[o].at = "handled"
          PROVE  /\ \A x \in InFlight : task[x].now >= task[o].now
                 /\ key >= task[o].now \/ now >= task[o].now + Lifetime
                 /\ t >= task[o].now
      BY <3>1, <3>3 DEF IInv, Fresh
    <3>4. \A x \in InFlight' : x = m \/ (x \in InFlight /\ task'[x] = task[x])
      BY <1>2, <1>5 DEF InFlight
    <3>. QED
      BY <3>1, <3>2, <3>3, <3>4, <1>1, <1>2
  <2>. QED
    BY <2>1, <2>2
<1>13. QuickRepeatIsExcused'
  <2>. SUFFICES ASSUME NEW x \in Passed', NEW o \in Passed', x # o,
                       task'[x].now - task'[o].now \in 0..(RateLimit - 1),
                       {x, o} \cap excused' = {}
                PROVE  FALSE
    BY DEF QuickRepeatIsExcused
  <2>0. x \in Message /\ o \in Message
    BY DEF Passed
  <2>1. CASE x # m /\ o # m
    BY <2>0, <2>1, <1>2, <1>4 DEF IInv, QuickRepeatIsExcused
  <2>2. CASE x = m
    BY <2>0, <2>2, <1>2, <1>4, <1>t
  <2>3. CASE o = m
    <3>1. t - task[x].now >= RateLimit
      BY <2>0, <2>3, <1>4
    <3>. QED
      BY <2>0, <2>3, <3>1, <1>2, <1>t
  <2>. QED
    BY <2>1, <2>2, <2>3
<1>. QED
  BY <1>6, <1>7, <1>8, <1>9, <1>10, <1>11, <1>12, <1>13 DEF IInv, Records

(* A task moves on with no message let through: it asks Redis, is dropped,  *)
(* or is handled.                                                           *)
LEMMA MoveStep ==
    ASSUME IInv, NEW m \in Message, NEW at \in Stage, NEW t \in 0..now,
           task' = [task EXCEPT ![m] = [at |-> at, now |-> t, passed |-> task[m].passed]],
           task[m].passed => t = task[m].now,
           task[m].passed <=> at = "handled",
           at \in {"get", "dropped", "handled"},
           at \in {"get", "dropped"} => \E o \in Passed \ {m} : t - task[o].now \in 0..(RateLimit - 1),
           UNCHANGED <<now, cache>>, KeyLives', key' \in 0..now \cup {Never},
           expires' \in 0..(MaxTime + Lifetime), faults' \in 0..MaxFaults,
           excused \subseteq excused', excused' \subseteq Message,
           OverlapExcused', Fresh'
    PROVE  IInv'
<1>. DEFINE new == [at |-> at, now |-> t, passed |-> task[m].passed]
<1>0. TypeOK /\ Records
  BY DEF IInv
<1>2. task'[m] = new /\ \A o \in Message \ {m} : task'[o] = task[o]
  BY <1>0 DEF TypeOK
<1>3. Passed' = Passed /\ \A o \in Passed : task'[o].now = task[o].now
  BY <1>2 DEF Passed
<1>4. TypeOK'
  <2>1. task[m].passed \in BOOLEAN
    BY <1>0 DEF TypeOK
  <2>2. new \in [at : Stage, now : 0..now, passed : BOOLEAN]
    BY <2>1
  <2>. QED
    BY <1>0, <2>2 DEF TypeOK
<1>5. PassedIs'
  BY <1>0, <1>2 DEF Records, PassedIs
<1>6. CacheIsOf'
  BY <1>0, <1>3 DEF Records, CacheIsOf
<1>7. BehindPassed'
  <2>. SUFFICES ASSUME NEW x \in Message, task'[x].at \in {"get", "dropped"}
                PROVE  \E o \in Passed \ {x} : task'[x].now - task[o].now \in 0..(RateLimit - 1)
    BY <1>3 DEF BehindPassed, Close
  <2>1. CASE x = m
    BY <2>1, <1>2
  <2>2. CASE x # m
    BY <2>2, <1>0, <1>2 DEF Records, BehindPassed, Close
  <2>. QED
    BY <2>1, <2>2
<1>8. DiedExcused'
  BY <1>0, <1>2, <1>3 DEF Records, DiedExcused, Passed
<1>9. QuickRepeatIsExcused'
  BY <1>3 DEF IInv, QuickRepeatIsExcused
<1>. QED
  BY <1>4, <1>5, <1>6, <1>7, <1>8, <1>9 DEF IInv, Records

LEMMA FaultCounts ==
    ASSUME TypeOK, Fault
    PROVE  faults' \in 0..MaxFaults
BY BoundAssumption DEF TypeOK, Fault

LEMMA ArriveStep ==
    ASSUME IInv, NEW m \in Message, Arrive(m)
    PROVE  IInv'
<1>. USE Limits
<1>0. TypeOK /\ Records
  BY DEF IInv
<1>t. /\ now \in Nat /\ cache \in Int /\ key \in Int
      /\ \A o \in Message : task[o].now \in 0..now
  BY <1>0, Times
<1>1. task[m].at = "unsent" /\ m \notin InFlight /\ ~task[m].passed
  BY <1>0 DEF Arrive, InFlight, Records, PassedIs
<1>2. /\ excused' = IF InFlight = {} THEN excused ELSE excused \cup InFlight \cup {m}
      /\ UNCHANGED <<now, key, expires, faults>>
  BY DEF Arrive, Overlaps
<1>3. excused \subseteq excused' /\ excused' \subseteq Message /\ faults' \in 0..MaxFaults
  BY <1>0, <1>2 DEF TypeOK, InFlight
<1>4. \A o \in Passed \ excused' : task[o].at = "handled"
  <2>. SUFFICES ASSUME NEW o \in Passed, o \notin excused' PROVE task[o].at = "handled"
    OBVIOUS
  <2>1. o \in Message /\ task[o].at \in Stage /\ task[o].passed
    BY <1>0 DEF Passed, TypeOK
  <2>2. o \notin InFlight
    BY <1>2
  <2>3. task[o].at \in {"handled", "died"}
    BY <2>1, <2>2, <1>0 DEF Stage, InFlight, Records, PassedIs
  <2>. QED
    BY <2>3, <1>0, <1>3 DEF Records, DiedExcused
<1>5. \A o \in Passed \ excused' : cache >= task[o].now
  BY <1>3, <1>4 DEF IInv, Fresh
<1>6. CASE ~TooSoon(now, cache) /\ Passes(m, now)
  <2>1. \A o \in Passed \ excused' : now - task[o].now >= RateLimit
    BY <1>5, <1>6, <1>t DEF TooSoon, Passed
  <2>2. ASSUME NEW o \in Passed PROVE now >= task[o].now
    <3>1. task[o].now \in 0..now
      BY <1>t DEF Passed
    <3>. QED
      BY <3>1, <1>t
  <2>3. InFlight \ {m} # {} => m \in excused' /\ InFlight \subseteq excused'
    BY <1>2
  <2>4. now \in 0..now
    BY <1>t
  <2>. QED
    BY <1>1, <1>2, <1>3, <1>6, <2>1, <2>2, <2>3, <2>4, PassStep
<1>7. CASE TooSoon(now, cache) /\ UNCHANGED cache
           /\ task' = [task EXCEPT ![m] = [at |-> "get", now |-> now, passed |-> FALSE]]
  <2>1. task[m].passed = FALSE
    BY <1>0, <1>1 DEF TypeOK
  <2>3. task' = [task EXCEPT ![m] = [at |-> "get", now |-> now, passed |-> task[m].passed]]
    BY <1>7, <2>1
  <2>4. task'[m].at = "get" /\ task'[m].now = now /\ \A o \in Message \ {m} : task'[o] = task[o]
    BY <2>3, <1>0 DEF TypeOK
  <2>5. cache # Never /\ cache <= now
    BY <1>0, <1>7, <1>t DEF TooSoon, TypeOK
  <2>6. PICK o \in Passed : task[o].now = cache
    BY <2>5, <1>0 DEF Records, CacheIsOf
  <2>7. o # m /\ now - task[o].now \in 0..(RateLimit - 1)
    BY <1>1, <1>7, <1>t, <2>5, <2>6 DEF TooSoon, Passed
  <2>8. InFlight' = InFlight \cup {m}
    BY <2>4 DEF InFlight
  <2>9. OverlapExcused'
    BY <1>2, <2>8 DEF OverlapExcused
  <2>10. Passed' = Passed /\ m \notin Passed
    BY <1>1, <2>3, <2>4 DEF Passed
  <2>11. Fresh'
    <3>. SUFFICES ASSUME NEW p \in Passed, p \notin excused'
                  PROVE  /\ task[p].at # "set"
                         /\ cache >= task[p].now
                         /\ \A x \in InFlight' : task'[x].now >= task[p].now
                         /\ key >= task[p].now \/ now >= task[p].now + Lifetime
      BY <1>2, <1>7, <2>4, <2>10 DEF Fresh, Passed
    <3>1. task[p].at = "handled" /\ p \in Message /\ p \notin excused
      BY <1>3, <1>4 DEF Passed
    <3>2. \A x \in InFlight' : task'[x].now = now \/ (x \in InFlight /\ task'[x] = task[x])
      BY <2>4, <2>8 DEF InFlight
    <3>. QED
      BY <3>1, <3>2, <1>t DEF IInv, Fresh
  <2>12. KeyLives' /\ key' \in 0..now \cup {Never} /\ expires' \in 0..(MaxTime + Lifetime)
    BY <1>0, <1>2 DEF Records, KeyLives, TypeOK
  <2>13. now \in 0..now /\ "get" \in Stage
    BY <1>t DEF Stage
  <2>. QED
    BY <1>1, <1>2, <1>3, <1>7, <2>3, <2>7, <2>9, <2>11, <2>12, <2>13, MoveStep
<1>. QED
  BY <1>6, <1>7 DEF Arrive

(* Setting one field of a task.                                             *)
LEMMA FieldAt ==
    ASSUME TypeOK, NEW m \in Message, NEW at, task' = [task EXCEPT ![m].at = at]
    PROVE  task' = [task EXCEPT ![m] = [at |-> at, now |-> task[m].now, passed |-> task[m].passed]]
<1>1. task[m] = [at |-> task[m].at, now |-> task[m].now, passed |-> task[m].passed]
  BY DEF TypeOK
<1>2. [task[m] EXCEPT !.at = at] = [at |-> at, now |-> task[m].now, passed |-> task[m].passed]
  BY <1>1
<1>3. task' = [task EXCEPT ![m] = [task[m] EXCEPT !.at = at]]
  OBVIOUS
<1>. QED
  BY <1>2, <1>3

LEMMA GetStep ==
    ASSUME IInv, NEW m \in Message, GetReturns(m) \/ GetFails(m)
    PROVE  IInv'
<1>. USE Limits
<1>0. TypeOK /\ Records
  BY DEF IInv
<1>. DEFINE t == task[m].now
<1>t. /\ now \in Nat /\ key \in Int /\ cache \in Int /\ t \in 0..now
      /\ \A o \in Message : task[o].now \in 0..now
  BY <1>0, Times
<1>1. task[m].at = "get" /\ m \in InFlight /\ UNCHANGED <<now, key, expires>>
  BY DEF GetReturns, GetFails, InFlight
<1>2. ~task[m].passed
  BY <1>0, <1>1 DEF Records, PassedIs
<1>3. excused \subseteq excused' /\ excused' \subseteq Message /\ faults' \in 0..MaxFaults
  <2>1. CASE GetReturns(m)
    BY <1>0, <2>1 DEF TypeOK, GetReturns
  <2>2. CASE GetFails(m)
    BY <1>0, <2>2, FaultCounts DEF TypeOK, GetFails
  <2>. QED
    BY <2>1, <2>2
<1>4. InFlight \ {m} # {} => m \in excused' /\ InFlight \subseteq excused'
  BY <1>1, <1>3 DEF IInv, OverlapExcused
<1>5. \A o \in Passed \ excused : task[o].at = "handled" => t >= task[o].now
  BY <1>1 DEF IInv, Fresh
<1>6. CASE GetFails(m)
  <2>1. Passes(m, t) /\ m \in excused'
    BY <1>6 DEF GetFails
  <2>. QED
    BY <1>t, <1>1, <1>3, <1>4, <1>5, <2>1, PassStep
<1>7. CASE GetReturns(m) /\ ~TooSoon(t, key) /\ Passes(m, t)
  <2>1. ASSUME m \notin excused', NEW o \in Passed, o \notin excused'
        PROVE  t - task[o].now >= RateLimit
    <3>1. o \in Message /\ task[o].at \in Stage /\ task[o].passed /\ o # m /\ o \notin excused
      BY <1>0, <1>2, <1>3, <2>1 DEF Passed, TypeOK
    <3>2. o \notin InFlight
      BY <1>4, <2>1, <3>1
    <3>3. task[o].at = "handled"
      BY <1>0, <3>1, <3>2, <2>1 DEF Stage, InFlight, Records, PassedIs, DiedExcused
    <3>4. key >= task[o].now \/ now >= task[o].now + Lifetime
      BY <3>1, <3>3 DEF IInv, Fresh
    <3>5. ~Late(m)
      BY <1>7, <2>1 DEF GetReturns
    <3>6. task[o].now \in 0..now
      BY <3>1, <1>t
    <3>. QED
      BY <1>7, <1>t, <3>4, <3>5, <3>6 DEF TooSoon, Late
  <2>. QED
    BY <1>t, <1>1, <1>3, <1>4, <1>5, <1>7, <2>1, PassStep
<1>8. CASE GetReturns(m) /\ UNCHANGED cache /\ task' = [task EXCEPT ![m].at = "dropped"]
  <2>1. task' = [task EXCEPT ![m] = [at |-> "dropped", now |-> t, passed |-> task[m].passed]]
    BY <1>0, <1>8, FieldAt
  <2>2. task'[m].at = "dropped" /\ task'[m].now = t /\ task'[m].passed = task[m].passed
        /\ \A o \in Message \ {m} : task'[o] = task[o]
    BY <1>0, <2>1 DEF TypeOK
  <2>3. InFlight' = InFlight \ {m} /\ Passed' = Passed
    BY <2>2 DEF InFlight, Passed
  <2>4. OverlapExcused'
    BY <1>3, <2>3 DEF IInv, OverlapExcused
  <2>5. \A o \in Message : task'[o].now = task[o].now /\ (o # m => task'[o].at = task[o].at)
    BY <2>2
  <2>6. m \notin Passed /\ Passed \subseteq Message /\ InFlight \subseteq Message
    BY <1>2 DEF Passed, InFlight
  <2>7. Fresh'
    BY <1>1, <1>3, <1>8, <2>3, <2>5, <2>6 DEF IInv, Fresh
  <2>8. \E o \in Passed \ {m} : t - task[o].now \in 0..(RateLimit - 1)
    BY <1>0, <1>1 DEF Records, BehindPassed, Close
  <2>9. KeyLives' /\ key' \in 0..now \cup {Never} /\ expires' \in 0..(MaxTime + Lifetime)
    BY <1>0, <1>1 DEF Records, KeyLives, TypeOK
  <2>10. "dropped" \in Stage /\ "dropped" # "handled"
    BY DEF Stage
  <2>. QED
    BY <1>t, <1>1, <1>2, <1>3, <1>8, <2>1, <2>4, <2>7, <2>8, <2>9, <2>10, MoveStep
<1>. QED
  BY <1>6, <1>7, <1>8 DEF GetReturns

LEMMA SetStep ==
    ASSUME IInv, NEW m \in Message, SetReturns(m) \/ SetFails(m)
    PROVE  IInv'
<1>. USE Limits
<1>0. TypeOK /\ Records
  BY DEF IInv
<1>. DEFINE t == task[m].now
<1>t. /\ now \in Nat /\ key \in Int /\ cache \in Int /\ expires \in Int /\ t \in 0..now
      /\ \A o \in Message : task[o].now \in 0..now
  BY <1>0, Times
<1>1. task[m].at = "set" /\ m \in InFlight /\ UNCHANGED <<now, cache>>
      /\ task' = [task EXCEPT ![m].at = "handled"]
  BY DEF SetReturns, SetFails, InFlight
<1>2. task[m].passed = TRUE
  BY <1>0, <1>1 DEF Records, PassedIs, TypeOK
<1>3. excused \subseteq excused' /\ excused' \subseteq Message /\ faults' \in 0..MaxFaults
  <2>1. CASE SetReturns(m)
    BY <1>0, <2>1 DEF TypeOK, SetReturns
  <2>2. CASE SetFails(m)
    BY <1>0, <2>2, FaultCounts DEF TypeOK, SetFails
  <2>. QED
    BY <2>1, <2>2
<1>4. \/ key' = t /\ expires' = now + Lifetime
      \/ UNCHANGED <<key, expires>> /\ m \in excused'
  BY DEF SetReturns, SetFails, SetKey
<1>5. task' = [task EXCEPT ![m] = [at |-> "handled", now |-> t, passed |-> task[m].passed]]
  BY <1>0, <1>1, FieldAt
<1>6. task'[m].at = "handled" /\ task'[m].now = t /\ task'[m].passed
      /\ \A o \in Message \ {m} : task'[o] = task[o]
  BY <1>0, <1>2, <1>5 DEF TypeOK
<1>7. InFlight' = InFlight \ {m} /\ Passed' = Passed
  BY <1>2, <1>6 DEF InFlight, Passed
<1>8. OverlapExcused'
  BY <1>3, <1>7 DEF IInv, OverlapExcused
<1>9. KeyLives' /\ key' \in 0..now \cup {Never} /\ expires' \in 0..(MaxTime + Lifetime)
  <2>1. CASE key' = t /\ expires' = now + Lifetime
    BY <2>1, <1>0, <1>t, BoundAssumption DEF KeyLives, TypeOK
  <2>2. CASE UNCHANGED <<key, expires>>
    BY <2>2, <1>0 DEF Records, KeyLives, TypeOK
  <2>. QED
    BY <1>4, <2>1, <2>2
<1>10. Fresh'
  <2>. SUFFICES ASSUME NEW o \in Passed, o \notin excused'
                PROVE  /\ task'[o].at = "set" => cache = task'[o].now
                       /\ task'[o].at = "handled" =>
                             /\ cache >= task'[o].now
                             /\ \A x \in InFlight' : task'[x].now >= task'[o].now
                             /\ key' >= task'[o].now \/ now >= task'[o].now + Lifetime
    BY <1>1, <1>7 DEF Fresh
  <2>0. o \in Message /\ o \notin excused
    BY <1>3 DEF Passed
  <2>1. CASE o = m
    <3>1. InFlight' = {}
      BY <1>1, <1>7, <2>0, <2>1 DEF IInv, OverlapExcused
    <3>2. cache = t /\ key' = t
      BY <1>1, <1>4, <2>0, <2>1 DEF IInv, Fresh
    <3>. QED
      BY <2>1, <3>1, <3>2, <1>6, <1>t
  <2>2. CASE o # m
    <3>1. task'[o] = task[o] /\ task[o].at # "set"
      BY <1>1, <1>6, <2>0, <2>2 DEF IInv, OverlapExcused, InFlight
    <3>2. ASSUME task[o].at = "handled"
          PROVE  /\ cache >= task[o].now
                 /\ \A x \in InFlight : task[x].now >= task[o].now
                 /\ key >= task[o].now \/ now >= task[o].now + Lifetime
      BY <2>0, <3>2 DEF IInv, Fresh
    <3>3. \A x \in InFlight' : x \in InFlight /\ task'[x] = task[x]
      BY <1>6, <1>7 DEF InFlight
    <3>. QED
      BY <1>1, <1>4, <3>1, <3>2, <3>3
  <2>. QED
    BY <2>1, <2>2
<1>11. "handled" \in Stage
  BY DEF Stage
<1>. QED
  BY <1>t, <1>1, <1>2, <1>3, <1>5, <1>8, <1>9, <1>10, <1>11, MoveStep

(* The records are lost: every message let through so far is excused.       *)
LEMMA LossStep ==
    ASSUME IInv, RedisForgets \/ Restart
    PROVE  IInv'
<1>. USE Limits
<1>0. TypeOK /\ Records
  BY DEF IInv
<1>1. excused' = excused \cup Passed /\ UNCHANGED <<now, expires>> /\ faults' \in 0..MaxFaults
  BY <1>0, FaultCounts DEF RedisForgets, Restart
<1>2. \/ key' = Never /\ UNCHANGED <<cache, task>>
      \/ /\ cache' = Never /\ UNCHANGED key
         /\ task' = [m \in Message |-> IF m \in InFlight THEN [task[m] EXCEPT !.at = "died"] ELSE task[m]]
  BY DEF RedisForgets, Restart
<1>3. \A m \in Message : task[m] \in [at : Stage, now : 0..now, passed : BOOLEAN]
  BY <1>0 DEF TypeOK
<1>4. /\ task' \in [Message -> [at : Stage, now : 0..now, passed : BOOLEAN]]
      /\ \A m \in Message : /\ task'[m].now = task[m].now
                            /\ task'[m].passed = task[m].passed
                            /\ task'[m].at = task[m].at \/ task'[m].at = "died"
      /\ InFlight' \subseteq InFlight
  <2>1. CASE UNCHANGED task
    BY <1>0, <2>1 DEF TypeOK, InFlight
  <2>2. CASE task' = [m \in Message |-> IF m \in InFlight THEN [task[m] EXCEPT !.at = "died"] ELSE task[m]]
    <3>1. ASSUME NEW m \in Message
          PROVE  /\ task'[m] \in [at : Stage, now : 0..now, passed : BOOLEAN]
                 /\ task'[m].now = task[m].now /\ task'[m].passed = task[m].passed
                 /\ task'[m].at = task[m].at \/ task'[m].at = "died"
      BY <1>3, <2>2 DEF Stage
    <3>. QED
      BY <2>2, <3>1 DEF InFlight
  <2>. QED
    BY <1>2, <2>1, <2>2
<1>5. Passed' = Passed /\ Passed \subseteq excused' /\ Passed \subseteq Message
  BY <1>1, <1>4 DEF Passed
<1>6. TypeOK'
  BY <1>0, <1>1, <1>2, <1>4, <1>5 DEF TypeOK
<1>7. PassedIs'
  BY <1>0, <1>4 DEF Records, PassedIs
<1>8. CacheIsOf'
  BY <1>0, <1>2, <1>4, <1>5 DEF Records, CacheIsOf, Never
<1>9. BehindPassed'
  BY <1>0, <1>4, <1>5 DEF Records, BehindPassed, Close
<1>10. DiedExcused'
  BY <1>5 DEF DiedExcused
<1>11. KeyLives'
  BY <1>0, <1>1, <1>2 DEF Records, KeyLives, Never
<1>12. OverlapExcused'
  BY <1>1, <1>4 DEF IInv, OverlapExcused
<1>13. Fresh' /\ QuickRepeatIsExcused'
  BY <1>5 DEF Fresh, QuickRepeatIsExcused
<1>. QED
  BY <1>6, <1>7, <1>8, <1>9, <1>10, <1>11, <1>12, <1>13 DEF IInv, Records

LEMMA TickStep ==
    ASSUME IInv, Tick
    PROVE  IInv'
<1>. USE Limits
<1>0. TypeOK /\ Records
  BY DEF IInv
<1>t. /\ now \in Nat /\ key \in Int /\ cache \in Int /\ expires \in Int
      /\ \A o \in Message : task[o].now \in 0..now
  BY <1>0, Times
<1>1. now' = now + 1 /\ now' \in 0..MaxTime
      /\ key' = (IF now' >= expires THEN Never ELSE key)
      /\ UNCHANGED <<cache, expires, task, faults, excused>>
  BY <1>t, BoundAssumption DEF Tick
<1>2. Passed' = Passed /\ InFlight' = InFlight /\ Passed \subseteq Message /\ InFlight \subseteq Message
  BY <1>1 DEF Passed, InFlight
<1>3. TypeOK'
  <2>1. 0..now \subseteq 0..now'
    BY <1>1, <1>t
  <2>2. task' \in [Message -> [at : Stage, now : 0..now', passed : BOOLEAN]]
    BY <1>0, <1>1, <2>1 DEF TypeOK
  <2>3. cache' \in 0..now' \cup {Never} /\ key' \in 0..now' \cup {Never}
    BY <1>0, <1>1, <2>1 DEF TypeOK
  <2>. QED
    BY <1>0, <1>1, <2>2, <2>3 DEF TypeOK
<1>4. PassedIs' /\ CacheIsOf' /\ BehindPassed' /\ DiedExcused' /\ OverlapExcused' /\ QuickRepeatIsExcused'
  BY <1>1, <1>2 DEF IInv, Records, PassedIs, CacheIsOf, BehindPassed, Close, DiedExcused,
     OverlapExcused, QuickRepeatIsExcused
<1>5. KeyLives'
  BY <1>0, <1>1 DEF Records, KeyLives
<1>6. Fresh'
  <2>. SUFFICES ASSUME NEW o \in Passed, o \notin excused, task[o].at = "handled"
                PROVE  key' >= task[o].now \/ now' >= task[o].now + Lifetime
    BY <1>1, <1>2 DEF IInv, Fresh
  <2>1. task[o].now \in 0..now
    BY <1>2, <1>t
  <2>2. key >= task[o].now \/ now >= task[o].now + Lifetime
    BY DEF IInv, Fresh
  <2>3. CASE now >= task[o].now + Lifetime
    BY <2>1, <2>3, <1>1, <1>t
  <2>4. CASE key >= task[o].now /\ now' < expires
    BY <2>4, <1>1, <1>t
  <2>5. CASE key >= task[o].now /\ now' >= expires
    <3>1. expires >= key + Lifetime
      BY <1>0, <1>t, <2>1, <2>5 DEF Records, KeyLives
    <3>. QED
      BY <1>1, <1>t, <2>1, <2>5, <3>1
  <2>. QED
    BY <1>1, <1>t, <2>2, <2>3, <2>4, <2>5
<1>. QED
  BY <1>3, <1>4, <1>5, <1>6 DEF IInv, Records

LEMMA NextIInv == IInv /\ [Next]_vars => IInv'
<1>. SUFFICES ASSUME IInv, [Next]_vars PROVE IInv'
  OBVIOUS
<1>1. CASE UNCHANGED vars
  BY <1>1 DEF vars, IInv, TypeOK, Records, PassedIs, CacheIsOf, BehindPassed, Close, DiedExcused,
     KeyLives, OverlapExcused, Fresh, QuickRepeatIsExcused, Passed, InFlight
<1>. QED
  BY <1>1, ArriveStep, GetStep, SetStep, LossStep, TickStep DEF Next

(* Every reachable state satisfies the inductive invariant.                 *)
THEOREM ThrottlingInvariant == Spec => []IInv
BY InitIInv, NextIInv, PTL DEF Spec

-----------------------------------------------------------------------------

(* The type invariant of Throttling.                                        *)
THEOREM ThrottlingTypeCorrect == Spec => []TypeOK
<1>1. IInv => TypeOK
  BY DEF IInv
<1>. QED
  BY <1>1, ThrottlingInvariant, PTL

(* Nobody who keeps the pace is silenced, whatever Redis does.              *)
THEOREM DroppedFollowsPassedHolds == Spec => []DroppedFollowsPassed
<1>1. IInv => DroppedFollowsPassed
  BY DEF IInv, Records, BehindPassed, Close, DroppedFollowsPassed
<1>. QED
  BY <1>1, ThrottlingInvariant, PTL

(* Whoever repeats quickly gets through only by an overlap, a late answer   *)
(* or a fault.                                                              *)
THEOREM QuickRepeatIsExcusedHolds == Spec => []QuickRepeatIsExcused
<1>1. IInv => QuickRepeatIsExcused
  BY DEF IInv
<1>. QED
  BY <1>1, ThrottlingInvariant, PTL

=============================================================================
