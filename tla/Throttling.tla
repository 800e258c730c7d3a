----------------------------- MODULE Throttling -----------------------------
(***************************************************************************)
(* ThrottlingMiddleware of src/core/throttling.py, for the messages of one *)
(* user (the cache and the keys of Redis are per user).                    *)
(*                                                                         *)
(* aiogram runs a task for every update, so the calls interleave at the    *)
(* two awaits, GET and SET.  The cache lives in the process; the key is in *)
(* Redis, which may fail, forget, or apply a SET whose answer is lost.     *)
(***************************************************************************)
EXTENDS Integers

CONSTANTS
    Message,         \* messages of the user (bound)
    RateLimit,       \* rate_limit, in ticks of the clock
    MaxIdle,         \* max_idle, in ticks
    TicksPerSecond,
    MaxTime,         \* bound on the clock
    MaxFaults        \* bound: failing calls, lost keys, restarts

(* ex=int(self._max_idle): whole seconds                                    *)
Lifetime == (MaxIdle \div TicksPerSecond) * TicksPerSecond

ASSUME LimitAssumption == RateLimit \in Nat \ {0} /\ MaxIdle \in Nat /\ TicksPerSecond \in Nat \ {0}
ASSUME BoundAssumption == MaxTime \in Nat /\ MaxFaults \in Nat
(* The settings as deployed: 0.5 s and 60 s.                                *)
ASSUME LifetimeAssumption == Lifetime >= RateLimit

VARIABLES
    now,      \* time.time()
    cache,    \* _local_cache[user]
    key,      \* throttle:membership:<user> in Redis, Never when absent
    expires,  \* when Redis drops the key
    task,     \* task[m]: where the middleware is with m, and m's clock reading
    faults,   \* faults so far
    excused   \* history: messages that another overlapped, whose GET was
              \* late, or whose record a fault hit

vars == <<now, cache, key, expires, task, faults, excused>>

Never == -RateLimit  \* the 0 of dict.get: long before any reading
Stage == {"unsent", "get", "set", "handled", "dropped", "died"}

TypeOK ==
    /\ now \in 0..MaxTime
    /\ cache \in 0..now \cup {Never}
    /\ key \in 0..now \cup {Never}
    /\ expires \in 0..(MaxTime + Lifetime)
    /\ task \in [Message -> [at : Stage, now : 0..now, passed : BOOLEAN]]
    /\ faults \in 0..MaxFaults
    /\ excused \subseteq Message

Init ==
    /\ now = 0
    /\ cache = Never
    /\ key = Never
    /\ expires = 0
    /\ task = [m \in Message |-> [at |-> "unsent", now |-> 0, passed |-> FALSE]]
    /\ faults = 0
    /\ excused = {}

Fault == faults < MaxFaults /\ faults' = faults + 1

TooSoon(t, last) == t - last < RateLimit
InFlight == {m \in Message : task[m].at \in {"get", "set"}}
Passed == {m \in Message : task[m].passed}

(* self._local_cache[user_id] = now, then the call of SET                   *)
Passes(m, t) ==
    /\ cache' = t
    /\ task' = [task EXCEPT ![m] = [at |-> "set", now |-> t, passed |-> TRUE]]

(* The key of a message TooSoon before m may have expired by now.           *)
Late(m) == now - task[m].now > Lifetime - RateLimit
Overlaps(m) == excused' = IF InFlight = {} THEN excused ELSE excused \cup InFlight \cup {m}

-----------------------------------------------------------------------------
(* Mutant of Arrive: no local cache.                                        *)
ArriveUncached(m) ==
    /\ task[m].at = "unsent"
    /\ task' = [task EXCEPT ![m] = [at |-> "get", now |-> now, passed |-> FALSE]]
    /\ Overlaps(m)
    /\ UNCHANGED <<now, cache, key, expires, faults>>

Arrive(m) ==
    /\ task[m].at = "unsent"
    /\ Overlaps(m)
    /\ \/ ~TooSoon(now, cache) /\ Passes(m, now)
       \/ /\ TooSoon(now, cache)
          /\ task' = [task EXCEPT ![m] = [at |-> "get", now |-> now, passed |-> FALSE]]
          /\ UNCHANGED cache
    /\ UNCHANGED <<now, key, expires, faults>>

GetReturns(m) ==
    /\ task[m].at = "get"
    /\ \/ ~TooSoon(task[m].now, key) /\ Passes(m, task[m].now)
       \/ /\ TooSoon(task[m].now, key)
          /\ task' = [task EXCEPT ![m].at = "dropped"]
          /\ UNCHANGED cache
    /\ excused' = IF Late(m) THEN excused \cup {m} ELSE excused
    /\ UNCHANGED <<now, key, expires, faults>>

GetFails(m) ==
    /\ task[m].at = "get"
    /\ Fault
    /\ Passes(m, task[m].now)
    /\ excused' = excused \cup {m}
    /\ UNCHANGED <<now, key, expires>>

(* Redis refuses an expiry of no seconds.                                   *)
SetKey(t) ==
    /\ key' = IF Lifetime > 0 THEN t ELSE key
    /\ expires' = IF Lifetime > 0 THEN now + Lifetime ELSE expires

(* Mutant of SetReturns: the key of a message keeps the first's expiry.     *)
SetKeepsExpiry(m) ==
    /\ task[m].at = "set"
    /\ key' = task[m].now
    /\ expires' = IF key = Never THEN now + Lifetime ELSE expires
    /\ task' = [task EXCEPT ![m].at = "handled"]
    /\ UNCHANGED <<now, cache, faults, excused>>

SetReturns(m) ==
    /\ task[m].at = "set"
    /\ SetKey(task[m].now)
    /\ task' = [task EXCEPT ![m].at = "handled"]
    /\ UNCHANGED <<now, cache, faults, excused>>

(* suppress(Exception): the message is handled all the same                 *)
SetFails(m) ==
    /\ task[m].at = "set"
    /\ Fault
    /\ SetKey(task[m].now) \/ UNCHANGED <<key, expires>>
    /\ task' = [task EXCEPT ![m].at = "handled"]
    /\ excused' = excused \cup {m}
    /\ UNCHANGED <<now, cache>>

RedisForgets ==
    /\ Fault
    /\ key' = Never
    /\ excused' = excused \cup Passed
    /\ UNCHANGED <<now, cache, expires, task>>

Restart ==
    /\ Fault
    /\ cache' = Never
    /\ task' = [m \in Message |-> IF m \in InFlight THEN [task[m] EXCEPT !.at = "died"] ELSE task[m]]
    /\ excused' = excused \cup Passed
    /\ UNCHANGED <<now, key, expires>>

Tick ==
    /\ now < MaxTime
    /\ now' = now + 1
    /\ key' = IF now' >= expires THEN Never ELSE key
    /\ UNCHANGED <<cache, expires, task, faults, excused>>

Next ==
    \/ \E m \in Message :
          \/ Arrive(m) \/ GetReturns(m) \/ GetFails(m)
          \/ SetReturns(m) \/ SetFails(m)
    \/ RedisForgets \/ Restart \/ Tick

Spec == Init /\ [][Next]_vars

-----------------------------------------------------------------------------
(* Properties. *)

(* A message is dropped only if one less than RateLimit older was let       *)
(* through: dropped messages do not prolong the silence, and neither a      *)
(* Redis that fails nor an answer that comes late silences a user who       *)
(* keeps the pace.                                                          *)
DroppedFollowsPassed ==
    \A m \in Message : task[m].at = "dropped" =>
        \E o \in Passed \ {m} : task[m].now - task[o].now \in 0..(RateLimit - 1)

(* Two messages less than RateLimit apart both get through only if one of   *)
(* them was under way together with another message (whose SET comes after  *)
(* the GET, or overwrites a newer time), the GET took longer than the key   *)
(* lives, or a fault hit its record.                                        *)
QuickRepeatIsExcused ==
    \A m, o \in Passed :
        m = o \/ task[m].now - task[o].now \notin 0..(RateLimit - 1) \/ {m, o} \cap excused # {}

=============================================================================
