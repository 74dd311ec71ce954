----------------------------- MODULE RateLimiter ----------------------------
(***************************************************************************)
(* RateLimiter.is_allowed (app/core/redis.py:92-112) for one identifier:   *)
(* a Redis counter that the first request of a window creates and that     *)
(* expires with the window.  INCR and EXPIRE are two commands              *)
(* (RedisCache.increment), so that other requests, and the end of the      *)
(* caller's process, come between them.                                    *)
(*                                                                         *)
(* Time advances in ticks, Window of them to window_seconds; "recent"      *)
(* remembers how many requests were allowed in each of the last Window     *)
(* ticks.                                                                  *)
(***************************************************************************)
EXTENDS Integers, FiniteSets

CONSTANTS
    Calls,        \* concurrent callers
    MaxRequests,  \* the largest max_requests that a caller passes
    Window,       \* window_seconds, in ticks
    MaxCount,     \* bound on the counter, above MaxRequests
    MaxCrashes    \* bound on callers that die inside increment

ASSUME LimiterAssumption ==
    /\ MaxRequests \in Nat \ {0}
    /\ Window \in Nat \ {0}
    /\ MaxCount \in Nat /\ MaxCount > MaxRequests
    /\ MaxCrashes \in Nat

VARIABLES
    count,    \* the counter; 0 when its key does not exist
    ttl,      \* ticks until the key expires; 0 when it has no expiry
    recent,   \* recent[i]: requests allowed i - 1 ticks ago
    call,     \* call[c]: where caller c is
    crashes   \* callers that died so far

limiterVars == <<count, ttl, recent, call, crashes>>

LimiterTypeOK ==
    /\ count \in 0 .. MaxCount
    /\ ttl \in 0 .. Window
    /\ recent \in [1 .. Window -> Nat]
    /\ call \in [Calls -> {"idle", "expire", "allowed", "denied"}]
    /\ crashes \in 0 .. MaxCrashes

LimiterInit ==
    /\ count = 0
    /\ ttl = 0
    /\ recent = [i \in 1 .. Window |-> 0]
    /\ call = [c \in Calls |-> "idle"]
    /\ crashes = 0

\* The counter after INCR; how far it is above MaxRequests makes no difference.
Counted == IF count < MaxCount THEN count + 1 ELSE count

Allow(c) ==
    /\ call' = [call EXCEPT ![c] = "allowed"]
    /\ recent' = [recent EXCEPT ![1] = @ + 1]

IncrLenient(c, limit) ==
    /\ call[c] = "idle"
    /\ count' = Counted
    /\ \/ count = 0 /\ call' = [call EXCEPT ![c] = "expire"] /\ UNCHANGED recent
       \/ count \in 1 .. limit /\ Allow(c)
       \/ count > limit /\ call' = [call EXCEPT ![c] = "denied"] /\ UNCHANGED recent
    /\ UNCHANGED <<ttl, crashes>>

\* INCR.  The first request goes on to EXPIRE; the others are decided by their count and the
\* max_requests that they were given.
Incr(c, limit) ==
    /\ call[c] = "idle"
    /\ count' = Counted
    /\ \/ count = 0 /\ call' = [call EXCEPT ![c] = "expire"] /\ UNCHANGED recent
       \/ count \in 1 .. (limit - 1) /\ Allow(c)
       \/ count >= limit /\ call' = [call EXCEPT ![c] = "denied"] /\ UNCHANGED recent
    /\ UNCHANGED <<ttl, crashes>>

ExpireForgotten(c) ==
    /\ call[c] = "expire"
    /\ Allow(c)
    /\ UNCHANGED <<count, ttl, crashes>>

\* EXPIRE; the request is the first of its window and is allowed.
Expire(c) ==
    /\ call[c] = "expire"
    /\ ttl' = Window
    /\ Allow(c)
    /\ UNCHANGED <<count, crashes>>

\* The caller dies, or loses its connection, between INCR and EXPIRE.
Crash(c) ==
    /\ call[c] = "expire"
    /\ crashes < MaxCrashes
    /\ crashes' = crashes + 1
    /\ call' = [call EXCEPT ![c] = "idle"]
    /\ UNCHANGED <<count, ttl, recent>>

\* is_allowed has returned and its result was used.
Return(c) ==
    /\ call[c] \in {"allowed", "denied"}
    /\ call' = [call EXCEPT ![c] = "idle"]
    /\ UNCHANGED <<count, ttl, recent, crashes>>

\* Time passes; the key goes when its time to live has run out.
Tick ==
    /\ ttl' = IF ttl > 0 THEN ttl - 1 ELSE 0
    /\ count' = IF ttl = 1 THEN 0 ELSE count
    /\ recent' = [i \in 1 .. Window |-> IF i = 1 THEN 0 ELSE recent[i - 1]]
    /\ UNCHANGED <<call, crashes>>

LimiterNext ==
    \/ \E c \in Calls :
          \/ \E limit \in 1 .. MaxRequests : Incr(c, limit)
          \/ Expire(c) \/ Crash(c) \/ Return(c)
    \/ Tick

\* Time passes, and a caller between its two commands sends the second.
LimiterFairness ==
    /\ WF_limiterVars(Tick)
    /\ \A c \in Calls : WF_limiterVars(Expire(c))

LimiterSpec == LimiterInit /\ [][LimiterNext]_limiterVars /\ LimiterFairness

-----------------------------------------------------------------------------
(* Properties *)

AllowedLately == Cardinality(UNION {{i} \X (1 .. recent[i]) : i \in 1 .. Window})

\* Whatever the delay between INCR and EXPIRE, any window_seconds of time overlap at most two
\* of the limiter's windows, and if they reach into the second, the first request of the first
\* is no longer among them: fewer than twice max_requests are allowed.
BurstBounded == AllowedLately < 2 * MaxRequests

\* A counter that will not expire is one whose creator is about to set its expiry, or died
\* before it could (redis.py:85-87).
CounterWithoutExpiryExplained ==
    count > 0 /\ ttl = 0 =>
        \/ crashes > 0
        \/ Cardinality({c \in Calls : call[c] = "expire"}) = 1

\* As long as no caller died inside increment, an exhausted window ends.
WindowReopens == count > 0 /\ crashes = 0 ~> count = 0 \/ crashes > 0
=============================================================================
