----------------------------- MODULE RateLimiter -----------------------------
(***************************************************************************)
(* services/rate_limit.py, RateLimiter.allow, as deps.enforce_rate_limit   *)
(* calls it: a fixed-window counter per identity and path in Redis.        *)
(*                                                                         *)
(* A request reads the clock, then INCRs the key of the window it read,    *)
(* then, if its INCR created the key, sets the key's EXPIRE.  The three    *)
(* are separate awaits: other requests, the clock, a failing Redis or a    *)
(* crash of the backend may come between any two of them, and an INCR may  *)
(* land when its window is over.                                           *)
(***************************************************************************)
EXTENDS Naturals

CONSTANTS
    Buckets,            \* "<identity>:<path>"
    Calls,              \* the calls of allow, one of each request
    Window,             \* window_seconds, in clock ticks
    MaxWindow,          \* the last window the model follows (a bound)
    DefaultLimit,       \* settings.rate_limit_per_minute
    KeyLimit,           \* the caller's limit, 0 where it gives none
    None

ASSUME WindowAssumption == Window \in Nat \ {0}
ASSUME BoundAssumption == MaxWindow \in Nat
ASSUME LimitAssumption == DefaultLimit \in Nat \ {0} /\ KeyLimit \in [Buckets -> Nat]

Windows == 0..MaxWindow
Counters == Buckets \X Windows
ASSUME NoneAssumption == None \notin Counters

VARIABLES
    clock,      \* time.time(), in ticks
    window,     \* clock // Window
    boundary,   \* the clock reading at which the next window begins
    count,      \* Redis: the value of key rl:<key>:<window>, 0 if absent
    expires,    \* Redis: when the key goes, 0 if it has no TTL
    phase,      \* "start", "incr", "expire", then the outcome
    ctr,        \* the Redis key the request computed
    (***********************************************************************)
    (* History, read by no action.                                         *)
    (***********************************************************************)
    taken, served, refused, \* of requests counted while their window lasted
    unset       \* counters whose EXPIRE failed or was never sent

redis == <<count, expires>>
time == <<clock, window, boundary>>
tally == <<taken, served, refused>>
limiterVars == <<time, redis, phase, ctr, tally, unset>>

\* lim = limit or settings.rate_limit_per_minute
LimitOf(k) == IF KeyLimit[k] = 0 THEN DefaultLimit ELSE KeyLimit[k]
Limit(c) == LimitOf(c[1])

Promise == INSTANCE FixedWindow WITH
    Counters <- Counters, Limit <- Limit,
    taken <- taken, served <- served, refused <- refused

LimiterTypeOK ==
    /\ clock \in Nat
    /\ window \in Windows
    /\ boundary \in Nat
    /\ count \in [Counters -> Nat]
    /\ expires \in [Counters -> Nat]
    /\ phase \in [Calls -> {"start", "incr", "expire", "allowed", "refused", "open",
                          "gone"}]
    /\ ctr \in [Calls -> Counters \cup {None}]
    /\ \A r \in Calls : phase[r] \in {"incr", "expire"} => ctr[r] \in Counters
    /\ taken \in [Counters -> Nat]
    /\ served \in [Counters -> Nat]
    /\ refused \in [Counters -> Nat]
    /\ unset \subseteq Counters
    /\ clock < boundary /\ boundary <= clock + Window

LimiterInit ==
    /\ clock = 0
    /\ window = 0
    /\ boundary = Window
    /\ count = [c \in Counters |-> 0]
    /\ expires = [c \in Counters |-> 0]
    /\ phase = [r \in Calls |-> "start"]
    /\ ctr = [r \in Calls |-> None]
    /\ Promise!Init
    /\ unset = {}

Proceed(r, label) == phase' = [phase EXCEPT ![r] = label]

(***************************************************************************)
(* now_window = int(time.time() // window_seconds); the key is fixed.      *)
(***************************************************************************)
ReadClock(r, k) ==
    /\ phase[r] = "start"
    /\ ctr' = [ctr EXCEPT ![r] = <<k, window>>]
    /\ Proceed(r, "incr")
    /\ UNCHANGED <<time, redis, tally, unset>>

\* The history of an INCR that Redis applied to counter c with outcome o.
Record(c, o) ==
    IF c[2] = window THEN
        /\ taken' = [taken EXCEPT ![c] = @ + 1]
        /\ served' = IF o = "allowed" THEN [served EXCEPT ![c] = @ + 1] ELSE served
        /\ refused' = IF o = "refused" THEN [refused EXCEPT ![c] = @ + 1] ELSE refused
    ELSE UNCHANGED tally

Outcome(c, n) == IF n <= Limit(c) THEN "allowed" ELSE "refused"

(***************************************************************************)
(* count = await r.incr(redis_key).  Only the request whose INCR created   *)
(* the key (count == 1) goes on to EXPIRE; the others are decided.         *)
(***************************************************************************)
IncrWithoutTtl(r) ==
    LET c == ctr[r]
        n == count[c] + 1
    IN  /\ phase[r] = "incr"
        /\ count' = [count EXCEPT ![c] = n]
        /\ Record(c, Outcome(c, n))
        /\ Proceed(r, Outcome(c, n))
        /\ UNCHANGED <<time, expires, ctr, unset>>

IncrOffByOne(r) ==
    LET c == ctr[r]
        n == count[c] + 1
        o == IF n < Limit(c) THEN "allowed" ELSE "refused"
    IN  /\ phase[r] = "incr"
        /\ count' = [count EXCEPT ![c] = n]
        /\ Record(c, o)
        /\ Proceed(r, IF n = 1 THEN "expire" ELSE o)
        /\ UNCHANGED <<time, expires, ctr, unset>>

Incr(r) ==
    LET c == ctr[r]
        n == count[c] + 1
    IN  /\ phase[r] = "incr"
        /\ count' = [count EXCEPT ![c] = n]
        /\ Record(c, Outcome(c, n))
        /\ Proceed(r, IF n = 1 THEN "expire" ELSE Outcome(c, n))
        /\ UNCHANGED <<time, expires, ctr, unset>>

\* Redis is down, or refuses the command: (True, limit).
IncrFails(r) ==
    /\ phase[r] = "incr"
    /\ Proceed(r, "open")
    /\ UNCHANGED <<time, redis, ctr, tally, unset>>

\* Redis applied the INCR but its answer never came: still (True, limit).
IncrAnswerLost(r) ==
    LET c == ctr[r]
    IN  /\ phase[r] = "incr"
        /\ count' = [count EXCEPT ![c] = @ + 1]
        /\ Record(c, "open")
        /\ Proceed(r, "open")
        /\ unset' = IF count[c] = 0 THEN unset \cup {c} ELSE unset
        /\ UNCHANGED <<time, expires, ctr>>

(***************************************************************************)
(* await r.expire(redis_key, window_seconds), counted from now.            *)
(***************************************************************************)
SetExpiryTooShort(r) ==
    LET c == ctr[r]
    IN  /\ phase[r] = "expire"
        /\ expires' = [expires EXCEPT ![c] = clock + 1]
        /\ Proceed(r, Outcome(c, 1))
        /\ UNCHANGED <<time, count, ctr, tally, unset>>

Expire(r, outcome) ==
    /\ phase[r] = "expire"
    /\ expires' = [expires EXCEPT ![ctr[r]] = clock + Window]
    /\ Proceed(r, outcome)
    /\ UNCHANGED <<time, count, ctr, tally, unset>>

SetExpiry(r) == Expire(r, Outcome(ctr[r], 1))

\* Redis applied the EXPIRE but its answer never came: (True, limit).
SetExpiryAnswerLost(r) == Expire(r, "open")

SetExpiryFails(r) ==
    /\ phase[r] = "expire"
    /\ Proceed(r, "open")
    /\ unset' = unset \cup {ctr[r]}
    /\ UNCHANGED <<time, redis, ctr, tally>>

\* The backend restarts: calls in flight are gone, keys stay (appendonly).
Restart ==
    /\ phase' = [r \in Calls |-> IF phase[r] \in {"incr", "expire"} THEN "gone" ELSE phase[r]]
    /\ unset' = unset \cup {ctr[r] : r \in {q \in Calls : phase[q] = "expire"}}
    /\ UNCHANGED <<time, redis, ctr, tally>>

(***************************************************************************)
(* The clock, and Redis dropping the keys whose time has come.             *)
(***************************************************************************)
Gone(c) == expires[c] # 0 /\ expires[c] <= clock + 1

Tick ==
    /\ clock' = clock + 1
    /\ IF clock + 1 < boundary
       THEN UNCHANGED <<window, boundary>>
       ELSE /\ window < MaxWindow
            /\ window' = window + 1
            /\ boundary' = boundary + Window
    /\ count' = [c \in Counters |-> IF Gone(c) THEN 0 ELSE count[c]]
    /\ expires' = [c \in Counters |-> IF Gone(c) THEN 0 ELSE expires[c]]
    /\ UNCHANGED <<phase, ctr, tally, unset>>

Call(r) ==
    \/ \E k \in Buckets : ReadClock(r, k)
    \/ Incr(r)
    \/ IncrFails(r)
    \/ IncrAnswerLost(r)
    \/ SetExpiry(r)
    \/ SetExpiryAnswerLost(r)
    \/ SetExpiryFails(r)

LimiterNext ==
    \/ \E r \in Calls : Call(r)
    \/ Restart
    \/ Tick

LimiterSpec == LimiterInit /\ [][LimiterNext]_limiterVars

-----------------------------------------------------------------------------
(***************************************************************************)
(* Properties                                                              *)
(***************************************************************************)

\* Requests counted while their window lasts see exactly the abstract
\* limiter: the n-th of them is served iff n <= limit, whatever the order of
\* INCR and EXPIRE, failures and crashes (RateLimiter.allow).
FixedWindowPromise == Promise!Spec

\* No window serves more than its limit to requests counted in time, and a
\* request is turned away only if more than the limit asked in that very
\* window: a late INCR, an expired key or a lost EXPIRE never costs a client
\* a place of the window it is in.
PlacesAreExact ==
    \A c \in Counters :
        /\ served[c] <= Limit(c)
        /\ refused[c] > 0 => taken[c] > Limit(c)

\* A counter without a TTL, which Redis would keep for ever, exists only
\* while the request that created it is about to set one, or if that EXPIRE
\* failed or was never sent.
NoLeakedCounter ==
    \A c \in Counters :
        count[c] > 0 /\ expires[c] = 0 /\ c \notin unset =>
            \E r \in Calls : phase[r] = "expire" /\ ctr[r] = c
=============================================================================
