--------------------------- MODULE Gateway_proofs ---------------------------
(***************************************************************************)
(* Proofs about what stands before the models: RateLimiter, the limiter    *)
(* that every door passes through, and Completions, the requests that come *)
(* with an API key.                                                        *)
(*                                                                         *)
(* RateLimiter: for any identities, limits, window length, number of calls *)
(* and windows, it implements FixedWindow for the requests that are        *)
(* counted while their window lasts.                                       *)
(* Completions: for any users, keys and number of requests.                *)
(***************************************************************************)
EXTENDS RateLimiter, Completions, TLAPS

-----------------------------------------------------------------------------
(***************************************************************************)
(* RateLimiter                                                             *)
(***************************************************************************)

(***************************************************************************)
(* The inductive invariant.  The Redis counter of the current window and   *)
(* the number of requests really counted in it agree (InStep), because no  *)
(* key of the current window has a TTL that ends before the window does    *)
(* (Outlives): an EXPIRE is sent no earlier than the window began and      *)
(* lasts as long as a window.                                              *)
(***************************************************************************)
InStep == \A c \in Counters : c[2] = window => count[c] = taken[c]

Outlives ==
    \A c \in Counters : c[2] = window /\ expires[c] # 0 => expires[c] >= boundary

Untouched ==
    \A c \in Counters : c[2] > window =>
        count[c] = 0 /\ expires[c] = 0 /\ taken[c] = 0

PastOrPresent ==
    \A r \in Calls : phase[r] \in {"incr", "expire"} => ctr[r][2] <= window

ServedAreTaken == \A c \in Counters : served[c] <= taken[c]

Inv ==
    /\ LimiterTypeOK
    /\ InStep
    /\ Outlives
    /\ Untouched
    /\ PastOrPresent
    /\ ServedAreTaken
    /\ PlacesAreExact
    /\ NoLeakedCounter

-----------------------------------------------------------------------------

LEMMA CounterWindow == \A c \in Counters : c[2] \in Nat /\ c[1] \in Buckets
  BY BoundAssumption DEF Counters, Windows

LEMMA LimitIsPositive == \A c \in Counters : Limit(c) \in Nat /\ Limit(c) > 0
  BY CounterWindow, LimitAssumption DEF Limit, LimitOf

LEMMA InitInv == LimiterInit => Inv
  BY WindowAssumption, BoundAssumption, NoneAssumption, LimitIsPositive, CounterWindow
  DEF LimiterInit, Promise!Init, Promise!Zero, Inv, LimiterTypeOK, InStep, Outlives, Untouched,
      PastOrPresent, ServedAreTaken, PlacesAreExact, NoLeakedCounter, Windows

\* The request that INCRs a counter takes the place the abstract limiter gives.
LEMMA IncrInv ==
    ASSUME Inv, NEW r \in Calls, Incr(r) \/ IncrAnswerLost(r)
    PROVE  Inv'
<1> DEFINE c == ctr[r]
<1> USE DEF Inv, Proceed, time, tally
<1>0. /\ phase[r] = "incr" /\ c \in Counters /\ c[2] <= window
      /\ c[2] \in Nat /\ window \in Nat
      /\ Limit(c) \in Nat /\ Limit(c) > 0
  BY CounterWindow, LimitIsPositive, BoundAssumption
  DEF LimiterTypeOK, PastOrPresent, Incr, IncrAnswerLost, Windows
<1>1. LimiterTypeOK'
  BY <1>0 DEF LimiterTypeOK, Incr, IncrAnswerLost, Record, Outcome
<1>2. (InStep /\ Outlives /\ Untouched)'
  BY <1>0, CounterWindow
  DEF LimiterTypeOK, Incr, IncrAnswerLost, Record, InStep, Outlives, Untouched
<1>3. PastOrPresent'
  BY <1>0 DEF LimiterTypeOK, Incr, IncrAnswerLost, PastOrPresent
<1>4. (ServedAreTaken /\ PlacesAreExact)'
  BY <1>0, LimitIsPositive
  DEF LimiterTypeOK, Incr, IncrAnswerLost, Record, Outcome, InStep, ServedAreTaken,
      PlacesAreExact
<1>5. NoLeakedCounter'
  BY <1>0 DEF LimiterTypeOK, Incr, IncrAnswerLost, Outcome, NoLeakedCounter
<1>6. QED
  BY <1>1, <1>2, <1>3, <1>4, <1>5

LEMMA SetExpiryInv ==
    ASSUME Inv, NEW r \in Calls, NEW o \in {"allowed", "refused", "open"}, Expire(r, o)
    PROVE  Inv'
<1> DEFINE c == ctr[r]
<1> USE DEF Inv, Proceed, time, tally, Expire
<1>0. phase[r] = "expire" /\ c \in Counters /\ clock + Window \in Nat /\ clock + Window # 0
  BY WindowAssumption DEF LimiterTypeOK
<1>1. LimiterTypeOK'
  BY <1>0 DEF LimiterTypeOK
<1>2. (InStep /\ Outlives)'
  BY <1>0 DEF LimiterTypeOK, InStep, Outlives
<1>3. (Untouched /\ PastOrPresent)'
  BY <1>0, CounterWindow, BoundAssumption
  DEF LimiterTypeOK, Untouched, PastOrPresent, Windows
<1>4. (ServedAreTaken /\ PlacesAreExact)'
  BY DEF ServedAreTaken, PlacesAreExact
<1>5. NoLeakedCounter'
  BY <1>0 DEF LimiterTypeOK, NoLeakedCounter
<1>6. QED
  BY <1>1, <1>2, <1>3, <1>4, <1>5

\* Neither the clock nor Redis's expiry touches a counter of the window that
\* goes on; of the window that begins nothing exists yet.
LEMMA TickInv == Inv /\ Tick => Inv'
<1> SUFFICES ASSUME Inv, Tick
             PROVE  Inv'
  OBVIOUS
<1> USE DEF Inv, tally
<1>0. /\ clock \in Nat /\ window \in Nat /\ boundary \in Nat
      /\ window' \in Windows /\ window' \in {window, window + 1}
      /\ window' = window => boundary' = boundary /\ clock + 1 < boundary
  BY BoundAssumption DEF LimiterTypeOK, Tick, Windows
<1>1. LimiterTypeOK'
  BY <1>0, WindowAssumption DEF LimiterTypeOK, Tick
<1>2. \A c \in Counters : c[2] = window /\ window' = window => ~Gone(c)
  BY <1>0 DEF LimiterTypeOK, Gone, Outlives
<1>3. InStep'
  BY <1>0, <1>2, CounterWindow DEF LimiterTypeOK, Tick, InStep, Untouched
<1>4. Outlives'
  BY <1>0, <1>2, CounterWindow DEF LimiterTypeOK, Tick, Outlives, Untouched
<1>5. Untouched'
  BY <1>0, CounterWindow DEF LimiterTypeOK, Tick, Untouched
<1>6. PastOrPresent'
  BY <1>0, CounterWindow DEF LimiterTypeOK, Tick, PastOrPresent
<1>7. (ServedAreTaken /\ PlacesAreExact)'
  BY DEF Tick, ServedAreTaken, PlacesAreExact
<1>8. NoLeakedCounter'
  BY DEF LimiterTypeOK, Tick, NoLeakedCounter
<1>9. QED
  BY <1>1, <1>3, <1>4, <1>5, <1>6, <1>7, <1>8

\* The steps that touch neither a counter nor the clock.
LEMMA QuietInv ==
    ASSUME Inv,
           \/ \E r \in Calls : \/ \E k \in Buckets : ReadClock(r, k)
                               \/ IncrFails(r)
                               \/ SetExpiryFails(r)
           \/ Restart
    PROVE  Inv'
<1> USE DEF Inv, Proceed, time, redis, tally
<1>1. ASSUME NEW r \in Calls, NEW k \in Buckets, ReadClock(r, k)
      PROVE  Inv'
  BY <1>1, BoundAssumption
  DEF ReadClock, LimiterTypeOK, InStep, Outlives, Untouched, PastOrPresent,
      ServedAreTaken, PlacesAreExact, NoLeakedCounter, Counters, Windows
<1>2. ASSUME NEW r \in Calls, IncrFails(r)
      PROVE  Inv'
  BY <1>2
  DEF IncrFails, LimiterTypeOK, InStep, Outlives, Untouched, PastOrPresent,
      ServedAreTaken, PlacesAreExact, NoLeakedCounter
<1>3. ASSUME NEW r \in Calls, SetExpiryFails(r)
      PROVE  Inv'
  BY <1>3
  DEF SetExpiryFails, LimiterTypeOK, InStep, Outlives, Untouched, PastOrPresent,
      ServedAreTaken, PlacesAreExact, NoLeakedCounter
<1>4. CASE Restart
  BY <1>4
  DEF Restart, LimiterTypeOK, InStep, Outlives, Untouched, PastOrPresent,
      ServedAreTaken, PlacesAreExact, NoLeakedCounter
<1>5. QED
  BY <1>1, <1>2, <1>3, <1>4

LEMMA NextInv == Inv /\ [LimiterNext]_limiterVars => Inv'
<1>1. Inv /\ LimiterNext => Inv'
  BY IncrInv, SetExpiryInv, TickInv, QuietInv
  DEF LimiterNext, Call, SetExpiry, SetExpiryAnswerLost, Outcome
<1>2. Inv /\ UNCHANGED limiterVars => Inv'
  BY DEF limiterVars, time, redis, tally, Inv, LimiterTypeOK, InStep, Outlives, Untouched,
         PastOrPresent, ServedAreTaken, PlacesAreExact, NoLeakedCounter
<1>3. QED
  BY <1>1, <1>2

-----------------------------------------------------------------------------

\* The invariant of the limiter holds in every behaviour.
THEOREM InvHolds == LimiterSpec => []Inv
  BY InitInv, NextInv, PTL DEF LimiterSpec

\* The clock, its window and the Redis keys are always well formed.
THEOREM TypeCorrect == LimiterSpec => []LimiterTypeOK
<1>1. Inv => LimiterTypeOK
  BY DEF Inv
<1>2. QED
  BY <1>1, InvHolds, PTL

\* No window ever serves more than its limit in time, and nobody is turned
\* away from a window that still has a place (RateLimiter.allow).
THEOREM LimitIsExact == LimiterSpec => []PlacesAreExact
<1>1. Inv => PlacesAreExact
  BY DEF Inv
<1>2. QED
  BY <1>1, InvHolds, PTL

\* A counter without a TTL is one whose EXPIRE is under way, or failed.
THEOREM LeaksOnlyOnFailure == LimiterSpec => []NoLeakedCounter
<1>1. Inv => NoLeakedCounter
  BY DEF Inv
<1>2. QED
  BY <1>1, InvHolds, PTL

\* RateLimiter.allow over Redis implements the abstract fixed window.
THEOREM Implements == LimiterSpec => FixedWindowPromise
<1> USE DEF Promise!vars, Promise!Next
<1>1. LimiterInit => Promise!Init
  BY DEF LimiterInit
<1>2. ASSUME Inv, [LimiterNext]_limiterVars
      PROVE  [Promise!Next]_(Promise!vars)
  <2>1. ASSUME NEW r \in Calls, Incr(r) \/ IncrAnswerLost(r)
        PROVE  [Promise!Next]_(Promise!vars)
    <3> DEFINE c == ctr[r]
    <3>1. c \in Counters /\ Limit(c) \in Nat /\ taken[c] \in Nat /\ count[c] \in Nat
      BY <1>2, <2>1, LimitIsPositive DEF Inv, LimiterTypeOK, Incr, IncrAnswerLost
    <3>2. CASE c[2] # window
      BY <2>1, <3>2 DEF Incr, IncrAnswerLost, Record, tally
    <3>3. CASE c[2] = window /\ Incr(r) /\ count[c] + 1 <= Limit(c)
      <4>1. Promise!Serve(c)
        BY <1>2, <3>1, <3>3 DEF Incr, Record, Outcome, Inv, InStep, Promise!Serve, Promise!Bump
      <4>2. QED
        BY <3>1, <4>1
    <3>4. CASE c[2] = window /\ Incr(r) /\ ~(count[c] + 1 <= Limit(c))
      <4>1. Promise!Refuse(c)
        BY <1>2, <3>1, <3>4 DEF Incr, Record, Outcome, Inv, InStep, Promise!Refuse, Promise!Bump
      <4>2. QED
        BY <3>1, <4>1
    <3>5. CASE c[2] = window /\ IncrAnswerLost(r)
      <4>1. Promise!Spend(c)
        BY <3>5 DEF IncrAnswerLost, Record, Promise!Spend, Promise!Bump
      <4>2. QED
        BY <3>1, <4>1
    <3>6. QED
      BY <2>1, <3>2, <3>3, <3>4, <3>5
  <2>2. ASSUME NEW r \in Calls, Call(r), ~(Incr(r) \/ IncrAnswerLost(r))
        PROVE  UNCHANGED tally
    BY <2>2 DEF Call, ReadClock, IncrFails, SetExpiry, SetExpiryAnswerLost, Expire,
        SetExpiryFails
  <2>3. Restart \/ Tick \/ UNCHANGED limiterVars => UNCHANGED tally
    BY DEF Restart, Tick, limiterVars
  <2>4. QED
    BY <1>2, <2>1, <2>2, <2>3 DEF LimiterNext, tally
<1>3. QED
  BY <1>1, <1>2, InvHolds, PTL DEF LimiterSpec, FixedWindowPromise, Promise!Spec

-----------------------------------------------------------------------------
(***************************************************************************)
(* Completions                                                             *)
(***************************************************************************)

(***************************************************************************)
(* The inductive invariant.  No endpoint activates a revoked key, so a key *)
(* that was dead when the request arrived is dead when it is read          *)
(* (Barred); an account that is active when it is read was active since    *)
(* the request arrived (Admitted); and the only way from Ollama's answer   *)
(* to the end of the request leads past the record or a loss (Billed).     *)
(***************************************************************************)
Barred ==
    \A r \in dead :
        /\ pc[r] \in {"key", "end"}
        /\ Stopped(key[r])
        /\ answer[r] \notin {200, 400, 429}

Admitted ==
    \A r \in Requests :
        /\ pc[r] \in {"key", "user"} /\ active[Owner[key[r]]] => r \in owned
        /\ pc[r] = "touch" => r \in owned

HasRow ==
    \A r \in Requests :
        pc[r] \in {"user", "touch"} \cup Serving => keys[key[r]] # "none"

Unanswered ==
    \A r \in Requests : pc[r] \in {"idle"} \cup Authenticating => answer[r] = 0

Billed ==
    \A r \in Requests :
        /\ r \in spent => pc[r] \in {"log", "end"}
        /\ pc[r] = "log" => r \in spent
        /\ pc[r] # "end" => records[r] = 0

ApiInv ==
    /\ TypeOK
    /\ Barred
    /\ Admitted
    /\ HasRow
    /\ Unanswered
    /\ Billed
    /\ DisabledUsersServeNothing
    /\ UsageIsEarned
    /\ AnswersAreAccounted

-----------------------------------------------------------------------------

\* The initial states satisfy the invariant.
LEMMA ApiInitInv == Init => ApiInv
  BY OwnerAssumption DEF Init, ApiInv, TypeOK, Barred, Admitted, HasRow, Unanswered,
      Billed, DisabledUsersServeNothing, UsageIsEarned, AnswersAreAccounted, Served,
      Serving, Authenticating, Kinds

\* One step of a request.
LEMMA HandleInv ==
    ASSUME ApiInv, NEW r \in Requests, Handle(r)
    PROVE  ApiInv'
<1> USE OwnerAssumption DEF ApiInv, TypeOK, Barred, Admitted, HasRow, Unanswered, Billed,
        DisabledUsersServeNothing, UsageIsEarned, AnswersAreAccounted,
        Served, Serving, Authenticating, Stopped, accounts, ghosts,
        Goto, Answer, Refuse, Continue
<1>1. CASE Arrive(r)
  BY <1>1 DEF Arrive
<1>2. CASE ReadKey(r)
  BY <1>2 DEF ReadKey
<1>3. CASE ReadUser(r)
  BY <1>3 DEF ReadUser
<1>4. CASE Touch(r)
  BY <1>4 DEF Touch
<1>5. CASE Admit(r)
  BY <1>5 DEF Admit
<1>6. CASE Resolve(r)
  BY <1>6 DEF Resolve
<1>7. CASE Context(r)
  BY <1>7 DEF Context
<1>8. CASE Ask(r)
  BY <1>8 DEF Ask
<1>9. CASE StreamPart(r)
  BY <1>9 DEF StreamPart
<1>10. CASE StreamEnd(r)
  BY <1>10 DEF StreamEnd
<1>11. CASE Log(r)
  BY <1>11 DEF Log
<1>12. CASE Fail(r)
  BY <1>12 DEF Fail
<1>13. CASE Disconnect(r)
  BY <1>13 DEF Disconnect
<1>14. QED
  BY <1>1, <1>2, <1>3, <1>4, <1>5, <1>6, <1>7, <1>8, <1>9, <1>10, <1>11,
     <1>12, <1>13 DEF Handle

\* Keys and accounts change, or the backend restarts, under the requests.
LEMMA EnvironmentInv ==
    ASSUME ApiInv,
           \/ \E k \in Keys : CreateKey(k) \/ RevokeKey(k) \/ Lapse(k)
           \/ \E u \in Users : SwitchUser(u)
           \/ Crash
    PROVE  ApiInv'
<1> USE OwnerAssumption DEF ApiInv, TypeOK, Barred, Admitted, HasRow, Unanswered, Billed,
        DisabledUsersServeNothing, UsageIsEarned, AnswersAreAccounted,
        Served, Serving, Authenticating, Stopped, accounts, ghosts
<1>1. ASSUME NEW k \in Keys, CreateKey(k)  PROVE ApiInv'
  BY <1>1 DEF CreateKey
<1>2. ASSUME NEW k \in Keys, RevokeKey(k)  PROVE ApiInv'
  BY <1>2 DEF RevokeKey
<1>3. ASSUME NEW k \in Keys, Lapse(k)  PROVE ApiInv'
  BY <1>3 DEF Lapse
<1>4. ASSUME NEW u \in Users, SwitchUser(u)  PROVE ApiInv'
  BY <1>4 DEF SwitchUser
<1>5. CASE Crash
  BY <1>5 DEF Crash
<1>6. QED
  BY <1>1, <1>2, <1>3, <1>4, <1>5

\* The inductive invariant holds in every reachable state.
THEOREM ApiInvHolds == Spec => []ApiInv
<1>1. Init => ApiInv
  BY ApiInitInv
<1>2. ApiInv /\ [Next]_(vars) => ApiInv'
  <2> SUFFICES ASSUME ApiInv, [Next]_(vars) PROVE ApiInv'
    OBVIOUS
  <2>1. CASE Next
    BY <2>1, HandleInv, EnvironmentInv DEF Next
  <2>2. CASE UNCHANGED vars
    BY <2>2
    DEF vars, accounts, ghosts, ApiInv, TypeOK, Barred, Admitted, HasRow, Unanswered,
        Billed, DisabledUsersServeNothing, UsageIsEarned, AnswersAreAccounted,
        Served, Stopped
  <2>3. QED
    BY <2>1, <2>2
<1>3. QED
  BY <1>1, <1>2, PTL DEF Spec

\* Every reachable state is well typed.
THEOREM ApiTypeCorrect == Spec => []TypeOK
  BY ApiInvHolds, PTL DEF ApiInv

\* A key that was revoked or expired when a request arrived serves it nothing
\* (get_api_key_user).
THEOREM DeadKeysAreRefused == Spec => []DeadKeysServeNothing
<1>1. ApiInv => DeadKeysServeNothing
  BY DEF ApiInv, Barred, DeadKeysServeNothing, Served, Serving
<1>2. QED
  BY <1>1, ApiInvHolds, PTL

\* A request is served only if its user was active since it arrived.
THEOREM DisabledUsersAreRefused == Spec => []DisabledUsersServeNothing
  BY ApiInvHolds, PTL DEF ApiInv

\* Only requests that Ollama answered to the end are billed, and once.
THEOREM BilledOnce == Spec => []UsageIsEarned
  BY ApiInvHolds, PTL DEF ApiInv

\* A complete answer is billed unless something cut the request short.
THEOREM NothingUnbilled == Spec => []AnswersAreAccounted
  BY ApiInvHolds, PTL DEF ApiInv
=============================================================================
