----------------------------- MODULE Completions -----------------------------
(***************************************************************************)
(* The /v1 API (routers/openai_compat.py) behind an API key                *)
(* (get_api_key_user of deps.py; the keys of users.py and                  *)
(* portal_settings.py).                                                    *)
(*                                                                         *)
(* A request is authenticated by two SELECTs and a COMMIT of the key's     *)
(* last_used_at, admitted by the limiter (RateLimiter.tla; here it may     *)
(* answer either way), resolved, answered by Ollama, and accounted for by  *)
(* one usage record.  Every one of these is an await: keys are revoked and *)
(* expire, and accounts are switched, between any two.  The record of a    *)
(* stream comes after its last byte, when the client may be gone.          *)
(***************************************************************************)
EXTENDS Naturals

CONSTANTS
    Users,
    Keys,
    Owner,      \* the user of each key
    Requests

ASSUME OwnerAssumption == Owner \in [Keys -> Users]

VARIABLES
    keys,       \* api_keys rows: "none", "active" or "revoked"
    lapsed,     \* keys whose expires_at has passed
    lastUsed,   \* keys whose last_used_at is set
    active,     \* users.is_active
    pc,         \* where a request is
    key,        \* the key it presents
    kind,       \* "models", "embeddings", "whole" or "stream"
    answer,     \* its HTTP status, 0 while there is none
    sent,       \* what the client of a stream has: "nothing", "some", "done"
    records,    \* usage_records of the request
    (***********************************************************************)
    (* History, read by no action.                                         *)
    (***********************************************************************)
    dead,       \* requests whose key was revoked or lapsed when they arrived
    owned,      \* requests whose user was active at some moment since
    spent,      \* requests that Ollama answered to the end
    lost        \* requests that a client, a failure or a restart cut short

accounts == <<keys, lapsed, lastUsed, active>>
ghosts == <<dead, owned, spent, lost>>
vars == <<accounts, pc, key, kind, answer, sent, records, ghosts>>

Kinds == {"models", "embeddings", "whole", "stream"}
Authenticating == {"key", "user", "touch"}
Serving == {"limit", "resolve", "context", "ask", "stream", "log"}

TypeOK ==
    /\ keys \in [Keys -> {"none", "active", "revoked"}]
    /\ lapsed \subseteq Keys
    /\ lastUsed \subseteq {k \in Keys : keys[k] # "none"}
    /\ active \in [Users -> BOOLEAN]
    /\ pc \in [Requests -> {"idle", "end"} \cup Authenticating \cup Serving]
    /\ key \in [Requests -> Keys]
    /\ kind \in [Requests -> Kinds]
    /\ answer \in [Requests -> {0, 200, 400, 401, 429, 500}]
    /\ sent \in [Requests -> {"nothing", "some", "done"}]
    /\ records \in [Requests -> Nat]
    /\ dead \subseteq Requests
    /\ owned \subseteq Requests
    /\ spent \subseteq Requests
    /\ lost \subseteq Requests

Init ==
    /\ keys \in [Keys -> {"none", "active"}]
    /\ lapsed = {}
    /\ lastUsed = {}
    /\ active \in [Users -> BOOLEAN]
    /\ pc = [r \in Requests |-> "idle"]
    /\ key \in [Requests -> Keys]
    /\ kind \in [Requests -> Kinds]
    /\ answer = [r \in Requests |-> 0]
    /\ sent = [r \in Requests |-> "nothing"]
    /\ records = [r \in Requests |-> 0]
    /\ dead = {}
    /\ owned = {}
    /\ spent = {}
    /\ lost = {}

Goto(r, label) == pc' = [pc EXCEPT ![r] = label]
Answer(r, status) == answer' = [answer EXCEPT ![r] = status]
Refuse(r, status) == Goto(r, "end") /\ Answer(r, status)
Continue(r, label) == Goto(r, label) /\ UNCHANGED answer
Stopped(k) == keys[k] = "revoked" \/ k \in lapsed

Arrive(r) ==
    /\ pc[r] = "idle"
    /\ Goto(r, "key")
    /\ dead' = IF Stopped(key[r]) THEN dead \cup {r} ELSE dead
    /\ owned' = IF active[Owner[key[r]]] THEN owned \cup {r} ELSE owned
    /\ UNCHANGED <<accounts, key, kind, answer, sent, records, spent, lost>>

(***************************************************************************)
(* get_api_key_user                                                        *)
(***************************************************************************)
ReadKey(r) ==
    /\ pc[r] = "key"
    /\ IF keys[key[r]] = "active" /\ key[r] \notin lapsed
       THEN Continue(r, "user")
       ELSE Refuse(r, 401)
    /\ UNCHANGED <<accounts, key, kind, sent, records, ghosts>>

ReadUserAny(r) ==
    /\ pc[r] = "user"
    /\ Continue(r, "touch")
    /\ UNCHANGED <<accounts, key, kind, sent, records, ghosts>>

ReadUser(r) ==
    /\ pc[r] = "user"
    /\ IF active[Owner[key[r]]] THEN Continue(r, "touch") ELSE Refuse(r, 401)
    /\ UNCHANGED <<accounts, key, kind, sent, records, ghosts>>

TouchWholeRow(r) ==
    /\ pc[r] = "touch"
    /\ lastUsed' = lastUsed \cup {key[r]}
    /\ keys' = [keys EXCEPT ![key[r]] = "active"]
    /\ Continue(r, "limit")
    /\ UNCHANGED <<lapsed, active, key, kind, sent, records, ghosts>>

\* The COMMIT updates last_used_at and no other column of the row.
Touch(r) ==
    /\ pc[r] = "touch"
    /\ lastUsed' = lastUsed \cup {key[r]}
    /\ Continue(r, "limit")
    /\ UNCHANGED <<keys, lapsed, active, key, kind, sent, records, ghosts>>

(***************************************************************************)
(* enforce_rate_limit, then _resolve_model and build_context where the     *)
(* endpoint has them.                                                      *)
(***************************************************************************)
Admit(r) ==
    /\ pc[r] = "limit"
    /\ \/ Continue(r, IF kind[r] \in {"whole", "stream"} THEN "resolve" ELSE "ask")
       \/ Refuse(r, 429)
    /\ UNCHANGED <<accounts, key, kind, sent, records, ghosts>>

\* 400: no model for `auto'.
Resolve(r) ==
    /\ pc[r] = "resolve"
    /\ \/ Continue(r, "context")
       \/ Refuse(r, 400)
    /\ UNCHANGED <<accounts, key, kind, sent, records, ghosts>>

\* A stream is answered 200 before Ollama is asked.
Context(r) ==
    /\ pc[r] = "context"
    /\ IF kind[r] = "stream"
       THEN Goto(r, "stream") /\ Answer(r, 200)
       ELSE Continue(r, "ask")
    /\ UNCHANGED <<accounts, key, kind, sent, records, ghosts>>

(***************************************************************************)
(* Ollama answers, and the usage is logged.                                *)
(***************************************************************************)
Ask(r) ==
    /\ pc[r] = "ask"
    /\ spent' = spent \cup {r}
    /\ Continue(r, "log")
    /\ UNCHANGED <<accounts, key, kind, sent, records, dead, owned, lost>>

StreamPart(r) ==
    /\ pc[r] = "stream"
    /\ sent[r] # "done"
    /\ \E more \in {"some", "done"} : sent' = [sent EXCEPT ![r] = more]
    /\ UNCHANGED <<accounts, pc, key, kind, answer, records, ghosts>>

StreamEndReturning(r) ==
    /\ pc[r] = "stream"
    /\ spent' = spent \cup {r}
    /\ Continue(r, IF sent[r] = "done" THEN "end" ELSE "log")
    /\ UNCHANGED <<accounts, key, kind, sent, records, dead, owned, lost>>

\* Ollama closes the stream, after a part with `done' or without one.
StreamEnd(r) ==
    /\ pc[r] = "stream"
    /\ spent' = spent \cup {r}
    /\ Continue(r, "log")
    /\ UNCHANGED <<accounts, key, kind, sent, records, dead, owned, lost>>

Log(r) ==
    /\ pc[r] = "log"
    /\ records' = [records EXCEPT ![r] = @ + 1]
    /\ Goto(r, "end")
    /\ Answer(r, 200)
    /\ UNCHANGED <<accounts, key, kind, sent, ghosts>>

(***************************************************************************)
(* The database, Qdrant or Ollama raises: 500, or a stream that breaks     *)
(* off.  Nothing is retried and nothing is recorded.                       *)
(***************************************************************************)
FailRecording(r) ==
    /\ pc[r] \in Authenticating \cup Serving
    /\ records' = [records EXCEPT ![r] = @ + 1]
    /\ lost' = lost \cup {r}
    /\ Refuse(r, IF answer[r] = 0 THEN 500 ELSE answer[r])
    /\ UNCHANGED <<accounts, key, kind, sent, dead, owned, spent>>

Fail(r) ==
    /\ pc[r] \in Authenticating \cup Serving
    /\ lost' = lost \cup {r}
    /\ Refuse(r, IF answer[r] = 0 THEN 500 ELSE answer[r])
    /\ UNCHANGED <<accounts, key, kind, sent, records, dead, owned, spent>>

\* The client of a stream leaves; the server cancels the generator.
Disconnect(r) ==
    /\ kind[r] = "stream"
    /\ pc[r] \in {"stream", "log"}
    /\ lost' = lost \cup {r}
    /\ Continue(r, "end")
    /\ UNCHANGED <<accounts, key, kind, sent, records, dead, owned, spent>>

Crash ==
    LET hit == {r \in Requests : pc[r] \in Authenticating \cup Serving}
    IN  /\ pc' = [r \in Requests |-> IF r \in hit THEN "end" ELSE pc[r]]
        /\ lost' = lost \cup hit
        /\ UNCHANGED <<accounts, key, kind, answer, sent, records, dead, owned, spent>>

(***************************************************************************)
(* Keys and accounts.  A key is created once, by a fresh uuid4, and no     *)
(* endpoint activates a revoked one.                                       *)
(***************************************************************************)
CreateKey(k) ==
    /\ keys[k] = "none"
    /\ keys' = [keys EXCEPT ![k] = "active"]
    /\ UNCHANGED <<lapsed, lastUsed, active, pc, key, kind, answer, sent, records, ghosts>>

RevokeKey(k) ==
    /\ keys[k] # "none"
    /\ keys' = [keys EXCEPT ![k] = "revoked"]
    /\ UNCHANGED <<lapsed, lastUsed, active, pc, key, kind, answer, sent, records, ghosts>>

Lapse(k) ==
    /\ keys[k] # "none"
    /\ lapsed' = lapsed \cup {k}
    /\ UNCHANGED <<keys, lastUsed, active, pc, key, kind, answer, sent, records, ghosts>>

SwitchUser(u) ==
    /\ active' = [active EXCEPT ![u] = ~@]
    /\ owned' = owned \cup {r \in Requests :
                              pc[r] # "idle" /\ Owner[key[r]] = u /\ active'[u]}
    /\ UNCHANGED <<keys, lapsed, lastUsed, pc, key, kind, answer, sent, records,
                   dead, spent, lost>>

Handle(r) ==
    \/ Arrive(r)
    \/ ReadKey(r)
    \/ ReadUser(r)
    \/ Touch(r)
    \/ Admit(r)
    \/ Resolve(r)
    \/ Context(r)
    \/ Ask(r)
    \/ StreamPart(r)
    \/ StreamEnd(r)
    \/ Log(r)
    \/ Fail(r)
    \/ Disconnect(r)

Next ==
    \/ \E r \in Requests : Handle(r)
    \/ \E k \in Keys : CreateKey(k) \/ RevokeKey(k) \/ Lapse(k)
    \/ \E u \in Users : SwitchUser(u)
    \/ Crash

Spec == Init /\ [][Next]_vars

-----------------------------------------------------------------------------
(***************************************************************************)
(* Properties                                                              *)
(***************************************************************************)
Served(r) == pc[r] \in Serving \/ answer[r] \in {200, 400, 429}

\* A key that was revoked or had expired when a request arrived serves it
\* nothing, even if another request read the key earlier and writes its
\* last_used_at later (get_api_key_user).
DeadKeysServeNothing == \A r \in dead : ~Served(r)

\* A request is served only if its user was active at some moment since the
\* request arrived: the account is read anew, whatever the key says.
DisabledUsersServeNothing ==
    \A r \in Requests : Served(r) => r \in owned

\* A usage record belongs to a request that Ollama answered to the end, and
\* there is one: refused, failed and abandoned requests are not billed.
UsageIsEarned ==
    \A r \in Requests : records[r] > 0 => r \in spent /\ records[r] = 1

\* A complete answer is accounted for, unless the client left, the database
\* failed or the backend stopped after Ollama had answered: a client that
\* closes a stream upon [DONE] may do so before the record is written.
AnswersAreAccounted ==
    \A r \in spent : pc[r] = "end" => records[r] = 1 \/ r \in lost
=============================================================================
