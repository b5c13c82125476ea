# UniversaLink: a TLA+ verification project

UniversaLink is a self-hosted gateway to local language models: a FastAPI
backend (`src/backend/app`) in front of Ollama, PostgreSQL, Redis and Qdrant,
with a browser portal, an administration UI, an OpenAI-compatible API, RAG and
an agent. This directory holds TLA+ models of the backend's stateful parts,
configurations that model-check them with TLC, and proofs that TLAPS checks.

Contents: [the system](#the-system), [the modules](#the-modules),
[the runs](#the-runs), [fairness](#fairness), [what is proved](#what-is-proved),
[divergences found](#divergences-found), [what is not modelled](#what-is-not-modelled),
[plan](#plan).

To check everything, in this directory: `tlc -config X.cfg MCX` for each
configuration of the directory, and `tlapm X_proofs.tla` for the eight modules
of that name.

## The system

The backend is one process with one event loop (a single uvicorn worker). A
request is a coroutine: atomic between two `await`s, and interleaved with every
other request at each of them. PostgreSQL runs at READ COMMITTED and no handler
uses `SELECT ... FOR UPDATE`, so what a handler commits may rest on a stale
read. `get_db` (`db/session.py`) gives each request one session and rolls back
what it has not committed when it raises. Nothing is resumed after a restart.

| component | state | operations | hard behaviour | what makes it correct |
|---|---|---|---|---|
| Sessions (`routers/auth.py`, `core/session.py`, `routers/portal.py`) | `refresh_tokens`, `users.is_active` | log in, register, refresh (rotate), log out (three ways) | a refresh reads `revoked`, awaits the user, then commits; logout races with it; one logout swallows errors | rotation never leaves the parent usable; one successor unless requests overlap; logout ends the session; inactive users get none |
| Accounts (`routers/users.py`, `admin_ui.py`, `portal_settings.py`, `services/bootstrap.py`) | `users`, `admin_audit_logs`, password reset tokens | register, create, toggle, patch, change and reset a password, bootstrap | check-then-insert on the email, toggles that negate what they read, columns the ORM leaves out of the UPDATE, restarts with another `.env` | one account per email, an audit log that agrees with the rows, authority and proof held while the request ran |
| Rate limiter (`services/rate_limit.py`, `deps.enforce_rate_limit`) | a counter per key and window in Redis | `allow` | clock, INCR and EXPIRE are three awaits; Redis fails or loses answers; restarts | exact fixed windows, no counter that stays for ever |
| API keys and `/v1` (`deps.get_api_key_user`, `routers/openai_compat.py`) | `api_keys`, `usage_records` | authenticate, list, complete, stream, embed; create, revoke and expire keys | two SELECTs and a COMMIT before service; the record of a stream comes after its last byte | dead keys and disabled users are served nothing; what is answered is billed once, nothing else is |
| Agent (`agents/graph.py`, `agents/__init__.py`, `routers/agents.py`) | the graph's state, `tool_permissions` | offer tools, ask the model, run calls; invoke a tool directly | permissions change between offer and call; unknown tools; the model never stops; LangGraph's own limit | only permitted tools run, each call is answered in order, every run ends |
| RAG (`routers/rag.py`, `services/rag.py`) | `document_collections`, `documents`, Qdrant's collection and points, files | create a collection, upload, index a path, cut a text, delete | three stores without a transaction; deletes during indexing; crashes; overlapping chunks | no orphaned points or files but for named causes; indexed means searchable, by every part of the text; a deleted document stays deleted |
| Bridge and resolution (`routers/ollama_bridge.py`, `services/ollama.py`) | `_capabilities_cache` | resolve `auto`, look capabilities up, strip tools, list tags, show | up to six calls of Ollama, whose inventory changes in between; names without a tag; a cache without expiry | `auto` is servable, tools go to models that could use them |
| Model registry (`services/models_sync.py`, `routers/admin.py`, `admin_ui.py`) | `model_registry`, Ollama's inventory | list, sync, pull, delete, warm | effects in Ollama that no rollback undoes; two syncs insert one name | the audit log tells what was done; what was pulled is registered |
| Connection pool (`db/session.py`) | 30 connections | begin, commit, close; health reports take a second one | hold-and-wait; exhaustion | none is lost, everyone ends |
| Chats (`routers/chats.py`), settings (`routers/admin.py`, `admin_ui.py`) | `chats`, `messages`, `platform_settings`, `admin_audit_logs` | create, add a message, archive; upsert by two routes, with a seed at startup | a row read and written in one transaction that locks nothing; a refresh after the commit that may fail | titles come from an opening message, nothing committed is undone, doubled messages have a cause |
| Tools, mail, security primitives, templates, admin frontend, deployment | none of their own | I/O, cryptography, layout | - | not modelled |

Interactions: `Accounts` decides who is active; `Sessions`, `Completions` and
`Accounts` itself read that. `Completions` passes the limiter of `RateLimiter`.
`AgentLoop`, `RagIndex`, `Bridge` and `ModelAdmin` call Ollama; `Bridge` sees
the models that `ModelAdmin` pulls and deletes. All share the pool of
`ConnPool`; `Records` composes it with the handlers of chats and settings. Each
module represents its neighbours by the nondeterminism they can show it, stated
where the module declares the action.

## The modules

Conventions. A handler is a program counter per request; each `await` whose
result matters (SELECT, COMMIT, Redis command, call of Ollama) ends a step.
Consecutive code without an await, including synchronous Qdrant and file
calls, is one step. Variables named as history are written for the properties
and read by no action. Names are model values; what distinguishes two
strings in the code (an embedding model, a standing-in tag, an alias `auto`) is a
set or a constant function. Operators such as `RefreshReadExpiryOnly`, placed
before an action, are variants of it with a plausible bug; no specification
uses them, and each property below is violated when its action is replaced by
one (`PROJECT.json`, "mutants").

**Sessions.** `owner`, `revoked` and `expired` are the table. `LoginRead` /
`IssueSession` are the two halves of the logins and of registration;
`RefreshRead`, `RefreshReadUser`, `RefreshCommit` are `refresh_token`, whose
commit revokes the old row and inserts the new one; `LogoutRead` and
`LogoutCommit` are the three logouts; `Abort` is an error at any await, which
the JSON logout swallows. Access tokens are stateless JWTs and not tracked.

**RateLimiter** and **FixedWindow.** `ReadClock`, `Incr`, `SetExpiry` are the
lines of `allow`; each Redis command can fail before or after it took effect
(`IncrFails`, `IncrAnswerLost`, `SetExpiryFails`, `SetExpiryAnswerLost`), in which case the limiter lets the request
through, as the code does. `FixedWindow` is the abstract promise: in each
window the first `limit` requests are served, a place may be spent without
service, and the rest are refused. A request counts towards a window
if its INCR lands while the window lasts; one that lands later is answered
against the counter it names, and no promise is made about it.

**AgentLoop.** `ListTool` reads the permissions one at a time; `Answer` is any
answer of the model, with unknown and unoffered tools; `CheckCall` and `RunTool`
are `AgentRuntime.invoke`; `OutOfSteps` is LangGraph's `GraphRecursionError`.
`Invoke` and `Direct` are `POST /tools/invoke`, which passes the same gate
without a model.

**RagIndex** and **DocumentLife.** `InsertCollection`, `EnsureCollection` and
`EnsureRaises` create the collection: its row first, then Qdrant's. One
submission per document (ids are fresh UUIDs) runs `StoreFile`, `InsertRow`,
`RefreshRow`, `Chunk`, `Cut`, `Embed`, `Upsert`, `CommitStatus`; deletes run
`DeleteRead`, `DeletePurge`, `DeleteCommit`. Every external step can fail, a Qdrant
call with or without effect. A text is the interval of its positions:
`Cut` is one turn of the loop of `chunk_text`, which awaits nothing, so no other
step is taken while a text is being cut (`LoopIsFree`); if `CHUNK_OVERLAP >=
CHUNK_SIZE` the loop never ends and the process with it. `DocumentLife` is what
the listing of a collection promises of a document: it appears as
`processing`, is settled once, and once deleted is gone for good. `RagIndex`
implements it (`Life == INSTANCE DocumentLife WITH status <- Shown`,
`LifecyclePromise`), where `Shown` takes a missing row for `gone` only after
a delete.

**Completions.** `ReadKey`, `ReadUser`, `Touch` authenticate; `Admit` is the
limiter with either answer (the promise of `RateLimiter` is not needed for the
properties here); `Resolve`, `Context`, `Ask`, `StreamPart`, `StreamEnd`, `Log` serve. `Disconnect`
cancels a stream, also after its last byte.

**Accounts.** One handler program for all kinds of request (`Operations`):
`May`, `Authenticate`, then `CheckEmail` / `Insert`, or `ReadTarget` /
`CommitToggle` / `CommitPatch` / `CommitPassword`, or `OpenLink`. `CommitPatch`
writes a column only if the row as read differs, as SQLAlchemy does. `Boot`
is `bootstrap_admin`; `Stop` is a recreation of the container, possibly with
another `ADMIN_PASSWORD`. A reset link is a signed token of which no row is kept: it can be
followed as often as one likes until it expires, although the text shown with
a logged one calls it one-time (`portal_settings.py:219,224`).

The only order of audit records is `created_at`, which is `now()`: in PostgreSQL
the time when the transaction began, that is when the handler read its caller's
row. `log` is therefore what the record with the latest beginning says, for
each column, and not what the last commit said. `elder[q]` has the handlers
for the same account whose transaction began before that of `q`; when `q`
commits a record, `Tell` marks its columns as told of since for each of these
(`later`), whose own record of them, committed after, is not the newest.

**Bridge.** `Ask`, `PickLoaded`, `PickSmallest`, `PickDefault`, `PickAny` are
`resolve_chat_model` with its fallbacks; `ReadCache`, `ReadTags`, `ShowModel`
and `AssumePlain` are `_capabilities_for`; `ShowAuto` is `/api/show` for `auto`,
which asks for them if Ollama's answer has none. `Kinds` are the routes: chat with
tools, generation, `/api/tags` and `/api/show`. A model is a tag (`llama:3b`);
`Base` gives the name without it, which `_names_match` takes for every tag of
that name (`Matching`) and Ollama for one of them (`Denoted`).

**ModelAdmin.** `Pull` and `Delete` are Ollama's effects; `ListModels`,
`ReadRow`, `WriteRow`, `Conflict`, `CommitSync` are `sync_local_models`, whose
INSERTs the ORM sends when the next SELECT or the final flush makes it;
an INSERT waits while another transaction holds the name and fails when
that commits. `Pick`, `PickAny`, `PickEmbedding`, `Resolve`, `Load` are the two
warm-ups. A request uses one of `Names`: a tag, or a bare name such as the
default `EMBEDDING_MODEL`. Ollama takes a name for one tag (`Tag`), which is
what it pulls, lists and deletes, and what the registry then has; the audit
record keeps the name as it was given. `StandIns` says which tags
`resolve_installed` accepts for a name that is not installed as it stands; the
second look inside `warmup` may choose one, and the log then keeps the name that
was handed to `warmup`, as the code does. `EmbeddingModels` are the tags with
`embed` in them, of which there may be several.

**ConnPool** and **Records.** A session checks a connection out with the first
statement of a transaction and back in at commit or close. The three health
reports take a second one from the engine. Both waits end in the pool's
timeout. `ConnPool` has these steps without a specification of its own;
`Records` EXTENDS it and adds what the handlers of chats and settings do to
the rows meanwhile: `Authenticate`, which begins the transaction, `ReadRow`, then `CreateChat`, `AddMessage`, `ArchiveChat` or
`UpsertSetting` at the commit (`Save`), then, where the code calls
`db.refresh`, a second transaction (`RefreshRow`, `Answer`). The ORM writes only
the columns the handler changed, and a value equal to the one that was read is
no change. Audit records are ordered as in `Accounts`: `elder` has the requests for
the setting that began before, and `overtaken` those that will commit a record
that is not the newest. A client sends a text again only if it was told of a failure
(`Sendable`); the code has no key by which to recognise it.

Abstract specifications: `FixedWindow`, implemented by `RateLimiter`, and
`DocumentLife`, implemented by `RagIndex`; both refinements are stated with
`INSTANCE ... WITH`, checked as properties and proved.

## The runs

| run | asks | instance and why it is enough |
|---|---|---|
| sessions | `OneSuccessor`, `OnlyActiveUsers`, `LogoutEnds` | two overlapping requests (every race of the code is between two), three tokens: a chain of two rotations, or a fork; one user, since no property relates two users. Deadlock is checked: a request slot is always reusable |
| rate_limiter | `PlacesAreExact`, `NoLeakedCounter`, `FixedWindowPromise` | four requests: two more than the larger limit, so that late and refused ones coexist; windows of two ticks, two of them, so that a request can cross the boundary and a key can expire |
| agent_loop | `RunsOnlyPermitted`, `EveryCallAnswered`, `NeverSilent`, `RunEnds` | two tools and an unknown name, two calls per answer, up to three answers; LangGraph's limit of 4 supersteps lies between the need of two (3) and of three answers (5), so it both bites and does not |
| agent_recursion_limit | `StopsAtMaxIterations` (violated) | the real limits, 20 and 25, with one tool |
| rag_index | `OrphansNeedOverlap`, `IndexedIsSearchable`, `ChunksAreBounded`, `MissingHoldsNothing`, `StuckOnlyIfInterrupted`, `StrayFilesExplained`, `LifecyclePromise` | two documents (they share the collection), two deletes, which may hit one document; texts that are blank or of five positions, chunks of two, so that a text needs several, and an overlap below the size of a chunk or equal to it; `CutBound` stops the count of chunks where a loop that never ends repeats itself |
| completions | `DeadKeysServeNothing`, `DisabledUsersServeNothing`, `UsageIsEarned`, `AnswersAreAccounted` | two requests, two keys of one user |
| accounts | `OneWinnerPerEmail`, `AuditTellsTheState`, `OnlyAdminsChange`, `PasswordsNeedProof` | two handlers out of ten operations on two emails: both can be administrators and act on each other, and one can authenticate, be overtaken by the whole of the other and then read. One value of `ADMIN_PASSWORD`: no property of this run is about its rotation |
| admin_rotation | `RotationTakesEffect` (violated) | the same, with two values of `ADMIN_PASSWORD` |
| bridge | `AutoIsServable`, `ToolsNeedSupport`, `StripsAreExplained` | two requests, made once each, fill the cache for two tags of one chat model (one of them the smaller and the default, the other what Ollama takes the bare name for) and an embedding model that must not be picked; the inventory changes up to twice (`ChangeBound`) beyond its initial value, which is any: enough to remove what was picked and replace what was looked up |
| bridge_cache | `SupportedToolsAreKept` (violated) | the same |
| model_admin | `AuditIsExact`, `PulledIsRegistered` | two handlers; the default model, a tag it can stand in for, and the embedding model, under its tag and under the bare name of the settings. A second tag of the embedding model is covered by the proofs |
| records | `ConnectionsAccountedFor`, `TitleIsOpening`, `DuplicatesExplained`, `SettingAudited`, `NothingIsUndone`, `RequestsEnd` | two connections for two reports, so that the reports alone can hold all of them, and two writers of up to two transactions each: every race on a row is between two, and two texts and two values suffice to tell them apart. A third writer is covered by the proofs |

Each module has a type invariant `TypeOK` (`ConnPool` has
`ConnectionsAccountedFor`, `DocumentLife` and `FixedWindow` are typed by what implements
them). It also ties program counters to what their step relies on, for example
that a token being presented has a row; the limiter's is `LimiterTypeOK`. In `Sessions`, `RateLimiter`, `AgentLoop`,
`Completions` and `Records` it is a theorem and not a property of a run, as are
`SuccessorSpendsParent` and `WithinMaxIterations`.

What the properties mean, and what they concede:

- `OneSuccessor` excepts tokens presented by overlapping requests: two
  simultaneous refreshes do fork a session, as nothing locks the row.
- `OrphansNeedOverlap`, `StuckOnlyIfInterrupted`, `StrayFilesExplained` name the
  only causes of disagreement between the stores. `index_git_path` has no
  error handler, hence its exception in the second.
- `LogoutEnds` excepts the same tokens: a session outlives its logout if a refresh of
  the token overlapped it, or overlapped another refresh before.
- `AuditTellsTheState` excepts a column whose last writer overlapped with another
  handler for the account and was overtaken (a record of the column began after its own and was
  committed before), or was a PATCH to the value it had read, changed
  meanwhile (the ORM then leaves the column out); and a role that does not
  exist, which `users_create` stores as `user` but logs as given. Neither
  excuse is there without the overlap, and the next record in order ends it.
- `OnlyAdminsChange` and `PasswordsNeedProof` do not look beyond the check: a
  demotion or the expiry of a link between it and the commit is too late, and a
  link that was used before is still proof.
- `AnswersAreAccounted` excepts clients that leave upon the last byte; the record
  is written after it, and what becomes of it then nothing promises.
- `FixedWindowPromise` concerns requests counted while their window lasts.
- `IndexedIsSearchable` excepts a document whose delete has begun and not
  completed (`purged`), and `ChunksAreBounded` a configuration with
  `CHUNK_OVERLAP >= CHUNK_SIZE`, which the settings do not refuse.
- `MissingHoldsNothing` says what a failed `create_collection` may leave: a
  row without Qdrant's collection, whose documents cannot be deleted until one of
  them has been indexed.
- `ToolsNeedSupport` and `StripsAreExplained` count any variant of a bare name,
  since `_names_match` does; the variant Ollama serves may be another. They speak of
  what a model could do at some time since the start: a tag that is pulled
  again and has become another model is not looked up again.
- `TitleIsOpening` lets the later of two opening messages name the chat, and
  takes a text that reads `New chat` out of account.
- `DuplicatesExplained` excepts texts that were saved and not acknowledged;
  `SettingAudited` excepts, where two transactions for the setting overlapped, a last
  writer that was overtaken, as in `AuditTellsTheState`, or that asked for the value it had
  read, which was left out as no change.
- `AuditIsExact` allows a warm-up to log a name for which a stand-in was loaded,
  and a pull or a delete to log a bare name for its tag.
- `DeadKeysServeNothing` and the like speak of a state "at some moment since
  the request arrived", the strongest claim a check without a lock allows.

Configurations with `CHECK_DEADLOCK FALSE` are those in which the model's
requests are finite in number and the system may simply be done; `ModelAdmin`,
`RagIndex`, `Accounts` and `Completions` also have stoppable environments.

Symmetry is used for interchangeable requests, documents, keys, tokens and
users, in runs without liveness properties only.

## Fairness

`AgentLoop!FairSpec` has weak fairness of each run's next step: every
call of Ollama and of a tool has a timeout in the code. Raising is a step of
its own that is never forced: an awaited call answers or raises. No
fairness is assumed of permission changes, nor that the model ever
stops asking for tools. `Records!FairSpec` has weak fairness of each
request's next step: statements and calls are answered or time out, and so
does a wait for the pool (SQLAlchemy's default of 30 s; the engine sets none
of its own). It assumes that PostgreSQL answers its statements, for which the
code sets no timeout. All other modules state safety only.

## What is proved

TLAPS proves the following for every value of the constants that meets the
modules' assumptions.

`Sessions_proofs`: `TypeCorrect`, `RotationSpends` (`SuccessorSpendsParent`),
`RotationIsLinear` (`OneSuccessor`), `SessionsNeedActiveUsers`
(`OnlyActiveUsers`) and `LogoutIsFinal` (`LogoutEnds`), for any users,
identifiers and number of requests, and `SessionsAreSingle`. `OneSuccessor` is not inductive: the
invariant `Inv` adds that two requests presenting the same token are both
marked as overlapping, that an unmarked token in the middle of a rotation is
not revoked, and that an unrevoked token has no successor. So an unmarked
token can be rotated only once. `LogoutEnds`, an action property, needs that a revoked or
expired token stays so, and again that an unmarked token which is being
rotated is not revoked: a revoked one then gets no successor. The assumption
`FiniteJtis` is used for cardinalities. `SessionsAreSingle` goes from one rotation to
a session, that is a login's token with all that were rotated from it, directly
or not: unless two overlapping requests presented a token of it, it has at most one
unspent token. What a token descends from is a matter of many steps, and a
recursive definition is out of the provers' reach; the invariant `Lineage`
therefore speaks of every map `f` that takes each token to the one its session
began with (`Begins`), and says first that there is one. The step that matters is the
commit of a rotation: the new token was alone in its session before, so undoing
the step in `f` gives such a map for the state before it.

`Gateway_proofs`, about the limiter: `TypeCorrect`, `LimitIsExact` (`PlacesAreExact`),
`LeaksOnlyOnFailure` (`NoLeakedCounter`) and `Implements`
(`FixedWindowPromise`), for any identities, limits, window length, horizon and number
of requests. The invariant `Inv` says that the counter of the current window is the
number of requests counted in it (`InStep`); that no key of the current window
expires before its boundary (`Outlives`: an EXPIRE is sent no earlier than the
window began and lasts as long as a window), without which a counter could
restart at zero inside its window; that counters of later windows are untouched
and no request is ahead of the clock; and that no more were served than taken.
Each step then maps to `Serve`, `Refuse`, `Spend` or a stutter of `FixedWindow`.

`Gateway_proofs`, about `/v1`: `ApiTypeCorrect`, `DeadKeysAreRefused`
(`DeadKeysServeNothing`), `DisabledUsersAreRefused`
(`DisabledUsersServeNothing`), `BilledOnce` (`UsageIsEarned`) and
`NothingUnbilled` (`AnswersAreAccounted`), for any users, keys and requests.
`ApiInv` adds that a request with a dead key is never past the SELECT of the key
(`Barred`, which rests on keys never being activated again), that an account
which is active when it is read was active since the arrival (`Admitted`), and
where a request is when it is spent and recorded (`Billed`).
The two modules share no name, so that one can extend both (`LimiterSpec`, `Spec`); the
two groups of theorems do not use each other.

`AgentLoop_proofs`: `TypeCorrect`, `PermissionIsChecked` (`RunsOnlyPermitted`),
`CallsAreAnswered` (`EveryCallAnswered`), `IterationsAreBounded`
(`WithinMaxIterations`) and `RepliesAreNotLost` (`NeverSilent`), for any tools,
roles, number of runs, length of answers and limits. `Inv` adds how many graph nodes a
run has executed at each point of the loop (`Counted`), that nothing is pending while
the model is asked (`NonePending`, which makes `asked` equal `traces` there), and
that a call which is permitted now has been noted as permitted (`Noted`).
`RunsAreShort` is the part of `RunEnds` that needs no fairness: each step of a
run, an error included, lowers its `Rank`, a natural number of at most `Longest`
made of the answers it may still get, the calls pending, the permissions to be
read and its place in the loop; and whatever else happens leaves it where it is.
So a run that goes on comes to an end. That it goes on is left to TLC.

`RagIndex_proofs`: `TypeCorrect`, `NoOtherOrphans` (`OrphansNeedOverlap`),
`IndexedIsFound` (`IndexedIsSearchable`), `CuttingIsBounded`
(`ChunksAreBounded`), `MissingIsHarmless` (`MissingHoldsNothing`), `UploadsSettle`
(`StuckOnlyIfInterrupted`), `NoOtherStrayFiles` (`StrayFilesExplained`) and
`ImplementsLife` (`LifecyclePromise`), for any documents and deletes, texts of any
length and any size and overlap of chunks. `Inv` has two halves, which the
actions disturb separately. `Flow` adds that nobody knows a document before it
has a row (`Unknown`); that a delete which found the document settled finds it
so until it commits (`Quiet`), whence nothing comes between its purge and its
commit (`Purged`); that a document whose row went during indexing was
overlapped and has no file (`Overtaken`); and that an upsert has its collection
(`Upserted`). `Slices` says that the chunks cut so far hold the text up to the start
of the next one and are no more than that is long (`Sliced`), from which the
whole text is covered when the loop ends. For `ImplementsLife` a step changes
what is shown of at most one document, each change being one of `DocumentLife`.

`Bridge_proofs`: `TypeCorrect`, `AutoResolves` (`AutoIsServable`),
`ToolsAreSupported` (`ToolsNeedSupport`) and `StripsHaveCauses`
(`StripsAreExplained`), for any tags, names, requests and any number of changes
of the inventory. `Inv` adds that the history has what Ollama can do now and that a
request at work has seen what is there (`Recorded`); that every entry of the
cache is what a tag it stands for could do, or is due to a lookup that learned nothing
(`CacheIsExplained`), which is what makes concurrent lookups harmless; and at which
point of a request its model and tools are known (`Staged`).

`Records_proofs`: `TypeCorrect`, `TitlesOpen` (`TitleIsOpening`),
`SettingsAreAudited` (`SettingAudited`), `DuplicatesAreExplained`
(`DuplicatesExplained`) and `NothingUndone` (`NothingIsUndone`, an action
property), for any number of requests, connections, texts and values. `Inv` says
how the row in a handler's hand relates to the table it is about to write
(`Informed`): a title it saw is still one, and if it saw the default title, no
user message was there when it read; that a failed request whose message is
stored had been saved (`Stored`); and that of two requests with one text
one failed (`Resent`). Of the audit records it needs (`Ordered`) that of two requests for
the setting at work one is the elder of the other, so that the last to commit
either began last or is `overtaken`; and that only where two have been so
can a value read be an older one. The pool has an invariant of its own, `PoolInv`, which gives
`PoolBalances` (`ConnectionsAccountedFor`): what a request holds follows from where it is
(`Holding`), and each check-out adds one pair of request and connection to `CheckedOut`
and takes one connection from `free` (`Balance`). This uses the assumption that
the requests are finitely many. `RequestsAreShort` is to `RequestsEnd` what
`RunsAreShort` is to `RunEnds`: no request takes more than twelve steps, which
needs `Holding` too (one that gives up waiting has transactions left).

`Accounts_proofs`: `TypeCorrect`, `EmailsAreUnique` (`OneWinnerPerEmail`),
`AuditIsTrue` (`AuditTellsTheState`), `AdminsOnly` (`OnlyAdminsChange`) and
`ProofIsNeeded` (`PasswordsNeedProof`), for any emails, passwords, reset tokens,
operations and number of handlers. `Inv` says that a handler is where its kind
of operation takes it and none runs while the backend is down (`Placed`, whence
the row that `bootstrap_admin` makes surprises nobody); that rows do not go,
so the row a handler is about to change is there (`Present`); that nothing is
logged of an email without a row (`Unborn`), which the log of a new account
rests on; that two handlers which administer one account at a time have met, and
that nobody else is overtaken (`Rivalry`); that for a handler that has met none the
row is as it read it (`Seen`), so that its PATCH leaves out no column that
has changed; and that whoever is an active administrator, or could prove an
account its own, has been noted (`Noted`), which makes the check against the
row as read an instance of "at some moment since the request arrived". A handler
either ends (`EndInv`), goes on (`AdvanceInv`) or commits one row (`CommitInv`); the
lemmas about the actions reduce each to one of the three.

`ModelAdmin_proofs`: `TypeCorrect`, `AuditsAreExact` (`AuditIsExact`) and
`PullsAreRegistered` (`PulledIsRegistered`), for any models, names, stand-ins and number of
handlers. `Inv` adds, per request, that what it is about to tell is what Ollama
has done for it so far, or for a warm-up that the two correspond one to one or
by a stand-in (`Honest`), so that the record is right when it is written
(`Logged`); and where a pulled model is on its way into the registry (`Tracked`): still
installed, to be looked up, to be inserted, inserted by this request and not
committed, or committed, unless it was deleted meanwhile. Only the last part is
disturbed by other requests; `StillInv` says what they may do to it (`Spared`), and
the lemma of each action shows that it does no more.

Only model-checked: the two liveness properties, `RunEnds` and `RequestsEnd`, of which
the ranks above prove the half that does not depend on fairness. `Lineage` has no run
of its own; TLC found it true on the instance of `sessions`, and violated there without
the condition on overlapping requests.

## Divergences found

- `agent_recursion_limit`: a request may set `max_iterations` to 20, but
  `run_agent` leaves LangGraph's recursion limit at its default of 25, and the
  13th answer already exhausts it. The run fails with 502 instead of stopping.
- `admin_rotation`: the documented rotation of secrets sets a new
  `ADMIN_PASSWORD` and recreates the backend, but `bootstrap_admin` leaves an
  existing administrator's password alone.
- `bridge_cache`: a failed capabilities lookup is cached as `completion` for the
  life of the process, so later requests lose their tools although the model
  supports them.

## What is not modelled

- Cryptography (bcrypt, JWT, key hashes): tokens, keys and passwords are
  abstract values that cannot be guessed.
- The result of individual agent tools and of a completion: any result is
  allowed.
- Sizes, dates, display names and other columns no control depends on; the
  wording of pages and errors; request logging.
- Usage reports, health and audit listings, a search in Qdrant: reads, without
  a property that relates two pieces of state. The connections a health report
  holds are in `ConnPool`.
- More than one backend process: the deployment runs one. Between two awaits
  nothing else runs, and several modules rely on it.
- SMTP, the frontend, nginx, compose files and operator scripts, but for
  the restart and changed `.env` of `Accounts`.
- `ADMIN_EMAIL` with capital letters (every other handler lowers emails).

## Plan

Order of work: first what decides access (Sessions, RateLimiter, Accounts,
Completions), then what runs in many steps (AgentLoop, RagIndex), then the
models' side (Bridge, ModelAdmin), then the shared resource and the rows behind
it (ConnPool, Records). These are written and checked. Left, in this order:

1. The limiter and `/v1` together: `Completions` takes either answer of the limiter,
   and a composition would bound what reaches Ollama by the windows' limits.
2. `Accounts` with `ADMIN_EMAIL` in a case of its own, which `bootstrap_admin`
   stores as it is while every other handler looks emails up in lower case.
3. `RequestsEnd` for the requests of the agent and of indexing, which hold a
   connection for as long as their calls of Ollama take.
