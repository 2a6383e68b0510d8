# TLA+ models of Mottainai-IA

Specifications, model-checking configurations and proofs for the parts of this
repository whose correctness depends on the order in which concurrent requests,
crashes, lost replies, expiries and deadlines happen. Everything is written from
the code under `app/`, `interfaces/` and `config/`; `PROJECT.json` maps every
definition to the lines it stands for.

## The system

Mottainai-IA is a FastAPI service (`interfaces/api/main.py`) in front of four
stores: PostgreSQL (the operational stock), its analytical copy with published
snapshots, MongoDB (conversations, knowledge base, records) and Redis (retry keys,
budgets, revocations, markers, caches). A chat message runs through a LangGraph
graph; the stock routes run one transaction each; the predictive engine has a
route of its own. Several workers may run the same code, so every `await` is a
point where anything else may happen.

| Part | Code | State | Operations | What makes it correct |
|---|---|---|---|---|
| Idempotent writes | `app/cache/idempotency.py` | Redis: result key and lock per retry key | `run_idempotent` | one writer per key, one write in effect per key, true answers, no uncertainty behind a free key |
| Inventory writes | `app/tools/postgres_tools.py`, `app/database/postgres.py` | rows of `inventory`, `inventory_movement`, row locks | `discard_batch`, `receive_inventory` | no lost update, the ceiling holds at the commit |
| Write routes | `interfaces/api/main.py` | none of their own | `descartar_lote`, `receber_mercadoria` | a key moves the stock once; the status code says what happened |
| Chat sessions | `app/memory/short_term.py` | `conversations`, `messages` | create, resume, expire, save, renew, close | owner's messages only, question before answer, messages missing only where the session has ended |
| Provider pacing | `app/agents/runtime.py` | `_provider_ready_at`, `_provider_lock` | `ProviderRunnable.ainvoke` | Retry-After respected, every call ends |
| Knowledge base | `app/rag/ingestion.py`, `retriever.py` | `rag_documents`, `rag_chunks`, Redis cache | upload, delete, retrieve | answered uploads are whole, deleted documents are forgotten, audiences and companies are separate |
| Chat pipeline, Judge, guardrails | `app/agents/supervisor.py`, `juiz.py`, `app/guardrails/`, `main.py` `/chat` | the graph state, records | nodes, routing, saves, background records | nothing unapproved leaves, every turn is answered, records tell the truth |
| Domain agents, native tool loop | `app/agents/funcionario.py`, `dono.py`, `rag_chat_base.py`, `runtime.py`, `tools_bridge.py` | tool runs | fan-out, bounded tool rounds | no call outlives its turn; the Judge is shown the data the model consulted |
| Intent catalogue | `app/agents/intent_catalog.py` | process cache | look-up with fallback | an edit never leads a role to another's agent |
| Authentication, revocation, certificates | `app/security/auth.py`, `firebase_auth.py` | deny list in Redis, certificate cache with a lock | verify, log out, refetch | logged out means refused, withdrawn keys die, nobody waits for ever |
| Operational identity | `app/database/identity.py`, `auth.py` | the account in PostgreSQL | resolve, revalidate, context of a transaction | whoever acts is allowed to at that moment |
| Rate limiting | `app/cache/rate_limit.py` | sliding window per budget | check | at most `limit` admissions per window |
| MCP and A2A | `app/integrations/mcp_a2a.py`, `main.py` | none | `mcp_expose_tool`, `dispatch_a2a` | bound to the configured company and account; refusals are replies |
| Predictive engine | `app/agents/motor_preditivo.py`, `app/analytics/forecasting.py`, `app/tools/analytics_tools.py` | published snapshots | consultations, forecast, weather, model | an analysis mixes days no further than what is published while it runs; only data, model and deadline break it |
| Alert webhook | `app/notifications/alert_webhook.py` | marker per alert | look up, send, mark | no silenced alert was undelivered, repetitions have a cause |
| Tool runs and observability, long-term memory, governance audit | `app/observability/`, `app/memory/long_term.py`, `app/agents/governanca.py` | records | | modelled where a chat turn writes them |
| Notifications, skills, shelf analysis, pool, configuration, scripts | | | | see "Not modelled" |

How they interact: every route authenticates (token, deny list, account) and the
costly ones take from a budget. The write routes call `run_idempotent` with a
callback that is one inventory transaction, and the transaction goes on in
PostgreSQL if the worker is gone. A chat turn resumes a session, routes by the
intent catalogue, fans out queries, asks the model through the pacing layer, has
the answer judged and saves two messages; after the reply its records are
written. The predictive engine reads one published snapshot per consultation and
notifies the webhook in the middle of an analysis. The conversation documents,
the provider clock, the Redis keys, the certificate and intent caches and the
account are what concurrent requests share.

The hard behaviours are listed as `hazards` in `PROJECT.json`, each at its line
and with the properties that would catch it going wrong.

## Modules

| Module | Stands for | Composed of |
|---|---|---|
| `AtMostOnceWrites` | what the retry keys promise: `applied`, `forgotten`, `answer` | |
| `Idempotency` | `run_idempotent`, one action per await | implements `AtMostOnceWrites` |
| `InventoryWrites` | the two stock transactions, one action per statement | |
| `WriteEndpoints` | the two routes | extends `InventoryWrites`, with an instance of `Idempotency` |
| `Sessions` | conversations and chat turns, one action per MongoDB call | |
| `ProviderPacing` | `ProviderRunnable.ainvoke` | |
| `RagKnowledge` | uploads, deletions, reads and the cache, one action per call | |
| `ChatTurn` | `POST /chat`: graph, agents, tools, Judge, replies, records | |
| `Access` | tokens, certificates, budgets, accounts, service tokens | |
| `PredictiveEngine` | the analysis, its snapshots, its forecast, the webhook | |
| `IdempotencyProofs`, `WriteProofs`, `PacingProofs`, `SessionsProofs`, `RagProofs`, `ChatProofs`, `AccessProofs`, `EngineProofs` | theorems | each extends the module it is about |
| `MC*` | instances for TLC | extend the module they name |

Definitions that begin with "Bug:" in their comment are the mutations named in
`PROJECT.json`. They are not part of any next-state relation; each stands beside
the definition it damages and shows what the property next to it protects from.

### Idempotency

`pc` is the place in `run_idempotent`: `lookup` (first GET), `acquire` (SET NX
without expiry), `relookup` (GET after a failed acquisition), `recheck` (GET under
the lock), `write` (the callback), `store` (SET with TTL), `release`. `cache` and
`lock` are the two Redis keys of a scoped key; `db` is the transaction of the
callback, which commits or rolls back in the database on its own, also after the
call was aborted. A stored result is represented by the call whose write it
reports.

Interruptions: `Abort` is an exception that nothing handles (Redis failure
without effect, unknown database error, serialization error, cancellation,
crash); `LostAcquire`, `LostStore` and `LostRelease` are commands that took effect
although the caller got an error. `Expire` is the TTL. `RestoreResult` and
`RemoveLock` are the reconciliation by the operator: it acts on a key only when
the execution that holds the lock has ended here and in the database, restores
the result of a committed write and only then removes the lock. These two are
external. Redis eviction and data loss are excluded; the module docstring of
`idempotency.py` excludes them too.

`lapsed` is a history variable: a write whose result has reached its TTL no longer
blocks a later one with the same key, and the properties say so.

### InventoryWrites

`stage` is the statement a call is about to execute. `FindInventory` takes the row
lock, reads the balance and applies the ceiling in one step, as nothing is
awaited between the answer of the SELECT and the comparison. `UpdateInventory` is
`fn_atomic_update_inventory`, a function of the database that this repository only
calls: it adds the delta to the row as it is, and raises instead of leaving less
than nothing (external). The commit is two steps, sent and executed, because a
connection may break in between. `Fail` covers a failed or timed out statement,
also while it waits for the row. The two INSERTs of a disposal are kept as steps,
without their rows: they commit or vanish with the movement.

### WriteEndpoints

The state is that of the transactions with, for the calls, the variables of
`Idempotency` beside it. `db` of `Idempotency` is no variable here but computed from
the `stage` of the callback's transaction: an error and a rollback both leave
nothing. `RunsIdempotent` states that under this reading every step of the routes is one
of `Idempotency`, or invisible to it. `BeginCallback` joins the recheck with the start of the
transaction, `CallStep` lets a `refused` callback (ValueError, PermissionError)
release the lock and `CallbackError` leaves it behind for every other error.
`Abandoned` is the rollback of a transaction whose call is gone.

### Sessions

One read of `get_or_create_conversation` decides whether a turn creates, resumes,
expires or is denied; the write that follows is a later step. `save_message` is
find, insert, renew, twice per turn, and the long-term memory is updated after it. `Abort` may end a turn anywhere (guardrail or
provider error, chat timeout, MongoDB error). `role` tells which of the two
messages is being saved. `stamp` is the `now` read before a write
or, when a conversation is created, before the read that finds none.

### ProviderPacing

Time is discrete. With `Groq` the calls share the lock from before the wait to the
last retry. `attempt` computes the delay from `_provider_ready_at` once; after the
sleep the request is sent without another look. `Tick` cannot pass a due deadline:
the event loop fires it. Retry-After values and token costs are small sets; the
jittered backoff is one unit of time (any longer one also starts with
`now >= wakeAt`). `announced` is a history variable: the latest time any 429 asked
to wait for.

### RagKnowledge

A document is named by the upload that made it, as an `_id` is never reused.
Both unique indexes of `rag_documents` (slug, and title with version) refuse an
insertion. Chunks are written in order, one step each; a delete finds the
document, deletes its chunks and deletes the row by `_id`. A read is cache, list of
documents, chunks, cache write; each of the two MongoDB cursors is read in one step,
which matters to no document that a property speaks of (they are complete before
the read begins, or deleted). All reads ask one question that every chunk
answers well enough: the score threshold and `top_k` cut data that no property
speaks of. A Redis error is a miss (`CacheMiss` is always possible) or a write
that is dropped.

### ChatTurn

`turn` is the state of the graph with what the route knows of it: `pc` is the node
(`guardrail_entrada`, `conversation`, `context`, `supervisor`, `lookup`, `fetch`,
`model`, `tools`, `juiz`, `juiz_retry`, `evaluated`, `guardrail_saida`, `save`,
`end`) or the place behind it (`llm_error`: the records before a 503; `replied`).
`calls` are the concurrent queries of a group with their outcome, `seen` the data
that the model was given, `runs` the tool runs, `asked` the tools of a round,
`verdict` what the Judge holds, `saved` and `todo` the writes done and still to
come (of the graph, then of the background tasks). `active` is the status of the
conversation, which the user or another turn may end before or between the saves
(`SessionEnds`; nothing asks for it earlier): `SaveMessage` then drops the message
without a word, as `save_message` does, while `UpdateMemory` goes on. `billed`,
`disturbed` are history. `native` is the setting that moves queries from the node into tools of
the model; `cache` is the process's intent catalogue.

An agent is a record of its groups of calls, the failures it survives, its tools,
and the calls whose results it hands to the Judge as `grounding_context`, none if it
leaves the Judge to rebuild the evidence from the tool runs (`Evidence`). Beside the
data the prompt has the user's memory and recent messages (`Recalled`), of which the
Judge is shown the last eight messages only (`EvaluationInput`);
`JudgeSeesTheData` says that the data agree and that nothing else is missing. Of the branches of
`funcionario` the roles ESTOQUISTA and GERENTE take the same ones here. A set of
tools that the model asks for at once runs in any order; its failures and unknown
names are texts for the model. Scores are four classes: the integers 0 and 1, a
number below 0.7 and one from it.

`Raise` is what an exception leaves: LangGraph drops the state; the route turns
the single exception, or the group of several, into a status. `Background` is the
list of Starlette tasks: the first that raises drops the rest. Turns follow one
another and share the catalogue; concurrent turns meet in `Sessions`,
`ProviderPacing` and `RagKnowledge`, whose outcomes are here the outcomes of a call.

### Access

`world` is what the service does not control: the clock, the account of the
caller, what Google publishes. A tick is half a second, because a token expires at
a full second and the deny list's entry is computed from a truncated clock.
`denied`, `window` are Redis; `certs`, `holder` the certificate cache of the
process and its lock. A request carries what it has read: `who` it was
authenticated as, `at` the clock before an await, `from` the keys that were
published when its fetch began; its history is `held` (the accounts since
the check began), `after` (it came behind an answered logout) and `fault`.

Each action is one call of a dependency, with its failures: the deny list fails
open, the logout does not; a budget that cannot be asked is a 503; a
fetch answers with any key set published since it began and is dated at its
start. `Revalidate` is the check before the write or before a stored result is
replayed, `Write` the check in the transaction itself. `Tool` covers both service
protocols: MCP puts a refusal into its result, A2A returns it as a text. Signatures,
claims and their parsing are data: a token is one of five kinds.

### PredictiveEngine

`publication` is the day of the snapshot that consultations read; each `run` keeps
the dates of the rows each consultation gave it and, as history, how many days were
published since it began (`moved`). An answer may therefore mix days;
`MixedDaysAreBounded` says how far, and that its forecast still ends on the day it
names. `InvalidSnapshot` is the refusal of rows without a usable date. `left` are the critical alerts
still to be notified, taken in the order of the query; `marked`, `delivered` and
`excused` are the markers, and as history the deliveries and the causes for which a
delivery may be repeated. `Exists`, `Post` and `Mark` are the three calls for one
alert, each with lost replies. `Forecasts` is `forecast_product_demand` in exact
arithmetic: 60% of the recent week times its trend, bounded to a half and two, and
40% of the mean, rounded; at a tie the float may round either way, so it is a set.
One product stands for all, as they do not interact. The module takes any set of
alerts as critical (see "Observed beside the runs").

## Runs

| Run | Shows | Bounds |
|---|---|---|
| `idempotency` | safety with all failures, the abstract specification, every call answered | 3 calls of one key |
| `inventory` | no lost update, ceiling at the commit | 4 calls on one row, 1 on a missing row, 1 without a quantity |
| `write_routes` | the routes run `run_idempotent` (a refinement); key, stock and reply agree; replies arrive | a disposal, its retry, another disposal, 2 keys, 1 row |
| `sessions` | ownership and pairing of the messages | 3 turns, 2 users, 1 session, clock to 4 with a timeout of 1 |
| `pacing` | Retry-After is respected; calls end | 2 calls, 3 attempts, Retry-After 0 or 2, paces 1 and 2, deadline 4, clock to 6 |
| `rag_documents` | whole uploads, orphans, deleted documents leave the cache | 2 uploads (of 2 chunks and of 1) of one slug, 2 deletes, 1 read |
| `rag_audience` | companies and audiences stay apart | 4 uploads (2 companies, one text without chunks), 3 reads |
| `chat` | approval and saves, also in a session that ends; evidence, stray calls, metrics, roles; every turn answered | every role and text, native and not, 2 tool rounds of up to 2 tools, 3 catalogues |
| `chat_score` | violation, finding 1 | as `chat` |
| `access` | budget, revocation, certificates, accounts; every request answered | 2 requests, 6 workloads, 3 states of the account, expiry and clock to 4 ticks, keys {1} then {2}, window 2, limit 1 |
| `access_a2a` | violation, finding 2 | as `access` |
| `engine` | markers and deliveries, what may break an analysis, how far an answer may mix days and where its forecast ends | 2 overlapping analyses, 1 alert, 3 days with sales 6, 0, 0; weeks of 1 day, series of 2 |

Why the bounds are enough: three calls of one key give a writer, a competitor that
was refused the lock and a retry after reconciliation; a fourth call adds another
of these roles. In the inventory a disposal, one that invalidates its read, a
manager's and a receipt cover every pair of writes on a row; rows do not interact.
One session is enough as sessions do not interact, and the clock passes the
inactivity limit more than once. A chat turn starts from nothing but the
catalogue, so one after another is enough; two tool rounds are one that is followed by
another and the last allowed one, and of two tools asked at once one may fail.
In `Access` two requests are a logout and a use of the same token, a fetch and a waiter for
the lock, or two takers of a budget of one; the workloads name the pairs that meet,
and the clock passes expiry, certificate age and window. In the engine two
analyses race for the marker of one alert; an analysis takes its alerts one after
the other and their markers do not interact, and the theorems about the markers
hold for any number of them. Three days let up to three publications come during an
analysis, at any of its consultations, and the series, a day shorter, be shifted or
cut at either end.

The actors of most modules end, or the clock does, so the runs do not check deadlock. For
the results that matter most the proofs remove the bounds.

### Fairness

- `Idempotency`: every call that can move does (the event loop runs it; Redis has a
  socket timeout), and PostgreSQL ends every transaction (statement timeout).
  Nobody owes a call, a failure, an expiry or a reconciliation.
- `WriteEndpoints`: the same for a call, its transaction and the rollback of an
  abandoned one.
- `ProviderPacing`: the clock advances and the event loop runs what is due. The
  provider owes nothing: its silence is ended by the deadline.
- `RagKnowledge`: a read goes on and Redis drops what has reached its TTL.
- `ChatTurn`: the event loop fires the deadline of the route, and the two records
  before a 503, which the deadline does not cover, end or fail (MongoDB driver
  timeouts). No query and no model owes an answer.
- `Access`: every call of a dependency ends, with a result or a failure (each has a
  timeout), and `asyncio.Lock` hands a free lock to a waiter.
- `InventoryWrites`, `Sessions` and `PredictiveEngine` state no liveness; that waiting
  writes end is `RepliesArrive` of the composition.

## Findings

1. `chat_score`: the Judge accepts a score that is an integer, and JSON writes 0 and
   1 that way, but the schema of `prompt_evaluations` takes a double only
   (`scripts/mongo/schema.json`). The insertion is refused and the turn ends in a 500
   though nothing failed (`juiz.py:87`, `juiz.py:211`).
2. `access_a2a`: a refused A2A call returns its reason as a text, the route asks it
   for a `code` as if it were an object, and the exception is answered 500 by the
   handler that `main.py:382` reserves for the unexpected (`mcp_a2a.py:175`,
   `main.py:437`).

### Observed beside the runs

The models contain these steps as the code takes them; no property is stated against them.

- Disposals that each respect the ceiling erode a batch beyond it: the ceiling is of
  the stock that is left (`postgres_tools.py:275`).
- The expiry of a session is written by `_id` after an old read, so a session that
  another turn has just renewed can be marked expired (`short_term.py:184`).
- Without the Groq lock a call that overlaps a 429 is sent at once
  (`runtime.py:109`); the theorems about pacing assume Groq.
- A cached answer, an empty one too, hides a new document until its TTL
  (`retriever.py:215`). A taken title is reported as a taken slug
  (`ingestion.py:133`).
- `get_stock_alerts` selects `NULL::text AS priority` (`analytics_tools.py:73`), so
  the engine itself never finds a critical alert; the module follows
  `alert_webhook.py` for whatever its caller passes.
- A violation found by the policy check is written without a conversation, and the
  routing log of a rejected turn too; the schemas refuse both, and the refused
  routing log drops the policy check behind it (`governanca.py:138`,
  `main.py:642`).
- A message rejected by the input guardrail is answered 200: the branch with the
  429 is not reached, as the rejection sets `final_response` (`supervisor.py:43`).
  Its evaluation score of zero then counts as an unresolved answer
  (`metrics.py:131`).
- Two calls of an agent that fail together arrive as a group that no handler of the route
  knows: 500 instead of the status of either (`runtime.py:155`).
- `save_message` returns without a word when the session has been closed or has
  expired since the turn began: the turn is answered 200 and its question, its answer
  or both are in no history (`short_term.py:147`).
- The Judge is shown neither the user's memory nor, of the ten messages that the
  customer's agent gets, the first two, though the answer may rest on them
  (`juiz.py:126`, `cliente.py:40`).
- Every consultation of the engine reads the publication of its moment. One that
  comes between two of them gives an answer of several days under the date of one,
  and a series that lacks the oldest of its 28 days and counts them as days without
  sales (`motor_preditivo.py:127`).
- A query that fails a turn leaves a tool run in memory only: the state is lost with
  the exception.
- The intent catalogue's clock is stamped before the fetch, so a late failure of
  one request replaces a good catalogue by the fallback for a whole period
  (`intent_catalog.py:92`).

## Proofs

All theorems are checked by tlapm; they assume only what the `ASSUME`s of the
modules state (typing of the constants, and that null values are no members of
the sets they stand beside).

- `IdempotencyProofs`. That two writes of a key are never in effect together is not
  inductive: it depends on who holds the lock while a committed result is not yet
  stored. `IInv` adds that the lock covers every stage from the acquisition to the
  release and every open transaction (`LockInv`), how far a transaction is at each
  stage (`DbInv`), that a writing call has found no result (`UnstoredInv`), that a
  write in effect is stored or locked (`CacheInv`), and what a held answer is
  (`AnswerInv`). From it follow type correctness, `OneWriterPerKey`,
  `AtMostOneInEffect`, `FreeKeyIsCertain`, `AnswersAreTrue`, `RetainedOnlyOnError`,
  and the refinement: each step applies, answers, forgets or recalls a write, or
  stutters.
- `WriteProofs`, of the transactions. `RowInv`: from its SELECT to its end a
  transaction owns the row, the balance is what it read, it passed the ceiling with
  it, and its new balance is that balance plus its delta. It gives `ReadsAreCurrent`,
  the action property `CeilingHolds`, and `CeilingPreventsOverdraw` for ceilings up to
  100%. `BookInv`: the movements on record are those of the committed calls, finitely
  many, and the balance of each row is its initial stock plus their sum. The sum is a
  fold over a set; the lemmas from `FoldIsSum` on say what it becomes when an element
  joins, by way of a recursive function that two such folds share. It gives
  `BalanceIsMovements`.
- `WriteProofs`, of the routes. Every step of the routes is one of the transactions
  (`RoutesWriteStock`) and one of the calls (`RoutesRunIdempotent`), so all that is
  proved of either part holds of the composition. What neither part can say follows
  from both: a write in effect of the calls is a movement of the stock
  (`CommittedMoves`), which turns at-most-once of the calls into `KeyMovesStockOnce`
  and gives `RoutesMoveOnce`, that the routes implement `AtMostOnceWrites` on the
  movements themselves; `RefusalInv`, that a call that answers a refusal is one whose
  transaction refused, gives `ReplyMatchesStock`.
- `PacingProofs`, for Groq. `PaceInv`: only the call inside the lock is between
  computing its delay and its answer, a sleeping call wakes at the shared time
  itself, a request in flight was sent at or after it, and an unfinished call has
  an attempt left. It gives `RespectsRetryAfter` and `ReadyNeverEarlier`.
- `SessionsProofs`. `OwnerInv`: a conversation exists exactly if it has an owner, who
  is the user of every turn that works or wrote in it; `PairInv`: what a turn has
  saved where it stands, a question being missing only in a session that has ended,
  which never becomes active again. They give `MessagesAreTheOwners`,
  `QuestionBeforeAnswer` and `AnsweredIsSaved`.
- `RagProofs`. `InsideInv`: what a read lists, returns and caches is visible to its
  company and audience, because the cache key tells apart all that decides
  visibility. `UploadInv`, `DeleteInv`: an upload is whole as far as it got until a
  delete has found it, and between its two deletions a delete leaves only chunks
  that were written since. `GoneInv`: a document whose deletion was answered never
  comes back. They give `ReadsStayInside`, `AnsweredUploadIsWhole`,
  `OrphansOnlyFromRace` and `FreshReadsForget`, for any number of chunks.
  `ForgottenForEver` is the part of `DeletedIsForgotten` that needs no fairness: once
  neither the cache nor a read on its way there names a deleted document, none ever
  does again, so what is left to liveness are the reads that began before and the TTL.
- `EngineProofs`. That a repeated delivery has a cause is a statement about races
  between runs. `HookInv`: as long as nothing excuses an alert, at most one run is
  between its look and its marker, that run found no marker, and an alert that was
  delivered is marked or is held by a run that is about to mark it. It gives
  `MarkedWasDelivered` and `RepeatsAreExplained` for any number of analyses and alerts.
  `AnalysisInv`: what a run has still to read is empty, what it has read is of
  publications in the order of its reads and none older than its beginning
  (`publication - moved`), its forecast is that of the sales it read, and a run that
  ended badly has one of five faults. It gives `OnlyDataAndModelBreakIt` and
  `MixedDaysAreBounded`, whatever is published meanwhile, and with it the types.
- `AccessProofs`. `DenyList`: the entry of every token whose logout was answered
  lasts until the token expires, which rests on a lemma on the truncated clock
  (`TtlReaches`). `Good`: a request that came behind that logout gets past the deny
  list only if Redis could not be asked or the token has expired, and the present
  account is among those held since the check began. They give `RevokedIsRefused` and
  `OperationsAreCurrent` for any times, accounts, workloads and numbers of requests.
  `Cached` and `Fetching`: key 1 is in the cache, or in an answer under way, only if it
  was still published when the clock was read for it. With a fetch that is given up
  before `MaxAge` has passed (10 seconds against 3600 in `firebase_auth.py`) this gives
  `RetiredKeyIsRefused` for any sequence of published keys, also one in which a
  withdrawn key comes back. `Recorded`: all requests that a window of time which is not
  over has admitted are in the sorted set, as whoever evicts reads a clock that is not
  ahead. An admission that counts at most `Limit` entries therefore counts all of
  them, by an injection from requests to entries, and `BudgetHolds` follows for any
  number of requests and any loss of commands. `SoundInv` joins them, with types and
  the lock (`Locked`).
- `ChatProofs`. `Backed`: the model's own answer is the final one only behind an
  approved verdict whose evaluation is stored; each message is saved or still to come
  as long as the session is active, the question first, and so is the last agent
  whatever becomes of the session. `MayReach` ties the agent to the role through the match within
  the role's agents, and no call runs outside the two nodes that wait for a
  group. They give `AnswerIsBacked`, `RolesStayInTheirAgents` and `NoStrayCalls` for
  any catalogue and any number of tool rounds. `SoundInv` adds `Ledger` (what is
  counted is what was billed, bounded by the rounds and the Judge; no record of
  metrics before the reply; what a failed turn leaves can never be recorded as
  completed) and `Shown` (the successful tool runs are the data that the model was given,
  apart from memory and messages, and what its concurrent calls are about to give it,
  and all of them are consultations of its agent, which is what a
  `grounding_context` names). They give `MetricsTellTheTurn`, `JudgeSeesTheData` and
  the types.

Only model-checked is liveness (`EveryCallAnswered`, `RepliesArrive`, `CallsEnd`,
`DeletedIsForgotten`, `EveryTurnAnswered`, `EveryRequestAnswered`): it rests on
fairness, hence on ENABLED, which the prover does not support. Every invariant and
every action property that a run checks, and both refinements, are theorems.

## Not modelled

- Notifications (`app/cache/notifications.py`): no route, agent or job of the
  repository creates a notification, marks one as read or asks for the counter. Only
  the inbox is read, by the employee's agent: that is a call of `ChatTurn`.
- Skills (`app/skills/`): a library that no route calls.
- Shelf analysis: one vision call and one record, both outcomes of a call in
  `ChatTurn`.
- The size of the PostgreSQL pool against the fan-out semaphore: numbers without a
  state of their own; the transactions are in `InventoryWrites`.
- Configuration and schemas are static: values are constants, unique indexes and
  required fields are guards of the modules. Administrative scripts run once.
- Prompts, answers, embeddings, scores of chunks, patterns of the guardrails,
  signatures and the rows of analytical queries are data. The summaries of metrics
  and of conformity, the listings of sessions and the one-way import of external
  sources only read, or write what no modelled request reads.

## Plan

Done: retry keys, stock transactions and their composition, sessions, pacing,
knowledge base, the chat pipeline with Judge and records, access control with
budgets and service tokens, the predictive engine with its webhook; proofs of every
safety property the runs check, and of both refinements.

Left: pacing without the Groq lock, of which only the types and the deadline could
be said; an abstract specification of a chat turn (an answer that is approved, stored
and counted, or a refusal, or an error) for `ChatTurn` to implement; the notification
counter when something creates notifications.
