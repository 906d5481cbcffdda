# GateFlow in TLA+

GateFlow is an API gateway: FastAPI processes that share one Redis and one SQL
database. These modules model its protocols, that is, the places where several
handlers, processes, scripts and clocks meet. TLC checks them on small instances,
and TLAPS proves the central results for every value of the constants.

Paths below are relative to `gateflow/` in the repository.

## 1. The system

### Components

| Component | Source | State it keeps | Operations | Modelled by |
|---|---|---|---|---|
| Request pipeline | `proxy.py` | locals of each handler: attempt, response, body | `handle_request`, `_try_target`, `_build_response` | `Gateway`, `TargetCall` (partly) |
| Circuit breaker | `circuit_breaker.py`, script in `redis_client.py` | a Redis hash per target: state, failure count, last failure, expiry | `check_circuit`, `report_circuit` | `CircuitBreaker` |
| Rate limiter | `rate_limiter.py`, script in `redis_client.py` | a Redis hash per key and route, and a global one: tokens, time, expiry | `check_rate_limit` | `TokenBucket` |
| Monthly quota | `governance.py`, scripts in `redis_client.py` | a Redis counter per user and month, which expires with the month | `reserve_monthly_quota`, `refund_monthly_quota` | `Gateway` |
| Idempotency store | `idempotency.py` | a Redis string per fingerprint, with a TTL | lookup, store | `Gateway` |
| API keys: store, caches, authentication | `store.py`, `auth.py`, `cache.py` | a database row, a Redis hash, and an in-memory entry per process | `get_key_record`, `save_key_record`, `delete_key_record`, `increment_request_count`, `authenticate` | `KeyStore` |
| Tiers: store, caches, messages | `store.py`, `auth.py`, `cache.py`, `redis_client.py` | a database row, a Redis hash, and per process an entry of the tier cache and one beside each key | `get_tier_config`, `list_tier_configs`, `save_tier_config`, `delete_tier_config`, `authenticate`, the listener | `TierStore` |
| Admin API | `admin/` | none of its own | create, update, delete, read keys; routes; tiers | `KeyStore`, `RouteTable`, `TierStore` |
| Developer portal | `portal.py`, `static/portal/app.js` | the page: the key in its field, what it shows; calls in flight | load the quota, rotate the key, request a tier | `Portal`; the inside of a rotation: `KeyStore` |
| Redis manager, route table | `redis_client.py`, `store.py` | the client, the in-memory route table, two background tasks | connect, refresh, publish, listen, health check, reconnect, close | `RouteTable` (without close) |
| Router | `router.py`, `models.py` | none | longest prefix match, path rewriting | `Router` |
| Telemetry and usage, audit | `telemetry.py`, `audit.py`, `store.py` | a bounded queue and a worker per process, audit tasks, daily counters | fire, flush, the worker's loop, `record_usage`, `log_audit_event` | `Telemetry` |
| Stream workers | `metrics_worker.py`, `notifications.py` | consumer groups on Redis streams, pending entries, a dead-letter stream | consume, acknowledge, notify, retry | `StreamWorker`, `Delivery` |
| Lifecycle | `main.py` | what is running | startup, shutdown | the shutdown: `Telemetry` |
| Anomaly detection | `anomaly.py`, `ml_anomaly.py` | sliding windows in memory | check, update | not modelled |
| Middleware, logging, metrics, tracing, config, schema, crypto | the rest | settings, log lines | | not modelled |

### How they interact

A request is authenticated (`auth.authenticate`: database, Redis copy, process
cache), admitted by two token buckets, reserves a unit of the user's monthly
quota, reads its body, looks up a stored idempotent response, calls the primary
target up to `downstream_max_retries` times under the target's breaker, falls back
to a second target, and builds the answer: which stores an idempotent response,
gives back the unit of a failed request, counts the request and queues telemetry.
All shared state is in Redis, changed by scripts that Redis runs one at a time, or in
the database, changed in short transactions. Everything between two of those is
interleaved with every other handler of every process, and may be the last thing
the handler does.

Beside the requests, each process runs a listener for messages about routes and tiers, a
health check, a telemetry worker that writes to the metrics stream, and two stream workers
that read that stream and the stream of anomalies. The portal's page is one more actor: it
starts calls with whatever key is in its field and changes when their answers arrive.

### What is hard about it, and what makes each part right

- **Breaker.** A request is let through in one state of the breaker and reported in
  another; the key that holds the state expires; some attempts are never reported.
  Right: it trips when the failures are due and only then, keeps everybody out for the
  open time, and lets a recovered target come back.
- **Rate limiter.** Tokens are fractions that are refilled lazily, the key expires, and
  a missing key means a full bucket. Right: no window of time admits more than
  capacity plus refill, and nothing is refused without need.
- **Quota.** Reservation and refund are separate calls, around a whole request, which
  may see different months; the counter is deleted at the month's end. Right: the
  counter agrees with what was reserved and given back, and the quota holds up to a
  bounded number of units.
- **Idempotency and streaming.** Right: a repeat of an answered request does not reach
  the target again, and a body that can be sent only once is sent once.
- **Keys.** Three copies of each record, written one after the other, and a read that
  repairs the database from Redis. Right: a deletion is for good, a rotation never
  leaves the customer without a key, a process sees its own writes and every cache
  comes to agree with the database.
- **Tiers.** A tier is cached twice in each process, and an entry of the first cache starts a
  second life in the other. Right: a change is in force everywhere after a bounded time,
  whatever is lost, and the cache of tiers is right as soon as the messages are heard.
- **Portal.** Clicks overlap and answers arrive in any order. Right: the page never holds on
  to a key that another rotation took away, and nobody is left without a key.
- **Route table.** Lost messages, refreshes out of order, failing stores, background tasks
  that may die. Right: no gateway stops serving a route nobody deleted, and every process
  comes to serve the table in the database.
- **Telemetry and shutdown.** A bounded queue, a worker that is cancelled anywhere, a counter
  raised by read and write. Right: what becomes of each event is accounted for, nothing is
  counted that was not recorded, audit events are written and the shutdown ends.
- **Streams.** Right: an entry is acknowledged only when it was handled or dead-lettered, and
  nothing stays pending for good.

`PROJECT.json` lists each hazard at its line with the properties that guard it.

## 2. Modules

| Module | Lines of the system | What it is |
|---|---|---|
| `TargetCall` | `proxy.py` 250-385 | The retry loop and `_try_target`, with the breaker as a black box. Used by the next two. |
| `CircuitBreaker` | `redis_client.py` 71-140, `circuit_breaker.py` | The breaker script, its key's life, and the callers of `TargetCall`. |
| `TokenBucket` | `redis_client.py` 31-69, `rate_limiter.py`, `proxy.py` 155-184 | The bucket script, exact fractions, key expiry, `Retry-After`. |
| `Gateway`, `MCGateway` | `proxy.py` 186-566, `governance.py`, `idempotency.py`, `redis_client.py` 162-193 | The pipeline from the reservation to the answer; `INSTANCE TargetCall`. |
| `KeyStore`, `MCKeyStore` | `store.py` 92-186, `auth.py` 112-174, `cache.py`, `admin/keys.py`, `portal.py` 57-84 | The three homes of an API key under all handlers that use them. |
| `RouteTable`, `MCRouteTable` | `redis_client.py` 261-404, `store.py` 219-311, `admin/routes.py` 61-113 | Rows, hash and served tables; the routes API; the listener and the health check. |
| `TierStore`, `MCTierStore` | `store.py` 333-442, `auth.py` 138-163, `cache.py`, `admin/tiers.py`, `redis_client.py` 341-375 | The homes of a tier, its two caches per process, and the messages about it. |
| `Router` | `router.py`, `models.py` 11-18, `proxy.py` 250-251 | Matching and path rewriting, as operators; `MCRouteTable` instantiates it. |
| `Portal`, `MCPortal` | `static/portal/app.js`, `portal.py` | The page and the calls it makes. |
| `Delivery` | | What the stream workers promise: the abstract specification. |
| `StreamWorker` | `metrics_worker.py` 49-129, `notifications.py` 68-167 | The loop of both workers; implements `Delivery`. |
| `Telemetry`, `MCTelemetry` | `telemetry.py`, `audit.py`, `store.py` 445-532, `main.py` 61-79 | The queue, its worker, usage counters, audit tasks, and the shutdown. |
| `TokenBucketProofs`, `CircuitBreakerProofs`, `GatewayProofs`, `KeyStoreProofs`, `RouteTableProofs`, `TierStoreProofs`, `PortalProofs`, `BackgroundProofs` | | The theorems of section 5, those of `StreamWorker` and `Telemetry` in `BackgroundProofs`. |

### CircuitBreaker and TargetCall

`cb` is the Redis hash and `ttl` the life of its key. The script only uses differences of
times, so `cb.age` is the time since `last_failure`, capped where no comparison can
tell the difference, and the state space is finite without stopping the clock. One
action is one script call (`Check`, `Report`), one downstream answer (`Answer`,
`Raise`), or the loop's bookkeeping. Only the last attempt reports, as in
`proxy.py` 271. `Abandon` is a cancelled handler or a dead process. `Older`,
`Renewed` and `Reported` are the clock and the two EXPIREs. `recent` and
`sinceTrip` are history: the failures reported since the last success, and the
time since the breaker tripped.

### TokenBucket

Everything is an integer: `Token` units to a token, `Second` ticks to a second, `Rate` units
per tick, so that a fractional refill is exact. `Admit` and `Refuse` are the two ends
of the script, both of which write the hash and renew its key; `Available` is what
the script computes first, and is `Capacity` when the key is absent or has expired.

### Gateway

`phase[r]` says which await of `handle_request` slot `r` is at. A slot is used
again and again, so any number of requests pass through. `Reserve`, `Refund` are the
two quota scripts; `paid[r]` is the month whose unit the request holds. `CountedAndGone`
and `ExpireCounter` are the life of the counter, which the code computes in whole
seconds to 23:59:59 and which may therefore end before the month. `ReadBody`
decides whether the body is buffered or streamed, `Call` joins the steps of
`TargetCall` to what they do to a streamed body, `AfterCall` and `Fallback` follow
the branches after the loop, `Build` and `Reply` are `_build_response`.
`net`, `forgiven` and `carried` are the ledger the properties compare the counter
with: reservations less refunds that were owed; units the counter lost otherwise; units
held at the turn of the month. A refund that was not owed (a key without a quota, a
month in which the request reserved nothing) is the code's behaviour and is counted
as forgiven.

### KeyStore

`row`, `copy`, `cache` are the three homes. `proc[h]` says which await handler `h`
is at, for which operation and in which of the two calls of `get_key_record` or in
its own work. All operations share the same steps, because the code does: an update
first resolves the key, which may repair the row from the copy (`ReadCopy` to
`CommitRow`), and then saves. A handler may be broken off anywhere (`Cancel`), and
`get_key_record` swallows failures (`Forgive`; `unsaved` are the keys it could not save again).
A deletion that finds no row is answered like another (`DeleteRow`). A save is one step for its
transaction; a transaction that conflicts with another fails, which is a `Cancel`.
`Partial` is the hash that HINCRBY makes when the counter is
raised after a deletion. `use` says what the clients of a behaviour do, and with which keys.

### RouteTable

`row`, `hash` and `table[g]` are the three homes of the routes. `proc[x]` says which await
task `x` is at: a handler of the admin API, or one of the two background tasks of a
gateway, the listener and the health check. `_refresh_routes` is called from all three, so
its steps (`Load` to `Assign`) are shared: all rows; when there are none the hash, whose
routes are saved again one after the other (`Fill`, `FillCopy`); when the database fails
only the hash (`LoadCold`). `After` is the order of `reload_routes`: the own table first, then
the message. A message says nothing but "refresh", so `inbox[g]` is the number of
messages waiting in the subscription of `g`; who is not subscribed gets none.
`Enter` to `Assign` with `op = "reconnect"` is `_reconnect` under its lock. It closes the old
client, and with it the subscription of the listener, which `Notice`s and reconnects as
well. `Fault` is everything that may fail: `Swallow` is a failure the code hides from
the caller, `RefreshFails` and `ReconnectFails` are the exceptions that leave
`_refresh_routes`: after the first the listener reconnects or rests, by the kind of error, and the
second ends the task that reconnects.

### TierStore

`row`, `copy`, `tierCache[g]` and `keyCache[g]` are the homes of a tier. All readers share
`ReadRow` and `ReadCopy`, as they share `get_tier_config`; a list is one that asks for all
tiers and saves what it found only in Redis one after the other (`Fill`, `FillCopy`). Saving
and deleting go through `Commit`, `WriteCopy`, `Publish` and `Evict`. The caches count the ticks for
which an entry is good (`Older`); an entry that is read stays as old as it is (`Used`).
`Told` is the message, to whoever is subscribed, and `Hear` is the listener, which drops an
entry of the cache of tiers and none of the cache of keys. `Cancel` breaks off a handler
anywhere; `Forgive` is what the code swallows, a failed publish included, which skips
`invalidate_tier` as well; `Disconnect` loses a subscription and what waits in it. `since`
counts the ticks since a row changed; `lag` is the time a handler takes.

### Router

A text is the sequence of its segments, empty ones included, which is what `split("/")`
makes of it. `Matched` sorts the routes and takes the first that fits, as `match_route` does, and
`Downstream` follows the three branches of `build_downstream_path`.

### Portal

`field` and `shown` are the page, `call[c]` a call in flight with the key that was in the field
when it was clicked. `Click...` are the handlers of the page up to their `fetch`, `Receive` what
they do with the answer. `row` and `copy` are the keys in the database and in Redis, and a key is
`valid` that is in either. Each call resolves its key as `get_key_record` does, step by step
(`ReadRow`, `ReadCopy`), and saves again what it found only in Redis (`CommitFound`, `WriteFound`,
or `Forgive` when that fails); `authenticate` does it twice unless the record is cached (`stage`).
`GetQuota`, `StoreTier`, `SaveNew`, `DeleteRow` and `DropCopy` are the rest of the endpoints, at the
grain at which two of them can meet: only the new key, which nobody can use yet, is saved in one
step. A deletion that finds no row leaves the copy and is answered. `Break` ends a call in
the gateway with an error, before or after its command took effect; at the last command of a
rotation the old key is then gone and the new one was told to nobody. `Lose` loses an answer,
`Reload` empties the page. `told` are the keys that were ever in the field: nobody can use another.
`strayed` says that a new key did not reach the page, and `overlapped` that a rotation broke off or
was at work beside another call with its key.

### StreamWorker and Delivery

One module for both workers, because they are the same loop; `kind` says which of the two a
behaviour is about, `naming` what a process calls itself. `pending[n]` belongs to the *name*,
as in Redis: a process that comes back under its name finds its entries again (`ReadPending`),
one with a new name does not. `Evaluate` is the decision what an entry asks for, `Act` one
effect of it: an anomaly added, or a webhook that answered; `WebhookFails` an attempt that
did not. `Bury` is the dead-letter stream. A failure of Redis has its effect or not
(`RedisFails`), drops the batch, and the loop starts over. `Delivery` knows
entries, evaluations and effects, and no loop.

### Telemetry

`phase[g]` is where the process is on its way down, `job[p]` a batch being written: by the
worker, or by `flush_telemetry` itself. A batch goes to the stream (`Push`), and then each of
its events raises a counter in a transaction that reads (`ReadUsage`) and writes (`WriteUsage`),
so two processes can meet there: the second insert is refused by the constraint of the table,
the second update is lost. `Stop` cancels the worker wherever it is and takes its batch;
`AfterBatch` is what it does with the queue before it ends. `audit[a]` is a task of its own, for which
`FlushAudit` waits. A stream worker that ended with an exception (`crashed`) raises it in the
shutdown, which goes straight to the end of the event loop (`EndLoop`).

## 3. Runs

| Run | Instance | Shows |
|---|---|---|
| `breaker` | 2 callers, threshold 2, window 1, open time 2, 1 or 2 attempts, 1 abandoned call, a target that fails and recovers | `TripsWhenDue`, `TripsOnlyWhenDue`, `OpenKeepsCallersOut`, and `RecoversWhenUp` |
| `bucket` | 7 units to a token, capacity 2 tokens, 3 ticks to a second, no slack | `WindowBound`, `RefusesOnlyWhenDue`, `WaitIsEnough` |
| `gateway` | 2 slots, 2 months, quota 1, one idempotency key, 1 or 2 attempts, with and without fallback and idempotency | the ledger, the quota, repeats, streams, and that every request ends |
| `keys` | 2 processes with a handler each, 3 writes, 1 forgiven failure; 1 key for the admin API and requests, or 3 keys for rotations | `NoLockout`, `SeenAtHome`, `DeletedAloneStaysDeleted`, `CachesConverge` |
| `keys_delete` | 1 key, a request and a deletion | finding 1 |
| `routes` | 2 prefixes, one of them with a route, 1 gateway with 2 handlers, 2 writes, 2 failures | `RoutesStay`, `TablesConverge`; `LongestWins` and `NothingLost` of `Router`, as assumptions, for 2 names, prefixes of 2 segments, paths of 3 and tables of 3 routes in every order |
| `routes_health` | 1 prefix, no write, 2 failures | finding 2 |
| `tiers` | 1 tier, 1 key, 2 versions, 2 processes with a handler each, a life of 1 tick, 1 write, 1 failure | `ChangesTakeHold`, `TierCachesHear` |
| `portal` | 2 customers, 6 keys, 2 calls in flight, 4 clicks, 2 faults | `FieldWorks`, `CustomerHasKey`, `OneKeyAtRest` |
| `streams` | 2 entries, 2 workers, 2 entries at once, 2 attempts, 2 webhooks, 1 crash, 1 failure of Redis, both kinds, every naming | `DeliversAtLeastOnce` (refinement of `Delivery`), `HandledOnce`, `EveryEntryEnds` |
| `stream_failover` | the same loop, without failures of Redis | finding 3 |
| `telemetry` | 2 processes with 3 and 1 events, 1 audit event, a queue of 2, 1 failure, a shutdown at any moment | `EventsSettled`, `UsageCounts`, `AuditKept`, `ShutdownEnds` |

### Bounds, and why they are enough

- Two actors are enough for each race the properties name: every one of them is between
  a handler and one other. `carried`, `forgiven` and the proofs cover any number.
- `Threshold = 2` separates "a failure" from "enough failures", and `Window` 1 with
  `OpenDuration` 2 lets a failure be in the window, at its edge and outside it. `AgeCap`
  loses nothing: no comparison of the script tells ages above it apart.
- `Slack` stands for the 60 seconds the scripts add to a key's life. In `bucket` it is 0:
  the key then expires exactly when it is refilled, where a rounding error would show.
  7 units to a token and 3 ticks to a second do not divide each other, so that the
  fractions occur; 23 ticks are more than the refill of the whole bucket and its expiry.
- Two months make one turn. `MaxForgiven` bounds how often the counter is lost, and
  `MaxAbandons`, `MaxFaults` and `MaxWrites` how often something rare happens; `MaxRetries`
  bounds the setting. Requests, attempts and the clocks of the breaker are not bounded.
- In `keys` the admin API and the requests have one key, because only rotation relates two.
  Rotations run without requests: for the records these do no more than the
  `authenticate` of a rotation does. The run may stop (`CHECK_DEADLOCK FALSE`): the rotations
  are over.
- `routes` has one gateway: tasks of different gateways meet only in the stores and in the
  messages, and there a handler, the listener and the health check of one gateway meet
  already. Two failures let both stores fail in one refresh, or a ping and the
  reconnection after it. It may stop (`CHECK_DEADLOCK FALSE`): the writes are over.
- `gateway` gives both requests a quota and a key. Mixed limits and requests without a key
  are in the proofs, which hold for all of them.
- In `tiers` the handlers take no whole tick (`Lag = 0`): they are interleaved in every way, and
  the clock waits for them. That `ChangesTakeHold` allows just as much as it must for slower
  handlers is proved. The gateways with their handlers are alike, as are the versions, and are
  permuted (`Symmetry`).
- In `portal` two calls overlap in every way; four clicks are the first quota, which shows the
  buttons, two rotations that overlap and one call that follows, or a rotation that breaks off and
  two calls with what it left. Two faults break off a deletion and the save that repairs it.
  Spare keys are alike and are permuted. Clicks come to an end (`CHECK_DEADLOCK FALSE`).
- In `streams`, two entries read at once and two attempts make a batch that fails in the
  middle. One crash is enough to leave entries behind, and one failure to repeat them.
- In `telemetry`, three events in one process fill the queue of two and leave one in the hand
  of the worker; the event of the other process meets them at the counter. Processes that are
  gone do not come back (`CHECK_DEADLOCK FALSE`).

### Fairness

- Weak fairness on the steps of a handler: the event loop runs every task, and each of
  their awaits ends, by an answer or by a timeout (`downstream_timeout`, the timeouts of
  the Redis and database drivers). Cancellation and failure are not fair: they may happen
  and need not.
- Weak fairness on the breaker's `Tick`, and on `Expire` in `KeyStore`: time passes.
- `RecoversWhenUp` also needs clients that keep coming (`Start` is in `Step`): the breaker
  closes only when somebody reports. It is stated for one attempt per request; for more,
  see the observations in section 4.
- In `RouteTable`, weak fairness on the steps of the handlers and of the two background tasks.
  Messages are delivered while the subscription lasts, as Redis does.
- `TablesConverge` assumes that nothing failed, that every gateway was subscribed before the
  first write and that no read was repairing the rows meanwhile. Without the first two the code
  promises nothing: a lost message is not sent again, and only the next write or reconnection
  refreshes. Without the third see the observations in section 4.
- `CachesConverge` assumes that writes and forgiven failures end, which the bounds say.
- In `StreamWorker`, weak fairness on each worker's loop. A webhook need never answer: its
  attempts are bounded. `EveryEntryEnds` also assumes that names survive a restart, and that no
  worker was ended by an exception: `_ensure_consumer_group` is outside the `try` of the loop.
- In `Telemetry`, weak fairness on the worker, on each audit task and on the shutdown, which are
  tasks of one event loop. Requests and the decision to stop are not fair.

## 4. Findings

1. **A deleted key comes back** (`keys_delete`). `get_key_record` writes a record it found only
   in Redis to the database; when its read falls between the two steps of a deletion, the
   deleted key is stored again, in both stores. `DeletedAloneStaysDeleted` says that this
   needs such an overlap, or a save that failed (the first observation below).
2. **A reconnection that fails ends the health check** (`routes_health`). `_reconnect` is called
   inside the `except` clauses of `_health_check_loop` and of the listener. When it raises, the
   exception leaves the loop, and the gateway neither pings nor listens until it is
   restarted. `docs/REDIS_HA.md` has it ping every interval.
3. **No fail-over between workers** (`stream_failover`). The default consumer name holds the
   process id and nothing claims the entries of others, so what was delivered to a process
   that died is never read again. `metrics_worker.py` 64 promises "graceful failover between
   multiple Gateway instances". With names that survive, `EveryEntryEnds` holds.

Observations that no run is spent on:

- `delete_key_record` leaves the Redis copy alone when it finds no row, and its callers do not look at
  what it returns. After a deletion that was broken off behind its transaction there is a copy
  without a row. A second deletion usually repairs the row first and then deletes both; but when that
  repair fails and is forgiven (`store.py` 111-115), it finds no row, the admin API answers
  `deleted`, and the next request with the key saves the row again, with no two handlers ever at work
  at once. `DeletedAloneStaysDeleted` excepts exactly these keys (`unsaved`).
- A rotation during which another call runs with the same key may leave both keys: the call reads
  the copy between the two steps of the deletion and saves the old row again. `OneKeyAtRest` is about
  rotations that meet no such call (`overlapped`).
- The DEL of a deletion may take effect and raise all the same, by a timeout: the rotation then answers
  500, the field keeps a dead key, and nobody was told the new one. It is the same for the
  customer as a lost answer, and `FieldWorks` and `CustomerHasKey` except both (`strayed`).
- In HALF_OPEN the breaker lets every caller through, not one probe; a success on an attempt
  that is not the last is not reported, so with several attempts the breaker can stay
  HALF_OPEN.
- A failed request of a key whose tier has no quota still decrements the user's counter;
  `OveruseIsForgiven` and `QuotaHeld` say how far this and the turn of the month can go.
- `Retry-After` is rounded down. One second more always suffices (`WaitIsEnough`, proved).
- Rotation is two transactions. `docs/PRODUCT_LIFECYCLE.md` describes an atomic script;
  `ROTATE_KEY_LUA` is loaded and never called. Both keys are valid in between, and stay so
  when the handler is broken off there. `NoLockout` is what remains true.
- `docs/MULTI_REGION.md` 48 speaks of messages that invalidate cached keys and tiers. None is sent about
  a key; other gateways keep it until its entry expires (`CachesConverge`). A message about a tier
  drops the entry of the tier cache and not the tier beside each cached key, so requests are
  limited by the old version until that expires too, up to two lives of an entry
  (`ChangesTakeHold`).
- A publish about a tier that fails skips the local `invalidate_tier`, which is in the same `try`.
  A tier found only in Redis is saved again and nobody is told.
- A route that `get_route` or `list_routes` found only in the hash is saved again. During its
  deletion this brings it back, as in finding 1, and nobody is told to refresh.
- A path with several slashes in front is matched without them and forwarded with its prefix:
  `match_route` strips them all, `build_downstream_path` compares the text. `NothingLost` is about
  the other paths.
- The page: a lost answer to a rotation leaves the customer with a key the page does not know;
  a double click on rotate may report a failure though the key was rotated; the quota shown
  stays when another key is typed.
- `flush_telemetry` cancels the worker, and the batch it was writing is lost with it
  (`telemetry.py` 104-111 writes what is still in the queue). A stream worker that ended with an
  exception raises it in the shutdown, which then skips `flush_telemetry`, `flush_audit`
  and the closing of the stores (`main.py` 69-79).

## 5. Proofs

All are of the form `Spec => []Inv` or `Spec => [][A]_vars`, for every value of the constants
that satisfies the assumptions named in the modules (natural numbers, finite sets of
slots and of events, a token that fits into the bucket).

**CircuitBreaker** (`CircuitBreakerProofs`). The properties speak of the reported failures, the
script of one count, one time and a key that expires. The invariant is what the key
knows: its life lasts as long as its last failure can matter (`Lasting`); a breaker that tripped
lately is still OPEN (`Shut`); `last_failure` is the last one (`Ordered`); and the count of a
closed breaker covers every failure that is still in the window (`Covering`). The hard
step is the clock: when the key goes, no failure is young enough to be missed.

**TokenBucket** (`TokenBucketProofs`). `WindowBound` speaks of the admissions and not of the
tokens that are left, so it is not inductive. The invariant adds `Conserved`, which bounds
the admissions since any past one *plus the tokens available now*, and its converse
`Tight`: a bucket that is not full was emptied by the admissions of some window. `Conserved`
gives `RateLimitHolds`; `Tight` gives `RefusalsAreDue`; `Told`, which ties the last refusal
to the last write, gives `WaitingIsEnough`. The expiry of the key is where the
argument could break: lemma `TtlRefills` shows that the rounded life is long enough to
refill the bucket from nothing, and `TickRefill` that a tick adds at most `Rate` even
when it removes the key. `BucketTypeCorrect` rests on the same lemmas.

**Gateway, quota** (`GatewayProofs`). The inductive invariant `IInv` is `TypeOK` with five
parts: `Covered` and `Backed` relate the counter, the ledger and the number of units held in
the current month; `PaidUp` says in which phases a request may hold a unit;
`Unopened` that months to come are untouched; `Carry` bounds the month's ledger by the
quota and what was carried into it. The set of holders is
compared by cardinality, with the library's facts on finite sets. It gives
`LedgerIsKept`, `OveruseIsBounded` and `QuotaIsHeld`.

**Gateway, forwarding** (`GatewayProofs`). `RepeatsAreHeldBack`: an answer that a client
has received is stored (`Kept`), and a repeat is never past the lookup (`HeldBack`).
`StreamsAreSentOnce`: a body is streamed only with one attempt and no fallback, so once it
is used up the caller is at its last attempt, past the check (`StreamAt`).

**RouteTable** (`RouteTableProofs`). `RoutesStay` speaks of the tables served, which are assigned
from what a task read earlier. The invariant says that a route nobody asked to delete is in both
stores and in every table served (`Rooted`), and in every table a task has in hand and is
going to assign or to save (`InHand`). The step that could break it is the hash that cannot
be read and is taken for an empty one: it is reached only after the rows were found
empty, when no rooted route exists. That is `InHand` at `"hash"`, and it stays true because
deletions once asked for stay asked for.

**TierStore** (`TierStoreProofs`). `ChangesTakeHold` bounds by the clock what several hands pass
on: a reader holds a value for as long as it is at work, the cache of tiers keeps it for a life,
a second reader takes it from there, and the cache of keys keeps it for another. The invariant
gives each of them its share: `Hands` what a handler has read, by the time it has taken;
`TierAges` and `KeyAges` the age of a change plus the rest of the life of an entry made before
it. It uses nothing of the messages, so it holds when all of them are lost. The one exception is
a copy that could not be saved (`unsaved`): it is read again and again while the database has no
row.

`TiersAreHeard` is the other half: what the messages see to when they are heard. Its invariant
(`Heard`) is about a tier at which no two handlers were at work at once and no write was broken
off. The handler at work knows what is in the stores (`Alone`, `Known`), the copy in Redis is
the row or about to be written (`Copied`), and a gateway whose cache of tiers is behind has a
message in its inbox or still to be sent (`Rumoured`).

**KeyStore** (`KeyStoreProofs`). The three properties share one invariant. `Shapes` says what a
handler can be at, and `Known` what it may rely on as long as it is alone with its key (`Alone`):
what it read is still there, unless a repair was forgiven (`unsaved`). `Seen` is `SeenAtHome` with an exception, the handler between its
commit and its invalidation; `Agrees` and `Gone` say that a finished deletion leaves no copy
from which a read could repair the row: it found its row, because a handler that is alone and past
the lookup either found the row or has saved it (`Holds`). `NoLockout` needs an argument of its own: a rotation
deletes its old key because it made a new one, which another rotation may be deleting by then, and
so on. `Successors` orders the keys by age, new ones being younger; from every rotation on
there is a key at least as young as the one it made that nobody is about to delete. It needs one
assumption, `NoRecAssumption`: the value that stands for no record is none of the states of a record,
not a partial copy and not a gateway.

**StreamWorker** (`BackgroundProofs`). `WorkersDeliver` is the refinement: every step of the
loop is a step of `Delivery` or leaves its variables alone. The worker only keeps notes, what is
still to do for one entry and whether something failed, and `Honest` says that they are true:
what is no longer to do took place or failed, and an entry with a failure is acknowledged only
from the dead-letter stream. `EntriesHandledOnce` has an invariant of its own (`Once`): while
nothing fails, what is pending for a name is the batch of the one loop of that name, no
two loops have an entry in common, and only the entry a loop is busy with was evaluated.

**Telemetry** (`BackgroundProofs`). The invariant `TelemetryIInv` follows an event. It is in one
place at a time (`Apart`): one queue, one batch not yet pushed, or the stream. Until it is settled
it stays in its own process (`Placed`), and the phase of the shutdown tells that the queue is
empty and both writers are done at an orderly end (`Staged`, `Shaped`): `ShutdownSettlesEvents`.
`UsageCounts` compares the counter with the stream, but it is raised one event at a time, by several
processes; the invariant compares it with the events that left their batch (`Passed`), and says
that what a transaction has read does not exceed them either (`Counts`). Without that second part
a stale read could be written back above the truth. `ShutdownKeepsAudits` is by `Tasks`, which
relates tasks, rows and the way a process went down. The size of the queue (`Bounded`) is part of
`TelemetryTypeCorrect`.

**Portal** (`PortalProofs`). The page knows a key only once it was in the field, so a key that a
rotation has made cannot be used, and not be rotated away, before its answer is heard (`Told`,
`NewKeys`). `Heard` says that every answer is heard until a new key strays. `Alone` is what
`OneKeyAtRest` needs while nothing overlapped: a rotation is alone with its key (`Apart`), the row of
its key is there until it deletes it and nobody saves a key again (`Kept`), and a copy without a
row, or a second key of a customer, belongs to a rotation that is not through (`Second`). `RequestsAreStored`, which no run checks, is by counting
the answers on their way (`Counted`).

**Only model-checked.** Liveness (`RecoversWhenUp`, `EveryRequestEnds`, `CachesConverge`,
`TablesConverge`, `EveryEntryEnds`, `ShutdownEnds`), which needs fairness and is out of the
prover's reach; and `Router`, which is checked over small tables and paths: what the sorting of a
table returns is known by induction only. Every invariant and every action property of the passing runs is a theorem.

## 6. Not modelled, and why

- A refill rate of 0: the script returns an infinite wait and `int(inf)` raises
  (`proxy.py` 159). A single call shows it; `TokenBucket` assumes a positive rate.
- Floating-point rounding of Redis TIME and of tokens, steps of the clock, and a
  capacity that changes while a bucket exists.
- A month key computed just before the turn of the month and used just after.
- Several hashing secrets (`resolve_key_id` tries each), the fields of a record other than
  whether it may be used, and fields that HSET leaves in the copy when they are cleared.
- The order in which a full cache evicts: any entry may go at any time (`Expire`, `PushOut`).
- Which of the two buckets of a request is asked first, and what the first has spent when the second
  refuses: `TokenBucket` is one bucket.
- `allows` and `requires_auth` of a route: tests of one field.
- The scan of a list of tiers, which is one step, and a Redis that lost its data while the
  database lost its rows.
- The trimming of streams to a length, a consumer group that vanished under a running worker
  (NOGROUP), and the order of events in a batch.
- The turn of the day and the bytes in a usage counter: `Telemetry` has one counter.
- `close` of the Redis manager, and the writes made before a listener subscribed for the first
  time, which `TablesConverge` leaves out.
- Stored idempotent responses that fail to parse.
- Anomaly statistics (floating point): in `StreamWorker` an entry may show any anomalies.
- Startup, logging, metrics, tracing, configuration and crypto: no protocol of their own.

## 7. Plan

What would come next, in order:

1. **Admission**: the chain of `handle_request` from authentication over both buckets to the quota as
   one module over `TierStore` and `TokenBucket`, for what a refusal late in the chain has spent.
2. **Proofs** about `Router`, from a definition that takes the longest prefix without sorting the
   table, and which TLC compares with `Matched`.
3. **Abstract specifications** of the quota (a counter with forgiveness) and of the limiter (a set of
   windows), which `Gateway` and `TokenBucket` implement.
4. The order of eviction of `TTLCache`, against what a cache of that size promises.
