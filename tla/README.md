# Verification of infra-go

TLA+ models of the concurrent and distributed parts of infra-go and of its
conversion of data, the TLC configurations that check them and TLAPS proofs of most
of their safety properties for every value of the constants. `PROJECT.json` is the
index: components, runs, the line of code behind every definition, findings, hazards,
theorems, and for every property a mutant (a plausible bug, kept in the module next to
what it mutates) that violates it.

## 1. The system

infra-go is a library of packages for Go services. Some of it is a thin layer over
other libraries (`orm`, `storage`, `hash`, `stringx`). Its own logic, and what is hard
to test in it, is in the following parts.

| Part | State it keeps | Operations | Hard because of |
|---|---|---|---|
| `syncx.SingleFlight` | `calls` map, call records with a wait group, outcome and a lazy `done` channel | `Do`, `DoCtx`, `Forget` | leaders, waiters and helper goroutines; panic, Goexit, cancellation |
| `syncx` `OrDone`, `Merge`, `FanOut` | channels, wait groups | one goroutine per stage or output | blocked sends, cancellation, closing a channel others send on |
| `syncx.OnceValue/OnceError` | `sync.Once`, value, panic | `Get` | callers that arrive while `load` runs or panics |
| `syncx.Semaphore` | buffered channel and wait group | `Acquire`, `TryAcquire`, `Release`, `Wait` | two counters changed one after the other |
| `syncx.ConcurrentMap` | shards with a lock each | `Set`, `Get`, `GetOrSet`, `GetAndDelete`, `Delete`, `Len`, `Range`, `Keys`, `Values`, `Clear` | walks that hold one lock after the other |
| `service.ServiceGroup` | service list, `started`, start barrier, stop-once | `Add`, `Start`, `Stop` | Stop racing with Start, panicking services |
| `redisx.Lock` | key in Redis, token, renewal goroutine | `TryLock`, `Lock`, `Unlock`, `renewLoop` | lost replies, late requests, expiry, crashes |
| `cache.MemCache` | map, LRU list, expiry, scan goroutine, single flight | `Get`, `Set`, `SetEx`, `Delete`, `Take`, `Increment`, `Expire` | lock upgrade, scan against writers, stampede |
| `cache.RedisCache` | Redis keys, placeholders, single flight | the same | failures between steps, several instances |
| `breaker` | ring of buckets, `lastPass`, registry by name, ring of reasons | `Allow`, `Do…`, `GetBreaker`, `RemoveBreaker` | idle times, clock read twice, load/compare/store, double-checked lookup |
| `ratelimit` | tokens and time, time stamps, counter; Redis keys | `Allow`, `AllowContext`, `RetryAfter`, `Release` | clocks of several instances, reordering, key expiry |
| `retry` | attempt number, previous delay | `Do…` | overflow of the shift, cancellation at any point |
| `websocket.Conn` | `closed`, `done`, mutex, socket | `Write…`, `Close`, ping | close against write, stalled peers |
| `websocket.Server`, rooms | connection table, rooms in memory or Redis, counter | `ServeHTTP`, `Join`, `Leave`, `CloseConn`, `Close` | accept against close, panics, crash and restart |
| `websocket` cluster | subscription, buffer, dispatcher | `Publish`, `Subscribe`, `Stop` | lost connections, full buffer |
| `httpx` Timeout | response buffer, flags | `Write`, `Flush`, `Done`, `Timeout` | handler that outlives the request |
| `httpx` MaxConns, RateLimit, Breaker middleware | slots, promises | per request | panics, timeouts, missing release |
| `httpx` other middleware | the body as it was unwrapped, recorded status, buffered response | per request | a stack in any order, panics after a part was written, limits behind a decoder |
| `httpx.Server` | mux, route list, global middleware, cached handler | `AddRoutes`, `Group`, `Use`, `SetNotFoundHandler`, `Handler`, `Start` | set up in any order, and while requests are served |
| `taskq` | `started`, asynq's server; the default options | `Start`, `Run`, `Shutdown`, `Enqueue…` | life cycle by several goroutines, options appended to shared slices |
| `trace` | `currentAgent`, resource attributes | `StartAgent`, `StopAgent`, `AddResources` | spans during a stop, restarts, failing starts |
| `logger` | list of extractors, global Logger | `RegisterContextExtractor`, `ReplaceGlobal`, `Close`, `…Ctx` | a list that is replaced while others walk it |
| `mapping`, `conf` | caches of parsed tags and of required structs | `Load…`, `Unmarshal…`, `FillDefault`, `FillAndOverride` | many ways to a value that must agree, caches for the life of the process, map order |
| `cast` | none | `To…E` | edges of every pair of types |
| `jwt` | none; tokens in the hands of clients | `GenerateTokenPair`, `Parse…`, `RefreshToken`, `AuthMiddleware` | chains of refreshes, several applications with one secret, the clock |

How they interact: `MemCache` and `RedisCache` run their fetches in a
`SingleFlight`; `httpx.Server` and `websocket.Server` are members of a
`ServiceGroup`, and the task consumer may be; every package logs through `logger`,
whose extractors take the trace IDs from the context; the middleware of `httpx` uses `breaker` and `ratelimit`, and
nests (`Timeout` inside `MaxConns`); `websocket.Server` writes through `Conn`,
keeps its rooms in memory or in Redis and reaches the other instances through the
cluster bridge. `redisx` is the client below the lock, the cache, the limiters
and the rooms. `conf` loads through `mapping`, and both convert through `cast`.

What makes each part correct is stated by the properties of its module; the
hazards in `PROJECT.json` give for each the line where it bites and the
properties that would catch it.

## 2. Modules

One module per component. Each action is one critical section, one channel
operation, one Redis command or one atomic access of the code, so that TLC
interleaves what the code interleaves. Redis, the network, the clock, contexts,
the peer of a connection and the callbacks of the application are external: they
do what the code has to cope with.

| Module | Code | State and steps |
|---|---|---|
| `SingleFlight` | `syncx/singleflight.go` | `calls` and a pool of call records; a caller's `pc` is its place in `Do`/`DoCtx`. `FnEnds` is the end of `fn` in each way it can end, `WgDone`, `Unlink` and `ReturnOutcome` are what follows. A record may be reused only when nothing refers to it (garbage collection). `forgotten` and `forgot` are history: what `Forget` has detached. |
| `OrDone`, `FanOut`, `Merge` | `syncx/ordone.go` | a stage holds at most one value; an unbuffered channel is a rendezvous, one step of both sides. `FanOut` and `Merge` extend `OrDone`, as the code calls it. |
| `Once` | `syncx/once.go` | `sync.Once`'s lock, the cached value and panic |
| `Semaphore` | `syncx/semaphore.go` | the wait group's count and the channel's length |
| `ServiceGroup` | `service/servicegroup.go`, `httpx/server.go` | the group, each service's goroutine, the goroutine that closes the barrier, the call of Stop. Services differ in whether they remember a Stop, miss one that comes too early (`httpx.Server` before its `http.Server` is stored) or ignore it. |
| `RedisLock` | `redisx/lock.go` | the key with owner and remaining time, requests and replies in flight, the holder and its renewal goroutine; `L` instantiates `Lease` with the key's owner and time and with how far each attempt has come |
| `Lease` | | the abstract specification of a lock with an expiry: granted when free, prolonged and ended for its owner, ended by time |
| `MemCache` | `cache/memcache.go` | map, LRU list, scan goroutine, the flight per key; expiry is an event (`Lapse`) |
| `RedisCache` | `cache/rediscache.go` | keys with value, raw value or placeholder; the flight per instance and key |
| `Breaker` | `breaker/window.go`, `breaker/sre.go` | the ring, and the log of all events as the reference; a request's steps through `accept` |
| `Breakers` | `breaker/breakers.go`, `circuit.go`, the two breaker middlewares | registry, instances, promises, the ring of reasons |
| `TokenBucket`, `SlidingWindow` | `ratelimit/ratelimit.go`, `redis.go` | the local or the Redis limiter (`shared`, chosen initially); a Redis call reads the clock when it is sent and runs later |
| `Admission` | `max_conns.go`, `ratelimit.Concurrency`, `rate_limit.go` | slots and requests, with or without the Timeout middleware inside (`timeouts`) |
| `Retry` | `retry/*.go` | attempt, delay, the configuration `c`; durations are integers of `Width` bits that wrap |
| `WsConn` | `websocket/conn.go`, `startPing` | writers, ping goroutine and closers on one connection |
| `WsServer` | `websocket/server.go`, rooms, handler | connections through `ServeHTTP`, room operations as one step (memory) or several (Redis), `Close`, restart. `Join` and `Leave` are called by callbacks and by the application's other goroutines (`Joiners`) at any time, with any connection that their server has or had; `late` is history: who was put into a room by such a goroutine after its clean-up |
| `Cluster` | `websocket/cluster.go`, `bridge_redis.go` | one channel, and per node the subscription, its buffer and the dispatcher |
| `TimeoutWriter` | `timeout.go`, `timeout_writer.go` | handler and middleware goroutines and the response on the wire, for handlers that flush or do not (`streams`) |
| `ConcurrentMap` | `syncx/concurrent_map.go` | the pairs, who waits for or holds the lock of which shard, and for each walk what it has seen, what was there all the time and what at any time (history). `sync.RWMutex` is modelled with its preference for a waiting writer. |
| `Taskq` | `taskq/*.go` | a `Config` with its defaults, `started` and asynq's server, the steps of `Run`, enqueueing with the caller's slice of options |
| `TraceAgent` | `trace/agent.go`, `resource.go` | the lock, the agents that were made and their provider, file and attributes; spans in a provider's batch and exported |
| `Logger` | `logger/logger.go`, `log.go` | the list, the `removed` flags, a log call's walk over the list it has read, the global Logger and open files |
| `MiddlewareChain` | `httpx/middleware/*.go`, `httpx/respw/*.go` | one request: its body as a stack of encodings, and `todo`, the calls that are pending (entering a layer, `WriteHeader`, `Write`, `Flush`, a return, a panic). Every layer turns the call it is given into calls of its neighbour. |
| `Router` | `httpx/server.go`, `server_group.go`, `server_options.go` | mux, route list, groups, middleware, cached and served handler; a request's pre-check, 404 check and dispatch are three steps, and routes may be added between them |
| `Conf` | `mapping/*.go`, `conf/*.go` | operators over records: tags and their options with the two caches, the processing of a struct, its fields and what is nested, pointed to or embedded, conversion and constraints of a value, overrides; a map is walked in an order that the call is given. On top of them a program's calls of `Load`, `UnmarshalKey`, `FillDefault` and override, with the caches carried from one to the next |
| `Cast` | `cast/*.go` | a value that is converted again and again; types keep their order of widths at a few bits, floats their rounding, and what Go leaves to the implementation is a choice |
| `Jwt` | `jwt/*.go` | tokens as records, the clock in halves of a second, the steps of `GenerateTokenPair` between its readings of the clock, for callers whose claims may name a subject, an issuer and an audience (`Identities`) |
| `SingleFlightProof`, `SyncxProof`, `LifecyclesProof`, `StoresProof`, `ResilienceProof`, `HttpProof`, `WritersProof`, `WebsocketProof` | | the proofs, one module per run (section 4) |

The MC modules give constants their values and bring related components into one
run: `MCStores`, `MCData`, `MCHttp`, `MCLifecycles`, `MCResilience`, `MCSyncx`,
`MCWriters` and `MCWebsocket` extend one component and instantiate the others over variables of
their own. Their variable `which` says which component runs; the variables of the
others keep their initial values, so that the states are those of the components
side by side and not their product. `MCStores` chooses for the lock between a world
in which everything may fail and a timely one, and has `MemCache` twice, without a
limit (`Free`) and with one (`Limited`). `MCData` has the programs and calls
for `Conf` and the reference they are compared with, which says for one field, in one
place, what each combination of options promises. The assumptions that the proofs
make about the constants of an MC module are ASSUMEs there, which TLC evaluates on the
run's values.

## 3. Runs

| Run | What it shows | Bounds, and why they are enough |
|---|---|---|
| `singleflight` | one execution at a time for a key nobody forgot; the outcome is on the record before anyone is woken; no landed call stays linked; every call returns | three callers (leader, waiter, late-comer), two records, so that one is reused while others are in use |
| `lifecycles` | group: Stop at most once and only behind the barrier; a panicking start waits for it; Stop returns, and ends a group whose services remember it. Consumer: a task has its own options, `started` tells whether Shutdown is needed, the default queue is consumed. Agent: no span lost at a stop, nothing of an earlier agent alive. Logger: no registration lost, no walk calls an extractor that was unregistered before it came to it | four services of three kinds, one Start, one Stop by the application and one by a panic; one goroutine for each of Start, Run, Shutdown and the producer, and every Config over two queue names; two goroutines and two starts of the agent; two extractors, two further Loggers |
| `stores` | lock: it implements `Lease`, renewal survives errors and orphaned keys expire, and in the timely world the holder owns the key. Unlimited `MemCache`: only expired entries are collected, and all of them; Take returns. With a limit: map and LRU list agree, in the order of use and within the limit. `RedisCache`: a placeholder never replaces a value | two clients, a TTL of three ticks (renewal after one), one message of each kind per client in flight; two callers on one key; one caller, three keys and other writers over a limit of two; two instances with other writers and a Redis that fails |
| `resilience` | history equals the log of the last intervals; a probe after the cool-down, and one, unless requests overlap between load and store of `lastPass`; one breaker per name, every request of `Do` reported, newest reasons; all attempts, none after cancellation, growing non-zero delays within the ceiling; the promised bound of both limiters over every stretch of time, and an honest RetryAfter | three buckets of two ticks: every phase of an idle time around one window, with four events; two goroutines in `accept` over two events and five ticks, time enough for two probes; two clients and five requests over a ring of two reasons; eight-bit durations that overflow within ten attempts; several refills or windows with key expiry and failures |
| `http` | no more handlers than the limit, no leaked slot; the handler reads only what is decoded, signed and within the limits; one whole response, with the status that logs, breaker and span report; the cached handler is up to date, middleware in order, 404 and 405 as the mux has them; failures, Close and restart of one websocket server never take another server's connection out of a room in Redis; the business claims of a login survive refreshes, and a token is accepted for its lifetime only, and where issuer and audience are its maker's or, if that has none, its caller's | six requests, limit two; five stacks that put each wrapper inside and outside of Recovery and Cryption, four units of body over a buffer of two; two groups, two of the route lists, one request to a server that is being set up; two servers with one connection each; one server fails, closes and restarts once while its connection's callbacks join and leave, the other has a goroutine besides that does so at any time; three applications with one secret, one of them without issuer and audience, callers that claim neither or those of another application, four tokens (a login and a refresh), access tokens of one second, and one second of time |
| `syncx` | the semaphore's counters agree and Wait covers everything acquired; order and closing of the channel stages; one outcome of OnceValue; a walk of the map sees all that stays and nothing that never was; nobody is stuck | three goroutines over two slots; three outputs, two sources; four callers; two shards, three keys, one writer and one walker |
| `writers` | one goroutine in the socket, no write after Close, Close returns and ends the ping; the body once, in order and with the handler's status, one response and not two unless it is flushed, nothing written after the middleware returned, which it does | two writers, ping and two closers; four writes, any number of flushes |
| `websocket` | nothing is left of a connection whose ServeHTTP has returned, unless another goroutine joins a room with it afterwards, the room maps mirror each other, closed connections end; messages in order and without gaps, everyone with a working subscription catches up, Stop ends both goroutines | two connections with panicking callbacks and one other goroutine that joins and leaves with both, Close; two nodes, three messages over a buffer of one |
| `data` | configuration: what is written is what the tags promise, and no call depends on earlier ones or, where no two keys of a map have the same text, on the order of a map. Conversions to numbers, texts and booleans are exact or refused. | a field of each kind with every combination of options, in a struct that is nested, pointed to or embedded or not, in every source and representation of a value, but for a list in the file with a range; programs of three calls for the caches. Every pair of types, with 2, 3, 4 and 6 bits for 8, 16, 32 and 64 (`int` as wide as `int64`) |

A property that joins several (`RegistryExact`, `LimitsExact`, `RequestExact`, ...) is
the conjunction of named parts that are stated, each with what the code says of
it, in the component's module.

Three runs are violated, each by a disagreement between the code and its comments
that is quoted in its finding:

- `singleflight_forget`: a leader that `Forget` has detached unlinks its successor,
  and a third call runs next to one that nobody forgot.
- `admission_ratelimit`: RateLimit with a `Concurrency` limiter never gives a slot
  back.
- `rooms_ghosts`: Close of a websocket server that owns its Redis client closes the
  client before every connection has left its rooms, and a connection that no server
  has stays a member.

### Other disagreements met while modelling

The properties below are stated in the modules next to those that hold. Each is
violated when the module is checked with the constants given (others small).

| Module, property | Constants | The comment, and what the code does |
|---|---|---|
| `SingleFlight`, `NoFalseSuccess` | `"goexit" \in Outcomes` | "no caller can mistake a zero value + nil error for a success" (`singleflight.go:59`); waiters of an `fn` that calls `Goexit` get exactly that. |
| `ServiceGroup`, `NoStopBeforeStart` | two workers | "never before that service's Start has been called" (`servicegroup.go:33`); the barrier opens on entry to the goroutine, before Start. |
| `ServiceGroup`, `LateServicesLeftAlone` | two workers | "services added afterwards are neither started nor stopped" (`:90`); `doStop` takes its own, later snapshot. |
| `ServiceGroup`, `BarrierStopEndsGroup` | a worker that panics and a server | the barrier "avoids a service stopped before it ever started" (`:116`); `httpx.Server.Shutdown` is a no-op until its `http.Server` is stored. |
| `RedisLock`, `HeldIsOwned` under `TimelySpec` | `TTL = 1` | "business logic that runs longer than the lock expiry is covered" (`lock.go:64`); at the smallest TTL the renewal interval is the whole TTL. |
| `MemCache`, `ExpiredStaysExpired` | | "a missing key returns ErrNotFound" (`memcache.go:299`); Expire revives an expired entry that is still in the map. |
| `RedisCache`, `IncrementInitializes`, `ExpireReportsMissing` | | "a missing key is initialized to delta" (`rediscache.go:198`), "a missing key returns ErrNotFound" (`:214`); a placeholder is no integer, and Expire with ttl <= 0 ignores the number of deleted keys. |
| `Breaker`, `NothingOlderCounted` | `Skew = 1` | "Align to the interval boundary to avoid accumulating drift" (`window.go:100`); the clock is read twice, and a boundary may lie between. |
| `Breaker`, `AlwaysProbed` | | "when nothing has passed for longer than this, one probe request is let through" (`sre.go:16`); not before `lastPass` has been set once. |
| `Breaker`, `OneProbe` | two requests, as in `MCResilience` | "force one probe through" (`sre.go:87`); load, comparison and store are separate, and requests that overlap there are all probes (`ProbesApart` says how far). |
| `Breakers`, `AllReported` | `Middleware = TRUE` | "failed ones (>=500) report Reject" (`middleware/breaker.go:51`); a panic is not reported, since the report is not deferred. |
| `TokenBucket`, `RateBound`; `SlidingWindow`, `WindowBound` | two callers, `MaxDelay` 1 and 2 | "suits multi-instance deployments" (`redis.go:53`); scripts that run in another order than their clocks were read refill twice, or prune each other's records. |
| `SlidingWindow`, `HintDefined` | `Limit = 0` | "returns 0 when the window ... holds no records" (`ratelimit.go:196`); it indexes an empty slice. |
| `FanOut`, `SlowBlocksNobody` | one reader of two outputs | "A slow consumer on one output channel never blocks consumers of the other" (`ordone.go:74`); from the second value on it does. |
| `Once`, `PanicNotCached` | | "the failed result is not cached" (`once.go:7`); the panic is. |
| `WsServer`, `CloseDisconnects` | | "disconnecting all connections" (`server.go:392`); one accepted during the last Range stays. |
| `WsServer`, `NoStranger` | `Redis`, `MaxRestarts = 1` | "globally unique connection ID" (`:186`); the counter begins anew and the rooms in Redis stay. |
| `WsServer`, `ClosedConnEnds` without its case `"leaked"` | `MayPanic` | "HandleClose is called when the connection is closed" (`handler.go:30`); the clean-up that calls it is deferred only after HandleOpen (`server.go:228`), and begins with it: after a panic of HandleOpen, or in HandleClose, the connection stays in the table and in its rooms. |
| `WsServer`, `RoomsMirror` | `Redis` | "keep the bidirectional mapping" (`room_redis.go:22`); the commands of a pipeline may take effect in part. |
| `Cluster`, `EveryoneReceives` without its `conn` disjunct | | "every instance ... receives the message" (`cluster.go:112`); after one Receive error nothing subscribes again. |
| `TimeoutWriter`, `Unmixed` without `~streams` | | the response "can be safely discarded after a timeout" (`timeout_writer.go:12`); what was flushed is out already. |
| `Retry`, `BackoffGrows`; `NoZeroInterval` | `delay = 5` without a ceiling; `delay = 4` with jitter, without a ceiling | "Saturate on a shift overflow ... instead of producing a bogus value" (`delay.go:22`); a shift may wrap to a larger positive value, and jitter on the saturated maximum to a negative one. |
| `ConcurrentMap`, `MapMoves` | `NestedReads = TRUE` | "no writes should be performed during the traversal" (`concurrent_map.go:138`) suggests that reads may be; a `Get` in the callback waits for a writer that waits for the traversal. |
| `Taskq`, `OwnOptions` | `SharedSpare = TRUE`, two senders | "appending directly could reuse the backing array ... and leak state across calls" (`producer.go:35`) is avoided for the defaults, but `EnqueueIn` and `EnqueueAt` append to the caller's slice. |
| `Taskq`, `RefusalHonest`; `Stoppable` without `crossed` | a runner | "consumer already running" (`consumer.go:54`) is also the answer after a `Run` that failed; a Shutdown between the two steps of `Run` clears `started`, and no later Shutdown stops the server. |
| `Logger`, `CalledRegistered` | | "undo it when no longer needed" (`logger.go:57`); `unregister()` does not wait for a log call between the check of the flag (`:102`) and the call (`:105`), which still calls the extractor. |
| `Logger`, `ClosedStaysClosed` | | Close is "closing file outputs" (`logger.go:375`); a log call that had loaded the Logger before it was replaced opens the file again. |
| `MiddlewareChain`, `ReportsHonest`, `ReturnedWhole` | `Careful = FALSE` | "Status returns the actual response status code" (`recorder_writer.go:37`); after `WriteHeader(103)` it is 103 while the client gets 200. In a buffered Cryption response the last status wins, not the first. |
| `MCData`, `HistoryFree` | `Programs <- TwoTags` | "Unmarshaler methods only read their own fields and never mutate state" (`unmarshaler.go:63`); `structRequiredCache` is keyed by the type only (`utils.go:368`), and an unmarshaler for yaml tags gets the answer for json tags. |
| `MCData`, `HistoryFree` | `Calls <- AllCalls` | "rather than picking one depending on map iteration order" (`utils.go:174`); the keys of a nested YAML map become texts, and of two that have the same (`1` and `1.0`, say) the one that the walk meets last stays (`normalize.go:97`). |
| `MCData`, `FieldsExact` | `Calls <- AllCalls` | "Every path that writes a field must call this function" (`utils.go:343`, of the range); a list in the file is not checked (`unmarshaler.go:637`), although a default of the same field is (`:904`). |
| `MCData`, `OptionsBind` | `Programs <- Durations` | "As on the config value path, environment variables must satisfy the options and range constraints too" (`unmarshaler.go:859`); a duration in the file is not checked against its options (`:441`). |
| `MCData`, `MisspelledRefused` | `Programs <- Misspelled` | "a misspelled dependency name makes the field **permanently required**" (`unmarshaler.go:383`); the check that prevents it skips embedded structs. |
| `Cast`, `TimesExact` | | "Numeric types are treated as nanoseconds" (`time.go:21`); a `uint64` above `MaxInt64`, or a float that does not fit, becomes another duration or time without an error (`:47`, `:118`). |
| `Cast`, `ConvertedExactly` | `IntBits = 4` | "On 32-bit platforms int is narrower than int64, so an extra check is needed" (`cast.go:62`); `ToIntE` has it for floats, and truncates an `int64`, `uint32` or `json.Number` (`number.go:40`, `:52`, `:78`). |
| `Jwt`, `Undisguised` | as in `MCHttp` | "so a caller cannot disguise its own token as another application's token through claims" (`validation_test.go:183`); where the application has no issuer or audience configured, its caller's `iss` and `aud` stay in the token (`jwt.go:107`), and an application with the same secret takes it for its own. |
| `Jwt`, `ExpiresAtExact` | as in `MCHttp` | "access token expiry as a Unix timestamp in seconds" (`config.go:45`); the clock is read once more for it (`jwt.go:152`), and it may be a second later than the token's. |

Seen in the source, and not stated as a property: a goroutine that calls `Join` on a
connection after ServeHTTP has called `room.Delete` leaves it in the room for good,
since nothing looks at whether it is closed (`conn.go:156`; `GoneIsForgotten` excepts
it by `late`); `Status` of a panicking request is
neither logged nor reported to the breaker when Recovery is registered outside of
them (`ReportsHonest` excepts it), although "every request" is logged
(`middleware/logger.go:13`); the closer of `ErrorOutput` is dropped
(`logger.go:185`); `content_security.go:42` and `internal_middleware.go:267` speak
of 403 where the code answers 401, `internal_middleware.go:228` and `:236` of limits
of 4 MB and 1 MB where the code has 5 MB, and `:48` of a 403 for foreign origins
that the CORS middleware lets pass.

### Fairness

Weak fairness stands for the Go scheduler: a goroutine that can go on does.
Strong fairness is assumed of taking a mutex (its starvation mode hands the lock
over), of a receive or send on a channel that is served in order, and of a select
that does not ignore a ready case for ever. Nothing is assumed of the application,
the network or the peer beyond this: that a function the library calls ends (`fn`,
`fetch`, `Start` after its stop) where the property says so, and that a ticker
ticks. In the MC modules the fairness of a component is conditional on its being
the one that runs; for asynq it is assumed that an active server goes on taking tasks.
Where the system may simply stop (`Allow` with no further
requests, a bounded number of messages) the configuration does not check for
deadlock.

## 4. Proofs

All for every value of the constants that satisfies the modules' assumptions: that
sets of goroutines are finite, sizes and limits natural numbers, configurations and
routes well formed (`TokensAssumption`, `RoutesAssumption`), that a stack has a
middleware at most once (`StacksAssumption`), that a limiter costs
something and holds one request (`LimiterAssumption`), that a retry's Delay and number
of retries are not negative and fit (`ConfigAssumption`), that roles are played by
different goroutines (`CallersAssumption`), and what else is named below. A proof module extends the MC module of its run (`SingleFlightProof`:
`SingleFlight`), so that a theorem is about the formula that the run checks, with
other constants; where the MC module fixes something else than a bound (rooms in
memory or in Redis, `Do` or the middleware), so does the theorem.

| Theorem | Property | What is assumed besides |
|---|---|---|
| `SingleFlightProof!TypeCorrect` | `TypeOK` | |
| `SingleFlightProof!OneExecutionPerKey` | `OneExecution` | |
| `SingleFlightProof!OutcomeBeforeWake`, `LandedIsUnlinked` | `NoFalseSuccess`, `LinkedIsInFlight` | `fn` does not call `Goexit` (needed, see above) |
| `SyncxProof!CountersExact`, `SemaphoreTypeCorrect`, `WaitCoversAll` | `CountsAgree`, `TypeOK`, `WaitCovers` | |
| `SyncxProof!SharedStaysExact` | `SharedExact` | any assignment of keys to shards |
| `SyncxProof!StagesStayOrdered` | `StagesOrdered` | |
| `LifecyclesProof!StopsDisciplined` | `StopDiscipline` | |
| `LifecyclesProof!ConsumerStaysExact` | `ConsumerExact` | |
| `LifecyclesProof!ObserversStayExact` | `ObserversExact` | |
| `StoresProof!LockIsALease` | `ImplementsLease` | |
| `StoresProof!HeldMeansOwned` | `TimelyHeldIsOwned` | renewal is on, `TTL >= 2` (needed, see above) |
| `StoresProof!PlaceholdersYield` | `PlaceholderYields` | |
| `StoresProof!CacheStaysExact` | `MemCacheExact` | a limit (without one there is no list) |
| `ResilienceProof!RegistryStaysExact` | `RegistryExact` | at least one reason is kept |
| `ResilienceProof!ProbesHold` | `Probes` | |
| `ResilienceProof!WindowStaysExact` | `WindowExact` | the two clock reads of an add agree, `Skew = 0` (needed, see above) |
| `ResilienceProof!LimitsHold` | `LimitsExact` | calls take effect in the order of their clock reads (`CallsInOrder`), and a key in Redis outlives a call (`KeyOutlivesCall`): the first is needed, see above, the second is the code's TTL |
| `ResilienceProof!RetriesInTime` | `RetryExact` | no configuration whose shift or jitter overflows below the ceiling (`NoOverflow`, needed, see above): without jitter Delay is 2^a * q with q times the ceiling a duration, with jitter half of the ceiling fits on top of it. The defaults are far from it: 100 ms are 2^8 * 390625 ns, and 390625 * 10 s is less than 2^63 ns. |
| `HttpProof!NeverMoreThanLimit` | `HandlersBounded` | |
| `HttpProof!NoSlotLeaks` | `RefusedOnlyWhenFull` | slots are given back (needed, see above) |
| `HttpProof!OthersStay` | `OthersKept` | a node is neither a connection nor a goroutine of the application |
| `HttpProof!RoutingExact` | `RouterExact` | |
| `HttpProof!InboundStaysExact` | `Stack!InboundExact`, a part of `RequestExact` | |
| `HttpProof!TokensHonest` | `TokensExact` | |
| `WritersProof!ConnectionSafe` | `ConnSafe` | |
| `WritersProof!ResponsesWhole` | `ResponseWhole` | |
| `WebsocketProof!InPublishedOrder` | `PublishedOrder` | |
| `WebsocketProof!RoomsStayTidy` | `RoomsTidy` | the application's goroutines use their own server's connections |

Hardly any of these properties is inductive. What has to be added, and why:

- `SingleFlight`: two leaders of a key cannot meet because a leader's record is its
  own and, until its key is forgotten, the one the map holds (`LeaderOwnsKey`).
  `RecordedFirst` is the order `run` writes in: outcome, `wg.Done`, `close(done)`.
- `Semaphore`: the channel's length and the wait group's counter are the cardinalities
  of two sets of goroutines; that Wait is woken by the last one follows because a set
  of one element without it is empty.
- `Once` (`OnceInv`): there is one `load`, by one caller, and nobody returns before it
  has ended. `ConcurrentMap` (`WalkInv`): of the shards behind a walk, whatever was
  there all the time has been seen (`Len`, `Range`) or nothing of it is left (`Clear`);
  a pair that a writer removes behind the walk was not there all the time.
- `FanOut`, `Merge` (`FanInv`, `SourceInv`, `ArrivedInv`): a value is in one of a line
  of places (input, `OrDone`, the broadcast or forwarder, the consumer), each place is
  behind the one before it, and nothing is lost between them unless done is closed. For
  `Merge` the order is kept per source, and its result closes only when every
  forwarder has ended.
- `ServiceGroup` (`StartInv`, `StopInv`, `PanicInv`): where Start is tells what its
  goroutines can have done; doStop runs once and issues nothing before the barrier; a
  panic is in the hands of some goroutine until the stop it asks for is done.
- `RedisLock`: every step is a step of `Lease` or leaves its variables alone: a script
  that the server runs is a grant, a prolongation or a release of the client whose
  token it carries, or finds another token and does nothing. `NetBehind` says that a
  request in the network is never ahead of the attempt that sent it, and that a release
  is under way only for an attempt that is finished, however late it arrives; without it
  a late release could end a lease in use. In the timely world (`TimelyInv`) a held key
  outlives the next tick of the renewal, or a renewal is on its way or has just been
  answered; this is where `Interval < TTL` is needed.
- `RedisCache` (`CacheInv`): what a flight is about to store is a value, and a
  placeholder is written by SETNX only.
- `Breakers` (`RegisterInv`, `RequestInv`, `TallyInv`, `RingInv`): instances are
  numbered without gaps, and the instance of a name's present era is the registered
  one, so that the second look under the write lock cannot make another; the requests
  under way in an instance are what separates its admissions from its reports; the slot
  k places before the ring's index holds the k-th last reason. The last one rests on
  lemmas about `%` on a ring (`PlacesBack`, `PlacesShift`).
- `Breaker` (`PassInv`): `lastPass` is never after the last request that passed; and
  since a probe was alone between load and store, whatever anybody has loaded or is
  about to store is no earlier than its time, however long it takes to store it.
- `Breaker`'s window (`WindowInv`): the bucket k places behind the offset holds the
  events of the interval k before the one being written, and nothing has been added
  since that one. What `history` adds up is then the sum over the last intervals.
- `TokenBucket` (`BucketInv`): what was paid since any time a, and what is left, is at
  most a full bucket and what has come since a; an absent key stands for a full bucket,
  because by the time a key expires everything paid has come again. `SlidingWindow`
  (`SlidingInv`): the records are the requests that were let through within a window
  of anybody who still asks, so that their number bounds every window.
- `Retry` (`RetryInv`): the place in the loop tells how often `fn` has been called, and
  the delay, without jitter, is the one that doubling gives, or the ceiling. That a
  shift which overflows never yields a smaller delay is `ShiftedOut`: what wraps around
  is a multiple of the power of two that was shifted, so that it is zero, negative, or
  above the ceiling. `BackoffGrows` follows from the doubling.
- `Taskq` (`QueueInv`): a task is what its sender's own options and the defaults make; a
  Run under way has marked the consumer, unless a Shutdown came since. `TraceAgent`
  (`AgentInv`): an agent that is up is the current one or is being shut down by whoever
  holds the lock; the names among an agent's attributes are one. `Logger` (`LogInv`): a
  log call has called, or still has before it, everything that has been registered all
  the while, each once; that the list without the removed ones keeps its order is
  an induction over the list.
- `Router` (`RouteInv`): a group's prefix is its ancestors' joined; the mux has the entry
  of every listed route, and at most one that is being added; the handlers are made of
  what is set; what a request has been told is what it finds in the mux as it was.
- `MiddlewareChain` inwards (`InboundInv`): the body has exactly the encodings that the
  layers ahead undo, or junk in the place of one; a plaintext is no larger than its
  ciphertext, but may be than its gzip; whatever limits the body, if it has been passed,
  has made reading fail or found the body small; and once the handler is reached no
  pending call enters a layer again (`NoEntry`).
- `Jwt` (`TokenInv`): every token carries the business claims of its login, and the
  issuer and audience of whoever made it or, where that has none, the ones its caller
  gave; a pair under way has the claims that its tokens will say they were given.
- `MemCache` with a limit (`LimitedInv`): the list is what is left of all uses, latest
  first, without the keys that are not in the map; the map has no more keys than the
  limit. That eviction leaves room and takes the oldest rests on lemmas about a list
  without some of its elements (`WithoutTwice`, `WithoutFirst`, `WithoutWell`, ...).
- `Admission`: the requests inside are at most, or exactly, as many as the slots taken.
- `WsServer` with Redis (`OwnInv`): whoever works on the sets of a connection belongs
  to its own node, and is that node's Close only while it clears the rooms. In memory
  (`MirrorInv`): the two maps mirror each other at all times, the clean-up leaves
  nothing in either, and only goroutines other than its own can join with it afterwards
  (`late`).
- `Cluster` (`Line`, `Cut`): the messages that a node has dispatched, those in its
  buffer, the one it holds and those on the connection are consecutive, and the one
  that a cancelled bridge drops is the last.
- `WsConn`: the holder of `c.mu` is where it is held, and `closed` belongs to the Close
  that won the CompareAndSwap.
- `TimeoutWriter` (`GoroutineInv`, `PartsInv`, `StatusInv`, `AnswerInv`): what is on
  the wire and what is in the buffer are, in this order, the handler's Writes without
  gaps; a header that is due has gone out unless it is left to the first Write; without
  Flush what is on the wire is of the one that answered.

Sums over a set, powers of two, lists with an element removed and concatenations of
lists are defined by recursive functions, and what these compute for every set or list is proved
by induction. The theorems of the library that state induction for a predicate take
an operator, which the provers cannot instantiate; the proofs use instead that the
numbers, or the subsets of a finite set, are well-founded: the set of those with the
property is all of them, or there is a least one without it.

Only model-checked, and why:

- every liveness property (`EveryCallReturns`, `NobodyStuck`, `GroupEnds`,
  `MemCacheLive`, ...): they rest on fairness, which the prover does not handle;
- `FieldsExact` and `HistoryFree`: structs nest, so that `Conf` is built on RECURSIVE
  operators, about which the provers can say nothing;
- `ConvertedExactly`: it is true of the widths that the run gives it and false of others,
  see the table of disagreements, and those widths are all there is to vary;
- the way outwards in `RequestExact` (`Stack!ResponseExact`): the pending calls of a
  stack of any depth are a sequence that every layer rewrites, and what has to be known
  of it is what would come out if all of them were made. It is also not true of every
  stack: without Cryption, a handler that flushes before it sets a status sends 200.

## 5. Not modelled

Wrappers (`orm`, `storage`, `hash`, `stringx`, `redisx.Client`), the formatting of one
response (`httpx/response.go`), formatting and rotation of logs, metrics and the cache
statistics. Of `httpx` the binding of requests, the client's address, the CORS and
request ID middleware, header fields, Hijack and Push, and path parameters in patterns
(a pattern is a sequence of segments with or without a subtree); of the cluster only
broadcasts to everybody. Of `mapping` fields that are maps, structs within lists and
arrays; of `cast` slices, pointers and the JSON fallback; of `conf` the reading of
files; of `jwt` the loading of keys.

## 6. Plan

The order so far: what many goroutines share first (`SingleFlight`,
`ServiceGroup`), what several processes share (`RedisLock`, caches, limiters, rooms,
cluster), the HTTP and websocket connections, life cycles and routing, then
configuration, conversion and tokens, and the lock as a lease. Next, in this order:

1. Proofs: the way of a response through any stack with Cryption
   (`Stack!ResponseExact`); `ExpiredCollected` and the other liveness properties, should
   the prover learn about fairness.
2. The binding of requests, along the lines of `Conf`, and the client's address
   behind trusted proxies.
3. An abstract cache that `MemCache` and `RedisCache` implement.
4. The path normalisation of `RouteBreaker`, `ratelimit.Chain`, and targets other
   than everybody in the cluster.
