# A verification project for code-executor-mcp

code-executor-mcp is an MCP server that runs untrusted TypeScript and Python in a
sandbox and lets that code call the tools of other MCP servers, and sample an LLM,
through local HTTP proxies. These modules model its stateful parts in TLA+; TLC checks
them on small instances, and TLAPS proves every safety property of the passing runs for all
instances. Paths below are relative to `src/src/`.

- [The system](#the-system): components, state, operations, interactions
- [The modules](#the-modules): what models what, and how
- [The runs](#the-runs): what is checked, with which bounds and fairness
- [Disagreements](#disagreements-between-code-and-documentation)
- [The proofs](#the-proofs)
- [What is not modelled](#what-is-not-modelled) and [the plan](#the-plan)

## The system

One Node.js process. JavaScript runs every synchronous stretch to its end, so the
interleavings are those of the stretches between `await`s, callbacks and timers. Other
processes come in where files are shared (caches, locks, manifests) and where the
sandbox runs.

```
 MCP client ──stdio── index.ts ──execute()── ConnectionPool (100 slots)
                                                  │
                            executeTypescriptInSandbox / executePython…
              ┌───────────────────┬───────────────┴──────┬────────────────┐
       StreamingProxy      MCPProxyServer        SamplingBridgeServer   child process
                           │  │  └ handlers ─ SchemaCache ─ file ~/.code-executor/
                           │  └ ToolCallTracker          │  RateLimiter
                           └──── MCPClientPool.callTool ─┴─ LLM provider / MCP sampling
                                    │  ConnectionQueue
                                 MCP servers (child processes, HTTP)
```

| Component | State | Operations | Interacts with | Hard behaviour | Correct means |
|---|---|---|---|---|---|
| Execution pool `mcp/connection-pool.ts` | count of slots, queue of resolvers, draining flag, drain resolvers | acquire, release, execute, drain, clear | index.ts calls execute() per request, shutdown() drains | a slot is handed over while newcomers arrive; drains overlap, time out, race the last release | at most `maxConcurrent` at once, FIFO, no idle slot while somebody waits, a drain that succeeds left nobody behind |
| MCP client pool `mcp/client-pool.ts` and tool call queue `mcp/connection-queue.ts` | clients, calls in flight, queue of requests with expiry, one listener and timer per waiter | initialize, callTool, listAllToolSchemas, getToolSchema, disconnect; enqueue, dequeue, cleanup | proxies call tools, schema caches fetch schemas | check, lock, event, timer and resumption are separate steps; waiters time out inside the queue | no lost request or wake-up, order, every wait ends |
| MCP proxy server `core/server/mcp-proxy-server.ts`, `core/handlers/tool-execution-handler.ts`, `mcp/proxy-helpers.ts` | server, count of active requests, drain resolver, log of calls | start, request callback, stop with drain | one per execution; sandbox requests; schema cache; client pool | requests arrive, are refused and end while stop() drains with a timer | nobody is cut off unless waited for, the log is what happened |
| Executors `executors/sandbox-executor.ts`, `executors/python-executor.ts` | which servers, file and process exist, outcome | one execution | start and stop the three servers and the process | exit, spawn error and timeout race; any start may fail | nothing left behind, truthful report, it returns |
| Pyodide executor `executors/pyodide-executor.ts` | one interpreter for all executions, with the credentials of the last one in its globals | one execution | proxy | executions share the interpreter's globals; a timeout does not stop the code | isolation of executions |
| Sampling bridge `core/server/sampling-bridge-server.ts`, counters in `security/rate-limiter.ts` | rounds, tokens, mode, active responses | POST /sample (with and without streaming), stop | sandbox code; MCP sampling with fallback to a provider | quota is checked before and counted after a call of unknown cost; streams count first and roll back; connections are lost | budgets, exact accounting, every call answered, graceful stop |
| Schema cache `validation/schema-cache.ts`, `caching/*` | LRU entries with two ages, fetches in flight, a file | getToolSchema, prePopulate, invalidate, cleanup | proxies, discovery, daily sync; all instances share one file | deduplicated fetches, stale fallback, overlapping writes, crash while writing | no answer too old or older than before, fallback works, file survives |
| Limiters `security/rate-limiter.ts`, `security/per-client-rate-limiter.ts`, circuit breaker `security/circuit-breaker-factory.ts` | token buckets; windows of timestamps; failures, state, next attempt | checkLimit, reset, cleanup; events of opossum | discovery and the tools ask the token bucket; only tests construct the other two | refills by fractions, window edges, results that come after the circuit opened | no more than promised in any window, retry hints that are right, statistics that agree with the breaker |
| Server `index.ts`, health server `core/server/health-check.ts` | stage of start(), registered tools, connections, phase of shutdown() | start, tool handlers, /ready, shutdown on signals | execution pool, client pool, children, health server | a signal during start-up; drains and clients that hang; executions that outlive the drain | it exits, nobody is cut off before 30 seconds, no child is left |
| Graceful shutdown handler `core/server/graceful-shutdown-handler.ts` | flag, HTTP server, queue | register, shutdown | only tests construct it | server and queue race one timer | it exits, and with 0 only if it ended well |
| Lock file `services/lock-file.ts` | a file with a pid and a time | acquire, release, withLock | the setup wizard | check and act on a file by processes that die | exclusion |
| Configuration writer `services/config-manager.ts` | the file, its temporary and its backups | updateConfig, writeConfig, backupConfig | only tests construct it | crashes between write and rename; several processes | the file is whole and has what was saved |
| Setup wizard `cli/index.ts`, `cli/wizard.ts`, `cli/self-installer.ts`, `cli/config-location-detector.ts`, `cli/mcp-discovery.ts` | answers, configuration file, backups | one run from bootstrap to daily sync | lock file, wrapper generator, schedulers | cancelled prompts, crashes while it writes the user's configuration in place | settings survive, the lock is released |
| Wrapper generation and daily sync `cli/wrapper-generator.ts`, `cli/daily-sync.ts` | wrapper files, the manifest | generateWrapper; a sync of all entries | the wizard and the sync are processes of their own on the same files | the manifest is read, changed and overwritten in place | no entry is lost, entries have wrappers |
| Schedulers `cli/schedulers/*` | unit files, jobs of the platform | install, uninstall, exists | the wizard | a step of several fails, or is the last | what exists is complete |
| Audit log `observability/audit-logger.ts` | a file a day, the cached path, files to delete | log, rotate, cleanup | the bridge's audit logger constructs it | the path is cached beyond its day; cleanup goes by names | entries are kept as long as promised |
| Redis cache `caching/redis-cache-provider.ts` | client, flag, reconnect timer, local fallback | get/set, events | only tests construct it | events of replaced clients | it goes on trying |
| Stateless: validation, authentication, configuration loading, LLM providers, templates, utilities | — | — | — | — | — |

`PROJECT.json` lists every component with its sources and status, and under `hazards`
the lines where this code is hard to test, with the properties aimed at each.

## The modules

One action stands for one stretch of code between two points where something else can
run. Variables carry the names of the fields they model; variables marked *history* in
the modules record the past for properties and influence nothing. Operators with a
fault in their name (`HasSlotOffByOne` above `HasSlot`) are plausible bugs: exchanging one
for the real operator makes the property listed with it in `PROJECT.json` fail, which
shows that the property is not vacuous.

**`ConnectionPool`** — `activeConnections`, `waitingQueue`, `draining`, `drainResolvers`
are the fields; `pc` is where each `execute()` is. `acquire()` is `RejectWhileDraining`,
`AcquireSlot` or `AcquireWait`; `release()` is `HandOver` (a waiter gets the slot, the
counter stays) or `FreeSlot` (which wakes the drains). A waiter that was handed a slot is
`granted` and runs in a later step (`StartFunction`), as its continuation is a microtask.
`drain()` is `Drain`, then release's signal or `DrainTimeout`. `clear()` has no caller in the
program; it makes the pool forget its holders, which the history variable `forgotten`
makes precise. Waiters that `drain()` or `clear()` drop are never settled by the code; they
stay `waiting` outside the queue for ever. `QueuedIsServed` speaks of pools that nobody drains
or clears; what the code says of the others, `DroppedAreRejected`, is refuted by a run.

**`AdmissionControl`** — the abstract limiter that `ConnectionPool` implements: who is
inside, whether it is closed, and nothing about queues and counters.

**`ConnectionQueue`** — the queue of `callTool()`: entries with `timeoutAt`, the lifetime
counters, one action per operation under its lock. It has a specification of its own, and
its operations are used by **`MCPClientPool`**, where `pc` follows each `callTool()`:
`CallAtOnce` or `CallQueued`; the operations on the queue wait for `AsyncLock('queue')` in
`lockQueue`; `LockedDequeue` emits the slot event, which wakes the waiter if its listener is
still there; the waiter resumes in a later step (`Resume`), without looking at the limit
again, as in the code; `WaitTimeout` is its timer. Timers fire and time passes only when no
microtask is due (`NoMicrotasks`), as in the event loop. `now` is `Date.now()`, by which entries
expire; the timer goes by the event loop's own time, and may fire late, or up to `Drift`
before the entry expires (`TimerFires`). Such an entry is alive and nobody listens; `wasted`
counts the dequeues that spend their wake-up on one.

**`MCPProxyServer`** — `request` says where each HTTP request is: sent, reading its body,
waiting for the schema, calling the tool, or over. `Leave` is the `finally` of the request
callback, with the counter and the drain signal; `ToolAnswers` logs the call. `StopProxy`,
`EndDrain`, `CloseProxy` are `stop()`. **`SandboxExecution`** extends it with an executor around
it: `step` is the line of the executor, `stream`, `bridge`, `file`, `process` what exists.
`SpawnFails`, `ProcessCloses` and `Timeout` race to decide the outcome, and `Decide` reads the
log for the report; then each clean-up step is awaited before the next. Both languages
are in one module because their executors differ in few lines: `options` selects them.

**`SamplingBridge`** — `pc` follows each request to `/sample` through the check of the quota
(`Admit`), MCP sampling or a provider, and the section that counts (`Update`), or through a
stream that counts its round first (`OpenStream`) and settles or rolls back. Cost is known
only once the LLM answered. What the calls cost together is the size of a set, that of the
tokens of each call (`TokensOf`), rather than a sum by recursion.
`gone` are the calls whose connection is lost, whose responses never finish. `Stop`, `Close`, `Closed` are `stop()`.

**`SchemaCache`** — several instances of the cache on one file. `cache` and `recency` are an
LRU cache as configured by `LRUCacheProvider` (lru-cache 11: `get()` renews the age of an
entry, and an entry that is too old is returned once and removed). `fetches` is the map of
promises in flight together with the closures waiting on them. `disk`, `writers` and `saves`
are the file, `writeFile()` calls under way and the queue of each instance's lock: writing
empties the file first, and writes of several instances overlap. A schema is a version
number. **`MCSchemaCache`** has the symmetry and the constraint of its runs. **`Subsequences`**
has what a filter leaves of a sequence (`Only`), which is how keys leave the order of
recency: the n-th element left is the one at the kept position that has n kept positions
up to it, a definition without recursion, of which something can be proved.

**`ServerLifecycle`** — `stage` is how far `start()` is, `call` follows the handler of each
request, `phase` is where `shutdown()` is. The execution pool appears as its abstraction:
`Execute`, `Finish` and the drain act on `inside`, `closed` and `forgotten` of `AdmissionControl`.
`link` has the connection of each MCP server and, for stdio, its child, from `Dial` to
`Kill`. `Signal` may come in any stage, since `start()` awaits connections and the health
server; `start()` then goes on beside the shutdown, as in the code. `Ready` is the answer of
`GET /ready`. **`GracefulShutdown`** is the handler class that only tests use; `drainable` says
whether the queue it was given has the optional `drain()`.

**`TokenBucket`** counts in units of `1 / BucketWindow` of a token, so that the refill of a tick
is a whole number; `promised` is the `resetIn` a refused client was told, counting down.
**`SlidingWindow`** keeps timestamps as ages (`served` and `admitted` of both count the requests of the
last so many ticks); a client has a bucket of its own and one per
endpoint, an overridden endpoint has a limit and a window of its own (`LimitOf`, `WindowOf`), and
its `retryAfter` is told in whole seconds. **`CircuitBreaker`** has opossum as
the factory uses it, and the factory's statistics, which `OnOpen`, `OnHalfOpen`, `OnClose`,
`Succeed` and `Fail` update. The breaker must open at the threshold (`MustOpen`), and may open
before it, since opossum counts in a rolling window of its own.

**`RedisCache`** — `clientState` has every client there has been: only the last one is used,
while all of them go on sending events.
**`PyodideExecution`** — `pyAt` is where each execution is, `Of(e)` the interpreter it uses,
and code goes on after its timeout; `leftTasks` are what it leaves in the event loop when it
ends, which go on to call tools (`CallTool`) and to print (`PrintLine`) with whatever globals and
`sys.stdout` they find. **`AuditLog`** has days of UTC, and per file the days of the entries in
it; the midnight from which `cleanup()` counts back is local, and may be a day ahead (`Ahead`).
**`SyncScheduler`** has, for each platform, the sequences of commands and file operations of
`install()` and `uninstall()`; any of them may fail or be the last, and a file is emptied
(`OpenFile`) before it is written, `halfWritten` in between.

**`LockFile`** — each await of `acquire()` is a step of a process that may die: `Create` (empty),
`Write`, `Read`, `Judge`, `RemoveLock`, `Access`. The judgement asks `processExists()`, which takes
every error of `kill(pid, 0)` for an absent process: `Guests` may not signal anybody else, and
to them everybody else is dead. **`SharedFiles`** has files that are overwritten in
place: a write empties the file, and writes that overlap tear it. On it are
**`ConfigManager`**, whose rename moves a file under somebody who is still writing to it, and
whose file may not exist yet; **`WrapperGenerator`**, where a `job` fetches tools, writes a
wrapper, reads the manifest (`ReadToEnter`), empties it (`OpenManifest`) and writes it
(`WriteManifest`), three awaits under a lock that other processes do not have;
**`SetupWizard`**, in which every prompt is an action with what the user
answers; and **`DailySync`**. **`Setup`** composes the last two: a wizard and a sync on the same
files, each of which may die and be started again.

**`Services`** composes the server and the services around it, from `ServerLifecycle` to
`SyncScheduler`. They share no state and do not call each other in the modelled code, so
that a behaviour in which two of them move has no state of either that a behaviour of one
lacks: `part`, chosen in the beginning, says which one moves, and the rest stays as it is.

## The runs

| Run | Expect | States | Shows |
|---|---|---|---|
| `connection_pool` | pass | 37 thousand | the limit (`BoundedConcurrency`), no idle slot (`NoIdleSlotWhileWaiting`), FIFO (`NoOvertaking`), a sound drain (`DrainedIsQuiet`), the inductive invariant (`PoolInv`), service (`QueuedIsServed`), a drain signal that is not lost (`DrainIsSignalled`), and the refinement of `AdmissionControl` |
| `connection_pool_dropped` | violation | | callers dropped by a drain are never rejected |
| `client_pool` | pass | 255 thousand | accounting of calls, entries and listeners, and no lost wake-up (`ClientPoolInv`, with `QueueAccounting` and `NoLostWakeup`), none wasted but on a request whose timer was early (`WakeupReachesWaiter`), order (`WokenInOrder`), and that every wait ends (`WaitEnds`) |
| `client_pool_limit` | violation | | the limit on concurrent tool calls is exceeded |
| `client_pool_stale_queue` | violation | | expired entries fill the queue |
| `execution` | pass | 252 thousand | the counter and the log (`ExecutionInv`), stop and drain (`StopCutsNobodyOff`, `DrainIsTold`), the report (`ReportIsTruthful`), the clean-up on every path (`NothingLeftBehind`), and that the executor returns (`ExecutionReturns`) |
| `execution_report` | violation | | calls in flight at the end are not reported |
| `sampling` | pass | 226 thousand | the token budget (`TokenLimit`), rounds and tokens add up (`BridgeInv`), the exact condition of the round limit (`RoundLimitWithoutRace`), stop (`StopCutsNobodyOff`, `StopReturns`), every call answered (`EveryCallIsAnswered`) |
| `schema_cache` | pass | 596 thousand | structure and deduplication (`SchemaCacheInv`), age (`FreshIsFresh`), fallback (`FirstFailureIsBridged`), saves (`SavedIsOnDisk`), and no going back (`NeverGoesBack`) |
| `schema_cache_file` | violation | | writes that overlap leave a torn file |
| `setup` | pass | 315 thousand | entries have wrappers and the lock is released (`SetupInv`), the user's settings survive in the file or a backup (`SettingsRecoverable`), no wrapper drops out of the manifest unless updates overlap (`NoEntryLostAlone`), and wizard and sync end (`SetupEnds`) |
| `services` | pass | 782 thousand | what each service keeps consistent (`ServicesInv`), both limiters (`LimitsAreKept`), shutdown takes nothing from running code in its first 30 seconds (`NobodyCutOff`), the five ways in which the lock file fails to exclude, and no sixth (`ExclusiveUnlessRaced`), whole configurations (`ConfigIsWhole`), each execution its own proxy, also for the tasks it leaves behind, unless the interpreter is shared (`OwnProxyUnlessShared`), and a signal ends the process (`SignalEndsAll`) |

### Bounds

- `connection_pool`: two slots and four callers, so that two queue up behind two holders
  and newcomers meet a hand-over; two drains, so that they overlap and one can time out
  before the other is signalled. Callers come back after release, so histories are not
  bounded.
- `client_pool`: one slot, a queue of two and four calls: one in flight, a full queue and
  a newcomer. A timeout of two units and a clock that goes to 1, and further as long as
  somebody waits: entries of different ages expire while others are live. A `Drift` of one
  unit: a timer fires before, when, or after its entry expires. Each call is made once; an
  end is final.
- `execution`: three requests, since a drain distinguishes the last one, another one in
  flight, and one that is refused meanwhile.
- `sampling`: three calls, two rounds and three tokens with costs 1 and 2: the limits can
  be met exactly, exceeded by one, and by calls that overlap.
- `schema_cache`: `Ttl` 1 and a clock to 2, since an entry expires at age 1 and is too old
  for the LRU cache at age 2; two versions; one save waiting behind the one under way.
  `OneThingAtATime` is a state constraint: either one live cache, which holds one of two
  tools and serves callers that overlap, or two live caches, with one tool, one caller at
  a time and until the first expiry. Eviction, deduplication and old entries need the
  first, the shared file needs the second, and nothing we state needs both.

- `setup`: one server with two languages, hence two wrappers; a server that lists its tools
  or none, which is a change of its schema to the sync; two wrappers to generate at most
  (`MaxTasks`), the same one twice if a server is listed twice; two starts in all: a wizard
  after a wizard that died, a sync beside a wizard, or either on what a wizard left.
  The configuration is absent, torn or the user's, or a wizard was there before, which is the
  first of the two starts.
- `services`: a slot and two places to wait for two requests, a stdio and an HTTP server;
  a token bucket with a burst above what its window gives, and a history of one window;
  an endpoint with a limit and a window (`OverrideTicks`) of its own, both below the
  client's, and seconds shorter than the window; three guarded calls with a threshold of two, so that one is late; three Redis
  clients; two executions for an interpreter; two processes for the lock of a dead one,
  with two tries each, one of which may not signal the other (`Guests`); two updates that
  overlap, on a file that exists or not; four days with a retention of one, in UTC or another
  zone.

All properties of `schema_cache` are safety properties, for which its symmetry is sound;
the other runs, which check liveness, use none. Deadlock is not checked: each of these
systems may stop (a drained pool, an execution that returned, a process that exited, a
clock at its bound);
where something must go on, a liveness property says so.

### Fairness

Weak fairness stands for: a microtask that is due runs, timers fire, and time passes.
Beyond that,

- `ConnectionPool`: an execution ends, because every executor has a timeout that
  kills it. The drain's own timer is *not* assumed: `DrainIsSignalled` must hold without.
- `MCPClientPool`: no tool has to answer; `WaitEnds` rests on the timers alone.
- `SandboxExecution`: no tool has to answer, and no process has to end. The step that
  stops the bridge ends by `StopReturns` of `SamplingBridge`; the one that stops the stream
  ends only if the stream's clients go (its `stop()` has no timer).
- `SamplingBridge`: an LLM call ends, because its clients have timeouts. Clients need not
  read their answers, and lost connections never finish.
- `Setup`: the wizard's user answers or cancels every prompt, fetches and writes end; nobody
  has to start anything, or die.
- `Services`: the timers of a shutdown fire, and it does what they decided; the graceful
  shutdown handler's write to its audit log, which it awaits before it sets its timer
  (`graceful-shutdown-handler.ts:166`), ends. No code has to end, no server to close, no queue
  to drain, no child to obey.
- `SchemaCache` has no liveness property; nor have the other services.

## Disagreements between code and documentation

Each is a run that TLC ends with a counterexample; `PROJECT.json` quotes the text.

1. **Callers dropped by a drain are not rejected** (`connection_pool_dropped`).
   `mcp/connection-pool.ts:116` says "Reject all waiting requests"; the next line but one empties
   the array of their resolve functions, and nothing else refers to them. Their `execute()`
   neither returns nor throws, and the tool request gets no answer.
2. **Concurrent tool calls exceed `maxConcurrent`** (`client_pool_limit`). Between
   `activeConcurrent--` and the resumption of the waiter that was woken for the slot there
   are several microtasks; a newcomer in between takes the slot, and the waiter takes it as
   well. `NoLostWakeup` is the side that does hold.
3. **Expired requests fill the queue** (`client_pool_stale_queue`). A request that timed out
   leaves its entry behind until some call ends; newcomers are refused meanwhile.
4. **`toolCallsMade` is not complete** (`execution_report`). It is read when the outcome is
   decided, before the drain lets the calls in flight finish. What it says is true
   (`ReportIsTruthful`).
5. **The lock of the schema file** (`schema_cache_file`) belongs to the instance, and every
   execution has an instance. A torn file is not an error for its readers, which start
   without it.

Met while modelling, not runs:

- A request that the policy denies leaves its streaming proxy open (`NothingLeftBehind`
  excepts it; only users of the library can enable streaming). A Python interpreter that
  cannot be spawned raises an `'error'` event nobody listens to (`ExecutionReturns` excepts
  it).
- *Sampling*: the round limit holds only for calls one after the other, since check and count
  are two sections, a whole LLM call apart; `RoundLimitWithoutRace` says exactly when. The
  token limit is checked again when counting, and does hold, so well that the token part of
  the first check can never refuse a call (theorem `UpfrontTokenCheckIsVacuous`).
- *Client pool*: the timer of a waiter (`client-pool.ts:526`) goes by the event loop's time, its
  entry expires by `Date.now()` (`connection-queue.ts:98`). If the timer fires first, the entry is
  still alive; the next dequeue then wakes nobody, and the slot stays idle behind the waiters
  that remain until another call ends (`NoLostWakeup` and `WakeupReachesWaiter` count these).
- *Lock file*: exclusion fails in five ways: if the file is found before it was written,
  removed by somebody who had read the one before it, an hour old, or unreadable, or if its
  owner runs and may not be signalled by whoever judges it, since `processExists()`
  (`lock-file.ts:171-178`) takes `EPERM` for an absent process. `ExclusiveUnlessRaced` has these
  five as its exceptions; `LockExcludes` proves that they are the only ones.
- *Manifest*: the comments in `cli/wrapper-generator.ts` say that its lock "prevents race
  conditions on manifest writes" (line 248) and that it is written "atomically" (291). The lock
  is an `AsyncLock` of the process, and `writeFile()` empties the file first: a wizard and a sync
  that update it at once lose one of the entries, or tear it (`NoEntryLostAlone` excepts updates
  that overlap, which the run has).
- *Daily sync*: the header of `cli/daily-sync.ts` (line 12) promises "Regenerates wrappers only if
  hashes differ". The sync hashes the tools with their keys sorted and with their parameters, while the hash
  in the manifest (`wrapper-generator.ts:506`) is of tools in another form, from which
  `convertToCLIToolSchema` has dropped the parameters: the two agree only for a server without
  tools, and everything else is regenerated every day (`CurrentHash`, `ToCLI` in `DailySync`).
- *Setup wizard*: the answer keep / merge / reset is asked for and ignored, the configuration
  is always merged (`cli/wizard.ts:1145`). A prompt for an LLM provider that is cancelled ends the
  wizard by a TypeError. A server that is down gets an empty wrapper, marked a success.
- *Shutdown*: the drain waits for slots only, so that the audit entry and the answer of an
  execution that has just finished may be lost at exit. `/ready` may say ready while the
  server drains, and before its transport is connected. A failing start during a shutdown exits with 1 in the middle of it. A
  child that is being connected when the signal comes is on no record, and stays
  (`NoChildLeft` excepts it). With Python enabled but its sandbox not ready, `registerTools()`
  returns before it registers the `health` tool (`index.ts:416`). The graceful shutdown
  handler drains its queue only if that has a `drain()` (`graceful-shutdown-handler.ts:214`), and
  the repository's `ConnectionQueue` has none: it exits with 0 while requests wait
  (`ExitCodeIsTrue` speaks of queues that can be drained).
- *Pyodide*: executions that overlap share globals and stdout, so that calls go through the
  proxy of another one. Tasks that code created and did not await stay in the event loop
  after `runPythonAsync()` (`pyodide-executor.ts:414`): they use the globals that the next
  execution has put there, and its capture, or print to the console
  (`OwnProxyUnlessShared` takes an interpreter for shared as long as they go on).
- *Audit log*: comments say that `rotate()` is "Called automatically at midnight UTC"
  (`audit-logger.ts:200`) and that `cleanup()` "Runs automatically as background task" (231).
  Nothing calls either. Without `rotate()`, entries of later days go to the first day's file;
  `cleanup()` would delete that by its name, comparing dates of UTC with a midnight of the
  local zone. `EntriesAreRetained` bounds how much retention an entry can lose: the days by
  which the path was out of date, and one for the zone.
- *Schedulers*: unit files are written in place (`systemd-scheduler.ts:105`, `109`), and `exists()`
  asks only whether they are there: one that a crash cut short passes for a schedule.
  `runSystemctl()` takes an exit code of 3 for success (280), which only `is-active` gives.
- *Limiters*: the window's `retryAfter` may be over in a tick in which the request is still
  refused, with a `retryAfter` of zero. *Circuit breaker*: a late success clears the count of
  failures that the error of an open breaker reports. *Redis*: an event after `destroy()`
  starts the reconnect timer again. *Configuration writer*: two processes use one temporary
  file (`ConfigIsWhole` speaks of updates that do not overlap).

## The proofs

TLC checks instances; TLAPS (Z3, Zenon and LS4) proves the following for every value of
the constants: each invariant, action property and refinement of the passing runs is stated
by a theorem. What remains with TLC is [at the end](#what-remains-model-checked).

The assumptions are those the modules name:

- *Finite sets* of requests, calls, tools, executions and processes, since what has begun by
  any time is finite and counters count it. The sets of servers, clients, callers and
  caches may be infinite.
- *Positive limits*, as constructors and configuration schemas enforce them: slots, places
  in queues, timeouts, windows, rates, bursts, sizes and ages of caches. Where nothing is
  enforced (the retention of the audit log) zero is allowed.
- *Bounds of the checked instances* (`MaxTime`, `MaxVersion`, `MaxStarts`, `MaxDay`,
  `MaxWaiting`, `MaxFailures`, `MaxClients`) are any natural numbers, so that every finite
  behaviour of the unbounded system is within some of them. `MaxFailures` is not below the
  threshold, as the breaker could not open otherwise. `MaxStarts` is positive, as a wizard from
  before the beginning counts.
- *Different names*: `Console` is no execution, `"nobody"` no cache, `"prePopulate"` no
  caller; the wizard `W` and the sync `S` are processes.

**`ConnectionPoolProofs`** — `Invariance`: `Spec => []PoolInv`. None of the pool's safety
properties is inductive. `BoundedConcurrency` is about callers, while the code looks at a
counter, so `SlotAccounting` ties them: `activeConnections + forgotten` is the number of
holders. For it to survive `HandOver`, the head of the queue must be a waiting caller that
is in the queue once (`QueueInv`), and for no slot to be idle behind a queue, the queue must
only exist when the counter is at its limit and nobody drains. `QueueOrder` says the same of
the history variable `ahead` for FIFO, and `DrainInv` what a finished drain may rely on.
From it follow `Bounded`, `WorkConserving`, `Fifo`, `DrainIsSound`; `DrainCloses`, an action
property; and `Refinement`: every step of the pool is a step of `AdmissionControl` or a
stutter, where `HandOver` is one step in which one client leaves and another enters.

**`SamplingBridgeProofs`** — `Invariance`: `Spec => []IInv`. The counter of rounds is tied to
two sets, the calls that succeeded and the streams that were counted (`RoundAccounting`),
and `RaceInv` bounds the counter together with the calls that were admitted and not yet
counted, which is what an overlap breaks. `ActivityInv` says that `stop()` sees every call
under way. Most steps move one call between places where it counts alike (quiet steps, one
lemma); the five that admit, count or roll back are treated one by one. `tokensUsed` is the size of
`TokensOf(samplingCalls)`: a call that succeeds brings as many new tokens as it cost, and no
other step touches them (`CountTokens`, `TokensStay`). From it follow `TokensBounded`,
`UpfrontTokenCheckIsVacuous`, `CountersAreRight` (`BridgeInv`), `RoundsAccounted`, `RoundsBoundedWithoutRace`
and `StopIsGraceful`.

**`LockFileProofs`** — `LockInvariance` and `LockExcludes`, for any number of processes and
tries. `ExclusiveUnlessRaced` lacks little to be inductive: between the judgement that a lock
was left behind and its removal, other processes move, and what was judged must still be
true. `DeadAreJudged` says so: the owner was dead, or may not be signalled by the judge
(`MaySignal`), and the dead stay dead (`DeadStayDead`). The
lemma `RemovalIsExcused` then shows that whoever removes the file of a process that has the
lock does so in one of the five ways.

**`SandboxExecutionProofs`** — `ProxyInvariance`: `ProxySpec => []ProxyInv`, for a proxy that
anybody calls, drains and stops at any time. `DrainInv` ties the resolver of `stop()` to the
requests it waits for: while the server drains, it is resolved exactly when none is active,
in whatever order the last ones end, are refused or arrive. `ExecutionHasProxy` is the refinement
`Spec => ProxySpec`: an executor makes no step of the proxy that the proxy alone does not have.
`Invariance` adds `StepInv`, by the step of the executor: which of its servers, file and
process may be there. That the clean-up leaves nothing behind is then a matter of its last
step; the invariant is needed for the paths that get there from every failure in between.
The report is a part of the log by induction, as the log only grows at its end.
`AccountsAgree`, `StopIsGraceful`, `DrainIsHeard`, `ReportIsTrue` and `CleansUp` follow.

**`MCPClientPoolProofs`** — first the queue, used by anybody in any order (`QueueKeepsAccounts`):
it is in the order of its timeouts (`InOrder`, `NoneTooLate`), so that what a cleanup removes
is at its front, and the rest is a subsequence without gaps. Then the pool (`PoolInvariance`),
where two things hold it together. `EntriesInv`: a live entry is of a request that waits with a
listener, and expires when its timer is due, or of one that gave up and expires within
`Drift`; and a listener whose time has not come has an entry. `BusyInv`: between the check of the limit and the enqueueing there is a wait
for the lock, in which others may end; but whoever saw the limit used up has at least
`MaxConcurrent` others in flight or with their dequeue *behind* its enqueue in the lock's
queue. It is what becomes `WakeInv` once the entry is there: while a live entry waits, at
least `MaxConcurrent` others are on their way to wake it, less those `wasted` on requests that
had given up early. The code never says so; without it
`NoLostWakeup` is not inductive. `PoolUsesQueue` is the refinement `Spec => QueueSpec`;
`ClientPoolIsSound`, `WakeupsReachWaiters` and `WokenInTheirOrder` follow.

**`SchemaCacheProofs`** — `CacheInvariance`. `EntriesInv` and `FetchesInv` bound whatever may yet be
answered from both sides: no older than what that cache has answered, no newer than what the
server has, for entries, fetches in flight and what they fall back on. `SoundContent`
says the same of the file and of every write under way, since a cache may load what another
one wrote. `TrustInv` follows a tool through a fetch that removes it and puts it back, for the
fallback. `FileInv` is about saves: what the cache has and the file lacks is in a write under
way or a save is waiting for the lock. `RecencyInv` needs what a filter leaves of a sequence,
which the lemmas about `Only` give (`Ranks`, `OnlyKeeps`). `CachesAreSound`,
`FreshEntriesAreYoung`, `FailuresAreBridged`, `SavesReachTheFile` and `AnswersNeverGoBack`, an action
property, follow. The symmetry and the constraint of the run play no role here: the
theorems are about live caches that share a file and overlapping callers at once.

**`SetupProofs`** — `SetupInvariance`. Two processes overwrite files in place, so the proof first
sorts the steps into kinds: those that write nothing (`JobMoves`), those whose write fails
(`WriteStops`), those that read the manifest or write it or a wrapper (`FileMoves`), those of the configuration
(`ConfigMoves`); each part of the invariant is disturbed by one or two of them. `WriterInv` says which
file each process can be in the middle of. `EntriesInv` extends "what the manifest calls a
success is there" to what is read and about to be written. `ManifestInv` is the argument for
`NoEntryLostAlone`: two processes that are both between reading and having written the
manifest have been noted as overlapping (`collided`, which the run reaches); as long as
that has not happened, the one process that has read it to write it has read all that was
entered, whatever the file is meanwhile.
`ConfigInv` has the backup by the time the configuration is emptied. `SetupIsConsistent`,
`SettingsSurvive` and `EntriesStay` follow.

**`ServicesProofs`** — `EveryService`: each of the eleven services keeps an invariant of its own. A
step of the whole is a step of one of them and leaves the others alone (`ServicesMove`), so
the proofs are about `ServerNext`, `BucketNext` and so on, and would hold of any composition.

- *Server*: `SlotsAreCounted` and `NobodyCutOff` lean on the order of `shutdown()`: no connection
  closes before `drain()` is over (`LinksStayOpen`), nobody connects after `start()` (`LinksAreSettled`),
  and each phase of `disconnect()` has dealt with the links of the one before (`ChildrenEnd`).
- *Token bucket*: what was admitted in the last *a* ticks and what is left do not exceed the
  burst and the refill of *a* ticks, for every *a* at once (`TokensAreSpent`). The cleanup
  may forget a bucket since it is full by then, which `BucketRemembers` says.
- *Sliding window*: for the window of each bucket, timestamps are in order, and whoever was admitted of late has one
  (`OldestFirst`, `AdmissionsAreStamped`); a refused client's oldest timestamp expires in the time it
  was told (`RetryIsLate`).
- *Circuit breaker*, *Redis*, *graceful shutdown*: what the runs check is inductive with their
  types.
- *Audit log*: no entry is later than its file by more than `stale`, and what is about to be
  deleted was old by the local midnight, so that an entry in it misses no more than `stale`
  and a day.
- *Schedulers*: what each step of a sequence has completed (`EffectsInv`), and which files are
  whole by then (`WholeFilesInv`).
- *Pyodide*: an interpreter that was never shared has one user, whose proxy is in the globals,
  and whose capture is in `sys.stdout` until its code restores it, while the tasks it left are
  still its use (`UnsharedIsOwn`), so that nobody was misled and only tasks printed astray
  (`NoneStrayed`); in all interpreters servers are there by where the execution is.
- *Configuration writer*: unless two updates overlapped, the one under way has merged all that was saved,
  and the temporary file is its own (`OneUpdate`); the file is whole, or absent with nothing saved.
- *Lock file*: cited from `LockFileProofs`.

`ServicesAreConsistent`, `LimitersKeepLimits`, `ShutdownWaitsForHandlers`, `ConfigStaysWhole`,
`OwnProxyOnly` and `LockExcludesInServices` state the properties of the run.

### What remains model-checked

The liveness properties: `QueuedIsServed`, `DrainIsSignalled`, `WaitEnds`, `ExecutionReturns`,
`EveryCallIsAnswered`, `StopReturns`, `SetupEnds` and `SignalEndsAll`. They rest on fairness, and
`ENABLED` of an action is out of the provers' reach here. The five runs that end with a
counterexample refute a property and prove nothing.

## What is not modelled

- Data that no property tells apart: JSON, schemas, prompts, URLs, wrapper source text,
  log lines. Validation and authentication are a nondeterministic verdict.
- Stateless parts: validation, authentication, templates, LLM adapters, Docker detection,
  metrics. Of the wizard, what it detects of the machine is chosen freely.
- The precedence of configuration sources, which is read once before anything runs.
- How the configurations of MCP servers are merged, and the WebSocket clients of the
  streaming proxy.
- In Redis, the values: they are read from the LRU cache alone, and written without waiting.
- Timers as numbers, except where two of them are compared (`MCPClientPool`,
  `SchemaCache`, the limiters):
  elsewhere a timer is an action that may happen at any time after it was set.

## The plan

Done, in this order: `ConnectionPool` with its abstraction and proofs; `ConnectionQueue` and
`MCPClientPool`; `MCPProxyServer` and `SandboxExecution`; `SamplingBridge` with proofs;
`SchemaCache`; `SharedFiles` with the wizard, the wrappers and the sync (`Setup`); the server
and the services around it (`Services`), `LockFile` with proofs; the proofs of
`SandboxExecution`, `MCPClientPool`, `Services`, `Setup` and `SchemaCache`.

What is left:

1. To prove *how far* the limits that do not hold are exceeded: the calls in flight of
   `MCPClientPool` against `MaxConcurrent` and the dequeues under way, the rounds of
   `SamplingBridge` against the number of calls that overlap.
2. To prove that the server, in `Services`, implements `AdmissionControl` for its execution
   pool, so that what is proved of `ConnectionPool` carries over by the abstraction.
3. To model, where it adds something: the clients of the streaming proxy; the precedence of
   configuration sources, as a pure function with a reference definition.
