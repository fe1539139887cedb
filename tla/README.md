# A formal model of the playground backend

TLA+ specifications of the Hedera playground backend, the TLC configurations
that model-check them on small instances, and TLAPS proofs of the results that
hold for every value of the constants. Paths below are relative to the
repository; `job.js` is `app/playground-api/src/job.js` and `playground.js` is
`app/playground-api/src/api/playground.js`.

Contents: [inventory](#1-inventory) · [plan](#2-plan) ·
[how the modules correspond to the code](#3-how-the-modules-correspond-to-the-code) ·
[runs](#4-what-the-runs-check) · [fairness](#5-fairness) ·
[proofs](#6-what-is-proved) · [disagreements found](#7-where-the-code-does-something-else-than-one-may-think) ·
[limits](#8-what-is-not-covered)

## 1. Inventory

The repository runs user programs in sandboxes (the *playground API*), answers
questions about them with a language model (the *AI assistant*), and puts
HAProxy gateways with a token-checking agent in front of both.

| Component | State it keeps | Operations | What is hard | What makes it correct |
|---|---|---|---|---|
| **execute request and Job** (`job.js`, `playground.js`) | `remaining_job_spaces`, `job_queue`, `box_id`; per job `state`, `dirty_boxes`; the isolate boxes on the host | `POST /execute`: validate, `prime()`, `execute()`, `cleanup()` | requests interleave at every `await`; a slot is tested before a wait and counted after it; `isolate --cleanup` is started and not awaited; every step may fail; box ids wrap | slots are never lost or oversubscribed, first come first served, no lost wakeup, no orphaned sandbox, a sandbox in use is not destroyed, every request is answered |
| **safe_call** (`job.js:129-329`) | `stdout`, `stderr`, `output`, `status`, the metadata file | spawn `isolate --run`, data handlers, `process.kill`, `exit`/`error`, parse metadata | data, exit and metadata arrive in any order; several chunks overflow before the kill works | output stays within `output_max_size`, nothing is dropped in silence, each call settles |
| **routes and process life** (`index.js`, `playground.js`) | everything above, in memory | start, SIGTERM, `GET /packages`, restart of the container | `process.exit` under requests in flight, an unhandled rejection, ids that start from 0 again over the sandboxes that were left | no request works in a sandbox of an earlier life; slots are right again after a restart |
| **runtimes, limits, packages** (`runtime.js`, `package.js`, `config.js`) | the list of runtimes | load, match, `get_latest_runtime_matching_language_version`, unregister | `\|\|` chains with 0, several runtimes for an alias, an index of -1 | the limit that applies is the most specific one; the newest match is chosen |
| **playground-api authentication** (`auth.js`) | none | `authMiddleware` | a second implementation of the decision of spoe-auth | what one lets through, so does the other |
| **package installation** (`install_package.sh`, `docker-entrypoint.sh`) | package directory, `.env`, `.installation-state`, `_env_vars` of the API | remove, download, checksum, extract, environment, mark; read the environment for a job | failures between steps, a status that is another command's, kill and re-run, a cache filled half | a package marked installed is complete; a job gets its package's variables |
| **chat and token quota** (`ChatService.ts`, `RedisConnector.ts`, the agents) | Redis counters per user, per model and in total, each with a TTL | quota test, stream, three increments on finish | the test is read long before the increment; INCRBY/TTL/EXPIRE are three calls; a failure between counters; shutdown under requests | overshoot is bounded, consumption is counted, a counter expires |
| **user AI keys** (`UserAIKeyService.ts`, repository, `KmsService.ts`) | one encrypted row per user | store, info, delete, look-up for a chat | check-then-act over three services, statements whose outcome the caller does not learn | one key per user, no plaintext stored, the answer says what happened |
| **PostgreSQL pool** (`PgConnector.ts`) | connections taken, callers that wait | `initialize`, `query`, `ping`, `disconnect` | a client that is not released on an error path, `end()` under queries | each connection taken is given back, nobody waits for ever |
| **ai-assistant process and tools** (`index.ts`) | the stage of its life, its signal handlers | start, `/healthz`, shutdown | two signals at once, an error event nobody listens to | one signal lets the queries finish; a process that is told to end does |
| **spoe-auth** (`app/spoe-auth/main.go`) | none | SPOE message to variables | 15 ms to answer | the variables are those of the request's own token |
| **API gateways** (`api-gateway-cm.yaml`, `haproxy.cfg`) | stick tables, variables per request | rule list per request | a late or absent agent answer, rate limits over connections, rules in an order | a request that is let through carries its own user and is within its rate; probes are never refused |
| **builder** (`app/builder`) | none | build packages | a sequential script | - |
| **CI workflows** (`.github/workflows`) | buckets of packages | list, compare, copy; build and deploy | partial failure, two dispatches at once, publications meanwhile | a green synchronisation has synchronised; production catches up with develop |
| **infrastructure** (`infrastructure/`) | none | declarative | - | - |

**Interactions.** A client reaches the gateway; the gateway asks spoe-auth over
SPOE and forwards to the playground API (`POST /execute`) or to the AI
assistant (`POST /chat`). The playground API spawns `isolate` on its host: the
`--init`, `--run` and `--cleanup` processes share the box directories by id, and
nothing else connects them. The AI assistant shares Redis counters and the key
table between its replicas. Packages reach the API host through the installation
scripts at start-up and through the sync workflow.

The hazards of each component, with the line where each bites and the
properties that cover it, are in `PROJECT.json` under `hazards`.

## 2. Plan

The order follows what a failure costs: slots and sandboxes first, since one lost
slot or one stuck waiter takes the service down for everybody.

| # | Module | Models | Abstract specification | Model-checked | Proved |
|---|---|---|---|---|---|
| 1 | `JobSlots` | what admission promises | itself | through `Job` | - |
| 2 | `Job` | `/execute`, the Job life cycle, the host's sandboxes | implements `JobSlots` | safety, liveness, refinement | all safety, refinement |
| 3 | `SafeCall` | one `isolate --run` and its output | - | safety, liveness | all safety |
| 4 | `TokenQuota` | quota test, the agents' increments, `RedisConnector`, shutdown and restart of replicas | - | safety, liveness | all safety |
| 5 | `KeyStore` | what the user key routes promise | itself | through `UserAIKey` | - |
| 6 | `UserAIKey` | store, info, delete, look-up of a chat, with failing KMS, OpenAI, database | implements `KeyStore` | refinement | refinement |
| 7 | `AssistantPool` | `index.ts` and `PgConnector` of one assistant process | - | safety, liveness | all safety |
| 8 | `Server` | SIGTERM, unhandled rejection, restart, around `Job` | - | safety | all safety |
| 9 | `Runtimes` | environment, packages, limits, `get_job` | reference definitions | safety | all safety |
| 10 | `SpoeAuth` | the decision of spoe-auth and of `auth.js` | - | through `Gateway` | through `Gateway` |
| 11 | `Gateway` | HAProxy rules, SPOE with its deadline, stick tables | - | safety, liveness | all safety |
| 12 | `InstallPackage` | installation with failures and kills, and the environment of a job | - | safety | all safety |
| 13 | `SyncPackages` | the synchronisation workflow, two runs at once | - | safety, liveness | all safety |

Compositions: `Server` puts the process around the whole of `Job` (`JobStep` is a
step of `Job`); `Gateway` takes the decision of `SpoeAuth`; `Job` leaves open the
outcome of a run that `SafeCall` details. The table is complete: what else the
repository holds is listed in section 8 with the reason it has no module.

## 3. How the modules correspond to the code

### `Job`

One request is one member of `Jobs`; it comes at most once. `pc[j]` is the
`await` its handler stands in:

| `pc` | Where the handler is | Leaves by |
|---|---|---|
| `idle` | the request has not come | `RejectRequest` (400), `PrimeNow`, `PrimeQueue` |
| `queued` | the `await new Promise` of `prime()` (`job.js:93-95`) | `cleanup` of another request |
| `woken` | its `resolve()` was called; the continuation is a pending microtask | `PrimeResume` |
| `init`, `init2` | `await this.#create_isolate_box()` in `prime()` / `execute()` | `InitDone`, `InitFail` |
| `write` | mkdir, writes and chown of the submission (`job.js:102-123`) | `WriteDone`, `StepThrows` |
| `compile`, `run` | `await this.safe_call(...)` | `CompileOk`, `CompileErrored`, `RunDone`, `StepThrows` |
| `rename` | `await fs.rename` into the second box (`job.js:386`) | `RenameDone`, `StepThrows` |
| `rm` | `await fs.rm` of the metadata files in `cleanup()` | `RmDone` |
| `done` | the handler has returned | - |

*Atomicity.* Node.js runs JavaScript on one thread, so what happens between two
awaits that really wait is one action. The microtask queue is emptied after each
callback, before the next one. Therefore a waiter whose promise `cleanup()`
resolves runs on to `remaining_job_spaces--` before any other request's callback
can run. `Job` keeps the two steps apart (`woken`, `PrimeResume`) and gives every
other callback the guard `NoMicrotask`, so the properties show that it is this
ordering, and not the test in line 91, that keeps the slots right. The mutant
`PrimeNow_LateWakeup` drops the guard, and `NoBarging` fails. `isolate` processes
are not callbacks: `CleanupDone` and `CleanupFail` may come at any time.

*The end of a request.* `res.send`, the start of `finally` and the synchronous
part of `cleanup()` (count the slot up, wake the first waiter, start one
`isolate --cleanup` per dirty box) run in one turn: `Finish` does all of it, for
a result (200) as for an exception (500).

*Failing `--init`.* The callback of `isolate --init` rejects on an error and goes
on (there is no `return`), so the box is put on `dirty_boxes` either way. The
rejection is handled in a later microtask, so `cleanup()` sees the box. `InitFail`
models it with both possible effects on the host.

*Sandboxes.* A sandbox is named by the ordinal of its allocation, its box id is
the ordinal modulo `MAX_BOX_ID` (999 in the code). `host` holds the ordinals of the
sandboxes that exist; `--init` of an id replaces one that is still there, and
`--cleanup` removes whichever has the id. Steps that use paths of a box
(`WriteDone`, `CompileOk`, `RenameDone`) need *some* sandbox under the id, as on
the host, where a path does not tell whose directory it is. `RunDone` does not
need it: when the box is gone `isolate --run` still writes a metadata file, with
an error of its own, and the run is answered as usual.

*Left out.* The text of programs and results; the metadata files (a file removed
by another job's `fs.rm` after the ids have wrapped shows as `StepThrows`); the
first test of `execute()`, `state !== PRIMED`, which always passes since `prime()`
has just set it; the branches for an event bus, which the API never passes.

### `JobSlots`

Two variables, `holding` and `waiting`, and four actions. `Job` refines it with

    holding <- Holders \cup Woken      waiting <- job_queue

A woken waiter counts as holding: in the code the slot has been counted up and is
not yet counted down, in the abstract allocator it has changed hands.

### `SafeCall`

One call of `safe_call`. The child writes chunks of 1..`MaxChunk` bytes to two
pipes; the handlers take them out in the order of each stream, at any time until
`safe_call` has settled. `DataFits` and `DataOverflows` are the two branches of the
handlers. The code compares `stdout.length + data.length`: characters of a string
with *bytes* of a chunk. A chunk of `n` bytes therefore adds between 1 and `n`
characters (`Chars`), and `data.slice(0, end)` follows JavaScript, negative `end`
included (`SliceSize`). A string is abstracted to how many characters came from
each stream, enough to tell text in the wrong string from text in the right one.

The overflow branch of stdout really appends to *stderr*, with stderr's room
(`job.js:238-240`), and `Keep` does the same. The kill is a SIGABRT to isolate: the
program may already have ended (`ChildExits` is still possible), otherwise isolate
reports itself (`ChildAborted`). `ExitEvent` is the `exit` event, which does not wait
for the streams, so data may come while the metadata file is read, and may stay
undelivered for good. `Return` is the parsing of the file and the result in one
turn: `status = status || value`, and `SIGKILL` for TO, OL and EL.

*Left out.* `message` (it always moves with `status`), `memory`, `cpu_time` and
`wall_time` (copied from the file), the arguments of `isolate`.

### `TokenQuota`

A request is a place `<<u, p>>` of user `u`; once it has been answered and its calls are over
the place is free for the next, so a behaviour has any number of requests. A request makes
*calls* `<<u, p, k>>` of models: the main one of its agent, and one for each `proposeCode` that
the agent's model asks for. `pc` names what each call awaits: `get` (`getNumber`, the main call
only), `model`, then the counting with `stats` (the two INCRBYs of the global statistics, which
can fail but are tested by nobody), `incrby`, `ttl` and `expire` for the user's counter. Each
Redis command is a step of its own, taken when Redis executes it, so the commands of all calls,
requests and replicas interleave.

*Tools and agent.* `toolChoice: 'auto'` and `stepCountIs(2)` (`CodeReviewAgent.ts:48-53`) let the
model call `proposeCode` several times, several at once in a step too; each call asks a model of
its own and counts its tokens. `ProposeCode` starts one at any time while the main call
runs, beside the others, and `ModelEnds` of the main call waits until its tools rest, since
`result.usage` is that of all steps. A failure in a tool is caught (`CodeIntegrationAgent.ts:72`)
and the agent goes on; a failure of the main call or of its counting ends the request, and what
its tools are still about goes on without it (`Ended`). `Counted` is the common end of a
call's counting, done or failed. Nothing in the code limits the number of calls, the model
decides on it: `ToolCalls`, the set of those a request may make, is a bound of the model, of
any finite size in the proofs.

*The client.* `disconnect()` sends QUIT, waits, and sets the client to null while
the HTTP server goes on until `process.exit`. A replica is therefore `up`,
`quitting`, `null` or `down`. With a null client `getNumber` returns null, which
passes the test, and `incrementNumber` returns 0 (`CountNothing`). The driver sends
an INCRBY again when the connection broke before its answer (`CountUserAgain`), up to
`maxRetriesPerRequest` times, 2 in the code; a rejected command (`CommandFails`) may
have been executed, as `CountUserAgain` followed by `CommandFails`.

*Time.* The seconds until the end of the month are abstracted to the month they
were computed for (`due`, `ttl`: this one or a past one), and the clock to "the last
seconds of the month have come" (`lastSeconds`): between them a key expires. Nothing
bounds the number of months.

*Left out.* Requests with the user's own key, which neither read nor write the
counters; mock mode; the values of the statistics; a deployment with no Redis
configured, where no quota exists.

*The user's own key* is modelled in `UserAIKey`: a chat that has one neither reads
nor writes the counters.

### `UserAIKey` and `KeyStore`

A member of `Requests` is a place of a request in flight, with its kind, user and key;
when it has been answered the place is free again. `pc` names the call the handler
awaits: `validate` (OpenAI lists its models for the key), `find` (`findByUserId`, or
the SELECT of `retrieveKey`), `encrypt` and `decrypt` (KMS), `insert`, `delete`, `exists`
(`hasKey`). Each can reject, and `Refusals` is the status the handler then answers.
The replicas share nothing but the table, so a request does not say which one serves it.

A statement that writes takes effect in one step (`InsertExecutes`,
`DeleteExecutes`) and is reported in another (`Acknowledged`). `Fails` may come before,
between and after: the connection to the database breaks (503), or the replica stops and
the client loses its connection (`lost`). When it comes before, the statement may be on
its way (`late`) and be executed after the answer, after any step of other requests
(`LateSettles`).

`KeyStore` is a map from users to keys in which each request takes effect at one
moment between call and answer, a failed one perhaps later or not at all. The refinement
maps the rows to plain text, the awaits to `called` or `decided`, and the status to what
it says: `201`, `204`, `200` to "done", `409` and `404` to "there was one", "there was
none". The status of a chat is the key it runs with. The moment a chat takes effect is
the SELECT of `retrieveKey`, not the test of `hasKey` before it; a store takes
effect at its INSERT, and a second row of the user, which only the primary key stops, is a
failure (503) and not `present`.

### `AssistantPool`

One process from start to exit: `connecting` (Redis), `testing` (the first query of
`PgClient.initialize()`), `listening`, `exited`. `caller[c]` is where a caller of
`query()` or a health check stands: `redis` (a health check pings Redis first),
`waiting` in pg-pool's queue, `querying` with a connection. `taken` counts the
connections pg-pool has handed out. `QuerySettles` gives one back either way, since
`release()` is in a `finally`; in `ping()` it is not, so `PingFails` keeps it.
`Signal` starts a handler: `CacheClient.disconnect()`, then `PgClient.disconnect()`, whose
`pool.end()` resolves when every connection is back (`PoolEnded`), then `process.exit(0)`.
`cache` is the Redis client, which a process has when `REDIS_URL` is set. A second handler finds
the pool ending, its `end()` rejects, the rejection is caught and logged, and it exits at once. Or
its `quit()` rejects after the first handler has dropped the client: then `this.client.disconnect()`
is a TypeError that nobody catches, and the process ends without `PgClient.disconnect()`
(second part of `RedisQuit`). fastify is never closed, so requests are accepted all the
time. `failedPings` is a history variable.

### `Server`

`ProcessEnds` is SIGTERM (`server.close(); process.exit(0)` in one turn) or a rejection of
the `await` in `GET /packages`, which is in no `try`. Everything in memory is gone; the
isolate processes die with the container and may or may not have done their work
(`HostAtEnd`); the directories stay. `box_id` starts from 0, so ordinals do as well, and
a sandbox of an earlier life is named by the *negative* ordinal that has its id. Such
leftovers are removed by the `--init` or `--cleanup` of their id only.

### `Runtimes`

`LoadConfig` reads each option from its variable with its parser (`parseInt` is a table
of the raw values that tell the cases apart: a number, digits with text behind them, text)
and its validators; an invalid one ends the process. `load_package` takes the packages in
any order, since `readdir` promises none, and skips those without
`.installation-state`. `compute_single_limit` is the chain of `||`, with 0 falling through.
Two limits stand for the ten options that are treated alike. `get_job` is the list of
tests in the code's order and the choice of the latest version; a version selector is the
set of versions that satisfy it. A requested name may be claimed by several runtimes; the
sort of the code is the choice of a newest one, the first of them in the list.
The assumptions say of the inputs what the code takes for granted: versions are comparable,
`provides` and `files` are arrays where they are there.

### `SpoeAuth` and `Gateway`

A token is whether its signature and the claims that are compared are right, its
expiry, and the claims a user is taken from. The two programs find it with parsers of their
own, so a request has each header and cookie any number of times and each token in one of the
`Forms` the parsers tell apart: after one more blank or one more `bearer `, before another word,
in quotes. The agent is given the last header of a name, keeps the last cookie
(`main.go:365-387`), trims, and cuts off one `bearer ` more (`main.go:79-82`); the middleware has
Node's first `Authorization` header and the keys joined into one, takes
`split(' ')[1]` of the header (`auth.js:58`), and cookie-parser's first cookie, trimmed and
unquoted. `Misread` lists the requests in which the two therefore read different tokens.
`handler` is the agent's answer;
`authMiddleware` is the middleware of the playground-api, an operator and no action, for
its awaits read and write nothing that others share.

A member of `Slots` is a connection with one request at a time. `Receive` sends the SPOE
message, for the paths of the assistant only; `AgentAnswers` sets the variables,
`ProcessingTimeout` (15 ms) goes on without. Then the rules run in one step; each action
from `Preflight` to `HealthForwarded` is one way through them, with the tests of the rules
before it as guards. The tracking of the address comes before the denials, so a request
that is denied has been counted. `http_req_rate(60s)` of HAProxy is the count of the
current period and a share of the last one's that shrinks; here the share is any, so
between `MayPass` and `MayExceed` both can happen. Counters stop at their limit, which
changes the outcome of no test.

### `InstallPackage`

`at` is the next command of the script. The tested commands (`ValidateChecksum`, `cd`,
`tar`) end it with `exit1`; an untested one (`rm -rf`, `curl`, the environment script, the write
of `.env`, the state file) may fail and the script goes on. `RemoveResidue` may leave any part of
what was there, the old mark and old files included, whether it fails or is killed; `cleared` remembers
whether it left nothing. The script may also be killed before each command and within `tar`,
and it is run again over what is left.

`printed` is what `source environment && env` prints: a sequence of items, the package's variables,
those the installer inherited (`PATH`, `HOME`, `DEBIAN_FRONTEND` of the Dockerfile), and text
the script writes. `Kinds` are the cases that the way to the job tells apart. `.env` is a set of
lines, each with the item it comes from, in the order `Before`; `Beginnings` is what a write that
was cut short may have left, in whole lines, and a `.env` of nothing at all has the one blank line
of `echo ""`. `Value` is the parser: `split('=', 2)` drops what follows a second `=`, `trim()`
the blanks at the ends. `StartJob` is the getter `env_vars`: the cache is assigned first and filled
then, so a line without `=`, on which `val.trim()` throws, leaves it half filled for later jobs.
`RunsWith` is the environment of the job, in which the runtime's `LANGUAGE` takes the place of
one from `.env` (`job.js:178-181`).

### `SyncPackages`

The content of a package is the number of its publication. A run lists the bucket of
develop (`ListFiles`; when it fails its status is lost in the pipe, and what it had listed by
then is the list: a part of the bucket, or nothing, with which the run ends green,
`ListFails`), reads the hash of each package (`ReadMetadata`), compares it with
production (`Skip`, `CopyBegins`) and copies what develop has at that time (`CopyEnds`). Any
other failing command ends the run where it stands. No concurrency group keeps two runs
apart.

### Mutants

Next to an action there may be a variant with the comment `Mutant:`. It is not part
of `Next`. It states a plausible mistake in that code, and the property named for
it in `PROJECT.json` is violated when it takes the action's place. This is how each
property is known to depend on the code it is about.

## 4. What the runs check

| Run | Instance | Properties | Distinct states |
|---|---|---|---|
| `job` | 3 requests, one compiled, 1 slot, 2 box ids; fair | `TypeOK`, `NoIdleSlotWhileWaiting`, `NoWaiterForgotten`, `NoSandboxLeak`, `NoBarging`, `SlotsAreHandedOver`, `EveryRequestAnswered`, `EverythingReclaimed` | 247 000 |
| `server` | 3 requests, one compiled, 2 slots, 2 box ids; the process ends at any step, any number of times | `SlotAccounting`, `NeverInLeftover`, `SandboxLostOnlyToReuse` | 1 432 000 |
| `safe_call` | buffers of 3, two chunks of up to 4 bytes per stream; fair | `TypeOK`, `BuffersBounded`, `OutputIsBoth`, `TruncationReported`, `CallSettles` | 159 000 |
| `quota` | a user with 2 requests in flight, each with 2 tool calls, on a replica that is stopped and restarted, limit 1, 1 token a call, 1 retry, every fault; symmetry | `TypeOK`, `OvershootBounded` | 1 916 000 |
| `quota_live` | 2 requests, each with a tool call, up to 2 tokens a call, one replica, no faults; fair | `CounterWillExpire`, `LockoutEnds` | 84 500 |
| `quota_lockout` | one request at a time, with a tool call, faults that come to an end; fair | `LockoutEnds`: violated | - |
| `user_keys` | two stores, a delete and a chat of one user, a store and a look-up of another, three of them in flight; every failure | `TypeOK`, `RoutesAreAKeyStore` | 333 000 |
| `pool` | 2 connections, the test query and 2 others, 2 health checks, both signals, with a Redis client or without; fair | `OnlyFailedPingsLeak`, `OneSignalWaitsForQueries`, `CallersSettle`, `ShutdownEnds` | 3 600 |
| `gateway` | 2 connections, 8 kinds of request, one with two cookies, limits of 1 per user and 2 per address; fair | `OwnIdentity`, `OneLogin`, `UserLimited`, `ProbesReachAssistant`, `EveryRequestAnswered` | 697 000 |
| `runtimes` | every subset of 5 packages in every order, 72 environments, requests of every kind | `StartedWithNumbers`, `NewestOfferedRuns`, `MostSpecificLimit`, `AcceptedJobsHaveCode` | 130 000 |
| `install_package` | outputs of one to four items of every kind; every failure, any number of runs | `MarkedMeansVerified`, `ExportsReachJobs` | 5 670 |
| `sync_packages` | 2 runs at a time, again and again, 2 packages, 2 publications of each; fair | `TypeOK`, `GreenMeansSynced`, `ProductionCatchesUp` | 226 000 |

*Why the bounds are enough to be interesting.*

* `job`: with a single slot and three requests two wait at once, so the order of
  `job_queue` matters, a newcomer may race with a woken waiter, and every request waits for
  the one before it, whatever failed there. A compiled request takes two of the two box ids.
* `server`: two slots and two ids for up to four boxes: `--init` over a live box, and a late
  `--cleanup` of one job hitting another's, both happen (without the reuse clause
  `SandboxLostOnlyToReuse` is violated), and a leftover of an earlier life has the id of
  every box that follows.
* `safe_call`: a chunk can fit, fit exactly, overflow by one byte and exceed the whole buffer;
  each stream can overflow twice, and either after the other.
* `quota`: both requests can pass the test before any call counts, each with two tools at once
  and its main call counted twice, and the bound of `OvershootBounded` is reached exactly: with
  one token less it is violated, and so it is, after 43 steps and three million states, when the test
  before the model call reads another key than the one that is counted. One user is enough, since requests of different users
  share only the replicas; one replica, since a request that outlives another's replica differs
  from one beside it only in that the other is gone. (Two replicas with one tool call each were
  checked as well, and the proof is for any number of both.)
* `user_keys`: three requests in flight (`MaxInFlight`) are two stores that both found
  nothing with a delete between their INSERTs, or a chat between `hasKey` and `retrieveKey`
  with a delete and a store of another key in between, and the late statement of an earlier
  request on top. The other user's row is there to be mistaken.
* `pool`: two failed health checks use up the pool of two; with both signals each of the two
  handlers can be the one that finds the pool ending or the client gone.
* `gateway`: two requests of a user wait for the agent together with a limit of 1; the
  address reaches its limit of 2 with probes and others mixed. `ParsersAssumption`, which TLC
  evaluates before the run, compares the two programs on every way of writing one or two tokens:
  a disagreement always is a `Misread`, and there are such requests.
* `runtimes`: two packages of one language in two versions, an alias that two claim, a package
  with several languages, limits and overrides that contradict each other, 0 and negative.
* `install_package`: every kind of item stands before and after another, so a line that breaks the
  parser has something on both sides of it; removals fail over complete and partial directories.
* `sync_packages`: one run begins to copy before a publication and ends after another that
  began after it; a run fails after the first of two packages.

The constants' general values are the proofs' business (section 6).

*Bounds by name:* `MaxInFlight` (the constraint of `user_keys`), `Places` and `ToolCalls`
(requests in flight and tool calls of one, `TokenQuota`), `MaxChunk` and `MaxWrites` (chunks of `SafeCall`), `MaxRetries` and
`MaxTokens` (`TokenQuota`), `MaxVersion` and `Runs` (`SyncPackages`). The gateway's counters
saturate. Nothing else is bounded but by the sets in the configurations.

*Symmetry* permutes the places and the tool calls in `quota`, whose properties, two invariants,
name none of them; it is not used elsewhere.

*Deadlock* is not an error in `job` and `safe_call`: when all requests have been answered
and all cleanups have ended the server just waits for requests that the instance does not
have, and a call that has settled has no next step. In `runtimes` a process that refuses its
configuration has ended. Everywhere else the check is on.

## 5. Fairness

`Job!Fairness`: weak fairness of `Progress(j)` for each request and of
`CleanupEnds(n)` for each `isolate --cleanup`. Each await of a request ends: `isolate
--run` has a wall-time limit (`job.js:177`), the file operations and `isolate --init`
return. There is no fairness for one outcome over another, so a run in which every
step fails is covered, and none for arrivals: nothing makes a client come. A request
that is `queued` has no `Progress` step of its own, so that it is answered follows
from the other requests' progress and from `cleanup()` alone.

`SafeCall!FairSpec`: isolate ends the program at its limits, the `exit` event is
delivered, `read_file` settles. Nothing forces data to be delivered.

`TokenQuota!Fairness`: Redis commands and model calls settle, time passes, and Redis
drops keys whose time is over. There is no fairness for asking. `FairSpec`, used only
for the counterexample, makes the case for the code as strong as it can be: faults
come to an end, a replica that is shut down comes back, and users ask again and
again; a counter without an expiry stays all the same.

`AssistantPool!FairSpec`: PostgreSQL answers every statement and Redis every command, the
timer of a waiting caller runs (`connectionTimeoutMillis` is set), and the orchestrator
starts a process that has exited. Nothing makes a signal, a request or a failure come.
pg-pool gives a free connection to a caller that waits, or the caller's timer runs: `Served`
and `WaitTimesOut` are alternatives of one fair step, so `CallersSettle` does not rest on
the pool being fair to a caller.

`Gateway!FairSpec`: HAProxy runs its rules and its timers (15 ms for the agent, 120 s for the
assistant), and its periods end. The agent is under no fairness: it may never answer.

`SyncPackages!FairSpec`: a run that is under way goes on; somebody dispatches a
synchronisation again and again (strong fairness, since one run or the other may be in the
way); faults come to an end. It is what "production catches up" can mean for a workflow that
is started by hand; publication ends by `MaxVersion`.

`UserAIKey`, `Server`, `Runtimes` and `InstallPackage` have no liveness property: their requests
end by answers of external services, by `Job`'s properties, or do not wait at all.

## 6. What is proved

All proofs hold for every value of the constants under the named assumptions:
`JobsAssumption` (the set of requests is finite, since `Cardinality` counts it),
`CompiledAssumption` (the compiled requests are among them), `SlotsAssumption`
(`max_concurrent_jobs` is at least 1, which config.js validates), `BoxIdAssumption`
(`MAX_BOX_ID` is at least 1), `OutputAssumption` and `BoundsAssumption` (sizes are natural
numbers), `RequestsAssumption` and two `NoneAssumption`s (requests have the parts their types
say, and "nothing" is no value), `CallersAssumption`, `SignalsAssumption` and `MaxAssumption`
(finitely many callers and signals, a pool of at least 1), `LimitsAssumption`,
`IncomingAssumption`, `AdminAssumption` (rates are natural numbers, requests are well formed,
the admin key is one key or not set), `OutputsAssumption` (items have a kind, and `env` prints
at least the installer's `PATH`),
`PackagesAssumption` (versions are natural numbers, a package sets only limits there are, and
`provides` is an array when it is there), `UndefinedAssumption` (no encoding is called
"undefined"), `VersionAssumption` (at least one publication). TLC evaluates each of them in the
runs.

`WorkInv` over the restarts of `Server`, `EnvInv`, `SyncInv` and `RuntimesInv` were invariants of TLC
runs on the instances of section 4 before they were proved, but for `BoundInv`, a part of the
last, which quantifies over all natural numbers.

**`JobProofs`.** The inductive invariant is

    SlotInv == TypeInv /\ SlotAccounting /\ NoIdleSlotWhileWaiting
                       /\ NoWaiterForgotten /\ WakeupMeansOneSlot

`SlotAccounting` is not inductive alone. `PrimeResume` counts a slot down without a
test, so one has to know that a slot is free whenever somebody is woken, and that
only one is: that is `WakeupMeansOneSlot`. It in turn holds since `cleanup()` wakes
only under `NoMicrotask`, with a slot it has just counted up, and since a waiter
exists only while all other slots are taken (`NoIdleSlotWhileWaiting`). That the woken
request is one that waits and is woken once is `NoWaiterForgotten`. From it follow
`SlotsNeverLost`, `NoLostWakeup`, `WaitersKept`, `NobodyBarges` and
`JobImplementsJobSlots`: initial states map to initial states, and each step of
`Job` is an `Acquire`, `Enqueue`, `Free`, `HandOver` or a stutter of `JobSlots`.
`TypeCorrect` needs in addition that a job at work has a box (`Allocated`). `CoreType` is the type
invariant without the clause on the host, which is proved on its own (`HostStep`): leftovers have
negative ordinals, so that clause does not survive the end of the process and the rest does.

`WorkInv` adds to `SlotInv` that no two jobs or cleanups own the same ordinal (`OwnInv`), and
`SandboxInv` adds `NoSandboxLeak` to that. `SameIdFarApart` is the arithmetic: two different
ordinals with one id are at least `MAX_BOX_ID` apart. `SandboxesLostOnlyToReuse` combines the two: a
step that removes a sandbox in use belongs to another ordinal with the same id.

For `Server`, every step is a step of `Job`, or leaves its variables alone, or is the end of the
process (`ServerCases`). `FreshAfterEnd`: the end of the process establishes `WorkInv` again, since
slots, queue, counter and dirty lists start anew, and nobody is left in a sandbox. So the invariant
of `Job` holds over all lives of the process, and with it `SlotsSurviveRestarts` and
`LossesAcrossLives`. `NoSandboxLeak` does not carry over: the sandboxes of an interrupted life stay on
the host with nobody to clean them up. What can be said of them is `LeftoversAreNotUsed`: `LifeInv`
says that a job whose `--init` runs has a positive ordinal, and that a job that works in a sandbox
has no leftover under its id: its `--init` replaced what was there, sandboxes made later have
positive ordinals, and when the process ends no job is at work any more.

**`SafeCallProofs`.** `TypeCorrect` is the type invariant with that of metadata and result.
`LimitInv` is the types of the strings, `BuffersBounded` and `OutputIsBoth`: that stderr is within its limit makes the end of the next slice
non-negative, which keeps it within the limit. `KeptInv` says that, as long as
`status` is neither OL nor EL, each string is exactly what was received on its
stream; `TruncationNeverSilent` follows since `status || value` never replaces a
verdict of the handlers.

**`TokenQuotaProofs`.** Assumed are `LimitAssumption`, `RetriesAssumption`,
`TokensAssumption` (natural numbers, at least one token a call) and `BoundsAssumption` (finitely many
places and tool calls). Users and replicas
are arbitrary sets, infinite ones included. `OvershootBounded` is not inductive: what
matters is how much can still be added. `Left(c)` counts the INCRBYs that call `c` can still cause:
all of them while its model runs, and for a tool call that has not been made, as long as the main
call of its request asks its model; none before its request is admitted or without a client.
`Pending(u)` collects those of all calls of a user, a part of `Increments`, whose size is the
bound, and the invariant is `Covered(u)`: a counter above the limit plus `MaxTokens` for each
pending INCRBY stays within the bound. A counter passes the limit from at most the limit; from then
on every INCRBY uses up a pending one (`IncrementUsedUp`), `ProposeCode` turns a tool call that was
counted as possible into one under way, and no request is admitted as long as the counter stays
there, except by a replica without a client, which counts nothing. `Placed` says that only main
calls are tested and that a replica that is down has no calls. `CountersWillExpire` is about the
specification without faults.

**`UserAIKeyProofs`.** `IInv == TypeOK /\ Carried`. `Carried` says what a request in flight
has in hand: an INSERT, also a late one, writes the ciphertext of its own request's key; a late
statement was reported as failed; what is decrypted is a ciphertext. With it
`KeyStoreImplemented` maps each action to a step of `KeyStore`: `StoreFinds` with a row is
`TakeEffect` with `present`, `InsertExecutes` is `TakeEffect` with `ok` (or `Fail`, when the row
is there), `ChatFinds` takes the key, `LateSettles` is `SettleLate`, and what happens between is
a stutter. Users, keys and requests are arbitrary sets.

**`AssistantPoolProofs`.** `IInv` is `TypeOK`, `OnlyFailedPingsLeak`, `Quiet` (nobody holds a
connection before there is a pool) and `EndedBySomeone` (a pool that is ending was ended by a
handler that still waits). The count needs the cardinality of the set of callers that query to
go up and down by one with `taken`. `ShutdownWaits` follows: with a query under way
`PoolEnded` cannot fire, so the exit with 0 is the other way out of `PgDisconnect`, with a pool
that is ending; and `quit()` finds no client only when a handler has dropped it. Either way
`EndedBySomeone` names that handler, which is a second one (`ExitNeedsTwo`).

**`GatewayProofs`.** `TypeInv` is `TypeOK` and `Busy` (a slot that is not idle has a request).
`VerdictInv` says what is known of a request: the variables are empty or the agent's answer to
*this* request, and a forwarded one has the header from them; from it `IdentityIsOwn`,
`ProbesArrive` and, with the lemma `AcceptedByBoth` on the two parsers and decisions, `LoginIsOne`:
an accepted request has one token in the place the agent took it from, in a form the middleware
reads as well, or it is a `Misread`.
`Counted` says that the counter of a user, which saturates at the limit, is at least what
has been forwarded in this period, which gives `UsersAreLimited`.

**`PackageProofs`.** It holds the proofs about both ways a package travels.
`MarksVouchForFiles` is about `InstallPackage`, a script that tests few of its commands. `TypeInv`
and `StepInv`: `tar` works on an archive with the right checksum, the environment is set up and the
script ends well only with all files there, and after a removal that left nothing there is no mark
until then. A removal that failed resets `cleared`, and with it what a mark says.
`JobsGetExports` rests on `EnvInv`: what the API has in its cache
and what a job saw are what the *present* `.env` parses to, or nothing was read yet. It is
inductive since the script writes only while the API is down, and the API starts with an empty
cache. The rest is about one file. `CompleteFile` lists the lines of a complete one, `LinesReached`
those the parser gets to before an item without `=` stops it, `ItemArrives` what becomes of each
item, and `EntriesArrive` puts them together. A missing or an empty file has nothing to parse but
a line that throws.

`PublicationsTyped` and `GreenIsSynced` are about `SyncPackages`, for any number of packages and of
runs at a time. `GreenMeansSynced` speaks of a run that nobody joined; the invariant `SyncInv` says
what such a run has achieved so far (`DoneRight`): the packages it is through with are in
production at least as new as it listed them, and what it copies is neither older than what it
listed nor than what is there. The last needs `OrderInv`, which holds for all runs together:
production, a listing and a copy under way are never newer than what develop has, so that a copy
taken from develop now cannot make production older.

**`RuntimesProofs`.** `RuntimesInv` says of each stage which packages have been read (`StageInv`),
that the list of runtimes holds nothing but what the marked packages offer, and all that the
loaded ones offer (`ListInv`), that a server that started has numbers for its settings
(`ServerInv`), and that the versions in the list have an upper bound (`BoundInv`). The bound is why
`Latest` is a choice from something: `Packages` may be infinite, and the newest of a nonempty set
of bounded numbers exists by the well-foundedness of `<` (`Least`), and among the newest there is a
first one. `OfferOfRuntime` and `RuntimeOfOffer` relate the two definitions of what a package
offers, that of `runtime.js` and the reference one; with them the candidates of a request
are the same in the list and on the disk (`CandidatesMatch`), in whatever order the directory was
read, which gives `NewestIsChosen`. `Answers` lists the ways through `get_job`; `JobsHaveCode` and
`LimitsAreTheMostSpecific` go through them, and through the cases of the chain of `||`.

**Model-checked only.** The liveness properties (`EveryRequestAnswered` of `job` and of
`gateway`, `EverythingReclaimed`, `CallSettles`, `LockoutEnds`, `CallersSettle`, `ShutdownEnds`,
`ProductionCatchesUp`), which rest on fairness, out of this prover's reach. Every safety property
of the passing runs, invariant or action property, and both refinements have a theorem.

## 7. Where the code does something else than one may think

One disagreement is a run of its own, since it takes several steps and a fault to show:

* `quota_lockout`. A counter is meant to last until the end of the month
  (`RedisConnector.ts:91`). INCRBY, TTL and EXPIRE are separate commands; when one
  fails after the INCRBY that takes a new counter over the limit, the counter has no
  expiry. The next request would set it, but it is refused before it counts
  (`ChatService.ts:70`), and so is every one after it.

The models contain the following as the code does it, and their properties are stated with
these exceptions where they matter. No run is devoted to them: one reading shows each.

* A comment in the handler says that `cleanup()` "gets executed before the returns in
  try/catch" (`playground.js:108`). The expression of the `return` is evaluated first, so the
  client has its answer while its slot and sandboxes are still taken (`Job`: `Finish` only
  starts the cleanups).
* The overflow branch of the stdout handler computes stderr's room and appends to stderr
  (`job.js:238-240`), although `app/playground-api/docs/api-playground.md:100`
  says `run.stderr` is the program's.
* A program that overflows and exits by itself before the kill arrives has an exit code and
  the signal `SIGKILL`; `api-playground.md:102` says one of the two is null.
* When the user's key cannot be read a chat that asked for it is refused; the comment at
  `ChatService.ts:173` says it goes on with the default.
* A health check whose query fails keeps its connection (`PgConnector.ts:84`). After `max` of
  them no query gets one, and no signal ends the process: `ShutdownEnds` has that exception.
* An override of 0 is ignored (`runtime.js:44`), though `configuration.md` says an override
  holds "regardless of the configuration": `MostSpecificLimit` has that exception.
* A variable with a line break, or a line of text from the environment script, makes the first job
  of its package throw and leaves later jobs the part of the environment before it; the
  installation prints "completed" although the environment script failed: `ExportsReachJobs` says
  what jobs get then.
* When the untested `rm -rf` fails, the script goes on over what is left, an old mark included
  (`install_package.sh:16`): `MarkedMeansVerified` speaks of successful runs of the script, which is
  what the image's build asks for, and of marks after complete removals.
* The agent and the middleware take their token from different places of a request with several
  headers, cookies or keys of one name, and of a header with a second blank or `bearer`:
  `OneLogin` leaves out exactly those (`Misread`).
* The monthly limit can be passed by the tokens of all model calls that the requests in flight
  make, tool calls included, and the code does not limit those.
* When both signals arrive the second `quit()` may fail on a client that is null by then, and the
  process ends with an unhandled TypeError (`RedisConnector.ts:45-46`).
* A rejection in `GET /packages` ends the process with all its requests (`playground.js:136`).
* A failed listing of the develop bucket is taken for a complete one, of what it had listed by then
  or of "no files": `GreenMeansSynced` speaks of what a run listed.
* When the agent is late, a request with a good token is answered 401, as one without.

## 8. What is not covered

*Assumptions about what is not in the repository.* The table `user_ai_key` is taken to have
`user_id` as its primary key; without it two stores that both found nothing would both insert.
A connection to PostgreSQL that is half open is assumed to answer or to break. KMS, OpenAI,
pg-pool, HAProxy and the PASETO check are external and do what the code relies on.

*Left out of a modelled component.*

* Output the program wrote that was not delivered when the metadata file had been
  read is missing from the answer. That can happen since `exit`, not `close`, is
  awaited; no document promises the contrary, and no property is about it.
* `process.kill(proc.pid)` in a data event after the exit may hit a pid that was given
  out again: processes of the host have no identity in the model.
* Tokens a request used that are not counted since Redis failed, also between the three
  counters, and a counter that expires at once since its time to live was computed before the
  month turned: the model lets both happen, no document promises the contrary, and no property
  is about them.
* After the gateway's 504 the assistant goes on with the request and counts its tokens: the two
  are separate models, each right by itself.
* `unregister()` of a runtime removes the last one of the list when it is not there
  (`runtime.js:199`); nothing calls it.
* Packages are loaded in any order in `Runtimes`; the code keeps the versions of one language
  together, in the order `readdir` gives, so it has fewer orders.
* `OneLogin` is about an agent that is not told to ignore dates (`IGNORE_EXP`), and each value of a
  header is taken whole: that HAProxy's `hdr()` splits a value at commas is left out, as no token
  or key has one. Not modelled are the route
  `/check` of spoe-auth, which nothing of the repository calls, and its start-up.
* `.env` is cut after whole lines only, and a part of it is not noticed by the code: no property
  says what jobs run with then. `ls`, `mkdir` and `chown` of the script are taken to work.
* `authMiddleware` answers 500 to an exception; no header HTTP can carry causes one.

*Not modelled.*

* The documentation search of the assistant (`HederaTools.ts`): one request at a time that
  shares no state, whose substance is the text of an event stream.
* The mock agents, the logger and the error classes: they keep no state.
* The playground API's own gateway: one rule, a limit per address, of the kind `Gateway` has.
* `docker-entrypoint.sh` (a straight line of cgroup commands), `builder` (a sequential build
  script), the build and deploy workflows, the infrastructure definitions (declarative).
