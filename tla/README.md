# A verification project for mcp-authflow

`mcp_authflow` is a library of parts for OAuth 2.1 authorization servers. This
directory holds TLA+ models of its stateful parts, the TLC configurations that
check them on small instances, and theorems about them, for every instance, that
TLAPS checks. `PROJECT.json` maps every definition to the lines it models.

To repeat a check: `tlc -config MCJtiMemory.cfg MCJtiMemory` (each configuration
names its module in `PROJECT.json`), and `tlapm JtiMemoryProofs.tla`.

## 1. Inventory

All paths are below `src/mcp_authflow/`.

| Part | State it keeps | Operations | Hard behaviour |
|---|---|---|---|
| `client_auth/jwt.py`, replay cache in memory | `_used_jtis`, `_last_cleanup`, `_jti_lock` | `authenticate` (key, `jwt.decode`, cleanup, look-up, record) | threads; a purge with an old `now`; two clock edges (`exp`, `exp` + leeway); an `exp` that is a string; restart |
| `client_auth/jwt.py`, replay cache in Redis | one key per `jti`, with a TTL | `SET NX PX` | hosts whose clocks differ; lost replies; cancelled calls; the TTL against the leeway |
| `client_auth/jwt.py`, choice of the key | none | algorithm tests, first match in the JWKS | order of the JWKS, unusable keys in it, key rotation |
| `rate_limiting.py`, in memory | a list of times per client | `is_allowed`, `get_retry_after` | read–filter–replace without a lock; window edges; `int()` of seconds |
| `rate_limiting.py`, over Redis | a sorted set and its TTL per client | the same, three or four commands each | commands of concurrent calls interleave; the key expires between them; a call ends between them |
| `storage/postgres.py` | `_pool`, two tables | `initialize`, `close`, store, load, delete, cleanup, count for access and refresh tokens | pool of few connections; a second statement on another connection; failures and cancellations at each await; life cycle calls that overlap |
| `storage/memory.py` | two dictionaries, `_initialized` | the same | truncated clock; lists of scopes shared with callers; reuse after `close` |
| `storage/base.py` | none (abstract class) | the interface of the two above | – |
| `device.py` | none; the host stores a `DeviceCodeRecord` | `evaluate_device_poll` and generators | polls that overlap and save a stale `last_poll_at`; `SLOW_DOWN` and `last_poll_at`; the order of the tests |
| `registration/handler.py` | none; composes limiter, registry, hooks | `register_handler`, made by `build_register_handler` | hooks and registry that fail after the client was created; two limiter calls that do not agree; requests that overlap in their awaits |
| `registration/memory.py`, `registration/base.py` | a dictionary of clients | `create_client`, `get_client` | – |
| `responses.py`, `pkce.py`, `validation.py`, `cors.py` | none | pure functions of their arguments | – |

How they interact: the registration handler calls the limiter and the registry;
an authorization server calls the rest, and they do not call each other. Parts
share state only through Redis (authenticators of several processes; limiters of
several processes) and Postgres.

What makes each part right:

- **Replay cache**: an identifier is not accepted twice within its horizon, in
  whatever order threads and hosts record, purge and forget; a purge leaves nothing
  behind that has expired; no path keeps the lock.
- **Choice of the key**: an honest assertion is refused only if the header leaves
  open which key it is about.
- **Limiter**: never more than the limit in any window; over Redis, never more than
  one less than the limit and the concurrent calls together, as long as calls get from their
  clock reading to their EXPIRE within a second; nobody denied without cause; the advice
  of `get_retry_after` is good.
- **Storage**: a live token is lost only by a delete, an expired one is not found;
  connections and pools are not lost whatever raises; every call ends.
- **Device grant**: a device that keeps to the advice is served; every device hears of
  the end, however fast it polls; polls that overlap pass the interval check a bounded
  number of times.
- **Registration**: a client that was created is answered; the requests admitted in a
  window create no more clients than the limit, each whenever it gets to it; a 429 always
  has a `Retry-After`.

## 2. Modules

| Module | Models | Extends or uses |
|---|---|---|
| `AcceptOnce` | what replay protection promises, abstractly | |
| `JtiMemory`, `MCJtiMemory`, `JtiMemoryProofs` | the authenticator with the dictionary | implements `AcceptOnce`, `Durable = FALSE` |
| `JtiRedis`, `MCJtiRedis`, `JtiRedisProofs` | the authenticator over Redis | implements `AcceptOnce`, `Durable = TRUE` |
| `SigningKeys`, `MCSigningKeys`, `SigningKeysProofs` | the choice of the key | |
| `SlidingWindow` | what a rate limiter promises, abstractly | |
| `RateLimitMemory` | the limiter in memory; its proofs are in `RegistrationProofs` | implements `SlidingWindow` under one event loop |
| `Registration`, `MCRegistration`, `RegistrationProofs` | the registration endpoint over that limiter, with registry and hooks | extends `RateLimitMemory` |
| `RateLimitRedis`, `MCRateLimitRedis`, `MCRateLimitBurst`, `RateLimitRedisProofs` | the limiter over Redis | |
| `TokenStorage` | what a token storage promises, abstractly | |
| `TokenMemory`, `TokenMemoryProofs` | the storage in memory | implements `TokenStorage` |
| `SharedTokenStorage` | what a token storage promises to calls that overlap, abstractly | |
| `TokenPostgres`, `TokenPostgresProofs` | the storage in Postgres with its pool | implements `SharedTokenStorage` |
| `DeviceFlow`, `DeviceFlowProofs` | polling for one device code | |

Conventions. Time is a counter of ticks that `Tick` advances at any moment up to
`MaxTime`. A program counter per thread, call or caller gives the place in the
method; every await, and every point where another thread may run and be
noticed, is a boundary between two actions. A local variable is reset as soon as
the code does not use it again. History variables (named so where they are
declared) record what the properties speak of, and no action reads them (the
exceptions: the limiters take fresh ids from them, `RateLimitMemory` its bound
`MaxAdmitted`, and `Registration` the entry a request has just been admitted with). A definition whose comment starts
with "Mutant of" is a wrong version of the next one: the specification does not
use it; replacing the right one by it must break a property.

### JtiMemory

`used`, `lastCleanup` and `lock` are `_used_jtis`, `_last_cleanup` and `_jti_lock`;
`now` is whichever local `now` is alive. `Authenticate` reads the clock of
`_verify_jwt`; `Decode` is `jwt.decode` with its own reading of the clock, and
`Reject` every way to be refused (signature, audience, issuer, subject and age).
`CheckCleanup`, `LockForCleanup` and `Purge` are `_cleanup_expired_jtis`: a look without
the lock, the wait for it, and a second look with the `now` read before the wait.
`LockForRecord`, `Replayed`, `Fresh` and `Store` are `_check_and_record_jti`. `Restart`
is a new process. The claims kept are `jti`, `iat` and `exp`; the dictionary is keyed by
`jti` alone, so clients share identifiers, and the assertions of `jti_memory` have the
same one. PyJWT judges `exp` by `int(exp)`, and `_verify_jwt` hands on the claim as it came
(`Raw`): an `exp` that is a string of digits (`text`) is accepted and stored as `Text`, and
`PurgeRaises` is the `TypeError` of `now > exp` in every purge after it, which deletes
nothing, leaves `_last_cleanup` alone and refuses the call that was to purge.

### JtiRedis

Every call is on a host with its own offset from the Redis server's clock (`Drift`).
`Prepare` computes the TTL and `SetNx` runs `SET NX PX`; between them, and between
`Decode` and `Prepare`, time passes. `SetUnheard` is a SET that Redis executed and
whose reply nobody got. `GiveUp` is every other end without an acceptance, a string for
`exp` among them: the TTL's `exp - int(time.time())` raises, before any key is set.

### SigningKeys

One call's search: `RejectAlgorithm` / `AcceptAlgorithm` are the tests against
`BLOCKED_JWT_ALGORITHMS` and `ALLOWED_JWT_ALGORITHMS`, `Skip` the five `continue`s of the
loop, `Discard` a `_construct_key` that raises, `Take` the `return`, `NoKey` the end
of the loop or an empty JWKS, and `Verify` the one signature that is tried. A key is its
`kid`, `alg`, `use`, `kty` and whether it can be constructed; `signer` is the place of
the key that made the signature. An empty member counts as one that is not there
(`NoneGiven`), as in the code. The search keeps nothing between calls.

### RateLimitMemory

`requests[c]` is `_clients[c]`; as entries with the same time differ in an id, a set
stands for the list. `Filter` and `Assign` are the two halves of the list assignment
(reading the old list, putting the new one in its place), `Deny`, `Admit` and
`Record` the rest of `_is_allowed_memory`, `RetryNone` and `RetryAfter` the whole of
`_get_retry_after_memory`. With one thread the program counter keeps calls from
overlapping, which is what a coroutine without awaits does; with more, it is the
class used from threads. A second has several ticks, so that `int()` has something
to cut off.

`SlidingWindow` is the limiter that forgets nothing: a call under way (`waiting`) is
judged by all admissions of its client in the window before it was made, and an advice is a
time at which there is room. The mapping takes the calls that have started and not returned for `waiting` and keeps
`admitted`, `advice` and `clock`; the list does not appear, so the refinement says that
filtering it changes no judgement.

### Registration

The module extends `RateLimitMemory`: a limiter step is one of the limiter's own actions,
and the handler's variables move with it. `Receive` is the call of `is_allowed`, `Admitted` and
`Denial` its answers, `TurnAway` the call of `get_retry_after` and the 429. The coroutines
of the limiter never suspend, so from `Receive` to `Admitted` or `TurnAway` nothing else
runs (`turn`, `LoopFree`). From there on every await is a boundary: `Fail` is every end
before the registry stored anything, `Create` is `registry.create_client` with all that
runs before it without suspending, and `CreateUnheard` a registry that stored the client and
then raised or was cancelled. `RunHook` is a hook that returns or raises an `Exception`, which
the handler logs; `Abandon` is a cancellation in a hook, which is no `Exception`; `Respond` is the
201. `Elsewhere` is another endpoint's use of the same limiter. The registry's random ids
are modelled by its size, which is as fresh. `entry` is history too: it is the admission a
request was let in with, so that registrations can be counted against admissions.
The handler without a limiter (`rate_limiter=None`), and over the Redis limiter, are
not composed here.

### DeviceFlow

The library decides and the host stores. `Decision` is `evaluate_device_poll`, in its order
of tests; the rest is the host's token endpoint and the device, modelled from what the
docstrings ask of them and marked external in the map. A poll is `Load` (the record is read),
`Evaluate` (with the clock of then) and `Answer` (the record is saved, the answer sent), or
`Lose` at any point, with the save done or not. Polls overlap: the device may retry before
it has its answer. `Load(p, FALSE)` is a stranger, with another `client_id` or another
code. `Decide` is the user. The docstrings differ on whether `last_poll_at` moves on
`SLOW_DOWN` (lines 110–113 and 177–178); `savesSlowed` is chosen at the start, so every
property holds for hosts of either kind. `polite` marks a poll of the device sent an interval or more after
the answer (or the loss) of its last poll that ended, even if others are still in flight.
`passes` numbers the polls that passed the interval check and were sent at the same time
(`CountPass`), so that equal ones count. `Retire` is a host that gives the record a status
the library does not know (`"other"`), which `evaluate_device_poll` answers with
`invalid_grant`; `PoliteServed` makes an exception for such a record.

### RateLimitRedis

One client's sorted set; clients have different keys and do not meet. `Trim`,
`Deny`/`Pass`, `Add` and `Expire` are ZREMRANGEBYSCORE, ZCARD with the test, ZADD and
EXPIRE; `RetryTrim` and `RetryNone`/`RetryAfter` are the two commands of
`get_retry_after`. `Abort` ends a call at any await. Redis deletes the key when its last
member is trimmed and when its TTL is over (`Trim`, `Tick`). All processes are
taken to share Redis' clock. `addedAt` is history: when each member of the set was added
(its score is the `now` of its call, which may be older). `prompt` is history too: it holds as
long as every call that added a member came from its `time.time()` to its EXPIRE within the
second by which the TTL is longer than the window, and none ended between the two.
`MCRateLimitBurst` leaves `get_retry_after` and calls that end out and gives members out in
order, so that limit 2 can be explored with enough admissions to overrun it.

### TokenPostgres

`pool`, `status` and `free` are `_pool`, what asyncpg knows of every pool, and how
many of its connections nobody holds. Each method is `Ask` → `Acquire` → a statement →
`Release`, one connection and one statement; `load_token` goes on to `judge` with the
row it read, and `Sweep` is the `delete_token` it calls for an expired one, a second
connection after it gave back the first. A call that is over keeps what it answered in
`call` until the next one (`Deliver`, `Answered`). `Fail` and `Cancel` end a call at any await. `Initialize`
with `Created`/`NotCreated`, and `Close` with `Closed`/`Terminated`, are the life cycle. How asyncpg's
pool acts (refusing while it closes, waiting for connections, terminating when
`close` is cancelled) is modelled from how the code uses it and marked external
in the map. A failed statement is one that either did its work or did not: `Fail` is
possible before and after it.

`SharedTokenStorage` promises that each call takes effect once, at one moment while it is
under way, or ends without; that a load answers what was stored at such a moment and has
not expired when it answers; and that a load which finds an expired token then deletes
whatever is stored under it, live or not (the race of `tokens_race` is part of the promise:
the code does no better). `Task` maps a call to what it still has to do: before its
statement a call is its method, after it the answer, the sweep or nothing. Pools,
connections and the waits for them do not appear.

### TokenMemory and TokenStorage

Methods of `MemoryTokenStorage` never suspend, so each is one action. Lists of scopes
are objects (`lists`); `held` are those some caller can still reach, and a caller may
change any of them. `Copy` is `scopes.copy()`. `answer` is what the last load answered.
`load_token` answers a shallow copy of the row, as its docstring says, so a caller that
loaded a token holds the stored list and may change it; `ScopesKept` is about the tokens that were
not loaded since they were stored.
`TokenStorage` promises that what is found is what was stored last, that a live
token is found, and that one expired for a second or longer is not; in between (the second that
`int(time.time())` cuts off) either is allowed.

## 3. Runs

| Run | Shows | Bounds, and why they are enough |
|---|---|---|
| `jti_memory` | `CacheInv`, `PurgeComplete`, `CleanupsSpaced`, `VerificationEnds`, refinement of `AcceptOnce` | two threads: a purger and a recorder, or two recorders; three assertions with one `jti`, one of them with its `exp` in quotes, so that purges raise; a leeway of 2 ticks, which covers assertions past their `exp`; one restart |
| `jti_text` | `RefusedOnlyIfSeen` **violated** | one thread, two identifiers, one with its `exp` in quotes |
| `jti_replay` | `NoReplay` **violated** | one thread, one assertion sent twice |
| `jti_redis` | `KeyInv`, `ReplayIsBetrayed`, refinement | two calls on hosts a tick apart; time goes past `exp` + leeway for both assertions |
| `signing_keys` | `FirstUsable`, `RefusedForARival` | every JWKS of up to two keys over all tested members, and of three over kid, type and soundness: a key before, and one between, an unusable and the right one |
| `limiter_memory` | `WindowBound`, `DenialsJustified`, `RetryHonest`; refinement of `SlidingWindow`; over the handler `RegistrationsLimited`, `CredentialsDelivered`, `RetryAfterGiven` | two clients, limit 2, a window of two seconds of two ticks, time for an admission that needs the window to move; `MaxAdmitted` = 3 admissions in all are one more than the limit of one client; two requests, so that one is between its awaits when the other is admitted, refused or creates a client; one hook, which can return, raise or be cancelled |
| `limiter_redis` | `SetInv`, `OverAdmission`, `DenialsJustified`, `RetryHonest` | two calls, limit 1, three members; time for the TTL to end. With limit 1 no live admission is lost with a key, and `OverAdmission` is about the interleaving of ZCARD and ZADD only; its theorem covers the rest |
| `limiter_overrun` | `OverAdmissionAsDocumented` **violated** | two callers, limit 2, six members, which is what five live admissions after a first one that is over take; a window of four seconds of one tick, so that a key expires at tick 6; calls of `is_allowed` only |
| `tokens_postgres` | `PoolInv`, `PoolNotLeaked`, `LiveTokensKept`, `CallsEnd`, refinement of `SharedTokenStorage` | two calls and one connection, so that they compete; two pools, so that one is replaced; expiries 0 and 1 with time up to 1, so that a row can be expired and be stored again |
| `tokens_race` | `SweepsOnlyExpired` **violated** | as above |
| `device_flow` | `PassesBounded`, `PoliteServed`, `PollingEnds` | two polls in flight, enough to save a stale `last_poll_at` over a newer one; an interval of 2 and time up to 3, so that polls at 0, 1 and 2 meet and the whole interval is passed; expiry at 2, and a tick after it |
| `tokens_memory` | `ScopesKept`, refinement of `TokenStorage` | three lists: the caller's, a copy and another token's; two seconds of two ticks |

Each configuration names all its constants. `MaxTime`, `MaxRestarts` and `MaxAdmitted`
are the only bounds that a model has beyond the sizes of its sets; the theorems hold for
every value of them. The runs of `TokenPostgres` have one kind of tokens: the two tables never
meet in the code (the proofs are for any `Kinds`). Symmetry is used in the limiter's and the
registration's runs, for clients, requests, calls and members, which nothing in the
specification tells apart; no liveness is checked there. `limiter_overrun` takes its members in
order, so only its callers are symmetric. `PassesBounded` was also explored
with three polls of the device (no strangers) and with two over longer times; the bound N(N+1)/2 is reached, so it is no loose one. Only `signing_keys` turns the deadlock check off: its search ends.

### Fairness

Only three runs use it.

- `VerificationEnds` (`JtiMemory`): weak fairness of each thread's own steps (the
  operating system runs every thread) and strong fairness of taking the lock, as other
  threads take and give it back; a `threading.Lock` promises no order, but a
  waiting thread is not passed over for ever. Nothing is assumed of clients, of restarts or
  of time.
- `CallsEnd` (`TokenPostgres`): a statement is answered or runs into
  `command_timeout` (line 46), pool creation succeeds or fails, and a call waiting for a
  connection, or a `close()` waiting for all, gets them if they come back again and
  again: asyncpg's pool serves a queue. A new call is never assumed to come. The
  rest is weak fairness of a task that the event loop has on its ready list.
- `PollingEnds` (`DeviceFlow`): time passes, and the host's calls return (weak fairness). The
  device polls until it is told to stop (RFC 8628 asks this of it), and not every one of its
  polls is lost: strong fairness of its `Load`, `Evaluate` and `Answer`, since strangers and
  overlapping polls enable and disable them. These are assumptions about host and device,
  not about this library; the user is never assumed to decide. What the property rests on in the library is
  that the expiry is tested before the interval.

### What the violated runs show

- `jti_replay`: the purge drops an identifier at `exp` (line 131), `jwt.decode` lets its
  assertion pass until `exp` + 60 s (line 244). An assertion recorded before its `exp`
  can be accepted again, by the same process, in the leeway. Hence the in-memory
  cache implements `AcceptOnce` with horizon `exp` only.
- `jti_text`: a purge that compares a string with the clock raises (line 131) before it has moved
  `_last_cleanup`, so the next call tries again and fails too: from the first cleanup that is due after
  it, one accepted assertion with its `exp` in quotes keeps every other out, whatever its
  identifier, until a restart. The first such refusal is the violation.
- `limiter_overrun`: with limit 2, an admission lets the key expire just after its window; two calls
  that added to the set before that and send EXPIRE after it both return True, and nothing of
  them is left; then three more are admitted. Five in one window are more than the
  limit and the two callers. With limit 1 it does not happen: a call passes only on an
  empty set, whose key, and its TTL with it, is gone. Where calls are not so slow the bound holds:
  `OverAdmissionBounded` proves it for every limit as long as `prompt` does. The second that the TTL adds to the
  window is what this rests on: with limit 2 and a TTL of the window alone, TLC finds
  the overrun although all calls are prompt.
- `tokens_race`: `load_token` deletes by token, on a second connection, and so deletes a row
  that was stored after the one it saw.

### What the properties leave room for

The code does these things too, and the models show them; the passing properties are worded so
that they hold, and say what does not happen beyond them.

- Over Redis a call that passes `jwt.decode` in the leeway and is slow to send its SET finds the
  key of the first use gone, and the assertion is accepted twice. `AcceptOnce` promises
  nothing after `exp` + leeway, which is when the second acceptance takes place.
- From several threads the in-memory limiter loses admissions, and the ceiling that the
  concurrency test asserts (`tests/test_rate_limiting.py`, line 197) is not one.
  The run and the theorems about its list are about one event loop.
- After an over-admission over Redis `get_retry_after` names the moment the oldest member goes,
  when the set is still full. `RetryHonest` excepts advice from an over-full set.
- `initialize` on an open storage drops the open pool from `_pool`, and `close` has only the new one
  to close; a `close` and an `initialize` that overlap can lose one too. `PoolNotLeaked`
  excepts histories with such calls (`overlapped`).
- Whoever loads a token from the storage in memory can change its scopes. `ScopesKept` excepts such
  tokens.

## 4. Proofs

Every theorem holds for all values of the constants, under the named assumptions of the
modules (durations are natural numbers, "absent" values are not integers, and the like).

- **JtiMemory**: `IInv` is `TypeOK` and `CacheInv`. `ProtectedIsCached` alone is not
  inductive: that a store does not overwrite a protected identifier needs `FoundFresh`, and
  that needs `LockHeld` (nobody else records between look-up and store). That a
  purge keeps protected identifiers needs the bound `now[t] <= clock`, which the type
  invariant carries. A purge that raises
  changes nothing of this; without a string for `exp` it never happens, and then
  `RefusalsNeedReuse` proves `RefusedOnlyIfSeen`: what `jti_text` finds is the string's doing
  alone. From `IInv` follow `PurgeComplete`, `CleanupsSpaced` and the
  refinement of `AcceptOnce`: `Store` is `Accept`, `Restart` is `Forget`, all else stutters.
- **JtiRedis**: `IInv` is `TypeOK` and `KeyInv`. The step that matters is that a TTL computed
  by `Prepare` reaches the horizon from then on (`PendingCovers`), because time only
  moves forward between computing it and the SET.
- **SigningKeys**: `SearchInv` is the loop invariant (every place passed is unusable).
  `RefusalsNeedRivals` follows: an honest signer's key is usable, so the key tried is
  that or an earlier one which passed the same tests.
- **RateLimitMemory** (in `RegistrationProofs`): all but `TypeCorrect` `ASSUME OneLoop`, one thread.
  `LoopInv` says where the list stands to the history: what is missing from the list is
  out of the window. `HistoryInv` bounds every window, past ones too, and `AdviceInv` says
  why an advice that was kept finds room. `SecondsSuffice` is the arithmetic of
  `int(ticks) + 1`. The refinement of `SlidingWindow` rests on `ListJudges` (the filtered list is exactly
  the admissions in the window of the call), `PastInv` (nothing was admitted in the future)
  and `AnswerAdvises` (when the oldest of at most `Limit` entries leaves, there is room).
  `SlidingWindowIsBounded` closes the circle: the abstract limiter keeps `WindowBound`
  for any number of callers.
- **Registration**: `HandlerDrivesLimiter` shows that every step of the composition is a
  step of the limiter or leaves it alone, so the limiter's theorems hold under the handler.
  `CredentialsAreDelivered` needs no assumption on threads. `RegistrationsAreLimited` needs
  `EntryInv`: every admission is held by at most one request or client, so the clients of the
  requests admitted in a window are at most as many as its admissions, and `WindowBound` applies. `RetryAfterIsGiven`
  needs `WaitInv`: after a denial the caller's list is not empty until `get_retry_after` has
  run. Both `ASSUME OneLoop`.
- **RateLimitRedis**: `MemberInv` (calls under way have members of their own) keeps
  `SetBound` inductive: a call passes the test with fewer than the limit in the set, and
  then the members in the set and on their way are counted together. `SettledInv` adds to
  `CountedForWindow` that the key's TTL outlasts every settled member's window.
  `OverAdmissionBounded` counts every admission, settled or not, as long as `prompt` holds. `PromptInv`
  is why every live admission is then settled, hence in the set: a call between its ZADD and its
  EXPIRE started at most a second ago (`PendingInv`), so one that is caught there by the end of a
  key started a window or more after the key was last renewed. `KeyInv` says that such a call is
  not the only one there: whoever kept the set from being empty when it passed had
  itself started before that, and is late for its EXPIRE, which `prompt` rules out.
  `RetryInv` counts the members that stay beyond the advised time (`Late`). For `DenialsAreJustified`,
  `JudgeInv` says that after its trim a call finds in the set only members
  added within the window before its `now`, or since; it assumes `Window > 0`, as with an empty
  window a call may count members that a concurrent one added at the same time and that are out
  of the window at once.
- **TokenPostgres**: `CallInv` ties each call's place to what it knows there (a cleanup's `now`
  is in the past, the load behind a sweep saw an expired row); with it `PoolInv` is inductive (`HoldersCount` is the counting). `LifecycleInv`
  adds, for calls of `initialize` and `close` that do not overlap, who may hold which
  pool. `StatementRefines` maps each statement to the abstract call that takes effect by it, with `CallInv`
  saying what the call knows of its key; `TaskOf` and `OneTaskChanges` show that no step
  touches another call's task.
- **DeviceFlow**: `ServiceInv` says that the stored `last_poll_at` is at least an interval before
  the time from which the device's next poll counts as polite (`RecordInv`), and that a
  stranger's poll is never saved (`StrangerInv`): so what a polite poll loads is an
  interval old (`PoliteInv`), hence `PoliteServed`. `PassesBounded` is not inductive, as late saves turn
  `last_poll_at` back one inside the other. `BudgetInv` counts them for the interval from
  each start `s`: all polls but those decided before `s` are fresh (`m` of them), as
  each of the others can turn the record back once, and is fresh afterwards. With `n`
  passes saved and `h` fresh polls that have passed or may, `2n <= m(m-1)`
  while the stored `last_poll_at` is before `s`, and `2(n+h) <= m(m+1)` when it is not.
  `NthInv` keeps the members of `passes` apart, so that each is counted.
- **TokenMemory**: `HeapInv`: two tokens never share a list, and the list of a token that was not
  loaded since it was stored is held by no caller. The refinement needs `ExpiredWhenOverdue`: the truncated clock
  finds everything expired that is overdue.

Checked by TLC only: `VerificationEnds`, `CallsEnd` and `PollingEnds` (liveness under fairness, which is
out of the prover's reach), and the violated properties, which are counterexamples.
Every invariant and action property of a passing run, and every refinement, is a theorem.

## 5. What is not modelled

- Of `device.py`: the generators of codes, the normalisation of a user code and the assembly of
  responses, which are functions of strings.
- Of the registration handler: the contents of a request (every way to refuse a body is one `Fail`),
  the metadata a client is stored with, the handler without a limiter and over the Redis limiter.
- `responses.py`, `pkce.py`, `validation.py`, `cors.py`: stateless functions of strings;
  what could be wrong in them is formatting, hashing or a regular expression, and a unit
  test reaches it.
- Of `jwt.py`: the content of claims other than `jti`, `iat` and `exp`, and signatures, which
  are PyJWT's.
- Of the storages: the columns and members beside `expires_at` and the list of scopes.
- Memory growth: the limiter's dictionary keeps a (possibly empty) list for every client
  that ever asked, by design of `defaultdict`.

## 6. Plan

Done: the modules above, `JtiMemory` first, as replay protection is what the library's
security rests on and where threads, clocks and restarts meet; `Registration` and
`DeviceFlow` last; a theorem for every invariant, action property and refinement.

1. The handler over the Redis limiter, and an abstract limiter with the over-admission as a
   parameter that both limiters implement.
2. `DeviceFlow` against an abstract grant: a decision of the user is answered once made, and
   polling has no other effect.
