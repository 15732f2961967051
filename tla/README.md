# antigravity2api in TLA+

antigravity2api is a single-process Go service. It offers OpenAI, Claude and
Gemini endpoints and forwards every request to Cloud Code with the credentials
of one account out of a pool. Accounts, settings and the request log live in
SQLite; everything else is memory of the process. These modules model the parts
of it whose correctness depends on the order in which goroutines, the database,
the OAuth server and the upstream act. Paths below are relative to
`src/server/internal/` unless they start with `src/`.

## The system

| Component | State | Operations | Shares it with |
|---|---|---|---|
| Store, account mutations (`store/scheduling.go`, `store/store.go`) | table `accounts`, the counter `accountsVersion` | one SQL commit, then one version bump; list; partial updates of token, project and quota | scheduler, credential refresh, admin API |
| Snapshot of the scheduler (`pool/scheduler.go` 122-174) | `accounts`, `accountsVersion`, `snapshotGate` of `Pool` | loadSnapshot | every Acquire, before selection and at the recheck |
| Scheduler (`pool/scheduler.go`) | `reservations`, `limits`, `sessions`, the channel `changed`, all under `Pool.mu` | Acquire, release, MarkLimited, ClearLimitedBefore | the proxy, refreshes |
| Account gates (`pool/lifecycle.go` 15-45) | `gates`: per id a channel of one token and a count of its users | acquireGate, unlock | every refresh, project lookup and invalidation |
| Credential refresh (`pool/lifecycle.go`) | token and project columns of the row, `refreshFailures`, eight permits in `networkSlots` | ensureFresh, ensureProject, InvalidateToken, RefreshToken, RefreshAccount | Acquire, the 401 path of the proxy, health loop, admin API |
| Background work of the pool (`pool/lifecycle.go` 222-363, `pool/pool.go`) | `refreshQueue`, `queued`, `closed`, the wait group | importTokens, enqueueRefresh, two workers, RefreshAll, health loop, Close | admin API, shutdown |
| Request log and last-used times (`store/writer.go`) | channel `logCh`, map `used`, `logClosed` under `logMu` | AddLog, MarkUsed, one worker, Close | every request |
| Admission (`httpapi/runtime.go`) | channels `pending` and `admission`, the root context | limitProxy, Close | every proxied request, shutdown |
| Proxy (`httpapi/proxy.go`, `retry.go`, `upstream_errors.go`) | the local variables of one request | the retry loop, the retry policy, streaming | everything above |
| Streams (`convert/stream.go`, `convert/responses.go`) | decoder and encoder state of one response | Gemini SSE in; OpenAI, Claude, Responses or Gemini SSE, or one JSON answer out | proxy |
| Caches (`httpapi/responses.go`, `convert/signature_cache.go`) | bounded maps of responses and thought signatures | remember, find | requests of one conversation |
| Request conversion, model names (`convert/`) | none of its own; it reads and refreshes the signature cache | messages to contents, names to models, budgets to limits | proxy, caches |
| Cloud Code client (`cloudcode/`) | none between operations | calls with endpoint fallback, the project header, quota requests | proxy, refresh |
| OAuth, transport | connections | network calls with timeouts | refresh, imports, client |
| Admin API, media endpoints, web UI | none of their own | decode, call the above, encode | |

How they interact. A request passes admission and runs the retry loop. Each
attempt calls `Pool.Acquire`, which loads the snapshot, reserves a slot of an
account under `Pool.mu`, and leaves the lock to refresh credentials; it then
loads the snapshot again and rechecks the account before it returns it with a
release function. The proxy records what the upstream answered (a cooldown, a
forbidden account, a refused token, success) while it holds the slot or just
after it gave it back. Account mutations never touch the memory of the
scheduler: they bump a version, and the next load notices.

What is hard about it:

- *State used after it was read.* Selection works on a copy of the table;
  credentials take seconds of network time without any lock; the outcome of an
  attempt that began long ago is recorded now.
- *Commit and version are two steps*, and so are reading the version and
  listing the rows.
- *Leaving on many paths.* Acquire and the proxy have a dozen ways out between
  reserving a slot and giving it back, and so have gates and permits.
- *Cancellation everywhere*: the context of the client, the request timeout,
  the pool's root context. A call may end between the answer of a server and
  the update that stores it.
- *Bounded maps and queues* that must keep what is live.
- *Closing* while requests still use what is closed.
- *Protocols that differ*: one upstream stream has to become well-formed events
  of four protocols, whatever its parts and wherever it breaks, and what the
  client sends back a turn later has to become contents the upstream accepts.

What makes each part correct is in the next section, as properties; the two
hazards that no property covers are listed in `PROJECT.json` with a note.

## Modules

```
AccountSnapshot ----- Pool --------- AccountSlots   (Pool implements it)
AccountGate --------- KeyedMutex --- Credentials    (AccountGate implements KeyedMutex,
                                                     Credentials is built on it)
LogWriter ----------- LogOutbox                     (LogWriter implements it)
    `---------------- Server                        (the process around the writer)
ProxyLoop ----------- ProxyCall                     (ProxyCall puts the client below
CloudCodeClient --------'                            the loop and implements it)
Selection ----------- GeminiStream, LruCache        (loops over lists)
GeminiStream -------- ClaudeStream, ResponsesStream, OpenAIStream, CollectedAnswer
                            `--- Streams (any of them, and what all must satisfy)
ModelNames, LruCache - Conversion
Streams + Conversion - Exchange                     (a conversation of two turns)
```

`Pool` extends `AccountSnapshot`: every step of the scheduler is a step of the
snapshot protocol or leaves it alone, which is proved. `Credentials` and `Pool`
meet at the call of `ensureFreshContext` and `ensureProject`: in `Pool` the
call succeeds, fails or is cancelled, and the rows it writes are mutations by
`Admins`; `Credentials` models what happens inside. `Pool` and `ProxyLoop` look
at the proxy from two sides: `Pool` has many requests with one attempt each and
what they record about accounts, `ProxyLoop` has one request with all its
attempts, to which Acquire just returns an account or fails. `ProxyCall`
replaces what `ProxyLoop` assumes about the upstream by the client's calls.
`Server` has all requests, but of each only what the store and the admission
see of it. `Streams` and `Exchange` look inside the answer and the next request.

An action is one critical section of a mutex, one SQL statement, one channel
operation, or the outcome of one network call. Code between two of these has no
effect that another goroutine can see and belongs to the action before or
after it. Definitions whose comment begins with `(mutant)` are not part of a
specification; each is a plausible mistake in the definition next to it, used
to make sure that the properties can fail.

### AccountSnapshot

Each row carries a `stamp`, a counter of its changes that exists only in the
model; so one can say that a copy contains a mutation. `Commit` and
`BumpVersion` are the two halves of `accountUpdateContext`. A load compares the
version, enters the gate, compares again (`Reread`), lists, installs; it fails
when the query fails or the caller's context ends. `settled` is what had
returned to its caller, `floor` what had returned before a load began.

- `SnapshotCurrent`: if the installed version is the current one, the copy has
  every mutation that returned.
- `LoadSeesReturnedWrites`: after a load that returned nil, the copy has every
  mutation that returned before the load was called.
- `SnapshotNeverRegresses`: neither copy nor version ever goes back.

### Pool

`pc` names the places of Acquire ("retry", "select", "wait", "ensure",
"disable"/"cool"/"note" for a failed refresh, "recheck", "drop", "abort") and
of the proxy ("granted", "using", "forbid", "refused", "rejected", and the
three places where the outcome is recorded after the release). `held` says
whose slot a request has; `active` is the counter in the reservation. `last`
keeps the order of the reservations' times, not the times. `limits` and
`sessions` are the two bounded maps, `parked` are the requests that wait on the
current channel `changed`; closing the channel empties the set.

What varies per row is what selection looks at: disabled, forbidden, end of the
batch's validity, `rate_limited_until`, and per model the time from which its
quota is available. `Mapped` is `RewriteToAvailable`.

- `SlotAccounting`: the counter is the number of requests that hold the
  account; `CapRespected`: which is at most `MAX_CONCURRENT_PER_ACCOUNT`.
- `SlotsSpec`: the scheduler implements `AccountSlots`, in which a request
  takes a slot only when it has none and one is free.
- `NoLostWakeup`: while a request is parked, an account it may use is at its
  cap, so that a release which wakes it will come.
- `NoBarredGrant`: an account that was disabled, forbidden or deleted before
  the recheck began is not handed out. `barred` records these accounts.
- `GrantIsNotOverACooldown`: a cooldown recorded before the grant was decided
  is not overlooked.
- `CooldownKept`: a running cooldown ends early only for the reasons the code
  has: a success of an attempt that began no earlier than the mark, removal of
  the account, or a new mark in a map that is full of running ones, which takes
  the one that would end first: an expired mark makes room before a running one.
- `NoStickyToLimited`: no session is bound to an account whose whole-account
  cooldown is running.
- `AcquireReturns`: every call of Acquire returns.

### AccountGate and KeyedMutex

`AccountGate` models the map of gates: `Create` and `Join` are the first
section of `gateMu`, `Receive` and `Cancel` the select on channel and context,
`SendBack` and `Drop` the unlock function. Gate objects have an identity, so
that two objects for one id are possible; they are what the code has to avoid.

- `MutualExclusion` and `MutexSpec`: one holder per id; the gates implement
  `KeyedMutex`.
- `GatesAreCounted`: the map has an entry exactly while somebody uses it.
- `GateIsReached`: a waiter gets the gate or is cancelled.

### Credentials

Per caller: which function it is in (`phase`), where in it (`pc`), its own copy
of the row (`acc`), the answer to be stored. Access and refresh tokens are
numbered in the order in which the OAuth server issued them; `valid` is the one
the server accepts. A context may end at every wait, network call and SQL
statement (`ContextEnds`, `SaveFails`, the failing alternatives of `ReadBack`
and `AutoDisable`).

- `RefreshesAreMerged`: during a refresh no other one runs for the account, the
  stored token is still unusable, and the token that is sent is the stored one.
- `CredentialsNeverGoBack`: an answer never overwrites a newer one.
- `AdminStateSurvives`: only the admin enables an account.
- `AutoDisableIsJustified`: the program disables an account only if the server
  refuses its stored refresh token.
- `DisabledIsNotReturned`: an account that was disabled or deleted while its
  credentials were being fetched is not returned as ready.
- `PermitsAreReturned`, `CallReturns`: permits are neither lost nor exceeded,
  and every call ends.

### LogWriter and LogOutbox

`LogWriter` is run as a part of `Server`. Callers hold the read lock from the test of `logClosed` to the end of their
work; the worker takes entries one by one, takes the map of times at each
flush, and writes both in one transaction that succeeds or fails.

- `OutboxSpec`: the writer implements `LogOutbox`: entries are stored in the
  order in which they were accepted, or lost with their whole batch and counted.
- `NoUseAfterClose`: nobody sends on the closed channel.
- `TimesAreOnTheWay`: as long as no write failed, the newest noted time is in
  memory or in the table.
- `CloseDrains`: when Close returns nothing is left in memory and it reports
  whether some write failed.

### Server

`Server` extends `LogWriter` by what happens around it. `process` is the place
in `run` of `main.go` and its deferred calls: "serving", "shutdown" (the wait
for handlers), "forced" and "close" (the two calls of Server.Close, each up to
the wait in Pool.Close), "maintenance", "store", "ended". A caller of the
writer is a request; `place` is where it is in limitProxy, and `pending` and
`admission` are the lengths of the two channels. An import has one `item` per
pasted token, which takes a slot, is found in the table or hydrated, inserted,
marked and queued for a refresh; `refresher` are the workers that take it.

Requests arrive in the order of their numbers. Left out are idle ticks of the
worker (they change nothing), the rounds of the health loop (what one refresh
does is in `Credentials`), tokens that the OAuth server rotates during an
import, and TrimLogs below the 5000 rows it keeps.

- `NothingIsLeaked`: however requests leave, their two places come back once; a
  mark in `queued` stands for exactly one refresh on its way; an import counts
  the accounts whose rows are its own although another one imports the same
  token; and background and maintenance have ended before the store closes.
- `NoUseAfterClose`, `CloseDrains`, `OutboxSpec` of the writer, now under
  requests that outlive a shutdown that timed out.
- `WorkEnds`: requests are served or refused, imported accounts are refreshed
  unless their import was cut short, and a process that was told to stop ends.

### ProxyLoop

The local variables of `Server.proxy` with their names; `pc` is the place in
the loop ("loop", "acquire", "build", "upstream", then "failed", "refresh",
"limit", "decide" for a failed answer, "grace" and "pause" for the two waits,
"stream", "late" and "respond" for a good one, and "fail" after the loop). A
failed answer is what the policy looks at: status, delay hint, and what the body
says. `limited` and `forbidden` are what this request recorded about accounts.
The HTTP status of the response, its Retry-After and the logged status are
`answer`.

- `AttemptsAreBounded`: three kinds of retry do not use up attempts and may
  follow each other; still at most `3 * MaxRetryAttempts + 1` upstream calls.
- `SlotFollowsAttempt`: the slot is held during the attempts on its account and
  at no other time, also after a panic or a cancelled wait.
- `AnswerIsHonest`: a failure tells the client what the upstream said last, the
  end of the context, or, when no account ever answered, 503; a 429 comes with
  Retry-After.
- `LimitsComeFirst`: a limit is recorded before the slot is passed on. An error
  in mid-stream is the exception, in the code as in the model
  (`httpapi/proxy.go:417`), and so is a context that ended.
- `RequestEnds`: every request is answered.

### CloudCodeClient and ProxyCall

One operation of the client with its calls. `asked` is what was requested so
far: endpoint, whether the project header was sent, what came back (0 for no
answer). Endpoints are tried in turn; a 403 that says that the project has the
service disabled starts over without the header; the quota operation goes from
the summary with the project to the one without, and to the list of models.

`ProxyCall` replaces the upstream of `ProxyLoop`: `BeginUpstream` starts an
operation under the context of the request, and the loop goes on with what it
returns. Before the request the pool may have used the client for the account.

- `CallIsFaithful`: nothing is repeated that an endpoint accepted or refused
  for good; the caller is told what the last endpoint said; an account is only
  reported as forbidden if it was refused without naming a project.
- The properties of `ProxyLoop`, on top of these calls.

### GeminiStream, the writers, and Streams

`GeminiStream` is the upstream side: frames are read and checked before the
answer is committed (`prelude`), then walked; each frame is a sequence of
candidates, each candidate a sequence of parts that a writer turns into events
(`out`). `given` is what the upstream has sent, `calls` and `used` are the tool
registry, which drops repeated calls and makes ids unique. The frame, the end
of the stream, a read error, a failing write and the limits on candidates and
tools are choices of the model. `ClaudeStream`, `ResponsesStream` and
`OpenAIStream` are the streaming writers with their own state (`block` and
`pendingSig`, `outputs` and `active`, `states`); `CollectedAnswer` is the answer
that is not streamed. A text is a number, its place in `given`.

- `EventsAreInOrder`: the events are well nested and numbered; nothing follows
  a terminal event.
- `TextIsKept`: every text and thought arrives once and in order
  (`TextIsTold`), also in the items that repeat it, in the choices and in the
  blocks of a Claude message that is collected; and as what it was
  (`TextIsToldAsItWas`): the kind of a delta and the type of an item are those
  of the part they tell, in every protocol, so that a thought is never told as
  an answer nor an answer as a thought.
- `CallsAreOnce`: a call that the upstream repeats is delivered once, and no
  two calls of an answer share an id.
- `SignaturesAreKept`: the signature of a thinking block is in that block and
  after its text, although it may come with a later part.
- `EndIsHonest`: success is claimed only for an answer that is whole, and a
  failure is told unless the client is gone.

### ModelNames, LruCache, Conversion, and Exchange

`ModelNames` is which model a name stands for: aliases, tiers, mix rules, what
the account serves, and the limits of each model. The code looks for parts of
names; the module has tables over at least one name for every branch.
`LruCache` is the list with a byte count that the signature cache and the
response history both are. `Conversion` turns the messages of a client into
contents, with tool names, signatures, and the settings for thinking, tokens
and tools. `Exchange` is a conversation of two turns: an answer of `Streams`,
what a client keeps of it (all, or less: signatures lost, thoughts lost, the
sentinel, short tool names), what the gateway remembers, entries of others and
time in between, and the request of the second turn, chained or in full.

- `HistoryIsKept`: nothing is lost, doubled or reordered on its way back; roles
  alternate; a result is named like its call; a short name becomes the one
  declared name that it can stand for (`NamesOneTool`; a tool that is declared
  twice counts twice, as in `resolveDeclaredToolName`, and keeps its short name).
- `CallsAreAuthentic`: Claude gets no thinking that is not signed, Gemini no
  call without a signature or the sentinel.
- `ThinkingIsAsAsked`: thinking that was refused is off on every route, and it
  leaves room for the answer.
- `CachesAreExact`: the byte counts are those of the entries, within the limits.

## Runs

Bounds are CONSTANTS in the configurations.

| Run | Instance | Why it is enough |
|---|---|---|
| PoolSlots | 2 requests, 2 accounts, cap 1, one admin, 2 versions | a request can be refused the slot of another, move to the second account or wait; each request also writes (disables, forbids) |
| PoolCooldowns | 2 requests, 1 account, 2 models, cap 2, 2 limits, 1 binding, times 0..2 | both requests hold the account at once; three scopes and two sessions overflow both maps |
| PoolLive | 2 requests, 1 account, cap 1, quota that returns, batches that expire | one waits while the other goes through every path |
| AccountGate | 3 callers, 2 ids, 3 objects | one inside, one waiting, one arriving, and an id to switch to |
| Credentials | 2 requests, 1 account, 2 tokens, rotation and revocation | every pair of concurrent calls, also after a 401, with all admin writes |
| CredentialsProjects | 2 callers, 1 account without a project, 1 permit | the permit is contended while the gate is held |
| Server | 3 requests for 1 running and 2 waiting places, or 2 imports of 2 tokens with one in common; log queue of 1, batch of 2, 2 entries; refresh queue of 1, 1 worker | both channels and both queues are full at some time; a request is refused; a token is imported twice; each phase of the shutdown meets each phase of a request and an import |
| ProxyLoop | `ProxyCall` with 2 accounts, 2 attempts, 2 endpoints, 3 plans, 13 failures: every status and category the policy tells apart, with and without a hint | each account can be retried for grace and for a refresh, the parameters dropped once, the last attempt fails after another one did, and every call can fall back and start over |
| Exchange | answers of up to 3 out of 22 frames, 2 candidates, 2 calls; those of 2 frames are sent back, with 3 names, 6 settings, 2 offers, 5 ways to lose something; caches of 2 entries and 3 bytes | each kind of part follows each other one, with the signature, the id or the name missing; entries of others evict, and time expires, what the second turn needs |

The next three runs end in a counterexample; they check what the documents and
the tests say.

- **CredentialsRotation** (`RotationIsStored`). `docs/proxy-hardening.md:16`
  promises that rotated refresh tokens are stored, and the test at
  `pool/scheduler_test.go:331` calls the contrary "rotated refresh token lost".
  `ensureFreshContext` stores the answer with the context of the request
  (`pool/lifecycle.go:106`). When that context ends after the server rotated
  the token, the update fails, the only valid refresh token is gone, and the
  next refresh is answered `invalid_grant`, which disables the account.
- **CredentialsMerge401** (`OnlyRefusedIsInvalidated`). The same document says
  that refreshes are merged and that a 401 forces one refresh.
  `InvalidateTokenContext` does not know which token was refused
  (`httpapi/proxy.go:494`), so the second of two requests that were refused
  with the old token invalidates the new one that the first obtained.
- **SignatureFamilies** (`SignaturesStayInFamily`). A test
  (`convert/response_parity_test.go:77`) calls it an error when a signature
  crosses "incompatible model families". Signatures are filed under the family
  of the name that the client asked for (`httpapi/proxy.go:373`, 415) and looked
  up under that of the model that serves (`convert/openai.go:179`). With a mix
  rule from a Claude name to Gemini a Gemini signature is filed under Claude, and
  the next request, which the rule leaves on Claude, carries it.

Deadlock is checked except in the Pool runs, where the number of calls is
bounded and requests end for good, in ProxyLoop, whose one request ends, and in
Server, whose process ends.

Seen while modelling, and not a run: the Responses writer returns reasoning
items with `encrypted_content`, but a request that brings them back loses them
(`convert/openai.go:441` reads the summary only).

## Fairness

- A goroutine that can run does: weak fairness of its steps.
- Gates, permits and the snapshot's gate are Go channels, whose waiters are
  served in order; a waiter that could receive again and again will: strong
  fairness of the receive.
- Network calls return, since the clients have timeouts; which of the outcomes
  they have is open. Nothing is assumed about cancellations, the admin, the
  clock or new calls, except that `RequestTimeout` ends a request that keeps
  trying the upstream (strong fairness of `HandBack`).
- In `ProxyCall` the request and the client make their next step: Acquire
  returns (`AcquireReturns`), network calls and writes end, timers run out.
- `Server` assumes weak fairness of everything the program does by itself as a
  whole. That is enough, because nothing there goes on forever: each step moves
  a request, an import, a refresh, the shutdown or the writer forward, so that
  the program only rests when none of them can move. Requests, signals and
  importers who leave need not come.
- `AcquireReturns` assumes no 100 ms timer: a release alone must wake a waiter.

## Proofs

The theorems hold for every value of the constants that satisfies the named
assumptions: any number of requests, accounts, callers and entries, any cap,
queue, batch and clock. The assumptions say that sets are finite where the code
counts them, that bounds are positive, and that special values differ from
others.

- **AccountSnapshotProofs**. The loads are the difficulty: a version match
  proves nothing by itself. `IInv` says for each place of a load what the
  loader's copy contains. `ListedInv` is the core: a listed copy is no older
  than the installed one, has all that the loader must see, and, if the version
  it will be labelled with is still current, all that has returned. Theorems:
  `SnapshotIsCurrent`, `LoadsSeeReturnedWrites`, `SnapshotIsMonotone`.
- **PoolProofs**. `CallInv` ties the slot of a request to its place in the
  code; with it each step takes one slot, gives one back or leaves slots alone
  (`SlotStep`), and lemmas about slots, bounded maps and waiting requests give
  `PoolTypeOK`, `SlotsAreAccounted`, `CapIsRespected`, `WakeupsAreNotLost` and
  `SchedulerImplementsSlots`. `SnapshotStep` gives
  `SchedulerImplementsSnapshot` and so carries the theorems of the snapshot
  over. `BarredAreNotGranted` needs both: `GrantInv` follows a barred account
  through the loader's copy of the table to the copy that the recheck looks at.
  `CooldownInv` adds that the map of cooldowns is finite and that no attempt
  began in the future; with those two facts both properties about cooldowns are
  inductive together, given what `MarkLimited` and a full map do to the maps
  (`MarkLemma`, `RoomKeepsLive`). It gives `CooldownsAreHeeded`,
  `StickySessionsMoveOn` and `CooldownsAreKept`.
- **AccountGateProofs**. `GateInv`: whoever uses an id points to the object in
  the map, no object serves two ids, its count is the number of users, and the
  token is in the channel unless one user is inside. Theorems: `GatesExclude`,
  `GatesDoNotLeak`, `GatesImplementMutex`.
- **CredentialsProofs**. None of the properties is inductive; `CredentialsInv`
  says what a caller may rely on at each place. `GateInv`: who is between the
  second look at the row and the unlock holds the gate. `RefreshInv`: from that
  look to the update the stored tokens are the ones it read, or older than its
  answer. `DeadInv`: an `invalid_grant`, in a caller's hands or in the cache of
  failures, is about a stored token that the server still refuses, and no
  answer that could replace it is on its way; this needs tokens to be numbered
  from 1 (`NumberInv`), since a revocation is modelled as 0. `BarInv`: a caller
  whose account was barred has yet to read it, or has read that it is gone.
  `PermitInv` counts calls. Theorems: `CredentialsTypes`, `NoPermitIsLost`,
  `OneRefreshAtATime`, `BarredCallsFail`, `TokensOnlyGetNewer`,
  `OnlyTheAdminEnables`, `OnlyTheRefusedAreDisabled`. They build on `KeyedMutex`,
  which `GatesImplementMutex` shows the gates to be.
- **ServerProofs**. First the writer alone: `WriterInv` relates the phases of
  Close to the places of worker and callers and says where a noted time can be.
  Theorems: `WriterTypeOK`, `NobodyUsesAfterClose`, `CloseLeavesNothing`,
  `WriterImplementsOutbox`, and `TimesAreKept`: as long as no write failed, the
  newest noted time is in memory or in the table. No run checks the last one.
  Then the process around it: each of its steps is a step of the writer or
  leaves the writer alone (`ServerRunsTheWriter`), which carries these theorems
  over (`ServerImplementsOutbox`, `ServerUsesNothingClosed`,
  `ServerDrainsTheStore`). `ServerInv` is behind `ServerLeaksNothing`
  (`NothingIsLeaked`). `RequestInv`: both channels hold one place for each
  request that is inside or waits. `RowsInv`: rows and imported tokens are
  equally many. `RefreshInv`: a mark in `queued` is in exactly one of three
  hands, its importer's, the queue's or a worker's. `ShutdownInv`: the store
  closes after background and maintenance. The first version of the theorem
  failed on `Items`, which said less about the importers' tokens than the
  actions rely on; it was rewritten.
- **ProxyCallProofs**. First the loop alone. `ProxyInv`: the accounts that were
  tried are no more than the attempts, since an account that was given up is
  excluded (`TriedInv`); every upstream call is paid for by an attempt, a grace
  retry, a refresh or the penalty retry, and while one of these is due there is
  credit left (`CountInv`); the last status is that of the last answer, with a
  Retry-After for a 429 (`StatusInv`); limits precede the decision
  (`LimitInv`). Theorems: `RetriesAreBounded`, `SlotsFollowAttempts`,
  `AnswersAreHonest`, `LimitsBeforeRelease`, for every `MAX_RETRY_ATTEMPTS` and
  all failures. Then the client: `ClientInv`: the next request is due to the
  last one (`NextIsDue`), the header is gone after the one answer that forbids
  it (`DisabledIsStripped`), and only the last of the answers can be one
  (`AnswerIsLast`). Theorem: `CallsAreFaithful`, for any number of endpoints.
  Then both: `CallImplementsLoop`: the loop with the client below it implements
  the loop alone, so that `CallRetriesAreBounded` and `CallAnswersAreHonest`
  follow from the theorems above; each of its steps is a step of the client or
  none, so `LoopCallsAreFaithful` follows as well.
- **StreamsProofs**. Four theorems about every answer, from two invariants.
  First `EndInv`. An answer without an error is complete when the
  walk ends (`Flow`: every candidate has its finish reason), and only then may
  a writer claim success; what a writer adds before the end neither claims nor
  fails (`Quiet`). The Responses writer decides by `actionable`, a flag it sets
  while an item is still open, so `ItemsInv` follows the item: it is open or
  completed among the outputs until the answer ends. Hence `AnswersEndHonestly`.
  Then `ToldInv`, which says that what was written so far is what was visited so
  far. It has a part for the walk (`WalkInv`: a part is visited after its
  candidate, and only while the answer is whole), one for the tool registry
  (`Registry`: there is one id in `used` for each new call in `given`, and the
  ids made up are the first ones), and, as long as a writer runs, one for its
  protocol that ties its own variables to the events. `ClaudeLink`: blocks 0 to
  `index - 1` are closed and `block` is the kind of the open one (`Nested`), the
  thinking blocks before it are signed, and `pendingSig` is the last signature
  of the open one (`Holding`). `ResponsesLink`: the items done are `outputs`
  without the active one, which has the texts since it was added (`Story`).
  `OpenAILink`: `states` holds the candidates whose role was written and counts
  the calls of each (`Lined`). `CollectLink`: the parts of each candidate, joined
  where the code joins them, are its texts, thoughts and calls (`Collected`,
  `FiledIn`); the fold that makes the blocks of the Claude message is unrolled
  to show that they tell the same, kind by kind (`BlocksTell`). When the writer
  ends, its link gives `AnswerIsKept` (order, `TextIsTold`, calls and
  signatures), also of what a broken write left (`Begins`: a prefix). Theorems:
  `EventsComeInOrder`, `CallsComeOnce` and `NoSignatureIsLost`, for all frames,
  any number of candidates and calls and each of the four writers.
- **ExchangeProofs**. First the rest of `TextIsKept`: `KindsInv` says that each
  event, each item and the text of the item that is still open tell parts of
  their own kind (`Apt`), which grows with `given` because a part once visited
  stays (`AptMore`). With `ToldInv` it gives `NoTextIsLost`, again for every
  answer of each writer. Then theorems about a conversation, from three
  invariants.
  `ExchangeInv` says of the answer what its end has to offer to the client
  (`AnswerInv`), that the history is a conversation of well-formed messages, of
  which the last `fresh` are new (`TalkInv`), and that the byte count of each
  cache is the sum of its entries, whose keys differ and which fit in both
  bounds (`CachesInv`, with what is stored being conversations): hence
  `ExchangeEndsHonestly` and `CountsAreExact`. With `ToldInv` and `KindsInv`,
  which no step of the second turn disturbs, it carries the theorems about answers over
  (`ExchangeComesInOrder`, `ExchangeLosesNoText`, `ExchangeCallsComeOnce`,
  `ExchangeLosesNoSignature`). `SentInv` says that the request
  is sound (`IsSound`): `ConvertIsSound` shows it of every conversation, every
  model and every cache, by following a part from its message to the contents
  that are merged (`ContentsAre`, `CleanedAre`, `SanitizedIs`, `MergeLemma`) and
  the thinking from the settings over the tier to its budget (`ThinksAtFirst`,
  `CalibrateThinks`, `LevelThinks`, `NormalGenerates`). Hence
  `SignedAsDemanded` (`CallsAreAuthentic`) and `ThinksAsDemanded`
  (`ThinkingIsAsAsked`). `HistInv` and `KeptInv` give `HistoryComesBack`
  (`HistoryIsKept`). `KeptInv` says that what was sent carries the history
  (`Carries`): its parts in their order, told without what a conversion may
  change, are the blocks of the messages, the roles alternate, and each call and
  result has the resolved name of a call of the history (`Named`). Telling
  respects concatenation, so that `ConvertCarries` shows this block by block
  (`CallIsKept`, `ResultIsKept`), message by message (`OpenAIKept`,
  `ClaudeKept`), over the merge (`MergeKept`) and the cleaning (`CleanedKept`),
  for every history a client may hold. `HistInv` says that it holds one:
  well-formed blocks of its protocol (`Sayable`), and one name for all calls of
  an id (`SameNames`), or a result could be named like another call. The second
  fact comes from the first turn: an answer that is done names its calls apart
  (`AnswerTells`, from `CallsAreOnce`), in the Claude protocol also because each
  block of a call has its delta (`FilledInv`) and in a collected answer because
  both of its shapes have the same calls (`DoneTyped`); a client that shortens
  names shortens equal ones alike (`KeptDistinct`). A chained request is the
  whole history again (`ChainedIsWhole`). The assumptions are that a client's numbers are whole
  (`SettingsAssumption`), that the bounds of the caches are numbers
  (`LimitsAssumption`), that frames are sequences of the parts the decoder knows,
  whose ids of the upstream are numbers from 0, below which the gateway makes up
  its own (`FramesAssumption`), and that None and the sentinel are nothing else
  (`SentinelAssumption`, `ErrorsAssumption`, `ReasonsAssumption`,
  `BlocksAssumption`).

The streams and caches are built with folds, `FlattenSeq` and recursive
functions. The library's theorems about induction take an operator as their
parameter, which the provers cannot instantiate. So the proofs use one lemma
about sets of numbers instead (`SetInduction`: a set that has 0 and with n also
n + 1 is `Nat`), with sets that are written out for each use; each fold is
unrolled once (`AmongUnrolled`, `SizeUnrolled`, `FlattenLemma`, `FoldSteps`) and
what it keeps follows from its steps. In the modules these proofs are about, the
arms of a CASE exclude each other wherever the code is an if-else chain: where
they overlap, TLA+ leaves open which one is taken, though TLC takes the first.

Only model-checked: every liveness property (fairness and ENABLED are out of
the prover's reach), and what the runs that expect a violation refute. Every
safety property of the passing runs is proved.

## Not modelled

- Contents of quotas and error texts; `last_error` is a write without contents.
- The bound of `refreshFailures` (4096 entries), and the SQL connection that
  writers share: a write succeeds or fails as a whole.
- `ClearLimited` and `Next` of the scheduler, and `PickAccount` of the store,
  which the program does not call.
- How an upstream error is classified and how delays are read out of it: input
  of `ProxyLoop`, without state, and covered by the tests of the repository.
- Usage numbers, media parts and sampling parameters in the streams and the
  conversion, JSON schemas, native Gemini requests and legacy completions:
  field-by-field translation.
- Admin and media handlers, settings, batches and log queries, OAuth and
  transport, the web UI: they decode, call what is modelled, and encode, or are
  I/O. Where another part uses them they appear as outcomes.

## What could come next

1. The rounds of the health loop (`healthLoop`, `RefreshAllContext`) and tokens
   that the server rotates while they are imported, in `Server`.
2. Usage numbers of the streams: what is logged is what the last frame said.
