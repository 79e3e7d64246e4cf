# Verification of 1router

1router is a local gateway for language-model APIs. A client calls one OpenAI- or
Anthropic-shaped endpoint and names a *pool*; the gateway picks a member of the pool, translates
the request for the member's provider, and moves to the next member when one fails. This
directory holds TLA+ models of its components, the TLC configurations
that check them on small instances, and theorems that TLAPS proves for every value of the
constants. `PROJECT.json` lists the components, the runs, the source lines each definition
stands for, the findings, the hazards and the theorems. Paths below are those of the repository,
under `src/`.

## The system

The process is one tokio runtime over one SQLite database. Handlers run on several threads, and
meet in `AppState` (`src/core/state.rs`): maps behind per-shard locks, atomically replaced
values, and channels. Nothing orders two handlers but those locks, and nothing holds one across
an `await` except the refresh mutex. So a handler is a sequence of stretches between awaits and
between two lockings of a map, and any other task can run in a gap. A client that disconnects
drops its handler's future at the await it stands at; what runs in a spawned task goes on.

| component | state | operations | hard behaviour | what makes it correct |
|---|---|---|---|---|
| Failover loop (`proxy/flow.rs`) | per request: position in the pool, what was tried, the last error | select, skip, send, classify, refresh and retry, fall back, relay, give up | other requests, admins and the cleanup change the health map between every two steps; clients leave anywhere | ends; at most one retry per member; one log row per member called; an honest 503 |
| Health (`core/runtime.rs`, `proxy/backoff.rs`) | `runtime`: a status, a level and a window per (provider, model) | success, retryable failure, misconfigured, reset, drop, prune | level read and failure recorded under two locks; u8 level; pruning between failures | only the upstream's faults take a member out; it comes back; escalation is not lost; the map empties |
| Command Code transport (`commandcode/adapter.rs`) | the remembered transport per provider | fall back, reset with a new key | two requests meet `upgrade_required` at once | each gets its fallback |
| Token refresh (`providers/refresh_lock.rs`, `refresh_task.rs`) | `provider_oauth_state`, one mutex per provider | read again, spend, persist with retries | single-use tokens; clients that leave, crashes, failed writes; logins and disconnects take no lock | the stored token is usable; no token is spent twice; the lock is released; disconnecting sticks |
| OAuth logins (`providers/oauth_routes.rs`) | PKCE rows, the board of logins, polling and listening tasks | start, complete, poll, call back, store, read the board | a newer start overtakes an older completion; a reader removes what it has judged | what the page shows is what has become of the login it shows |
| Credential limiter (`admin/auth/rate_limit.rs`) | failures, lockout and attempts in flight per address | begin, fail, succeed, prune | the password check is slow and abandoned logins must give their slot back | a burst has no more guesses than a sequence; lockouts hold, and end |
| Admin sessions (`admin/auth/session.rs`, `routes.rs`) | rows with an expiry, the password | login, validate, renew, log out, change, reset | requests that were let in go on while their session is ended; a reset from another process | an ended session stays ended; none outlives its cap |
| Configuration (`providers/`, `pools/`, `core/state.rs`) | rows; the published snapshot | CRUD, import, seed, reload | check, write, reload and publish with awaits between; clients that leave; a wizard that writes beside the server | what an answered edit wrote is served; rows fit each other |
| Setup wizard (`onboarding.rs`) | its own prompts; the same rows, from another process | add a provider, log in, probe, assign to a pool, secret, mode, reset | no transaction; it ends anywhere | a provider it has announced can be used |
| Rotation (`pools/select.rs`) | a cursor per pool | select | concurrent selections; members come and go | each member is head for `sticky_limit` selections in turn |
| Images (`media/`) | permits, host index, attempt log | generate | guards dropped in mid-generation; the same health map and refresh | permits are returned, each attempt is logged once |
| Users (`users/`, `auth/middleware.rs`) | key hashes | create, rotate, revoke, export, import, authenticate | rotate races revoke and import | a retired key never works again |
| Settings (`admin/settings.rs`, `core/config.rs`, `main.rs`) | a value in the environment, on disk and in memory | resolve at boot, first-boot wizard, patch, `setup` beside the server | a process may stop between two writes of its start, another may write in between | the mode that was chosen, or first decided on, is the one resolved |
| Metering and dataset (`telemetry/usage.rs`, `proxy/dataset_tee.rs`) | per body: usage seen, the copy so far, a drop guard | feed, overflow, finish, drop | bodies that break off, overflow or are dropped | metered once, never with more than was billed, and with all of it where the bill comes in a form the translators keep; a copy that says so is complete |
| Cloudflare Access (`auth/cf_access.rs`) | cached keys, time of the last fetch | verify, refetch | an unknown key id during the fetch cooldown | a known key keeps working when a fetch fails |
| Wire adapters and streams (`providers/adapter/`, `proxy/responses.rs`) | per-stream translator state | translate a request; translate each event; close | interleaved tool calls, arguments known late, cut streams | the same conversation, effort and cache key go out; the same text, calls, reason and bill come back |

Components interact through `AppState::runtime` (the proxy, images, admin handlers, background
refresh and cleanup all write it), through the database (the refresh, the logins, the CRUD
handlers, and the wizard of another process), and through the snapshot (written by every admin
edit and read once per request).

## Modules

| module | models | checked by |
|---|---|---|
| `ProviderRuntime` | one health entry and the backoff policy, as operators | extended by `Failover` |
| `Failover` | the failover loop, the transport fallback, and every other task that writes the health map | `MCFailover` with four configurations |
| `TokenRefresh` | one account's tokens and all tasks that rotate, replace or remove them | `MCTokenRefresh` with two configurations |
| `LoginLimiter` | one bucket of the limiter, the login handler and the Bearer check | `MCLoginLimiter` |
| `Requests` | the translation of a request, from three dialects to six shapes, as operators | extended by `Exchange` |
| `Translators` | the stream translators, each a state and a function of an event, and usage accounting | extended by `Exchange` |
| `Reply` | abstract: what a client may see of a streamed reply | implemented by `Exchange` |
| `Exchange` | one exchange: both translations composed, the meter, the dataset copy, cuts and departures | `MCExchange` with three configurations |
| `Catalog` | provider, pool and member rows, every edit of them, and the snapshot | extended by `Setup` |
| `Setup` | the wizard beside the server, over `Catalog`'s rows | `MCDesk` |
| `Rotation` | selection in one pool under edits | `MCDesk` |
| `Settings` | secret, access mode, images switch: boot, first-boot wizard, settings page, command line | `MCDesk` with two configurations |
| `AdminSessions` | the admin's password and sessions | `MCDesk` |
| `UserKeys` | users, their keys, export and import | `MCDesk` |
| `OAuthLogins` | the four ways a provider gets its credentials, and the board that reports on them | `MCDesk` |
| `Images` | image generation: permits, members, hosts, attempts and their records | `MCDesk` |

Theorems about `Failover`, `TokenRefresh` and `LoginLimiter` are in the module of that name with
`Proofs` appended; those about the seven parts of `MCDesk` are in `DeskProofs`, a chapter for each
part and one for their sum. Those about `Exchange`, with `Requests`, `Translators` and `Reply`, are in
three modules that extend each other: `RepliesProofs` (what frames make of a reply, and what the
translators to a client's dialect make of chat chunks), `UpstreamProofs` (from the upstream's events
to chat chunks, and what copy and meter make of them) and `ExchangeProofs` (the exchange itself).
`FoldProofs` is about `FoldLeft` with any operator; they take an instance of it for each fold.

A definition named `X_Y` next to a definition `X`, or commented *Fault model*, is a definition
with a plausible bug. The mutation table of `PROJECT.json` puts it in the place of the right one:
the property named there then fails, which shows that the property depends on that code.

### ProviderRuntime and Failover

`runtime[k]` is `ProviderRuntimeState` for the key `k` (`runtime_key`), and `"absent"` a missing
map entry. An `Instant` is replaced by the time left until it, aged by `Tick`. It stops at
`-IdleRetention`, from where `prune_idle` may drop the entry; the code distinguishes nothing
beyond that point. `last_error` keeps only whether a fault of the upstream or a request produced
the text.

`req[r]` is the frame of `handle_proxy_inner` for one request: `pc` names the gap it stands in,
`sel` and `pos` the loop over `selection.providers`, `via` which call is outstanding. The actions
follow the code in order: `Arrive`, `Attribute`, `Check`, `Dispatch`; then one action per
`ErrorClass` and call (`Succeeds` and `Transform`, `Rejects`, `Unauthorized`,
`StillUnauthorized`, `Busy`, `UpgradeRequired`, `Unreachable`), `Refreshed` for the result of the
refresh, `ReadLevel` and `Penalise` for the two lockings of a retryable failure, and `GiveUp`.
`Disconnect` drops the frame. `AdminReset`, `DeleteProvider`, `StoreKey`/`KeyStored`,
`ProbeUpgrade`, `BackgroundInvalidGrant` and `Sweep` are the other writers.

`calls`, `logs`, `contacted` and `past` are history variables: nothing in an action's guard reads
them. Log rows are counted with the step they belong to, since nothing reads them back.

### TokenRefresh

A token is the number of the grant that issued it, so a rotation is visible and a stale token is
recognisable. `row` is the row of `provider_oauth_state`, `queue` the fair tokio mutex with its
holder at the head, `task[t]` a request's or the background task's refresh. A client that leaves
can drop the task only before it queues, because `refresh_and_persist_detached` spawns the rest.
Nobody drops the background task; it runs through the same steps inline, and its result after
the lock, `mark_provider_misconfigured`, is in `Failover`. The authorization server (`live`,
`granted`) is external: it honours a refresh token once, may or may not rotate it, and may leave
the access token out, which `refresh_tokens` stores as an empty string. `Crash` forgets all but
the row and the server.

### LoginLimiter

`bucket` is the `AttemptState` of one address, with its two instants as times left. `Begin` is
`try_begin_attempt`; `Refuse` and `Accept` are the two outcomes of the slow password check;
`Finish` is the drop of the `AttemptGuard`, from wherever the handler stands. The Bearer check
reads the lockout in one step and records the failure in another, without reserving.

### Requests, Translators, Exchange and Reply

A message is a role and a sequence of atoms; an atom is a text, image, call or result with a
number, so that what is lost, doubled, moved or attached to the wrong call shows. A piece of
streamed text or of a call's arguments is a number too. `ask` is chosen once: the client's
dialect, the upstream's shape (`http_openai`, `http_anthropic`, `codex`, and Command Code's
`cc_chat`, `cc_messages`, `cc_generate`), streamed or not, the configured effort and the model's
knowledge of it, the effort the client asked for, and the conversation. `Send` is `build_request`;
then each action of the upstream says one event (`Begins`, `SaysText`, `OpensBlock`, `SaysCall`,
`SaysArguments`, `ArgumentsDone`, `ClosesBlock`, `Finishes`, `SaysUsage`, `SaysError`), `Stops` ends its
side well or badly, `Takes` is the client's read of one frame, `BodyEnds` the end of the body and
`Leaves` its drop. `Pipe` is the composition the code builds: the adapter's translator to chat
chunks, then the client's bridge, then meter and tee; where dialects match, the bytes pass. A
reply that is not streamed goes through `Buffered` or `NoReply`; where dialects match (`Relayed`), a
body that breaks off has been relayed, metered and copied as far as it came.

`up.bill` says how the upstream bills its reply (`Bills`): *whole*, with the event that ends it;
*split*, a Messages stream whose first event has the input and whose last has only the output, as
in the tests of `telemetry/usage.rs`; *none* and then perhaps *apart*, a chat stream with a last
chunk that has the bill and no choice (`SaysUsage`); or *apart* for a Codex reply that was too long, in
an event nobody translates. `up.usage` is what has been billed so far, and the meter (`tap`) is
compared with it. The client's way of reading a
dialect (`HearChat`, `HearEvent`) and the upstream's replies are external.

`Reply` says what any client may see: items begin, grow and close, and one reason ends them.
`Exchange` implements it (`IsReply`), with the reply as heard as the refinement mapping; a reply
in one piece maps to a stutter.

### Catalog, Setup and Rotation

`rows` is the database, `served` the snapshot, `op[a]` the frame of an admin's handler between
two awaits: reading, checking, writing, loading (query by query: the providers, the pools, then the
members of one pool after the other; `left` are the pools still to come, and a writer can come between
any two queries) and publishing. Any number of handlers are under way at once. `GiveUp` drops one.
`Restart` builds the snapshot anew and opens the direct pool of each provider. A handler's `clean`
says that nobody has written a row since it began to check, or to load; no guard reads it. From it
come two history variables that name what the code lets happen: `lost` (the last publication was
older than somebody's write, or a write was followed by none) and `unchecked` (rows were written
that nobody has checked as they now are: an import or a seed, a write that another overtook after
its check, a provider that joins an image pool at boot because the pool has its name).
`Setup` adds the wizard's frame `wiz`
and runs over the same rows. `Rotation` takes one published pool and its cursor; a handler
publishes, and some forget the cursor in a later step, with selections in between. It is a module
of its own because the cursor is outside the snapshot and the rows say nothing of it.

### Settings, AdminSessions, UserKeys, OAuthLogins and Images

`Settings` has one variable per place a value can be in: `env`, `disk`, `server` (with the step of
its start it stands at), `setting` (a change between its write to disk and its store in memory)
and `cli` (where `1router setup` stands). A start makes up the secret, reads the mode's row and
writes the default in three steps, `setup` reads and writes in two, and the other process can come
between them. `AdminSessions` has a frame per browser (`visit`) that goes on from the session row it
read when it was let in; tokens are numbers in the order they are made, and time is a clock up to
`Until`. `UserKeys` has a frame per rotation (`clerk`), `dump` for an export kept by somebody, and
keys in the order they are made; the keys of another instance arrive with an import.
`OAuthLogins` has the board per account and a task per login: `poll`, `grant`, `store` for a
device code; `listen`, `keep` for a browser login; `judge`, `live` and `post` are the steps in
which a task or a reader looks at the board before it writes. `Images` has a frame per request
(`drawing`), the permits, one health entry per member reduced to what `generate` reads of it, and
`spent`, the history of attempts and log rows.

### MCDesk

Seven parts around the proxy are instantiated in one MC module. They share no variable: `Setup`
with `Catalog`, `Rotation`, `Settings`, `AdminSessions`, `UserKeys`, `OAuthLogins` and `Images`
each have their own tables. The model is their sum, not their product: `part` is chosen at the
start and says which of them acts, while the others stay in a fixed state. A behaviour of the run
is therefore a behaviour of one part on its own, and the run checks each part's properties over
all of its behaviours. Where parts do meet in the code, the meeting is in a module of its own:
wizard and server in `Setup` and `Settings`, images with the health map in `Images`' own entries,
logins with the refresh in `TokenRefresh`.

## Runs

| run | instance | shows |
|---|---|---|
| `failover` | two requests, one Codex member, all other tasks | `OnlyFaultsCool`, `EscalationKept`, `AlwaysReprobed`, `QuietMapEmpties` |
| `failover_pool` | one request, an API-key and a Command Code member, all other tasks | `AttemptsAccounted`, `HonestAnswer`, `EveryRequestEnds` |
| `token_refresh` | two requests and the background task, three grants | `StoredIsLive`, `NeverSpendsSpent`, `LockKept`, `EveryRefreshEnds` |
| `login_limiter` | three logins, two Bearer checks | `BurstBounded`, `InFlightExact`, `LockoutKept`, `LockoutEnds`, `QuietBucketForgotten` |
| `exchange` | every client with every upstream, conversations of up to five turns, replies of up to three pieces | `TurnsKept`, `WellShaped`, `CacheKeyStable`, `EffortFits`; `HeardIsSaid`, `ReasonIsTrue`, `ReportedOnce`, `ReportIsTrue`, `ExchangeEnds`, `IsReply` |
| `desk` | the seven parts, see below | `AnsweredIsServed`, `RowsFit`, `AnnouncedIsReady`, `RoundRobinFair`, `SessionsEnd`, `RetiredStaysOut`, `ShownIsTrue`, `DrawnOnce`, `ModeIsKept` |
| `failover_quota` | two requests, one member | violates `QuotaHonoured` |
| `failover_upgrade` | two requests, one Command Code member | violates `FallbackFirst` |
| `token_disconnect` | as `token_refresh` | violates `DisconnectSticks` |
| `exchange_effort` | as `exchange` | violates `ClientEffortWins` |
| `exchange_split` | conversations of one turn, replies of one piece | violates `SplitIsMetered` |
| `desk_mode` | the settings of `desk` | violates `ConfirmedModeServes` |

The passing runs but `failover_pool` also check the type invariant of their modules; there it is
the theorem `Typed`.

**Bounds.** Windows are a few ticks instead of seconds, in the order the code has them: the
ladder's first step, its cap and the misconfigured window, a header's window of zero, and a quota
window at the top. `LevelMax` is 1 to 3 instead of 255, so that the level saturates and the sum after it wraps. `IdleRetention` is 0 in `failover_pool`: an entry may be pruned as soon as
its window has passed, which only adds behaviours. Two requests are enough for every race on one entry, since a step reads
and writes a single entry; the walk over several members is the concern of one request, whose
environment may change the entries at any step. Three grants are a first login, a rotation and a
second one, or a rotation that overtakes another; `PersistRetries` of 1 gives a retry and a last
failure. `MaxGrants` bounds the run, not the system: at the bound the server only refuses. In the
limiter a threshold of 2 with three logins has bursts below, at and above it; `MaxFailures` is a
bound on `failures`, a u32, beyond the level at which the lockout is capped.

In `exchange`, five turns hold a first question, a turn with calls, their results, a second turn and
what follows it, so every adjacency of turns that the translations merge or split occurs; two
calls in a turn are what parallel calls need. `MaxPieces` of 3 and `MaxBlocks` of 3 give text,
two calls and text between or after them, with interleaved arguments; `MaxCapture` of 5 chunks is
below a long reply and above a short one, so a copy overflows, and does not. The bill is one of each
kind of tokens that the forms of billing and the two ways of counting cached tokens tell apart. `ParallelLines` is
FALSE for a reason given under *Known limits*.

In `desk`: two admins, and `MaxEdits` of 2 bounds requests, wizard tasks and restarts, so an edit
meets another one, a restart or a task of the wizard at each of its steps, and an older load is
published last; two providers, a pool, and starts with an empty database and with one member
that inherits its model, which is what checks and cascades can get wrong. Three members and
sticky limits of 0, 2 and 3 (0 is treated as 1). Two secrets, and every environment of a set or absent secret with
any mode. Two browsers, two tokens after which no login is tried, and a clock to 3 with a lifetime
longer than the renewal period. Two users, one of whom exists elsewhere, and four keys. One
account of each kind with three logins, enough for two to overtake a third. Two image requests
for two members, with one permit (a setting of 0 counts as 1) or two, and two host models.

**Fairness.** A request's handler is weakly fair: the runtime polls a ready task, and each
upstream call ends, because the HTTP client has a connect timeout and a read timeout
(`core/http_client.rs`). The clock is weakly fair. The cleanup task is a ten-minute interval:
pruning is strongly fair in `Failover`, because the quiet stretch in which an entry of a dead
account can be pruned comes once per period of the background refresh (six hours) and lasts
much longer than the interval, so an entry that is prunable again and again is pruned; it is
weakly fair in `LoginLimiter`, where nothing disables it in quiet. In `TokenRefresh` each task is
weakly fair in every step once it has read its credentials. In `Exchange` the request is sent, the
server polls a body whose client takes it, and the upstream's side ends, for a silent upstream
runs into the client's read timeout (`Stops` is enabled whenever it is open). `Takes` is fair: the server polls a body whose client takes
it, so `ExchangeEnds` is about clients that read on or leave; one that keeps its connection and
never reads holds up itself only. Nothing makes the upstream say anything. `MCDesk` checks no liveness property and assumes nothing. Callers, admins, answers,
disconnects and crashes are never assumed to happen.

**Deadlock.** `TokenRefresh`, `LoginLimiter` and `Exchange` are checked for it. The configurations of
`MCDesk` say `CHECK_DEADLOCK FALSE` because the bounds on edits, logins, tokens and keys stop
some parts. The configurations of
`Failover` say `CHECK_DEADLOCK FALSE`: an idle gateway may stay idle for ever, and since `Tick` is
always enabled the check would find nothing; that a request cannot get stuck is
`EveryRequestEnds`.

## What does not hold

Six statements of the source's comments, prompts or documents are violated by what the code does; the
runs give the traces.

* `QuotaHonoured`: an announced usage-limit window is overwritten by a shorter cooldown of a
  request that was already in flight (`proxy/flow.rs:812`).
* `FallbackFirst`: of two concurrent requests refused with `upgrade_required`, the second finds
  the transport already changed and cools the member down instead of retrying
  (`proxy/flow.rs:634`).
* `DisconnectSticks`: a refresh in flight writes the tokens back after the admin has
  disconnected the account (`providers/refresh_lock.rs:72`).
* `ClientEffortWins`: a Messages client's `output_config.effort` is not among the fields that
  count as the client's own choice, and the configured default takes its place
  (`core/reasoning.rs:134`).
* `SplitIsMetered`: the meter takes the most it sees of each kind of tokens because a bill may be
  split over events, but it reads the stream that has been converted, and the conversion of a Messages
  stream drops the usage of its first event (`claude_bridge.rs:678`). The ordinary stream, with
  output tokens only in its last event, is metered with input 0.
* `ConfirmedModeServes`: the access mode is resolved before the first-boot wizard asks for it, so a
  server that was told another mode serves with the first until its next start (`main.rs:244`).

### Known limits

These are behaviours of the code that the models have or exclude on purpose, and that contradict
no statement quoted in a run, or could not be given one of their own.

Races of two admins. The code takes no lock around an edit. The model has these races, and the
properties of `Catalog` say exactly what they can do:

* Two handlers load and publish, and the older load may be published last and stays until the next
  edit (`core/state.rs:134`; the design document of 2026-07-25 expects a published snapshot to be
  current). `lost` is true then, and `AnsweredIsServed` says that nothing else leaves the snapshot
  behind the rows but a handler that was dropped before it published and the wizard.
* A check and its write are separate statements (`pools/routes.rs`), and `update_provider` writes
  back what it read, a concurrent patch included (`providers/queries.rs:246`). From a provider
  whose model can carry an effort, one admin can add a member with an effort while the other
  changes the model. `unchecked` is true then, and `RowsFit` covers the rest.
* At a start, a provider that is in no pool joins a pool which has its name and its wire format,
  whatever the pool's modality (`core/state.rs:144`), so an image pool can get a member that makes
  no images.
* In the code, two changes of the shared secret can leave the file and the memory different
  (`admin/settings.rs:210`), and the next start takes the file's; `Settings` admits one change at a
  time, and no property covers it.

Health:

* `backoff_level` saturates at 255, but `backoff_level + 1` (`proxy/flow.rs:805`) wraps, so after 255
  failures in a row the cooldown falls from the cap to its smallest value (a debug build panics). The
  design document of 2026-07-25 says the ladder is capped at 15 levels. The model has the wrap; no
  property says that the ladder holds.

Sessions and users:

* A login verified before a password change and inserted after its sweep survives it
  (`admin/auth/routes.rs:77`). `SessionsEnd` is about sessions that were ended.
* A rotation that loses to a revocation or to another rotation answers with a key that was not stored
  (`users/queries.rs:169`). `RetiredStaysOut` is the direction that matters for access.
* The Bearer check of the admin API does not reserve an attempt (`auth/middleware.rs:133`), so a
  burst of those gets more guesses; `BurstBounded` is about logins.

Logins:

* A device login superseded while its code is exchanged still stores its tokens; `ShownIsTrue`
  says that the board does not show it as the newer one's success.
* Completing a redirect clears the PKCE row of a newer start.
* A status request reads the board and then removes the entry: a login begun in between is
  removed unread, and its page shows that nothing was started. Judging and inserting are two
  steps likewise. Browser logins of Command Code carry no id of their attempt.
* A valid callback whose answer cannot be written is dropped, and the login waits on.

Settings and wizard:

* A crash between making up a secret and writing down the mode closes an instance that would have
  been open: it fails closed. Of a server and a `setup` that start at once, one may write the default
  it has read over the mode that a user has chosen in the other meanwhile (`main.rs:161`, `main.rs:99`).
  `past.torn` exempts both from `ModeIsKept`.
* The environment is the same at every start of `Settings`. A mode that it decided and that is no longer
  set at a later start is outside `ModeIsKept`.
* A client that leaves between the write of a row and the store leaves memory behind the database
  until the next start. The wizard is a separate process, and the server keeps its snapshot and its
  secret until it is restarted or edits again.
* The remembered transport is forgotten before the new key is written (`onboarding.rs:586`): a
  request in between can only fall back once more.

Rotation and configuration: a comment at `pools/select.rs:218` says that behind the head the rest
stays in priority order, and `rotate_left` turns it (`RoundRobinFair` is about heads only); `put_member` does not enforce one wire per pool; discovered models are
never removed; an import does not forget rotation cursors.

Translation:

* All calls of a Command Code generate stream have the index 0, so that a client which tells
  parallel calls apart by their index joins them. `ParallelLines = FALSE` leaves such replies out;
  with TRUE, `HeardIsSaid` fails.
* A last chunk with the bill and an empty `choices` is dropped on its way to a Messages client
  (`claude_bridge.rs:289`), and the end of a Codex reply that was too long, bill included, is not
  translated: such replies are metered with less than their bill, or nothing. The model has both; of
  them `ReportIsTrue` says only that no more is reported than was billed.
* Cache creation tokens are lost in a conversion; `tool_choice` "none" becomes "auto" on one path;
  arrays of content in system and tool messages are dropped on another. The model leaves these inputs
  out. A frame buffer that overflows ends a translated stream as if it were complete (`Stops`).
* A block of a Messages reply may be opened while others are open, and all are closed at the end
  (`claude_bridge.rs:282`). `Reply` allows that: it asks that each is open when it grows and closed
  when the reason comes.

Images: aliases of a model ignore the configured host model. A call whose sending failed is
taken for one that upstream has not begun (`SendFailed`), as the code does.

Telemetry: the bounded log channels drop what does not fit (`proxy/flow.rs:42`) and promise nothing.

## Proofs

`FailoverProofs` proves, from `ProviderRuntimeAssumption` and `FailoverAssumption` alone, that
every behaviour of `Spec` satisfies `TypeOK`, `AttemptsAccounted`, `OnlyFaultsCool` and
`HonestAnswer`, and that every step satisfies `EscalationKept`: for any number of requests,
members and providers, any orders of selection, and any windows.

None of these invariants is inductive. Two facts strengthen them into `IInv`:

* `Fits(q, past)` says of a handler what its place in the code implies. `Placed`: it stands at a
  member of its selection, and a failure waiting to be attributed has a member before it.
  `Counted`: how many calls and log rows the current member has at each place, so a branch that
  forgot a row would break it at the next place. `Honest`: what it has called so far. `Blamed`:
  a handler that holds an answer has called that member, and one about to record a cooldown has
  seen it fail.
* `Explained(entry, past)`: an entry out of service is the doing of a fault in the history of its
  key.

The history only advances (`Later`), so a step of one handler cannot invalidate what another has
established, however they interleave; that is the one argument about concurrency the proof
needs, and it is a lemma of its own. The rest is one lemma per action, each over the operators
of `ProviderRuntime`, whose effects on an entry are lemmas too. `Invariance` combines them;
`Typed`, `Accounted`, `Faults`, `HonestAnswers` and `Escalation` follow from it.

`TokenRefreshProofs` proves, from `TokenRefreshAssumption` alone, that `Spec` satisfies `TypeOK`,
`LockKept`, `StoredIsLive` and `NeverSpendsSpent`, for any number of requests, grants and persist
retries. The second read under the lock compares access tokens and then spends a refresh token,
so the proof needs a reason why the one tells about the other:

* `Issued` and `Paired`: no token is newer than the last grant, so a grant's access token is new,
  and wherever two holders have the same access token they have the same refresh token. An
  unchanged access token therefore means an unchanged refresh token. An answer without an
  access token is stored as the same empty string every time, which is why it is exempt from
  `NeverSpendsSpent`.
* `LockKept`: only the head of the queue is beyond its second read. So if the row is unchanged
  nobody is spending its token, and `StoredIsLive` says that it is still good (`SameIsUnspent`).
* `InHand`: the holder has a token to spend, and its successor is good until it is stored or lost.
  `LoginFresh`: nobody else has the refresh token of a login, so a login, which takes no lock,
  may replace the row at any time.

`LocalStep` covers all steps that neither issue nor store a token; the others have a lemma each.

`LoginLimiterProofs` proves, from `LoginLimiterAssumption` alone, that `Spec` satisfies `TypeOK`,
`BurstBounded`, `InFlightExact` and `LockoutKept`, for any number of logins and Bearer checks and
any thresholds. The invariant adds `Counted` (the logins' own failures are among those of the
bucket, so the bucket never lets in more than they allow, whatever the Bearer check adds) and
`LockEarned` (a lockout in force is at most what its failures call for). With `Lockouts`, that
the ladder of `cooldown_for` does not fall as failures rise, the lockout that a late failure sets
is never shorter than what is left of the one it replaces. `RoomKept` concerns only the bound
`MaxFailures`.

The proofs about the parts of `MCDesk` are of the modules, and rest on their named assumptions alone.

* `UserKeys` (`RetiredStaysOut`). A key made next is larger than any seen, so it is nobody's;
  rows have distinct ids and keys; and what an export holds is a user who is here, whose key an
  import leaves alone, or somebody with a key that nobody here has had. Without the last, an
  import could bring a retired key back.
* `AdminSessions` (`SessionsEnd`). A token is made once. So the row a request goes on from
  is, up to its expiry, the row that is there under its token, or its token has been deleted for
  good: a renewal, which is an UPDATE, then touches nothing.
* `OAuthLogins` (`ShownIsTrue`). A login is on its own account's board only, and a task
  leaves its work by reporting on it or after a newer login has taken its place.
* `Images` (`DrawnOnce`). An outcome after which upstream may be drawing ends its request
  (`Spares`: a request that goes on has begun nothing); a request between two attempts has as many
  rows as attempts (`Records`); the permits are counted by the set of holders.
* `Rotation` (`RoundRobinFair`). The heads counted since the last edit are those of some whole laps
  over the candidates and the part of one that the cursor has walked (`RotationIInv`), and so differ
  by at most a sticky run. Its members' list is filtered, turned and read modulo its length, so the
  proof first shows what these do to any list: `Kept` keeps the elements of a set in their order, and
  `EveryUsable` says that a selection's order has every usable candidate once. An edit forgets the
  counts, not the cursor, and the cursor that earlier members left behind is only bounded by them.
* `Settings` (`ModeIsKept`). Until a mode is on disk a secret is there if and only if there
  was one before (`Undecided`), except between the two steps of a start, which remembers which;
  from then on the mode that is due is on disk (`Decided`). Between its read and its write a process
  holds a default; while the mode is undecided, all who hold one hold the same, so that
  whoever writes it last changes nothing.
* `Setup` and `Catalog` (`AnsweredIsServed`, `RowsFit`, `AnnouncedIsReady`), for any number of
  admins, providers, pools and dumps, beside the wizard. What a handler holds in its hands is worth
  something only while nobody has written since it began: clean, what it has loaded is, query by
  query and pool by pool, what is stored (`Loads`), and what it has checked would pass again (`Vetted`). So a clean
  publication serves the rows, and a clean write keeps them fit; the two history variables stand for
  the others. Every way of writing rows (each edit, an import, the cascades, the direct pools of a
  start, the wizard) has lemmas that it keeps keys unique and references sound (`SoundRows`) and
  that it keeps fit rows fit. `AnnouncedIsReady` needs in addition what the wizard's place says of
  the row it works on (`OnItsOwn`), as long as it is alone.

`TypeOK` of `MCDesk` (`DeskTyped`) holds because the part that acts keeps its own inductive invariant
and no other part moves. It needs `DeskAssumption`, that `Parts` names parts there are.

The proofs about `Exchange` hold for any conversation, any reply of any number of items and pieces, every
dialect and every shape, and for a client that leaves or an upstream that breaks off anywhere.

* `EffortFits`: the effort field of a request goes through no fold, so what each translation does
  to it is a lemma (`ClaudeToOpenaiParts` and its neighbours), what each adapter makes of it another
  (`CodexCarries`, `HttpCarries`, `CommandCodeCarries`), and the invariant says that what was sent is
  what `build_request` made of what was asked (`Sending`).
* `ReportedOnce`: while the upstream speaks nothing has been reported (`SpeakingKeeps`), and the copy
  may be reported before the body ends, but only by an upstream that has stopped (`Reporting`). The
  four ends differ in what they report; `EndingKeeps` is what they have in common.
* Folds. The translators, the copy and the meter fold over frames. The induction theorems of the
  library cannot be instantiated, but what they rest on can: the natural numbers are well founded, so
  a *set* that has 0 and the successor of each of its elements is all of them (`Induction`). With
  it `FoldProofs` shows that the function behind `FoldLeft` exists, and that a fold goes through one
  value per element (`Unrolled`). Every lemma about a fold takes the set of positions up to which it holds.
* Replies. A list of frames is a *road* from one reply to another: each frame turns the reply its
  client has into the next, and must fit it. Roads are joined end to end, and along a road text and
  calls only grow (`RoadKeeps`). Two replies that differ in how their items are laid out are
  compared by content: their text, and the arguments of their calls by number.
* Translators. The state of a translator is read against the reply at its end of the road, the
  indexes of open items above all; so what it emits next fits that reply. `MessagesPasses` and
  `FeedPasses` say it for the two bridges and any list of chunks; `UpstreamProofs` has a lemma for
  each event of each shape of upstream. A generate line with a second call is the one event after
  which the content differs.
* `Talking`, the inductive invariant of a reply, puts the ends together: from what the client has
  heard, the frames that wait are the road to a reply that has the content of what was said; both
  translators' states fit it; the copy is what was made of the same frames until it overflowed; and
  the meter has what they bill. Each action of the upstream moves all of these at once.
* From it follow `TypeOK`, `ReasonIsTrue`, `ReportIsTrue` and `HeardIsSaid`, the last for generate
  replies only if `ParallelLines` is FALSE (`Heeded`), and for the other five shapes without that
  (`HeededElsewhere`).
* `IsReply` (`Replies`): every step of `Exchange` is a step of `Reply` or a stutter, because a frame
  that fits the client's reply is one of `Reply`'s actions, and a dialect that closes its items has
  closed them when the reason comes.
* `ReportIsTrue`: the invariant relates the meter to the bill so far, event by event (`MeterNow`): it has
  all of it where nothing is translated, all of a whole bill where something is, and never more than
  was billed. Each action that says something keeps this for each form of billing; that a bill
  survives the change between the two ways of counting cached tokens, there and back, is `BillsConvert` for all counts.
  Nothing is proved of the bills that the translators lose, except that they are not overstated.

Each proof has the shape of the others: a lemma per action, one that the initial states satisfy the
invariant, one that a step keeps it, and the theorems `Invariance`, `Typed` (prefixed with the part
where a module has several) and the properties.

Model-checked only: all liveness properties (`AlwaysReprobed`, `QuietMapEmpties`,
`EveryRequestEnds`, `EveryRefreshEnds`, `LockoutEnds`, `QuietBucketForgotten`, `ExchangeEnds`), which
are beyond the prover because they rest on fairness; and three properties of `Exchange` about the
request that goes out, `TurnsKept`, `WellShaped` and `CacheKeyStable`: they say what compositions of
selections, flattenings and folds over a whole conversation compute, and `SelectSeq` takes an
operator as an argument, so that its recursion must be unrolled for each test anew.

## Not modelled

* Text and formats: prompts, image payloads, JSON and SSE syntax, HTML, log lines, cookies,
  hashes and signatures. What an upstream answers, whether a body can be transformed and whether a credential is accepted are open choices.
* Cloudflare Access (`auth/cf_access.rs`): the verification of a signature over a cached key set.
  `UserKeys` and `AdminSessions` ask only whether an identity is accepted.
* Statistics, limits and health pages: they read and aggregate.
* The request log's channel and batches: they drop rows by design, so there is nothing to state.
* Model discovery: a cache filled once per provider; nothing depends on its being complete.
* The HTTP client (its timeouts are the ground of the fairness above), the admin UI, and the drain
  at shutdown, which is axum's.
