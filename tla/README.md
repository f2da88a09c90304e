# A TLA+ model of Engram

Engram (the repository's own name for the program; the repository is called
continuwitty) keeps long-lived "memory engrams" of conversations with language
models. A Go API (`cmd/api`, `internal/`) serves a React client and MCP clients
over PostgreSQL. The API runs as several identical processes; inside a process every
request is a goroutine. Almost nothing spans two SQL statements: there are few
transactions, so the interesting behaviour is what happens between statements of
one request while others run.

This directory holds TLA+ modules for the parts of the program whose correctness
depends on such interleavings, TLC configurations that check them on small
instances, and TLAPS proofs for every value of the constants. `PROJECT.json` maps
every definition to the lines it models and lists hazards, findings, mutants and
theorems.

## Inventory

| Part | State | Operations | How it interacts | What is hard | What makes it correct |
|---|---|---|---|---|---|
| Circuit breaker (`chat/provider_circuit.go`) | per provider: failure count, open-until | `Allow`, `RecordResult` | shared by all requests of a process | results arrive in another order than calls were admitted | both fields agree; the count is bounded; it reopens by itself |
| Fallback loop (`chat/provider_fallback.go`, `chat/service_fallback_helpers.go`) | position in the candidate list | refuse, call, fail, succeed | calls adapters, consults the breaker | last candidate, duplicates, cancelled contexts | ends inside the loop; no leak to a provider that opted out; never goes past a candidate without cause |
| Message path (`chat/service.go`, `chat/message_runtime*.go`) | `chat_messages` | post prompt, load history, persist reply | ends with lifecycle maintenance | two turns at once; deletion meanwhile; limits on lists | the prompt reaches the provider; a deleted session does not grow |
| Autosave lifecycle (`chat/session_lifecycle.go`, `chat/lifecycle_policy.go`) | autosave engrams of a session | load, plan, create, reload, prune | reads messages, writes engrams | each list is stale when used, and cut at 500 rows | retention bound; nothing pruned too early; duplicates bounded |
| Session policy (`chat/session_operations*.go`) | autosave and retention columns | create, partial updates, save as engram | read at the start of a turn | legacy flag and strategy in one payload | flag and strategy agree |
| Admin deletions (`admin/service.go`) | `deleted_at` columns | delete (two statements), restore; delete and restore an engram | races with turns | half done deletions | restore brings back what was deleted; purge leaves only inserts under way |
| OAuth (`oauth/*.go`) | clients, codes, tokens | register, authorize, token | issues MCP tokens | validate, consume and issue are three statements | single use; a token is what was granted |
| Rate limiting (`auth/ratelimit*.go`, `auth/login_guard.go`, `auth/request_limiter.go`) | one row per key; a map per process | check, register failure/success, consume | row lock; falls back to the process when the store fails | clock read before the lock; outages; restarts | blocks have cause, stand, and end when promised |
| Web client (`web/src/App.tsx`, `hooks/`, `ChatPanel.tsx`) | user, session list, selection, transcript, chat and loading flags | sign in and out, select, navigate, leave and come back, create, continue, send, retry | calls the API; answers arrive in any order | nothing cancels a call or compares an answer with what is on screen; leaving the app unmounts it | one stream at a time; no text lost; no flag left set by calls that are over |
| Projects (`projects`, `repository/project*.go`) | owners, membership rows, default projects | create, resolve for a write, add, update, remove | visibility and writes of everything else | check and change are separate statements | owner and rows agree; removals stick; grants have a reason |
| Engram administration (`admin/service.go`, `projects/service_visibility.go`, `repository/admin_engram*.go`, `collection.go`, `engram_share.go`) | engrams, sources, collections and items | update, move, share, delete, restore, collect | project membership; the connection pool | read and write are separate; a move holds two connections | items stay in their project; deleted engrams do not change; requests end unless the pool is exhausted |
| Curation queues (`admin/service_curation*.go`, `service_consolidation.go`, `service_contradiction.go`) | alerts, candidates, suggestions with a status | refresh page by page, decide, apply | archive links, settle records | refresh races decisions and other refreshes | decisions are kept; an opening is applied once; a refresh is exact |
| Links (`repository/engram_links.go`, `graph`, `cmd/api/chat_link_reinforcement.go`, `admin/service_link_curation.go`) | weighted links with a status; last hygiene run | reinforce, hygiene, suggest, set status | after every turn; suggestions feed the queue | status written back after it was read; tracker asked before and marked after | an archived link stays archived but for turns under way; hygiene and duplicates bounded |
| MCP tokens and bearer auth (`mcptokens`, `mcp/auth.go`, `mcp/token_*_policy.go`) | `mcp_tokens` | create, list, revoke, look up, touch | used by every MCP call | one statement each | a revoked token authenticates nothing later |
| Ingestion (`ingestion`), export/import (`export`), agent workflow (`workflow`) | documents and chunks; engrams of a project; a state per thread in memory | upload; import with a conflict policy; run, resume | repositories, embeddings | partial failure; look-up before create; concurrent resumes | - |
| Context assembly, embeddings, adapters, evaluation harness, audit, configuration, HTTP handlers, vendored `langfuse` | - | - | - | mostly I/O and arithmetic | - |

`PROJECT.json` lists these parts with their files and with the reason for each
part that is not modelled.

## Modules

| Module | Models | Extends / instantiates |
|---|---|---|
| `ProviderCircuit` | the breaker | - |
| `ChatGeneration` | the candidate loop of concurrent requests | `ProviderCircuit` |
| `LifecyclePolicy` | pure rules of `lifecycle_policy.go` and the partial update | - |
| `ChatSession` | turns, maintenance, policy updates, deletions on one session | `LifecyclePolicy` |
| `SingleUseGrant` | abstract specification: what an authorization code promises | - |
| `OAuthCode` | registration, authorization and token endpoints | instantiates `SingleUseGrant` |
| `RateLimitWindow` | the shared counter row, the processes' maps, the clock, store outages | - |
| `LoginGuard` | `POST /login` behind the guard, for one key | `RateLimitWindow` |
| `RequestLimiter` | the MCP transport limiter, for one key | `RateLimitWindow` |
| `Workspace` | the browser's workspace, calls and answers | - |
| `ProjectAccess` | projects, membership and the resolution of a write's project | - |
| `EngramAdmin` | engrams, sources, collections, over the connection pool | - |
| `LinkHygiene` | links of an engram: reinforcement, hygiene, suggestions to review | - |
| `Curation` | alerts, candidates, suggestions and decisions on them and on links | `LinkHygiene` |
| `MC*` | constants for TLC | the module of the same name |
| `ChatGenerationProofs`, `ChatSessionProofs`, `OAuthCodeProofs`, `ProjectAccessProofs`, `EngramAdminProofs`, `CurationProofs`, `WorkspaceProofs` | theorems and proofs | the module of the same name |
| `RateLimitProofs` | theorems and proofs | `LoginGuard`, `RequestLimiter` |

In each module a definition named "Mutant of X" is a plausible bug of X; TLC finds
the property it is listed with violated when X is replaced by it.

### ProviderCircuit and ChatGeneration

`consecutiveFailures` and `openFor` are the fields of `circuitProviderState`;
`openUntil` is kept as the number of ticks left, so that the clock needs no bound.
`Allow` and `RecordResult` hold a mutex and are atomic. A worker is the goroutine of
one request: `StartRequest`, then for each candidate `SkipCandidate` (breaker open)
or `StartCall`, then `CallSucceeds`, `CallFails` or `CallUnmapped`. The call is two
steps because other requests run while it is in flight. The loop of
`generateWithFallback` and of `streamWithFallback` is the same and is modelled once.
`Disconnect` cancels the context of a request; the adapters turn the resulting error
into a `ProviderAPIError`, which `ProviderErrorKind` translates. `trail` and
`outcome` are history. The disabled strategies (`noop...`) are the special case
`FallbackOrder = <<>>`; a disabled breaker keeps no state and is not modelled.

### LifecyclePolicy and ChatSession

One session. `deleted`, `policy`, `messages` and the session's engrams (`snapshots`;
`saved`, those that `SaveSessionAsEngram` stored; `trash`, what is soft-deleted) are the
tables; the rest of the state is what a turn has read (`session`, `request`, `loaded`, `runNow`,
`draft`) and history (`late`: snapshots a turn stored after autosave was switched
off; `unsettled`: snapshots no complete run has dealt with; `crowded`: some listing left
a snapshot out). Each SQL statement is one step of a turn:

`GetSession` → `PostPrompt` → `PrepareRequest` → (provider) `PersistReply` →
`LoadSnapshots` → [`PlanByMessageCount`] → `DraftSnapshot` → `InsertSnapshot` →
`ReloadSnapshots` → `PruneSnapshots`; `Fail` at any point.

`DraftSnapshot` lists the messages, judges the abstract and stamps the engram
(`createdAt := nowUTC()` in Go, before the INSERT), so rows can be inserted in
another order than their stamps. Lists are ordered by the stamp, as in the queries.
Texts are opaque with two classes set apart (blank, too short); normalization of
case and spaces before comparison is part of what equal texts means. Limits of 200
and 500 rows become the constants `HistoryLoad`, `AutosaveLoad` and `LinkedLoad`; the
last cuts the session's engrams of all kinds before the snapshots are picked from them.
The settings of retention and autosave are part of `policy`: a turn plans and prunes by
those it read at its start, which the owner may have changed since. A pruned snapshot is
gone for good (`DELETE FROM engrams`); only soft-deleted engrams can be restored.
`CreatedPolicy` and `UpdatedPolicy` take payloads whose fields may be missing.
Context assembly, link reinforcement and access recording happen during the turn but
touch nothing modelled here. At most one `DeleteSession` with linked engrams is under
way at a time.

### SingleUseGrant and OAuthCode

`HandleToken` is three steps, `ValidateExchange`, `ConsumeCode`, `IssueAccessToken`,
with `FailExchange` between any two. `exchange` keeps the row read at validation.
Requests that an endpoint refuses change nothing and do not appear. A PKCE verifier
stands for its own S256 challenge; codes and token ids are fresh values; secrets are
the guard that the client is the one the code was issued to. A confidential client may obtain a code without a
challenge but `ValidatePKCE` never accepts one: such a code cannot be redeemed.
The refinement mapping (`Grants`) takes a code's row to a grant, `consumedAt` to
"spent" and a token's row to "paid".

### RateLimitWindow, LoginGuard, RequestLimiter

`RateLimitWindow` declares what guard and limiter keep alike: the row of a key, what
each process has in memory for it, the clock and the store's outages. A key belongs to
one of the two, so each has a specification of its own (`GuardSpec`, `LimiterSpec`)
over that state and its own requests. A row is a record of count, start and block.
`MutateState` runs its function under
`SELECT ... FOR UPDATE`, so an update is one step, but the clock is read before: each
request keeps the clock it read (`at`) and may get the row later. When the store
fails - before the commit, or with the commit done and the answer lost - the process
uses its own map; a restart empties it. `LoginGuard` is the whole of
`handleLoginSubmit`: check, verify, register, three separate steps. A lookup error
counts as a failed attempt, as in `authenticateUILoginRecord`.
`normalizeState` of the limiter's in-process map and `normalizeDistributedWindowState`
compute the same and are one definition.

### Workspace

The state of `App.tsx` and its hooks, and of the server as much as the browser can see
(`cookie`, `home`). `calls` is the bag of requests in flight; `Reply` answers any of
them, with success or failure, in any order. The updates that follow one `await` and
the effects React then runs are one step (`Rerender`). Nothing in the code cancels a
call or compares an answer with the current selection, so neither does the model.
`Leave` is the way to a marketing page, which unmounts `AppScreen`: its state is gone,
its calls are not. Those whose answers still change something become `orphans`: a login
or logout changes the cookie, a creation or continuation stores a session, and
`handleRouteContinue` navigates to the workspace, which mounts it again when it is not
there. `Enter` mounts a new one with the state of a first visit and the project kept in
localStorage. `/login` and `/app` share one `AppScreen`, so signing out does not unmount
it. The navigation after `handleRouteSave` is left out.
`loading` collects the flags that disable buttons; the document, pin, engram and
timeline lists are loaded in the same way as sessions and transcript and are left out.

### ProjectAccess

`owner`, `member` and `default` are the three columns the guards read. Each request is
a sequence of statements: creation (`ensure`, owner's row, default), resolution
(`lookup`, `autocreate`, owner's row, `granted`), and membership changes (project and
role read, member read, write). `entitled` records the projects a request could have
been granted at any moment since it began: that is what `GrantsJustified` compares
with.

### EngramAdmin

One step per statement; `held` are connections kept between statements, which only
`MoveAdminEngramProject` (rows of the cleanup not closed before the next query) and
the insertion of items do. `sources` counts submitted source lists that an engram has
rows of, because which one an engram has is not told apart by any guard; the INSERTs of one
list are one step. `Spec` has no fairness and is what the
proofs are about, `FairSpec` adds it for `RequestsEnd`. `excused` are items that an interrupted
or overtaken statement may leave behind; `ItemsLocal` holds for all others.

### LinkHygiene and Curation

`LinkHygiene` is what a chat turn does to links: reinforce those it used (read, then
write), and when the tracker says that a day has passed, archive stale links and
suggest others for review. `RefreshEngramLinkCurationSuggestions` shares the second
half. `Curation` composes it with contradiction alerts and consolidation candidates:
a refresh upserts what it detected, deletes the open suggestions of its kind and
makes new ones page by page; an administrator declines or applies a suggestion, the
latter in three statements (load, effect, mark). What detection and hygiene find
depends on scores and is any set. `Position` is the place of a record in the order of
the listing queries; a page is the open records whose rank lies between offset and
offset plus page size. `KeysLoad` is the limit of 500 on the listing of suggested links
that new ones are compared with; `missed` counts, per link, the listings in which the
limit cut off all the suggestions the link had. `contents` is what the project at hand contains, so
that TLC checks several small projects instead of one large one.

## Runs

Passing runs:

| Run | Instance | Shows |
|---|---|---|
| `gen` | 2 workers, 2 providers, threshold 2, cooldown 2 | breaker fields agree, failure count bounded, fallback has a cause, no leak to other providers, an open breaker admits again |
| `session` | 2 turns, every creation and update of flag and strategy, 2 deletions, 4 messages, 2 engrams | policy coherent, retention bound with restored snapshots, deleted sessions frozen, a purge leaves only inserts under way, snapshots after autosave was switched off are those of turns under way, no reply without its prompt |
| `session_retention` | 2 turns, 6 messages, 3 engrams, listings of 2, clock to 2, `retention_max_snapshots` 1 and 2 in turn | retention bound, nothing pruned that was not due, copies of one abstract bounded by the turns at a time |
| `oauth` | 2 clients, users, codes, tokens, verifiers, exchanges; clock to 2 | single use, tokens match grants, the invariant of the proof, refinement of `SingleUseGrant` |
| `login` | 2 logins, 2 instances, 2 outages, lockout longer than window | failures per window bounded, blocks have evidence, checks decide nothing |
| `limiter` | 2 requests, 2 instances, 2 outages | no window admits more than the limit; over the limit iff blocked; blocks stable |
| `workspace` | 2 users, projects and sessions, 1 prompt, 2 calls in flight (3 when an answer sends more) | one stream whose flags and texts fit it, a failed prompt overwrites nothing, flags have a call that clears them, also after the app was left and entered again |
| `access` | an administrator, two analysts, 1 project, 2 requests | ownership coherent, removals stick, only managers change members, grants justified |
| `engrams` | 1 engram, 1 collection, 2 projects, 2 requests, 2 connections | items in their project, deleted engrams frozen, source lists bounded, a request is stuck only in an exhausted pool |
| `curation` | projects {2 alerts, 1 candidate} and {1 alert, 1 link}, 2 requests, 2 suggestions, pages of 1, an alert opened twice | an undisturbed refresh is exact over pages, one application per opening, duplicate link suggestions, revived links and hygiene runs bounded |

The runs are kept to the properties that say something about the code: the type
invariants (`TypeOK` of every module, `GuardTypeOK`, `LimiterTypeOK`) and what only the proofs state
(`LoopNeverFallsThrough`, `ConsumedIsFinal`) are not in the configurations; they hold
on the same instances when added there.

Violations, each a disagreement between the code and what the repository says of it:

| Run | What happens |
|---|---|
| `session_prompt` | in a long session the new prompt is not sent to the provider |
| `login_lockout` | the end of the window ends a lockout before its time |

Bounds. Two turns, exchanges or requests are enough for every hazard that is a race
of two statements; in the breaker one late failure
follows the one that opens it, and the bound for more is proved. Threshold, attempts and limits of 2 tell "below", "at" and
"above" apart. Windows, lockouts and cooldowns are longer and shorter than the delay
of a step (`MaxDelay`) in turn. `MaxTime`, `MaxMessages`, `MaxStamps`, `MaxDeletes`
and `MaxOutages` only cut behaviours off; that is why those runs do not check for
deadlock, while the others, where only `MaxCalls` and `MaxOpenings` hold back what
starts, do.
`Budget` (`session_retention`) admits three early snapshots, or fewer while time passes or
other engrams are saved: a listing of two is cut and snapshots expire. `Deletions`
(`session`) admits two deletions, or one next to an engram that was saved. `KeysLoad` is 1, so
that a second suggestion cuts off the first, and `MaxMissed` ends a behaviour after two
listings that missed a link.
`FailuresPerWindowBounded` is claimed for a lockout that outlasts a window and the
delay of a step, as in the default configuration (900 s, 300 s). Pages of one record
make a refresh of two alerts read three pages. `PoolSize` is the number of
requests: statements wait for a connection, and two moves can exhaust the pool. In
`workspace` two calls are enough for an answer that is overtaken by another, also by one
of a workspace left before; the third comes from answers that send calls themselves.

Fairness. `gen`: weak fairness of `Tick`, time passes, for `CircuitReadmits`. Nothing
is assumed of provider calls (`http.DefaultClient` has no timeout), of clients or of
the scheduler. `engrams`: strong fairness of the next statement of each request, for
`RequestsEnd`: PostgreSQL answers, and the pool (pgx 5.8 with puddle 2.2) hands
connections to waiting requests in the order they came, so that a request for which one
is free again and again gets it. `workspace` has no fairness and no liveness property:
neither the browser's fetch nor the server nor the provider clients limit how long a
prompt may take.

## Observations

What the models show besides the two findings. None has a run of its own: either the
repository does not say otherwise, or it is the other side of a bound a run checks.

* A snapshot's abstract is taken from the oldest 500 messages, while
  `session_lifecycle.go:53` says "from latest assistant/user messages" (the cause of
  `session_prompt`). A block of the MCP transport (`docs/env-reference.md:46`, "block
  duration once threshold is exceeded") also ends with its window (the cause of
  `login_lockout`). The windows that `docs/env-reference.md:42` calls "sliding" and
  `request_limiter.go:15` "rolling" are fixed windows in the shared row.
* `providers/errors.go:51` says that a `ProviderAPIError` "indicates upstream provider
  failures"; a client that leaves produces one too (`openai.go:56`), and enough of them
  open the breaker of a healthy provider.
* Two turns of one session can save the same abstract (`session_lifecycle.go:279`);
  `DuplicatesBounded` says how often.
* A session created with `autosave_enabled` and no strategy is stored with the flag set and
  strategy "off" (`lifecycle_policy.go:58` lets a missing strategy pass,
  `repository/chat.go:375` makes it "off"): it looks enabled and saves nothing until an
  update names the flag or the strategy (`PolicyCoherent`).
* Maintenance lists the newest 500 engrams linked to a session, of any kind, and looks for
  snapshots among those (`session_lifecycle.go:230`): once saved engrams fill the list,
  older snapshots are never pruned, and an abstract they have may be saved again. A turn
  prunes by the retention settings it read before the provider was called: a snapshot that
  the owner has just decided to keep is deleted, or one to be deleted is kept until the
  next run. An administrator can restore a deleted snapshot next to `retention_max_snapshots`
  others; the next run deals with it. `RetentionBound`, `DuplicatesBounded` and
  `PrunedOnlyWhenDue` say exactly this much.
* `repository/oauth.go:210` "marks an auth code as consumed when still active"; the
  UPDATE (line 224) does not look at `expires_at`, which is checked at validation.
* `admin/service.go:536` "validates stale writes" by a comparison that the UPDATE does
  not repeat: of two updates with the same expected timestamp both succeed. An update
  writes back the visibility it read, so a share in between is undone. Overlapping
  replacements of sources mix, and a failure between their DELETE and INSERTs loses
  the sources. An INSERT of collection items that a move overtakes leaves an item
  outside its project, and so does a cleanup that fails.
* `MoveAdminEngramProject` (`admin_engram.go:290-310`) asks for a second connection
  while it keeps the first. With as many moves at a time as connections each waits for
  another one for good, and everybody else with them. `RequestsEnd` names that state
  (`PoolExhausted`) as its only exception. The move also asks the cleanup for its error before it has read its rows.
* A resolution that creates a project at the same time as another request is granted
  the project the other one created, and `from_role` of an audit event may be stale.
* Curation. `docs/api-reference.md:146` calls suggestions "deduped"; concurrent
  refreshes duplicate them, and the keys of link suggestions are compared with the
  newest 500 of the project only: with more of them open, an older link is suggested again
  at every refresh. `LinkSuggestionsBounded` counts those listings. An application that fails between effect and mark leaves a settled
  record with an open suggestion, a refresh in between deletes the suggestion. A
  refresh opens resolved alerts again but leaves merged or rejected candidates alone;
  the action on a candidate does not ask for its status. Deciding records while pages
  are read by offset shifts the next page.
* Links. A turn that read a link as "suggested" makes it active even when it was
  archived meanwhile (`RevivalsBounded`). A link listed as stale is archived although it
  was reinforced since. `markRun` writes the time the turn began, possibly over a later
  one, and every process has a tracker of its own.
* The browser. No answer is checked against what is on screen: a transcript of another
  session may be shown under the selected one, and after signing out late answers fill
  the lists again. `resetWorkspaceState` leaves the chat's flags and texts, which is why
  the next user waits for the previous one's prompt. A provider that does not answer keeps
  the chat disabled, as no timeout applies anywhere. A visit to a marketing page and back gives a workspace
  that knows nothing of the prompt under way, so a second one can stream beside it; a
  continuation that is answered meanwhile takes the user to the workspace from wherever
  they are. A reload on a session's route with
  a valid cookie never loads the transcript. A click in the session list is without
  effect while the route names a session. Changing the project reloads for every key
  stroke. Retry discards the draft and sends to the session selected now.

## Proofs

All for arbitrary constants that satisfy the named assumptions: thresholds, windows,
cooldowns and page sizes positive, what is in flight at a time (workers, turns, logins,
requests) finite, the fallback order a sequence of providers, no two detected records
at one place of the listing order. Nothing bounds how many requests overlap, so each
"bounded by the requests at a time" below holds for any number of them. The
inductive invariants named below also hold in TLC on the instances of the runs.

* `ChatGenerationProofs`. `TypeCorrect` carries that a request's index is always one
  of its candidates, which needs lemmas about `Slots` and `Candidates`.
  `BreakerIsConsistent` is inductive with the types. `FailuresAreBounded` needs both:
  no call is admitted while the count is at the threshold, because then the breaker is
  open or its expiry resets the count; so count plus calls in flight cannot grow beyond
  threshold - 1 plus workers. `InFlightSize` and `InFlightEnds` are the cardinality
  facts. `LoopReturnsInside` holds because `Continue` is only reached when
  `IsLastCandidate` is false. `FallbackIsJustified` says that candidates are met in their order
  with none left out, and what a finished request may return; the invariant (`TrailInv`) says what the loop has done so far: the providers in the trail
  are those of the candidates before the index, each once (`Walked`), and every answer
  so far was one to go past. `Continue` skips only slots that are no candidates, and
  two candidates are two providers (`CandidatesDiffer`). `NoCrossProviderLeaks` follows
  from it: a provider that opted out is its own only candidate.
* `OAuthCodeProofs`. The properties are not inductive: a second token for a code is
  excluded only because an exchange about to issue is alone with its spent code
  (`IssuesAlone`), and a token is right only because the row an exchange holds is still
  the stored grant (`HeldRowsAreCurrent`) of a registered client (`CodesAreOfClients`).
  Their conjunction `GrantInv`, with the types and the two token properties, is
  the inductive invariant; TLC checks it in the `oauth` run. `ConsumptionIsFinal` and
  `RefinesSingleUseGrant` follow from it step by step: `HandleAuthorize` is `Grant`,
  a successful `ConsumeCode` is `Spend`, `IssueAccessToken` is `Pay`, all else stutters.
* `RateLimitProofs`. For the limiter the invariant `LimiterInv` is the types,
  `OverLimitIsBlocked`, `AdmissionsBounded` and that no request holds a clock from the
  future. `ConsumedState`, `ConsumedAdmits` and `BlockedUnchanged` state what one
  consumption does to any state; admissions are bounded because the row counts every
  request it admits (`admitted <= row.count`) and admits none that does not fit.
  `BlockStands` is then immediate. For the guard `GuardInv` is the type of the row and
  of the requests, `Evidence` (a row with a block counts `MaxAttempts` failures) and,
  again, clocks that are not ahead (`LoginClocksRead`). `NormalizedState`,
  `FailureState` and `NormalizingDecidesNothing` say what one mutation of the row does
  for any clock; the theorems hold for any window and lockout, also for a lockout that
  ends inside the window, which no run instantiates. `FailuresPerWindowAreBounded` alone
  has a hypothesis, `LockoutOutlastsWindow`: otherwise a block ends inside the window
  that caused it and the count goes on. Its invariant (`WindowInv`) adds that a row at
  the threshold is blocked to the end of its window (`Locked`), that a clock in hand is
  less than `MaxDelay` old (`Punctual`), and it counts the logins past their check, which
  may still register a failure, along with those registered (`WindowBound`).

* `ProjectAccessProofs`. A project's owner never changes and no project disappears
  (`OwnersStay`), so what a request read in an earlier statement is still true when it
  writes: `Current` states, for each step a request can be at, what its reads still
  justify, and `Justified` that the project it holds is one in `entitled`. With the
  types, `RowsOfProjects` (rows belong to projects there are) and `OwnershipCoherent`
  this is `AccessInv`; the two action properties are read off it.

* `ChatSessionProofs`. `BaseInv` is the types, `StampInv` (a stamp is handed out once, so
  an id is one snapshot in every list that holds it) and `PolicyInv` (flag and strategy
  agree, but for a session as it was created, for which no turn has read a policy that
  saves). On it rest:
  `PurgeInv` (in a purged session every insert under way is in the residue); `LateInv`
  and the counting of `MaySave`, the turns that may still save; `CopyInv`, which counts
  the copies of an abstract together with the turns that may still save one because
  the list they judge by does not have it; and for replies the turns that still await
  one. `RetentionIsBounded` needs most: the lists that runs hold are, of what is still
  live, a chain, and the list a run is about to prune has all that is settled or
  settles nothing (`CoverInv`). Then what one run keeps bounds what all runs keep.
  `PrunedWhenDue` uses that all a run lists was inserted, under other stamps, before it
  prunes, and that its clock is not ahead (`ListInv`).

* `EngramAdminProofs`. `Base` is the types, with the connections held never more than
  the pool, and that a scope is never written as "keep". Lemmas per step say that one
  request at a time changes and what it becomes. `SourceListsAreBounded` counts lists
  together with requests about to insert one. `ItemsAreLocal` needs `ItemInv`: an item
  that a statement under way will insert is already in its project or excused, and an
  item out of place without excuse has a cleanup that still comes.

* `CurationProofs`. `Follows` says what a request may become at its turn and every bound
  is proved from it, not from the actions one by one: `RunsInv` (while hygiene is due
  none has run in the interval), `RevivalInv` (a suggested link was not revived since
  its status was set), duplicate link suggestions together with the requests about to
  create one. `AppliedOnce` counts applications done, applications to be marked and the
  opening that an open alert has not used (`AppliedInv`); it needs that a request still
  has the subject of the row it loaded (`RowInv`). `QuietRefreshExact` is about paging:
  the ranks of the open records are exactly 0 to their number less one
  (`RankBijective`), so a page that comes out short is the last (`PageLemma`), and a
  refresh that is alone has suggested every open record before its offset but those
  still pending (`Paging`, `Alone`).

* `WorkspaceProofs`, for any number of calls in flight. First what adding and removing
  a call does to a bag (`BagPlus`, `BagMinus`). Then `Step(E, T)` describes a step by the
  calls it ends and sends, and by what becomes of the flags (`FlagStep`) and the chat
  (`ChatStep`); `NextStep` shows once, action by action, that every step is of that form,
  or leads to a workspace that was just mounted or to none (`Fresh`), for which all of
  them hold, and the invariants are proved from that. `OneStreamHolds` and `RestoreSafe` are inductive
  with the types: the chat changes only with the call it stands for, since what else a
  step does - sign out, change project, create a session - neither ends that call nor
  touches its flags. `LoadingJustified` is not inductive: with two calls that create a
  session the first answer would clear the flag of both. `LoadingInv` therefore adds
  that the flag stands for one call (`OneCreate`).

Only model-checked: `CircuitReadmits` and `RequestsEnd`, because
liveness is outside the prover's reach; and the type of the failure lists that
`LoginGuard` keeps in memory (`GuardTypeOK`), filtered by `SelectSeq`, which takes
induction over data. No other theorem depends on it.

## Not modelled, and the plan

Modelling. Left, in order of importance:

1. Import with its conflict policies (look-up, then create, rename or overwrite) and the
   replacement of a document's chunks: partial failure and retries.
2. Concurrent resumes of the agent workflow, whose state is in memory.
3. Continued sessions and pins (one INSERT each); creation of links.

Proofs. Every safety property that a passing run checks has its theorem. What a later
component needs first is its `Step`: what one step does, stated once and used by all.

Out of reach or without state of their own: cryptography and cookies, MCP tokens
(create, list, revoke and look-up are one statement each), embeddings, link weights
and ranking scores (floating point), SQL text search, HTTP decoding, MCP dispatch, the
audit log (append-only output), rendering and the administrator's pages of the web
client, the evaluation harness. `src/langfuse` is a vendored copy of another project,
by far the larger part of the repository's lines; nothing of Engram's logic is in it
and it is deliberately not modelled.
