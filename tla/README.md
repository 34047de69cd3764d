# TLA+ models and proofs of Cholismo

Cholismo is a decision terminal for a discretionary futures trader: a Python backend
(`src/backend/app`) assembles market data into a schema, decides deterministically whether
trading is allowed at all (Phase 0), opens 90-second decision windows, keeps an append-only
Decision Log and evaluates a liquidity-sweep strategy (LSR); a React front end shows it, and a
TypeScript package (`src/lsr-engine`) is a second implementation of the LSR rules. Redis holds the
volatile state, SQLite the events.

This directory models the parts of it whose correctness depends on the order of events.
TLC checks the models on small instances; TLAPS proves the main safety invariants for every value
of the constants.

Contents: 1 inventory · 2 what is modelled · 3 `DecisionDesk` · 4 `LsrDriver` · 5 the ticket path ·
6 the services · 7 the rules · 8 proofs · 9 disagreements found · 10 mutations · 11 plan and what is
not modelled · 12 how to run it.

---

## 1. Inventory

**Scheduling.** The backend is one process and one asyncio loop. A coroutine keeps the loop until
its next `await`; an `await` of a Redis command, a callback, a lock or a sleep lets any other
coroutine run. SQLite is used synchronously. Hence, in every model here, an action is what runs
between two suspension points, and everything may be interleaved at those points.

**Interactions.** Data sources and providers write raw readings to Redis → the fast loop reads
them, runs the accumulators, Phase 0 and the window manager, publishes the schema and pushes it by
SSE to the browsers → the browser posts decisions, self-checks, settings, journal entries and ACKs
to the HTTP API, which reads and writes the same Redis keys and the same SQLite tables as the
loops. A sweep loop evaluates LSR on the schema and emits a `TradeManifest`, which the browser
shows as an alert with a time to live.

| Component | State | Operations | What is hard | What makes it correct |
|---|---|---|---|---|
| **Decision protocol** `api.py`, `engine.py`, `redis_state.py`, `event_store.py` | Redis: window, cooldown, self-checks, mode; SQLite: events; schema: Phase 0 | fast loop; `/decisions/arm`, `/decisions`, `/selfcheck`, `/mode` | check-then-act across awaits, TTL keys, Redis outages, restarts | a GO passed both gates; one end per window; automatic timeout neither early nor repeated; no window pending for ever |
| **LsrLiveDriver** `lsr_driver.py` | `_state`, its durable copy, snapshots, `_gate`, callbacks in flight | `evaluate`, poll loop, `record_trade_outcome`, `start`, `stop`, `update_*` | a lock with waiters, callbacks that fail or time out after their effect, cancellation, crash | no ticket twice; durable state never behind memory; a recorded loss is kept; an outcome is not starved |
| **LSR emission** `engine.py` (sweep loop), `trade_manifest.py`, `risk_sizer.py`, `graph/` | last event key and instant, trigger, last sweep | one loop | deduplication by event key and 90 s window, iterations that raise half-way, a restart forgets both | one manifest per event, none on a stale account |
| **SSE** `sse.py`, `frontend/src/lib/sse.ts` | bounded queues, hydration cache; connection and its timers | subscribe, publish, retry, recycle | a full queue drops the oldest item whatever it is; silent connections; hydration | blocks in order, no ticket twice, a lost stream comes back |
| **Manifest alert** `frontend/src/store/manifest.ts` | alert, clock offset, requests in flight | push, keys, frames, POST | frozen frame, queued keys, failed or late POST, next alert | a ticket is shown once and answered at most once, never acknowledged after its TTL |
| **Settings** `settings.py` | event log, cache, two scopes, presets | set, revert, preset, import | replay order, ceiling between scopes, LIVE lock read before the write | what the loops read is the replay of the log |
| **Reconciliation** `recon.py`, `projections.py` | GOs, outcomes, imports and their verdicts | import, match, outcome by hand, calibration | overlapping and repeated imports, early `go_without_fill` | matching is one to one, final and misses nothing; an anomaly is not cleared |
| **Loss streak** `api.py`, `engine.py`, `projections.py` | outcomes, acknowledged streaks | fast tick, audit, scenario | the audit names the streak of the last iteration; its key has no TTL | a longer streak than any audited blocks |
| **Journal** `journal.py` | drafts and sentiments (Redis), locked entries (SQLite) | create, update, delete, lock, close a session | several Redis commands per request, refusals and failures between them | an entry is usable and immutable; nothing typed is lost |
| **NT8 log tailer** `log_scraper.py`, `snapshot.py` | position, file identity, pending fragment, snapshot ids | poll, capture | rotation, truncation, growth between stat and read, a capture that fails, two in a millisecond | each line after the position captured once, whole, in order, under a name of its own |
| **Freshness caches** `account_provider.py`, `macro_news.py`, `external/`, `engine.py` | last value and stamp, at up to four levels | refresh, publish, read, judge | file unchanged, late answers, republication, clocks of several caches | nothing stale is served as fresh |
| **Accumulators** `engine.py`, `footprint.py`, `cvd_stratified.py`, `volume_profile.py` | last sequence number, levels, candles, session day | fold a window | sequence regression, overlap and gaps, eviction, session rollover | every print counted once; the four views agree |
| **Order flow** `orderflow/`, `graph/liquidity_sweep.py` | history of books, current event | push a book, detect, measure | prints late, early or twice; books of before the sweep; gaps | measures independent of the order of delivery |
| **Rules** `phase0.py`, `scoring.py`, `strategies/`, `lsr_engine.py`, `risk_sizer.py`, ... | macro tier | judge one state | limits written in several places, absent inputs | coherent at every limit; losing data never helps; risk bounded |
| **TypeScript LSR** `lsr-engine/src` | runtime state handed back by its driver | `evaluateLsr`, `recordTradeOutcome`, `rolloverDaily` | cooldown, stop and refusals live in a state passed by value; two languages | memory kept; same tickets as the Python |
| Providers and connectors, replay and mock sources, AI tasks and workflows, analytics, browser panels | — | — | network, floating point, rendering | not modelled: section 11 |

`PROJECT.json` lists each component with its status, and every hazard with its line and the
properties that would catch it.

---

## 2. What is modelled

| Module | Role |
|---|---|
| `DecisionDesk` | the decision protocol: state, actions, fairness, properties |
| `MCDecisionDesk` | symmetry of the requests, for TLC |
| `DecisionDeskProofs` | inductive invariant and theorems of `DecisionDesk` |
| `LsrDriver` | the driver's lock, cycle, callbacks, cancellation, crash; properties |
| `MCLsrDriver` | the instance for TLC |
| `LsrDriverProofs` | inductive invariant and theorems of `LsrDriver` |
| `LsrEmission` | the engine's sweep loop: from a sweep to at most one `TradeManifest` |
| `SseChannel` | the broadcaster's queues and the connection of each browser |
| `ManifestAlert` | the alert of each browser, its requests, the journal |
| `TicketPath` | composes the three |
| `TicketContract` | abstract specification: what an operator may rely on |
| `MCTicketPath` | the instance for TLC |
| `TicketPathProofs` | inductive invariant of `TicketPath`, its theorems, the order of the blocks, and the proof that it implements `TicketContract` |
| `Settings`, `Journal`, `TrackRecord`, `StreakAudit` | what the API and the operator write |
| `FillLog`, `AccountFile` | what is read from NinjaTrader's files |
| `NewsLock`, `MacroGate` | what is read from the outside: the feed of gate F0; calendar and VIX up to Phase 0 |
| `TapeFold`, `OrderFlow` | what is accumulated and measured from the tape and the books |
| `Prints` | what the two share: a selection of prints, the volume and the delta of some |
| `Readings`, `Signals` | the rules of Phase 0; everything that judges a state of the schema |
| `LsrRules`, `LsrEngine`, `LsrPort` | the LSR engine in Python, in TypeScript, and the two side by side |
| `Services` | composes these: their parameters with what is assumed of them, one behaviour per service, the properties |
| `MCServices`, `MCInputs` | the parameters and the inputs of the instance for TLC |
| `ServicesLemmas` | induction, finite sets, ranks, folds: what the proofs of the services share |
| `RecordProofs` | theorems of `Settings`, `FillLog`, `StreakAudit`, `Journal` and `TrackRecord` |
| `MarketProofs` | theorems of `NewsLock`, `AccountFile`, `LsrEngine`, `MacroGate`, `Signals` and of the two LSR engines side by side (`LsrRules`, `LsrPort`) |
| `TapeProofs` | theorems of `TapeFold` and `OrderFlow`; sums over sets and selections of sequences |
| `ServicesProofs` | the invariants joined: type correctness of `Services` |

The first two components are the core of the system: the first decides whether an operator's GO is
recorded, the second whether a strategy's ticket goes out. They do not share state: the driver is
not wired into `main.py` (D-052 leaves that to a later phase), so no module composes them. The third,
the path of a ticket from the engine to the operator and back, is three modules that `TicketPath`
composes. The services and the rules (sections 6 and 7) share no state with them nor with each
other, except that `MacroGate` and `Signals` both extend `Readings`, and `LsrPort` puts `LsrRules`
and `LsrEngine` side by side. No module declares a RECURSIVE operator, so all can be proved about.

---

## 3. `DecisionDesk`

### State

| Variable | Code |
|---|---|
| `window` | Redis key of the pending C3 window: `{decision_id, deadline_ts}` (`redis_state.py`) |
| `nextId` | the fresh uuid4 of the next window |
| `cooldown` | the `decision_cooldown` key, which has a TTL of 30 s |
| `selfchecks` | the operators whose `selfcheck` key exists, TTL 3600 s |
| `mode` | operational mode in Redis |
| `log` | the `DecisionEvent`s of SQLite, in append order |
| `phase0` | `schema.session_identity.phase0`, the verdict `post_decision` checks |
| `tk`, `rq` | program counter and local variables of the fast loop and of each request |
| `clock`, `redisUp`, `epoch` | wall clock, whether Redis answers, outages and restarts so far |

A log entry keeps what a property reads: the window, who decided, whether its `ts` is past the
deadline (`late`), and for a GO the self-check it carries and the Phase 0 of the snapshot that is
archived with it.

### Actions

One action per Redis command, because that is where coroutines are suspended, and one per
synchronous stretch that touches shared state. An iteration of the fast loop is
`TickStart → TickReadMode → TickReadWindow →`
`(TickExpire → TickClear → TickCool)? → TickNoArm | (TickGate → TickSet) → TickPublish`,
and `TickFail` wherever a command raises. A request is either an arm
(`ArmReadMode → ArmReadWindow → ArmSet`) or a decision
(`DecideReadWindow → DecideReadCheck → DecideAppend → DecideClear → DecideCool`), with the
refusals 409 and 412 (`ArmRefused`, `DecideRefused`) and `RequestFail` for HTTP 500.
`PostSelfcheck` and `SetMode` are one command each. The environment: keys with a TTL vanish, time
passes, Redis goes away and comes back, the backend restarts anywhere (`Restart`: Redis and SQLite
keep their contents, the schema is BLOCKED again, every coroutine is lost).

Abstractions:

- Which Phase 0 rules fail is a choice (`ok` in `TickStart`): the rules are pure functions of the
  readings, which the model does not hold. The score threshold for arming is the choice between
  `TickNoArm` and `TickGate`.
- `mode` is read at the point of the code, but the model remembers only `live` (LIVE and Phase 0
  open), which is all the rest of the iteration uses.
- The TTLs are longer or shorter than any window, so the keys may vanish at any moment.
- Instants are small integers; a deadline is compared strictly, as in the code.
- Commands that only read for display (streak, heartbeat, scenario) are part of `TickStart`.

### Runs

| Run | Instance | Shows |
|---|---|---|
| `desk_interleavings` | 2 requests, 1 operator, 2 modes, 2 windows, no outage; 2.0 M states | `TypeOK`, `GoGated`, `DecidedWindowStaysClosed` under every interleaving |
| `desk_outages` | 1 request, 2 windows, 1 outage or restart at any point, fairness; 0.7 M states | `TimeoutAfterDeadline`, `TimeoutOncePerEpoch`, `PendingWindowResolves` |
| `desk_go_after_deadline`, `desk_window_lost`, `desk_open_without_redis` | as above | see section 9 |

- `GoGated`: a GO in the log carries a valid self-check and a snapshot with Phase 0 OPEN. The
  verdict is checked and archived in the same synchronous stretch, the self-check several awaits
  earlier. What must not happen is that an interleaved iteration separates the two.
- `DecidedWindowStaysClosed`: once a handler has recorded its decision and deleted the key, no
  interleaving brings that window back. It fails as soon as the loop writes a window back.
- `TimeoutAfterDeadline`, `TimeoutOncePerEpoch`: the automatic NO_GO comes only after the deadline,
  and twice only if a restart or the end of an outage lies between the two (the append precedes
  the delete, so a failure in between repeats it).
- `PendingWindowResolves`: a pending window does not stay pending, in any mode and after an outage.

**Bounds.** `MaxWindows = 2` is what it takes for one window to be overwritten or deleted by the
actor of another. Two requests against the loop give every pair of racing actors; a third actor
adds no new pair of a read and a write to the single window key. `AntiParalysis = 1` and
`MaxClock = 3` leave an instant before, at and after each deadline and room for the second window.
`CanArm` stops the arming of a window that could not expire within `MaxClock`: without it the
liveness property would fail for want of time, not because of the code. `MaxEpoch = 1` allows one
outage or restart; the proofs remove this bound for the safety properties. `CHECK_DEADLOCK FALSE`:
with a bounded clock and requests that are handled once, a run may really end.

**Fairness** (`FairSpec`). Weak fairness of `TickStep` and of each `RequestStep`: asyncio runs every
coroutine that is ready, and a Redis command returns or raises. Of `ClockTick`: time passes. Of
`RedisBack`: an outage ends. Nothing makes a user send a request: `RequestBegins` has no fairness,
and a window that nobody answers must end by itself.

---

## 4. `LsrDriver`

### State

| Variable | Code |
|---|---|
| `market`, `account` | `_market`, `_account`: the snapshots pushed last, with their stamps |
| `mem` | `_state`: set-ups already ticketed (`taken`) and end of the loss cooldown (`until`) |
| `disk` | what `persist_state` wrote last, which is read back at start-up |
| `locked`, `queue` | `_gate` and the deque of its waiters |
| `task` | the coroutines: evaluating tasks (`Evals`) and calls of `record_trade_outcome` (`Outcomes`) |
| `tickets` | the set-ups handed to `on_plan_approved`, in order |
| `clock`, `crashes` | the injected clock, crashes so far |

### Actions

The suspension points are the acquisition of `_gate` and the callbacks. `EvaluateNow` and
`OutcomeNow` run from a free lock without waiters to the first callback, `EvaluateQueued` and
`OutcomeQueued` suspend on the lock. `Resume` is the first waiter of a lock that has been
released: `asyncio.Lock` releases first and wakes the waiter afterwards, so between the two the lock
is free but not for newcomers. A cycle is `persist → notify → dispatch`; `PersistFails` stands for
an exception and for the timeout, where the write has landed or not; a failed `notify` or
`dispatch` changes nothing else. `Stop` cancels an evaluating task wherever it waits. `Crash` loses
the memory and starts again from `disk`. `evaluate` drops a call while the lock is held (guard
`~DropsEvaluation`), an outcome always waits.

Abstractions and limits:

- The evaluator, the record of an outcome and the callbacks are injected, hence external. The
  evaluator is deterministic but unknown: it may refuse, alert or approve, never approves a set-up
  it has already ticketed nor any during the cooldown. The order flow's freshness is one more reason
  to refuse. Only a loss changes the state in `record_outcome`.
- A `persist_state` that was cancelled by the timeout does not land later: it has landed when
  the cancellation returns or never does. A synchronous callback blocks the loop, so its timeout
  cannot fire; it is the case where the callback returns at once.
- Callbacks do not call back into the driver; `persist_state` is configured; `record_outcome` does
  not raise. The log of a clock that goes backwards has no effect on the state and is left out.

### Runs

| Run | Instance | Shows |
|---|---|---|
| `driver` | poll loop, 2 outcomes, 1 set-up, 1 crash, fairness; 0.27 M states | `TypeOK`, `NoDuplicateTicket`, `MemoryNeverAheadOfDisk`, `RecordedLossKept`, `OutcomeGetsItsTurn` |
| `driver_outcome_lost`, `driver_stale_evaluation` | as above | see section 9 |

- `NoDuplicateTicket`: failed or cancelled writes, cancelled tasks and restarts included. It rests
  on the order persist, advance, dispatch.
- `MemoryNeverAheadOfDisk`: a restart never forgets a set-up or a cooldown that the process acted on.
- `RecordedLossKept`: once an outcome's recording went through, no evaluation in flight, later
  outcome, failed write or restart shortens its cooldown.
- `OutcomeGetsItsTurn`: an outcome that waits for the lock gets it although evaluations keep coming.

**Bounds.** A set-up that could be ticketed twice needs one value in `Sweeps`. Two outcomes and an
evaluation make a queue of three, which shows any overtaking. The ages, the time-out and the
cooldown are 1, so each is met, reached and exceeded by `MaxClock = 2` (3 for the violation runs).
One crash at any point. The proofs remove all of these bounds for the safety properties.
`CHECK_DEADLOCK FALSE`: the clock is bounded and the tasks may all be over.

**Fairness** (`FairSpec`). Weak fairness of `Resume(t)` (the event loop runs the waiter it woke) and
of `CallbackReturns(t)` (`asyncio.timeout` ends every callback). Evaluations, snapshots and outcomes
may come or not.

---

## 5. The ticket path: `LsrEmission`, `SseChannel`, `ManifestAlert`

### State

| Variable | Code |
|---|---|
| `event` | `_sweep_event_key`, `_sweep_event_ts` |
| `emittedKey`, `lastEmit` | `_lsr_emitted_key`, `_lsr_last_emit_ts` |
| `sweptAt`, `manifests`, `life` | instant of the last iteration, what was published, restarts (history) |
| `cache` | `Broadcaster._last` for `session_identity` |
| `queue`, `wire` | a browser's `asyncio.Queue`; items sent and not handled |
| `link` | `open`, `hung` (no error and nothing comes) or `retry` (`es === null`) |
| `heard` | `lastFastEventAt > 0` |
| `identity`, `offset` | `session_identity.server_ts` displayed, `clockOffset` |
| `alert` | `useManifest.alert`: ticket, instant of reception, ARMED, LOCKED or FAILED |
| `posts` | requests of `POST /manifests/outcome`: promise unsettled, and what the endpoint did |
| `journal` | `manifest_outcome` entries |
| `shown`, `faults` | tickets displayed so far (history), faults so far (bound) |

### Actions

- `LsrEmission`. The loop awaits the detector only, and what follows touches variables of its own:
  one iteration is one action. `SweepEmits` goes through every gate, `SweepSilent` stops at one
  (nothing found, no direction, same event, window, or LSR, news, account, size, boundary),
  `SweepFails` raises after the event was told apart. A restart forgets everything.
- `SseChannel`. `Enqueue` drops the oldest item of a full queue. A block is cached
  (`PublishBlock`), a ticket is not (`PublishEvent`). `Subscribe` hydrates a fresh queue. A connection
  breaks (`Break`, then `Retry`), hangs (`Hang`, then `Recycle` by the watchdog, which looks only at
  pages that received a block since they were loaded), or is slow and recycled.
- `ManifestAlert`. One handler of the browser's main thread is one action: a frame
  (`FrameTimeout`, `FrameClear`), Space (`Lock`, which looks at the deadline again), Escape (`Refuse`,
  which does not: its reaction is then longer than the TTL and the endpoint answers 422), the banner's
  timer, the settlement of a request. `Store` is the endpoint, which may see a request after the browser
  gave it up. `Reload` loses the store.
- `TicketPath`. `Emit` and `PublishIdentity` put items in the same queue; `Deliver` hands the head to
  the store. The clock of the backend is `now`; the browser's is ahead by `Skew`.

Abstractions and limits:

- What the gates and the detector say is a choice. `session_identity` stands for the state blocks of
  the fast channel; its `server_ts` is the instant of publication (in the code, of the start of the
  iteration). A malformed manifest is ignored by `push` and is not sent.
- The thread may freeze, so frames, keys and timers may come at any time; so may the
  watchdog and the retry. A connection that was closed delivers nothing more.
- A restart within the 90 s window emits again: `OneManifestPerEvent` speaks of one life of the
  process. The backend is back as soon as it died, and a browser reads its error or hangs.
- The feed of recent sweeps, the order-flow shadow and the slow channel are left out.

### Properties (run `ticket_path`)

- `ContractHolds`: `TicketPath` implements `TicketContract`, with the ticket on the screen, the tickets
  displayed and the journal as the abstract state. A browser displays a ticket once, never in the
  place of another, and the journal has at most one outcome per browser and ticket, given by a browser
  that displayed it. Reconnections, hydration, reloads, restarts, late keys and late requests included.
- `OneManifestPerEvent`: a sweep that persists gives one manifest, and two are a window apart.
- `AckInTime`: an ACK of the journal was given within the time to live.
- `BlocksNeverGoBack`: overflow, hydration and reconnection never show an older block after a newer.
- `EveryAlertEnds`, `LinkRecovers`: progress.

**Bounds.** Two sweeps alternate; two tickets are what it takes to drop or replace one; the queue
holds two items, so a third overflows it. One fault (break, hang, needless recycling, reload, restart)
at any point. `TTL = Rearm = 1` and `MaxNow = 2`: an action before, at and after a deadline. A ticket is
handled only if the run lasts until it expires, so that `EveryAlertEnds` does not fail for want of time.
One browser: browsers share nothing but the journal, to which each appends. 0.74 M states.
`CHECK_DEADLOCK FALSE`: the clock is bounded.

**Fairness.** Time passes; a frame or timer that may end the alert comes; a closed source is reopened
and a hung one recycled. Keys, requests and answers may never come.

---

## 6. The services

They share no state, so `Services` instantiates each and a behaviour is a behaviour of one of
them: the variable `part` says which, and the variables of the others keep their initial values. The
parameters of a service are the fields of one constant record (`SettingsConf`, `JournalConf`, ...), of
which a named assumption says what the code guarantees; `MCServices` gives them values. This
gives one run, `services` (1.3 M states, about three minutes; a third of them are the calendar's), and each
property speaks of one part.

| Module | State and code | Steps |
|---|---|---|
| `Settings` | `settingLog` (SQLite), `cache` (`_CACHE`), `asked` (the handler that waits for the mode), `liveMode`, `saved` (history) | `AskMode`, then the write as one synchronous stretch, or `Refused`, `Rejected`; `ReadSetting` fills the cache; `Restart` empties it |
| `Journal` | `drafts`, `sentiments` (Redis), `journal` (SQLite), `request` (what each handler holds) | one step per Redis command; `RequestFails` at any of them |
| `TrackRecord` | `gos`, `outcomes`, `recons`, `imports` | no handler waits: one step each |
| `StreakAudit` | `losses`, `acks` (Redis), `tick` (streak and acknowledgement in the fast loop), `shown` (published) | the two reads of the fast loop, the audit, outcomes, a scenario, Redis down |
| `FillLog` | `files`, `size`, `tail` (path, inode, offset, fragment), `lines` (read, not captured), `ids` | a writer in two pieces, rotation, truncation; `Stat`, read, capture; restart |
| `AccountFile` | `accountLines`, `mtime`, `poll`, `snapshot` | exporter; the two halves of a poll |
| `NewsLock` | `fetch`, `newsCache` | fetch, answer, store or fail; `get_state` is an operator |
| `MacroGate` | `worker`, `vendorCache`, `raw` (Redis), `slow`, `fast` (what each loop has read), `schema` | worker, publication, slow tick, fast tick, verdict: each read of Redis suspends |
| `TapeFold` | `source` and the window it `published`; `cvd`, `fp` (footprint's buffer), `cs` (stratified CVD's), `vp`; `seen` (history) | source, fast tick, restart of the source, time |
| `OrderFlow` | `tape`, `book`, `history`, `event`, `measured` | a fast tick with any batch and book, a sweep tick |

### Properties

- `CacheIsReplay`: at rest, the projection the loops read is the replay of the log. It fails when a write
  forgets the invalidation. `PresetRestores`: applying a preset gives the parameters as saved and
  drops later overrides. `OvertakenByGlobal`: the only way a strategy's value exceeds the global ceiling
  is that the ceiling moved after it was set, or an import or a preset replaced the map: the
  ceiling is checked at the write only (`settings.py:268`).
- `LockedIsUsable`: an entry passed `validate_lock` although its draft was edited meanwhile.
  `NothingVanishes`: neither a refused lock, a close nor a failure loses what was entered. What the code
  does allow and the model reaches: two entries for one draft, an edit that brings a locked draft back,
  a sentiment posted during a close that is cleared with it.
- `MatchingIsSound`, `AnomalyLocksSizing`: over files that overlap or repeat, one verdict per GO, one
  GO per fill of an import, no pair left over; a GO that an import found without a fill is never
  reconciled, and as long as such GOs are more than the rounded rate hides, the sizing is locked.
  `calibration` compares `round(100 * reconciled / GOs, 1)` with 100.0 (`projections.py:185`, `:193`):
  one unmatched GO in 2000 is hidden, which is the constant `Rounding`; the sign of the Sharpe ratio is
  that of its value rounded to a thousandth.
- `LongerStreakBlocks`: a streak longer than any that was displayed at an audit blocks.
- `FillsAreCaptured`: outside the places where the tailer repositions itself, lines are captured once,
  whole, in order, under distinct names.
- `AccountIsRecent`: an equity in use was written within `MAX_AGE`; a silent exporter and a line that
  lands between stat and read included. `NewsFailsClosed`: gate F0 is open only away from each event the
  feed listed long enough ago. `OpenIsInformed` (two instances, the calendar and the VIX): Phase 0 passes
  on a VIX only within its time to absence, and away from each listed HIGH event when the calendar is
  not absent; four caches with clocks of their own lie on the way.
- `TapeFoldedOnce`: through overlaps, gaps, restarts and rollovers no print counts twice, none is
  missing of a source that did not restart, and CVD, footprint, stratified CVD and profile agree as far
  as the bounds of each let them: the footprint's buffer and the stratified CVD's are two, with
  a cap each (800 and 4000), both views drop a print without a time, which the CVD and the profile count,
  only the latest candles are shown, and a full CVD evicts a level. The value area holds seven tenths of
  what was traded on the profile's grid (`VP_MAX_LEVELS` around the price that traded most, the rest of
  the session being left out), and without its last step it held less. `TypeOK` bounds the levels of a
  full accumulator.
- `FlowMeasures`: B1 to B4 do not depend on the order or repetition of the feed, treat a short as its
  mirror, stay in range, and a refill is seen only on a wall that lost size since the sweep. The case
  of price that ends half-way between two extremes is excepted: the code prefers the low.

### Bounds

Each is in `MCServices`, by name. They are the least at which the case a property is about happens, and
its mutant shows that it does. `Settings`: 3 events, a global and a strategy's value of one parameter, 2
values on both sides of the guard. `Journal`: 2 requests, 2 posts, 2 entries, 1 draft. `TrackRecord`: 2
GOs, 2 imports of up to 2 of 3 fills, a window of 1, one GO in 2 lost in the rounding (so that both a
locking and a hidden anomaly occur). `StreakAudit`: a threshold of 2, 3 outcomes.
`FillLog`: 3 lines, 2 files, a truncation, a restart. `AccountFile`, `NewsLock`, `MacroGate`: ages of 1
or 2 and enough instants to pass before, at and after each; the calendar holds two events at
one instant, one of an impact that cannot be read, shows one of them (the other is cut, whichever it
is; the first event is seen when its source lists it alone), closes Phase 0 at their instant only and
forgets them 2 instants after it. `TapeFold`: 4 prints, one without a time and one
that cannot be read, in windows of 2; buffers of 3 and of 4; 2 tracked levels, 2 candles, a grid of
3 levels; a release, a restart, a day change. `LsrEngine`: caps of 1 and 2 a day, so that with the
restricted cap `F8_CONFLUENCE` is always preceded by `A5B` or the cap. `OrderFlow`: 3 batches (with a late, an early, an unknown
print), 4 books. `CHECK_DEADLOCK FALSE`: all of these counters and clocks are bounded, and an input of
section 7 is judged once. No fairness: these are safety properties.

### Noted on the way

- **`orderflow/bridge.py` does not parse at this commit**: a function is pasted into the module's docstring
  and its own quotes close it (a SyntaxError at line 4), and `engine.py:36` imports it. The model
  takes the text after the pasted block.
- The engine never passes bars to the bridge, so the ATR is never measured live and the noise buffer
  is always the widest. `f3_atr_blocked` is written and nobody calls it.
- The slow tick replaces its whole block, a fresher VIX of the fast loop included
  (`engine.py:744-757`); it remains within the time to absence, which is what `OpenIsInformed` says.
- `build_macro_calendar` keeps the first 20 events: an imminent HIGH after them is not seen. The
  property excepts it.
- From 2000 GOs on, one GO without a fill no longer locks the sizing: the rate that is compared with
  100.0 is rounded to a tenth. DECISIONS.md:97 asks for 100 %. `AnomalyLocksSizing` says what holds.
- Events of one instant are kept in the order of their source: when they straddle the cut to 20, which
  are seen depends on it. The model takes any order.
- The sweep loop detects on what it read from the schema, waits for a thread (`engine.py:846`), and
  measures on what the schema has become, at an instant read anew. `SweepTick` is one step: the model has
  no fast tick in that wait. `FlowMeasures` speaks of the measures alone, for the event they were given.
- After the tape's source restarts, its prints are ignored until its whole window is below the last
  sequence number; a day that starts before the first print keeps the previous profile's prints.
- An acknowledged length of a streak stays acknowledged: a new streak of that length is not audited.

---

## 7. The rules

Pure functions are operators, and the inputs are the values on both sides of every limit (`MCInputs`).

- `Signals`: a desk is observed, then one reading may grow stale or vanish.
  `LosingDataNeverHelps`: that never opens Phase 0, brightens a verdict, enlarges a strategy or raises the
  score. Excepted, because the code decides otherwise: the RMS (section 9), CVD and EUR/USD for the
  console (a red divergence turns yellow), the VVIX (absent counts as 100) and a calibrated macro score
  (its weight is redistributed). `RulesAreCoherent`: the limits of VIX, choppiness and session, which
  seven places write with `<` or `<=`, agree at their boundaries; and the macro pipeline is stable (a
  tier settles, weights add up to one, RED suppresses carry, a missing input never convinces).
- `LsrPort`: the same input goes to `LsrRules` (Python) and to `LsrEngine`'s operators (TypeScript).
  `PortAgrees`: if both can read it, a ticket of the Python has the levels and size of the
  reference, or the reference refuses by one of the gates the port leaves to others (`ReferenceOnly`);
  an approval of the reference that the port refuses is due to what the port checks on top
  (`PortOnly`). Both judge the first set-up of a day, confluent and without news near: the gates F5, F6,
  A5B, F7 for a set-up submitted again and the cap of F8 ask for a memory or a calendar that the port does
  not have, and stay open in the comparison; the attempts of `LsrEngine` close each of them.
  `RiskIsBounded`: a ticket risks at most a fifth of the day's remainder and of the distance to the floor, less knowledge never enlarges it, and the displayed next ticket is not larger.
- `LsrEngine`: the TypeScript engine with its state. `EngineRemembers`: nothing approved in a campaign
  stop, after a refusal, in a pause or above the day's cap, through any order of evaluations, closes
  and rollovers. (`A2` refusals do not enter `rejectedSetupIds`, in the code and in the model.)

Numbers are integers in a unit fine enough for the limits: ticks, cents, hundredths, tenths; `OrderFlow`
keeps exact fractions. The rounding of a ratio that is only displayed is left out; the two that open a
gate, the reconciliation rate and the Sharpe ratio, are rounded as the code rounds them. Of the tape,
prices are ticks of the grid (two prices of one tick are two levels of the CVD and one of the
footprint), candles are spans of time (`FOOTPRINT_TICKS_PER_CANDLE` is 0 by default), and the series
and the divergence of the stratified CVD, low-volume nodes and the split of a level are left out. `tanh`,
divergences of series and chains of options are inputs.

---

## 8. Proofs

The proof modules are checked by TLAPS from the assumptions on the constants alone
(`DeskAssumption`: the bounds are naturals, LIVE and PRE_SESSION are modes, SYSTEM is no operator;
`DriverAssumption`: the bounds are naturals, set-ups are positive, evaluating tasks are not outcomes;
`PathAssumption`: the bounds are naturals, queue and wire hold at least one item, the skew of the
clocks is an integer, a sweep is not one of the three marks for none; those of `Services`: below).
TLC evaluates each of them on the instance it checks.

`DecisionDeskProofs`

| Theorem | Statement |
|---|---|
| `TypeCorrect` | `Spec => []TypeOK` |
| `DeskInvariant` | `Spec => []DeskInv` |
| `EveryGoGated`, `NoEarlyTimeout`, `OneTimeoutPerEpoch`, `DecidedStaysClosed` | the four safety properties of section 3 |

None of the four is inductive by itself. `DeskInv` has three parts. `TypeInv` is `TypeOK` and
what a program counter implies about its local variables. `IdInv` says where a window id can be: every id in Redis, in the fast loop or in a handler is below
`nextId`, and an id that some coroutine is about to write is in no other place: it is what makes a
decided window stay closed, whoever else is in the middle of arming. `LogInv` relates the log to the
program counters: what an entry says of its own lateness and gates, and, for the fast loop, that a
window it is about to expire has no timeout of the current epoch yet, and that a window whose
timeout was written in this epoch either is no longer pending or is the one the loop is about to
delete. There is one lemma per action and part, and the theorems combine them.

`LsrDriverProofs`

| Theorem | Statement |
|---|---|
| `DriverTypeCorrect` | `Spec => []TypeOK` |
| `DriverInvariant` | `Spec => []DriverInv` |
| `TicketsAreUnique`, `DiskHoldsMemory`, `LossesAreKept` | the three safety properties of section 4 |

`DriverInv` adds to those properties: `Serial` (a task is in a callback only if the lock is held, and
at most one is: the cycles never overlap), `ApprovedIsASweep`, `PersistExtends` (the state a task
is about to write contains the memory: this is why `evaluate` must read `_state` under the lock),
`NotifyPending` (a ticket that is about to go out is not out yet, and its set-up is already in the
memory) and `TicketsTaken` (every ticket that went out is in the memory).

`TicketPathProofs`

| Theorem | Statement |
|---|---|
| `PathTyped` | `Spec => []TypeOK` |
| `OneManifest`, `AcknowledgedInTime` | the two invariants of section 5 |
| `PathImplementsContract` | `Spec => ContractHolds`: `TicketPath` implements `TicketContract` |
| `BlocksStayInOrder` | `Spec => BlocksNeverGoBack` |

`PathInv` has one part for each of the three modules, and one that joins the first and the third.
`EmissionInv`: the events of the manifests began no later than the last iteration, so an event that
begins now is none of them; and `MemoryOfLife`, what the process remembers of the manifests of its
own life: the last instant, and the key of the event in memory if that event has a manifest. It is
what makes the pair (event, key) enough, although an iteration may fail between the two.
`ChannelInv`: the tickets in the queue and on the wire of a browser are in the order of their ids, the
wire's before the queue's, and both after every ticket that the browser has displayed; the cache never
holds a ticket. This is where a queue that overflows, a block that hydrates a new connection and a
publish that is not cached meet: a ticket can be lost, it cannot come twice. `AlertInv`: a browser has
one request at most for a ticket, a request on its way has no outcome yet, an alert that can still
be settled has neither request nor outcome. The refinement maps the step of `Deliver` that admits a
ticket to `Show`, all that takes an alert down to `Close`, the endpoint's write to `Answer`, and
every other step to none.

`BlockInv` orders the blocks the same way, by their times, from what is displayed to the cache. The
cache is empty after a restart: then the bound is the present, and the first block published after
it is not older, since the time of the backend survives the restart.

`RecordProofs`, `MarketProofs`, `TapeProofs`, `ServicesProofs`: each theorem is `Spec => []P` for the
property P of section 6 or 7 in the second column (`EngineRemembers` is an action property).

| Theorem | Property | Inductive invariant |
|---|---|---|
| `CacheFollowsLog`, `PresetGivesBack`, `CeilingIsOvertaken` | `CacheIsReplay`, `PresetRestores`, `OvertakenByGlobal` | `SettingsInv` |
| `FillsAreTaken` | `FillsAreCaptured` | `FillInv` |
| `AuditCoversDisplay` | `LongerStreakBlocks` | `StreakInv` |
| `LockedEntriesAreUsable`, `NothingEnteredVanishes` | `LockedIsUsable`, `NothingVanishes` | `JournalInv` |
| `MatchingIsOneToOne`, `AnomalyIsFinal` | `MatchingIsSound`, `AnomalyLocksSizing` | `RecordInv` |
| `GateFailsClosed` | `NewsFailsClosed` | `NewsInv` |
| `FreshEquity` | `AccountIsRecent` | `AccountInv` |
| `PhaseZeroIsInformed` | `OpenIsInformed` | `CalendarInv`, `VixInv` |
| `EngineHoldsBack` | `EngineRemembers` | `EngineInv` |
| `TicketRiskIsBounded`, `EnginesAgree` | `RiskIsBounded`, `PortAgrees` | none: properties of each input |
| `LessIsNeverMore`, `RulesAgree` | `LosingDataNeverHelps`, `RulesAreCoherent` | `SignalsInv` |
| `TapeIsFoldedOnce` | `TapeFoldedOnce` | `TapeInv` |
| `FlowIsMeasured` | `FlowMeasures` | `FlowInv`; the rest holds of each tape, history and event |
| `ServicesAreTyped` | `TypeOK` | `ServicesInv`: those above, joined |

**Assumed of the parameters** (`Services`), beside that bounds, delays and sizes are naturals:
`NilAssumption` (the mark for nothing is not a number, a truth value, the impact of an event nor a side
of the book); `PartsAssumption` (a behaviour is of one of the services there are); `FillAssumption` (there
is a file when the tailer starts); `SettingsAssumption` (values
are numbers, GLOBAL is no strategy); `JournalAssumption` (an edit writes marks into fields of the form);
`RecordAssumption` (a fill of a file has an instrument, an instant and a result; the rounding is one in a
positive number); `StreakAssumption` (a
scenario simulates a length, 0 for none); `EngineAssumption` (the delays are positive, the restricted cap
is no larger than the normal one); `CalendarAssumption` (finitely many events, several of which may be
at one instant; an event stays in the list, `pastGrace`, for longer than it closes Phase 0 and a round trip: 30
minutes in the code, against 15 and a few seconds); `InputsAssumption`, `DesksAssumption` (an input
of the rules is one that gathering the readings can give: a number where the code puts one, absent
without a value); `TicketsAssumption` (the mark for nothing is not a plan nor a ticket of either engine);
`TapeAssumption` (a print that can be read has a price and a size; windows, days and candles are not
empty); `FlowAssumption` (the prints of a tape with one sequence number are one print: the window is of
one run of the source and `_validate_tape` keeps one of each; the sizes of a book are by price; a measure
needs some volume). No cap of a counter is used but as a natural.

**Why the invariants are what they are.**

- `SettingsInv` adds that every preset in the log was saved, and that the last projection holds it as
  saved. What a replay computes is a fold over the log; `ProjectionsExist`, `ProjectionsAreOne` and
  `AppendProjects` show that it has exactly one value, and that one more event is one more step.
- `FillInv` has ten parts, since the tailer's position, its fragment, the lines it has read and the
  captures are four views of one file that is renamed and cut meanwhile. The file is an
  alternation of halves of consecutive lines (`FilesShaped`), the fragment is the half before the offset
  (`BufferShaped`, `Untorn`), the lines that wait end just before the next to be read (`QueueSound`),
  the captured ones before those (`CapturedSound`), with nothing missing in between (`Seamless`) but
  where the tailer repositioned itself or did not notice that the file was truncated; then order, and names
  that differ (`Named`, `InOrder`, `Distinct`). `FillTyped` adds the bounds, among them that the number
  in a name is never ahead of its line, also after a restart (`NumberBehind`).
- `StreakInv`: what is displayed as acknowledged was acknowledged at an audit, of a length that was shown.
- `JournalInv`: what a coroutine holds between two Redis commands is in the log or can be restored: the
  draft that it is about to delete is locked, the session it closes holds all that was posted to the keys
  read so far, and what it has not read yet is still in its key.
- `RecordInv`: each verdict is about a GO or a fill of its own file, and the verdicts of an import
  are the matching at that moment. The greedy matching is one to one by `NearestIsFree` and `RankedMembers`.
- `NewsInv` follows a listing through a fetch: a fetch is never older than its timeout, its text holds
  what was listed before it began, so the cache holds what was listed more than a timeout before its
  stamp, and a cache that may be used is no older than `MaxAge`.
- `AccountInv` orders lines, modification time and poll: the snapshot may be older than the file, never
  younger, and leaves out no valid line older than itself.
- `CalendarInv` says of each of the four places a reading passes (vendor's cache, raw key, the slow
  loop's hands, the schema) that it holds each blocking event listed by all sources before its stamp,
  and only events that some source lists; so an event that the cut to the first ones leaves out gave its
  place to listed events, none of them later, and is `Crowded`;
  `VixInv` that no hand holds a reading longer than the latency and that the schema's age was in bounds
  when it was read.
- `EngineInv`: the state that is handed back and the history agree on approvals, losses, stop, refusals
  and lockout, and what is open or lost is part of what was approved (otherwise a close could wrap a
  counter).
- `EnginesAgree` goes gate by gate and has no invariant: `GatesClose` says which of the eighteen gates of
  the reference close on an input, `RefusalIs` that its answer is the first of them, `SameSize` and `SizeIs`
  that both compute one size, `TheirsIs` and `OursIs` what each engine answers; what is left is that a
  refusal of one is a refusal of the other for each gate.
- `TapeInv`: a window is the last prints of one run of the source up to a number (`WindowsInv`), and
  all that an accumulator holds of that run is at or below the number it read last, which a print of that
  run has (`Counts`): so a window with nothing at or above it is of a source that restarted, and a print
  above it was not counted. `SeenInv` says that the four accumulators read the same prints, and that
  none is missing of a source that did not restart, from a buffer with room for it; `BoundsInv` bounds the
  levels and the two buffers. A fast tick is one of few cases (`Bases`): what each accumulator starts from,
  and what is new to it. Then the views are sums over one and the same tape (`CandlesAddUp`,
  `StrataAddUp`): `SumGrouped` adds up the candles where none was cut;
  and the value area is followed step by step, within the grid (`GridIs`), to the first at which it is
  enough, which the whole grid is (`GridIsEnough`).
- `FlowInv` says only what is on the tape, in the history and in the event. `FlowMeasures` holds of any
  such: two tapes with the same prints are matched position by position (`Moves`, `Same`), a market and
  its mirror too (`Mirrored`, `Opposed`, `Aligned`), and each measure is carried along the matching.
- `SignalsInv`: the desk is a state of the schema, also after readings were lost. The rest is arithmetic,
  one lemma per table, strategy and score.

**Induction.** The library's induction theorems have an operator as a parameter. Where a proof needs one
over data (a fold over the log, the longest run of losses, the greatest element of a finite set, the
rank of an element, the sum over a finite set, what is kept of a sequence), it uses the well-founded minimum of a set (`LeastNatural`, `InductionOverNat`,
`FoldExists`): the set of numbers for which the fact holds, or of the functions that compute the fold, is
a first-order object.

**Model-checked only.** Every safety property of the passing runs, invariant or action property, is a
theorem. What only TLC checks is liveness (`PendingWindowResolves`, `OutcomeGetsItsTurn`,
`EveryAlertEnds`, `LinkRecovers`): fairness and ENABLED are outside what these provers handle. The
statements of section 9 are false of the code: TLC shows it.

---

## 9. Disagreements between the documents and the code

Each is a run that expects a violation; TLC's counterexample shows the schedule.

| Run | A document says | The code |
|---|---|---|
| `desk_go_after_deadline` | PRD.md:132-133, README.md:84: at expiry an automatic NO_GO | `post_decision` does not compare the time with the deadline: until the loop's next iteration a GO is recorded |
| `desk_window_lost` | D-008: one pending window, which ends in a decision or a timeout event | two check-then-set sequences across awaits, and a delete of whatever the key holds: a window disappears without an event |
| `desk_open_without_redis` | D-002: Redis unavailable ⇒ Phase 0 BLOCKED | the exception ends the iteration before the verdict is published: the last one stays |
| `driver_outcome_lost` | `lsr_driver.py`:69-70, :425-426: an outcome is never dropped | a failed write drops it, and nothing retries |
| `ticket_too_old` | D-045 (DECISIONS.md:1966-1967): a ticket on the screen is younger than twice its TTL | the clock offset is measured by `session_identity` when it is handled, after the same queue: a delay common to both is taken for clock drift, and a ticket of any age passes the dead-on-arrival guard |
| `absent_does_not_block` | `phase0.py:3`: any dependency ABSENT ⇒ BLOCKED | without the RMS, `_warn_rms` has no blocker: losing the source opens the desk it had blocked |
| `driver_stale_evaluation` | D-052: never evaluate on a freshness verified before a wait | an evaluation that finds the lock free but with waiters waits, with the instant it read before |

---

## 10. Mutations

Every property of a passing run has a mutated definition, the way a plausible bug would change the
code, under which TLC finds the property violated: a gate that is not checked, a strict comparison
that is not, a delete that is missing, a window that is refreshed, windows managed in LIVE only, a
plan dispatched or a state advanced after a failed write, a lock that is ignored, a snapshot never
pushed that counts as fresh, a ticket cached like a state, a ticket that replaces another, a deadline
left to the frames, a cache that is not invalidated, a draft deleted before it is judged, a fill that
stays available, an age renewed by a failure or by a republication, a tailer that reads past the size it
saw, a limit that excludes itself, an input whose absence counts as calm, a stop forgotten at rollover. They are the operators commented `Mutation:` in the modules, listed
under `mutants` in `PROJECT.json`.

---

## 11. Plan, and what is not modelled

What remains, in order.

| Step | What |
|---|---|
| SSE | the slow channel and the projections of the browser's store |
| Other external modules | instances of `MacroGate` for the fields that Phase 0 does not judge |

**Not modelled, and why.** Data providers, connectors and their catalogue: network input; their cascade
and retries reach the program as a value that comes, comes late or not at all, which `MacroGate` and
`NewsLock` have as choices. Replay and mock sources: they generate test data. AI tasks, n8n and LangGraph
workflows: advisory, no decision depends on them. Analytics (walk-forward, Monte Carlo, Black-Scholes,
rates): floating point. `trade_reconciliator.py`, `recap.py`: reports. The parsers of CSV, log lines and
calendars: which lines they accept is a choice. Browser panels: rendering. Where a component is
`partly` modelled, its note in `PROJECT.json` says what is left out.

---

## 12. How to run it

```
tlc -config MCDeskInterleavings.cfg MCDecisionDesk.tla
tlc -config MCDeskOutages.cfg       MCDecisionDesk.tla
tlc -config MCLsrDriver.cfg         MCLsrDriver.tla
tlc -config MCTicketPath.cfg        MCTicketPath.tla
tlc -config MCServices.cfg          MCServices.tla
tlapm DecisionDeskProofs.tla
tlapm LsrDriverProofs.tla
tlapm TicketPathProofs.tla
tlapm ServicesLemmas.tla
tlapm RecordProofs.tla
tlapm MarketProofs.tla
tlapm TapeProofs.tla
tlapm ServicesProofs.tla
```

The other configurations are the violation runs of section 9; `PROJECT.json` names the module of
each.
