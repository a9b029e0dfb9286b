# Steel Onslaught in TLA+

A verification development for `src/src/steel_onslaught`, the Python package of
the game, and for the part of its browser client that decides which events to
take. It models what depends on the order in which several actors act, on what
fails between two steps, or on long sequences of legal calls: the event bus and
the ledger, the match runtime with its progress gate, a human's turn, the
sessions and the event projection of the browser server, the runner with the
fold it drives, card rounds with their replay validation, decisions taken by
language models, the learning that follows a match, the searches and experiments
that learn offline, and the batteries of matches that run under a watchdog. TLC
checks the modules
on small instances; TLAPS proves their safety properties, all but a clause of one, for
every value of the constants.

Paths below are relative to `src/src/steel_onslaught` unless they start with
`src/`. `PROJECT.json` maps each definition to the lines it models.

## 1. The system

A match is played by one **worker thread** that runs `MatchRunner.run`. Every
thing that happens is an event, published on a synchronous **bus**; subscribers
run inside `publish()` and may publish in turn. One of them, the **fold**,
computes the canonical state, publishes what it derives from it and may refuse an
event; another, the **admission-scoped ledger**, stages events and writes those
that were not refused to SQLite; a third scores the match and sets off the
learning. In browser play an **asyncio loop** serves the command and event
sockets: it admits one match at a time, dispatches START, PAUSE, RESUME and STOP
to the match's **runtime** on pool threads, hands prompts of **human seats** to
the client, projects the bus's events to the browsers and retires the session
when the worker ends. Other seats are played by scripts or by **language
models**, called on the worker's thread.

| Component | State it keeps | Operations | Interacts through |
|---|---|---|---|
| In-process bus (`bus/in_process.py`) | tick, sequence in tick, subscribers | `publish` | synchronous, re-entrant calls; a verdict to the ledger facade |
| Admission-scoped ledger (`ledger/admission_scoped.py`) | staging buffer | `append`, verdicts, flush, merged reads | called by the bus, writes to SQLite |
| SQLite ledger (`ledger/sqlite_ledger.py`) | rows of `events` | one autocommitted insert per event | the facade |
| Fold and reducers (`match/fold.py`, `reducers/`) | canonical `MatchState` | `on_event`, derived events, `ReducerError` | bus |
| Match runner (`match/runner.py`) | tick, latched card round, decks | the tick loop | gate, bus, pilots |
| Match runtime, progress gate (`match/runtime.py`) | status, receipts, pause epochs; open, epoch, boundary | `dispatch`, `run`, `mark_match_ended`, boundary waits | a lock and a condition shared by worker, commands and waiters |
| Human turn (`commands/inbox.py`, `commands/coordinator.py`, `pilots/human.py`) | newest prompt per seat, command records, shutdown flags | prompt, wait, submit, shutdown | two conditions shared by pilot, watchers and submitters |
| Browser gateway (`commands/browser_gateway.py`) | idempotency records | `submit_action`, `dispatch_runtime`, `start_match` | inbox, runtime, session factory |
| Play server: sessions (`cli/play.py`) | session, subscription token, open prompts, watchers | admission, run task, retirement, watchers, command handler | asyncio tasks, the worker, call-soon callbacks |
| Play server: event projection (`cli/play.py`) | tick buffers, quarantine, history, late-replay token | `_on_event`, `_enqueue_event`, status frames, replay | callbacks from the worker's thread; sockets |
| Browser front end (`src/frontend/src/lib`) | accepted events, last sequence, terminal state | ingest a frame, reconnect | sockets |
| Start admission (`commands/authority.py`, `commands/coordinator.py`, `commands/live_provider.py`) | start records, single-use grants | authorise, consume, launch | gateway |
| Model catalog and overlay contracts (`contracts/`) | none; read once, when a server starts | validate sources, merge them into one overlay and roster | play server, start admission |
| Card rounds (`cards/`, `match/card_adapter.py`) | decks, hands, plans, carried plan | deal, program, rules, locks, resolve, commit or cancel | runner, ledger |
| Replay (`replay/`) | none | fold, validate card rounds | ledger |
| LLM decisions (`llm/`) | attempt token, budget, the CLI's result file | request, consume, close, repair, substitute | HTTP, a subprocess, bus |
| Learning (`learning/`), leaderboard | policy of the coordinator, lineage files, evidence, board | judge, record, promote, rehydrate | publish of the terminal; filesystem, ledger |
| Offline learning (`learning/loop.py`, `cli/learn.py`, `cli/experiment.py`) | trajectory, budget; lineage files, evaluation ledgers, artifacts and claims | search, gate, record, publish | duels; directories shared by processes |
| Batteries (`src/scripts/run_*_battery.py`) and their gates | lane of rows, skips, summary | fly a seed, flush, write a row, make up | matches, Kafka, files |
| Battery watchdog (`battery/watchdog.py`) | last observation, notification sent | supervise, notify, chain | a driver process, its lane, elapsed time |

### Where it is hard, and what must hold

* **Bus and ledger.** `publish()` nests, so verdicts arrive innermost first while
  rows must be inserted outermost first. A handler's exception is a refusal only
  when it is the fold's own. An insert may raise between two rows. *Must hold*: a
  refused event is never a row; rows are inserted in canonical order; only a
  refusal erases; nothing is left in the buffer; ENDED has its MATCH_ENDED.
* **Runtime and gate.** Commands carry the revision they observed and are retried;
  the gate is operated while the worker is between two checkpoints; the worker can
  raise while a successor is started. *Must hold*: a command is settled once; the
  status is true of the worker; STOP ends the match; no waiter is left behind.
* **Human turn.** Two locks, two shutdowns in sequence, a prompt that reaches the
  inbox before the coordinator, actions duplicated or late. *Must hold*: one
  verdict per request; what was accepted is played; an undecided prompt is offered
  to every client that connects; a close releases every thread.
* **Sessions.** State is forgotten before an `await` and used after it; the frame
  that would let a tick complete waits behind a handler that awaits that tick.
  *Must hold*: one match at a time; it is served, and retired whatever its end.
* **Catalogs.** Overlays and rosters that were written apart are merged by name; the
  result is what authority and composition go by. *Must hold*: the merged roster is
  closed; an option is played by the provider and pilot its own source declares.
* **Event projection.** Calls queued from nested publishes arrive outermost last;
  status frames are read late and share sequences with events; connections break
  behind any frame. *Must hold*: what a browser's transport is sent it can take,
  without gap, and it learns the end.
* **Runner and fold.** The fold applies a tick at once and publishes its
  consequences as events that are folded again; deaths, points and clocks may
  declare the same end; a paced round spans ticks. *Must hold*: restatements add
  nothing; one true terminal; each round is closed once; every match ends.
* **Card rounds.** Locks carry plans forward over rounds, rules rewrite plans one
  after the other, a shared deck runs dry between two hands. *Must hold*: no round
  raises; rules deliver; replay accepts what was played.
* **LLM decisions.** An attempt owes the ledger one terminal, whoever raises;
  repairs swallow some errors and not others; a crashed CLI leaves an old result.
  *Must hold*: the evidence, and the end of the match, say what happened.
* **Learning.** A promotion is three writes; processes share the files; all of it
  runs inside the publish of the terminal. *Must hold*: what is fielded is durable
  and earned; the chain resolves; a failure costs the match nothing.

* **Offline learning.** A climb compares its points with each other but is judged
  against its parent, on one budget; batteries are retried or given up; artifacts
  are published in two steps into directories that other processes read. *Must
  hold*: the gate judges what was earned; a claim names a whole artifact.
* **Batteries.** A match may die anywhere, delivery reports come late into a shared
  producer, a makeup run overwrites the summary; the watchdog sees rows and an exit
  code only. *Must hold*: a row is evidence; COMPLETED is clean; a phase is what it
  is called; every battery is reported.

`PROJECT.json` lists the hazards one by one, each at its line, with the properties
that would catch it.

## 2. Modules

```
CanonicalLog          abstract: what the event ledger promises
  ^ implemented by
EventAdmission        bus + fold as admission subscriber + facade + events table
  ^ extended by
TerminalEvidence      + the MATCH_ENDED subscriber that marks the runtime ENDED

MatchRuntime          runtime, gate, workers, boundary waiters, mark_match_ended
HumanTurn             pilot, coordinator, inbox, gateway, watchers, connection
MatchLaunch           from a start request to a stack, as operators
  ^ extended by
ModelCatalog          sources merged into the roster and overlay of a server, as operators
  ^ extended by
BrowserSession        admission, run task, retirement, watchers, command handler

MatchTransport        the front end's ingest of one frame, as operators
  ^ extended by
EventProjection       worker's publishes, loop's buffers, status frames, browsers

MatchFold             the fold's reaction to one event, as operators
  ^ extended by
MatchRunner           the tick loop and the nested publishes, in three cadences

CardRound             deal, program, rules, resolve, commit; the replay validator
LlmDecision           attempts, providers, repairs, failure policies
LiveLearning          composition, terminal, judgement, lineage, promotion, crashes

LearnSearch           lattice, battery results, sign test, promotion rules, as operators
  ^ extended by
OfflineLearning       search strategies, the gate, experiments, publication, crashes

BatteryLane           rows, skips and summary of a lane; the contamination gate
  ^ extended by
EvidenceBattery       the drivers that fly one seed after the other
  ^ extended by
AdaptationBattery     baseline, promotion and post phases over one lane
  ^ extended by
BatteryWatch          the watchdog over all of them, launched more than once

EventLog_proofs       of EventAdmission and TerminalEvidence, and of MatchRuntime
SeatPlay_proofs       of HumanTurn, and of CardRound
BatteryWatch_proofs   of BatteryWatch and the drivers and gate it extends
MatchEdges_proofs     of LlmDecision, and of EventProjection with its transport
BrowserSession_proofs MatchRunner_proofs
LiveLearning_proofs   OfflineLearning_proofs
```

The `MC*` modules instantiate them for TLC. An operator whose comment starts with
*Mutant* is not part of the model: it is the neighbouring definition with a
plausible bug, kept to show that the properties would notice.

How the modules divide the system: each one keeps in full the state its
properties are about and replaces its neighbours by what they promise.
`EventAdmission` knows that the fold may refuse and publish, not why;
`MatchRunner` knows what it derives and that a `publish` may raise, not how rows
are written; `EventProjection` sees the runtime as a status, a revision and a
gate; `BrowserSession` sees a human turn as a prompt sent and an action that
arrives; `LlmDecision` and `LiveLearning` take from `EventAdmission` that a
subscriber may raise out of a publish and that rows are inserted when the
outermost one returns.

### EventAdmission, TerminalEvidence, CanonicalLog

| Model | Code |
|---|---|
| `stack` of frames `[ev, pos, refused, raised, flushed]` | the `publish()` calls in progress; `pos` is the subscriber it has reached, `Verdict` or `Flush` |
| `Stamp`, `PublishRoot`, `PublishNested` | `publish` up to its dispatch loop: tick and sequence assignment |
| `Stage` | the facade's `on_event`/`append`, always the first subscriber |
| `HandlerReturns`, `HandlerRaises`, `FoldRefuses` | one turn of the dispatch loop |
| `Refuse` | `on_event_refused` and the end of `publish` |
| `Admit`, `FlushRow`, `FlushFails`, `FlushDone` | `on_event_admitted`, its flush loop insert by insert, the trim and the end of `publish` |
| `Return(raised)` | an `ExceptionGroup` leaving a nested `publish` aborts the calling handler; out of the outermost one it ends the runner (`halted`), or a pilot swallows it (`caught`) |

The evidence of an LLM completion is published by the pilot, outside any other
`publish` (`match/composition.py:2335`). An error of that publish ends in an `except
Exception` of the repair loop (`llm/programming.py:757`, `llm/pilot.py:383`) or of the
per-turn fallback (`llm/pilot.py:324`), and the runner publishes on over whatever a
failed flush has left in the buffer: `PublishRoot` chooses whose publish it is.

Every row is a step because every insert commits on its own. The subscriber list is
fixed at composition, so `Downstream`, the number of subscribers behind the fold,
is a constant. `TerminalEvidence` adds the last subscriber, which asks the facade's
merged read for MATCH_ENDED before it commits ENDED. `CanonicalLog` is the promise:
an event is open, a row, or withdrawn; the log grows by its oldest open event; a
withdrawal takes an event and everything younger that is open. In it the order of
inserts is an obligation: a flush that wrote a younger event first is no `Write`.

### MatchRuntime

| Model | Code |
|---|---|
| `held` | the runtime lock and the operation inside it, from `Begin*` to `Commit` |
| `BeginStart/Pause/Resume/Stop`, `Commit` | `dispatch` → `_apply_*`: gate operation, then receipt and status |
| `Redeliver` | the receipt branch of `dispatch` |
| `GateStart/Pause/Resume/Stop` | the gate's methods, one step each under its condition |
| `Run`, `AtCheckpoint`, `Block`, `Pass`, `Halt`, `TickContinues`, `PublishEnded` | `run` and the runner's loop as the gate sees it |
| `MarkCommits`, `MarkStopsGate`, `MarkDeclined` | `mark_match_ended` on the worker's thread |
| `WorkerRaises`, `FailStopsGate`, `FailCommits` | the `except` of `run` |
| `WaitForBoundary`, `BoundaryReached`, `BoundaryRefused` | `wait_until_boundary` / `wait_until_blocked` |

A thread in `Condition.wait()` leaves it only after a `notify_all`, kept as a
`woken` flag per thread: a lost notification is a behaviour of the model.

### HumanTurn, MatchLaunch, ModelCatalog and BrowserSession

`HumanTurn`: the pilot's thread (`PilotStep`), one prompt watcher per seat
(`WatcherStep`), the client with a set of requests in flight that may arrive in any
order and any number of times (`Send`, `Submit`), the connection (`Connect`,
`Disconnect`, `Forget`) and the two-step close, from the loop or from a subscriber
on the worker's own thread (`CloseFromLoop`, `CloseFromWorker`, `CloseStep`). Once the
worker has ended, `Retire` forgets the session with its gateway: from then on every
action is refused (`cli/play.py:1013`), one that had been accepted too.

`BrowserSession`: coroutines are atomic between awaits, so an action is the stretch
between two of them (`Read*`, `PauseAnswered`, `RunTaskDone`, `RetireSession`,
`RetireDone`, `Watcher*`), beside the worker's steps.

`MatchLaunch` is what one call of the session factory decides, since nothing comes
between its steps. A deployment is what the server was started with (overlay,
roster, session, capabilities) and the requests it will get; `Stage` says how far a
launch comes:

| Model | Code |
|---|---|
| `Admissible`: `Known`, `RosterHolds`, `Together`, `Authorised` | `session_factory`, `validate_player_roster_against_overlay`, the authority |
| `Injected`, `Redeems`, `Paid`, `SpentAfter` | live grants: wanted once per identity, looked up together, spent one after the other |
| `Openable`: `ContractsHold`, `SecretsHold`, `PromptsHold`, `TransportHolds` | what is read before an adapter is opened |
| `Composed`: `PilotsHold`, `PacksHold`, `IncentiveHolds`, `LearningHolds`, `ProgrammersHold`, `CadenceHolds` | the rest of `build_runtime_dependencies` |
| `Assembled`: loadouts, clients, `LearnerSits` | `assemble_match_with_dependencies` |
| `OwnsClient`, `Opens`, `Closing` | the HTTP client and the `except` clauses that close it |

| `OverlayHolds`, `CardsHold`, `LaneHolds` in `LaunchAssumption` | what the bindings of an overlay ask of each other, which every deployment has passed |

A server that is started with a catalog goes by what `ModelCatalog` makes of it:

| Model | Code |
|---|---|
| `SourceHolds` | `model_catalog_source_from_roster`: a source's roster is closed and holds against its own overlay |
| `NamesHold`, `CatalogHolds`, `DefaultsDiffer` | the contract of `ModelSOModelCatalog` |
| `Policy`, `Names`, `CatalogOptions` | `build_model_catalog`: a seat that lists no options has all |
| `Agree`, `Merged`, `MergesHold` | `load_model_catalog_runtime_overlay`, `load_model_catalog_loadouts`: two definitions of a name are the same or the server does not start |
| `DeclaredLoadout`, `FlownBy`, `Served` | `to_roster_binding` and the loadout a seat then flies |
| `Startable`, `Servers` | `_configured_browser_server` |
| `FactoryHolds` in `MatchLaunch` | a catalog's live launch composes by the application factory, which has ports of its own only where grants are per start |

Digests and display names are left out: they are computed from the rest. So is the
provenance of a pairing or a selection, which only tests ask for.

`Launch` in `BrowserSession` applies a launch: the grants are spent whatever becomes of the
launch, and a fault may end a launch that would be served at any later stage.

### MatchTransport and EventProjection

| Model | Code |
|---|---|
| `worker.stack`, `MarkEnded`, `OnEvent` | the bus's events and `_on_event` for each, the nested ones first |
| `calls`, `RunCall` | `call_soon_threadsafe` and the loop's ready queue |
| `Hold`, `Flush`, `EnqueueStarted/Status/Ended/Event` | `_enqueue_event`: tick buffers, quarantine, the frames around MATCH_STARTED and MATCH_ENDED |
| `RuntimeSequence` | `_runtime_sequence`, the sequence given to a status frame |
| `Pause`, `PauseBoundary`, `Resume`, `ResumeStatus`, `Stop` | the command handler up to and behind its awaits |
| `Send`, `Receive` | a batch to every connection; each may break behind any frame |
| `Connect`, `LateReplay`, `ReplayBreaks`, `LateReplayFails`, `Disconnect` | a connection to the event socket and the replay it gets |
| `Ingest`, `Acceptable`, `StatusFollows`, `StatusSettled`, `AfterTerminal`, `Before` | `transport.ts`: which frame is taken, repeated or refused |
| `Retire`, `RunTaskDone`, `AdmissionRefused` | what clears or fails a projection |

A frame that `connection.send` has taken counts as received: `LateReplay` gives the
prefix up then (`cli/play.py:692-702`), and so does the code. A frame lost in the socket
afterwards is seen by neither.

Event ids are random in the code: `StatusIds` says how the ids of status frames
compare with those of the bus (`BusId`), `TerminalId` is the all-zero one.

### MatchFold and MatchRunner

`MatchFold` is pure: `Delta(match, e)` is the fold's reaction to one event, the new
state and the events derived from it, or a refusal. Its automata are the code's:
heat and the redline ladder (`Ladder`), ruptures and their blast, which may rupture
the next one (`Rupture`, `Blasted`), flags and points (`Score`), the terminals and
who declares them (`CascadeTerminal`, `DeathTerminal`, `ClockEnds`), mode switches,
movement, boiler costs. Every number is small and given by `Rules`.

`MatchRunner` drives it. `agenda` holds the events still to be published, the next
one first, so its order is the ledger's order; the runner reads the fold only when
it is empty. `cadence` is one intent per mech, an atomic card round per tick, or a
round paced over one tick per register; `Close` is the end of `run`, with the
restatement of MATCH_ENDED; `Raise`, `Stopped` and `PilotGivesUp` are what others
do to it.

### CardRound

`StartRound`, `DealHand`, `Program`, `Resolve`, `Advance`, `Finish` and `Cancel` are
the phases of a round over a shared or split decks; `Ruled` applies the selected
rules one after the other; `Carried` is the plan a heat lock repeats. `Refusals` is
`replay/card_round.py` as a set of the reasons it would give. Hands and piles are
bags: a shuffled pile tells nothing but what is in it, so a deal is a choice. A card's
`effect` is what its category's own field says (direction, weapon slot, target mode); a
pilot's wish is a category, or the attacks or mode switches with one effect (`Wishes`). What
Python sorts by a key, `Sorted` lists by an order on the elements. A single deck is
refused when it cannot fill a hand (`contracts/deck.py:57`); the quota of a split pile
is compared with its deck nowhere, so such an overlay starts a match whose first deal
raises (`match/card_adapter.py:516`), and the overlay `ShortPile` is one.

### LlmDecision

A ladder: `Request` (the token), the provider (`Http*`, `Cli*`), `Consume` (the
parser), `Exit`/`Close` (the one terminal), then `Accepted`, `BoundaryHit`,
`Substituted`, `Reprompt`, `Exhausted` or `Crashed`, for card programmers and
per-tick pilots alike. `did` records what the provider really did and is read by
properties only. `disk` is the result file that all runs of the CLI share.

### LiveLearning

Processes compose matches over one set of files (`Compose`, `Rehydrated`), play
them (`Start`, `End`), and run the subscribers of the terminal (`Score`, `Rank`,
`Witness`, `Judge`, `CreateRecord`, `WriteRecord`, `Field`) before the rows are
inserted one by one (`Insert`, `Return`, `Close`). `Crash` may happen anywhere; any
of the writes may fail; `met`, `trouble` and `finished` are history.

### LearnSearch and OfflineLearning

| Model | Code |
|---|---|
| `Grid`, `Neighbours`, `Distance`, `SignTest`, `SelectBest`, `Reasons` | `search.py`, `stats.py`, `_select_best`, `evaluate_promotion` |
| `ResultOf`, `AggregatePair`, `Left` | a battery of side-swapped duels, retried, and what it leaves in its ledgers |
| `TrialRefused`, `BeginTrial` | the context of an arm and the tuner's proposals, before the loop runs |
| `Enumerate`, `Enumerated`, `ClimbEvaluate`, `ClimbMove`, `ClimbStays`, `ClimbRebase`, `Gate` | `run_learning_loop`, one evaluation a step |
| `CreateRecord`, `FindRecord`, `WriteRecord` | `write_lineage_record` |
| `WriteContent`, `ClaimIdentity`, `ClaimRefused` | the two steps of publishing usage, summary and rows |
| `BatteryFails`, `Crash` | `DuelBatteryError`, and the death of a process |

A candidate is a point of a lattice of one numeric and one categorical parameter. A
proposal of a tuner is marked `snapped` when it hashes apart from the lattice's own
point: it leaves `_snap_to_lattice` as a float that was never rounded. Where that float
comes out equal, or the name was omitted, it is the lattice's point. A p-value is a
fraction, computed exactly.
A trial number and an arm make a run, so each arm has one trial (K = 1).

### BatteryLane, EvidenceBattery, AdaptationBattery, BatteryWatch

| Model | Code |
|---|---|
| `Casualty`, `Flush`, the row and skip writes | one seed of `run_ogate_objectives_battery.py` and `run_display_salience_battery.py` |
| `Cap`, `EndBaseline`, `EndPromote`, `EndPost` | the phases of `run_lgate2_adaptation_battery.py` and their assertions |
| `GateClean` | `check_contamination_gate.py` over rows, skips and kept summaries |
| `Launch`, `FirstCount`, `Progress`, `Quiet`, `Stall` | `battery_watch_command` and `_supervise`, one poll a step |
| `Verdict`, `Notify`, `Conclude` | `_exited_outcome`, the channels, chaining and the exit code |

Seeds are numbered from `SeedBase` on; a phase keeps the matches its rows are of
(`phaseRows`). The exit codes `exit1` to `exit3` are those a driver's `main()`
returns; a driver that dies of an uncaught exception also exits with 1 but accounts
for nothing, and is `killed` here (`Dies`), for the watchdog as for the gate. The
stall deadline is a number of polls without a new row. `honest` says whether the
operator has followed the runbooks (let a driver end, save its summary, fly only
missing seeds), since the gate promises nothing otherwise.

## 3. Runs

| Run | Question | Bounds | Distinct states |
|---|---|---|---|
| `admission` | what reaches the table, in which order; ENDED and its evidence; does the facade implement `CanonicalLog` | 5 events, 2 subscribers behind the fold | 899k |
| `runtime` | commands, gate, boundaries, successors; who is left waiting | 3 command ids, 2 workers, 2 ticks, 1 successor | 64k |
| `turn` | verdicts, plays, prompts; who is left waiting | 2 seats, 2 command ids, 2 actions, 2 ticks, 2 requests | 490k |
| `session` | one match at a time and entitled, retirement, PAUSE answered | 2 matches, 2 frames ahead, 35 deployments, faults in 2 of them | 320k |
| `projection` | what a browser is sent, refuses, finds late and learns | 2 ticks, 5 bus events, 1 browser that may return | 470k |
| `match` | what the fold derives and how a match ends | 2 mechs, 3 cells, 3 ticks, 2 registers, all cadences | 522k |
| `cards` | rounds, rules, locks, replay | 2 seats, 5 cards, 5 overlays, unbounded rounds | 582k |
| `llm` | evidence, ends, plans, termination | 2 seats, 2 providers, 2 repairs, 2 ticks, 1 raising subscriber | 249k |
| `learning` | the chain, what is fielded, what failures cost | 2 processes, 3 matches, 1 fault | 1.59M |
| `battery` | what a report, a row and a phase are worth; is every battery reported | 2 seeds, 4 drivers, 2 launches, 2 polls to a stall | 1.80M |
| `offline` | what the gate judges, what is published | 2 processes, 6 points, 2 search seeds and 1 hidden one, 7 plans | 157k |
| `session_served` (violation) | is every admitted match served? | 2 matches | |

Why these bounds suffice to be interesting:

* *admission*: five events allow a refused event between admitted siblings, two
  levels of nesting, and further outermost publishes over what the failed insert of a
  pilot's publish has left in the buffer; with two subscribers behind the fold one may
  raise and a later one still run or publish.
* *runtime*: a START and two commands that compete for the next revision need three
  ids; two workers give a double `run` and an old worker beside its successor's;
  two ticks tell the boundary of a pause from the next one.
* *turn*: two seats make simultaneous prompts; two ids give a first answer and a
  retry with other content or a competitor; a second tick makes requests late, and the
  retirement finds accepted ones still in flight.
* *session*: a start, a second one during the first one's retirement, and a frame
  queued behind a handler that awaits; six deployments that serve (packaged, one
  between programs, live with grants per start, live with fixed grants, a catalog of
  two sources, a catalog for mirror matches), one for each way a launch is refused, and
  one for each way a catalog does not start. Adapters fail in the second, which has to
  close a client of its own, and in the fourth, where a failure costs a grant.
* *projection*: MATCH_STARTED, a tick with nested events, a second tick or the end,
  with a status in any gap. Two wider instances were checked once and pass: two
  browsers with 4 events (762k states), and both orders of status ids with 5
  (1.52M).
* *match*: three ticks and two registers put the end in the middle of a paced round
  and behind it; hit points, bounty, victory line, blast and cap are small enough for
  deaths, points, clock and guard to fall into one tick.
* *cards*: rounds have no bound; the states repeat.
* *llm*: two repairs are a question, a first and a last repair; two ticks let an
  exhausted budget or an old result file meet a later attempt.
* *learning*: three matches let a promotion be flown with, and extended, across a
  crash, and two processes overlap; the processes are interchangeable (symmetry;
  only invariants are checked in that run).
* *battery*: two seeds let reports of one arrive during the other, and a makeup run
  fly the second; two launches give a lane with rows, skips and a summary of before.
* *offline*: a budget of six evaluations lets a climb move, move back to its parent or
  on, and end for want of budget; two search seeds make every sign of a result, and with
  the significance threshold at 1/2 one decisive seed is too few; a plan names the
  commands that run, alone or beside each other.

Deadlock is checked in `match` and `llm`, where every thread's end is a step of the
model. In the other modules a match ends and the bounds stop the environment.

### Fairness

Weak fairness of the steps of threads and tasks that are running: a worker, a
woken waiter, a dispatch that holds the lock, a watcher, a begun close, the loop's
callbacks. The interpreter schedules threads and the loop runs its ready queue.
In `LlmDecision` the next step of the one thread is fair, because every call it
makes returns: posts and subprocesses have timeouts; the same holds of a process of
`OfflineLearning`. In `BatteryWatch` only the watchdog is fair, of the driver nothing
is assumed. No fairness is assumed for
clients, for raising, for failing inserts or crashes, or for PAUSE and STOP; the
exception is `SendAction` in `BrowserSession`, the player who answers a prompt that
was sent, without whom no human match ends.

### Disagreements between the code and what it says of itself

**`session_served`.** A failed admission keeps its subscription token, so the next
match's bus is never subscribed to; and a match admitted while its predecessor
awaits its cancelled watchers gets no watcher.

Seen while modelling, without a run of their own:

* The terminal status frame takes the sequence of MATCH_ENDED and an all-zero id, so
  that it "sorts immediately before the terminal envelope". A status sent at the same
  boundary (that of the PAUSE, or the first one at tick 0) may have that sequence
  already. A STOP there makes the browser's transport refuse the terminal status, and
  then MATCH_ENDED (`OnlyStopRefused` carves this case out).
* A heat-locked register repeats a card of an earlier hand; the replay validator
  refuses it as absent from the hand (the one exception of `OnlyRepeatsRefused`).
  With registers enabled the live match runs the same validator before it is scored.
* A STOP in the middle of a paced round publishes MATCH_ENDED before the round's
  discards; `OneTerminal` states it as the one exception to "nothing is emitted after".
* A PAUSE while a human's prompt is open: the handler awaits the boundary and the
  action waits unread behind it. `PauseIsAnswered` carves this case out.
* The first status may be read late (the worker has failed, or a PAUSE was
  dispatched, before the loop runs MATCH_STARTED's callback); the transport then
  refuses statuses until one of a running match at tick 0 comes, which is the
  second disjunct of `OnlyStopRefused`.
* A browser that reconnects after the retirement finds an empty history and never
  learns the end; `EndReachesBrowser` speaks of a connection that holds.
* `run()` raises outside its `try` when a PAUSE is admitted before the thread enters
  it (`cli/play.py:1092` expects otherwise); the session is retired all the same
  (`AdmittedRetires`). An old worker can fail its successor (`match/runtime.py:285`),
  which needs the injected successor factory that only tests use: that part of
  `StatusIsTrue` is stated for the first match.
* The facade keeps rows in its buffer after a failed insert; ENDED is set before the
  row that proves it (`EndedIsDurableAtRest` speaks of rest); an insert that fails under
  the evidence of an LLM completion is swallowed with the completion, and what it leaves
  behind is written by the next flush, or makes that fail too if a row of it was
  written before (`NothingStranded` says that the loss ends there or ends the match);
  the flush's docstring
  speaks of a whole tick (`ledger/admission_scoped.py:79`), rows are inserted one by
  one.
* A rupture by heat is unreachable while `heat_vent_rate` is positive
  (`reducers/failure.py:14` says otherwise).
* Two processes whose matches overlap both promote the same generation, and the
  chain never resolves again. The coordinator's `stale` branch cannot see it, since
  every match composes a coordinator of its own. A failed evaluation or lineage
  write is documented as retryable, but the match is marked processed. A torn
  lineage file makes every later load raise. Leaderboard row and evidence are written
  before the events, so a crash may leave them without a durable score.
* In the repair loop an unclassified error is swallowed (`llm/programming.py`), so
  "answered every time" (`llm/schemas.py:281`) is not what the semantic failure
  proves; the same error in a first attempt ends the match FAILED without
  MATCH_ENDED.
* `battery-watch` counts the rows before a driver launched with `--fresh` has wiped the
  lane: over a lane with R old rows the first R new ones never count as progress, and a
  healthy relaunch is stopped as STALLED.
* A retried duel's match id (`…cand_red.retry1`) makes `_parent_side` raise, so once a
  retry was scored every later context arm aborts its experiment; the empty ledger of a
  duel whose process died does the same, and a lineage record torn by a crash.
* A tuner's usage record holds the time of its command: an experiment that is run again
  is refused by its first usage claim, after the evaluations and the lineage record,
  with an `OSError` that no command handles. `DuelBatteryError` leaves them as a
  traceback too, and rows and summary of the trials before are lost.
* `so learn --strategy external` hands its tuner no artifacts: a context arm can never
  work there. The packaged overlays put `evaluation_storage.root` beside
  `learning_artifacts.evaluation_root`, where the replay-trace and decision-diff arms
  never look (`Beneath` is what those arms need).
* A stub-only or human launch on a server with live providers enabled raises
  (`match/composition.py:2570`): `session_factory` passes the factory without a
  capability. A live launch beside a stub seat raises too, since the selected runtime
  has no client for the stub (`TransportHolds` and `Assembled`), and so does one whose
  only live seats delegate, for the HTTP transport that nobody needs; both after
  their grants were spent.
* A grant is spent before the launch can fail: a mirror pairing is refused after it
  has paid, and a fixed grant is gone when the launch is retried. What
  `max_completions` bounds is launches (`commands/live_provider.py:54` calls it a match
  budget); completions are bounded by a constant in `match/composition.py:1559`.
* A comment in `build_model_catalog` says that an index that spells its own per-option
  loadouts out "stays authoritative" (`contracts/model_catalog.py`, where it fills the
  seats in); `to_roster_binding` replaces them by the sources' loadouts in every case.
* A catalog in `mirror_match_mode` may start its seats with one decision-maker twice;
  each such launch between models is refused later, by `validate_seat_programmer_identity`
  (`SeatsDiffer`). The merged overlay is not validated again as an overlay, so a keyed
  provider of a source may stand in one without a resolver: the launch is refused
  (`SecretsHold`).
* A learning seat played by a human beside a programmed one makes every launch raise
  (`LearnerSits`).

## 4. Proofs

| Module | Theorem | Property |
|---|---|---|
| `EventLog_proofs` | `Typing` | types |
| | `RejectedNeverRow` | `NoRejectedRow`, a part of `RowsAreCanonical` |
| | `CausesAreRows` | the publishing event of a row is an earlier row |
| | `InsertionIsCanonical` | `InsertedInCanonicalOrder`, the other part |
| | `RowsAlwaysCanonical` | `RowsAreCanonical` |
| | `Implements` | `ImplementsLog`, the refinement of `CanonicalLog` |
| | `HandlersReadEverything` | a handler finds every event not dropped |
| | `LossesAreLoud`, `EverythingIsDurable` | what an outermost call may lose, and that a normal return to the runner lost nothing |
| | `NothingIsStranded` | `NothingStranded` |
| | `OnlyTheFoldErases` | `OnlyRejectionDrops` |
| | `EndedIsDurable` | `EndedIsDurableAtRest` of `TerminalEvidence` |
| | `EvidenceKeepsLog` | `ImplementsLog` again, of `TerminalEvidence` |
| | `CommandsSettleOnce` | `SettledOnce` |
| | `StatusAlwaysTrue` | `StatusIsTrue` |
| `SeatPlay_proofs` | `AcceptedIsPlayed` | `PlayedAsAnswered` |
| | `VerdictIsFinal` | `OneVerdict` |
| | `PromptsKept` | `PromptKeptUntilDecided` |
| | `RoundsAlwaysHold` | `RoundsHold` |
| | `RulesAlwaysDeliver` | `RulesDeliver` |
| | `OnlyRepeatsAlwaysRefused` | `OnlyRepeatsRefused` |
| `BrowserSession_proofs` | `CatalogServes` | `AsDeclared`, a part of `OneMatchHoldsAll`, of every server that starts; its roster is closed and holds |
| | `OneMatch` | `OneMatchHoldsAll` |
| `MatchRunner_proofs` | `OneTerminalHolds` | `OneTerminal` |
| | `RoundsAreClosedHolds` | `RoundsAreClosed` |
| | `ResultIsTrueHolds` | `ResultIsTrue` |
| | `RestatementsAgreeHold` | `RestatementsAgree` |
| `MatchEdges_proofs` | `EvidenceAlwaysTrue` | `EvidenceIsTrue` |
| | `EndsTrue` | `EndsByWhatHappened` |
| | `PlansAlwaysEarned` | `PlansAreEarned` |
| | `RefusesOnlyStopped` | `OnlyStopRefused` |
| | `NothingIsMissed` | `NothingMissed`: `Gapless` and `UnseenIsReplayedWhole` |
| `LiveLearning_proofs` | `Earning` | `PromotionsAreEarned` |
| | `Fielding` | `FieldedIsDurable` |
| | `ChainBreaks` | `ChainBreaksOnlyByOverlap` |
| | `Containment` | `FailuresAreContained` |
| `OfflineLearning_proofs` | `VerdictsAlwaysEarned` | `VerdictsAreEarned` |
| | `SummariesAlwaysBacked` | `ClaimsNameFiles`, `SummariesAreBacked` of `PublicationsAreWhole` |
| | `NothingIsReplaced` | `NothingReplaced` of `PublicationsAreWhole` |
| `BatteryWatch_proofs` | `RowsAlwaysEvidence` | `RowsAreEvidence` |
| | `SeedsAlwaysAccounted` | `SeedsAccountedFor`, a part of `ReportsAreTrue` |
| | `ReportsAlwaysTrue` | `ReportsAreTrue` |
| | `BeforeAfterAlwaysPure` | `BeforeAfterIsPure` |

The only assumptions are those the modules declare of their constants
(`AdmissionAssumption`, `RuntimeAssumption`, `HumanTurnAssumption`, `CardAssumption`,
`LaunchAssumption`, `BrowserAssumption`, `FoldAssumption`, `RunnerAssumption`,
`LlmAssumption`, `ProjectionAssumption`, `LearningAssumption`, `NoneAssumption`,
`SearchAssumption`, `OfflineAssumption`, `SeedsAssumption`, `RecheckAssumption`,
`AdaptationAssumption`, `WatchAssumption`): numbers are numbers, functions have their
domains, a single deck can fill a hand, `None` is no other value. Each inductive
invariant is a conjunction of named parts, and a theorem of its own; one lemma per
operation shows that it keeps them. TLC found each to hold on the run's instance before
it was proved.

**Bus and ledger.** The invariant grows in four layers, each proved from the ones
before. *Admission*: `NoRejectedRow` is not inductive, a row might be of an event
whose fold handler has yet to run. `StackShape`, `StagedShape`, `InProgressStaged`
order the calls and the buffer; `RejectedRefused` keeps the call of a rejected event
from the flush; `AdmittedClean` and `DurableClean` say that an admitted entry, or a
row, is beyond the reach of its fold handler. *Ordering*: `StagedAfterRows`, an entry
that is not a row is younger than every row, is what still holds when a failed
insert skipped the trim; with `StampsAscend` rows ascend by tick and sequence.
*Accounted*: every event is a row, dropped, buffered or about to be staged; from it
a flush writes the *oldest* open event and a refusal removes *exactly* the open ones
from the refused one on, so `StepImplements` maps `Stamp` to `Open`, `FlushRow` to
`Write`, `Refuse` to `Withdraw` and all else to a stutter. *Settlement*: without a
failed insert the buffer holds only what the outermost call published, and an entry
without a verdict belongs to a call that will give it one. `LossesAreLoud` follows the
outermost call: an event of its own is dropped, or left in the buffer, only with an
error among its calls, and when that has left it the runner is gone or the call was a
pilot's. What a swallowed failure leaves stands in front of the buffer: the next
flush writes it first, or fails on a key that is taken. So when a publish of the runner
returns normally every event of it is a row (`EverythingIsDurable`, the step property of the bus as
the runner sees it), and `EndedIsDurable` follows for MATCH_ENDED, which no pilot's
publish derives.

**Match runtime.** A receipt is found under the lock and written under it, with an
await between: `HeldFresh` and `HeldFound` say what the holder of the lock knows of
its id until then, `OneEach` that each settled id has one receipt, and that the
revisions of accepted ones are those below the present one. For `StatusIsTrue`,
`Announced` and `Finished` make whoever ticks the worker of the present match, and
`BoundaryHeld` with `Told` carry a pause from the request to the boundary where the
worker waits and the watchers are told.

**Human turn.** `OneVerdict` compares two answers to one request at different times.
`Settled` names why a refusal stays: the id is taken, the inbox is shut, the seat's
prompt has gone past the turn or does not offer the action, or the turn is decided. It
is stable because prompts only go forward (`Pace`) and a client cannot speak of a turn
that was not shown (`Follows`). A retired session refuses everything, so its answers
are kept apart (`live`), and the theorem is about the others. That a watcher passes
over no open prompt (`FoundIsNext`) needs `Decided`, the pilot goes past no turn
without its decision, and `Delivered`: while the session is open, whoever decided had
the prompt from the watcher.

**Card rounds.** Most of the proof is about operators, for every input. `Sorted` lists
each element of a finite set once, in the order given (`SortedLists`); `Replace` swaps
cards of a plan for spare ones and never spends a copy twice, so each rule leaves a
legal plan legal (`RuledFits`); a deal accounts for every card of its deck and is as
large as asked and possible (`DealIs`); `AllRows` has each seat once in each register,
in blocks (`AllRowsRight`); `Carried` finds for each register the one row it comes from
(`CarriedIs`). The invariant then says that piles are whole (`CardsKept`), plans are
what the rules left (`PlansFit`), whole registers are published (`RoundPublished`), a
hand was full if it was dealt (`Filled`), and, the one part that spans rounds, that
what a locked register may have to repeat was shown by a row of the last committed
round (`Remembered`): without it `LocksRepeatWhatWasResolved` would not be inductive,
since a depth may rise in any later round. The library's induction rules cannot be
used here (they take a predicate); where an argument runs along a sequence or a number,
it takes the least element of the set of counterexamples instead (`LeastNumber`), which
needs only that the naturals are well founded.

**Browser session.** At each await of start and retirement something of the previous
match may still be there. `Held` says who: a worker not yet reaped is the session's, a
retirement is scheduled only once it was reaped, and the worker of an open prompt is
asking for it, unless the session is closed, when its answer is refused. `Clean` ties
the client to the session. `Earned` carries what a launch was checked for (invited
humans, spent grants, two decision-makers) to the matches on record: budgets only fill
up, and a deployment never changes. The fourth part of *entitled* is not about the
session at all: `CatalogServes` shows that a merge of definitions that agree loses
none of them, and that a name of the catalog, which stands for one option of one
source, leads back to that option, so its provider, configuration and pilot are the
source's. From there a launch has no choice.

**Match runner.** An event waits on the agenda while the ones before it change the
match it was resolved against. `IInv` says in which order things wait: a tick alone
(`TicksWait`), a move or a switch right behind its intent (`IntentsWait`), one
terminal at most, which agrees with a match already ended (`EndsWait`), and no death
in front of it that the match does not know of (`DeathsWait`; *doomed* is a mech
whose own destruction waits further back). The rounds have a `Ledger`: opened minus
closed is one exactly while a round is owed its end, and a latched round is closed
before a terminal is published. That proves `OneTerminal` and `RoundsAreClosed`.

`ResultIsTrue` and `RestatementsAgree` need what is waiting as well. A tick's reports
are an *account* of what its fold did (`Account`): no mech comes back, hit points
change only with a report of them and the last report names the result, each
casualty is destroyed once. Accounts are composed report by report, through both
mechs' ruptures and the blast between them, then taken apart as the reports are
folded again. `Toll` counts destructions told and waiting, `Hulls` lets a living mech
be without hit points only while its destruction waits, `Restating` says that what
waits leads from the present mechs to the ones the tick left. `Results` makes recorded
and waiting results true, `Settled` keeps what waits behind from making them untrue
(a death nobody knows of waits in a running match only, a bounty waits alone), and
`Contested` says why a running match has two: otherwise everybody left has its
destruction waiting. `Undecided` adds that a running match has no result.

**LLM decisions.** `EvidenceIsTrue` says nothing of an attempt under way. The
invariant adds, for each place of the ladder, how the token, the exception or answer
in hand and what the provider did agree, and that attempts before the present one
are closed; the ends and the plans follow from what is in hand where they are made.

**Event projection.** A transport judges frames one by one, as they reach it over
several connections; `OnlyStopRefused` is about what is left in it at the end. The proof
goes through the set of all that was ever sent: such a prefix is `WellFormed` when it
begins with MATCH_STARTED, its revisions grow with its places, a terminal status stands
in front of MATCH_ENDED and only a score and a promotion behind. `FollowingIsFine` and
`IngestFollows` show of every prefix of this kind, and every break and replay, that the
transport accepts what it is sent in order, but for statuses before the first accepted
one. What remains is that the loop only ever extends such a prefix: whatever is under way
in the worker, queued behind it or held stands behind all that was sent (`InOrder`,
`Apart`), a status stands before the events of its tick (`StatusPlaces`), MATCH_ENDED
waits for nothing but the score of a draw and a promotion (`TerminalLast`), which
MATCH_ENDED's call does not leave behind (`ScoreKept`), and a RESUME whose status is still
to be told finds the buffers drained (`Commanded`). None of this is true after a STOP,
where a status may stand beside the terminal, and the invariant says nothing of it.

`NothingMissed` speaks of stopped matches too and has an invariant of its own
(`NoMissInv`), which leaves the order of statuses out but for this: no two share a place
(`Placed`), or sorting would drop one. Every event is on its way, held or set aside
(`Accounted`), and what the loop has sent lacks nothing earlier (`NoGap`): an event that
arrives when a later tick is open was overtaken by a status (`Overtaken`) and is
set aside, and what arrives behind MATCH_ENDED stood around it or is later (`EndsLast`,
`Rest`). The frames of a callback go out in their order, so every part of them leaves
no gap (`Feeds`, `FeedLeavesNoGap`), wherever a connection breaks. With the run task
reaped nothing is missing but what the end leaves out (`Complete`), which is what a
kept prefix needs (`Retained`). A RESUME is never told before MATCH_STARTED was handled,
which would set it aside (`Unstarted`).

**Learning.** `Fielding` needs that a promotion in memory has a whole lineage file
before its event is staged, and that a composition takes its policy from rows only;
`Earning` follows one match from its result through evidence and staged event to
the row. `ChainBreaks` needs the history of who overlapped: without an overlap a
composition sees every promotion there is, so the next one extends the tip.
`Containment` follows a fault from where it is raised to the marker that ends the
learning of its match: the match has its result before learning begins.

**Offline learning.** `VerdictsAreEarned` speaks of the end of a search. `Searching`
and `AtTheGate` say what holds before: the log leaves room for the gate, and a climb
for its re-basing too; what is brought to the gate is in the log, against the parent,
and nothing in an enumeration has a smaller p-value. That a battery counts every seed
once (`EverySeedCounts`) is a lemma on cardinalities; the sums of binomials are never
opened, since the best is chosen by comparing p-values and the proof needs no more.
An earlier `VerdictsAreEarned` told the hidden battery's entry from the search's by its
size and could not be proved: it is false where both batteries are equally large. For
the publications, `PublicationOK` ties each row a process holds to a claimed usage and
a whole record, and the claim it is about to make to the file it has linked;
everything stored only grows (`Grows`), so a death can take nothing back.

**Batteries.** `ReportsAreTrue` speaks of a driver that ended and of a lane that its
operator calls complete; the invariant follows one seed from the plan to either. `Place`
and `Crossing` tie the process to the match in hand and its messages to the broker, from
which a row is evidence when it is written. `Balance`: the plan is rows, casualties and
what is left to fly, and no seed is in two of them, so an exit code that owns up to the
casualties owns up to everything. Lanes outlive drivers: `OrphansAreExcused` says that a
match which ended without a row is the one in hand, or its seed is on the present
casualty list, or on that of a summary older than the seed's row, which the operator
kept before the makeup run wrote over it (`ArtifactsAreOld`). A killed driver leaves no
list, which is why only a lane flown by the book gets the conclusion. The gate then
counts rows and seeds, and a lemma on cardinalities makes that "every seed once".
`Watches` ties the watchdog's verdict to the exit code of the driver it watched and to
the lane as that driver left it.

`BeforeAfterIsPure` is of a lane that may hold anything when its driver starts. A phase
collects its own rows (`phaseRows`), rows are of matches that are over and never change
again, and the cap lets a match of generation 0 alone promote: so there is one promoter
(`OnePromotion`), what comes before it is of generation 0 and what comes after of
generation 1 (`Phased`).

What is only model-checked: the end of every command in `PublicationsAreWhole`, and
everything about liveness, which is out of the proof system's reach together with
`ENABLED`.

## 5. Not modelled

* **Time.** Waits have no clock: timeouts are choices where the code handles them
  (LLM calls, broken connections), and the watchdog counts polls. The limit of the
  loop's thread pool is left out: every thread of the models has its own.
* **Catalogs and overlays** beyond what their parts ask of each other: shapes of
  values, reading of files, public projections.
* **Start admission.** The idempotency records of authority, coordinator and gateway
  are empty at each launch, which builds all three anew: their branches for a second
  command are not reached. Origins and the parsing of the command line are constant.
* **Data.** Combat formulas, geometry, contents of cards and arenas, prompts, parsing,
  rendering, SQL, schema migration; utilities, defenses, gizmos and sensors, which
  change numbers only.
* **The front end beyond the transport's ingest.** The command gateway client (any
  result clears the shown prompt, so a late reply to a double click may clear the
  next one; a lost command socket is reopened only by the next send), the playback
  controls (a step back past the first tick leaves the deck as it is) and the
  pairing of LLM requests with their ends.
* **Inside the modelled parts.** Semantic codes `unknown_action` and
  `action_unavailable` are one with `invalid_action_parameters`; a timed-out CLI run
  that goes on running; the HTTP client's bare `TimeoutError` arm and the consumer's
  non-semantic exception arm, which nothing that can be composed reaches.
* The components `PROJECT.json` lists as `not_modelled`, with the reason.

The map covers three tenths of the repository's implementation lines. Most of the
rest is shapes of payloads, arithmetic, command-line and report code, in which
nothing is ordered, shared or retried.

## 6. What is left

1. `EventProjection` as a reader of `CanonicalLog`, with the rows a late browser
   would find.
2. The front end's command gateway beside `HumanTurn`.
