# Verification of minecraft-ai-agents

TLA+ models of the services that let LLM-driven villagers live in a Minecraft
world, the TLC runs that check them on small instances, and the TLAPS proofs
of what holds for every value of the constants.  `PROJECT.json` is the index:
which definition stands for which lines of the source, what each run checks,
which seeded bug each property notices, and the hazards the properties are for.

## 1. The system

    mind (agent-service) --ActionRequested---> commands.minecraft --> minecraft-service --> Minecraft
         |                                                                 +--> world.events
         +--GovernanceRequested--> commands.government --> government-service
         |                                                                 +--> government.events
         +--memories--> memory-service
    event topics --> agent-service (percepts, civics, race)
                 --> event-service (ledger of every topic, SSE) --> dashboard, orphan sweep, rehydration

| Component | State | Operations | Interacts by |
|---|---|---|---|
| Command plane of minecraft-service (`actions/executor.ts`, `kafka/*`, `redis/dedupe.ts`) | lane and waiting map per villager, dedupe marks, `settled` latches, offsets | dispatch, take a turn, dedupe, gates, run against the watchdog, publish | Kafka in and out, Redis, `BotSession.busy` |
| Body reflexes (`bots/hazard.ts`, `threat.ts`, `eat.ts`, `combat.ts`, the seam of `BotSession.ts`) | `busy`, one episode and one single-flight flag per watcher, spawn generation | interval passes, escapes, maneuvers, meals, death, disconnect, reconnect | the shared seam; `world.events` |
| Registry and roster (`BotRegistry.ts`, `redis/roster.ts`) | sessions by villager, reconnect timers, names in Redis | spawn, despawn, reconnect | called by the executor |
| Verbs and skills (`world/*`, `skills/*`) | per call; marks of blocks and game per session; records per skill | gather, hunt, craft, smelt, store, retrieve, practise | mineflayer, the seam, shared furnaces and chests |
| Attempt tracker and orphan sweep (`attempt/*`) | active attempt, closed ids, crossed rungs | start, observe, end, sweep | REST, ledger queries, publishes |
| government-service | elections, candidates, votes, governments, processed commands (PostgreSQL) | open, declare, vote (REST and Kafka), clock tick | row locks, after-commit sends |
| agent-service: scheduler, graph, budget | wake-ups, cooldown and cap windows, drained percepts, last command, streaks, tokens spent | scheduled and reactive ticks | Redis, Kafka, LLM |
| agent-service: percepts, civics, race | per-process caches | ingest, fan out, rehydrate | Kafka, ledger |
| event-service | append-only ledger, live feed | batch ingest, keyset query, stream | Kafka, REST, SSE |
| memory-service | memories, hourly cap | store, recall, reflect | REST, LLM, Kafka |
| dashboard | per page: what it read and heard | read a slice, follow the feed | REST, SSE |
| schemas, bench, demos, infrastructure, pov camera, rcon | none the others decide on | | readers and harnesses |

### What is hard in it

* **Delivery is at least once and processes die.**  A rebalance rewinds a
  partition; a crash loses lanes, latches and after-commit events but neither
  offsets nor Redis nor PostgreSQL.
* **A promise of mineflayer may never settle.**  Anything that awaits one
  without racing it wedges a body, a lane or a slot.
* **One body, four would-be owners.**  A command and three reflexes share one
  `busy` field; attempts outlive deaths and reconnects.
* **Abandoned verbs go on.**  The watchdog ends the wait for a verb, not the
  verb: it keeps walking, digging and marking beside the next command.
* **Reads are older than decisions.**  The sweep, the minds and the board read a
  ledger that lags behind the topic; a chest or a furnace planned for is not the
  one that is opened; a provider chosen before a wait is called after it.
* **Two routes to one vote, one clock.**  REST, Kafka and the clock meet on an
  election row; the clock may have slept across a whole window.
* **Events are facts to others.**  A wrong "escaped", a vote announced twice or
  never, a candidacy before its election: consumers act on all of them.

### What makes each component correct

* *Command plane*: at most one run and one reply per command; exactly one
  outcome if nothing fails; only the latest waiting intent survives, spawns and
  despawns always; every lane drains; `busy` is honest.
* *Body*: one driver; no recovery of an earlier body; the trapped body is
  dug out whatever else competes; every claim is given back.
* *government-service*: nothing is stored behind a decided count; ties go to
  the first declared; one mayor; outcomes and votes published at most once, and
  once each; announcements first; every election ends.
* *Ticks*: reactive ticks keep their pace; a villager gives up only what it
  heard the world refuse; the overrun of what the wallet has booked of a day is
  bounded.
* *Caches*: minds, boards and civic state agree with what they heard, and what
  they heard with the ledger, unless something fell between two sources.
* *Ledger*: nothing below a committed offset is missing.
* *Attempts*: the rows of an attempt tell one story, in whatever order and
  however often they arrived; no start over a known orphan; no attempt ended
  twice by one life of the process.
* *Hands*: a skill fails with a code it declares and counts what it took; what
  defeated a trip is left alone while its mark lives; a verb tells
  what it moved and moves no more than it was asked; an errand closes its
  recipe; a curriculum goes for
  depth before breadth and its gate opens again; a despawn is final.
* *Memory*: nothing the watermark passed went unread, bar what the code says.

## 2. Modules

| Module | What it is |
|---|---|
| `CommandContract` | What the command plane promises of a command: taken once, run at most once after that, answered at most once. |
| `CommandExecutor` | The consumer, lanes, dedupe, gates, watchdog and publication of minecraft-service. |
| `ElectionRules` | The pure rules of `domain/`: the phase that is due, the winner of a tally. |
| `GovernmentService` | The threads of government-service over its tables and topics. |
| `BodySeam` | The three reflex watchers of a BotSession, the command that competes with them, deaths and reconnects. |
| `Ledger` | event-service: batch ingest, keyset pages, the live feed. |
| `Attempts` | The race attempts of minecraft-service: tracker, orphan sweep, routes, and the race script that calls them.  EXTENDS `Ledger`. |
| `RaceReaders` | The minds that replay the ledger and follow the topic; the board that reads a slice and follows the feed.  EXTENDS `Ledger`. |
| `RaceSystem` | Writers and readers composed over one ledger. |
| `TickScheduler` | When a villager ticks. |
| `TickGraph` | What a tick does, node by node, and the world that answers it. |
| `TokenBudget` | The daily breaker around the LLM provider. |
| `CivicState` | What a mind knows of elections, from an at-least-once topic. |
| `Reflection` | memory-service: stores, concurrent reflections, their watermark. |
| `Gathering`, `Hunting` | The gather trip and the hunt, their marks, their zombies. |
| `Workshop` | The craft flow with its table, furnace and smelt errand. |
| `Stores` | store and retrieve at a chest that villagers share. |
| `SkillLibrary` | The skills of minecraft-service: plans over primitives and over each other, the primitives step by step, the registry's records. |
| `Curriculum` | The mastery policy over recorded invocations. |
| `Sessions` | The sessions of a villager, their connections and the roster. |
| `VillagerSystem` | The mind's and the hands' modules composed. |
| `CommandExecutorProofs`, `BodySeamProofs`, `GovernmentProofs`, `RaceSystemProofs`, `VillagerSystemProofs` | Theorems about the modules they are named for. |
| `MindProofs`, `HandsProofs` | Theorems about the mind's modules (scheduler, graph, budget, civics, reflection, curriculum) and the hands' (trip, hunt, sessions, workshop, stores, skill library), each by itself; `VillagerSystemProofs` lifts them. |
| `NumberLemmas` | Three facts about naturals the proofs share. |
| `MCCommandExecutor`, `MCGovernmentService`, `MCRaceSystem`, `MCVillagerSystem` | Instances for TLC.  `BodySeam` has only numeric constants and needs none. |

A definition `X_Bug` is `X` with a plausible bug.  No run uses it; it is what a
run is repeated with to see that a property notices.

### CommandExecutor and the code

JavaScript runs one callback at a time, so an action is the code between two
awaits.  `lane[v]` is the promise chain of a villager; its head takes the turn,
and `step[v]` says which await it is at: `dropping` (publication of a gate's
outcome), `dedupe` (Redis), `admit` (Redis answered; the staleness check, the
busy gate and the claim are one synchronous block), `running` (the race) and
`timedout` (the watchdog's publication).  The waiting map is the `waiting` bit
of an entry: `Arrive` supersedes the entry that has it and gives it to the new
one unless that is a lifecycle command or finds the lane empty.  `acting` holds
every run that has not settled, those abandoned by their watchdog included;
`latch` is the `settled` flag.  A publication is two steps, `Publish` and
`Acknowledge`, and whoever awaits it continues at the second.  `Embody` is what
`BotRegistry.spawn` and `despawn` do to the session synchronously: a spawn
replaces an inactive session, so the claim on the old one is released on an
object nobody reads.  Faults are `Rebalance`, `Crash`, `DedupeFails` and
`SendFails`; `MaxFaults` bounds them together.  A rejected publication by the
watchdog ends the process, and is a `Crash`.  A run that settles while the
watchdog's publication is in flight still wins the race and frees lane and body
at once (`RunSettles` at `timedout`): the latch stops its outcome, not its end.

Abstracted: what a verb does (it completes or fails), the text of errors,
metrics, and time, which is a staleness bit drawn when the gate looks at it and
a watchdog that may fire at any moment of a run.

### GovernmentService and the code

A thread is a client's REST call, the Kafka listener, the scheduled clock, or
the opening of an election.  A handling transaction is two steps: it takes the
row lock (`RestLocks`, `ListenerLocks`, `ClockLocks`; `seen` is the row it read)
and it commits (`RestCasts`, `ListenerHandles`, `ClockAdvances`), moving its
events to the thread's `outbox`, which `Send` empties in order.  A transaction
without events is over at the commit.  `Return` ends the call; the listener's
acknowledges its record.  `Claims` is the insert into `processed_commands` in
the same transaction.  `ClockTicks` reads the clock and the active elections
once, as `ElectionService.advance` does, and `Cascade` applies the phases that
are due.  `RollsBack` fails a transaction, `Crash` loses what was not sent
(remembered in `gaps`).

Abstracted: identifiers, reasons and platforms; a candidacy is a villager, its
position the order of `registered_at, id` (any order among seeds, which share
a millisecond).  Kafka delivers a partition's records in order; the event bus is
a bag, for the properties ask how often and not in which order, except for
`AnnouncedFirst`, which is checked at every state.

### BodySeam and the code

`busy` is the seam, `command` an execution whose race is unsettled, `flights`
the attempts whose `finally` has not run: their reflex, whether they still
await the equip of a weapon (`phase`), whether the watcher that started them is
the current one (`own`) and whether the body is of their generation
(`current`).  A pass of a watcher is one action, split by what it finds;
passes that change nothing are left out.  `story` is a history variable: what
the ledger was told of each episode and whether it turned into a lie.
Distances, health and the inventory are nondeterministic: a pass finds snow or
none, a foe or none, food in three bands (`Starving`, `Peckish`, `Fed`).

A death and its respawn are two steps.  `Dies` only marks the body: the code
notes why the next spawn comes (`BotSession.ts:336`), mineflayer's bot keeps its
entity, and the passes go on in the old generation until `Respawns` raises it.
What they tell in between is `late`; what one body tells of the trouble of
another is a `lie`.

### The race and the code

An event is a record with `n`, its place in the order of building: envelopes
take their UUIDv7 and `occurred_at` when they are built, and the ledger's key
is that order, which is not the order of arrival.  `topic[p]` is a partition of
world.events, `acked` and `written` are what the group committed and what the
last batch wrote, `stored` the table.  `Record` and `Acknowledge` are the two
halves of a batch; `LedgerRestarts` falls between them too.  `Page` is the
keyset query: rows behind the cursor, in order, at most `PageLimit`.

*Writers* (`Attempts`).  `tracker.publish` is not awaited, and the producer
retries without being idempotent.  `Delivered` is the broker's answer; a send
that `Fails`, whether it had arrived or only its answer was lost, is `retried`:
it goes out again out of turn, behind whatever overtook it, and perhaps a second
time.  `GivesUp` is the end of the retries of a send somebody awaits; where
nobody does, the rejection ends the process (`Crash`).  So a partition may show
a rung behind its end, or twice; `producer.ts:33` says of the key that it keeps
the order of a villager's events, which is true only of sends that succeed at
once.  A sweep takes its turn in `chain`, reads page by page
(`SweepReads`, `Truncated`), closes what it found open (`SweepCloses`) and
completes or fails; the routes are the steps of the harness (`Look`, `Clear`,
`StartAttempt`, `Guarded`, `Watch`, `EndAttempt`), each an HTTP call of
`race-rb2.mjs`.  `Guarded` is the second check after the awaited sweep.
`Observe` derives milestones and the winning rung from an acknowledged outcome;
`CraftCrosses` says which outcomes cross a rung.  At the start an orphan of an
earlier life lies on the topic (attempt 1).  One harness is one run of the
script; the hours of its window are not modelled.  The sweep's sends and the
actions around them are split at every await, and at some points between
awaits: the model has more interleavings than the event loop, never fewer.
An outcome's record is built before its acknowledgement; what the outcome
counts for is decided when it is acknowledged, as in the code.

*Minds* (`RaceReaders`).  `Rehydrates` replays a page of the window at boot;
`Hears` is the percept consumer; `MindRestarts` forgets the race and resumes a
partition at most one record behind.

*Board*.  `BoardSeeksNewest` and `BoardReadsSlice` are its bootstrap,
`BoardConnects` opens the EventSource *after* them, `Broadcast` works off the
feed's queue, which forgets its oldest when it is full; a client may be dropped.

Writers know nothing of readers, and readers see of writers only the slices
that reach the topic, so `RaceSystem` plays three scenes: `writers` (the ledger
only stores), `minds` and `board`, where a `Script` of coherent slices arrives
partition by partition (`ScriptGoesOn`).  `SliceIsCoherent`, checked in the first
scene and proved, is about the rows the ledger keeps, in the order of building,
which is the order every reader pages them in.  A script's partition is in that
order too: sends retried out of turn or twice are left out of the readers'
scenes, and `MindIsCurrent` and `BoardIsCurrent` say nothing of a reader that
hears a rung behind the end of its attempt.

A page is taken at once (`MindReads`, `BoardReads`), where the code takes its
rows one by one: from the page's last start on, what is of that attempt.
`MCRaceSystem` has TLC compare the two forms, the second as a fold, on every
page of eight rows.  `InOrder` ranks rows by how many come before them.

Seen while modelling, and left as the code has it: an end names no attempt, so
one run of the script can end another's; with a ledger that lags, a sweep of a
*new* life can abort an attempt that has ended (`EndedOncePerProcess` is about
one life); a won end may lie in the ledger without its rung, when the process
dies while that rung waits to be sent again; an outcome built before an attempt
but acknowledged in it counts for
it; a mind or a board keeps an older attempt when its start arrives last from
another partition; a board that opens before any attempt never opens the feed;
it misses what falls between its slice and its feed (the ghost `missed`); a row
written before a crash reaches no feed when its batch is redelivered.

### The mind and the code

*`TickScheduler`* keeps the clock as differences to now: `alarm` is what is left
of the loop's sleep, `sinceTick` and `untilNext` are the two timestamps,
`granted` the ages of the grants.  `Grants` is the decision of
`request_reactive`, `Wakes` the loop's wake-up, `BeginTick` and `EndTick` the
tick, of any length.  `ReactivePace` is one more than the cap on purpose: the
docstring says ticks, the code counts grants, and a grant that waits for a tick
to end comes on top.

*`TickGraph`* has one action per node of the graph: `Perceive` drains at most
`PerceptsMax`, `Deliberate` takes a decision the hot streaks are shown to,
`Act` publishes, `Relate`, `Reflect`.  `TickFails` is an exception at any of
them; percepts drained by a failing tick are lost, by design, and a command
published by a failing tick is on the bus and not remembered.  `doing` holds the
actions the world has yet to answer for: `Answers` completes, refuses (for what
it finds or for plumbing), and `Act` supersedes what waits behind the running
command, whose percept is told there and then.  `Told` is the percept consumer:
it pushes, or finds the outcome stale.  What it read since the committed offset
(`recent`, `CommitsOffset`) it hears again after a restart or a rebalance
(`HearsAgain`), and nothing in the queue knows an event by its id: a refusal
delivered twice is pushed twice and may count twice.  `QueueExpires` is the 600 s
life of the queue.  An outcome names its action and not its command, so it is
read against the last command of that name, and a sibling intent of the same
action may be credited with it; `awareness.py:137-140` calls that pairing loose
by design.  `AdviceIsEarned` is therefore about actions and about deliveries.

*`TokenBudget`*: a call is `queued` for the semaphore after the provider was
chosen (`Completes`), `flying` when `Admitted`, booked when `Answered`.  The
overrun is bounded by the villagers and not by the semaphore.  A call that fails
at the client books nothing, and the provider may have billed it (`CallFails`);
a restart forgets what was booked (`Restarts`).  `answered` is what one life of
the process was told, `billed` what the provider charges: the breaker bounds the
first (`SpendingStops`) and not the second (`HardCeiling`, violated).

*`CivicState`*: government-service's sends of one election lie on one partition
in order (`Opens`, `Nominates`, `Votes`, `Ends`); `Hears` ingests the next one,
`Rebalances` re-reads at most `MaxReread`, `Forgets` restarts the process.
Elections follow one another.

*`Reflection`*: `BeginStore` takes `created_at`, `CommitStore` is the commit, a
whole embedding later.  A pass marks (`Marks`), reads (`Reads`), asks
(`Distils`) and stores one insight at a time.  Importance is equal for all, and
`occurred_at` follows `created_at`.  Two kinds of passes run beside each other:
the job, which asks for the pressure first, and the REST lever, which does not.

### The hands and the code

*`Gathering`*.  A trip is a record: `ready` between blocks, `walking`, `digging`,
`settling`, `chasing` the drop.  `TripTimesOut` is the watchdog: it frees the
seam and leaves the trip as it is.  `BodyStillOurs` is the code's question
whether `busy` says `action`, whoever said it.  Marks on blocks and regions are
made before the walk and taken back by success.  Blocks lie in clusters (the
radius of a region mark), and `stuckOn` is history: the clusters tried in vain
from where the body stands.

*`Hunting`*.  `StartHunt` marks the game, `ChaseEnds` is the kill loop's end,
`Swing` and `Collect` the rest.  `handle` is `huntAbandon`, which the latest
hunt sets and the first to leave clears, whoever's it is; the collection never
asks it.  Where the body walks is left out; distances change at will.

*`Workshop`*.  Every click of a window is an await: `PutFuel`, `PutInput`, the
wait, `TakeOutput`, `TakeInput`, `TakeFuel`.  Between them the furnace `Smelts`
or its `FireDies`, and a neighbour may meddle (once per flow).  `Errand` is the
smelt step the recipe lacks, planned from one look into the pack.  One craft is
in flight, and a watchdog may give its seam to another command.  Two things
`ErrandPays` does not say, because the code does not keep them.  An errand
counts whatever the output slot shows: items a neighbour left there make up its
count, and the flow then ends `missing` though the errand is done
(`BotSession.ts:1532-1536`); the property is about errands that brought ingots.
An interrupted batch empties the three slots one click after another, and an
ingot that comes out between the first take and the second stays behind, which
`BotSession.ts:1538-1539` promises not to happen; `late` counts those.  `unruly`,
a neighbour at the furnace, excuses only what lies in the slots afterwards.

*`Stores`*.  `Looks` reads the chest and closes it; `Moves` is a transfer;
`Throws` and `FillsUp` are the ways to fail in the middle.  Stacks and slots are
a count.  The adapter returns what it asked for, not what moved, and throws half
way, which ends as `INTERNAL`.

*`SkillLibrary`*.  A skill is a plan: numbered steps, each a call of a primitive
or of another skill, with where it leads when it succeeds and what a failure
means to it.  `Sparing` is a failure that is an answer ("no such log around" leads
to the next species); `Mending` is one whose remedy is tried once, after which
the call is repeated; every other code goes up intact.  The activations stand in
`frames`, by name, for no skill is ever active twice; `running` is the innermost
and `reply` what its last call came to.  The primitives whose await matters run
step by step: mineBlock over the candidates it found, with a dig and a sweep that
counts the pack against the dig's baseline; smeltItem over an open furnace that
goes on cooking; killMob with its pvp target; exploreUntil; givePlacedItemBack.
Of craftItem, placeItem, equip, count and find, and of the assembled shims around
them, only the answers are left.  The pack is a count of one item, the drop of
what is mined; pickups (`BodyPicksUp`) and losses (`BodyLoses`) happen at any
time.  `entered`, a history variable, is what came into the pack since the
invocation began; a count told is judged by it.  A furnace window that throws
(`WindowThrows`) goes past every plan and the registry, which books nothing.

`Undeclared` names what the model met on the way: crafting and smelting answer a
missing table or furnace with `RESOURCE_NOT_FOUND` or `PATH_NOT_FOUND`, which the
schemas of four skills do not list, and the remedies of `craftFurnace` and
`craftIronPickaxe` (for `RECIPE_UNAVAILABLE`) and of `smeltIronOre` (for
`CONTAINER_NOT_FOUND`) wait for codes those primitives no longer give.
`CountsWhatItTook` is about the skills that mine: killMob and
givePlacedItemBack count against the baseline of the last *mining*, or pickups
since the boot, and their comments promise less.

*`Curriculum`* is the policy as its comments describe its use: `Propose` gates
any list a proposer may bring and chooses; a list of new skills alone comes out
of a shut gate empty, and the choice throws (`policy.ts:269-271`).  `Practise`
records.  What is seeded from the ledger stands under `ledger:<action>` names, so
every skill begins without records.  The running service records and does not
call the rest yet.

*`Sessions`*.  A connection is `none`, `dialing`, `in` or `out`; `entity` outlives
it until the next dial, which is why `IsActive` may be true of a body that is
gone.  `ConnectionEnds` arms the timer, `Reconnects` dials, and `LogsIn` asks
nobody whether a despawn came between; the lane waits for a spawn or a despawn
until it is `Released` or the watchdog frees it.  `SpawnCommand` replaces a
listed session that is not active without despawning it; `replaced` remembers
those.  A despawned session never claims the name again (`DespawnWins`); a
replaced one may, beside its successor (`OneClient`, violated).

`VillagerSystem` plays twelve scenes that share no state: each is small, so one
run has them all, and `scene` says which one is played.  `TypeOK` asks each
module's invariant in its own scene.

## 3. Runs

| Run | Question | Result |
|---|---|---|
| `executor_faults` | With up to two faults: `SeamHonest`, `LatestIntentWins`, `OneOutcomeWithoutFaults`, `ImplementsContract`, `LaneDrains` | holds, 630 000 states, two minutes |
| `executor_redelivery` | With one rebalance: `AtMostOneOutcome` | violated |
| `election` | A contested election with one fault: `TallyIsFinal`, `FirstToDeclare`, `OneOutcomeAtMost`, `VoteCastOnce`, `AnnouncedFirst`, `ElectionsEnd` | holds, 170 000 states |
| `election_gap` | `EveryVoteAnnounced` | violated |
| `race` | Three scenes, one fault each: `NoFactSkipped`, `EndedOncePerProcess`, `StartsOverNothingKnown`, `AbortsOnlyTheOpen`, `SliceIsCoherent`, `MindIsCurrent`, `BoardIsCurrent` | holds |
| `villager` | Twelve scenes: `ReactivePace`, `AdviceIsEarned`, `SpendingStops`, `CivicIsCurrent`, `NothingSkipped`, `DefeatIsRemembered`, `ErrandPays`, `HandsKeepTheirWord`, `DepthOverBreadth`, `DespawnWins` | holds, 1 330 000 states, under three minutes |
| `villager_zombie` | `AbandonedTripStops` | violated |
| `villager_clients` | `OneClient` | violated |
| `villager_ceiling` | `HardCeiling` | violated |
| `body_seam` | `OneDriver`, `RecoveriesAreReal`, `TrapIsFought`, `ManeuverReleases` | holds |
| `body_fresh` | `EscapesAreReal` | violated |
| `body_wedge` | `ManeuverReleases` when an equip may hang | violated |

The behaviours without a fault are among those of `executor_faults`, so what
holds only there is stated under `faults = 0`: `OneOutcomeWithoutFaults`, and in
`LaneDrains` that a drained lane has answered every dispatched command exactly
once.
`TypeOK` is checked once per component.

### Bounds, and why they are enough

* *Executor*: one villager, because lanes share no state but the process; three
  commands, so that one runs, one waits and one supersedes; one of them a spawn
  and one a despawn, so that a session appears and vanishes under the others;
  one reflex, for the executor treats them alike; two faults, so that a crash
  can hit what a rebalance has redelivered.  The proofs need none of these.
* *Government*: two villagers and four commands give a declared candidate, a
  seeded one, a command for no election, and a villager who votes over both
  routes; one unit of time per window and `Horizon` 2 (the last window closes);
  one fault; a crash costs the outbox of every thread at once.  Elections beside
  each other are left to the proofs.
* *Body*: two hits to open, two clear passes to close and two failures to
  despair are the least that make debouncing visible (the code's are two, three
  and three); one death, one disconnect and two commands let an old attempt
  meet a new body, a new watcher and a new command.

* *Race*: two runs of the script give three attempts with the orphan; two
  partitions, one of which begins with a poison record, are the least on which
  a start can overtake an end; a page holds two rows and a sweep reads two
  pages, so that a start and its end fall on different pages and a window can
  be too long; a queue of two overflows; one fault of any kind.  The runs of
  the script are alike (SYMMETRY).  The readers' scripts are a finished attempt
  beside a running one, an orphan closed late, and two attempts in a row.
* *Ticks*: an interval of two cooldowns, a window of two intervals, a cap of
  two; a queue of two percepts of which a tick drains one; two intents of one
  action, so that an outcome can be misread, which are alike (SYMMETRY), and the
  idle one; two failures make a streak hot, two idle ticks forget it; one outcome
  at a time is read and not committed, and may be heard again and again.
* *Wallet*: three callers, two admitted at a time, a budget of one and a half
  largest answers, two days, one restart or billed failure.
  *Village*: two elections, two citizens, three pieces of news an election, one
  rebalance or restart.  *Stream*: two passes, four memories, one insight a pass.
* *Trip*: two blocks of one cluster, one of which no walk reaches, two trips of
  two blocks.  *Hunt*: two hunts after one cow.  *Bench*: three packs, with and
  without table, furnace and fuel.  *Chest*: two villagers, two goods of a
  family, two of each, room for three.  *School*: one skill on the goal's path,
  one beside it, four records.  *Session*: three session objects.  *Skills*: two
  log species, two blocks found by a search, counts of up to two, room for two of
  the dropped item; a dig that drops late, a pickup in the middle of the next
  sweep and a second variant are reachable with these.
* The scenes share no state, so the run's size is their sum: bench 283 000
  states, tick 257 000, skills 207 000, stream 132 000, wallet 91 000, trip
  87 000, chest 79 000, village 67 000, hunt 59 000, session 54 000, cadence
  11 000, school 4 000.

`CHECK_DEADLOCK FALSE` is set where the instance really stops: all commands
answered and faults used up, time at the horizon, every bounded counter of a
scene at its bound.  The body never stops.

### Fairness, and why the code justifies it

* *Executor*: the event loop's own callbacks are weakly fair, timers fire, and
  the broker answers every send.  A run is *not* fair: that it may never settle
  is the point of the watchdog.  Faults and reflexes are not fair.
* *Government*: a thread that waits for nothing proceeds, time passes, and the
  clock ticks (`@Scheduled` with a fixed delay).  Taking the row lock is
  strongly fair for the clock: PostgreSQL queues the waiters of a row, so a
  lock freed again and again is granted.  No client and no mind is assumed to
  act.
* *Body*: intervals fire, backoffs pass and the deadlines of escapes, meals and
  maneuvers settle their races; a disconnected session reconnects
  (`onEnd` schedules it).  The equip of a weapon settles on a live connection;
  on a dead one only if `HandEquipSettles`.  Neither the world nor the mind is
  fair.

* *Race and villager* state no fairness: their properties are invariants.

### What the violated runs show

1. `executor_redelivery`.  c1 runs, c2 waits, c3 supersedes c2 and c2's
   SUPERSEDED is published *before* anybody asks Redis about c2.  A rebalance
   redelivers c2, which now finds an empty lane and runs: two outcomes for one
   commandId.  `executor.ts` promises exactly one.  For *executed* commands the
   promise is kept: that is `ImplementsContract`, proved.
2. `election_gap`.  The vote commits, the process dies, `VoteCast` was to be
   sent after the commit.  The redelivered command finds its claim and is done.
   The schema says exactly once per stored vote; the code gives at most once
   (`VoteCastOnce`).
3. `body_fresh`.  Between a death and its respawn the threat watcher goes on in
   the old generation, over the entity the bot keeps: its last clear pass tells
   "escaped" of a villager who lies dead, which is what the generation was
   introduced against (`threat.ts`).  The hazard watcher has the same gap and no
   generation at all (`hazard.ts:130`, `:167`): the first pass after a respawn
   reports a villager who died in powder snow as freed.  `RecoveriesAreReal` is
   what the generation checks do give, that no episode of a threat or a famine is
   closed by a later body; it is proved.
4. `body_wedge`.  A fight draws its weapon before its deadline exists and races
   the equip against nothing: on a connection that dies meanwhile, the claim is
   never released and every command bounces, and the escape from the snow with
   them.  `ManeuverReleases` and `TrapIsFought` are stated, and hold
   (`body_seam`), for equips that settle.
5. `villager_zombie`.  The watchdog abandons a gather trip in the middle of a
   block.  Another command claims the body before that block ends, `busy` says
   `action` again, and the trip takes the claim for its own and begins its next
   block.  `gatherSession.ts` bounds zombie work to the block in flight.
6. `villager_clients`.  A connection ends and arms the reconnect timer; a spawn
   command finds the session inactive and puts another in its place without
   despawning it; the timer dials, and two clients claim one name.
   `BotRegistry.ts:15` says exactly one session per villager.
7. `villager_ceiling`.  The budget is spent, the process restarts with an empty
   wallet on the same day, or a call billed by the provider failed at the client:
   the day's bill passes the budget and one answer of every villager.
   `settings.py:63` calls the budget a hard daily ceiling.

## 4. Proofs

All for arbitrary constants under the modules' assumptions: owners and topics
match, lifecycle commands are commands, reflex names are not `free` or
`action`, debounce bounds are positive, fault and event budgets are naturals;
villagers and elections are finitely many, and no villager, election, command
or caller has another's name, the listener's or the clock's; trips, blocks,
callers and sessions are finitely many; lives of marks, budgets, limits, the number of log species and
the largest count are positive.

| Theorem | Argument |
|---|---|
| `TypeCorrect` | `TypeInv == TypeOK /\ LaneShape`.  TypeOK alone does not say that the lane of `v` holds only commands of `v`, nor that a lane whose step is not idle has a head, and every `Current(v)` needs both. |
| `ExecutorImplementsContract` | `OnceInv`: whoever may still answer for a command is the admission, the race whose latch is open, the one outcome in flight, or the ledger, and never two of them; each implies that the command is marked in Redis, which is what a second delivery fails at.  The contract's own invariant (at most one run, one reply) is not inductive without this: it does not see the latch, the sends in flight or the zombies.  Each action then maps to `Take`, `Run`, `Reply` or a stutter; a crash is a `Reply` to the commands whose sends got through. |
| `SeamAlwaysHonest` | Inductive given `TypeInv`.  The spawn that replaces a session is the step to look at: the new session's seam is free and the claim is gone with the old. |
| `LatestIntentAlwaysWins` | `LanesOrdered`: an entry that has the waiting bit is the newest of its lane or superseded already, and the newest has it unless it is the head or a lifecycle command.  The property does not say where the bit is, and `Arrive` supersedes by the bit. |
| `GovernmentTypes` | `GovInv` with `Bounds`: what a partition has acknowledged, and what the listener holds of it. |
| `DecisionsAreFinal`, `TiesGoToTheFirst`, `VillageHasOneMayor` | `Threads` and `Facts`.  `Threads`: a transaction that has locked a row holds it alone and what it read (`seen`) is still true, so the guard checked against `seen` is good at the commit; without it nothing relates the clock's count to the votes.  `Facts`: candidacies stand once and in order, a decided election's count is its votes and its winner wins it (`Settled`), one seat per decision.  That a winner exists and is the first of the best is a least-number argument over finitely many candidacies (`LeastNumber`). |
| `OneOutcomeOfACommand`, `AVoteIsToldOnce`, `ElectionsAreToldFirst` | `BusInv`: outboxes and bus together hold an event at most once, or not at all (`Once`, `Absent`), by what the tables say: no outcome without the claim, no VoteCast without the stored vote, no candidacy before its announcement, which is in the same outbox before it, on the bus, or in `gaps`.  A record that is being handled and not yet claimed (`RecordUnclaimed`) has nothing anywhere. |
| `NoFactEverSkipped` | `AllWritten`: what lies below `written` and is an envelope is stored, and `acked` never passes `written`; the records of the topic are of some type, for that is all a sequence asks.  Every step of the composed system, of writers, minds and board, is a `LedgerStep`: it appends, records, acknowledges, or leaves the ledger alone. |
| `OneOutcomeUnlessRewound`, `OneOutcomeUntilAFault` | `AtMostOneOutcome` is false after a rebalance (run `executor_redelivery`), so it is stated of the behaviours that never rewind, and of every behaviour as long as `faults = 0` (`FaultlessStep`), for topics on which no commandId appears twice (`PublishedOnce`: the mind draws a fresh uuid).  There each command is delivered once, and the place where it is (topic, lane, admission, open race, outbox, ledger) is unique. |
| `SlicesStayCoherent` | `SliceInv`.  `Base`: events are numbered as they are built (`Numbered`), whatever lies on a partition was built and belongs there (`Lines`), a row was on a partition (`Rows`), and every script that has yet to start has a number left (`Counted`); nothing of it speaks of the order of arrival, for retries keep none.  `Story`: in what was built, an attempt has one start before everything else, rungs before its end and each once, and what the tracker has fired is known.  `Online`: the winning rung of a won end of this life is on the topic or in flight (`WonOnline`), and what a sweep may close has its start among the rows (`SweepOnline`).  The rows are a subset of what was built, so they tell the same story. |
| `EndsAreNotRepeated` | `EndsOnce`: an end built by this life was refused, or its attempt is known as closed, or it is the send the sweep awaits. |
| `StartsAreGuarded` | `Guard`: whatever the rows showed as started when the sweep began has an end that is not lost, or is open, live, being closed, or still unread ahead of the cursor.  An awaited end may yet be refused, hence `Safe`. |
| `SweepsAbortOnlyTheOpen` | `Paged`: what had ended when the sweep began has its end still ahead of the cursor, or is not among the open. |
| `MindsFollowTheRace` | `MindFollows`: of what was taken, replayed up to the cursor or heard, the newest start is the one the mind is at, or its attempt is known to be over; every rung of it that was taken is in the mind.  A replayed page may repeat what is known and skip nothing (`RowsAreTold`, `RowsAreLed`: a partition's rows are stored in its order). |
| `BoardsFollowTheRace` | `BoardFollows`: of the newest start of the ledger, either it waits in the feed with everything of its attempt behind it (`Awaits`), or the board is at it and every row of its attempt is shown or waits in the feed (`Tracks`).  The feed has no event twice (`Distinct`): an offered row is new. |
| `RaceKeepsItsTypes` | The invariants above, and that what a scene has no actor for stays as it began (`RestInv`).  That a live attempt is not among the closed ones needs `Guard` and `Story`: a closed attempt has an end, a live one has none. |
| `VillagersKeepPace` | `PaceInv`: the ages of the grants fall, those of reactive ticks fall strictly, behind each reactive tick stands a grant of its own at least as old (`GrantBehindEach`), and a pending wake-up has one more (`GrantPending`).  Counting ticks against grants needs the sequences aligned; the ages alone do not say which grant a tick is for. |
| `VillagersAdviceIsEarned` | `GraphInv`: of every action, what the streaks count, the refusals still queued and those drained but not yet noted are together at most the deliveries of its refusals (`Earned`).  A delivery more raises both sides; a queue that is trimmed, drained by a failing tick or expired lowers the left one only. |
| `VillagersSkipNothing` | `StreamInv`: whatever a pass may still write an insight over is in its batch, crowded out of it, or was being stored (`PassKnows`, `Overtaken`). |
| `VillagersKeepDepth` | `StreakIsTail`: the streak of a skill is the run of successes its records end with, so a streak as long as the window is the whole window.  `NewIsOpen`: an untried skill that is on offer was offered through an open gate, and no record is made while it stands. |
| `VillagersKnowTheirVillage` | `CivicInv`: elections follow one another (`OneAtATime`), and until a process forgets, the campaign is what a prefix of the news says (`FollowsTheOpen`). |
| `VillagersErrandsPay` | `WorkshopInv`: during an errand the pack holds the stick and, with the batch, the ingots of the recipe (`FlowStands`), whoever else is at the furnace; and while the furnace is the errand's own, what lies in its slots is what the clicks so far have left, the late ingots aside (`SlotsStand`). |
| `SkillsAlwaysKeepTheirWord` | `SkillInv`, for any number of species, any counts and any world.  The activations are a stack: whoever waits is at a step that calls the next, and a callee ranks below its caller in the library's order, so no skill is active twice and a record belongs to one activation.  One lemma per plan (`...Fits`) says which codes can come out of it given what its calls may answer; a reply to a step is one of its callee's codes, by the same lemma one rank lower.  `CountFits`: what the innermost miner has hauled, what its mining credited or answers, and what the sweep of the block just dug would add are together at most `entered`; without the last part no sweep could be justified, and each dig may move the baseline only because it drops that part first.  `HearthFits`: what was taken, what is out and what cooks are at most what was loaded and what was found. |
| `VillagersHandsKeepTheirWord` | The above, and `StoreInv` of the chest verbs: what a verb has got and has yet to ask for is within its plan, and the plan within the count (`VerbFits`). |
| `VillagersKeepTheirTypes` | The type part of every module's invariant, each in its scene. |
| `VillagersStopSpending` | `BreakerKnows`: a wallet that is not tripped has spent less than its budget, and it knows of every answer its day got in this life; days to come have no answers and no calls.  `OverrunIsPending`: what a day was answered, and one largest answer for each of its pending calls, stay below the budget and one answer of every villager.  Yesterday's call, booked on today, only makes the breaker trip earlier; a failed call leaves the sum; a restart empties it. |
| `DespawnsAreFinal` | `AlonePart`: a session that is not listed is unborn, despawned or replaced, and a despawned one has no timer, whatever its connection was about when the despawn came.  `RosterPart`: the first login of a listed session tells the roster, and a departure that has yet to strike the name holds the lane, so nobody can have been listed since. |
| `VillagerRemembersDefeat` | `NotesHold`: a cluster that was tried in vain from here is marked at least as long, or is the last try, which the next block will mark; and the trip in flight, if no other overlapped it, is the one whose try that is.  `MarksHold`: game that was chased in vain is avoided at least as long, and the mark of the hunt in flight outlives its chase. |
| `BodyHasOneDriver` | `DriverInv == flights \subseteq Flight /\ OneDriver`: a flight that ages on a death or a reconnect keeps its reflex only because it is a record. |
| `BodyTypes` | One lemma per watcher. |
| `OnlyRealRecoveries` | `StoryInv`: an episode that a pass may close has been told of *this* body (`current` implies `told`), a stale one is dropped before it can close.  That is just the clause the hazard watcher lacks.  What is told between a death and its respawn (`late`) is not covered: it is false (`body_fresh`). |

The theorems about `VillagerSystem` reduce each scene to its module: a step of
the system is a step or a stutter of that module's next-state relation, for
which `MindProofs` and `HandsProofs` prove the invariants.

`BoardInv`, `MindInv`, `PaceInv`, `GraphInv` and the others were invariants of
TLC's runs before they were proved.  Where the code folds over a list, the
modules say what comes out (a count, a union, the latest of a set), and an
argument by induction is one by the least counterexample (`LeastNumber`) or by
counting a finite set, for tlapm cannot instantiate the library's induction
theorems.

Only proved: `OneMayor`, by `VillageHasOneMayor`.  One serial clock decides every
election, so no interleaving is at stake and no run asks it.

Only model-checked:

* every liveness property: fairness and ENABLED are out of the prover's reach
  (`LaneDrains`, `ElectionsEnd`, `TrapIsFought`, `ManeuverReleases`);
* that taking a page at once is taking it row by row: the second is a fold,
  and what a fold computes on every sequence needs induction over data.

## 5. Not modelled, and why

* place, follow, move and chat: one awaited call each, to the rest a promise
  that completes, fails or never settles.  Of the skills, the chest primitives
  of the registry (the verbs `store` and `retrieve` are in `Stores`), `shoot` and
  `waitForMobRemoved`.  The library is invoked by scripts only, one skill at a
  time, hence no watchdog and no zombie in `SkillLibrary`.  Geometry of walks and
  escapes, scans for the snapshot, `retrievalOrder` and `refinementQueue`.
* What a zombie does beside counting wrong: its next step may steal the
  pathfinder's goal, and it and its successor may count the same item.  A chest
  verb's zombies; a furnace put or take that is rejected half way.
* The order of after-commit sends of *different* transactions: free in the
  model as in the code, and nothing promises one.
* The fleet-wide fight slots, guard tether and armor watcher; shutdown.
* Scores and embeddings (recall, relationships, importance), prompts, the
  parser of decisions, team router, providers' HTTP calls; the deprecation of
  skills.  Text and floating point.
* Query cache, heartbeats and limits of the live feed; the hours of the sweep's
  window.
* Dashboard but for the race board, camera, rcon, metrics, schemas, benchmarks,
  deployment: nothing the components decide on.

## 6. Plan

1. Fight slots and the episode a maneuver reports on, as an extension of
   `BodySeam`.
2. The race's readers as refinements of one abstract reader that sees the topic
   in the order of building.
3. Fairness for the race: every started attempt ends, every sweep gets its turn.
4. Shutdown; the skills beside a watchdog once the service calls them.
