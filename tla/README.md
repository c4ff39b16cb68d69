# Tournament manager: verification project

This directory holds TLA+ models of the tournament manager, the TLC configurations that check them on
small instances, and proofs, checked by TLAPS, of what must hold on every instance. The repository
is the reference: each definition translates the lines `PROJECT.json` names for it under `map`.
Paths below are relative to the repository; `T/` stands for `src/apps/api/src/tournament/`.

## The system

A NestJS API over PostgreSQL keeps tournaments; a SyncStart service keeps a WebSocket to each
tournament's game lobbies; a realtime service relays events to browsers; both talk to the API over HTTP
and Redis. What can go wrong lies in the API's writes, which are many short transactions, and in the
two services' connections.

| Component | State | Operations | Interacts with |
|---|---|---|---|
| Schedules (`T/competition/schedule`) | status, current entry, reason to wait, interruption, archived | create, edit, replace entries, start, stop, archive, unarchive, recalculate, reconcile at boot | reads matches and rules; switches matches on and off a cabinet |
| Match commands and store (`T/competition/match/match.commands.ts`, `match.store.ts`) | the row of a match | load, edit, save whole, recalculate | schedules, advancement, pools |
| Match aggregate (`match.aggregate.ts`) | rounds, standings, tiebreaks, result | 20 edits, the state they add up to | the resolver of placements |
| Placement and scoring (`placement.resolver.ts`, `packages/scoring`) | none | points per round, places with ties and tiebreaks | the aggregate |
| Advancement (`T/structure/advancement`) | rules | place entrants after a commit, take them back, refuse when a target progressed | matches, pools |
| Pools (`T/structure/phase-group`) | seats, placements, completion | seat, place, release, complete, reopen | matches, advancement |
| Tournament lifecycle (`T/management`, `T/shared`) | open or closed | close, reopen, the guard of every write | schedules, SyncStart |
| Registration, divisions, phases | rosters | add, remove, rename | pools, matches |
| Structure plans (`T/structure/plan`, the structure page of the frontend) | a version per division; a draft in the page | read, draft, commit a plan, apply it | divisions, pools, matches, rules |
| Brackets (`packages/brackets`, `T/competition/bracket`) | none | generate, write | matches, rules, seats |
| Completed songs (`T/syncstart`) | fingerprints already written | resolve names, write scores to active matches | match commands |
| SyncStart service and protocol (`src/apps/syncstart`, `packages/syncstart-protocol`) | one runtime per tournament, one connection per lobby | configure, close, reconnect, submit a completed song | the API, live messaging |
| Realtime service (`src/apps/realtime`, `packages/live-messaging`) | a projection per tournament | apply events, join, leave | Redis, browsers |
| Legacy bridge (`src/tools/legacy-syncstart-bridge`) | a lobby in two protocols, flush timers | translate messages | SyncStart clients |
| start.gg integration (`src/apps/api/src/integrations/startgg`, `packages/startgg`) | links between external and local ids, a cached snapshot | preview, import, report a result | registration, divisions, pools, matches, rules; the API of start.gg |
| Catalog, statistics, accounts, health, frontend, seeder | data, sessions | reads, pages | the API |

### What is hard, and what makes each part correct

* **Schedules and matches.** Handlers interleave between statements. A recalculation locks its schedule
  row; every other write of a match, and the edits of a schedule, are load, edit and save without a lock.
  Correct means: one active match per running schedule, the current one; the schedule stands where a
  recalculation would put it; it walks forward; no recalculation revives a stopped one; a player is
  on one cabinet; a closed tournament runs nothing; a crash loses no progress.
* **Match aggregate, placement.** Results follow from evidence; a tiebreak belongs to one tie; equal
  players are never separated without evidence; recommitting gives the same result.
* **Advancement and pools.** A commit writes several rows in several saves. Correct means: taking a
  result back removes exactly what it placed; no target keeps an entrant its source no longer sends;
  a failure in the middle can be repaired by repeating the command.
* **Structure.** A plan is drawn on what a page read a while ago. Correct means: what is written is what was
  drawn, or nothing; a generated bracket loses nobody.
* **start.gg.** An import is a long row of short transactions, and is repeated while the event and the tournament go
  on. Correct means: an import that ends leaves the tournament as the event is, whatever one that was cut short left; a
  second one adds nothing; a preview says what the import will do.
* **SyncStart, realtime, bridge.** Messages are lost, repeated and late; timers race them. Correct
  means: one connection per lobby, a song written once, projections that converge.

## Modules

| Module | Models |
|---|---|
| `MatchRow` | what schedules and rules read of a match, and which rows each command of `MatchCommands` can make of one |
| `ControlRoom`, `ControlRoomProperties` | schedules, match commands, advancement between matches, closing, the bootstrap: one action per statement or short transaction; their properties |
| `Placement` | the scoring systems and `resolvePlacements`, as functions |
| `MatchAggregate`, `MatchAggregateProperties` | one match with its rounds, standings, attempts and result; each command one action; the two steps of `refreshState` |
| `MatchLife` | the abstract specification of a match: `MatchRow`'s effects, one command at a time. `MatchAggregate` implements it, `ControlRoom` relies on it |
| `Advancement`, `AdvancementProperties` | commit and reopen over matches and pools, one action per save, several requests, crashes |
| `Brackets`, `BracketWalk` | the three generators as functions; a generated bracket as it is written and played |
| `StructureDraft` | gestures, projection and plan of a draft, and when a plan is valid, as functions |
| `Structure`, `StructureProperties` | the tree of a division, the commands that change it, the page that reads and drafts, the application of a plan |
| `LobbySessions` | SyncStart client, sessions, connections and catalog of one tournament, one event at a time |
| `LegacyBridge`, `LobbyReader`, `SongIngestion` | the virtual lobby of the bridge with the cabinets; the interpreter of lobby states; the completed-song service of the API |
| `SongDelivery` | composes the three: a final score from a cabinet to a standing |
| `LiveProjection`, `LiveProjectionProperties` | publishers, channel, realtime service, a page with two sockets |
| `StartggEvent` | an event of start.gg, the external service, from what its client reads |
| `StartggImport`, `StartggProperties` | import and preview of an event, one action per step that writes, with people editing the tournament between them |
| `MC...` | instances for TLC |
| `ControlRoomProofs`, `SerialProofs` | proofs about the control room |
| `MatchAggregateProofs` | proofs about places, and about one match and its row |
| `AdvancementProofs`, `StructureProofs` | proofs about the completion of pools, and about the version of a division |
| `LobbySessionsProofs`, `LiveProjectionProofs` | proofs about the lobby sessions and about the page's view of a lobby |
| `SongDeliveryProofs` | proofs about a score on its way from a cabinet to a standing |

A definition headed "Slip:" is not part of a model. It restates the definition below it with one
plausible mistake, and `PROJECT.json` names, under `mutants`, the property that catches it.

### Control room

* `match[m]` is the row of `match` a schedule or a rule reads: `active`, the lifecycle column that
  `MatchStore.save` rewrites, the entrants, whether there are rounds, and the places of a committed result. Scores
  are abstracted: `Effect(cmd, row)` gives every row the aggregate could compute, which `MatchAggregate` is proved
  to implement. `sched[s]` is the row of `schedule`; `task[w]` is what a handler holds in memory between two
  statements. `Boot` is the reconciliation of `ScheduleBootstrap`, which ends before the server listens (`up`).
* **A match command** checks the guard and loads (`BeginCommand`), saves (`Save`), applies rules (`ApplyRule`,
  `SaveTarget`) and recalculates if it owes it (`Saved`). `activate` reads the running schedules between load
  and save (`ManualActivation`). Commands that could take something back first ask (`GuardSchedule`) and, when
  confirmed, stop or interrupt the schedule before loading (`Load`). A commit or a reopening of a written result
  first releases what it placed (`reverting`). The save is one step that overwrites the whole row with the loaded
  copy; TypeORM's inner SELECT and UPDATE are folded together, the window between load and save is not.
* **Start, archive and unarchive** load the schedule (`BeginStart`, `BeginArchive`), then `save` compares with a
  fresh SELECT (`DiffSchedule`) and updates the columns that differ, waiting for the row lock (`UpdateSchedule`,
  `Updated`). A start then takes every match of the schedule over (`TakeBack`) and recalculates.
* **A recalculation** is two steps, its reads under `FOR UPDATE` (`Recalculate`) and its writes and commit
  (`Settle`). The task between them is the lock: `Locked`. `stop` and `interruptCompleted` are one step each.
* **Close** writes the status, lists the running schedules, and stops them one after another; the bootstrap
  recalculates them one after another (`Sweep`). A stop that finds its schedule stopped throws, and ends the
  handler it is part of. **Crash** drops every task; a task at `settle` leaves nothing.

Left out: names, timestamps, versions, UI events, SyncStart calls, pool rules, changes of entries or rules, creation and
deletion of matches and schedules. Rules are applied in any order; the code's is the database's. A commit of a completed
match may throw after taking the result back, which is a choice in `Reverted`, since it depends on scores.

### Match aggregate and placement

`match` is the aggregate (`players`, `rounds`, `attempts`, `result`, `system`, `active`), `route` what its rules make of
each place, `column` the state column, `told` what its schedule last read. `Command` groups the edits, each load, edit
and save in one action, since a match has no other state between them; `UpdateRules` and `RefreshState` are the two
halves of a rule change. A list of placement groups is a function from players to places; percentages and points are small
numbers that keep the order the code compares. Constants `Late` and `Overlap` let an edit come where the code does not stop
it; the run keeps both FALSE (see below).

### Advancement

`rows` and `pools` are the rows, `jobs[r]` the writes a request still has to make (`todo`), with the one it is making (`write`) and the
target it has loaded for it (`held`). `Walk` is a write per rule that ends in a match and one per pool, and `Ahead` the order in which they
come. A commit takes an old result back, decides, saves, places target by target, places the targets of its pool, and closes the pool;
a crash may come after each. `owed` and `clean` are history: which matches' last command stopped midway, and whether
every command ran alone. `Contested` bounds who may score, `Judged` the states a score may lead to.

### Brackets

`generate` gives what a generator gives, with a match as side, round and index, places and slots from one and seeds from
zero. `BracketWalk` writes it (`write`: the seats) and plays the matches in the order they are made. Sizes other than
2, 4 and 8 are not run: single elimination accepts any size from two, but with 3, 5 or 7 a match of the next round takes
fewer than its slots, places are lost, and with 6 and four first-round matches `generate` reads an index that is not
there. Byes are seated as they come (the last matches stay empty), so a first-round match can be empty: its successor
waits for an advancement that never comes, which the walk treats as a match nobody plays.

### Structure

`tree` maps each row to what it hangs from; ids are never used twice. `rules` name their ends by kind and id, as the table
does, and stay when an end goes. `task` is a command between its statements: what it loaded (`tree`, `version`) is
what a TypeORM save writes back: children that came since are set to null (`Nowhere`), a row that went is inserted again,
and a whole-division save restores the version it loaded before `Bump` increments it. `page` is the structure page: the tree
with its version and the matches, which are two requests (`ReadOverview`, `ReadMatches`), and the draft. `Edit`
is any gesture the canvas offers on what it draws (`Drawn`). `Commit` is the page's commit and `StructurePlanCommands.apply`
up to its transaction; a refused plan is no step. `Apply` is the transaction of `StructurePlanStore`. `whole` is history: the
page's matches are those of the version its tree shows. Left out: names, seats, songs, entrants, source places of
a route, import mappings, generated brackets in a draft, and the schedule guard of a match command.

### SyncStart, completed songs, realtime

* `LobbySessions`: JavaScript runs one event at a time, so an action is what one event does until it ends, continuations of
  settled promises included (`EndOfEvent`). A rejection nothing awaits ends the process (`down`); every property is of a
  process that is up. An observer or a publisher that is awaited may reject: while a connection is told (`ActivationRejected` when `connect()`
  still waits for it, `SpectateUnsent` on a redial), a state (`HandlerRejected`) or a closing (`ClosingRejected`, `CloseUnheard`). A promise of
  `connect()` that nothing can settle any more is `lost`. One tournament; the registry that replaces runtimes and the search for lobbies are left out.
* `SongDelivery`: the bridge handles datagrams (`OnSong`, `OnStart`, `OnScore`, `OnFinalScore`, `OnSkipped`), its timers
  (`Flush`, `EvictIdleMachines`) and publishes a snapshot when it differs from the last. The reader completes a song
  from two snapshots in order. `Post`, `PostIsLost` and `Ingest` take a completion to the API, which remembers it only
  after its last write. A completed song looks for rounds that wait only: the live tiebreaks it looks for first (`match.queries.ts:433`,
  written by `match.commands.ts:407`) are left out, and with them songs played for a tiebreak. Disconnections, restarts of both services and an operator's typing come in between, up to `MaxUpsets`.
  `Hasty` FALSE says a cabinet does not start the same song again while its final score waits for the flush.
* `LiveProjection`: the API saves and then publishes; the channel keeps nothing; the service numbers what it hears, caches
  the last message of each kind, and answers a new connection with the cache. The page compares sequences to decide
  what to read again.

### start.gg

`rows` are all rows an import writes, by id, each with its parent; `rules` is a bag, since nothing refuses a rule that is there twice; `links`
is `external_mapping`. `task` is the import under way: the snapshot, the links and players it has read, the ids it has resolved
(`local`, which becomes links only at `Flush`), and what the current loop still has to do (`todo`). `Throw` is every way a step
fails because what it relies on was deleted; `Crash` and `RequestFails` may end it anywhere. `Admit`, `Withdraw` and `Delete` are what people do
meanwhile; `Deletable` names the kinds of rows they delete. `plan`, `seen`, `moved` and `touched` are history. Left out: names, points,
the fallback pool (the client gives every set its pool), two imports at once, the report of a committed match, and interleavings inside one step.

## Runs

| Run | Instance | Shows |
|---|---|---|
| `serial_walk` | 1 request, 1 schedule of 2 matches, a rule between them; 12 match commands, 6 of the control room | `OneActiveMatch`, `StandsWhereItShould`, `TypeOK`: after every answered request the schedule stands where a recalculation would put it |
| `crash_recovery` | 1 request, 2 schedules sharing every player, 1 crash at any step | `StopLeavesNoneActive`, `OnlyCompletedArchived`, `OneCabinetPerPlayer`; under fairness `PassesSettledMatch` |
| `interleaved` | 2 requests, 1 schedule of 2 matches | no deadlock, and what survives every interleaving: `ClosedRunsNothing`, `LockDiscipline`, `OnlyAStartRuns`, `NeverWalksBack` |
| `race_two_active` | 2 requests | expected violation of `NeverTwoActive` |
| `match_aggregate` | 1 match of up to 3 players, 1 round, 1 attempt, 2 scoring systems, 2 routings | attempts and places agree with the evidence, `EditsSettlePoints` (an edit leaves the rounds it touches with the points their runs earn), `MovesAreTold`, and `ImplementsMatchLife`, the refinement |
| `bracket_play` | 2 requests, 2 matches and a final in 2 pools, 1 crash | `TargetsHoldTheEarned`, `DecidedPoolIsCompleted`, `ReopenSparesProgress` |
| `bracket_shapes` | every bracket of 1 to 16, 25 and 32 entrants, matches of 2, 4, 8, up to 14 matches | `OutOnlyWhenBeaten`, `FieldIsFull`, `FewRematches` |
| `structure_plan` | 1 request, a phase with a pool and a match, 2 commands out of 10 beside the page, 2 gestures | `VersionVouches`, `TreeIsAsDrawn`, `RoutesLand` |
| `lobby_sessions` | 2 sessions, 1 code, 1 command | who is followed, listed and closed, and who is still owed an answer: `RegistriesAgree`, `ClosedHoldsNothing`, `CommandsOfThisConnection`, `NoCallIsForgotten` |
| `song_delivery` | 2 cabinets, 2 players, 2 songs, 2 plays, 1 fault | standings are finals that were played, a session is read as one completion (two of the same content count as one), finals wait for the flush and reach the round that waits: 4 invariants |
| `live_projection` | 1 page, 1 lobby, up to 2 changes and 3 lobby events, 4 together, 1 fault | `ViewIsLatest`, and `PageCatchesUp` under fairness |
| `startgg_import` | an event of 3 entrants (one a team, one late), 3 phases, 2 pools, 3 sets; 3 imports or previews, 2 upsets | `ImportAgrees`, `AgainAddsNothing`, `PreviewIsKept` |

The runs with one request show what the code promises to a careful operator; those with two what it promises whatever
happens. The difference between them is the list of disagreements below. The type invariants of the modules without a
proof stand in the modules as documentation; the runs spend their time on the other properties.

**Bounds.** In the control room two matches are the least with an entry behind and one at the current, two schedules the
least that can block each other, two requests the least that race. A second crash starts from a database the first run already
reaches. In `interleaved` the requests wait for one row. In `match_aggregate` three players are the least of whom two tie and one does not, and `MaxRuns` 2 the least in
which a run replaces another; the two runs are a lower one that passed and a higher one that failed, which the scoring systems order differently. `bracket_play` needs two matches to a pool (who closes it) and a pool that feeds both a match
and a pool. `bracket_shapes` reaches four rounds of matches of two (8 entrants, double elimination) and two of eight, with 25 and 32 entrants from four
matches of eight, the least where some who come out of one match meet again in one of two next ones;
`Orders` lets each match end in the order of its slots or against it, which is every result of a match of two. In
`structure_plan` two commands and two gestures are the least for a route into a slot another command filled, a pool with a
new match, or a node removed from what is new; the phase of the first shape is removed and others are added. In
`lobby_sessions` two sessions compete for one code; in `song_delivery` two cabinets are the least of which one waits for the
other, and two plays the least for a repeated song. In `live_projection` three lobby events are the least after which the cache replays an older one
last, and two changes the least of which one is lost and the other heard. In `startgg_import` the second import is the one that may find what a first, cut short,
left, and the third one that may add to it; one upset moves the event or the tournament, another cuts the import. Two faults at once are not run elsewhere.

**Fairness.** `ControlRoom!FairSpec` obliges handlers to go on, a crashed server to restart, and a handler that waits for a
row lock to get it if it is free again and again (strong fairness: PostgreSQL queues those who wait). Nobody is obliged to
send a request. `LobbySessions`: awaited observers return or reject and the timer of a first state fires (weak); no server is obliged to
answer, and no observer not to reject. `LiveProjection!FairSpec`: publishing, forwarding, connecting, receiving, fetching, each of which is a loop or a
callback of its service, and a realtime service that is down starts; nobody is obliged to change anything.

## Findings

One run expects a violation: *a stale save puts a match back on a cabinet* (`race_two_active`). A score is loaded while its
match is active, the schedule is stopped and started at another match, the score is saved: the loaded `active` overwrites. A
running schedule then has two active matches, against `schedule.commands.ts:50`.

Other disagreements were seen on variants of these instances and have no run of their own.

*Control room.*
* A schedule that waits for a player of another schedule's match is not recalculated when that match leaves its cabinet
  (`WaitsOnlyWhileBlocked`; `match.commands.ts:445`).
* A rollback stops the schedules its comment spares: the query of `schedule-mutation.guard.ts` selects matches at or behind the
  current entry.
* An archive that checked a completed schedule saves after a reopening made it inactive: it can be neither started nor
  unarchived (`OnlyCompletedArchived` with two requests).
* An entrant added to an active match is not checked against the other cabinets, and two schedules walked at the same time
  seat one player twice (`OneCabinetPerPlayer`).
* With two schedules and two requests, a stop by hand that lands inside a close makes the close throw at that schedule
  (`schedule.runner.ts:319`), and the schedules behind it run on in a closed tournament (`ClosedRunsNothing`); closing again does nothing,
  since the status has not moved (`tournament.commands.ts:79`). The next restart stops them. With one schedule, or requests one after
  another, it cannot happen: `CloseStopsAll`.
* With one crash, a match activated by hand survives a start whose crash precedes `deactivateEveryMatch`; two scores of one
  match saved over each other leave the schedule behind.

*Match aggregate.*
* A complete round can be left without points (`PointsAreCurrent`, on the instance of `match_aggregate`). `upsertScore` and `upsertPoints` write a
  standing for any player (`match.commands.ts:228`, `:245`, `match.aggregate.ts:403`), though `match.queries.ts:572` says that a standing belongs to a
  player the match holds. When the standing of somebody outside the match is removed, `match.aggregate.ts:440` takes the points of all others, because
  "the round is incomplete again" (`:437`), which it is not. `EditsSettlePoints` excepts this removal alone.
* A rule edit moves the state of its source match, but only the schedules of targets are recalculated
  (`ScheduleIsTold`; `advancement-rule.commands.ts:60`).
* A command between the halves of `refreshState` leaves the column behind the getter, against `match.aggregate.ts:158` (`ColumnAgrees`
  with `Overlap`). A song that was looked up before a change is applied after it: to who has left the match, over what was typed, in a
  match that has a result (`Late`).

*Advancement.*
* A seat is saved with the whole pool, so a pool can lose the completion its last match writes meanwhile; two commits into one
  target can lose an entrant (`TargetsHoldTheEarned` without `clean`).
* After a crash between placing pool targets and closing the pool, the guard no longer looks at the rules of that pool.
* A second commit that is refused leaves the first result taken back (`match.commands.ts:353`); committing again repairs it.

*Brackets.* In double elimination a drop round can repeat a match of the winners side. In single elimination `leastRematchIndexes`
(`single-elimination.ts:99`) deals the first and the third place of every match to the next matches in one order and the second and the fourth in the other, so in matches of
eight the first and the third meet again at once, and so do the second and the fourth. With 17 to 32 entrants there are two next matches and nothing better can be had; from 33 on there are four, and
they meet all the same. `FewRematches` therefore claims that at most every second of those who come out of a match meets again. `generateBracket` writes match by match and rule by rule
(`bracket.commands.ts:80`): a failure leaves part of a bracket.

*Structure.* The version vouches for the phases and pools of the page, which are read with it; the matches come by another request.
* With a match list older than the tree, an accepted plan that removes a pool deletes a match that has moved into it and that the page drew
  elsewhere, without any concurrency of writers, against "the shape it drew is not the shape that is there, so it is
  refused" (`structure-plan.commands.ts:59`). `TreeIsAsDrawn` therefore speaks of matches, and `RoutesLand` altogether, only when the page is `whole`.
* With two requests `VersionVouches` fails: a whole-division save writes the `structureVersion` it loaded, which undoes a bump that came since, against
  `structure-version.store.ts:15` ("two structural writes landing together cannot lose one of them"); the save of a division or pool also
  inserts again the row another request deleted and orphans the children another added. The basis of a plan is compared outside
  its transaction, and a save and its bump are two statements.
* Deleting a pool or a phase by command leaves the rules of what went, the case `structure-plan.store.ts:155` describes and avoids. `updateForSource`
  deletes and creates rules without a transaction and without a bump; a match moved to another division bumps only the new one.
* "A phase is never left without a pool" (`phase-group.commands.ts:55`) holds for the command, not for plans.
* Edits made while a commit is under way are dropped with the draft (`useStructurePage.ts:165`); a commit whose answer is lost keeps its draft
  and writes it twice when repeated; a draft that names a row that has gone is refused until it is discarded.

*SyncStart and songs.*
* A first state that is refused while `connect()` still awaits something is an unhandled rejection and ends the process (`StaysUp`; `lobby-session.ts:115`).
* A state handled after a hang-up registers the code of a dead session, which then answers "already connected"; a collision of
  codes delists the other session's lobby (`lobby-session.ts:173`); the late answer of a command that timed out settles the next one.
* Observers that reject: of the first state, `connect()` is never settled, since `pendingConnect` is already cleared (`lobby-session.ts:188`) and the
  rejection is only logged (`lobby-connection.ts:219`): whoever asked for the lobby waits for ever, the exception `NoCallIsForgotten` names; of a redialled connection, `spectateLobby` is
  never sent, so the session stays connected and is not served (`lobby-session.ts:134`); of the closing of a socket, the process ends, since
  nothing awaits its handlers (`lobby-connection.ts:148`, `:154`).
* A live score that follows a final one overwrites its numbers and keeps its finality, so an unfinished run can be completed
  (`bridge-lobby.ts:352`, against the comment at `:68`): `StandingsAreFinals` with `Hasty`.
* A completion is known by its sides and scores, so another play with the same scores is dropped; the submitter does not retry,
  though its comment says so (`completed-song-submitter.ts:39`).

*Realtime.* A page that connects after a lobby went on to its next song shows the song before: the cache is a `Map`, which keeps the place a key
first took, so the snapshot replays the new selection before the update or completion of the old song, against "Connecting is itself the snapshot"
(`useRealtimeSocket.ts:27`, `tournament-realtime-state.ts:64`). `ViewIsLatest` therefore allows the last message of the cache. A change between the first HTTP read of a page and its first frame is not noticed ("A first connection recovers nothing"; `Early`). A
restarted service counts from zero again; a gap between Redis and the service leaves none in the numbers (`lost`). A page
keeps showing a lobby that disconnected.

*start.gg.*
* A match that an import created and, being cut short, never linked is built again by the next import; the rules that led to the first stay and still
  send people into it, as `structure-plan.store.ts:411` fears of a plan. `ImportAgrees` speaks of the routes that leave linked rows only.
* Once an imported pool is deleted, every later import throws at `loadPhaseGroup` and each retry after a deleted division leaves another division behind.
* Links are not of one tournament: `ensureDivision` takes the linked division wherever it is. Imports that run at once can link one thing twice;
  `findMappingInList` then takes the first link and `createMappingCache` the last.
* An import from the five-minute snapshot can take a newer result back; it switches matches off without telling their schedules, and saves them without
  moving `structureVersion` on. The requests of a snapshot are not of one moment.

## Proofs

Thirty-two theorems and their lemmas, all of them safety. Each holds for every value of the constants that the named assumptions of the
modules allow, and no other hypothesis is made but those stated below (`OneSchedule`, `OneRequest`, `OneList`, `HoldsTogether`, `ByHand`,
`NobodyJoins`, `Overlap`, `Hasty`). TLC found each inductive invariant to hold on an
instance before it was proved.

**The control room** (`ControlRoom!Spec`): any finite set of players, any matches, schedules, rules and requests, any number of crashes.
`EntriesAssumption` says a match is in at most one schedule and once (the unique index of `schedule_entry`), `RulesAssumption` that rules are
between different matches, `NamesAssumption` that the model's names are distinct and its commands known, `NullAssumption` that
the codes of an interruption or a reason to wait are not NULL.

* `TypeCorrect` (`Spec => []TypeOK`). `TypeOK` says more than types, or it would not be inductive:
  `WellFormed` says that a handler has the match or schedule the step it is at, or comes back to, will read,
  and `Standing` that a schedule stands at one of its own entries. One lemma per action.
* `LockHolds` (`Spec => []LockDiscipline`). Three parts: at most one handler holds a schedule (`OneHolder`);
  what it holds still runs, and what it will write is no earlier entry (`HolderWalksOn`); an archive edits the
  row of a completed schedule (`EditsCompleted`). The argument is the same for all steps but two: a handler that takes
  no lock and writes no row somebody else holds keeps all three (`UnheldKept`). `Recalculate` takes the
  lock when it is free and its verdict is no earlier entry (`VerdictWalksOn`); `Settle` writes under it.
* `RunsOnlyByStart` (`Spec => OnlyAStartRuns`) and `WalkGoesForward` (`Spec => NeverWalksBack`) follow:
  every step that writes a schedule row stops it, walks it on, or is the UPDATE of an edit (`StepsWalkOn`);
  an archive's UPDATE writes `completed`, so only a start's can make a schedule run.
* `CloseStopsAll` (`OneSchedule \/ OneRequest => (Spec => []ClosedRunsNothing)`). That nothing runs once all is quiet says nothing of the steps
  on the way, so `Ended` says it of each: whatever runs in a closed tournament, some handler has yet to end, or the next bootstrap
  has. `Ends` lists how: a close before it lists the schedules, a sweep that has the schedule on its list, a stop, a start before its
  last recalculation, a recalculation whose verdict is not to run. `Shifts` (the bootstrap and the requests never work at once) and `Roles` (a sweep is
  the bootstrap's or a close's) are what a step needs to know of the others. The hypothesis is needed (see Findings): with one request the
  list of a close names only running schedules, each once (`Undisturbed`), so its stops never throw; with one schedule
  there is none behind it.
* `ArchiveHoldsCompleted` (`OneRequest => (Spec => []OnlyCompletedArchived)`). With one request an edit saves over the row it checked
  (`EditsWhatItRead`), across the crash that drops it; with two it need not (see Findings).

What requests that come one after another get rests on one more invariant. `Remembers` says of every handler, at every statement,
that what it holds is what Postgres holds, up to what the handler is itself about to change: its copy of a match differs from the row by its
own command (`EditOf`), the target of a rule has the cabinet it was loaded with, what a recalculation will write is still its verdict
(`IsVerdict`), and an edit is of a schedule that does not run. Here the code's load, edit and save without a lock is
justified, and this is what a second request breaks (`race_two_active`). With it:

* `OneMatchActive` (`OneRequest /\ HoldsTogether => (Spec => []OneActiveMatch)`) and `StopClearsCabinets` (`OneRequest /\ ~ByHand =>
  (Spec => []StopLeavesNoneActive)`), both from `Held`: a running schedule has at most its current match on a cabinet, once a
  start has taken over what was put there by hand; one that does not run has none but by hand. `ByHand` says that somebody can activate a match, or
  that one was active before all began; `HoldsTogether` that nobody can, or the server stays up: a crash between the UPDATE of a
  start and `deactivateEveryMatch` leaves a match put there by hand beside the current one (see Findings).
* `StandsByItself` (`OneRequest /\ OneList /\ HoldsTogether => (Spec => []StandsWhereItShould)`) from `Abides`: a running
  schedule stands where a recalculation would put it (`Stands`), or a handler still has to recalculate it (`Owes`), or the next bootstrap has.
  The work is in the commands that do not recalculate: what they save must move nothing that a verdict depends on, whichever row
  they leave. `OneList` says that one schedule plays every match, since a schedule that waits for a match outside it is not told (see Findings).
* `PlayersAreAtOneCabinet` (`OneRequest /\ NobodyJoins => (Spec => []OneCabinetPerPlayer)`), for any number of schedules: a match is put on a
  cabinet only by a verdict that read every active match, and still does when it is written. `NobodyJoins` excludes activation by
  hand, rules, and the two commands that add an entrant: none of these looks at the other cabinets (see Findings).

**One match** (`MatchAggregate!Spec`, `PlacementAssumption`, `AggregateAssumption`): any finite sets of players and songs, any runs, points, scoring
systems and routings, any number of attempts.

* Places: `PlacesAreEarned` says of `resolvePlacements`, for any number of attempts, any averages and any rules, that places rank the
  points, that a tie it reports is of equal points, and that when it reports none, whoever is ahead of somebody sent another way has
  more points or won an attempt. `Refined` is its step: splitting a group of a ranking by an order leaves a ranking and moves
  nobody past another group. The folds over attempts and over points are unrolled along a set of indices (`FoldExists`, `SplitsStay`, `TotalIsNat`).
* `Inv` holds whatever overlaps: the match is `Sound`. Song rounds hold runs, have no points while a run of the
  field is missing, and every attempt is about a tie. One lemma per edit; `invalidateTiebreaks` is what each of them needs for `OfATie`.
  From it `TypeCorrect`, `AttemptsAreAboutTies`, `AdvancementIsEarned`, `PlacesRank`, and `EditsKeepPointsCurrent` (`Spec => EditsSettlePoints`).
* `Agreed`, with `~Overlap`, adds the column: it is the getter's answer, and between the halves of `refreshState` at most on the wrong side of
  a tie, since the rules decide nothing else of a state (`RulesDecideTies`). From it `ColumnIsTheGetter` and `MovesReachTheSchedule`.
* `Implementation` (`~Overlap => (Spec => ImplementsMatchLife)`): `Moves` is a step of `MatchLife` between two rows, and each edit of a sound match is
  one (`CommandKeeps`), whatever its column says. What decides it is when a match may be open, partial or settled (`StateFits`), and that
  a settled match carries evidence (`SettledHasEvidence`), as `match.aggregate.ts:160` says.

**Advancement** (`Advancement!Spec`): any matches, pools and rules, any number of requests and crashes. `DecidedPoolsAreCompleted`
(`Spec => []DecidedPoolIsCompleted`) has no hypothesis: the property itself says what may have overlapped. `IInv` has three parts. What is stored or
held has a state (`Stores`, `Held`). `Serial`, while every command ran alone: one request works, the target it holds is the one stored, a
completed pool is decided, and who is about to close a pool or to reopen a match of it finds it so. `Closing`, which survives overlap: of a
decided pool that is not completed, a request is at work on a match, or was left midway; so the last of several commits, whichever that is,
closes it. A pool that rules write to needs `clean`, since a target saved as it was loaded may bring back the state the pool had.

**The version of a division** (`Structure!Spec`): any shape, commands, routes, slots, writes and gestures. `VersionIsOfTheShape`
(`OneRequest => (Spec => []VersionVouches)`) from `Vouched`: the page never holds a version that is yet to come; while no rows wait for
their bump (`Behind`), a page with the current one shows the division as it is; and who writes a division back has
loaded the version that is still there. The last is what fails with two requests (see Findings). Of the recursive functions the proof uses
nothing: whatever a plan is applied to, it moves the version on.

**Lobby sessions** (`LobbySessions!Spec`, `SessionsAssumption`): any sessions, lobby codes and commands, any order of requests, messages, timers and socket
events. Of a process that is up, `Inv` says of each session that its socket, timers, awaiting caller and registration fit each other
(`Sound`; while the first dial goes on, somebody still waits for a first state or `connect()` was rejected: `Dialling`), that its code, its messages and its server speak of one lobby (`OneLobby`), that an active session is owned under its code (`OwnedAs`); that a closed
runtime has no active session, and a listed lobby is open on some session (`ListedIsOpen`).
From it `RegistriesAlwaysAgree`, `ClosedAlwaysHoldsNothing`, `CommandsEndWithTheirConnection`. `Owing` says of each promise of `connect()` that it is settled, or the timer of the first
state runs, or its handler does, never both, and that who still dials has the timer: from it `NoCallIsEverForgotten`. The lemmas say what the pieces of an event do to one session
(a hang-up, the continuation of a call that settled, a command's answer); each action is then one session's change.

**The page's view of a lobby** (`LiveProjection!Spec`, `BoundsAssumption`): any songs, any number of changes, events and faults.
`ViewIsAlwaysLatest` (`Spec => []ViewIsLatest`) needs what the view will be: `Flows` says that the frames on
a socket are numbered without a gap up to what the service has sent and only the first is a snapshot, so a page never skips one, and
`Follows` that the last message among them, or the view if there is none, is what the service holds. `Remembers`
(one message of each kind in the cache) makes the snapshot end in the last entry of the `Map`.

**A song on its way** (`SongDelivery!Spec`, `BridgeAssumption`, `IngestionAssumption`): any cabinets, players, songs and matches, any number of plays, losses and
restarts.
* `FinalsAlwaysWait` from `Settled`, what the bridge keeps between datagrams: only machines on the lobby's song have runs, a completed
  song has no timer, a final score has one or is in a completed song.
* `SessionsCompleteOnce` from `Once`, which ties bridge and reader: nothing of the session that goes on was completed unless the bridge has
  completed it, and who was shown in a snapshot read as a completion is no longer remembered as playing.
* `NothingIsEverDropped` from `Submissions` and `Delivery`: a completion that was read waits in the queue, is the one being recorded,
  is in the score table, or shares its id with another.
* `StandingsAreAlwaysFinals` (`~Hasty => (Spec => []StandingsAreFinals)`) carries `Truth` along the whole path: each score on the bridge, in a snapshot, in
  a completion, in the job and in a standing is half a run or a final score of that player on that song. `~Hasty` is needed
  (see Findings); it is the order that an operator who lets a song end before starting it again produces.

**Only model-checked.**
* Liveness (`PageCatchesUp`, `PassesSettledMatch`): the provers have no rules for fairness or `ENABLED`. Neither proved nor run are
  `EveryCallAnswered`, to which `NoCallIsForgotten` comes when timers fire and observers return, and `EveryRequestAnswered`; of the latter `interleaved`
  shows that two requests do not block each other, and the rest is the fairness of PostgreSQL.
* `TargetsHoldTheEarned` and `ReopenSparesProgress` of `Advancement` are claims about rules shaped as the run has them, and not true of all: two
  rules may send one player to one target, which loses him with the first result taken back; a corrected result is not carried on
  through a match that was itself committed; an entrant placed by hand leaves when the rules that would have placed him are taken
  back; unplaced players make the order of a result ambiguous.
* The functions of `Brackets`, `StructureDraft` and `StartggEvent` recurse over data, which the provers cannot do induction on: with them
  the invariants of `BracketWalk` and the properties of `StartggImport`. `TreeIsAsDrawn` and `RoutesLand` of `Structure` are about
  functions put together with `@@` and `:>`, which the provers do not expand.

## Plan

Done: the control room, placement and the match aggregate with its abstract specification, advancement and pools, completed
songs over the bridge, lobby sessions, the realtime projection, brackets, structure plans, the import of start.gg. Next:

1. *Control room*: entries as a variable, `replaceEntries`, the deletion of a scheduled match, which restarts the walk
   (`schedule.runner.ts:357`).
2. *SyncStart*: the registry of tournaments, with configure and close over a runtime that is still starting.
3. *Proofs*: `TargetsHoldTheEarned` for the rules it is true of (two stages, each player sent to a target once), as an
   assumption on `Rules`.

## Not modelled

Registration and the roster of a division are lists loaded and saved whole, with the same lost updates as `Structure` shows for phases; they are modelled as far as an
import needs them.
Reads without state of their own (statistics, catalog, queries), the report of a match to start.gg (best effort, and it changes nothing here), accounts and guards, health and metrics, migrations, the pages of the frontend but the structure
page and the live view, and the development tools are left out.
