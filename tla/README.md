# FlowVerse 3D: specification and verification

FlowVerse 3D (the repository `Motor-de-Simulacion`) draws business flows as graphs, simulates
them, and plays the simulation back to people who watch it live. This directory holds TLA+
models of the parts of it whose behaviour depends on order, failure and concurrency, the TLC
configurations that check them, and theorems about them checked by the TLA+ proof system.
Paths below are relative to the repository.

## 1. Inventory

The system is a Go API (`apps/api`), a Next.js editor (`apps/web`) and TypeScript packages
(`packages/*`). A flow is drawn in the editor, saved as a draft, published as a version, and
executed as a run; the API computes the whole simulation at once and then plays its events.

| Component | State | Operations | Hard part |
|---|---|---|---|
| Run playback, `runtime/manager.go` | one `state` per active run: planned events, index, flags, speed, wake channel, subscribers; `Manager.active` | Start, play, Pause, Resume, Step, SetSpeed, Cancel, Subscribe, RecoverInterrupted | a goroutine, requests and subscribers over one lock; a store that fails; crashes |
| Run journal, `store/*.go` | `runs`, `run_events`, `node_runs` | CreateRun, UpdateRun, AppendRunEvent, InterruptActiveRuns | status and events must agree; several writers |
| Run leases and quotas, `runtime/coordination.go`, `store/*run_coordination.go` | `run_leases`, `reservations` | Reserve, heartbeat, takeover, Abandon, FailReserved, InterruptExpiredRunLeases | clocks, two instances that believe they own a run |
| Run creation, `httpapi/run_handlers.go` | idempotency key to run | createRun, createDraftRun | a request retried after a failure at any point |
| Token simulator, `engine/simulator.go`, `packages/engine` | queue of tokens, barriers, visits, lineage | fork, join all, join any, decide, limits | tokens that wait for siblings that never come |
| Flow drafts and versions, `httpapi/resource_handlers.go` | draft, ETag, versions | replace, patch, import, restore, publish | lost updates |
| Autosave, `useAutosave.ts`, `flow-store.ts` | document, ETag, save status, a debounce and requests | edit, save, conflict, publish, restore, leave | edits during a save, answers out of order |
| Run view, `flow-service.ts`, `RunControls.tsx`, `EditorClient.tsx` | the run, its status, the last 500 events, the stream | start, control, connect, apply an event, reconnect | a socket and answers that cross; effects that start again |
| Editor commands, `flow-store.ts`, `EditorClient.tsx`, `Inspector.tsx` | definition, past, future, selection, connection in two clicks | add, connect, move, delete, undo, redo, select | identifiers kept while undo takes their nodes away |
| Validation and layout, `validation.ts`, `layouts.ts` | none | validateFlow, flowMetrics, positionsForLayout | recursive algorithms over cycles |
| Readers of flows, `csv.ts`, `localTextToFlow`, `packages/codegraph` | a queue over the modules | a CSV, a text, a program become a flow | identifiers, cycles of imports, early returns |
| Semantic diff and command line, `semantic-diff.ts`, `packages/cli` | files, exit code | validate, diff, simulate, check, SARIF | what counts as a change of behaviour; errors in the middle |
| Scenario Lab, `ScenarioLabDialog.tsx`, `scenario-lab.ts`, `scenario-presets.ts` | forms, result, versions, presets in localStorage | compare, save, load, remove | a draft and a store that change underneath |
| Three-dimensional scene, `packages/viewer` | objects of the library, batches, labels | a frame, a change of the flow, a move of the camera | a library that makes its objects again when it pleases |
| Copilot and Time Machine, `EvidenceCopilotDialog.tsx`, `IncidentTimeMachineDialog.tsx`, `incident/report.go` | question, answer, report, frame, transport | ask, inspect, open an incident, play, fetch again | answers and reports that arrive later |
| Sessions, `auth/service.go`, `api-client.ts` | access and refresh tokens, cookies, one renewal per page | login, refresh, logout, a request refused and sent again | a refresh token used twice at once |
| Live tickets and share links | single use tickets; token hash, revocation, expiry | NewTicket, ConsumeTicket, create, revoke, read | reuse, expiry |
| Rate limiter and admission, `httpapi/ratelimit.go`, `admission.go` | windows per key, semaphore | allow, evict, admit | full tables, windows that roll over |
| Audit chain, `enterprise/audit.go` | hash chained events, checkpoints | append, verify | truncation; the chain itself is under a mutex |
| Policies, plugins, administration pages, the analyzer, external models, telemetry | none, or that of a page | pure functions and I/O | not concurrent |

How they interact: `createRun` inserts the run (created), runs the simulator, and hands the
planned events to `Manager.Start`, which stores the run as queued and starts the goroutine of
`play`. `play` and the control requests write through `AppendRunEvent`, and publish what was
written to the channels of the subscribers; `liveRun` copies a channel to a WebSocket; the
editor deduplicates by sequence, shows the run, and opens the Time Machine on its report. Every
request of the editor goes through `apiFetch`, which renews the session once for all that are
refused. The definition that the commands change is what Autosave saves, what the scene draws and
what the Scenario Lab and the local mode simulate. At startup `main` calls `RecoverInterrupted` before it listens.

What makes each correct is stated as properties below where a module exists, and otherwise in
the hazards of `PROJECT.json`, each at the line where it bites.

## 2. Modules

| Module | Models | Checked by | Proved in |
|---|---|---|---|
| `RunJournal` | the abstract promise: a log that grows one event at a time and is closed once, and observers with a prefix of it | through `RunPlayback` | `RunPlaybackProofs` |
| `RunPlayback` | `runtime/manager.go` with the store operations it uses and `liveRun` | `MCRunPlayback` | `RunPlaybackProofs` |
| `RunPlaybackInv` | the inductive invariants of `RunPlayback` | `MCRunPlayback` | `RunPlaybackProofs` |
| `Documents` | `engine/condition.go` pointers, operations of a node, merge of branches | through `Simulator` | `SimulatorProofs` |
| `Simulator` | `Simulator.Run` of `engine/simulator.go`, `createSimulationPlan` of `packages/engine` | `MCSimulator` | `SimulatorProofs` |
| `SimulatorInv` | the inductive invariants of `Simulator` | `MCSimulator` | `SimulatorProofs` |
| `FlowDraft` | the draft of a flow in the API, replaced on condition of its ETag | through `Autosave` | |
| `Autosave` | `useAutosave.ts`, the document of `flow-store.ts`, the dialogs that save, against `FlowDraft` | `MCAutosave` | `AutosaveProofs` |
| `AutosaveInv` | the inductive invariant of `Autosave` | `MCAutosave` | `AutosaveProofs` |
| `RunStream` | the run as the editor shows it: `flow-service.ts`, `RunControls.tsx`, the run state of `flow-store.ts` | `MCRunStream` | `EditorProofs` |
| `Timeline` | the abstract promise of undo and redo | through `Editor` | `EditorProofs` |
| `Editor` | the commands of `flow-store.ts`, `EditorClient.tsx` and `Inspector.tsx` | `MCEditor` | `EditorProofs` |
| `FlowGraph` | `validation.ts` and `layouts.ts` | through `FlowImport` and `FlowReview` | |
| `CodeGraph` | `csv.ts`, `localTextToFlow`, `packages/codegraph` | through `FlowImport` | |
| `FlowImport` | the material that is read, and the reading of it | `MCFlowImport` | |
| `FlowDiff` | `semantic-diff.ts` | through `FlowReview` | `FlowReviewProofs` |
| `FlowReview` | `packages/cli`: arguments, commands, exit code, SARIF | `MCFlowReview` | `FlowReviewProofs` |
| `ScenarioLab` | the Scenario Lab and its presets | `MCScenarioLab` | `ScenarioLabProofs` |
| `Scene` | the frames of `FlowScene3D.tsx`, its batches, objects and labels | `MCScene` | `EditorProofs` |
| `Incident` | root cause of a report, state rebuilt at a frame | through the next two | |
| `RunIncident` | the Time Machine over the runs of `Simulator` | `MCSimulator` | `SimulatorProofs` |
| `EvidenceCopilot` | the copilot and the transport of the Time Machine | `MCEvidenceCopilot` | `EvidenceCopilotProofs` |
| `Sessions` | `auth/service.go`, its handlers, `api-client.ts` and the pages that use it | `MCSessions` | `SessionsProofs` |

`Simulator` produces the plan that `RunPlayback` plays. They are checked apart and meet in one
property: `PlanIsPlayable` of `Simulator` is `PlaybackAssumption` on the plans of `RunPlayback`,
and both take the types of events from `RunJournal`. `Autosave` extends `FlowDraft`: the tab
sends requests, and a request is served by an action of the draft. `Editor` implements `Timeline`
as `RunPlayback` implements `RunJournal`, by a refinement mapping that TLC checks and the proofs establish. `RunIncident`
composes `Simulator` with `Incident`: it replays the events of every run that `Simulator` makes.
`FlowImport` extends the graph of `FlowGraph` by `CodeGraph`; `FlowReview` takes any validation as a
constant (`IssuesOf`), and `MCFlowReview` gives it that of `FlowGraph`.

The twelve runs, in the order of `PROJECT.json`:

| Run | Question | Bounds | States |
|---|---|---|---|
| `safety` | is the history closed once, a superset of what clients saw, equal to memory, and an implementation of `RunJournal`? | 2 requests, 1 client, 3 plans, 3 controls, 1 storage error, 1 crash | 1.1 million |
| `liveness` | does an ended run leave `Manager.active`, do clients catch up, is no wake-up lost? | 1 request, 2 controls, 1 error, 1 crash, two speeds | 78 thousand |
| `simulate` | is time ordered, does each token meet one fate, are joins, merges, plans and verdicts sound, does the Time Machine rebuild the run? | 878 scenarios | 5 thousand |
| `edits` | are saves serialised, is nothing lost, does the editor tell what happened? | 2 definitions, 2 visits, 2 edits, 1 incident | 323 thousand |
| `stream` | is what is delivered shown once, the status true, the end shown? | 2 runs of 2 events, 3 clicks, 2 faults, 1 reconnection, a window of 5 | 856 thousand |
| `editor` | does no command spoil a definition, is what is shown what is marked, do undo and redo walk a line? | 6 commands, 5 identifiers, 4 documents, 2 steps of history | 1.5 million |
| `imports` | do the graph algorithms compute what they are for, do the readers give flows? | 3 rows, 4 lines, 3 imports, 3 functions with 2 calls, bodies with nested branches, 5 drawn edges over 4 nodes | 274 thousand |
| `review` | does the difference see every change of behaviour, are exit code and SARIF log true? | every definition 2 edits from a valid one, 38 command lines | 205 thousand |
| `lab` | is the comparison on the screen that of the forms, are presets kept? | 3 changes or presets, 2 versions, 1 step of another tab | 879 thousand |
| `scene` | do the batches and labels show the flow, whatever the library does? | 2 nodes, 1 link, 3 changes, budget of 1 label | 954 thousand |
| `copilot` | is the answer that of the question, does the transport come to rest? | 2 runs, 2 parts, 2 questions, 1 change of the draft | 778 thousand |
| `sessions` | is nobody expelled without reason, has a family one good refresh token? | 2 tabs with 2 requests, 3 pairs, 3 clicks, 3 troubles | 2.8 million |

### RunPlayback

State: `stored` is the row and the `run_events` of one run; `launch` is how far `createRun`
got; `active`, `player`, `planned`, `index`, `status`, `events` and the flags are
`Manager.active`, the goroutine and the fields of `state`; `wake` is the token of the one-slot
channel. `holder`, `phase` and `pending` are `state.mu`: who holds it, and where in
`appendLocked` or `interruptLocked` the holder is. `ctl[c]` is a request inside
`Manager.control`; `conn`, `chan`, `room`, `seen` are a WebSocket client, the buffered channel
of its subscription, the capacity of that channel, and what the client applied.

Grain: a critical section that writes nothing is one action. One that writes is split where
somebody without the lock can see the difference: the store after the write and before the
publication is visible to HTTP readers, to `Replay` and to a crash. `PlayEvent`, `Pause`,
`Resume` and `Cancel` start a write; `WriteOk` and `WriteError` are the storage call;
`PlayPublish`, `PlayStepDone`, `PlayStepPaused`, `ControlPublish` end the section;
`InterruptRecorded` and `InterruptUnrecorded` are the second write of `interruptLocked`.
Lookup in `Manager.active` (`ControlLookup`, `Connect`) is a step of its own, because the lock
of the run is taken later.

Failures: `WriteError` reports an error for a write that was refused, rolled back, or committed
with its answer lost. `Crash` forgets everything except the store and what clients applied.
`Restart` is `RecoverInterrupted`, which interrupts an active run only if its lease row expired
(`LeaseRow`: a run that no instance reserved has none in Postgres).

Abstracted: times, payloads, telemetry, node runs, the pacing sleep (the player may take its
next turn at any time) and the value of the speed, which changes pacing only. The Memory store
is modelled with Postgres: both refuse an event for a run that is not active or whose sequence
is not the next one. The model starts at a run whose simulation succeeded; a run whose
simulation could not start never reaches the manager and is left to the planned `RunCreation`.

Properties. `TerminalClosesLog`: the row and the log agree that the run is over. `SeenIsDurable` is
the comment "durability precedes publication" from the client's side. `MemoryMatchesStore` says
that between critical sections a playing run has in memory what is stored, and that only a granted
step is ahead of the store. `StepStopsAfterOneVisit` and `PausedIsQuiet` say what a step and a
pause are for. `JournalSpec` is refinement: the log is contiguous and final. `PlayerMovesOn` joins
`ControlsWakePlayer` (a resume, a step or a cancel moves the player) and `PlaybackEnds` (a run that
is not paused ends), both while the store works.

Three promises of comments and documents do not hold, and the properties above are stated without
them. (1) `Resume` and `Cancel` return before they notify `wake` when their write fails
(`manager.go:351`), so the goroutine that waits at line 133 is stranded although the comment at
line 221 says "interruptLocked stops playback immediately"; hence "while the store works".
(2) When a write committed and its answer was lost, `interruptLocked` (line 231) numbers
`run.interrupted` with the sequence the committed event already has and is refused: the run stays
active with nobody playing it, although lines 221-222 promise a durable `run.interrupted` "if
persistence has recovered". (3) `InterruptExpiredRunLeases` joins `run_leases` (`postgres.go:948`)
and nothing inserts a lease row, so the startup recovery leaves such runs active, against
`apps/api/README.md:181-182`; `LeaseRow` is the constant that tells the two cases apart.

One more difference was seen and no run is spent on it: `docs/simulation-engine.md:312` allows a
pause in the running status only, and `Pause` (`manager.go:295`) accepts it while the run is
queued, so that `run.paused` may be the first event of a log.

Bounds. Two requests are enough to have one wait for the lock while the other writes, and one
find the run ended after its lookup; they are symmetric. One client is enough because
subscribers do not see each other; its channel has one slot beyond the replay (128 in the code)
so that it fills up. Three plans: one that completes, one with a skipped and a failed visit (a
step must stop after each), one that hits a limit. One error and one crash are enough for each
to fall between any two steps, and a second error is the failed `interruptLocked`, which a
refused sequence also causes.

Fairness. The goroutine (`Play`) and each request (`Control(c)`) are weakly fair: Go schedules
them and they hold no lock while they wait. `Persist` is weakly fair: every storage call returns,
with an answer or an error. `Restart` is weakly fair: the process is supervised. A client
reconnects (weak fairness of `Connect`, `Attach`, `Replay`, `Hangup`), and `Receive` is strongly
fair, since a connection that broke before every frame would never deliver one. Nothing is
assumed of requests arriving, of crashes, of errors, or of connections that break.

### Proofs

All theorems hold for every value of the constants allowed by `PlaybackAssumption`: any number
of requests and clients, any set of plans that end with one verdict, any bounds.

Of the abstract journal `RunPlaybackProofs` shows first that it is contiguous, closed once and that
observers have prefixes of it (`JournalSafe`), and that a recorded event is final
(`JournalFinal`).

Then it proves `Spec => []IInv`, from which `TypeCorrect`, `LogIsContiguous`,
`RunClosedOnce`, `PublishedIsDurable` and the refinement `PlaybackImplementsJournal` follow.
None of these is inductive alone. That a write keeps the log contiguous is the check of the
store, but that the player may remember what it wrote (`MemoryInv`) needs to know that nobody
else writes meanwhile (`LockInv`), that no request acts on a run a crash took away
(`HandleInv`) and that nobody acts before the start (`NotStarted`). That clients have a prefix
needs `StreamInv`: a channel holds the stored events that follow what its client applied, and a
live one reaches the last event in memory, so the next published event fits. The proof first
shows which actions change which variables (the frame lemmas), then one lemma per conjunct with
one case per action that can disturb it; the three properties of the journal come from the
refinement step and the step lemma of the journal, so they are proved once.

The second invariant, `PauseInv` of `RunPlaybackInv`, is about what a playing run has in memory,
and holds together with `IInv` (theorem `Pauses`). It says where the flags `paused` and `stepping`,
the status and the last stored event can stand at each point of a critical section: a step is
granted only to a paused run; while a step is under way the stored log has a `step.granted` (or
`run.paused`) with no completed visit after it; what is pending is one event beyond memory.
`MemoryMatchesStore`, `StepStopsAfterOneVisit` and `PausedIsQuiet` are not inductive without it,
since each speaks of a moment between sections and the lock is given up and taken again in between:
`MemoryIsStored` and `StepsAreSingle` follow from `PauseInv` in a state, `PausesAreQuiet` from it
and from the frame lemmas over a step.

`IInv`, `TypeOK` and `LogContiguous` are proved and no longer run: the theorems cover them.
Only model-checked: the liveness properties, since fairness is out of the prover's reach.

### Simulator

The simulator is sequential: a call takes a flow, an input, overrides and limits, and returns
events. What is hard in it is the bookkeeping of forks and joins over a queue ordered by logical
time, and each iteration of its loop is one action: the outcomes of a token at a join that starts
no visit (`Uncorrelated`, `AnyAlreadyResolved`, `DuplicateBranch`, `AwaitSiblings`,
`MergeConflict`), a visit refused by a limit (`ExceedLimit`), a visit and its ends (`FailVisit`,
`ReachEnd`, `InvalidChoice`, `Traverse`), and the code after the loop (`Finish`). What a token
does at a join is `Activations`, shared by the actions that visit. The only nondeterminism is the
scenario, and the merge of Go, which replays writes in the order of a map: `Merges` is the set of
its outcomes. The field `sorted` of a scenario selects the TypeScript engine, which sorts.

`queue`, `barriers`, `resolved`, `visits`, `steps`, `tokens`, `forks`, `runCode`, `outputs` and
`events` are the local variables of `Run`. Nodes and edges are numbers since the code compares their names.

Abstracted: a document is its leaves, at paths of the constant `Keys`, so that an empty object is
absent, and there are no arrays; a default that a scalar of the input blocks is `DefaultsFail`: the
TypeScript engine refuses to plan then, and to rebuild the context of a join, the Go engine leaves the
default out; the condition operators are all there, over numbers and sets of keys; the configured `output` of an end node, `NodeRuns`
and `EdgeCounts`, the token named by `run.deadlock` (`simulator.go:462-464`), messages and times of day are left out. The
model starts after validation: a scenario is `Executable`. Reachability and cycles, which
validation also looks at, are not required, so the scenarios are a superset of what it accepts.

Properties. `VisitsInTimeOrder`, `TokensAccounted`, `PlanIsPlayable` are what they are called.
`JoinsAreSound` says that the frames of two tokens of one fork agree and that an any-join passes
once for each fork. `MergesAreSound` says that a merge loses no write, and that the engine that
sorts the writes has one outcome. `ReturnsAVerdict` is liveness: every call returns, with a verdict
that the events justify. `ReplayMatchesRun` is about the Time Machine, see the section on `Incident`.

Two promises of `docs/simulation-engine.md` do not hold and are not stated. Line 235 says that a
change in one branch only is accepted, but `mergeTokens` compares every write since the start of
the run (`simulator.go:796`): a value set before the fork and set again by one branch conflicts.
Line 88 says that nothing depends on the order of a map, but the Go merge replays the writes in
that order (`simulator.go:803`), so an object and a field inside it have two outcomes; the
TypeScript engine sorts them.

More places where `docs/simulation-engine.md` and the code differ were seen while modelling,
and no run is spent on them: the context after a join is rebuilt from the defaults overlaid by the
top-level keys of the input, so a default nested inside an object of the input is lost though no
branch changed it (line 233, `simulator.go:784`); nothing remembers a barrier that completed, so a
further token of one of its branches opens it anew and the run ends in `run.deadlock` (line 224,
`simulator.go:276`); writes to an object and inside it by two branches do not conflict
(line 240, `simulator.go:796`); a branch that fails does not release its join, and
`join.branch_failed` is never emitted (line 228); a visit whose edges cannot be chosen is
reported `node.completed` and then `node.failed` (line 112, `simulator.go:402`); the queue does not
look at the priority of edges (line 85, `simulator.go:187`). The two engines disagree on a default
whose path a scalar blocks: `simulation.ts:278` throws, so that the plan is refused (line 534) or a
join ends in a conflict (line 630), while `simulator.go:636` ignores the error and goes on.

Bounds. The scenarios are diamonds of all joins with durations, operations, overrides and limits;
nested forks that close in one or two any-joins; decisions in a loop, and one on a condition of
every kind; stray joins; overlapping writes, and defaults of which one lies inside another, in both engines. Two branches are enough for every pair that can meet at a join, and a fork inside a
branch for the frames that remain. Durations 0, 1 and 2 give every order of two arrivals,
equality included. `maxSteps` is 3 or 20 and `maxVisits` 2 or 4, so that limits are reached inside
a fork and in a loop, or not at all. Fairness: `Run` is one call that takes its steps until it
returns, hence weak fairness of `Next`; a call that returned stops, hence no deadlock check.

### Proofs of Simulator

`SimulatorProofs` proves `Spec => []IInv` (`SimulatorInvariant`) for every scenario allowed by
`ScenarioAssumption`: any flow, any limits, both engines. Three results follow: visits start in the
order of logical time (`VisitsKeepTimeOrder`), limits are kept (`LimitsAreKept`), and the plan of a
call that returned satisfies `PlaybackAssumption` (`PlansArePlayable`), which is what
`RunPlaybackProofs` assumes of the plans it plays.

That time never goes back is not inductive as it stands: a token that completes a join takes the
time of the barrier it fills. The strengthening is `BarrierInv`, that no barrier is ahead of the
queue; with it the token that leaves a join has the time of the token that arrived. The proof
sorts the steps into three kinds, a token that starts no visit, a visit, and the last step, and
shows each conjunct once per kind.

`JoinsTellForksApart` proves `JoinsAreSound` from `JoinInv`, whose new part is `LineageInv`: no
token, queued or held by a join, carries a frame of a fork that has not been counted. Without it a
new fork could take the number of an old one and two tokens would agree by accident. A token
changes its lineage in three ways only (a fork appends a frame, a join removes the last one, the
other moves keep it), and the proof has a lemma for each.

`TokensMeetOneFate` proves `TokensAccounted` from `NumberInv`: the tokens of the queue have
numbers of their own, and no event names a token that was not counted. A step is of two kinds:
one token leaves the queue with one new fate and its children are numbered above all others
(`MeetsFate`), or the call returns and drops what remains, which only a limit may do
(`DropsTokens`). That fates are counted once is proved for the two kinds, and each action is shown
to be of one of them.

`ReplaysMatchRuns` proves `ReplayMatchesRun` of `RunIncident`; its argument is in the section on
`Incident`.

`VerdictsAreJustified` proves the safety half of `ReturnsAVerdict`. `ReasonInv` is its invariant
while the call runs: no failure is marked as long as no node has failed, and a failure that is marked
is the code of a node that failed or of an end that fails. `Finish` and `ExceedLimit` then find their
verdict justified by it.

`MergesKeepWrites` proves `MergesAreSound`, for documents of any keys and operations of any number.
Its invariant, `DataInv`, says that every token that is queued or held carries a document and
writes to finitely many paths. The rest is about one merge. The library has no induction that
can be instantiated here, so the contexts of a replay are a recursive function, and what holds of
them is shown by `CountUp`, which counts through a set of numbers. A leaf of the final context is
decided by the last write at or above it (`LeafDecided`). The writes above one leaf form a chain, so
with parents first the last is the deepest (`LastIsDeepest`), whatever order the others came in:
hence one context (`OrdersAgree`), and a write that is blocked in one order is blocked in all
(`BlockedAlike`). That such an order exists is `ParentsFirstExists`, and a write with none above or
below it decides all that is read there (`WriteIsKept`).

Only model-checked: that every call returns, which is liveness.

### Autosave

State: `draft` and `versions` are the row of the flow and its versions. `doc`, `status` and `ours`
are `document` and `saveStatus` of `flow-store.ts`, and whether the document in the store is that of
this flow. `page` is what `EditorClient` shows and `hook` the instance of `useAutosave` of the
present or last visit; `pending`, `flush`, `timer` are the refs of each instance, which outlive the
component until its requests are done. `calls` are the requests: of a hook, or of a dialog.

Grain: an action is one task of the browser, with the microtasks and the React effect it causes.
The store is read with `useSyncExternalStore`, whose updates React renders and whose effects it
runs before the next task, so `Effect` is part of the step that changed the store, and no timer or
answer falls between an edit and the debounce it starts. In `SaveCompletes` the effect runs
between `then` and `finally`, as in the code. A request and its answer are two steps, with `Serve`,
the handler of the API, in between; `Break` is an error the tab sees of a request that was not sent,
is served later, or was served with its answer lost.

Abstracted: a definition is a value, and `ref` the identity of the object, which
`completeAutosave` compares; the ETag is the definition, as it is its checksum. The
revision is the client's counter, as in the code, since an ETag is not a number. `keepalive`
changes who waits for a request and not what it does. A refusal to publish an invalid flow is an
error as any other. A permission lost meanwhile and the local mode without an API are left out.
What markSaved does to the document of another flow that has taken the store is not modelled; it
gives it the ETag of this one.

Properties. `NoFalseConflict` is about one visit without incidents, the case in which nothing else
can be blamed. `EditsAreKept` is what makes the debounce work (a dirty document is queued in its
last form and something will send it, whoever cleared the timer), and that a visit without
incidents loses nothing. `OnlyRacesHurt` says that what is shown as saved is stored, and that a
draft is replaced only by a visit that knew it, except in three races. The first two contradict
the code's own documents. (1) A dialog saves the document of the click and declares the document of the moment
saved (`EditorDialogs.tsx:693`): an edit made in between is not sent, although
`flow-store.ts:485-486` guards against just that elsewhere. (2) `completeAutosave`
(`flow-store.ts:470`) compares the flow and not the visit: a page opened again before the last save
of its previous visit was served takes its ETag over and overwrites it with the older draft, against
`docs/3d-experience.md:254-255`. (3) `saveNext` gives what waits behind a save the revision of its
answer (`useAutosave.ts:72-82`), and `completeAutosave` takes an ETag over only if its revision is
not older than the document's (`flow-store.ts:473`). When dialogs were answered while the save was
under way, the snapshot that waits has an older revision than the document; its own answer is shown
as "saved" and the document keeps an ETag that is not its own (`Overtaken`). This race was found
while `RacesOnly` was being proved: it takes three incidents, more than the run has. `EditsSettle` is the promise to the user: an edit is saved or the
failure is shown.

Bounds. Two edits, so that one is made while the other is debounced, in flight or queued. Two
visits, since an answer is late for at most the one after. One incident falls between any two
steps: a dialog that saves, an error, or a write by somebody else. Fairness: timers fire, a
request is served or fails and its answer is handled (`TimerFires`, `Serve`, `Answer`, `Dialogs`,
`LoadDocument`); nothing is assumed of users, of errors or of other writers. The system may rest
once the bounds are used up, hence no deadlock check.

Also seen: `docs/3d-experience.md:154` says 750 ms and line 157 that transient errors are retried
with backoff, while `useAutosave.ts` waits 900 ms and never retries (its comment at line 89 says
why); a dialog and autosave may save at the same time with one ETag, and the loser is shown
an error or a conflict with oneself.

### Proofs of Autosave

`AutosaveProofs` proves `NoConflictOfItsOwn`, `NoEditStranded` and `RacesOnly`, that is
`NoFalseConflict`, `EditsAreKept` and `OnlyRacesHurt`, for any definitions and any number of visits,
edits and incidents. The invariant of `AutosaveInv` has two layers. `DataInv` is inductive by
itself and enough for `RacesOnly`: every snapshot that waits at a hook or was sent is of that
hook's visit, is not newer than the document, equals it if it is of the same edit, and has an ETag
the visit has seen. On it rest `WillBeSaved`, and `Chain` for the first visit without incidents:
its saves are one chain, each based on the one before, whose end is what waits or the document.
None of the three properties is inductive: that an answer is no conflict depends on what was
queued two saves before.

The operations of a hook call one another (`queueSave`, `saveNext`, the effect, the unmount, the
`finally`), so the proofs are not made per action. `Within(k, Q, C, st)` says that a desk `k` has
in its queues only what is in `Q` and in its requests only `C` and what was queued; one lemma per
operation shows that it keeps a desk within what waited before and the document of the moment, and
each action then only has to show that both are good. `Linked` and `Timed` do the same for the
chain and for the timers. Only model-checked: `EditsSettle`, which is liveness.

### The run as the editor shows it: `RunStream`

State. `source`, `run`, `status`, `visible`, `node`, `cursor`, `history` are `runSource`,
`remoteRunId`, `runStatus`, `visibleEvents`, the last change of `nodeStates`, `eventCursor` and
`runHistory`. `links` are the closures of `connectRunEvents` that still have something to do: the
effect of `EditorClient.tsx` is torn down and run again whenever source, run or status change, so
there are several, and all but one are `stopped`. `journal` is what the API has stored (external;
`RunPlayback` models it). `starting` and `control` are the requests of `RunDialog` and
`RunControls`.

An action is one task of the browser: a click, the answer to a request, a message of a socket, a
timer. A reload of the page, a broken socket, a refused ticket, a lost request and an interruption
of the API are actions of their own. The events that the local player still has (`plannedEvents`) are
not kept: `LocalTick` may play one where the code has none left, which only adds behaviours.

Properties. `FollowingIsSound`: one closure at most follows the run on the screen, and what it
delivered is shown once. `CaughtUpIsTrue`: once every event is shown and no request is under way, the
status is that of the journal, although the answer of a control crosses the event it caused.
`EndIsShown` is liveness: the end of a run is shown unless the five attempts were used up or the
user moved on. What is said of the events shown holds while the run is `Alone`: no other run was
created since the page was loaded, and the log fits the window. The reducer tells neither the runs
nor the events it has cut apart, and section 4 says what happens then.

Fairness. A timer of the local mode fires, the API serves and answers what it received and plays
its plan, and the closure that is not stopped goes on with its ticket, its socket, its delay and
the events that are there. Nothing is assumed of the user, of faults or of stopped closures.

Bounds. Two runs of two node events and an end, three clicks (two starts and a control, or a start
and two controls), two faults and one of the five reconnections: enough for an answer and an event to
cross in both orders around a break, and for a second run to start while closures of the first are
left. A window of five events is the longest log that three clicks can make.

Proofs. `EditorProofs` extends this module too (hence `StreamInit`, `StreamNext` and `StreamSpec`)
and proves both invariants for any runs, window, number of attempts, clicks and faults
(`RunIsFollowed`, `StatusesAreTrue`). `StreamInv` says of a run that is alone that its first `k`
events are shown and that no closure, stopped or not, is further than `k` (`ShownUpTo`), so that an
event that arrives is the next one or a duplicate; and that the status is that of the journal unless
an event that decides it is still to come. The answer of a control keeps this because of
`StreamControls`: an accepted pause left a journal that is not running, an accepted resume one that
is not paused, and nothing but another control could change that back. `StreamOrigins` shows why no
closure of a run exists before the run is shown. That one closure follows needs none of this, and no
condition: the effect stops what it leaves (`LinksOfEffect`).

### The commands of the editor: `Editor` and `Timeline`

State. `definition`, `past`, `future`, the three selections, `connectMode` and
`connectionSourceId`, as in `flow-store.ts` and `EditorClient.tsx`; a node keeps type, lock, one bit
of text and one of two positions; an edge keeps its ends, its priority and whether it is the default.
One action is one command of the user, with all that the store does in it. A new identifier is past
`used`, the largest that was ever within reach: `createNode` takes the clock, so it is new.

Documents. What is loaded, imported, written as text or restored is any member of the constant
`Foreign`. `DocumentsAssumption` asks of it what `parseImportedFlow` asks (the JSON schema, here
`IsDefinition`) and no more: an edge may lead nowhere or leave an end. `MCEditor` gives four: one
node; a whole flow; an edge that leaves an end and leads nowhere; an edge from nowhere to itself.
`Inspect` is a click on an issue of the validation, which can name such a missing node
(`Selectable`); the other issues and the copilot name nodes that are there. Identifiers are told
apart: the schema lets two nodes have one, and functions by identifier leave that out.

Properties. `EditorIsConsistent` is `GraphClosed` and `OneSelection`. `GraphClosed`: of every
definition on the screen or within reach of undo and redo, each end of each edge is at a node with a
port for it, or is exactly as a document brought it, whatever was undone, redone or deleted between
the two clicks of a connection. So no command makes a bad edge, and deleting a node does not leave one.
`OneSelection`: a node and an edge are never selected together, what is marked is there and is
marked once, and the node shown in the Inspector is the last one marked, so that Delete takes what
is shown. There is one exception, named `Copied`: the copy that `duplicateSelected` has just made is
shown while the original stays marked (section 4). `HistoryIsALine` is refinement: with
`line <- past \o <<definition>> \o future` and `at <- Len(past) + 1` every step of the editor is a
step of `Timeline` or leaves it alone. It says that undo and redo lose nothing although `past` and
`future` are cut independently.

Bounds. Six commands, five identifiers and a history of two steps in place of 100: the history is
full after two edits, and there is room to undo and to redo at its limit; six commands are enough to
duplicate, mark, undo and delete, or to connect to a node taken away in between. There is no
liveness here: nothing happens unless the user acts.

Proofs. `EditorProofs` proves both for any types of nodes, any documents, any limits and any length
of the history (`Consistent`, `ImplementsTimeline`), and of documents that are whole to begin with
that they stay so: every edge within reach is then at nodes that are there and have a port for it
(`WholeStaysWhole`). The commands are many and do one of five things to the history (`HistoryStep`):
leave it alone, empty it, undo, redo, or make a definition that is `Safe`; a lemma for each command,
and the rest is about the five. Sound definitions are not inductive by themselves, since one that
comes back may lack a node whose identifier is still held somewhere, and since a new node could
appear where an edge of a document leads nowhere: `OldNames` says that no definition within reach
mentions an identifier that was not given yet. The refinement needs `ShortHistory`: `past` and
`future` together fit in one limit, so the cut that `redo` and `undo` make never drops anything. What
the filter of a selection keeps is an induction over a sequence; it is made by taking the least
length at which the claim fails (`LeastNumber`), since the induction theorems of the library are out
of the provers' reach.

### Validation, layout and the readers: `FlowGraph`, `CodeGraph`, `FlowImport`

`FlowGraph` has the algorithms of `validation.ts` and `layouts.ts`, written as the code runs them:
reachability over a queue, the components of Tarjan with their shared index, low links and stack,
the walk that gives each node its layer and stops after four turns a node. `CodeGraph` has the
readers: `parseFlowCsv`, `localTextToFlow`, and for programs `extraerModulos`, `extraerFunciones`,
`extraerRecorrido` and `extraerRecorridoDeNegocio` over what the adapters read (specifiers of
imports, names of callees, statements of a body). `FlowImport` is the state machine around them:
the material grows step by step, one row, line, import, call or edge at a time, and then is read.
Reading is one step, except for the loop of `extraerModulos` over its queue, which is an action a
turn and is cut once a module lies deeper than there are files (a cycle of imports).

Properties. Each compares an algorithm with what it is for. `ComponentsAreClasses`: the recursive
visit finds the classes of nodes that reach each other. `ValidFlowCanStop`: in a flow without
errors a result is within reach of a start, and from every node there is a way to stop.
`LayersGoForward`: without cycles the layer of a node is the longest way to it, and no layout puts
two nodes in one place. `ReadingIsSound`: what is read is a whole flow, the depth of a module is
the longest chain of imports, and every journey ends.

Bounds. Three rows, four lines, three files with three imports, three functions with two calls
each, bodies with nested branches, loops, returns and throws, and every drawing of up to five edges
over four nodes of several choices of types: enough for two cycles that share a node, for a
component inside another, and for a module reached at two depths.

### Semantic difference and command line: `FlowDiff`, `FlowReview`

`FlowDiff` has the tables of impact and the rules of `semantic-diff.ts`; a part of a definition is
a function from identifiers to records of fields, since the code compares by identifier.
`FlowReview` edits a file (`SetField`, `AddItem`, `RemoveItem`) and then runs one command line: the
parsing of arguments, the files that are read, the four commands, the exit code, the SARIF log and
the writing of the report, with the order of errors as in `runCLI`. An option without a value is as
none where the code asks whether it has one (`Given`), every `--force-edge` is looked at, and a
simulation that failed is a warning of the log. Whether an input blocks the defaults of the
variables and whether a plan ends in a failure are the constants `DefaultsFail` and `PlanFails`: they
are what `Documents` and `Simulator` model.

Properties. `VisualChangesKeepBehaviour`: two definitions with only visual changes between them are
the same to the engine. `RevertIsSeen`: a change of behaviour is one in both directions.
`ReportIsSound` joins `GateIsSound` (exit code 0 means what the policy promises to the callers of
the baseline) and `SarifAgrees` (the log has an error exactly when the candidate was rejected).

Bounds. All definitions within two edits of a valid one with a trigger, a process, an end and a
group (a decision can come in by an edit), and 38 command lines that cover every option, every policy,
empty and repeated options and every early return.

Proofs. `FlowReviewProofs` proves the three (`VisualChangesAreSafe`, `RevertsAreSeen`,
`ReportsAreSound`) for any definitions and edits, any command lines, any plans and any validation:
`IssuesOf` may be any function from definitions to codes. `ReviewAssumption` asks that definitions have their
fields, with a boolean for `required`, that the finding of the schema is no warning, and that a file
that is not JSON is not also JSON without a schema. The impacts are ordered, and `Quiet(d, e, t)`
says of two definitions that nothing which differs reaches the threshold `t`, item by item and field
by field, without the difference. `ChangesBelow` is the link: no change of the difference reaches
`t` exactly when the definitions are quiet at `t`. All else is about `Quiet`: it is symmetric at
"behavioral" though not at "breaking"; at "behavioral" it makes `Executed` equal
(`QuietIsExecutedAlike`), at "breaking" it gives `Keeps` (`QuietKeeps`), and the first implies the
second. What a command line may come to is one of five kinds of outcome (`Outcomes`), and of each the
log and the verdict are shown to agree. The invariant `ReviewInv` says that the report at hand is the
outcome of the command line for the definition at hand.

### The Scenario Lab: `ScenarioLab`

State. The two forms, the tab, the versions and snapshots that queries have loaded, the result, the
list of presets and the selected one; around the dialog the draft, the published versions and
`localStorage`. The run of a scenario is the constant `Plan`: it is what `Simulator` models.
Names and inputs are classes (empty, default, another, and "bad": too long, above the 32 KB of an
input, or not a JSON object). A failure may be asked of any node of the definition, as the dialog does,
also of one that `Plan` cannot make fail.

Properties. `ComparisonIsSound`: the comparison on the screen is that of the forms, the tab and the
version on the screen, and its verdicts are fair (with the sides exchanged a regression is an
improvement). `PresetsAreKept`: saving costs no preset but the oldest of a full store, whatever
another tab wrote in between, and a preset comes back into the forms as it was saved.

Bounds. Three changes of the forms with new presets, two presets in place of the limit of the code,
two versions, and one step of the world around (another draft, a publication, a preset saved or
deleted by another tab). No fairness: everything is a click or a step of somebody else.

Proofs. `ScenarioLabProofs` proves both (`ComparisonsAreSound`, `SavingKeepsPresets`) for any
definitions, any number of presets, versions and steps of others, and any engine: `LabAssumption`
asks of it only that an outcome has its four fields and that its path is a sequence. `IInv` says
that the forms hold what a form can hold (`FormsInv`), that every preset is the reading of such a
form and the store no larger than its limit (`StoreInv`), that whatever is loaded or selected was
published (`VersionInv`), and that a result consists of comparisons of outcomes (`CasesInv`).
`StoreInv` is why a preset comes back as it was saved: reading a form and filling it again lose
nothing for what a form can hold (`ReadBack`), and would for other scenarios.
That a verdict mirrors follows from the first divergence of two paths being the same from both
sides. The filter that replaces or deletes a preset is a recursive function; what it keeps is shown
by taking the least length for which it would fail (`LeastNumber`).

### The scene: `Scene`

State. The flow as it is drawn, the objects that the library hangs on its nodes and links
(`threeObj`, `lineObj`), the cache of `SceneResources` (an object is the look it was made for), the
batches of `InstancedBodies` and `BatchedLinks` with what they hid, the labels with their
resolution, and `rebuildBatches`. Geometry is left out: of the camera there remains how far each
node is. `selectedId` is `selectedNodeId ?? connectionSourceId`, which is the same node while a
connection is drawn by clicks on nodes. When another node is selected in between (an issue, a new
node) they are two, and the source is drawn as selected by its own object (`FlowScene3D.tsx:286`) and as plain in the batch
(`FlowScene3D.tsx:223`); that case, the colours of links and the type of a node, which the key of the
cache lacks (`scene-resources.ts:257`), are left out of `Look`.

Actions. `ChangeFlow`, `ChangeLook` and `MoveCamera` are the effects of `FlowScene3D.tsx`; `Frame`
is one turn of its loop, with the batches and, every few frames, the level of detail;
`LibraryClears` and `LibraryCreates` are the two halves of the digest of three-forcegraph
(external), which come when they please.

Properties. `BatchesAreCurrent`: when the loop no longer asks for batches they show the flow as it
is. `ScreenCatchesUp`: in the end every node and link is drawn, no link twice, every label that is
near enough is there and sharp. Fairness: the browser draws frames, and the library carries out
what it has to. Bounds: three changes over two nodes and a link, a budget of one label a pass.

Proofs. `EditorProofs` extends both the editor and the scene that draws its flow (hence `SceneInit`,
`SceneNext` and the like for the names they would share) and proves `BatchesAreCurrent`
(`ScreenIsCurrent`) for any flows of the nodes and links there are
(`SceneAssumption`). The invariant it needs, `SceneInv`, is that the library makes and removes the
objects of a flow together: a frame that finds some node with its object finds all of them, and
likewise the links, so that a batch of what is ready is a batch of the whole flow.
`ScreenCatchesUp` is liveness.

### Copilot and Time Machine: `Incident`, `RunIncident`, `EvidenceCopilot`

`Incident` has the root cause of a report and the state that the Time Machine rebuilds from its
frames. `RunIncident` composes it with `Simulator`: `ReplayMatchesRun` says that what is rebuilt at
the last event of any run, finished or not, is the state of the simulation (queued visits are the
queue, waiting ones are the tokens that joins hold, the status is that of the run, a token has one
visit), with one exception noted below. `EvidenceCopilot` is the two dialogs: questions, answers
that are grounded or refused, actions on the draft and on a run, and the transport of the Time
Machine while its report grows, cannot be read, or is replaced by that of another run. The advice
of the provider is any answer. React runs the effects of a change in the task of the change.
`ChangeDraft` keeps the selection or clears it, as the commands of the editor do, and clears it always
when it is an undo or a redo, the only changes that the keys make while a dialog is open.

Properties. `AdviceIsGrounded`: the answer is that of the last question, what is selected is in the
draft, and the incident is that of the run the answer is about. `TransportSettles`: the frame shown
is one of the report shown, and playing stops. Fairness: the timer of 800 ms fires. Bounds: two
questions, two runs with plans of different lengths, two parts, one change of the draft.

Proofs. `SimulatorProofs` proves `ReplayMatchesRun` for every flow, input and limits
(`ReplaysMatchRuns`). The replay is a recursive function of the number of frames, so all frames are
not replayed at once: a step of the simulation appends a few events, and `FramesFollow`, by
least-number induction, says that the replay of the longer list goes on frame by frame from that
of the shorter one. `Tracks` says where a replay stands with respect to the simulation: which tokens
are shown as queued, running and waiting, that a visit shown under the number of a token is at the
node of that token, and that two visits of one token are those of a choice that could not be
evaluated (`Blamed`). There is one lemma for each kind of event, and each action is shown to take
`Tracks` through the events it emits to the state it leaves (`ReplayInv`). It rests on `NumberInv`:
that a token has one visit follows from numbers that are never used twice.

`EvidenceCopilotProofs` proves `AdviceIsGrounded` (`AdviceStaysGrounded`) and the first
half of `TransportSettles` (`FramesAreOfTheReport`) for any runs, plans, parts and questions. They
need each other, and three facts more: one question at most is under way, it is the last one asked,
and the dialog is shut and silent while the Time Machine is open (`AskInv`); an accepted answer
names no run but the one asked about (`AnswerInv`); and a report has no more frames than its run has
events (`TypeOK`), so a report that replaces another opens at one of its own frames
(`RewindsWithin`). `PlaybackSettles` is liveness and stays with TLC.

### Sessions: `Sessions`

State. `pairs` are the stored sessions (an access and a refresh token issued together, their family
and what has become of each), `jar` the cookies of the browser, shared by its tabs, `calls` the
requests of each tab, `tasks` the renewals, logins and logouts under way with the line of the server
they are at, `page` where each tab is. `why` is history: what has happened that may end a session.

Grain. The server makes one call of the store per step, so a refresh is: read and check, revoke the
old pair, save the access token, save the refresh token. Each call may fail, and one that fails in
`validateSession` answers 401 like a token that is not good (`ServeFails`). Answers and requests may
be lost. `apiFetch` and `renovarSesion` are per page: all requests of a page that are refused
wait for one renewal, and another tab has one of its own.

Properties. `ExpelledForAReason`: unless an answer or a call of the store was lost, somebody logged
out, the refresh token ran out, or two tabs used one refresh token, no page is sent to `/acceso`
and a request is refused only when it carried a new token that ran out again. `OneLiveRefresh`: at
most one refresh token of a family is good unless one was used twice at a time. Bounds: two tabs
with two requests each, three pairs (two rotations), three clicks and three troubles; tabs are
symmetric. Safety only: the user may stop at any point.

Proofs. `SessionsProofs` proves both for any numbers of tabs, requests and pairs
(`OneRightPerFamily`, `NobodyExpelled`). `OneRight` is the strengthening of `OneLiveRefresh`: a
family has one right to issue the next pair, and that is a good token or the one renewal that has
read it, wherever it is between its calls of the store; it needs that a pair being issued was given
to nobody (`Undelivered`) and is empty until its last call (`HalfIssued`). `GoodRenewals` is that of
`ExpelledForAReason`: while `why` is empty, the token in the cookies is good or being replaced, and
every renewal under way is one that will succeed. The proofs first sort the steps by what they do
to pairs and tasks (`Settles`, or a new pair), so that each part of the invariant is shown once per
kind.

## 3. Plan

What remains, most important first.

1. `RunCreation`: idempotent creation with a failure or a crash between its steps, for runs of
   versions and of drafts; the numbers of versions; live tickets and share links.
2. `Admission` (windows, eviction and semaphores) and `AuditChain` (truncation against a checkpoint).
3. `RunLease`: acquisition, heartbeat, expiry and takeover between two instances. The leases come
   last because no handler calls `Reserve`, `Abandon` or `FailReserved` yet.

What is proved: every safety property of `RunPlayback`, `Autosave`, `RunStream`, `Editor`,
`FlowReview`, `Scene`, `ScenarioLab`, `EvidenceCopilot`, `RunIncident` and `Sessions`, both
refinements, those of `Simulator`, and `WholeStaysWhole` of the editor. Model-checked only: every liveness property, and
`FlowImport`, whose algorithms are RECURSIVE operators of `FlowGraph` and `CodeGraph`.

## 4. Where documents and code differ

Besides what the sections on `RunPlayback`, `Simulator` and `Autosave` say. No property states
what the code does not do; the conditions in the properties name these cases.

- **Run events.** A closure that was stopped while it waited for its ticket connects all the same
  (`flow-service.ts:430`), and `ingestRemoteEvent` drops duplicates by sequence alone
  (`flow-store.ts:536`), so the events of an earlier run can take the place of those of the present
  one; `flowverse-3d-especificacion-tecnica.md:372` says "El cliente deduplica por
  `(runId, sequence)`." `Alone` in `RunStream` excludes this case. Beyond 500 events a replay
  from the first shows again what was cut from the window (`EditorClient.tsx:154`), against the
  "reducer idempotente" of `docs/3d-experience.md:104`.
- **Editor.** `flowverse-3d-especificacion-tecnica.md:183` says of an import "Ejecuta validación
  semántica", and `docs/flow-contract.md:130` that the ends of an edge "Referencian nodos existentes y
  no `group`"; `parseImportedFlow` (`flow-contract.ts:18`) validates the JSON schema only, and
  `EditorDialogs.tsx:236` passes the result on, so edges without ends, or leaving an end node, reach
  the screen and the history. `GraphClosed` speaks of what documents brought for this reason.
  `duplicateSelected` (`flow-store.ts:301-304`) sets `selectedNodeId` to the copy and leaves
  `selectedNodeIds` on the original: the Inspector shows the copy and Delete removes the original,
  against `flow-store.ts:32` ("`selectedNodeId` es el último marcado") and the test "mantiene
  selectedNodeId apuntando al último para el inspector" of `flow-store.test.ts`. This is `Copied` in `OneSelection`.
- **Simulator and Time Machine.** A choice that cannot be evaluated emits `node.completed` and then
  `node.failed` (`simulator.go:369`, `:403`); the Time Machine shows a second visit that never was.
  Opened from the copilot, it gets a new `onInspectNode` at every render (`EditorClient.tsx:457`),
  so its effect (`IncidentTimeMachineDialog.tsx:123-125`) selects the node of the frame again and
  again.
- **Command line.** A simulation input that is refused and a report that cannot be written end with
  exit code 1 (`cli.ts:318`), although `packages/cli/README.md:69-70` gives 2 to invalid arguments
  and files. A second trigger counts as "behavioral" although a call without `--trigger` is then
  refused. `required` of a variable is read by the difference only.
- **Readers.** Modules that import each other never leave the loop of `modules.ts:97-106` once they
  are in its queue; where all of them are in cycles there is no root, the loop does not start, and
  the result has `no_reachable_end`, against the comment of `modules.ts:15`. A `return` inside a
  branch ends the whole walk (`typescript-journey.ts:81`), against the "literal" of its lines 9-10.
  Repeated calls or imports give edges with one identifier. A CSV makes decisions without conditions
  (`csv.ts:11-13`), a text decisions without a default. Six nodes all joined to the later ones meet
  the limit of four turns a node in `layouts.ts:7`.
- **Scene.** When the last connection is deleted `BatchedLinks.sync` returns before it clears
  (`scene-performance.ts:346`), and the tube stays on the screen; `BatchesAreCurrent` speaks of
  links only where there are some. If the library makes its objects again after the batches were
  built, a body can be drawn by both; `NothingIsLost` asks only that it is drawn.
- **Autosave.** `ShareDialog` marks the draft as failed when only the creation of the link failed.
- **Sessions.** The single renewal of `api-client.ts:55-64` is per page: two tabs that renew with
  one refresh token are taken for a stolen token, and both are expelled. This is the reason
  "crossed" of `Sessions`.

## 5. Not modelled

- Run leases and quotas: no handler calls them; only the recovery at startup reads the rows.
- Run creation, live tickets, share links, rate limiter, admission, audit chain: planned above.
- Policies, plugins, the administration pages and the analyzer: pure functions of large records, and
  forms that send one request and fetch again.
- The Go copies of the rules of validation and of the difference (`validator.go`, `diff.go`): the
  TypeScript packages are modelled, the copies are not compared with them.
- Contract, domain and telemetry: decoding, records and metrics.
- Texts and advice by an external model: any answer is taken.
- Rendering, pages, geometry and wording. Registration, passwords, the CSRF cookie and the rate
  limit of the routes of a session.
