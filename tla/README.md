# TLA+ specifications of DataClaw

DataClaw is a data-science workbench around a chat agent: a FastAPI server that
runs one agent loop per chat thread, streams its events to browsers, executes
tools, asks the user for approvals, and can hand the agent role to an external
runtime (Hermes, OpenClaw). These modules specify the parts of the server where
concurrency, failure and order decide whether it is right. Paths below are
relative to the repository root.

Check a run with `tlc -config <cfg> <module>.tla`, the proofs with
`tlapm <module>Proofs.tla`. `PROJECT.json` lists runs, theorems, the source lines
of each definition, hazards and findings.

## 1. The system

### How it executes

The server is one asyncio event loop. Code between two points where a coroutine
really suspends is atomic, and that is the step of every module here. Many
`await`s never suspend: the bodies under the locks of
`dataclaw/storage/sessions.py`, `dataclaw/storage/runtime_runs.py`,
`run._terminal_lock`, `ctx.idempotency_lock` and the manager's `_lock` contain no
suspension themselves, so these locks are never contended and `await
store.update_run(...)` is part of the step around it. What really suspends: model
and HTTP calls, hooks, tools, `bundle.aclose()`, `ctx.execution_lock`, futures,
events and timers. Each of them is a place where any other request may run.

### Components

| Component | State | Operations | Works with | What makes it correct |
|---|---|---|---|---|
| Runtime manager `dataclaw/providers/agent/factory.py` | active bundle, configured runtime, selection error, retired bundles, closed ids, leases | `select`, `_swap`, `acquire_run`, `callback_scope`, `release_run`, `aclose` | chat router (leases), Hermes bridge (callback scopes), configuration (selects) | a bundle in use is never closed, every other is closed once |
| Hermes tool bridge `plugins/dataclaw-hermes` | pending futures, execution lock, cancel event, approvals of a run | admit, replay, join, prepare, approve, execute, record; the chat side's submit and stream | durable records, tracker, guardrail endpoint, runtime manager | a tool call runs at most once, one at a time, only in a live run, and always gets one outcome |
| Durable records `dataclaw/storage/runtime_runs.py` | run and tool-call records with a transition table | create, update, fail after restart | Hermes bridge, cancel endpoint, start-up | no transition outside the tables; nothing in flight survives a restart as open |
| Run tracker `dataclaw/api/run_tracker.py` | per thread one run: status, task, event log, approvals | start, transition, append, finish, cancel, remove, expire | chat router, bridges, browsers that tail | one end per run, addressed by the right run |
| Chat router `dataclaw/api/routers/chat.py` | the task of each run, prompts, compaction marker | run, cancel, decide, callback, queue, session endpoints | everything above | a run ends once, its answer is stored once, a stop stops |
| Approvals `dataclaw/pending_actions.py` | prompts in memory and in the session file | register, resolve, expire on start-up | chat router, bridges | what was decided is what was done |
| OpenClaw `plugins/dataclaw-openclaw` | none of its own | fire-and-forget message, tool proxy, reply through the callback | chat router | the reply reaches the run it belongs to |
| Session store `dataclaw/storage/sessions.py`, `session_cleanup.py` | session files: messages, receipts, queue | append, insert, update, delete, cleanup handlers | chat router, plugins | no message is lost; a deleted session stays deleted |
| Direct loop (in the chat router), model providers | turn state: pending calls, prompts, results of the batch | turns, tool calls, approvals | hooks, tools, tracker, session store | nothing runs unapproved; every call gets an answer before the model speaks again |
| Compaction and memory | divider, summaries | choose a span, summarize, insert | session store | no message is forgotten or repeated; a reload gives the model what the live turn had |
| Hooks and guardrails | ordered handlers, pending calls | run, block, rewrite | both loops and the bridge | a blocked call is not executed |
| Sub-agents | child loops | delegate, collect | captured bundle | child ends with its parent |
| Notebook kernels | open notebooks, the current one, kernels, files | open, edit, execute, close, cleanup | tools, session deletion | no kernel is lost; outputs and files follow the cells |
| Artifact store | versions, records, manifests | publish, note, delete | tools, session deletion | a version is never overwritten; what was answered is served |
| Plans, analysis review | proposals, decisions, gates; findings and review runs | propose, decide, update, review, resolve, accept risk | hooks, sub-agent | what was answered is stored; the gate is the ledger's verdict |
| EDA | profiles, charts | compute | tools | (sequential) |
| Event emitter, plug-ins that run inside Hermes and OpenClaw | none | format events; forward calls | chat router, bridge | (through what they send) |
| Configuration, authentication, plugin loading, workspace, data and service tools, UI | files, sessions | request handlers | | sequential or I/O, see section 7 |

### Hard behaviours

* state read before a suspension and used after it: the closable list of a closing
  loop, the run of a thread, the status a callback was admitted under;
* calls that name a thread where they mean a run (tracker, callback endpoint);
* retries and duplicates of a tool call, also across stops and restarts;
* an approval's decision, its deadline and a stop in one turn of the loop;
* object identities (`id()`) remembered after the object is gone;
* a cancellation delivered before a task's first step;
* deletion of a session whose cleanup suspends, against a new run;
* a result that fails half-way, after it was noted and before it is written;
* a file read before an await and written back after it (plans, dividers);
* copies that must agree: prompts in memory and in the session file, a gate and
  the ledger it is computed from, a notebook and its file, the live conversation
  and the reloaded one;
* a crash between two of the files one operation writes, or inside an append;
* a list of changes that fails in the middle, after memory was changed.

`PROJECT.json` lists the hazards with their lines.

## 2. Modules

| Module | Models |
|---|---|
| `RuntimeManager` | bundles, selection, leases, callback scopes, retirement, shutdown |
| `RuntimeManagerProofs` | four safety theorems about it |
| `HermesTools` | one Hermes run: its callbacks, approvals, durable records, chat task, stops, the thread's next run, restarts |
| `HermesToolsProofs` | eight theorems about it, the refinement of the ledger among them |
| `ToolCallLedger` | what the bridge promises about tool calls, abstractly |
| `RunLifecycle` | the runs of one chat thread: task, terminalization, stops, external callbacks, deletion |
| `RunLifecycleProofs` | four safety theorems about it |
| `EventTail` | the capped event logs of a thread's runs and the streams that tail them |
| `DirectTurn` | one run of the in-process loop: guardrails, prompts, tools, results, turns, stop, crash; keeps the ledger of `ToolCallLedger` |
| `DirectTurnProofs` | six theorems about it, the refinement of the ledger among them |
| `SessionHistory` | the messages of a session, compaction, and the conversation the model gets |
| `ThreadProofs` | eight safety theorems about the two records of a thread: four about `EventTail`, four about `SessionHistory` |
| `ArtifactStore` | the artifact directories, write by write, with crashes |
| `ArtifactStoreProofs` | six safety theorems about it |
| `PlanGates` | plans, their review gate, the review ledger and the calls that overlap on them |
| `PlanGatesProofs` | three safety theorems about it |
| `NotebookKernels` | the notebook manager, its kernels and files, used by several sessions |
| `NotebookKernelsProofs` | four safety theorems about it |
| `MC...` | symmetry sets and constant values for the runs |

`ToolCallLedger` is stated once and implemented twice: by the Hermes bridge
(`HermesTools!CallsFollowLedger`) and by the in-process loop
(`DirectTurn!CallsFollowLedger`). `RunLifecycle` says what becomes of a run whatever
its turns do, `DirectTurn` what a turn does inside one run, `EventTail` what clients
see of it, `SessionHistory` what the next run reads of it.

### RuntimeManager

`address` is `id(bundle)` while the bundle object is alive; `closed` holds
addresses, as `_closed` does. The closing loop of `_close_unused_retired` computes
its list once and suspends in `bundle.aclose()`: `frame[c]` keeps the bundle being
closed and the rest of the list of each closer (`EnterClose`, `CloseReturns`).
`select` is serialized by its own lock, so one selection is under way
(`selection`); `SelectBegins`, `SelectSucceeds`, `ReloadFails`, `StartupFails` are
its parts before and after the build is awaited. `Reclaim` frees a bundle nothing
refers to, `Construct` gives a new one any free address, also one that was used before
where `AddressReuse` says so (CPython does). `mistaken` remembers the bundles born at
an address that `_closed` holds.

### HermesTools

A request is one HTTP callback; `pc` says where it stands: following another
request's future, queued on the execution lock, preparing (pre-hooks), asking,
executing, posting (post-hooks). `record` is the durable tool-call record,
`future`, `lock`, `prompt`, `decision`, `stopped` are the fields of the run
context and of `RunState`. The chat task goes through `starting`, `submitting`,
`streaming`, `closing`, `ended`; `closing` is the suspension between the durable
`completed` and the tracker's `finished`. `status` belongs to this run and
`successor` to the run that takes the thread over; `Current` is what a call by
thread meets. `Restart` drops everything in memory and ends open records as
`fail_nonterminal_records` does. Hooks are a choice: allow, ask, refuse.

`CallsFollowLedger` is the refinement `Ledger == INSTANCE ToolCallLedger WITH ...`:
outcomes are the durable terminal states, starts are tool invocations, told is the
answer a request got.

### RunLifecycle

`status`, `ends`, `answers` are kept per run, `current` is the tracker's entry of
the thread. `Terminalize` is `_terminalize_run`: it acts on `current`. The tasks
call it by thread, so whether a task acts on its own run is a theorem
(`TaskOwnsThread`) and not the shape of the model. A runtime in `External` hands the
message over (`HandOver`) and waits for the thread's run to be completed by
`Callback`. `EarlyStop` says whether a stop or deletion may be handled before the
first step of a task that was just created. `DeleteBegins`, `DeleteWaited`,
`DeleteAborts`, `DeleteFinishes` are the parts of `delete_chat_session` between its
suspensions.

### EventTail

An event is its number. `cursor` is `RunState.cursor`, `waiters` and `woken` are
the `asyncio.Event`s of `wait_for_events`, and the last `Cap` events are kept.
`AppendEvent` is `append_event`, used by `Emit` (any event, addressed to the thread, also
after the end) and by `End` (the last event and the terminal status in one step).

A tail suspends where `_tail_events` yields and where it waits: `pc` is `opened`
(the response is not sent yet, so the generator has not started), `waiting`,
`sending` and `draining` (in the middle of a list of events, which reaches to
`upto`), `keepalive`, or closed: `done` by the server, `gone` by the client. `Turn`
is a turn of the loop up to its first suspension: it looks the run up by thread,
lists what is after the cursor and registers the waiter. `Wake` is the waiter's
event or the 15 s time-out; `LoopEnds` is the test after the list and the drain
of a run that ended. `from`, `at` and `got` are the cursor the client came with, the
event yielded last, and what it received. How a run gets from start to end is
left to `RunLifecycle`; here a run is `new`, `live` or `ended`. A run leaves the tracker in
two ways: `Forget` is the expiry of an ended run, `RemoveRun` the last step of
`delete_chat_session`, which pops whatever run the thread has by then. That run may be a live
one that started while the cleanup handlers were awaited; nobody is woken, its tails find no
run at their time-out and close, and no end event is ever written for it. `removed` remembers
those runs. A client that comes back
names a thread and a cursor, not the run the cursor belongs to: if the next run has
started, the first events of that run are skipped. The promises are therefore about
the events after the cursor the client names.

### DirectTurn

`phase` is where the task of `_run_agent_loop` stands; only in `Suspended` phases may
another request run. A turn collects the calls of the model (`CallIssued`), the
guardrails judge them (`GuardrailsJudge`), the remaining hooks run (`HooksDone`), and
the prompts are asked one after another (`Ask`): `prompt` is the copy in memory,
`stored` the one in the session file, capped by `MaxStored` as `upsert_pending_action`
caps it. `Decide`, `DeadlineFires` and `Stop` may all come before the task goes on
(`ApprovalGranted`, `ApprovalRefused`, `StopDelivered`). The code keeps the approved calls
in a set, so they run after the free ones in any order (`Orders`), and the free ones as the
model issued them (`AsIssued`). `lists` is
`results_list`/`errors_list`, which `Pairs` matches with the calls by position;
`slipped` is set where a result was noted twice (`ResultUnwritable`,
`ArtifactsFail`), and the pairing is then wrong. `record` is what the session file
says of a call, `shown` what the model was given. `Crash` loses the process.

### SessionHistory

A message is its number, which is its timestamp too; a divider carries the messages
its summary stands for (`tells`) and the time of the message it comes before. Only the
file and the copy a run has read of it (`read`) are sequences, because a divider goes in
at an index. The lists the code makes of them are sorted by time, so a list is the set
of its places or numbers: `Before` is the order of `sorted`, stable where times are equal,
`AfterLast` the part of a list after its latest divider, `Shown` what of it the model gets.
`loop` is what each task does: it prepares with the messages it has read, then has
its turn with a `view`: a summary and messages. `Compacts` is the continuation after
the summary was awaited: the split of the live view (`_recent_turn_split`), the split
of the stored history (`_stored_compaction_span`), the divider, and its insertion at
an index of the list read before. `summarizes` tells the summarizing compactor from
the one that drops. `Overtaken` is a run ended by the late reply to another one while
it prepares: only then do two preparations overlap. Whether thresholds or the decision
model call for compaction is a choice at every preparation.

### ArtifactStore

An artifact is its directory: `files`, `meta`, `manifest`. Every operation runs
without suspending, so `op` is the one operation under way and each of its writes is a
step; `Interrupted` is a crash or a failing write between two of them, `NoteInterrupted`
one within an append. `_atomic_write` makes a whole file appear or
not, so a single write is atomic and an append is not. `acked` and `noted` are what
clients were told.

### PlanGates

`file` is `proposals.json`, a record per plan: whether the user has decided, the step's
ready flag, whether its text asks for a review (`risk`, recomputed from the text that is
stored), and the gate. `open` and `latest` are the ledger of analysis reviews as far as the
verdict depends on it. An update patches anything but the gate (`Written`): the text of the
step, so that it becomes or ceases to be of risk, and the status of the plan.

Tool calls suspend in three places: `update_plan` while it awaits the pre-check, a review
while it awaits its sub-agent, and between an update and the automatic review that follows
it. `UpdateReady`, `AskPrecheck` and `PrecheckAnswers` judge the step as it would be stored
(`Blocked`) and write back the whole file read before the await (`WriteBack`). `said` is what a
caller was told; `overtaken` are the plans whose record a write-back replaced by an older
one, and `lost` those whose file was torn: what was told of them counts no longer.

The process may die between any two writes that belong together (`CrashBeforeGate`: the
ledger and the gate, before or after the review run is appended; `CrashBeforeFlag`: the gate of
an automatic review and the ready flag; `CrashBeforeAudit`: the two writes of an accepted
risk, which leaves the gate `unaudited`, a state that blocks) and inside `write_proposals`
(`CrashInWrite`), which writes the file in place. `behind` are the plans whose ledger is
ahead of the gate.

### NotebookKernels

One manager for all sessions: `book` is every notebook object ever opened, `opened` the
dictionary, `current` the name that tools without a name use. `call` is what the tool
call of each session does; `Begin` is the hook that sets the manager's directory for
all. A call suspends while a kernel is looked for and launched (`Launch`, `Ready`), while
a cell runs (`RunReturns`, `DeadlineFires`) and while a kernel stops (`CloseReturns`,
also in the cleanup of a deleted session). Names in the dictionary are unique, so `Rest`
takes out the one place that has the name, as `del self._notebooks[name]` does.

`delete_cells` takes a list of places. The code pops them from the last to the first, so
a place given twice takes the cell that moved up along with it (`DeleteCells` removes any set of
cells) or, when nothing has moved up, fails after memory was changed and before the
notebook is saved (`DeleteBreaks`, which notes the notebook in `unsaved` until its next save).

`hurt` are the notebook objects two calls
started or stopped at once or one abandoned, `strayed` the files opened under two names
or removed: the promises exempt them by name.

## 3. Runs

| Run | Module, cfg | Question |
|---|---|---|
| `runtime_manager` | `MCRuntimeManager`, `RuntimeManager.cfg` | in-use bundles stay open, each is closed once, none is left but one born at an address marked as closed |
| `hermes_tools` | `MCHermesTools`, `HermesTools.cfg` | ledger refinement, one at a time, approvals, stops |
| `hermes_liveness` | `MCHermesTools`, `HermesLiveness.cfg` | every callback is answered |
| `run_direct` | `MCRunLifecycle`, `RunDirect.cfg` | ownership, answers and progress of in-process runs |
| `run_mixed` | `MCRunLifecycle`, `RunMixed.cfg` | one end per run with external runs, early stops and deletions |
| `event_tail` | `EventTail`, `EventTail.cfg` | no lost wake-up, no gap but the cap's, no stream closed before the end event unless its run was dropped alive, and the stream of an ended run is closed |
| `direct_turn` | `DirectTurn`, `DirectTurn.cfg` | ledger refinement, nothing unapproved runs, prompts agree and settle, every call answered with its own result |
| `session_history` | `MCSessionHistory`, `SessionHistory.cfg` | compaction forgets and repeats nothing, for a reload and for the turn under way; live and reloaded conversation agree |
| `artifact_store` | `MCArtifactStore`, `ArtifactStore.cfg` | what was answered is served, a torn append costs one acknowledged notice at most, versions are immutable, across crashes |
| `plan_gates` | `MCPlanGates`, `PlanGates.cfg` | stored answers, gate and ledger, with overlapping calls and crashes |
| `notebook_kernels` | `MCNotebookKernels`, `NotebookKernels.cfg` | kernels, files and outputs with overlapping sessions |
| `plan_scope` | `PlanGates`, `PlanScope.cfg` | the finding of section 4 |

Deadlock checking is off: histories are finite (bundles, requests, runs, calls), so every
behaviour stops when they are used up. Runs that check liveness use no symmetry.

Every property of a passing run has a mutant (`Definition_WhatIsWrong`, next to the
definition it spoils): the definition is replaced by it and the run must then fail
on that property. The type invariants of `RuntimeManager`, `RunLifecycle`, `EventTail`,
`SessionHistory` and `ArtifactStore` are proved and not run; the others are run and proved.

### Bounds

* Four bundles on three addresses that come back (`AddressReuse`): startup plus two
  reloads is what it takes for two retired bundles at once, a fourth bundle is born where
  another one was, marked as closed or not. 2.1 million states.
* Two runs, one callback each (`MaxCallbacks`): the lease of a run is given back by
  its chat task and by a callback in either order, while the other run holds the
  same or another bundle.
* Two calls, three requests, two argument digests, one restart (`MaxRestarts`):
  two calls contend for the lock while a third request retries one of them, with
  the same or other arguments, before or after the restart.
* Three runs of a thread, `MaxTurns = 2` (a turn asks for at most one approval):
  a late signal of the first can meet the second or the third.
* Two runs and one client, four events of which two are kept (the code keeps
  10000): a slow client falls behind the cap, comes back with its cursor and meets
  the next run. Streams share nothing but the set of waiters, and the safety
  theorems hold for any number of clients.
* One stop at a time awaits the runtime, and one deletion is in flight. The next
  run of a thread in `HermesTools` calls no tools of its own.
* Three calls over two turns, one prompt kept in the file: a batch with one call
  blocked, one approved and one free, or two prompts of which the first falls out
  of the file, and a second turn that reads what the first left.
* Five messages, three dividers, two kept turns, two tasks: enough for a divider
  inserted before another one, for a preparation that read neither, and for a
  message of another runtime on each side.
* Two artifacts (one may be a living report), one session, two documents, two
  notes, two versions, one torn append: a crash in each write of a publication
  followed by a publication of the same or the other document. 1.5 million states;
  the theorems hold for every number of each.
* One plan, two calls, one finding of each kind: an update that awaits its
  pre-check against a review, a decision and a deletion. Plans share nothing but
  the file, which is what `overtaken` is about, and two calls are enough to overtake. Nothing
  is claimed of a plan that was overtaken, so behaviours are followed to that
  point (the constraint `UntilOvertaken`); the theorems have no such bound.
* Two sessions, one file name, two notebook names, two cells, two opened notebooks, two
  kernels: each session's call meets the other's in every suspension, and a cell runs while
  another one is inserted before it, moved over it or deleted. Behaviours are followed
  to the first notebook that is hurt and the first file that strays, and after a deletion
  that broke off with one kernel (the constraint `UntilHurt`); the theorems have no such
  bound.

### Fairness

`HermesTools!FairSpec` has weak fairness for what a callback does by itself: the
event loop runs ready tasks, `asyncio.Lock` wakes its waiters in order, the
approval wait has a deadline (`ApprovalExpires`), and tools and hooks are assumed
to return. Users, Hermes, stops and restarts get none. `RunLifecycle!FairSpec` has
weak fairness for the steps of each task, again on the assumption that model calls
and tools return and with the 300 s deadline of approvals; none for requests and
external runtimes. For this reason progress is claimed of in-process runs only.
`EventTail!FairSpec` has weak fairness for the steps of each tail: the loop resumes
a waiter that is set or timed out, and a client that stays connected reads.
`DirectTurn!FairSpec` has weak fairness for the task where it can go on by itself
(`Work`) and for the prompt's deadline: models, hooks and tools need not return, the user
need not decide, nobody need stop. That is all `PromptsSettle` needs.

## 4. Findings and known behaviours

`plan_scope` is a run that must fail on its one property. README.md:61 says that a required sub-agent
review stays unresolved until that reviewer has run; `_compute_review_gate` looks at the
latest review run of the step only, so a checklist review (the automatic one too) that
follows a failed sub-agent review turns the gate to pass.

The models also show behaviours that no text of the repository rules out. They are in the
modules as steps, and properties exempt them by name:

* **Recycled ids leak bundles.** `_closed` remembers `id()` for ever; a bundle born at
  an address it holds counts as closed once retired, and its clients stay open
  (`RuntimeManager!mistaken`).
* **A callback moves the next run.** After its pre-hooks a callback moves the thread to
  `waiting_approval`; if its run ended and another one started, that one is moved
  (`HermesTools!TransitionThread`).
* **A tool starts after `completed`.** The last gate reads the tracker, which is running
  until the closing hooks have returned.
* **A stop before the first step.** A task cancelled before it runs never enters
  `_run_agent_loop`; the run stays `stopping` and keeps its lease (`RunLifecycle!NeverRun`).
* **A deleted session comes back.** A run that starts while cleanup handlers are awaited
  recreates the file. The last step of the deletion then drops that live run from the tracker,
  and the streams that follow it close without an end event (`EventTail!removed`).
* **A late reply ends the next run.** The callback endpoint knows the thread only.
* **A result noted twice.** If writing a result raises after it was noted
  (chat.py:932), the failure is noted as well, and the calls after it are shown to the
  model with another call's result (`DirectTurn!slipped`).
* **An update undoes what it overtook.** `update_plan` writes back every plan as it was
  before the pre-check (`PlanGates!overtaken`). A ready flag that an automatic review took back
  meanwhile is set again by it, and a crash between that review's gate and the flag leaves the
  flag set (`CrashBeforeFlag`): no property says that a ready step has passed its review.
* **A half-written acceptance.** If the process ends between the two writes of
  `accept_gate_risk`, the gate says accepted and goes on blocking (`unaudited`).
* **A torn plan file.** `write_proposals` writes in place; what a write that broke off leaves is
  read as no plans, and every plan of every session is gone (`PlanGates!lost`).
* **An acknowledged notice is lost.** An append to a manifest that breaks off leaves a line
  without its end; the next notice is glued to it, and neither can be read.
  `ArtifactStore!NotesKept` bounds the loss: one acknowledged notice per torn append.
* **A deletion of cells that fails half-way.** With a place given twice `delete_cells` deletes a
  cell nobody named, or fails after memory has lost cells that the file keeps until the
  notebook is saved again (`NotebookKernels!unsaved`).
* **Kernels lost in a race.** Two starts, or a start and a close, of one notebook's kernel
  leave a process nobody stops (`NotebookKernels!hurt`).
* **A clock set back.** A conversation is ordered by wall-clock time; `SessionHistory`
  takes the clock to move on.

## 5. Proofs

All are safety, for every value of the constants; assumptions on constants are the
`ASSUME`s of the modules and, where a theorem has one, its own hypothesis.

`RuntimeManagerProofs` proves `TypeOK`, `InUseNeverClosed`, `ClosedAtMostOnce` and
`NoIdleRetired`, whether or not addresses are used again. None of the three is inductive: that a bundle
is not closed twice depends on what lists the suspended closers still hold. The
invariant `Inv` adds: live bundles have distinct addresses (`Distinct`); what the
manager refers to is alive (`AllAlive`); leases are on the active or a retired
bundle (`LentKept`); at every suspension a retired bundle is lent or already marked
(`Settled`); so a swap or a release makes at most one bundle closable and the rest of
a closer's list is empty, except in shutdown (`NoStaleRest`); a closed live bundle
is marked (`Counted`, `Open`); a mark hits a bundle of the manager that is not closed only
if the bundle was born under it (`OwnMarks`, `mistaken`).

`RunLifecycleProofs` proves `TypeOK` and `EndsOnce` with no hypothesis: two lemmas say that
a transition only moves the current run out of a live status, and that terminalizing
a live run does both halves. `ThreadOwnership` and `AnswersBelong` (`AnswerOfFinishedRun`) hold
where no run is external and no session is deleted (a session that comes back and a late
reply are what goes wrong otherwise), whether or not a stop overtakes the first step of a
task; `OwnInv` adds that no task waits and no deletion is under way. That the bundle of a run
is given back is left to TLC (`RunEnds`).

`ThreadProofs` proves, about `EventTail`, `TypeOK`, `NoLostWakeup`, `OnlyTheCapSkips` and
`ClosedAfterTheEnd` with no hypothesis. The invariant is about one tail at a time: the event
it yielded last and the end of its list are in the log (`InHand`); a waiting tail is
woken or registered with its own run (`Registered`); only an ended run is drained,
and its list then reaches the end event (`DrainsToTheEnd`); plus the two promises
themselves (`Skips`, `AtTheEnd`), that only the thread's own run is live, or one that a
deletion dropped (`OneLive`), and that an ended run's end event is in the log (`EndLogged`). `OthersKeep` says once
that a step of one tail leaves all of this alone for the others.

About `SessionHistory` it proves `HistoryTypeOK`, `NothingForgotten`, `LiveIsReload` and
`LiveForgetsNothing`, with the assumptions of the module. `HistoryInv` says of the file that each
message up to `arrived` is in it once and that a divider stands before a turn of the user
which has its time (`File`); that dividers are numbered as they were made (`Numbered`); and that a
divider tells only of what was said before its time, and of all of it that was not dropped (`Told`). Of a run
that prepares it says that what it read is such a file, and that each element of it is in the file now,
where it was or behind (`Copied`, `Kept`): that is why an index computed before the summary was awaited
still comes before its message. Of every run it says that its view begins at the time of a divider
of the file, or at the beginning, and has all that was said from there to when it read (`Viewed`).
Two runs never need to know of each other: a step makes the file grow (`Grows`), and what a
run has read stands in a file that grows (`LoopStands`, `TaskKeeps`). `AfterLastIs` shows that after the
latest divider come exactly the messages of its time or later and the first of them is a
turn, so no call is ever left out as an orphan; `ViewIs` sums up what the model gets of a file.

The proofs need no induction on the file. That a set of numbers has a least element
(`Least`) is the well-foundedness of `<`, that a file has a latest divider and the turns a k-th last
(`LastDividerIs`, `KthLastIsOne`) follows from it, and of `Append` and `InsertAt` it is said what
is at which place (`With`).

`ArtifactStoreProofs` proves `TypeOK`, `RecordsHaveFiles`, `AckedServed`, `RecordsInOrder`,
`NotesKept` and `NeverRewritten`, with the assumptions of the module. What is missing to make them inductive is
the operation under way: the version it writes is new and newer than every record, and
after the first write its file holds the document (`PublishOK`); nothing is promised of
what a removal is taking away (`RemovalOK`); a torn manifest has an interruption to its
account that has not cost a notice yet (`NotesOK`). `NeverRewritten` is the step case of
`PublishOK`. `RecordsHaveFiles` and `RecordsInOrder` are proved and not run.

`PlanGatesProofs` proves `TypeOK`, `AnsweredIsStored` and `GateIsVerdict`.
The gate is not inductive without knowing that a plan which is not in the file has no
review yet, unless it was deleted, overtaken or lost (`Fresh`), and that a review whose
sub-agent is awaited is of a plan that is there, with the same exceptions (`Awaited`): a proposal
would otherwise meet a ledger that is ahead of it. `StoreKeeps`, `ReviewKeeps`, `UpdateKeeps`,
`BehindKeeps` and `CrashInWriteKeeps` say it once for each of the ways a step touches the
two stores, and each action is one of them. What was told of a write-back is what is stored
(`WrittenBack`): of a plan that nobody overtook the copy is the file.

`HermesToolsProofs` proves `TypeOK`, `OneAtATime`, `ApprovalRespected`, `WaitingIsOwned`,
`StopReconciled`, `StartsWhileLive` and `CallsFollowLedger`, and that a call is started at most
once (`StartedOnce`, not run). The assumption is that `None` is no state of a record, a prompt or an
answer. The invariant has two halves that do not need each other. `Calls`: the leader of a
call is alone, the record is in the state that belongs to where its leader stands, and its
future is not resolved yet (`Leaders`); a resolved future agrees with the record (`Futures`);
an answer that tells an outcome tells the record's (`Requests`); what has not begun was
neither asked for nor started (`Beginnings`). Without these, nothing says that the holder of the
execution lock is the leader of its call, and that a second leader never starts it. `Runs`: a run whose task has
ended or that a stop reached is not executable, and a record that says `stopping` is about
to be written by the cancel request or by the task. `WaitingIsOwned` needs both.

`DirectTurnProofs` proves `TypeOK`, `StartedWasAllowed`, `PromptsAgree`, `TurnsAnswered`,
`OwnResult` and `CallsFollowLedger`. What a call of the current turn looks like depends on the phase,
so `Inv` has a part per stage: all calls open (`Judging`), all with a verdict
(`Verdicts`), each call that needs an approval still to be asked for, refused or approved
(`Approvals`), what is left to run allowed and open, and what is not left ended, recorded and
shown or about to be (`Running`), all answered (`Answering`). `Earlier` carries the last stage
over to the following turns: that is what `TurnsAnswered` is, and what makes the ledger's "told" come
once. `Noting` pairs the lists by position for as long as no result was noted twice.

The ledger proofs (`BridgeKeepsLedger`, `TurnKeepsLedger`) take each action of the
implementation to one step of `ToolCallLedger` or to a stutter under the mapping of the
`INSTANCE`, with the invariant of the module.

`NotebookKernelsProofs` proves `TypeOK`, `KernelsOwned`, `FileFollowsMemory` and
`OutputsOfItsCell`, with the assumptions of the module. `Objects` says what the manager's objects are: no cell id
twice and no outputs of another cell (`Cells`), a kernel a notebook holds was started for it
(`Holding`), names in the dictionary are unique and the current one is among them
(`Dictionary`), and what a suspended call refers to exists (`CallsOK`). `KernelsOwned` is not
inductive alone: that the kernel which becomes a notebook's replaces none depends on the notebook's
having no other handler. `Handled` says so of every notebook object nothing happened to (not in
`hurt`): one call at most starts or stops its kernel, it is then open, and its `manager` field is empty or
the kernel that stops; `Clientless` says that a kernel loses its client only to a call that
closes it, so "not alive" means "no kernel". `FileFollowsMemory` needs that a file open twice has
strayed (`OpenOnce`) and that the file of one that has not strayed is there (`InFile`): an
unsaved notebook is repaired by its next save only if that save does not fail. That a deletion
leaves distinct cells with their own outputs is `CellsRemain` and `CellsBefore`. `KernelsStand`, `FilesStand`, `FewerFiles`, `StartKeeps`, `Forgetting` and
`Changing` say once for each kind of step what it leaves alone; the actions are those kinds.

Model-checked only: liveness (`EveryCallbackAnswered`, `PromptsSettle`, `RunEnds`,
`StreamsClose`), because fairness needs `ENABLED`. Every other property a passing run checks is
proved, two of them under the hypotheses named above (`TaskOwnsThread`, `AnswerOfFinishedRun`).

## 6. Plan

Done: the modules of section 2 and the proofs of section 5. Next, in this order:

1. The snapshot a new stream sends, against concurrent appends: `EventTail` composed with
   `SessionHistory`.
2. Sub-agents: a child loop that ends with its parent.

## 7. Not modelled

The specifications cover the code whose correctness depends on concurrency, failure or
order; that is a small part of the repository by lines. The rest, and why:

* **Tools around files and services** (workspace, report renderer and visual author, data,
  Kaggle, browser, projects, sections of artifacts): sequential request handlers and text
  layout. They keep no state that outlives a call but the files they write, and what they
  compute is data the properties of a model would not tell apart.
* **Model providers**: HTTP and wire formats. A model call is one step that may return,
  fail, or never return.
* **EDA**, example notebooks: computation over data sets.
* **Graph loop** (`dataclaw/loop`): only the tests run it.
* **User interface**: renders what the server sends; its message queue is local to a page.
* **Configuration, migration, plug-in loading, skills**: sequential start-up and file edits.
* **Authentication**: outside the subject.
* **Sub-agents**: child loops repeat the direct loop without prompts.
* **Runtime-side plug-ins**: they run inside Hermes and OpenClaw; what they send is the
  environment of `HermesTools` and `RunLifecycle`. OpenClaw's tool proxy runs a tool per
  request and keeps no state.
* Within modelled components: tool search and the text of events, receipts, the stored
  message queue (nothing reads it), the conversion of a history for the page
  (`_session_messages_to_agui`), read-only notebook tools, the death of a kernel process, a plan's text,
  the content of findings, how a bundle's providers are built.
* **Torn lines of the review ledger**: `analysis-review/store.py` appends as the artifact
  store does, so a torn line swallows the event after it. `PlanGates` takes the ledger to lose
  nothing; the verdict is computed from what the file holds, so gate and ledger agree all
  the same.
* Liveness of external runs: nothing in the code ends a run whose message got lost
  (`RunLifecycle!RemoteLost`), and no text says otherwise.
