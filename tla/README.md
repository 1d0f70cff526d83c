# Ternura in TLA+

This directory specifies, model-checks and proves things about Ternura: the session that
every entry point shares, the approval of tool calls, the cron scheduler, the files of the
session store and of the memory, one run of the agent with the context it gives the model,
the tools it has and the guards that judge its answer, the Feishu channel, and the monitor
behind the admin page. Paths below are relative to the repository. Tools: TLC for the `.cfg`
files, TLAPS (`tlapm`) for the modules whose name ends in `Proofs`.

    tlc -config MCTurnLoop_messages.cfg MCTurnLoop.tla
    tlapm SessionProofs.tla

`PROJECT.json` lists the components, runs, mutants, findings, hazards and theorems, and
maps every definition that stands for code to its lines.

## 1. The system

One process (`internal/app/main.go`) serves four entry points: the Feishu channel, the
HTTP Task API, the cron runner and the CLI. All of them end in an `agentSession`, which
restores the conversation of a session from the store, runs the agent, and records the
run. A conversation is a list of user/assistant turns and a list of run records.

| component | state it keeps | operations | correct when |
|---|---|---|---|
| session turn loop (`session_turn_loop.go`) | per session one loop: buffer, `active`, `pending`; the table `turnLoops`; per message `runCtx`, `finishOnce`, whether it holds the lock | submit, genInput, prepareAgent, onAgentEvents, finish, stop, watchExit, forget | the conversation is serial; no message is lost to preemption; one outcome per run; cancellations win; nobody waits for ever |
| session lock and task table (`task_api.go`) | `taskSessionLocks`, `taskCancels` | lock, track, cancelTask | one run at a time between restore and record |
| AgentSession (`agent_session.go`, `feishu_channel.go`) | none of its own | run, resumeApproval, reset ("new session"), schedule shortcut | a reset isolates the new conversation from the old loop |
| approvals and checkpoints (`internal/app/approval.go`, `agent/approval.go`, `adk_runtime.go`, `checkpoint_store.go`) | the records of runs that wait, each with a checkpoint file | interrupt, decide by message, card or API, resume, cancel | of the runs that waited at a checkpoint one waits at most, and it can be resumed; one decision settles a call; outcomes are final |
| session store (`session_store.go`) | snapshot in memory; an index, and per session a meta, a message and a todo file and one file per run | StartRun, FinishRun, CancelRun, ResolvePendingApproval, ResetSession, Load | what is on disk after a crash is a conversation that existed |
| cron service and runner (`internal/cron`, `cron_runner.go`) | sorted job list, `jobs.json`, a wake channel of capacity one | Add, Remove, ClaimDue, RecordRun, NextWakeDuration | an added job runs, a removed one does not, a one-shot job runs once, no wake-up is lost |
| agent run loop (`agent/agent.go`, `eino_loop.go`, `hook.go`) | messages, budgets, tool policies | model and tool calls, retries, compaction | budgets hold under parallel calls; every retry loop ends |
| Feishu channel (`internal/feishu`, `feishu_channel.go`) | the last 1000 event ids; per turn a handler, a timer, a queue of progress updates, a reaction and a card in the chat | ServeHTTP, dispatch, process, timeout, finishProcessingFeedback, cancel button | an event is accepted once per window; a turn gives one answer and cleans up; timeout and result exclude each other |
| runtime monitor and admin page (`runtime_monitor.go`, `runtime_events.go`, `admin/app.js`) | active runs, sequence number, subscribers with bounded channels; the page's picture | Start, Update, Finish, publish, subscribe, snapshot | a slow subscriber blocks nobody; a page at rest shows what runs |
| context builder, compaction (`agent/context_*.go`) | the messages of an agent and of a run | budget for tool results, snip, micro compact, summary, prune, reactive compact | results stay behind their calls; the user's message stays; the budget holds |
| runtime context (`agent/hook.go`, the hooks of `internal/app`) | blocks of text with priority and limit | SetContextBlock, render | nothing stale is told, what is critical is told uncut, the whole fits |
| guards (`agent/evidence.go`, `state_guard_hook.go`, `tool_grounding_guard_hook.go`) | tool results and the evidence ledger of a run | record, FinalizeRun | what an answer claims was done |
| memory store (`memory_store.go`, `memory_hook.go`, `tool_memory_hook.go`) | long-term file; per session a file of turns and tool records and a directory of raw results | Remember, Forget, capture, append, recall, reset | lists bounded, references resolve, a reset forgets |
| skills, specialists, MCP (`skill*.go`, `delegated_agent.go`, `mcpruntime`) | the tools of each agent; open MCP clients | build an agent, merge, delegate, call, approve | built-ins stay; a specialist is bound; nothing runs that nobody allowed |
| tools, active memory search, eval, CLI | none | | not modelled, see section 8 |

How they interact: channel and Task API goroutines call `enqueueSessionTurn`, which pushes
to the loop of the session; the loop's goroutine takes the session lock in `genInput` and
gives it back in `finish`; approvals, API decisions, shortcuts, cron jobs and resets take
the same lock from their own goroutines; all of them write the store under its mutex;
`cancelTask` cancels the context of any tracked run; tools called by a run add cron jobs
and wake the runner. Every run builds its agent anew, from the skill files on the disk and
the MCP tools of the process, and its hooks read the memory before a call of the model,
write it after the run, tell the monitor what happens, and judge the answer.

What makes it hard: a newer message preempts a turn at a safe point, in a window in which
the turn may be answering; a loop can fail or be stopped with messages buffered; the reset
waits for a loop that may wait for the lock; a decision over the API is checked before it
queues for the lock; records and checkpoint are written in separate steps with crashes in
between; saves fail after the state in memory has changed; the Feishu API fails after it did
what it was asked for; the hooks of parallel tool calls share the run's maps; events and
snapshots overtake each other on the way to the page; a message list is cut at six places,
each with a boundary of its own.

## 2. The modules

| module | models | composed with |
|---|---|---|
| `SessionLog` | abstract: what a session promises to its callers | |
| `TurnLoop` | the session: submitters, loop goroutine, lock, direct runs, resets, cancellation | implements `SessionLog` |
| `Approval` | one conversation several runs of which may wait for approvals | |
| `CronScheduler` | job list and file, tools, runner, time, failed saves, crashes | |
| `SessionStore` | sessions in memory and in files, saves that fail or are cut off, load, migration | |
| `AgentRun` | one run: framework, tool calls in parallel, consumer, budgets, tool policies, starting over | |
| `FeishuChannel` | redelivered events, handler, loop and timer of a turn, the Feishu API, clicks, crashes | a scene of `MCServer` |
| `RuntimeMonitor` | runs, events, a bounded channel, the page and its requests | a scene of `MCServer` |
| `MemoryStore` | memory files, runs, hooks of parallel calls, reset, failing files, crashes | a scene of `MCServer` |
| `ContextBuilder` | message lists and every cut of them, over the runs of an agent | a scene of `MCServer` |
| `Grounding` | tool results, evidence, jobs, and what the two guards make of an answer | a scene of `MCServer` |
| `Toolset` | skill and agent files, MCP servers, agents, calls, approvals, restarts | a scene of `MCServer` |
| `RuntimeContext` | blocks of runtime context and their rendering | a scene of `MCServer` |
| `SessionProofs` (of `TurnLoop` and `SessionLog`), `SessionStoreProofs`, `ApprovalProofs`, `CronProofs`, `AgentRunProofs`, `ContextProofs`, `ToolsetProofs` (of `Toolset` and `RuntimeContext`), `ServerProofs` (of `FeishuChannel`, `RuntimeMonitor`, `MemoryStore`, `Grounding`) | theorems and their proofs | |
| `MCTurnLoop`, `MCApproval`, `MCCron`, `MCSessionStore`, `MCAgentRun`, `MCServer` | instances for TLC | |

The seven modules `FeishuChannel` to `RuntimeContext` share no state with each other: what one does reaches another
only through values that both leave open (what a model answers, what a tool returns, what is
recalled). Their product would say no more than the parts and be too large to check, so each
behaviour of `MCServer` is one of the module its variable `scene` names, and the invariants of
the others hold in their initial states. `MemoryStore` has two scenes, the long-term file and the
files of a session, for the same reason.

Convention of all modules: one action is one stretch of code between two places where
another goroutine can get in (a mutex, a channel, a file). Variables whose comment says
`history` record the past for a property and are read by no guard. Definitions marked
`Mutant` are wrong variants of the definition that follows them; they are used to show
that a property can fail, and are not part of the specification.

### TurnLoop

`Requests` are the messages that go through the loop, `Directs` the runs that hold the
session lock from beginning to end (approval, shortcut, cron job; `DirectAccept` is the
API decision, whose record exists before it has the lock), `Resets` the "new session"
commands, `Loops` the instances of `sessionTurnLoop`. A message goes
`Enqueue` - `Route` (table lookup under `turnLoopMu`) - `Mark` (`l.mu`: chain to the base)
- `Push` or `Reject`. The loop goes `GenSupersede` (everything but the last pushed is
finished) - `GenAcquire` (session lock) - `Prepare` (restore from the store) -
`TurnEnd` or `TurnCut` - `JudgeTurn` (`onAgentEvents` looks at `Preempted` and at
`runCtx`) - `RecordTurn` - `ReleaseTurn` - `ClearActive`. `LoopExit`, `WatchFinish` and
`Forget` are the end of a loop, `Cancel` is `cancelTask` or the end of the message's
context, `ResetDetach` to `ResetReply` are a reset.

The conversation is abstracted to the list of its turns, each with its run and its
`basis`: the conversation it was computed from, as the number of resets before it and its
length. That is what "serial" needs and all it needs.

External: Eino's `TurnLoop`. From its use in the code: `Push` refuses once the loop is
stopped; a preemptive `Push` closes `Preempted` of the turn that is planned or running,
or does nothing if there is none, and both outcomes are allowed while the turn ends;
a stopped loop lets its turn come to an end or be cut and exits; a loop can also exit with
an error before a turn or in preparing one. The exit state lists the buffer and the last
turn's message, whether or not that one was finished: `finishOnce` has to cope.

### Approval

`Origins` are the ordinary runs of the conversation - messages, tasks, cron jobs. They take the
session lock one after the other, whether another one waits for a decision or not, since
`handleFeishuMessage` (`feishu_channel.go:43-68`) enqueues a message without asking; each has a
checkpoint of its own (`session_turn_loop.go:275`), so several may wait at once. `RunInterrupts`
stops one at its first gated call and writes the file, `RunEnds` is one that needs nobody,
`DropRun` one that was superseded before it began, `Judge` what `onAgentEvents` makes of a run
that was cancelled or preempted meanwhile.

Decisions by message or card (`Texts`) look for a waiting run under the lock: `FindPending`
takes the one at the checkpoint the card names, or the newest of all (`session_store.go:396-416`);
a name is an input, so over all inputs it is any of the waiting runs. Decisions over the API
(`Apis`) look first, record their run, and queue for the lock. `Resume` executes or
rejects the call; then the run may start over (`StartOver`), stop at the next gated call
(`Interrupt`, which moves the checkpoint file), complete or fail. `Resolve` settles the
run that waits at this checkpoint, `Finish` records the resumed one. `CancelFinds`, `CancelRun` and
`CancelDeletes` are the three steps of `cancelTask` for a run nobody executes. A crash
loses all goroutines; `Load` fails the records that are running and leaves the others.

A run that resumes takes over the checkpoint of the run it found (`checkpointID`), so the runs
that one ordinary run leads to form a chain that shares one file. The calls of a chain are
numbered in the order in which the turn reaches them.

### CronScheduler

`jobs` and `disk` are the list and `jobs.json`. Every change sorts the list, in memory
too, and then writes it or fails (`Save`, `SaveFails`). The runner goes `Claim` or
`ClaimNone` - `Fire` - `Record` - `Plan` - `Select` - `WakeUp`. Times are small numbers
instead of milliseconds. A cron expression is one more way to obtain a later time, so the
kinds are `at` (which covers a delay: both delete the job after its run) and `every`.
`Claim` returns the job by the index it found before the save that sorts, as the code does.
`SortJobs` is the set of stable sortings of the jobs at some places of a list (a set of one),
so that what sorting does can be proved without induction over lists.

### SessionStore

`TurnLoop` and `Approval` see the store as one state; this module opens it. An operation
(`EnsureSession`, `StartRun`, `FinishRun`, `SettleRun`, `ResetSession`) changes memory and
leaves in `left` the file operations of the save that follows. While `left` is not empty
the mutex is held, so no other operation starts. The steps of the save take them out in
the order of `Stage`: the removal of a reset, then for each session its run files, the
sweep of run files nobody names, `meta.json`, `messages.json`; then the directories of
unknown sessions, `index.json`, and after a migration the renaming of `session.json`.
`SaveFails` ends a save at any of them and keeps the change in memory, as the code does;
`Crash` ends it and loses memory. Sessions and runs of one session are written in an order
left open, which covers the order of the code's lists.

`LoadSplit` reads the index and what it names, fails the runs that were running
(`Interrupted`) and saves if there were any. `LoadLegacy` takes a `session.json` of the
form that has no sessions of its own, for which a new id is made up at every attempt.
`LoadFails` is `main.go:135`: the error is logged and the server serves an empty store.

Data: a run record is its status, a conversation the set of runs with a turn in it.
`messages.json` stands for `todos.json` too, which follows it and is read independently.
Titles, times and the current session are left out.

### AgentRun

`TurnLoop` sees a run as a turn that ends and `Approval` as calls that are settled; this
module opens it. The run's own goroutine goes `Prepare` (`newEinoAgentRun`, which pays for
the first call of the model) - `Consume...` (one action per kind of event) - `RetryIgnored`
or `Finalize`, which starts over or ends. The framework's goroutine goes `CallModel` -
`ModelAnswers` - `AfterModel` - `FrameworkNotes` - `ToolsDone`, with one goroutine per tool
call (`Gates`, `Refused`, or `Reserve` and `Returns`). A message of the model is recorded by
the goroutine that marks it first (`Mark`), and marking and recording are two steps.

The run context is shared: `modelCalls`, `toolCalls`, `byName` and the tool policy. A policy
is the set of tools one of which must be called, `{}` for any tool, `None` for no
requirement. `queue` is `requiredPolicies`, one entry per prepared call of the model.
`intent` is what the scheduling hook makes of the user's message, which is the same when a
run resumes; `GuardRequires` is what the grounding guard may ask for, whatever the text.

External: Eino's `ChatModelAgent` and runner. The model calls any of the exposed tools or
none, or fails; events arrive in the order in which they are emitted; calls of one message
run in parallel and the framework waits for all; a gated one interrupts the run.

### FeishuChannel

`Deliver` is an event that brings a message: `markProcessed`, and a turn with a handler in its
own goroutine. `processed` and `seen` are the list and the set of the service, of capacity
`Window`. The turn's loop (`Service.process`) is its `loop`: it waits in its `select` for a
progress update (`TakeUpdate`), the feedback timer (`AddReaction`, then `SendCard`), the result
(`TakeResult`) or the end of its context (`TakeTimeout`), and then answers: the reaction is
removed, the card is patched (`PatchAnswer`), and if that reports an error, or there is no
card, the answer is sent (`SendAnswer`). A call of the Feishu API is done, refused, or done and
reported as failed (`Outcomes`). `ClickDecide` is a click that approves or rejects, whose response
takes the place of the answer that asked; `ClickCancel` is the cancel button; `ShowResponse` is the
moment Feishu replaces the card by the response, which no code orders with the patch.
What the user sees is in the same record as what the process knows: `card` and `knowsCard`,
`reaction` and `knowsReaction`.

### RuntimeMonitor

`Publish` numbers an event and drops it for a full channel. `Subscribe`, `Unsubscribe` and
`Receive` are the event stream; the page applies an event (`applyRuntimeEvent`), arms a timer,
asks for a snapshot (`Ask`, `Answer`, `Show`) and takes whatever answer comes in, also when a
later one came before. A run's picture is the number of the event that brought it.

### MemoryStore

An operation reads, changes and replaces a file under one mutex, so it is one action; it fails
and leaves the file as it was. What is not under the mutex is in steps: a run asks for memories
and recalls them; a tool's result is captured (`CaptureTool`), then its record is appended to
the run's pending records by reading and writing the run's metadata (`ReadPending`,
`WritePending`), by the hooks of parallel calls at once. `Reset` takes the session lock
(`Unlocked`); `ResetBreaks` fails after `memory.json` or within the directory of results.
A content is what `memoryKey` makes of it; one that was cut off at 500 runes is not recognised.

### ContextBuilder

A message is its role, size, calls and the call it answers. `PreCompact` is `BuildPreCompact`:
the budget for tool results, `Snip`, `MicroCompact`; `Prune` is `FinalizeBudget`.
`CompactHistory` and `ReactiveCompact` are the summaries, which fail or replace.
The run around them is `StartRun` to `EndRun`, with prompts that are too long, reminders, and
results that come into the history in the order in which the tools finish. The history that
several runs share is what the package `agent` offers (`Agent.Run` more than once); the server
starts every run with the turns of the store, which is the case of a first run with a long
history.

### Grounding

An answer is what it claims (`claims`, in the order in which the guard looks for them), whether
it says that nothing was done (`safe`), the calls written in it as text (`markup`) and the job
ids in it. `EndCall` records a result and its evidence under the run's lock. `Finalize` is
`FinalizeRun` of both guards and `retryFinalizationToolPolicy`; `RetryIgnored` is the reminder
before it. The scheduling hook's tool policy is here because it decides which tools are exposed
(`Exposed`), which a resumed run does before its waiting call (`NotFound`). The guards read the
trace of the run beside its results (`tool_grounding_guard_hook.go:271-280`): it has an item like
the result for every call that has one, and perhaps one more, without an error, for a call of a tool
that is not there - whether Eino emits an event for the answer to such a call is left open (`notFound`).

### Toolset

An agent is built by `NewAgent` from the files and MCP tools of that moment: `FileSkills`
(roots in their order, first of a name wins, a broken file costs all), `Register` and `Merge`
(skills with one name become one), `Definitions`. `CallTool` and `CallInside` are the gate for
a call of an agent and of a specialist; `Approve` builds a new agent, which looks up the tool by
its name. `EditFiles` and `RestartServer` come at any time; a restart loads the MCP servers
again, each of which may list other tools or in another order (`Lists`), have one that cannot be
taken over, or not answer (`LoadResults`). Names are sequences of words and a tool of a server also has
the name it has there (`remote`), so that `mcp_a_b_c` is one name for tools of two servers, or for
two tools of one server that `sanitizeName` makes alike.

### RuntimeContext

A block has a key, its priority, limit and heading from the code, and a length. `Put` is
`SetContextBlockWithPriority`, `Render` is `renderRuntimeContext`. `BeforeModelCall` runs the
loop's and the hooks' settings in their order; the replies of the model change what the next
call is told.

## 3. Properties

`TurnLoop`

* `LogSerial`, `SerialInv`: every turn was computed from exactly the turns before it, in
  the same conversation. `SerialInv` is the reason, and is inductive with `TypeOK`.
* `NoMessageLost`: a message dropped for a newer one is part of the prompt of a message
  that was not dropped - unless two submissions overlapped (see finding 1).
* `CancelHonoured`: a message cancelled before its outcome was judged never answers.
* `OneOutcome`: a delivered outcome never changes.
* `ResetIsolates`: a message given to the loop a reset stopped never adds to the new
  conversation. `NoOrphanLoop`: a loop that takes messages is in the table, or about to be
  stopped.
* `EveryRunCloses`, `ResetCompletes`: under fairness every accepted run is closed and a
  reset comes to its end.
* `ImplementsSessionLog`: refinement, with `done` as the outcome of the abstract runs. In
  the abstract specification reading the conversation and appending to it is one step.

`Approval`

* `AtMostOneWaiting`: of the runs that wait - there may be several - no two wait at the same
  checkpoint, so a card, which names a checkpoint, is about one run at a time.
* `WaitingIsResumable`: the checkpoint of a run that waits is on disk, and stands at the run's
  call unless a decision on it is in progress or the server has died.
* `OneDecisionPerCall`: a call is executed or rejected by one decision. Two things are
  excepted and named in the formula: the checkpoints an API decision resumed although the run it
  had found no longer waited (`stale`), and one more decision per crash.
* `OutcomesAreFinal`: no decision overwrites a cancellation and no cancellation a decision.

`CronScheduler`

* `CronInv`: `TypeOK`, and `ClaimHeld`: the job that runs is the one that is marked, and stays
  in the list; and `NoLostWakeup`: a runner that sleeps without a token sleeps no longer than
  the first job it could claim allows.
* `AddedIsDurable`, `RemovedIsGone`: across failed saves and crashes.
* `OneShotOnce`: a one-shot job runs once, plus once per crash at most.
* `AddedFires`: under fairness an added job runs, unless it is removed.

`SessionStore`

* `StoreInv`: `TypeOK`, and `SavedIsLoaded`: after a save that reported no error a load gives
  what is in memory.
* `TalkHasRuns`: wherever a save was cut off, a turn of the loaded conversation belongs to
  a loaded run that has ended or waits. The order run files, meta, messages makes it so.
* `DurableForward`: what a load would give never goes back: sessions stay in the index,
  runs stay, final records stay as they are, a run that ended is not running again.
* `LegacyKept`: the runs of an old `session.json` are in that file until the index is
  written, and in exactly one session afterwards, however often the migration is cut off.

The last three name what they except. `torn`: `ResetSession` removes a directory file by
file before it saves, so a crash in between leaves a half-deleted session in the index,
which the next start loads as it is. `blind`: after a failed load the next save deletes
the directories of the sessions that were not loaded.

`AgentRun`

* `BudgetHeld`: no budget is exceeded, in total or by name, by parallel calls, by starting
  over or by resuming, and a tool that runs is counted.
* `RunIsShort`: without any budget a run calls the model at most `6 * MaxReactSteps` times.
  `RunEnds`: under fairness it ends.
* `UnmetIsAsked`: a run that answers without the required tool has been told so in both ways
  there are.
* `ResultsAreKnown`: when a run starts over or compacts its history, the messages it goes on
  from hold the results of all calls made.

`FeishuChannel`

* `ChannelInv`: the set and the list of ids agree and are the last ids accepted
  (`WindowIsLast`), and an id is accepted again only after a window of others at least
  (`NoEarlyRepeat`).
* `AnswerShown`: a turn that is over shows one answer and neither reaction nor progress card,
  whatever came first of result, timeout and progress. Two exceptions are named: an API call
  that reported an error (the answer may then be there twice, the card may stay), and a click on
  the cancel button, whose response may replace the final answer. An answer that asked for an
  approval and was replaced by the response to the decision counts as shown.
* `Answered`: under fairness a turn comes to its end although its handler may not.

`RuntimeMonitor`

* `MonitorInv`: a page with nothing under way shows exactly the runs that are active, each as its
  last event left it, unless an event was lost after its last snapshot, a request failed, or an
  older snapshot overtook a newer one.

`MemoryStore`

* `MemoryInv`: every record of a tool result names a raw result that exists, whatever failed on
  the way; the long-term file is bounded and holds nothing twice (`KeysOnce`); a run that ended
  well has a record of each result, but those that parallel hooks overwrote.
* `ResetForgets`: after a reset nothing of an earlier run is in the session's memory, or comes
  into it later, or is recalled by a later run.

`ContextBuilder`

* `ContextInv`: in what the model gets, every result stands behind its call, the last user
  message is that of the run unless a summary, note or reminder replaced or followed it, and the
  budget holds but for the parts of one message that are not content. That a call keeps its results
  is not part of it and does not hold (finding 5), so a provider may still refuse the conversation.

`Grounding`

* `GroundingInv`: evidence is numbered in its order and only what a tool returned is citable; a
  delivered answer that claims a completed action had a tool that did it; ids in it are of jobs
  that were; a guard takes back nothing that is true, but in a run that resumed. The exceptions
  (`unheard`, rejected calls, unknown tools in the trace, `DecidedIsFound`) are listed in section 7.

`Toolset`

* `ToolsetInv`: an agent has every built-in tool and hook once, whatever the files are; a
  specialist calls only what its definition names; nothing that needs an approval runs without
  one; what runs after an approval is what the user was asked about, or a tool of an MCP server in
  place of one with the same joined name after a restart, never a built-in tool in place of
  another; the inventory page shows the agent that was built last.

`RuntimeContext`

* `BlocksInv`: each call is told what holds at that call (`NothingStale`), critical blocks are cut
  only by their own limit, the ledger keeps at least 4000 runes, the whole keeps to the
  budget and leaves out only what has no room.

## 4. Runs and bounds

| run | instance | what is in reach of the bounds |
|---|---|---|
| `turnloop_messages` | 3 messages, 1 direct run, 2 loops, every message can be cancelled | a chain of two corrections, a superseded and a preempted message at once, a loop that fails under them and its successor, a direct run that competes for the lock; three is the smallest number with a correction of a correction |
| `turnloop_live` | 2 messages, 1 reset, 2 loops, fairness | a reset between the two messages and in the middle of a turn, a message that still holds the detached loop; liveness and the refinement; no symmetry, since it is unsound for liveness |
| `turnloop_merged` | the smallest instance that refutes the claim | finding 1 |
| `approval` | 2 ordinary runs, 1 decision by message (approves), 1 over the API (rejects), 1 cancellation, 2 calls, 1 retry, 1 reset, 1 crash | two runs that wait at once, two decisions on one call, a decision on the second call, a stale API decision while the other run waits, a cancellation in each window; 1.1 million states (a second message makes 7 million and shows nothing else) |
| `approval_repeat` | 1 ordinary run, 1 decision, 1 cancellation, 1 retry | finding 3 |
| `cron` | 1 one-shot and 1 repeating job, 1 removal, time up to 3, 1 failed save, 1 crash, fairness | two jobs due at once, a save that fails at every place, a crash between run and record, the wake-up of an added job after each of these |
| `cron_failed_add` | 1 job, 1 failed save | finding 2 |
| `session_store` | 1 chat, 1 old and 2 new runs, 3 made-up ids, two mishaps: crashes, or one failing file operation and a crash | a migration cut off twice, a crash in the save of a load that followed a crash, a reset between two runs, a failed save with a crash after it |
| `agent_run` | 2 tools, 3 calls (one that was waiting), model budget none or 3, 2 tool calls, 1 of the tool `web`, 2 iterations, a gated tool | two calls in parallel with one left in the budget, every way to start over, a resumed call beside new ones, a prompt that is too long twice; more iterations repeat the same states |
| `agent_policy` | the same, without the gate | finding 4 |
| `server` | the eight scenes, below | |
| `context_calls` | the scene `context` | finding 5 |

The scenes of `server`:

| scene | instance | what is in reach |
|---|---|---|
| channel | 1 turn, 1 message and 2 clicks in a window of 2, 4 acceptances, 2 API errors, 1 crash | an id that left the window and comes again; an error at the reaction and at the patch of one turn; a click that cancels while the answer is patched; what turns share is the window only, so one turn is enough for the chat |
| memory | 2 runs, 2 calls, limits of 1, 1 file error, 1 crash | two hooks of one run at once, a limit reached by the second run, a reset between runs, one that breaks in the middle |
| long term | 2 contents (one too long), a limit of 2, 4 changes | a content that comes again, one that was cut off and comes again, one record too many |
| monitor | 2 runs, 2 requests, a channel of 1, 3 events, 1 fault | a full channel, two requests that overtake each other, a stream that breaks |
| context | results of 1 or 5, messages of 1 or 13, a budget of 12, at most 6 messages, 7 in the history | every cut alone and one after the other; a message larger than the budget; a snip within a group |
| grounding | 3 tools, 2 calls, 1 job and an id of none, 4 calls of the model, answers with each kind of claim | both retries, a guard that asks after one, a run that resumes with a reminder in its message |
| toolset | 1 session, 2 calls, a file named like a built-in skill, a broken file, a specialist, a server with two tools of one joined name that may list either, both in any order or none, 1 fault | a gated call of a specialist, a decision after a restart that loaded the other tool of that name |
| blocks | the code's lengths and limits, ledger entries of 1500 runes, 4 calls | all blocks at their limit at once, a ledger beyond its own, blocks that come and go |

Bounds that are in the guards of a module and not in the code: `MayFail` (a loop fails by
itself only while enough unborn loops are left for resets), `MaxTime` (the clock stops,
timers do not: `WakeUp` is enabled at `MaxTime`), `MaxFaults`, `MaxCrashes`, `MaxMishaps`, `MaxResets`,
`MaxRetries`, `MaxAccepted`, `MaxUpdates`, `MaxEvents`, `MaxHistory`, and the numbers of turns,
runs and calls. The proofs hold for all values of those in their modules.

Deadlock is checked in `cron`, where the runner never stops. `SessionStore` states no
fairness: it makes no promise that something happens. The other systems come to
rest when all messages and commands of the instance are used up.

## 5. Fairness

`TurnLoop!Fairness`: a goroutine that can run does (weak fairness of the steps of
submitters, loop, direct runs and resets); an agent's turn ends, by its answer, its budget
or the turn timeout (`TurnEnd` is part of `LoopStep`); a loop that was stopped exits
(`Stop` has a graceful timeout of five seconds); `sync.Mutex` does not starve a waiter
(strong fairness of the steps that take the session lock: Go's mutex hands itself to a
waiter after a millisecond). Nothing makes messages, cancellations, resets or failures
happen. `CronScheduler!Fairness`: the runner, the calls that wake it, time, and a restart
after a crash. Adding and failing are not fair. `AgentRun!Fairness`: the run's goroutine, the
framework's and those of the tools run, and a call of the model or of a tool returns (the
shell and the web tools have timeouts of their own, and the context of a turn ends after the
turn timeout, `internal/feishu/service.go:29`); what it returns is open.
`FeishuChannel!ChannelFairness`: the timer of a turn fires and its loop goes on when it has
something to do; the HTTP client has a timeout (`internal/feishu/service.go:143`), so an API call
ends. Handlers are not fair: one
may wait for the lock of a session, which no context ends. Events, clicks and the feedback timer
are not fair either.

## 6. Proofs

`SessionProofs` proves, from `TurnLoopAssumption` (the kinds of runs are disjoint, the
set of messages is finite, the null values are none of them), first that the conversation is
serial:

* `Typing`: `Spec => []TypeOK`. `TypeOK` alone is not inductive: a step reads
  `home[r]` as a loop and `held[g]` as a message. The invariant `TypeInv` adds `Placed`
  (a routed request has a loop, an item is in the loop it was routed to, a loop in a turn
  holds a request) and `Judged` (what is about to be recorded is a final status).
* `SerialInvariant`: `Spec => []SerialInv`, and from it `Serial`: `Spec => []LogSerial`.
  `LogSerial` needs that the conversation at the time of the append is the one that was
  restored (`Fresh`), which needs that nobody else appends or resets in between, which
  needs that whoever is inside a turn owns the lock (`Owned`), which needs `Placed`, so
  that finishing a message that waits elsewhere never releases somebody else's lock.
  The lemmas `TypeStep`, `OwnedStep`, `FreshStep` and `LogSerialStep` are these layers,
  each with one step per action.

Then `SessionInv`, which is `TypeInv` and one part for each question:

* `NoLoopOrphaned`: `NoOrphanLoop` is inductive with the types. Only `Route` makes a loop and
  puts it in the table in the same step, only `ResetDetach` takes a live one out.
* `ResetsIsolate`: `Isolated` adds that a reset past its wait has a loop that has exited, and that
  a turn in the log is of a message that was sent; so a message that is recorded is in a loop
  that is alive, which is not the reset's.
* `RunsEndOnce`: `Spec => OneOutcome`. `Open` says who may close a run: its submitter until it is
  pushed, then the loop that buffers it or serves it, and by `Placed` that is one loop.
  `Born` keeps a push from a loop that does not exist.
* `CancelsHonoured`: `Honest` adds that a run that answered has a result that was judged, so that
  cancelling it afterwards is `tooLate`; `Unrun` that a message has no result before its turn.

Then what becomes of messages:

* `MessagesCarried`: `Spec => []NoMessageLost`. The invariant `Messages` holds of the shape of
  prompts at any time (`Chained`: one that contains a message contains its whole prompt) and of the
  stamps (`Stamped`: a push counts itself, so it is the newest). As long as submissions did not
  overlap it holds further that the pending message of a loop is the newest one it has been given
  (`Newest`) and covers all it has not begun (`Gathered`), that what arrives during a turn covers the
  turn's message (`Corrects`), and that a turn is preempted only by something in the buffer
  (`Justified`). So the messages `GenSupersede` closes are in the prompt of the newest, and the
  turn `JudgeTurn` closes as preempted in that of a message still in the buffer. `Newest` is the part
  that fails when two submissions overlap (run `turnloop_merged`), and the others with it.
  The actions that move no message are one lemma (`Quiet`).

And last the refinement:

* `ServerIsSerial`: `Spec => SL!Init /\ [][SL!Next]_(SL!vars)`, the safety part of the refinement
  `ImplementsSessionLog`, with `outcome <- done` and `Silent <- Resets`. `Open` makes the step that
  starts a run an `Accept` and the one that ends it a `Drop`, `Answer` or `Confirm`; `Fresh` makes
  the turn of an `Answer` one of the present conversation, although it was restored many
  steps before.

`ApprovalProofs` proves, from `ApprovalAssumption`:

* `ApprovalTyping`: `Spec => []TypeOK`.
* `ApprovalInvariant`, `OneWaits`, `Resumable`: no two runs wait at one checkpoint, and a run that
  waits can be resumed. `TypeInv` adds to the types that a run that returned has a status (`Judged`)
  and a run on its way or waiting has a checkpoint (`Named`). The inductive invariant,
  `ApprovalInv`, has eleven parts. A run that is past its lock holds
  it (`LockInv`), so the step that makes a second run wait at a checkpoint (`Finish`) comes after the
  one that left none waiting there (`Resolve`, `FinishInv`), in the same critical section. What
  separates the chains: a decision takes over the checkpoint of an ordinary run only when that one
  has ended (`ChainInv`), so an ordinary run is the first that waits at its own. For the
  files: a cancellation that will delete one has already made the last run that waits there
  a cancelled one, and no decision in progress will record a run that waits there
  (`DeadInv`), because a decision that finds no waiting run fails its own run; of an ordinary run
  that is on its way to wait nobody deletes the file (`OwnInv`). `StopInv` and
  `MoveInv` say where the file stands.
* `OutcomesStay`: `Spec => OutcomesAreFinal`. `RecordInv` says that the record of a decision's run
  is open (or dropped by a reset) until `Finish` writes it; `Resolve` and a cancellation write only
  a record that waits, whose run has ended (`WaitInv`, `FoundInv`).
* `DecidedOnce`: `Spec => []OneDecisionPerCall`. `SettleInv` is about one checkpoint. While no API
  decision resumed it for a run that did not wait, the call a waiting run is at has been settled
  no more often than the server died, unless
  the decision that settled it still holds the lock and is about to resolve that run
  (`OpenInv`); a decision by message keeps what it found since the lock (`TextOpenInv`, `SeenInv`).
  Where a run stops, nobody settled the call it stops at (`NextInv`), because calls
  are settled in the order the checkpoint moves (`OrderInv`, `AheadInv`) and none before the
  ordinary run has ended (`FreshInv`). Steps of a run at another checkpoint leave all this as it is
  (`QuietStep`, with `SettleFrame`, `ReadyFrame` and `StopsFrame`). The cardinality of
  `settledBy` needs that decisions are finitely many.

`CronProofs` proves, from `CronAssumption` (tool calls that add and that remove are different,
delays are positive):

* `RunnerServesJobs`: `Spec => []CronInv`. `ClaimDue` returns what stands at its index after the
  save has sorted the list. That this is the job it marked is `BestIsFirst`: in a list that is
  sorted (`ListInv`) the due job with the least next run is the first one, and `SortedFirst`:
  sorting leaves it there. `Held` then keeps it: additions are not marked and removals refuse
  what is marked. `Timer` is `NoLostWakeup` from the moment `Plan` has read the list.
* `RemovedStaysGone`: `RemovedIsGone` with `Used`, that no job is added twice.
* `AddedStays`: `Durable` adds that a run that is recorded has started, so `Record` deletes
  only what was run.
* `OneShotRunsOnce`: `Runs` says that a one-shot job still in the list, memory's or after a crash
  the file's, has been run no more often than the server died, unless it is running now. A failed save in
  `Record` leaves the job in the file, and only a crash brings it back from there.

`AgentRunProofs` proves, from `AgentRunAssumption` (limits are numbers, the framework makes at
least one iteration, `None` is neither a tool nor a set of tools):

* `RunTyping`: `Spec => []TypeOK`, with `Noting` (who is about to record an event has one).
* `Budgets`: `Spec => []BudgetHeld`. With `TypeOK` it is inductive: the budget is compared and
  used in one step, under `budgetMu`.
* `Short`: `Spec => []RunIsShort`. `Counted` gives each start an allowance of calls
  (`ThisStart`) that every call is paid from, and each of the two reasons to start over the
  allowance of the start it causes (`Once`). It needs `Quiet`: nothing of an earlier start
  still calls the model when the next one is prepared, because the framework has ended when
  its last event is consumed.
* `ResultsKnown`: `Spec => ResultsAreKnown`. `Delivering` says that a result that is not in the
  history is an event still to come, that nothing comes after an end, and that calls are open
  only while the framework waits for its tools; so once an end is consumed every result has been.
* `UnmetAsksAgain`: `Spec => []UnmetIsAsked`. A message is recorded by either of two goroutines, and
  each recording takes one entry of `queue`. `Marking` numbers the messages, so that one which nobody
  marked is the framework's latest; `Remembering` counts for whom an entry is left (two, while
  one goroutine is about to record a message and the other has yet to mark the next);
  `Ignoring` then keeps that a required tool left uncalled by the last message is known when the run
  judges its answer. It needs that `None` is no outcome of a run.

`SessionStoreProofs` proves, from `SessionStoreAssumption`:

* `SessionsAreSaved` (`StoreInv`), `ConversationsHaveRuns` (`TalkHasRuns`), `LegacyRunsAreKept`
  (`LegacyKept`, which says something where there are old runs) and `DiskMovesForward`
  (`Spec => DurableForward`), all from one inductive invariant, `DiskInv`. It follows a save from
  what it has left to do (`LeftInv`: the index comes last) over what it has passed (`PassedInv`:
  that is on the disk as it is in memory) to what a load gives: memory is ahead of it
  (`AheadInv`), so a file that is replaced, in whichever order and wherever the save ends, only
  moves it forward. A conversation in memory is of runs that have ended (`TalkInv`), which are on
  the disk before it because `Stage` puts run files before `meta.json` and that before
  `messages.json`. `MigratedInv` follows the runs of an old file from there to the one session
  made up for them (`ChatsInv`, `ServedInv` and `LiveInv` are what it and the others need).

`ContextProofs` proves, from `ContextAssumption`:

* `ConversationIsSound`: `ContextSpec => []ContextInv`, for all budgets, thresholds, sizes and
  numbers of calls. `BuilderInv` adds to it that the history is a proper list as well (`Proper`: the
  system prompt first, each result behind its call with results only between), that both lists
  hear the question (`Going`), that they end with the calls while tools run (`Asking`), and that
  the numbers of calls are bounded (`Issued`). Each cut has its own lemma (`ApplyKeeps` for the
  budget for results, `SnipKeeps`, `MicroKeeps`, `PruneKeeps`, `CompactHistoryKeeps`,
  `ReactiveCompactKeeps`); what they share is that a tail of a paired list is paired unless it starts
  among the results of a call, and what is heard depends on the tail from the last user message
  on. `PruneKeeps` also proves the budget: the sums the code adds up group by group are compared with
  the recursive function `TotalRunes`.

`ServerProofs` has the theorems about four modules of `MCServer`. Those about `FeishuChannel` need
`ChannelAssumption` (messages and clicks have different ids, a window and a queue hold something):

* `ChannelInvariant`: `ChannelSpec => []ChannelInv`. `WindowInv` is inductive: that an id is
  accepted only when it is not in `seen` gives the distance of repetitions because `seen` is
  exactly the tail of `accepted` (`WindowIsLast`); that removing the oldest id from `seen` keeps
  it so needs that no id is twice in the list (`WindowOnce`), which follows from the distance
  again.
* `AnswersShown`: `ChannelSpec => []AnswerShown`. `Consistent` has four parts for each turn:
  its type, and what the chat can show (`Shows`), what the process knows of it (`Knows`) and how
  the card stands (`Stands`) at each place of the loop, as far as no API call has failed. The
  actions of a turn change its record only (`OneTurnChanges`), so each needs one lemma about a record.
* `PageIsTruthful`: `MonitorSpec => []MonitorInv`. `WatchInv` says of a page that is not right in a
  run why it will be: an event younger than what it shows is on its way, something was lost since
  its last snapshot, or a timer or a request is under way; and the same of every answer that is still
  to be shown (`AnswerInv`), with the ways in which an answer may be overtaken.
* `MemoryIsKept`: `MemorySpec => []MemoryInv`, and `ForgottenForGood`: `MemorySpec => []ResetForgets`.
  `KeptInv` says which hook of which run holds what of a result (`CallsInv`), that the pending
  records of a run are of its own results, which exist (`WorkInv`), and that every part of the
  long-term file has an oldest record (`AgesInv`), which is what trimming takes away. The name `"none"`
  is assumed to be no run.
* `AnswersAreGrounded`: `GroundingSpec => []GroundingInv`. `GroundInv` adds that a result
  that is no error names only jobs that were made (`Recorded`), what the retry at the end of a run was
  for (`Retried`), and that a resumed run has its waiting call before it and the tools it will expose
  (`Resumed`).

`ToolsetProofs` proves, from `ToolsetAssumption` (finitely many skill files, no server without
a name) and `CallsAssumption` (`Absent` is no call), and for the second from `RuntimeContextAssumption`
(lengths are natural numbers, an entry of the ledger has one, `Unread` is no length):

* `AgentsAreWhole`: `ToolsetSpec => []ToolsetInv`. The first half is about lists: what merging keeps
  (`OnceParts`: of entries with one key the first, so an entry that is the only one with its key;
  `MergeParts`), that a registry keeps of each skill it was given the tools and hooks whatever it
  is given later (`RegisterCarries`, `RegisteredParts`), and hence what an agent is, whatever the
  files are (`AgentIsWhole`) and what the inventory shows of it (`InventoryShows`). Each of the functions
  defined by recursion exists (`StepsExist`), and what holds of the empty list and is kept by every
  further skill holds of the registry (`Reaches`). The second half is the inductive invariant
  `ToolsetIs`. It follows each call from its gate over a wait, a restart and a decision by a new
  agent, whose tool of that name may be another one: a call that waits asks about the tool it is
  of, which the agent built next has too unless something changed meanwhile (`CallIs`); two tools
  of one name are tools of servers (`SameName`, with
  `LocalNames` that no name of a server's tool is a built-in one); a call that runs belongs to a
  session whose agent is whole; and a call of a specialist points to a call that does not wait any
  more, so the definition that binds it stays (`Bound`).
* `BlocksAreTrue`: `BlocksSpec => []BlocksInv`. Three groups of lemmas are about the operators: what is
  kept of a list of blocks (`OnlyParts`) and what putting texts makes of it (`PutParts`: a key told
  anew has its new text or is gone, every other key keeps its own); that the order by priority
  has the same blocks (`ByPriorityParts`); and that rendering goes through them one by one, so
  that what is shown at each point is what was shown before with at most one block more
  (`ShownOf`, `JoinKeeps`, `RenderedShown`). How long it is by then is a sum over the keys (`SumMore`), which
  bounds what stands before a critical block and before the ledger (`RoomFor`) - if the texts
  are as the hooks make them (`Modest`), and the guidance for schedules and the notice of a job
  that is due are never both there. The inductive invariant `BlocksIs` says so: which texts there
  are (`Brief`), that no key is there twice and no text empty (`OneEach`, `AllFull`), and what
  the call that is under way was told (`ToldNow`).

Proofs hold for any number of messages, loops, sessions, decisions, calls, retries, resets, crashes,
jobs, failed saves and file operations, tools, events, turns, runs, memories and requests, any
size of the window, of channels and of budgets, any lengths of texts, and any set of files and
servers.

Induction over data: the library's induction theorems take an operator, which no installed prover
can instantiate. `ContextProofs` and `ToolsetProofs` get along without them: that a set of numbers
that is not empty has a least element (`LeastOf`) is a fact the provers can use, so a claim about
all prefixes of a list is proved by looking at the shortest one that violates it, and a function
defined by recursion on numbers is defined up to every number for the same reason. Folds of the
community modules over a LAMBDA stay out of reach.

Only model-checked: all liveness (`EveryRunCloses`, `ResetCompletes`, `AddedFires`, `RunEnds`,
`Answered`), and with it the fairness of `ImplementsSessionLog`, out of the prover's reach.

## 7. Findings

Each is a sentence of the repository's documentation or comments that a run refutes.

1. Overlapping corrections (`turnloop_merged`). `submit` releases `l.mu` before `Push`, so
   the message that was chained last can be pushed first. `genInput` keeps the message that
   was pushed last, which knows nothing of the other one, and drops the one that knows both.
   `docs/architecture.md:77` says corrections that arrive in a row are merged.
2. Failed add (`cron_failed_add`). `Add` reports a failed save and keeps the job in memory;
   it runs although the tool said it was not added (`docs/operations.md:184`).
3. Repeated step (`approval_repeat`). A resumed run that starts over resumes the same
   checkpoint and executes the approved call again; `docs/configuration.md:116` says
   completed steps are not executed again.
4. Stale policy (`agent_policy`). An answer is measured by the next entry of
   `requiredPolicies`, not by the policy in force. A resumed run prepares one entry before its
   approved call, so the answer after that call is measured by the policy required before it,
   and the run is told to call the tool again - which, by finding 3, repeats the call. A prompt
   that is too long at the first call shifts the queue in the same way. `agent/hook.go:268`
   says the policy is cleared once a tool has returned.

5. Cut groups (`context_calls`). `truncateMessageGroup` cuts a group from its end and the head
   that snipping keeps may end within a group, so calls stay without their results;
   `docs/architecture.md:122-125` says that the chain stays complete and that calls and results
   stay together. (Results without their call, the other direction, do not occur: `ContextInv`.)

Divergences and limits met while modelling that need no run of their own; where a property
excepts one, it names it:

* A "new session" command deletes the run records of the old session (`session_store.go:489`),
  which `docs/operations.md:176` says is kept for audit.
* The hooks of parallel tool calls read and write the run's pending tool records without a lock
  (`tool_memory_hook.go:39-42`): one of two records may be lost (`call.state = "lost"`).
* A guard that asks for a tool is not heard when the retry at the end of the run was used up by
  an ignored policy before (`agent.go:961`): the answer it objected to is delivered (`unheard`).
* A call that the user rejected is recorded without an error (`eino_loop.go:544`), and the guards
  count it as one that worked (`RejectedTools`).
* A run that resumes has no evidence of what was done before it waited (`agent.go:273`), so a guard
  may take back what is true (`before`).
* A resumed run whose message asks for a reminder exposes the scheduling tool alone, so another
  tool that was approved is not found (`DecidedIsFound`).
* Tool calls written as text are only held against an answer when a tool is named in them.
* What the scheduling tool refuses in words, without an error, is recorded as a citable action.
* A ledger longer than 6000 runes is cut at its end, where the newest entries are, while
  `docs/architecture.md:146` has the ledger in every later call; `LedgerShown` says what remains.
* The response of the cancel button may replace the final answer (`feishu_channel.go:168`).
* An empty reply leaves the progress card as it was (`feedback.go:90`); `AnswerShown` excepts it.
* The names of MCP tools are joined from the words of server and tool (`configuration.md:122` says
  that this avoids clashes), and `sanitizeName` makes several names one: after a restart that loads
  other servers or other lists, an approved call may run another tool of the same name, of another
  server or of the same one (`RunsWhatWasAsked`).
* A call of a tool that is not there is answered with a text that is no error (`eino_loop.go:84`); if
  it comes into the trace, the guards count the tool as one that worked (`notFound`).
* A message that approves without naming a checkpoint decides about the newest waiting run, and a
  card names the checkpoint and not the call: a second click may decide the next call of that run.
* A server whose session store could not be loaded goes on with an empty one (`main.go:135`), and its
  next save deletes the directories of the sessions it did not load (`blind`).
* One broken `SKILL.md` in any root disables all skill files (`app/skill.go:88-92`); a skill file
  with the name of a built-in skill takes its place in the order and hides its text.
* A call of a specialist that needs an approval ends the specialist, and nobody can approve it
  (`delegated_agent.go:44`).
* Any error of reading `jobs.json`, not only a corrupt file, renames it away
  (`internal/cron/service.go:52`).

## 8. Not modelled

The built-in tools are input and output on files, processes and the network and keep no state
between calls: what they return is open in every model. The search of the active memory asks a
model for words and falls back to lists of words; `MemoryStore` lets a recall return any part of
what may be recalled. The CLI and the evaluation run one agent after the other. Admin views other
than the event stream and the inventory only read. What a model answers, which of its calls are
risky, and what the word lists of the guards find in a text are nondeterministic.

Of the parts that are modelled in part: signatures, encryption, tokens and the connection of the
Feishu channel, the layout of cards and a channel with reaction or card switched off; the syntax
of skill and agent files; transport and protocol of MCP; titles, times and the current session of
the store; the calendar of cron expressions; requests, authorisation and list views of the Task
API; the files of large tool results and transcripts, and what a summary says.

Abstractions of the modules above that a reader should know: `TurnLoop` and `Approval` take
a save of the session store as one step that succeeds (`SessionStore` opens it) and model
one session, since sessions share nothing but the store's mutex and the cron runner; in `Approval`
an ordinary run is over when its record is, so what the turn loop does with messages that overlap is
`DropRun` and `Judge` there and opened in `TurnLoop`; in `Toolset` the set of configured servers and
whether a server's tools need approval stay as they are over a restart; the two seconds after which `Wait` gives up are left out, they end the caller and
not the run. `AgentRun` leaves out the streaming entry point (only tests call it), dynamic tool
search, the summary a compaction asks the model for, and the framework's own retries inside
one model call, which no budget counts.

## 9. What could be added

In the order of what it would show:

1. Two turns of one session in `FeishuChannel` whose handlers are requests of `TurnLoop`, so that
   the outcome of a request is the reply of the chat.
