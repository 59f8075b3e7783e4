# Bridgic: a verification project

Bridgic is a Python framework for agentic programs. Its core is the *automa*: a
dynamic directed graph of workers that an event loop drives in steps, that can
rewire itself while it runs, that stops to ask a human, and that can be resumed
in another process from a snapshot. This directory holds TLA+ modules for that
core, for the feedback that workers ask for, for the ReCENT agent and its memory, for
the connections to MCP servers and for the script of the documentation pages; the TLC
configurations that check them on small instances; and TLAPS proofs of what holds for
every instance.

`src/` below means the root of the repository; `core` is
`src/packages/bridgic-core/bridgic/core`, `mcp` is
`src/packages/bridgic-integration/protocols/bridgic-protocols-mcp/bridgic/protocols/mcp`,
`amphibious` is `src/packages/bridgic-amphibious/bridgic/amphibious`.

## 1. The system

| Component | State | Operations | What is hard | What makes it correct | Modelled |
|---|---|---|---|---|---|
| Worker graph, `core/automa/_graph_automa.py`, `_graph_meta.py` | `_workers`, their `dependencies`, `_worker_forwards`, `_workers_dynamic_states[k].dependency_triggers` | add / remove a worker, add a dependency, bookkeeping of a finished worker, validation | three tables that describe one graph, changed incrementally, some of it while workers run | the tables agree; a trigger disappears only for a result | `WorkerGraph` |
| Scheduler, `GraphAutoma._arun_internal` | kickoff list, running tasks, deferred ferries and topology changes, input buffer, outputs, `_automa_running` | one dynamic step (DS): start, await, apply changes, collect, interrupt / fail / go on | order of the phases; which lists are cleared on which exit; a run spread over several calls of `arun()` | workers start only when they are due, none is forgotten, none runs twice, the result is the run's | `GraphAutoma`, `Dataflow` |
| Human interaction and snapshots, `core/automa/_automa.py` | `_ongoing_interactions`, `_worker_interaction_indices`, `Snapshot` | `interact_with_human`, feedback matching, dump, load | a worker is re-executed from the start at every resumption; partial answers; a crash | the n-th question meets the n-th answer; nothing finished is repeated | in `GraphAutoma` |
| Events and feedback, `core/automa/_automa.py` | event handlers, a future per request | `post_event`, `request_feedback(_async)`, `FeedbackSender.send` | threads, timeouts against late answers, double sends | one answer per request, the first one | `FeedbackEvent`, `OneAnswer` |
| Argument binding, `core/automa/args/_args_binding.py` | forward counts and indices, rules per worker | bind, inject, propagate, update after a change | indices that outlive a run or die with a pause | every receiver gets its element | no |
| Workers, decorators, callbacks, `core/automa/worker/` | callbacks, local space | `arun`, `on_worker_start/end/error` | suppression of errors | - | no |
| Concurrent and sequential automas, `core/agentic/` | the last worker key, a hidden tail | add a worker | the tail is removed and added again | the graph stays a chain (a fan) | no |
| ReCENT memory, `core/agentic/recent/` | node sequence, active timesteps, summary futures | push, compress (sync and async), build context, dump, load | pushes outside the lock, pending summaries, cancellation, snapshots | no message is lost, no reader waits for ever | `EpisodicMemory` |
| ReCENT agent loop, `core/agentic/recent/_recent_automa.py` | local counters, one-time workers, ferries | initialize, observe, select tools, compress, collect, finalize | workers that are added, ferried to and removed again in every round; stop conditions | no result is missed, one answer, the loop ends | `ReCentAutoma` |
| MCP managers, `mcp/_mcp_server_connection_manager.py` | class-level registries, a loop and its thread per manager | get, register, look up, run in the loop, shut down | threads, check-then-act, a loop that does not run yet | one manager per name, registries that agree | `McpManager` |
| MCP connections, `mcp/_mcp_server_connection.py` | lifecycle task, exit stack, session, two events | connect, close, requests | three tasks and a calling thread per connection; refused servers, failing transports, timeouts, retries | resources are closed where they were made, a session is used where it was made, calls end | `McpConnection` |
| Amphibious agent and context, `amphibious/` | history, disclosed details, failure counter, context snapshots | workflow steps, fallback, compress | awaits between read and write, nesting | what is scoped is restored | no |
| Agent structure language, `src/packages/bridgic-asl` | none at run time | translates a class body into a `GraphAutoma` | - | - | no: build time |
| Documentation scripts, `src/docs/docs/javascripts` | the clipboard, a temporary element, pending promises | copy, fall back | the browser answers in its own time and order | a copy is made once and leaves nothing behind | `Clipboard` |
| LLM integrations, tracing, prompts, tool specs, serialization helpers, global setting, model retry | clients, configuration | requests, formatting | I/O | - | no: I/O or data |

How they interact: the application calls `arun()`; the scheduler starts one
asyncio task per kicked-off worker and awaits them all; a worker calls back into
its automa (`ferry_to`, `add_worker`, `remove_worker`, `add_dependency`,
`interact_with_human`, `request_feedback`). All but the last only append to deferred
lists or raise; the scheduler reads those lists when all tasks of the step are done.
`request_feedback` calls the application's event handlers with a sender and waits for
what is sent, from whichever thread.
A pause leaves `arun()` as an `InteractionException` that carries a snapshot;
the application answers by calling `arun(feedback_data=...)` on the same object,
or on an object loaded from the snapshot. A ReCENT agent is an automa whose workers
push to, compress and read one memory; its compression runs beside the workers that
select and call tools, and for every tool call it adds a worker to its own graph. An
MCP tool forwards a call to a connection, whose coroutines run in the loop of its
manager, in a thread of its own, while the calling thread waits for them.

## 2. The modules

| Module | Models |
|---|---|
| `WorkerGraph` | the tables of the graph and the actions that change them, as actions on `workers`, `deps`, `forwards`, `triggers`; the validation operators |
| `GraphAutoma` (extends `WorkerGraph`) | the scheduler, the workers' calls into it, the application |
| `Dataflow` | what an automa with a fixed graph and no ferries promises: the abstract specification |
| `FixedGraph` (extends `GraphAutoma`) | programs that neither change their graph nor ferry: the conditions under which the scheduler keeps that promise, and the invariant that shows why |
| `ReCentAutoma` (extends `GraphAutoma`) | the bodies of the agent's workers, running on the scheduler |
| `EpisodicMemory` | the memory of a ReCENT agent and the tasks or threads that share it |
| `FeedbackEvent` | requests for feedback, event handlers, senders in the loop and in threads, timers |
| `OneAnswer` | what a request for feedback promises: the abstract specification |
| `McpManager` | the registries and loop threads of the managers, as actions of the calling threads |
| `McpConnection` (extends `McpManager`) | connections, the tasks that serve them, the servers and the callers |
| `Clipboard` | the copy buttons of the documentation |
| `MCGraphAutoma`, `MCReCentAutoma`, `MCEpisodicMemory`, `MCFeedbackEvent`, `MCMcpConnection`, `MCClipboard` | instances for TLC |
| `WorkerGraph_proofs`, `GraphAutoma_proofs`, `FixedGraph_proofs`, `EpisodicMemory_proofs`, `FeedbackEvent_proofs`, `McpConnection_proofs`, `ReCentAutoma_proofs`, `Clipboard_proofs` | lemmas and theorems |

### State

The scheduler:

| TLA+ | Code |
|---|---|
| `workers`, `deps`, `forwards`, `triggers` | `_workers`, `.dependencies`, `_worker_forwards`, `dependency_triggers` |
| `kickoff` | `_current_kickoff_workers`: key, what kicked it off, `run_finished` |
| `automaRunning` | `_automa_running` |
| `inputs`, `output` | `_input_buffer`, `_worker_output`; arguments and results are reduced to the number of the run they belong to |
| `ongoing`, `indices` | `_ongoing_interactions` (is the i-th question answered?), `_worker_interaction_indices` |
| `tasks`, `topology`, `ferries` | `_running_tasks` with how each task ended, `_topology_deferred_tasks`, `_ferry_deferred_tasks` |
| `pc`, `cursor`, `outputKeys` | where `_arun_internal` is, the element its `for` loop is at, `is_output_worker_keys` |
| `runs`, `outcome`, `result`, `snapshot`, `restores` | the application's view |
| `fresh`, `ran` | history: who finished since w last finished, how often w finished in this run |

`pc` names the statement at which a call of `arun()` is: `driving` (the loop that
starts tasks), `waiting` (the `await` loop), `changing` (deferred topology
changes), `collecting` (the loop over the finished tasks), `deciding` (interrupt,
fail, next step), `idle` (no call in progress) and `broken` (an exception left by
a path that clears nothing).

The agent, in addition:

| TLA+ | Code |
|---|---|
| `iterations`, `noTool` | `iteration_cnt`, `no_tool_selected_cnt` in the workers' local spaces |
| `memory` | the kinds of what was pushed since the last observation |
| `calls` | the tool calls a collecting worker was made for |
| `owed`, `answers`, `streak` | history: results that are still missing, answers to this goal, selections without a tool in a row |

The memory:

| TLA+ | Code |
|---|---|
| `nodes`, `goal`, `active` | `_node_sequence`, `_goal_node_timestep`, `_non_goal_node_timesteps`; a timestep is a position, 0 stands for -1 |
| `lock` | does the tree have its `_lock`? (a loaded one has none) |
| a node's `msgs`, `open`, `parts`, `summary` | `messages` (of a compression: those its summary stands for), `message_appendable`, `compressed_node_timesteps`, the state of the summary future |
| `pc`, `at`, `message`, `todo`, `got` | what each caller is doing: the node it works for, the message it pushes, the nodes it has still to read, what it has read |
| `snapshot`, `reloads` | the serialized tree |
| `pushed`, `refused`, `forgotten`, `before` | history: pushes that returned or raised, messages that went with a summary that failed or was never set, what had been pushed when a caller began to read |

Feedback:

| TLA+ | Code |
|---|---|
| `handlers` | is there a handler for the event's type in `_event_handlers`, a `_default_event_handler`? |
| `state`, `given`, `fired` | how far a request is, whether the application has its sender, whether its timer went off |
| `future` | the `asyncio.Future` of the request: pending, cancelled or its result |
| `ready` | callbacks put into the loop by `call_soon_threadsafe` |
| `modern` | does `wait_for` behave as since Python 3.12? |
| `offered`, `complaints` | history: what was sent, callbacks that raised |

MCP:

| TLA+ | Code |
|---|---|
| `made`, `instances`, `mapping`, `conns`, `managerOf` | the manager objects, `_instances`, `_connection_to_manager`, `_connections`, a connection's `_manager` |
| `shut`, `loopOf`, `loops`, `readers` | `_shutdown`, `_loop`, how far the thread of every loop is, threads that were started and have not read `_loop` yet |
| `again` | history: the managers `shutdown()` was called on more than once |
| `pc`, `want`, `via`, `doomed` | where a thread's call is, the manager name it looks for, the manager it has, `conn_names_to_remove` |
| `connected`, `session`, `stack`, `lifeTask`, `stop`, `error` | `is_connected`, `_session`, `_exit_stack`, `_lifecycle_task`, the stop event and the error of a connection; `session` and `stack` name the task that made them |
| `boundReady`, `boundStop` | the loop an `asyncio.Event` is bound to since it was first awaited |
| `tasks`, `at`, `joins`, `owner` | every task of a loop: what it runs, how far it is, the task it awaits, the manager it unregisters a connection from |
| `op`, `on`, `awaits` | a thread's call, its connection, the task it waits for |
| `calls`, `trouble` | the calls a thread has left; history: what went wrong with a connection |

`trouble` collects, for each connection: an attempt to connect `failed`; closing raised
(`unclosed`); a call `gaveUp` waiting, or a close() did (`lateClose`); an attempt was made
in another loop than the first one (`moved`); a close() `left` a lifecycle task of another
loop behind; its manager was `shutDown`; a shutdown dropped its name (`unlisted`); it was
given another manager (`rehomed`); a coroutine was submitted to a loop that was just being
replaced or did not run any more (`raced`).

The copy buttons: `copies` and `write` are the texts asked for and how each
`writeText()` stands; `todo` and `inputs` are the running fallback and its temporary
`<input>`; `clipboard` says which copy the clipboard holds and whether it is whole;
`fellBack` is history.

### Actions

`Arun`, `ArunRejected`, `StartTask`, `Await`, `Finish`, `AllDone`,
`ApplyNextChange`, `ChangesApplied`, `CollectTask`, `Validate`, `Interrupt`,
`Fail`, `NextStep` are the statements of `_arun_internal` in their order; each
element of a `for` loop is one step. Everything an exit clears is part of the
exit's action. `Ferry`, `WorkerReturns`, `WorkerRaises`, `WorkerAsks` and
`RequestChange` are what a worker may do while it is awaited, in any interleaving
with the others; `RequestChange` is also what the application may do between
calls (immediate when the automa is not running, deferred when it is paused).
`Restore` is a crash of the process at any point, followed by a load of the last
snapshot.

`ReCentAutoma` replaces the arbitrary worker by the bodies of the agent's:
`InitializeTaskGoal`, `ObserveGoal`, `SelectTools` (which adds a worker per tool call
and one that collects their results, all of them deferred), `CompressMemory`,
`ToolRuns`, `CollectResults` (with the callback that removes the one-time workers
again), `FinalizeAnswer`. What the model answers is nondeterministic, failures
included. `RunEnds` also empties the local spaces.

In `EpisodicMemory` everything the code does under the lock is one action, with the
closing of the tail (`CreateGoal`, `CreateLeaf`, `PushAddsLeaf`,
`CreateCompression`); the look-up of `push_messages`, which is not under the lock,
is `PushBegins`, its extension `PushExtends`. A compression then reads its nodes
in order (`ReadsNode`), awaits the model (`AsksModel`) and sets its summary
(`ModelAnswers`, `ModelFails`). `BuildContext` and `CheckSize` read the same way
and end with `ReadDone`. `MayRun` is the scheduling: with `Preemptive` a caller is
a thread and every interleaving is allowed; without, callers are tasks of one loop
and the others stand at an `await`. `Cancel` is `asyncio` cancellation:
`except Exception` does not catch it, and `wrap_future` passes it on to the summary
awaited. `Reload` loads the last dump in a new process.

In `FeedbackEvent`, `RequestFeedback` schedules or refuses a request of another
thread, `RequestFeedbackAsync` calls the handlers, which may answer at once, and
`HandlerRaises` is the handler that fails. `SendInLoop` sets the future,
`SendFromThread` puts a callback into the loop that `Deliver` runs later.
`TimerFires` and `Resume` are the two halves of `wait_for`, which differ between
Python versions: before 3.12 the timer wakes the coroutine, which looks at the future
again; since then it cancels at once.

In `McpManager` a call of a thread takes several steps, one for each access to what
threads share. `get_instance` is `Find` (line 64), `Construct` and `Assign` (65) and `Fetch`
(66, which raises when the name is gone again); `register_connection` is `RegisterCheck`
(118), `RegisterName` (124), `RegisterEntry` (127) and `RegisterOwner` (129);
`unregister_connection` is `UnregisterEntry`, `UnregisterName` and `UnregisterOwner` (142,
146, 148); `_ensure_loop_running` is `EnsureLoop` and `StartLoop`, with the manager's lock
held from one to the other (`Starting`); `shutdown` is `ShutdownBegins` (269), `StopsLoop`
(272), `Tell` (273), `Joined` (276-280), `Pop` (287), `Sift` or `SiftRaises` (290-292: the
mapping changed while its items were read) and `Drop` (293-295). Anyone may call it, of any
manager, any number of times. The threads of the loops are `ThreadReads`, `LoopRuns` and
`LoopStops`.

In `McpConnection`, `_get_manager` is `Ask` and `Take`, `run_sync` is `EnsureLoop`,
`Check` (212) and `Send` (215), and the thread waits until it returns or gives up
(`Returns`, `TimesOut`). A task runs from one `await` to the next: `SetupStarts` and
`SetupEnds` are `setup_and_wait`; `LifeStarts`, `Connects`, `LifeWoken`, `LifeCloses` and
`LifeFails` (aclose() raises, and nothing behind it is reset) are `_lifecycle_task_coro`;
`StopStarts`, `StopEnds` and the three steps of `Unregisters` are `stop_and_wait`;
`Requests` are the requests. `StopEnds` does not wait for a lifecycle task of another loop:
awaiting it raises, which line 162 catches. `Drops`, `Shifts`, `Owns` and `Registers` add the
history to the steps of `McpManager`.

In `Clipboard` a script runs to its end: `Copy` is the event of a button, `Settled` the
handlers of a promise, `InsertInput` and `ExecCopy` the fallback; `BrowserWrites` and
`BrowserRefuses` are the browser's answers, in any order.

### Abstractions

Of the automa and its agent:

- The lists of a graph are sets. Their order only decides in which order
  successors are visited: where that shows (which successors lost their trigger
  before a `KeyError`, in which order kickoffs are appended) the model allows
  every order. Dependency lists are free of duplicates, no worker depends on
  itself.
- `Acyclic` states what Kahn's algorithm decides in an equivalent form; the algorithm,
  and the seeding of its queue from the forwards table, is not modelled.
- Arguments and results are the number of a run; interaction ids are positions
  (a question keeps its id when it is asked again, so the position identifies it).
- A worker that asks `Questions[k]` questions asks them one after the other, and
  its code runs again from the start at each resumption.
- Ferries and topology changes are what `FerryTo` and `Changes` allow: the
  program that runs on the framework is arbitrary within them.
- Left out: exceptions of argument binding, awaits of top-level callbacks,
  suppression by callbacks, an event of another type at the same position,
  nested automas, cancellation of `arun()`.
- After an exception that leaves `arun()` by a path that clears nothing
  (`broken`), only a reload of a snapshot is modelled. After an exception raised
  by a worker the model keeps what the code keeps: tasks, deferred lists and
  kickoff list stay.
- The agent's memory is reduced to the kinds of its entries since the last
  observation (`EpisodicMemory` is about what they hold). Tools do not ask questions;
  a call that matches no tool is dropped before the workers are made, so `Selectable`
  holds the calls that match.

Of the memory:

- A message is a value; a summary is the set of the messages it stands for, empty
  when it is the text of an exception. Token counts, the prompt and the goals'
  contents are left out.
- The list of active nodes is read atomically. In the code a thread can read it
  between the append of a compression and the replacement of the list, and then
  sees the compression beside its parts.
- `wrap_future` is entered also when a summary is already set, so a task may be
  cancelled there; the summary is then left as it is.

Of feedback:

- Nested automas hand a request to their parent and keep nothing, so one automa is
  enough. `post_event` calls the handler and changes no state. (It passes
  `feedback_sender=None` by keyword: a handler whose parameter has another name
  raises a `TypeError`.)
- A value is sent at most once per request, which bounds the sends; two handlers may
  still send the same one.
- A loop that is closed while a request waits is not modelled.

Of MCP:

- Weak references and the garbage collection of connections are left out: every object
  lives as long as its registries say, and a task that is pending in a loop that stopped
  stays there.
- A task's turn, from one `await` to the next, is one step: the flags and events it writes
  in between are written together. The exception is `unregister_connection`, whose three
  writes are three steps of the loop's thread, in which nothing else of that loop runs
  (`Busy`).
- `_thread` is not a variable. `Joined` waits for the loop of the manager, if it was told
  to stop, and takes less than the five seconds the code allows; a thread that was started
  and has not read `_loop` yet is not waited for, as its loop runs in vain. `_loop` and
  `_thread` are dropped in one step.
- A loop that has stopped counts as closed at once, so submitting to it raises.
- A waiter of an `asyncio.Event` in another loop that still runs is woken like one in the
  same loop. In the code such a wake-up is not thread-safe and may come with the next
  event of that loop.
- Opening and closing an exit stack is one await each. Only calls that wait for
  something that lasts (`Slow`) time out: a limit of seconds does not run out within
  one turn of a loop.
- The object `Construct` makes is any unused one of its name (`Fresh`); how many there are
  is a bound.
- The asynchronous variants of the requests, where the timeout cancels the coroutine,
  are left out.

Of the copy buttons: a text is only whole or not, and what is not the button's event
(notifications, logging) is left out.

## 3. What is checked

`CHECK_DEADLOCK FALSE` is there because an application may stop calling an automa, a
memory or a connection, because a reader may stop pressing buttons, and because
bounds end a run.

| Run | Instance | Checks |
|---|---|---|
| `dynamic` | `MCGraphAutoma`: chain a -> b -> c; d is added, c made to depend on d or a on c (a cycle), b removed; ferries a -> b, a -> c, c -> a; b may raise; two runs, two changes and one ferry per step | `IInv`, `TriggersAreHonest`, `DueStart` |
| `growing` | the chain with an added worker and a new dependency, the same ferries, c may raise; two runs | `NoDueWorkerForgotten`, `FerryHonoured` under fairness |
| `static` | a -> b, a -> c, {a, b, c} -> d; b asks twice, c once; two runs, one reload | `FixedInv`, `NoBookkeepingError`, `ResultOfThisRun`, `ComputedOnce`, `ImplementsDataflow` |
| `answering` | a -> b, a -> c, a ferries to d; b asks twice and may raise, c asks once; two runs, one reload | `ArunEnds`, `AnsweredRunsComplete` under fairness |
| `recent` | two tools, one of which may raise, as may the first worker; the model selects none, one, both, or makes two calls with one id; three iterations, three runs | `AgentInv`, `ToolsGone`, `EveryCallAnswered`, `SummaryBeforeCalls`, `OneAnswerPerRun`, `LoopEnds` under fairness |
| `memory_tasks` | three tasks, two messages, four nodes, one reload; the model may fail, tasks are cancelled | `TaskInv`, `NoMessageLost`, `ContextComplete`, `ClosedLeafFrozen` |
| `memory_summaries` | two threads, one message, four nodes; the model may fail | `IInv`, `EverySummarySet`, `ReadsEnd` under fairness |
| `feedback` | a coroutine's request without a limit, one from the pool with a timeout, one from the main thread; two values each; both generations of `wait_for`, any handlers | `IInv`, `FirstKept`, `KeepsPromise`, `RequestsEnd` under fairness |
| `mcp_calls` | two threads with a connection each, three managers of the default name and two of another one, seven scripts of calls (below); servers refuse, transports raise, calls time out | `ConnInv`, `OneManagerPerName`, `RegistriesAgree`, `RegistrationStays`, `OwnStack`, `SessionInItsLoop`, `ConnectedIsAlive`, `CallsEnd` under fairness |
| `clipboard` | a block of one line and one of several, three copies, with and without the API | `TypeOK`, `CopiedOnce`, `CopyEnds` under fairness |

What the properties mean, by component.

The automa:

- `Consistent` (part of `IInv`) is what `_validate_canonical_graph` asserts, at every
  step and not only where the code evaluates it.
- `TriggersAreHonest`: a dependency no longer among a worker's triggers finished
  since that worker last finished. `DueStart`: a worker kicked off for its
  dependencies had all of its *current* ones finish. These are the two halves of
  "workers run only after all their necessary dependencies".
- `NoDueWorkerForgotten` is the converse: a worker that waits for nothing is
  kicked off, or a predecessor of it has just finished. It holds in every state,
  between the calls of `arun()` too, while the graph grows, and fails when a dependency
  is removed (below).
- `NoBookkeepingError`: `dependency_triggers.remove` never raises. It holds for a
  graph that does not change and runs to the end every time.
- `FixedInv` relates the kickoff list, the triggers and the tasks of such a graph to what
  was computed: a worker is kicked off once, it waits for exactly the dependencies that
  are missing, and who could start is on the list or follows one that has just finished.
- `ComputedOnce`, `ResultOfThisRun`: across pauses, partial answers and a reload
  no finished worker is executed again, and the result is this run's.
- `ImplementsDataflow`: the scheduler refines `Dataflow` under
  `computed <- {k : ran[k] > 0}`: a run computes every reachable worker, each
  after its dependencies, before the next run begins. With `MayReload`, a reload
  goes back to a set of workers that a run can pass through.
- `FerryHonoured`, `ArunEnds`, `AnsweredRunsComplete`: liveness. A worker ferried to
  starts if its step does not fail; a call ends; a paused run is completed by an
  application that keeps answering.

The agent:

- `ToolsGone`: when the loop is back at `observe`, the workers it added for a round are
  gone, whichever of them failed. `EveryCallAnswered`: no observation and no answer is
  made of a memory that lacks the result of a tool that was selected.
- `SummaryBeforeCalls` is the code's own comment: what runs beside `select_tools`
  compresses the memory as it was before the selection.
- `OneAnswerPerRun`: a run that is done has pushed one answer to its goal and returns
  it. `LoopEnds`: with a limit on the iterations every call ends, with a result, an
  exception or in the state `broken`.

The memory:

- `Forest` and `OnlyTailOpen` (parts of `IInv`): every node but the goals is active or
  part of exactly one newer compression, and only a leaf at the tail takes messages.
  The lock is enough for these, with threads too. That a summary waits only for older
  ones is why `EverySummarySet` and `ReadsEnd` hold without cancellation.
- `NoMessageLost`, `ContextComplete`: what was pushed is in the context, verbatim or
  summarised, and a context (or a prompt for a summary) holds all that was pushed
  before its construction began. Messages of a summary that failed, was cancelled,
  or was serialized while it was pending are exempt: `forgotten` names them.
  `ClosedLeafFrozen`: no leaf grows after it was closed, so a summary made of it is
  complete. These three hold for tasks, because `push_messages` does not await.
  `TaskInv` adds what they rest on: a reader has, or will read, all that was pushed
  before it began, and a compression waits only for older nodes.

Feedback:

- `KeepsPromise`: requests refine `OneAnswer`. One that is open ends once, with
  something that was sent for it and for no other, with a timeout if it has a limit, or
  in error.
- `FirstKept`: the first feedback that reaches the future stays, whatever is sent
  after it and whenever the timer fires.
- `IInv` has what relates a request's end, its future and its timer, and that before
  Python 3.12 a timeout means that nothing had arrived.
- `RequestsEnd`: a request with a timeout ends whatever the application does, any
  request ends once a feedback was sent for it.

MCP:

- `OneManagerPerName`: of the managers of a name, at most one is not shut down, though
  `get_instance` looks and constructs without a lock around both, and though look-ups and
  shutdowns come in between. Names of a manager on which `shutdown()` was called twice are
  exempt (`ShutOnce`), for there it is false (below).
- `RegistriesAgree`: the class-level mapping, the managers' tables and the connections'
  own references say the same of every connection. `Settled` names who is exempt: one that
  a thread or a task is just between the writes of, one whose name a shutdown dropped, and
  one a close() of which timed out. `RegistrationStays`: "All registrations could not be
  changed later" (`_mcp_server_connection.py:107`): a connection is never given to
  another manager while it has one, with the same two exemptions.
- `OwnStack`: a lifecycle task that is not over owns the exit stack of its connection, so
  it closes what it opened. `SessionInItsLoop`: a session is used in the loop that made
  it. Both exempt connections with a history of `trouble` (`Calm`, `AtHome`); the
  deviations below are why.
- `ConnectedIsAlive`: the session of a connection that says it is connected is that of a
  lifecycle task of its own that is not over, in the *running* loop of the manager it is
  registered with. A task that is frozen in a stopped loop does not count. Exempt are the
  connections in trouble, apart from those whose attempt failed or that are `unlisted`.
- `CallsEnd`: every call ends, whatever the server, a shutdown or another call does.
- `ConnInv` adds what they rest on: who waits for which coroutine (`Attended`), that
  attempts and lifecycle tasks come one at a time (`OneAttempt`, `OneLife`), that managers
  do not share loops and only a shutdown stops one (`LoopsApart`), whose the session is
  (`SessionsKnown`), and which loop a connection is served from (`InOneLoop`).

The copy buttons: `CopiedOnce`: a copy falls back at most once, and never after the
browser has written it, so that it cannot come back over what the reader copied since.
`CopyEnds`: every copy ends and leaves no temporary element behind.

Two more runs check one property each on an instance where the code breaks what
its documentation says:

| Run | What happens |
|---|---|
| `lost_result` | the output worker finishes in a step that is interrupted: the resumed call returns `None` |
| `rerun_after_failure` | b raises: the next `arun()` continues with b instead of the start workers |

### Other deviations

These show in the same modules with other constants. Those with a configuration can be
reproduced with `tlc -config <file> <module>`; TLC reports the property violated.

| Configuration | Property | What happens |
|---|---|---|
| `MCGraphAutoma_lost_ferry.cfg` | `FerryHonoured` | a ferries to c and returns, b asks a human in the same step: the interruption clears the ferry, a is marked finished, c is never started |
| `MCGraphAutoma_removed_dependency.cfg` | `NoDueWorkerForgotten` | b, the last thing c waits for, is removed: c waits for nothing and is never started |
| `MCEpisodicMemory_cancelled.cfg` | `EverySummarySet` | a compression is cancelled while it awaits the model: its summary stays pending and whoever reads it waits for ever |
| `MCEpisodicMemory_refused.cfg` | `NothingRefused` | a tree that was loaded has no lock: the first push that needs a new leaf raises |
| `MCFeedbackEvent_timeout.cfg` | `TimeoutMeansSilence` | since Python 3.12 a feedback that is set before the timer fires, while the coroutine has not gone on yet, is lost, and the request reports that none was received (`_automa.py:442-443`) |
| `MCFeedbackEvent_late.cfg` | `LateSendsSuppressed` | a second or late send from another thread raises `InvalidStateError` in a callback of the loop, where the `except` of `send` (`_automa.py:376`) does not see it |
| `MCMcpConnection_names.cfg` | `NameTakenOnce` | two threads register connections of one name: both pass the check, which is outside of the locks, and the second one replaces the first |
| `MCMcpConnection_again.cfg` | `NeverTwoManagers` | a manager is shut down, another one of its name is made, and `shutdown()` of the first one is called again: it removes the second one from `_instances`, by name, and the next `get_instance` makes a third one beside it |
| `MCReCentAutoma_consecutive.cfg` | `ConsecutiveOnly` | the counter of rounds without a tool is never reset: the answer is forced although tools were selected in between (`_recent_automa.py:63`) |

Without a configuration:

- `NoBookkeepingError` fails on {a, b} -> c when a run ends while c has seen one of
  its dependencies: in the next run the bookkeeping raises `KeyError`.
- A step in which one worker raises and another asks drops the exception
  (`Interrupt` comes before `Fail`).
- A path that leaves `arun()` as an escape clears none of the deferred lists, and tasks
  that were created before an exception in the starting loop run on, unobserved.
- `NoMessageLost` fails with `Preemptive`: a thread finds the open leaf, another one
  compresses and reads it, the first extends it.
- `should_trigger_compression` waits for a pending summary without awaiting: for tasks
  it blocks the loop in which the summary would be made.
- `GoalEpisodicNode.dump_to_dict` does not store the guidance (not in the model).
- After an exception in a worker of the agent (an empty goal, a tool) the failed task
  stays in `_running_tasks`; the next `arun()` continues in the middle of the old round,
  or starts `initialize_task_goal` again without its arguments.
- Two tool calls with one id make the second `add_worker` raise out of `arun()`. Two
  ferries to `finalize_answer` in one step would trip the assertion that a step has one
  output worker.
- `ClosedByOwner` (`_mcp_server_connection.py:199`) is false after a failed attempt to
  connect: the lifecycle task of that attempt waits for the stop event too, a retry
  overwrites `_exit_stack` and `_lifecycle_task`, and at `close()` both tasks wake up
  and the first one closes the stack of the other.
- `OwnStack` and `SessionInItsLoop` fail when two threads use one connection at the
  same time: both connect, or both close. The second `close()` then unregisters a
  connection that has no manager any more and raises an `AttributeError`.
- The lifecycle task of a failed attempt waits for the stop event (line 233), which
  `close()` does not set for a connection that is not connected: it stays behind until a
  later `close()` of the connection or the end of the loop.
- A connection that was closed and is registered with another manager cannot connect:
  its `asyncio.Event`s belong to the first loop. The lifecycle task has been started when
  awaiting the event raises, and nobody waits for it (`moved`). One whose manager was shut
  down says that it is connected, and can neither be closed nor connected again.
- When closing the transport raises (line 237), lines 238-241 are skipped: the connection
  keeps its session and its exit stack (`unclosed`). `close()` still resets `is_connected`;
  a lifecycle task that ends for another reason leaves it set.
- `close()` of a connection that was registered with another manager while it was connected
  (after a shutdown dropped its name) runs in the other loop, where awaiting the lifecycle
  task raises: the connection is unregistered while the task is still closing (`left`), and
  a new attempt in the old loop may lose its exit stack to line 238.
- A `close()` that timed out goes on: a thread that registers the connection again, between
  the writes of `unregister_connection`, is left with a mapping and a table that name
  a manager and a connection that has none (`lateClose`).
- `shutdown` cleans the mapping by the *name* of the manager after it has joined the
  thread: what a successor of that name registered meanwhile is removed too (`unlisted`),
  so a connected connection can be registered a second time, with a manager of another
  loop (`rehomed`). Listing the names takes no lock: when another thread changes the mapping
  meanwhile, `shutdown` raises and drops none.
- `get_instance` may store a manager a second time after another thread has shut it down,
  and raises a `KeyError` when the name is gone between its two look-ups.
- A coroutine may be submitted to a loop that another thread has just made in place of the
  one `run_sync` looked at, or that is stopping (`raced`): the loop is another one than that
  of the connection's tasks, or the coroutine never runs and the caller waits until its
  limit.
- `run_sync` raises right after it has started the thread of a loop that is slow to
  run; its caller sees an error that a retry would not see.
- A copy the browser refuses falls back when the promise settles, possibly over a later
  copy. `FormatKept`, the first line of `clipboard.js`, is false whenever the fallback
  copies: an `<input>` drops line breaks, and the selection ends at 99999 characters.


### Bounds

`MaxRuns`, `MaxFerries`, `MaxChanges`, `MaxRestores` bound runs, pending ferries,
pending changes and reloads. Two runs are enough for state to leak from one run
into the next. One ferry per step is enough to kick a worker off twice in a step, by
the ferry and by its dependencies. Two pending changes let the second one see the first
(depend on a worker added in the same step, remove and then depend on it). Three
or four workers are the smallest graphs with a join behind a branch, a shortcut,
and a worker that is added between two others.

The agent makes at most three iterations in a run: one that calls tools, one that does
not, one that must stop. `MaxNoTool` is two, the smallest limit at which consecutive and
all rounds differ. Three runs let a run follow one that failed and one that answered.

`MaxNodes` is four: a leaf, a compression, a leaf and a compression of both is the
smallest tree in which a summary waits for a summary, and one message is enough to
lose. Three tasks let one compress while another reads its summary and a third is
cancelled. `MaxReloads` is one: a loaded tree has nothing left that a second reload
could lose.

Three requests are one for each kind of caller (a coroutine, the pool, the main
thread). Two values, each sent once per request, make the second send, and the send
that crosses the timer.

For MCP, two threads are enough for every check followed by an act. `Scripts` says what the
two call, one call after the other; within them the order of the steps, the servers'
answers and the timeouts are free. `Alone`: three calls of one thread (connect, request and
close, or connect, connect again and close); `AtOnce`: both threads connect, so that they
look for the default manager at the same time, and the first makes a request after that; `Disturbed`: the
first connects and goes on while the other registers, looks up or shuts down; `ShutTwice`:
two shutdowns in a row while the first connects, and again; `Rehomed`: a connection is
registered anew after its name was dropped, and closed in the other loop; `Moved`: a
connection is closed, registered with another manager and connected again; `Managing`: one
thread registers and shuts down in all orders. Three managers of one name are one that is
shut down, its successor, and one more for the deviation above. Three copies are two of one
block and one of another.

### Fairness

`FairSpec` of `GraphAutoma` has weak fairness on `Schedule` (the event loop always runs
a coroutine that is ready) and on `WorkerProgress` (a worker that is awaited
returns, raises or asks: one that never ends hangs its automa, which no scheduler
can prevent). `WorkerProgress` promises nothing about ferrying or requests for
changes. `AnsweringSpec` adds strong fairness on a resumption with all answers:
an application that is given snapshots for ever, and resumes with too few
answers, answers all of them at some point. Strong, because partial resumptions
and reloads disable it again and again. Nothing is assumed about new runs,
reloads or topology changes.

`ReCentFairSpec` has weak fairness on the scheduler, on the bodies of the agent's
workers and on the end of a run; the model may answer as it likes, but it answers or
fails, for its client has a timeout.

The memory's `FairSpec` has strong fairness on `Continue(p)`: a call that can go on
does so at last. Strong, because in a loop a task is ready again and again between
the turns of the others. It includes the model's answer or failure, and promises nothing
about new calls or cancellations.

`FeedbackEvent` has weak fairness on `Deliver` (the loop runs what was put into it) and
on `Progress(r)` (a handler returns or raises, a coroutine that is woken goes on, a timer
goes off). Nothing is promised of what the application sends.

`McpConnection` has weak fairness on `Runtime`, all the steps of threads, loops and
tasks together. One condition is enough because a thread makes a bounded number of calls
and each call takes a bounded number of steps, so no step can be put off for ever by
others. Nothing is promised of servers or of callers: a server that never answers is ended
by a timeout only.

`Clipboard` has weak fairness on the script and on the browser, which settles its
promises; nothing about the reader.

## 4. What is proved

TLAPS checks every theorem for all values of the constants that satisfy the assumptions
named below, with the sets of workers, callers, requests, threads or copies of any size.

`GraphAutoma_proofs`:

| Theorem | Statement |
|---|---|
| `Invariance` | `Spec => []IInv` |
| `TypeCorrect` | `Spec => []TypeOK` |
| `AlwaysConsistent` | `Spec => []Consistent`: the assertions of `_validate_canonical_graph` cannot fail |
| `AlwaysHonest` | `Spec => []TriggersAreHonest` |
| `AlwaysDueStart` | `Spec => DueStart` |
| `NeverForgotten` | `NoRemovals => (Spec => []NoDueWorkerForgotten)` |

The inductive invariant is `IInv`: the type invariant, `Consistent`,
`TriggersAreHonest`, and `SnapshotOK`, the same two facts of the last snapshot.
`SnapshotOK` is needed because `Restore` may happen in any later state, and
`TriggersAreHonest` needs `Consistent`: a trigger of a worker that is re-added
under an old key, or of one whose dependency is removed, is only accounted for if
the forwards table names exactly the workers that have it as a dependency.
`WorkerGraph_proofs` shows for each primitive that it preserves `Consistent`
whatever the caller does; `GraphAutoma_proofs` has one lemma per action. `DueStart`
follows from `IInv`: a worker chosen by `Ready` has no triggers and is in the
forwards of a finished one, so by consistency it is registered and has
dependencies, and by honesty all of them are fresh.

`NeverForgotten` needs more: `RemembersInv` is `NoDueWorkerForgotten`, the fact that what
runs was kicked off (`TasksKickedOff`), and both for the last snapshot. The
steps that could forget are those that end a step of the automa: `MarkFirst` follows the
loop over the finished workers, `CollectRemembers` shows that a worker whose last trigger
is taken has its predecessor among the finished, `ReadyKickedOff` that the next kickoff
list then contains it. The hypothesis is that no change removes a worker: a removal
takes triggers without finishing anything, and the property is then false
(`MCGraphAutoma_removed_dependency.cfg`).

`FixedGraph_proofs`:

| Theorem | Statement |
|---|---|
| `FixedInvariance` | `FixedProgram => (Spec => []FixedInv)` |
| `NeverBookkeepingError` | `FixedProgram => (Spec => []NoBookkeepingError)` |
| `AlwaysComputedOnce` | `FixedProgram => (Spec => []ComputedOnce)` |
| `SchedulerImplementsDataflow` | `FixedProgram => (Spec => ImplementsDataflow)`: the scheduler refines `Dataflow` |
| `AlwaysResultOfThisRun` | `FixedProgram /\ OutputLast => (Spec => []ResultOfThisRun)` |

The hypotheses are about constants, that is, about the program the automa runs.
`FixedProgram`: it neither changes its graph nor ferries, nothing raises, start workers
wait for nobody, and no set of workers a run can end with leaves a worker with some but
not all of its dependencies computed. Without the last one `NoBookkeepingError` is false
({a, b} -> c, section 3); without the others a worker may be executed twice in a run or
the next run continues the last one. `OutputLast`: an output worker that is computed has
every worker that asks a human behind it; `lost_result` shows what happens otherwise. Any
number of pauses, partial answers, reloads and runs is covered.

The heart is `RunFits`, a statement about three tables at once: what was computed decides
which workers are kicked off, which triggers are left, and what may be computed next.
Its loop over the finished workers is shown with an invariant in the position of the
cursor: the triggers that are taken are those of the finished workers before it. When the
list is exhausted, `NoneLeftOut` gives that what was computed is complete, so the third
conjunct of `FixedProgram` says that no worker is left with a shortened trigger list for
the next run. The refinement maps `computed` to the workers that were computed: a
step that collects a returned task is a step of `Dataflow`, a new run empties the set, a
reload goes back to a snapshot that `SnapshotFits` describes, and everything else
stutters.

`ReCentAutoma_proofs`:

| Theorem | Statement |
|---|---|
| `AgentInvariance` | `ReCentSpec => []AgentInv` |
| `AgentTypeCorrect` | `ReCentSpec => []ReCentTypeOK` |
| `AlwaysToolsGone` | `ReCentSpec => []ToolsGone` |
| `AlwaysEveryCallAnswered` | `ReCentSpec => []EveryCallAnswered` |
| `AlwaysSummaryBeforeCalls` | `ReCentSpec => []SummaryBeforeCalls` |
| `AlwaysOneAnswerPerRun` | `ReCentSpec => []OneAnswerPerRun` |

None has a hypothesis beyond `ReCentAssumption`, which says what the program of the agent
is: its steps are five different workers, the keys of tools and of collecting workers are
other keys, and the changes it may ask for include those `select_tools` and the cleanup
callback make. Which tools there are, what the model selects, which workers raise and the
limits are arbitrary.

None of the four properties is inductive: that the tool workers are gone at an observation
depends on what was added two steps earlier, on triggers taken since, and on a list of
removals that is being worked off. `AgentInv` therefore describes a whole run. In a run
that has not failed there is one task per kicked-off worker, in the same order
(`Lockstep`), and the step is one of eight *rounds*, each of which fixes the kickoff list,
the ferries, the deferred changes, the workers of the graph and what is owed: `GoalRound`,
`ObserveRound`, `SelectRound` (no tool, or none yet), `CallsRound` (tools are selected, and
added one by one), `ToolRound`, `CollectRound` (with the removals done so far),
`AnswerRound` and `LastRound`. Between runs the agent is `Resting`. `Stuck` covers a worker
that raised: the failed task and its kickoff are cleared by no later call, so each later
run repeats them and fails, and nothing is observed or answered again. A run is `broken`
when an exception leaves the scheduler itself, as with two tool calls of one id.

One lemma per body (`GoalBody` to `AnswerBody`) shows which round it leads to, and one per
action of the scheduler that this round survives it (`RoundStart`, `RoundPhase`,
`RoundChange`, `RoundCollect`, `RoundNext`, `RoundFinish`, `RoundArun`, `RoundRaises`).
`RoundChange` is the delicate one: each change is either done or breaks the run, and in
`CallsRound` the collecting worker must be added last, with the trigger of
`compress_memory` still to be taken by the loop that follows. `RoundNext` shows that what
is kicked off next are the ferries, or the collecting worker whose last trigger was taken,
never both. `AddsType` and `RemovalsType` say what the two lists of changes are;
`Enumeration` is the fact about `SetToSeq` they need.

`EpisodicMemory_proofs`:

| Theorem | Statement |
|---|---|
| `MemoryInvariance` | `Spec => []IInv` |
| `MemoryTypeCorrect` | `Spec => []TypeOK` |
| `AlwaysForest` | `Spec => []Forest` |
| `AlwaysOnlyTailOpen` | `Spec => []OnlyTailOpen` |
| `ClosedStaysFrozen` | `~ Preemptive => (Spec => ClosedLeafFrozen)` |
| `TaskInvariance` | `~ Preemptive => (Spec => []TaskInv)` |
| `AlwaysNoMessageLost` | `~ Preemptive => (Spec => []NoMessageLost)` |
| `AlwaysContextComplete` | `~ Preemptive => (Spec => []ContextComplete)` |

Its `IInv` adds to the type invariant, `Forest` and `OnlyTailOpen` the same of the
last snapshot. `AddNodeTree` is the heart: a node that replaces some active nodes,
which by `Forest` have no parent yet, gives each of them exactly one; the other
actions keep the shape of every node (`SameShape`). `ClosedStaysFrozen` holds for tasks,
by `AtTheirNodes`: a task that has found a leaf to extend is still at an open leaf, since
no other task runs before it has extended it, and who sets a summary is at a
compression. With threads the property is false (section 3).

`NoMessageLost` and `ContextComplete` are about `Holds`, a recursive function: what a node
stands for once the summaries it waits for are set. `HoldsEquation` shows that it is
defined on every tree, because parts are older than the compression (`Forest`); where a
step changes a node, that the newer ones hold the same, or lose only what is recorded in
`forgotten`, is shown by taking the oldest node for which it fails (`WFMin` of the library
needs no operator argument, unlike its induction theorems). `TaskInv` is inductive only with
`ContextsFillUp`, which says of a reader at any point what it will have at the end, and
with `SnapshotComplete`, since a reload may come at any time. The hypothesis says that the
callers are tasks of one loop; with threads both properties are false (section 3).

`FeedbackEvent_proofs`:

| Theorem | Statement |
|---|---|
| `FeedbackInvariance` | `Spec => []IInv` |
| `FirstStays` | `Spec => FirstKept` |
| `RequestsKeepPromise` | `Spec => KeepsPromise`: requests refine `OneAnswer` |
| `AlwaysSilentBefore312` | `Spec => []SilenceBefore312` |

`IInv` is the type invariant; `OnlyWhatWasSent` (what is in a future or in a callback of
the loop was sent for that request); `EndsFit` (how a request ended, its future and its
timer belong together); and `SilenceBefore312`. The refinement maps a request's state and
what was offered to it; every step is an end, an offer or a stutter.

`McpConnection_proofs`:

| Theorem | Statement |
|---|---|
| `RegistryInvariance` | `Spec => []RegistryInv` |
| `AlwaysOneManagerPerName` | `Spec => []OneManagerPerName` |
| `ConnectionInvariance` | `Spec => []IInv` |
| `AlwaysOwnStack` | `OneUser => (Spec => []OwnStack)` |
| `ConnectionsInvariance` | `OneUser => (Spec => []ConnInv)` |
| `AlwaysSessionInItsLoop` | `OneUser => (Spec => []SessionInItsLoop)` |
| `AlwaysConnectedIsAlive` | `OneUser => (Spec => []ConnectedIsAlive)` |
| `RegistriesInvariance` | `OneUser /\ DistinctNames => (Spec => [](RegistriesInv /\ RegistriesAgree /\ RegistrationStays))` |
| `AlwaysRegistriesAgree` | `OneUser /\ DistinctNames => (Spec => []RegistriesAgree)` |
| `AlwaysRegistrationStays` | `OneUser /\ DistinctNames => (Spec => []RegistrationStays)` |

They hold for any number of threads, connections, managers, scripts and shutdowns, with
the exemptions that the properties state themselves (`trouble`, `ShutOnce`).

`RegistryInv` says why two threads that look for one name end with one manager: what is
stored under a name bears it, also while a thread is between constructing and storing; a
manager counts as registered until the thread that shuts it down has removed it; a name has
one registered manager and is taken as long as it has, and only one thread shuts a manager
down. The last two need that nobody calls `shutdown()` of a manager of that name again
(`ShutOnce`): the code does not prevent it, and the second call removes the successor
(`MCMcpConnection_again.cfg`). `IInv` adds the types, and that the call of a thread, the
tasks and the loops fit together (`CallsFit`, `LoopsExist`).

`OneUser` says that a connection is called by one thread; section 3 has what two of them do.
As long as no call gave up, every coroutine that is not over is waited for by that thread
(`Attended`), so two never run for one connection (`OneAtATime`). An attempt to connect that
is not answered has its `setup_and_wait` waiting (`OneAttempt`), hence no second attempt
begins; who connects finds no lifecycle task that is not over, and who closes waits for the
one there is (`OneLife`), hence the stack is its own.

For the session, `ServesKeep` shows that a manager which is not shut down keeps a loop that
runs, whatever other managers do. `InOneLoop` has four parts, each with a lemma of its own:
the thread has the connection's manager in hand from the look-up on (`CalledInKeep`), the
lifecycle tasks are in the loop of the first attempt (`BoundToKeep`), who unregisters has
reset `is_connected` (`CutKeep`), and a connected connection has a manager that serves that
loop (`ServedKeep`). With `SessionsKnown` (the session is that of a lifecycle task which is
not over, unless closing it raised), `SessionInItsLoop` and `ConnectedIsAlive` follow.

`RegistriesInv` says, for each of the three writes of registering and of unregistering, how
far the registries are. A thread between its look-up and its last write, and a task between
the first and the last write of unregistering, exclude each other (`WriterAlone`,
`RemoverAlone`): the task is waited for by the only user of the connection. So nobody
interferes with a row (`RowShape`), and who finds the name free finds the connection in none
of the registries (`QuietKeeps`), which is why the look-up at line 118 needs no lock there.
`DistinctNames` says that no two connections have one name: the code does not ensure it
(`NameTakenOnce`, section 3), and with two of them one replaces the other.

`Clipboard_proofs`: `CopyInvariance` (`Spec => []CopyInv`), `CopyTypeCorrect`
(`Spec => []TypeOK`) and `AlwaysCopiedOnce` (`Spec => CopiedOnce`). `FallenAreOver` is the strengthening: a copy that fell back has
no promise left that could make it fall back again.

The assumptions are `InitAssumption`, `ChangeAssumption` (`WorkerGraph`: keys are
finite, initial dependencies belong to registered workers, no worker depends on itself, a
"depend" change names one dependency), `AutomaAssumption` (`GraphAutoma`: types and
bounds), `MemoryAssumption` (checkers are callers, no message stands for none),
`FeedbackAssumption`, `ManagerAssumption`, `ConnectionAssumption`,
`ClipboardAssumption` (types of the constants, and that values that stand for "none" are
not members) and `ReCentAssumption` (above). TLC evaluates each of them in every run of its
module.

Only model-checked:

- Everything temporal with fairness (`FerryHonoured`, `ArunEnds`,
  `AnsweredRunsComplete`, `LoopEnds`, `EverySummarySet`, `ReadsEnd`, `RequestsEnd`,
  `CallsEnd`, `CopyEnds`) and ENABLED, which the prover does not handle.

## 5. Not modelled

- *The amphibious agent and its context* (`amphibious/`): the largest part left. The agent
  is a `GraphAutoma` of one worker whose body is a program over a context of its own:
  its history, disclosed details and failure counter would need a model of that program.
- *Nested automas.* A nested automa hands requests and events to its parent and keeps
  nothing of its own for them; its snapshot is part of the parent's. The matching of
  questions and answers is modelled for one automa.
- *Argument binding.* Arguments are abstracted to the run they belong to. What this leaves
  out is the running index by which the elements of a distributed result are handed out
  (`_args_binding.py:292`), which is state, and everything that only transforms values.
- *Workers, decorators, callbacks.* The scheduler sees of them how a worker ends, which is
  modelled; which exceptions callbacks suppress is not.
- *Concurrent and sequential automas* are wrappers: each of their operations is a fixed
  sequence of the modelled primitives of `WorkerGraph`.
- *Agent structure language*: it runs once, at class-definition time, and leaves a
  `GraphAutoma`.
- *LLM integrations, tracing, prompts, tool specifications, serialization helpers, global
  setting, model retry*: I/O, data and formatting, and a bounded retry of one call.
- *MCP tools and prompts* keep no state; they forward to a connection.
- *Other documentation scripts*: `mathjax.js` is configuration and one callback without
  state, `tex-mml-chtml.js` is third-party code.

Every invariant and action property that a run checks is stated by a theorem. Proofs that
would come next are of more than the runs check: `FixedInv` for programs whose workers may
raise, for as long as none did; and, for the agent, that the rounds of `AgentInv` follow
one another in the order of an abstract loop, as a refinement.
