# Verification of the session runtime

This directory models the durable session runtime of `packages/eve`: what a
session does with the input it admits, what may happen to the turn it runs, how
its approvals and questions are answered and what becomes of input that has to
wait for them, how it starts, questions, cancels and hears of its background
tasks, and how it moves from one deployment to the next while input keeps coming. It holds TLA+ modules,
the TLC configurations that check them on small instances, and TLAPS proofs of
the theorems that hold for instances of every size.

Paths below are relative to `packages/eve/src/` of the repository unless they
begin with `packages/` or `docs/`.

## 1. The system and its parts

A *session* is a durable workflow run (`execution/session/entry.ts`). Clients,
channels, child sessions, timers and authorization callbacks reach it through
*hooks*, tokens that are unique in the whole workflow world. What a hook accepts
is pumped into one in-memory FIFO, the *inbox*. The owner program admits
payloads from the inbox into the *input queue*, selects a turn from it, runs the
turn step by step, and parks again. When a newer deployment accepted the only
thing a parked session has to do, the owner hands the session over: it releases
its hooks, starts a *successor* run on that deployment, and leaves.

Every `await` is a point where other runs, pumps and handlers may run, and every
durable step may be delayed for as long as the world likes. This is where the
code is hard to test: tests fix one order.

| component | state | operations | interacts with | hard behaviour |
|---|---|---|---|---|
| session input queue (`execution/session/input-queue.ts`, `next-input.ts`, `admission.ts`) | `entries`, `cancelledTaskIds`, `seenTaskDeliveryIds`, `nextSequence` | enqueue a delivery, control or authorization; replace or remove by sequence; cancel a task; take steering; take next | filled by the inbox, drained by the owner program, looks at the run registry | holding outcomes back until a cohort is complete; competing outcomes of one task; cancel commands racing notifications; callbacks of a closed challenge |
| workflow tool run registry (`harness/workflow-tool-runs.ts`, `tasks/session-task-cohorts.ts`) | runs with cohort and outcome, in session state | register a run, record an outcome, cancel all | written by turn steps and by admission, read by the queue | outcomes recorded before the notification is admitted |
| owner program (`execution/session/program.ts`, `entry.ts`, `state-cursor.ts`) | checkpoint cursor, anchor and activation hooks | boot, park, run a turn, finish, report to the anchor | everything | exits through one `finally`, whichever way the session went |
| session handoff (`execution/session/handoff.ts`, `handoff-steps.ts`) | markers, activation hook, the checkpoint | transfer, recover, anchor | owner program, inbox, ingress, the successor's boot | four runs act at once: owner, candidate, anchor, client |
| session inbox (`execution/session-inbox/inbox.ts`) | hook handles, FIFO, waiter, interrupt and delivery handlers | claim, release, drain, restore, dispose, next | hooks of the world, the turn's handlers | payloads accepted while hooks are released one by one |
| ingress (`execution/session-inbox/resume.ts`, `dispatch.ts`, `channel/channel-address.ts`) | none; a retry window | look up hook, then marker; retry; start a replacement | hooks, markers | two lookups that are not one |
| session timeout (`execution/session/timeout*.ts`) | one timer run per owner | start, cancel, signal | sends to the stable address | a timer that outlives its owner |
| active turn (`execution/session/turn.ts`, `harness/generation-steering.ts`) | abort controller, steering controller, admitted sequences, pending runtime calls | run steps, admit at boundaries, steer, wait for runtime results, settle a cancelled turn | queue, inbox handlers, children | a cancel or a steering message that arrives at any await |
| background tasks, parent's side (`execution/tasks/parent/**`, `tasks/**`) | records of a step; the index with outcomes; open requests; agent leases | start, commit, roll back, acknowledge, answer, cancel, record an outcome | run's command hook, parent's inbox, registry | a step that fails or dies between start and index; cancellation racing completion |
| workflow tool runs (`execution/tools/workflow/**`, `execution/tasks/child/notify.ts`) | the view of the task, the body, counts of reports, outstanding requests | read a command, read a message of the body, settle, notify | parent's inbox, body's hook | repeated steps; late commands; a second request |
| subagent handles and dispatch (`subagents/**`) | handle phases, parent notification | dispatch, settle, reclaim | child sessions, tasks | a lease nobody gives back; child's answer racing a cancel |
| human in the loop (`harness/approval-*.ts`, `pending-input-batches.ts`, `input-requests.ts`, `hitl/`) | open batches of requests, deferred input, approval candidates and settlements | coordinate, authorize, resolve, defer, park on the budget | steps of a turn, the model call, cancellation | several batches answered out of order by several people, with a step between any two decisions |
| proxied requests (`harness/proxy-input-requests.ts`, `execution/*proxied*`) | requests of tasks and delegated calls | record, answer, withdraw | queue routing, turn, tasks | answers for requests that were replaced |
| turn step and batching (`execution/session/turn-step.ts`, `execution/model-call-batching.ts`) | model call, tool results | one step | active turn | retried steps |
| cancellation steps (`execution/settle-cancelled-turn-step.ts`, ...) | none | fan a cancel out to children | active turn | children that answer anyway |
| ordered stream emitter (`harness/ordered-stream-emitter.ts`) | queue of writes | emit, flush | turn step | ordering under failure |
| activity collector (`execution/activity-*.ts`) | running activities | start, settle | registry | late settlement |
| chat-sdk SQLite state adapter (`public/channels/chat-sdk/state/sqlite.ts`) | locks with expiry, queues | acquire, extend, release, enqueue | channels | expired locks |
| file memory backends, sandboxes and prewarm lock, `shared/map-concurrent.ts` | files, lock | read, write, lock | tools | lock takeover |
| finalization, legacy sessions, dynamic workflows, HTTP channel and client, compiler, discovery | — | — | — | straight-line, one-off, or pure |

What makes the modelled components correct:

* **Input queue.** Nothing is lost or handed over twice; nothing overtakes
  earlier input; a cohort of background tasks is reported in one turn, whole,
  once, and as soon as nothing is missing; a cancelled task is never heard of again; authorization
  callbacks resume only the challenge they belong to; a turn has one sender.
* **Handoff.** One run decides for the session at any time; a run that takes
  input holds every address of the session; a released address is marked, so
  that clients retry; an accepted command is taken once, in order, whoever owns
  the session; a transfer either succeeds or leaves the session where it was;
  the original run's result is the final owner's.
* **Active turn.** A cancel ends the turn it is meant for, in whatever phase it
  arrives and whatever children do, and stops no other; a steering message is
  never slept through by a generation that could be interrupted for it; accepted
  messages survive cancelled and interrupted steps, once; waits end; nothing a
  cancelled turn's children still report is taken for the next turn's.
* **Human in the loop.** A call whose tool has a response policy runs only if the
  policy allowed a responder; approved calls are executed, which needs their
  response to be the last thing the model is given; an answer that cannot be used
  yet, and a message that has to wait, is neither lost nor chased in circles; a
  candidate that was accepted is judged; a turn ends.
* **Background tasks.** A run acts only once its parent has it on record, however
  the step that started it ended; the model hears one verdict on a task, once,
  and it is the recorded one; requests are answered once and withdrawn with their
  task; the lease on an agent is given back; the end of a run is always settled,
  and the end of the session tells its runs to stop.

## 2. Modules

| module | models | |
|---|---|---|
| `SessionInputQueue` | the queue, the parked loop that drains it, what a turn does to it, the registry's cohorts | component |
| `MCSessionInputQueue` | menus of deliveries for its runs | instance |
| `SessionInputQueueProofs` | theorems and proofs about it | proofs |
| `SessionTurn` | the active turn, its two signals, the pump that sets them, and the parked owner between turns | component |
| `MCSessionTurn` | senders, requests and turn ids for its runs | instance |
| `Filtering` | what the queue's `filter` calls keep of a sequence | operators |
| `FilteringProofs` | lemmas about `Filtering`, appending and joining | proofs |
| `SessionTurnProofs` | theorems and proofs about the turn: signals, cancellation, the accounting of messages | proofs |
| `BackgroundTasks` | the parent's and the run's side of background tasks, and the hooks between them | composition |
| `MCBackgroundTasks` | questions, coordinates and reports for its runs | instance |
| `BackgroundTasksProofs` | theorems and proofs about it | proofs |
| `PendingInput` | a session's open requests, what answers and messages do to them, and the step up to and including the model call | component |
| `MCPendingInput` | requests, batches and messages for its runs | instance |
| `PendingInputProofs` | theorems and proofs about it: types, guarded calls, candidates, the place of approvals | proofs |
| `PendingInputKeptProofs` | theorems and proofs about it: no answer and no message is lost, no candidate forgotten | proofs |
| `SessionMailbox` | what a session promises its clients: accepted commands are taken once and in order until the session is over | abstract specification |
| `SessionHandoff` | owner, successors, anchor, hooks, markers, ingress, timers, replacements | composition |
| `MCSessionHandoff` | commands, their addresses and accepting deployments | instance |
| `SessionHandoffProofs` | theorems and proofs about it: one owner, its addresses, the markers | proofs |
| `SessionHandoffMailboxProofs` | theorems and proofs about it: types, timeouts, and that it implements `SessionMailbox` | proofs |

### 2.1 `SessionInputQueue`

*State.* The code keeps `entries` as an array, to which it only appends entries
with fresh sequence numbers, from which it deletes, and in which it replaces an
entry under the same sequence. The array is thus always its set of entries
sorted by sequence, and the model keeps the set; "index" in the code is
"sequence" in the model. `cancelledTaskIds`, `seenTaskDeliveryIds` and
`nextSequence` are the class's fields. `cohortOf` and `settled` are the two
facts of the run registry the queue uses. `owner`, `turnCaller`, `admitted`,
`expected` and `freshSequence` are locals of the owner program, `ActiveTurn` and
`nextTurnDelivery`. `selection` is what the last step handed to the owner;
`handed` is history.

*Input.* A delivery is a record of the facts the code branches on: its
notification (task and phase), its delegated caller (call and task), its sender,
its policy. `update` and `request` are the two kinds of notification without an
outcome; routing consumes the second because nothing but `payload.task` is in
it.

*Actions.*

| action | code |
|---|---|
| `ParkedDelivery`, `ParkedControl`, `ParkedAuthorization`, `ParkedCancelTask` | one round of the loop of `nextTurnDelivery`: route, try to select, and, nothing being selectable, admit one payload from the inbox |
| `TakeNext` | the round that selects; `inboxHasPending` and `consumed` are the answers of `inbox.hasPending` and `routeSelectedDelivery`, left open |
| `TurnDelivery`, ... `TurnCancelTask` | `ActiveTurn.admit` |
| `TakeSteering` | `SessionInputQueue.takeSteering`, and the coalescing of what it returns, which ends the session if it throws |
| `routeAdmittedToChildren` | the same in `ActiveTurn`, while the turn waits |
| `registerWorkflowToolRun` | a task is launched in a step of the turn |
| `executeTaskControlAction`, `cancelAllIndexedSessionTasks` | the `task_cancel` tool, and a cancel command without a task id: outcomes recorded before any notification |
| `EndTurn` | the turn parks, with or without an open challenge |

Operators whose names end in an underscore and a word (`Boundary_none`) are
plausible mistakes in the operator named before the underscore. No behaviour
uses them. For each property of a passing run one of them, put in place of the
original, makes TLC report that property violated.

### 2.2 `SessionTurn`

`SessionInputQueue` asks what is selected from what was admitted. This module
asks what happens to a payload between the moment it is pumped, when the turn's
two handlers look at it, and the moment the turn reads it.

*State.* `inbox` is the FIFO of `SessionInbox`; `draining` what `admitBoundary`
took from it and has not admitted yet; `queue` the shared queue, which needs no
sequence numbers here; `admitted`, `events` and `abortedBy` are the fields
`admitted`, `runtimeResults` and `controller` of `ActiveTurn`, the last with the
command that aborted it; `steered` is the state of `steeringController`.
`pending` and `results` are locals of `waitForRuntimeActionResults`. `handles`
stands for the records of running calls in session state (blocking workflow tool
runs and agent handles), `children` for the world's side of them. `asking` holds
the proxied input requests, `stepInput` what `runTurnSteps` gives to `turnStep`,
`history` the durable messages. `sent`, `answered`, `dropped`, `muted` and
`stops` are history variables.

*Phases and actions.* `pc` is where `runTurnSteps` stands between two awaits.

| phase | code | actions |
|---|---|---|
| `parked` | `nextTurnDelivery` | `takeNext`, `takeReset`, `readParked` |
| `generating` | `turnStep`, while `GenerationSteering` may interrupt | `startsOutput`, `turnStep` |
| `acting` | `turnStep`, after output or a local effect | `turnStep` |
| `returned`, `admitting` | `admitBoundary`, one payload at a time | `admitBoundary`, `admitDrained` |
| end of the boundary | `resetSteering` and the branches after it | `cancelTurn`, `parkTurn`, `continueTurn`, `beginDispatch` |
| `dispatching` | `dispatchCoordinationStep` | `dispatchCoordination` |
| `waiting` | `waitForRuntimeActionResults`, `nextRuntimeEvent` | `resume`, `abandonWait`, `takeEvent`, `readWaiting` |
| `routing` | `routeAdmittedToChildren` | `routeToChild`, `routed` |
| `cancelling` | `cancelDescendantTurnsStep`, `settleCancelledTurnStep` | `settleCancelledTurn` |

`send` and `report` are the pump, with the handlers it calls: they are possible
in every phase, so a payload may arrive at any await.

*What is abstracted.* A step is a choice among the outcomes its signals leave
it (`StepReturns`). A step learns of a signal with a delay; one that does not
notice it in time behaves as one that finished before it was given, which is
among the model's behaviours, and so `StepReturns` may assume that signals are
noticed at once, except by a turn that has settled. Several model calls of a
batch are one step. A call identifier that nobody remembers stands for a new one.
Callers, task cohorts, authorization and the controls other than `reset` are
`SessionInputQueue`'s subject. The `done` outcome of task mode and the
acknowledgement of background tasks are not modelled.

### 2.3 `SessionHandoff`

*State.* `hook` and `marker` say which run holds each token of the world;
`anchor` is the anchor hook; `pc` is where each run stands between two awaits
that commit. `inbox` is the FIFO of a run's `SessionInbox`. `unclaimed`,
`conflicts`, `restored` belong to a batch of claims; `activation` is the
activation hook; `predecessor` says who started whom. `sent` follows each
payload through `resumeSessionInbox`. `accepted` and `turns` are history.

*Steps.* Hooks are released and claimed one at a time (`releaseHook`,
`claimHook`), because the world does so one request at a time. Ingress takes two
steps, the lookup of the hook (`resumed`, `hookNotFound`) and the lookup of the
marker (`isHandoffInProgress`), because they are two requests. A candidate may
fail to start, to validate, or to claim; it then releases what it holds, drains
its inbox and reports the payloads to its predecessor, which reclaims its
addresses and replays them. A channel whose retry window has passed may start a
replacement session that contends for the alias (`startReplacement`, `contend`).
`finish` is the owner's `finally`, through which a session ends or fails;
`leave` is the same block on the way out of a successful transfer.

*What is abstracted.* One command makes one turn: how a queue of several
commands becomes a turn is `SessionInputQueue`'s subject, and a handoff needs a
lone fresh delivery anyway (`handoffEligible`). The checkpoint is reduced to the
outcomes of the steps that read it: `beginTransfer` or `retain` for the idle
check, `validated` or `bootFails` for validation. Addresses do not grow during a
session. Steps of the workflow engine happen once; that they may happen again
is listed under hazards; `BackgroundTasks` does model it.

*Refinement.* `ImplementsMailbox` says that `SessionHandoff` implements
`SessionMailbox` under `taken <- turns`, `over` being the state predicate of the
same name. `SessionMailbox` knows one queue and no runs; that releases,
failures, replays and replacements do not show through is what the refinement
says.

### 2.4 `BackgroundTasks`

A background task is a run of `workflowToolRunWorkflow` that outlives the step
that made the call. `SessionInputQueue` takes notifications as they come; this
module says which may come. What that module assumes of arrivals (`MayArrive`:
only a task on record is heard of) is a conjunct of `UnindexedIsSilent` here.

*State of the parent.* `parent` is what its owner does: parked or in a turn
without anything pending (`open`), in a step that starts tasks, acknowledging
them, carrying out a cancellation, or ended. `record` is the record of a call in
`BackgroundToolExecution.records` until the step ends and the entry of the
registry from then on; `abandoned` is a record that is gone while the run exists.
`unready` are the tasks `acknowledgeDelegatedTasksStep` has still to tell.
`outcome` is the settlement in the registry, `asked` the proxied requests,
`agent` the lease on the one earlier agent the tasks of `AgentTasks` continue
(a handle in phase `claimed`). `inbox` and `seen` are the inbox and the dedup
facts of the queue, per task: the order between tasks is the queue's subject.
`control` is a cancellation under way, `missed` (history) the tasks whose last
cancellation failed.

*State of a run.* `run` is its life (`started`, `owned` once it has its hook,
`over`), `status` and `waiting` are its view, `commands` its hook, `messages` the
hook of its body, `consumed` the loop's `consumedReports`, `sending` the notice a
`notifyTaskParent` step is delivering. `body` and `produced` are the body's.
`told`, `reports`, `heard`, `posed` and `resumes` are history.

| actions | code |
|---|---|
| `startTask`, `claimHook`, `delegated`, `startTimesOut` | `startTask` up to `startTaskRun`; the run's `claimHookOwnership`; `waitForTaskCommandOwner` answered or timed out |
| `commit`, `rollback`, `stepDies` | the three ways the step ends, with `compensate` for what is incomplete (and, in `rollback`, for all) |
| `acknowledge` | `acknowledgeDelegatedTasksStep` |
| `route`, `answer` | `nextTurnDelivery`, `routeDeliverToChildren` and the steps it calls; `routeProxiedDeliverStep` |
| `cancelTasks`, `cancelAll`, `closeSession`; `skipSettled`, `signalCancel`, `settleCancellation`, `notifyCancelled`, `cancellationFails`; `endControl`, `controlDies` | the `task_cancel` tool, the cancel command with tasks, the end of the session; `cancelOwnedTask` for each task, and the `catch` around it; recording the views |
| `handOff` | a handoff: `isSessionStateIdleForHandoff`, and dedup facts that are not handed over |
| `bodyReports`, `bodyReportsAgain`, `bodyAsks`, `bodyReturns` | `executeWorkflowBody`, `ask` |
| `readCommand`, `readMessage`, `settle`, `notify` | one round of the loop of `workflowToolRunWorkflow`, with `handleCommand` and `handleMessage`; `notifyTaskParent` |

*Steps run at least once.* Where the workflow engine may run a step again, the
action has a disjunct that takes effect and leaves its caller where it was
(`Repeat`). The constant `Repeats` says which kinds of step may do so.
`MaxMishaps` bounds how many steps are repeated and cancellations fail, taken
together.

*Cancellations fail.* `cancelAllIndexedSessionTasksStep` gives the cancellation of
each task a `try` block of its own. Its command, its stop or its notice may throw
(`tasks/parent/dispatch.ts:85`); that is logged and the loop goes on with the next
task, without a view of this one (`cancellationFails`). The constant `FailsIn` says
in which cancellations this may happen: that of a cancel command (`"all"`) or of the
end of the session (`"close"`). Under the `task_cancel` tool the exception leaves the
step, which is `controlDies`. The model assumes that the session and its index can
be read when the session ends; if they cannot, the code ends it without cancelling
anything (`cancel-indexed-session-tasks-step.ts:24-41`).

*What is abstracted.* Retries of an unreachable hook are part of `claimHook`
coming first: a command is lost only when the run is over. One agent stands for
all, since leases of different agents do not meet. Steering of an agent that is
busy, reservations of agents a step creates, agent invocations, authorization
requests and runs owned by a turn are not modelled. A cancelled turn that keeps
its delegated tasks (`retainedResult`) ends as `commit` does.

### 2.5 `PendingInput`

A step of the harness (`createToolLoopHarness` in `harness/tool-loop.ts`) starts
with up to three decisions about input before it calls the model: the *deferred*
input is joined, approvals are *coordinated*, open batches are *resolved*. Each may
end the step, and what it has no use for is deferred again. The module follows one
session through its turns; how deliveries become turns is `SessionInputQueue`'s
subject.

*State.* `session` is the part of `HarnessSession` these decisions read: open
`batches` and the order in which they were made (`asked`; the array of the code
is the open ones in that order), `deferred`, the approval store (`allowed`,
`cancelled`, candidates that are `pending` or have a sign-in `required`),
`announced` challenges, the part of the history since the last model response
(`unread`), whether the budget is used up, and whether a turn was started and not
finished (`inTurn`, the emission state). `ran`, `read`, `failed` and `answered` are
history. `pc` is the stage of the step, `input`, `caller` and `callbacks` are what
it was given, `prompt` is what the model is about to be called with. `saved` is what
the step started from: its session, its input, the caller and the callbacks of
before, and the callbacks it resumed.

*Data.* A request is an approval, a question or the limit prompt; it may be
guarded by a response policy or take any text. An answer is `"yes"` or `"no"`; a
request has a sequence of answers, because queued deliveries are coalesced and two
readers of the same input differ on which answer counts: coordination settles with
the first, resolution goes by the last (`Decision`). A message is a set of texts; it
names an option, or not.

| actions | code |
|---|---|
| `Deliver`, `CallBack` | `turnStep` with a delivery, or with the callbacks of announced challenges, which it matches and clears |
| `BeginStep` | `consumeDeferredStepInput` and the two passes over stale answers |
| `CoordinateResponses`, `AuthorizeCandidates`, `NothingToCoordinate` | `coordinateApprovalDelivery`: a pass that takes answers, or else one that runs policies; `expired` are candidates whose deadline has passed |
| `NothingOpen`, `DeferWhole`, `NothingSaid`; `LimitUnanswered`, `LimitGranted`, `LimitDeclined`; `ResolveBatches`, `HoldAnswers`, `DismissQuestion`, `PassBy` | the branches of `resolvePendingInput` and its three resolvers |
| `ParkOnLimit` | `enforceSessionUsageLimit` |
| `CallModel` | what the model is called with: the history, the resolved items, the context of a new turn (`Preamble`) and the message |
| `ModelAsks`, `ModelCallsTools`, `ModelReplies` | `handleStepResult` for the outcomes of a model call |
| `ModelFails`, `TaskRetries`, `ModelEnds` | a failed call: a conversation parks, the step of a task is run again by the workflow engine, and a terminal failure, or one of a task that no retry can help, ends the session |
| `Cancel`, `LimitDeclined` | a cancelled step: the snapshot, the message of the delivery, no limit prompt |

*Context.* When input starts a turn the agent may add user messages to the history:
the memory it recalls and instructions it resolves then, each of which may come to
nothing (`Added`). The constant `Context` says which kinds an agent has. An agent
with memory commits the resolved items to the history together with what it recalls
(`commits`; `memoryCommit.history` is computed from the resolved messages), and
without asking whether they end in an approval response.

*Failed calls.* The session a failed call was made with is all that is left of a
conversation's step (`tool-loop.ts:1943`). The context is in it, the resolved items
are if they were committed with it; the message of the step and the rest of the
transcript are in local messages only and are dropped. The batches they resolve stay
closed. A test has it so (`harness/tool-loop.test.ts:12816`), and the users are
expected to send the message again; `failed` remembers it so that `InputKept` can
except it.

*Cancelled steps.* `caller` and `callbacks` are part of the context and go back to
what they were (`CutOff`); the challenge of a callback is cleared from the session
before the snapshot is taken (`turn-step.ts:154`), so that the callback of a cancelled
step is gone. No property is about callbacks.

*What is abstracted.* Time: any candidate may have expired at the start of a pass.
The policies of one pass answer independently. Context, client context and output
schemas travel with messages and are left out, as are steering that joins a
continued step, batches of coordinated calls that are mixed with requests
(`resolvePendingCoordination`), and tasks without anybody to ask, which fail at the
limit. `attributedInputResponses` has no producer in the repository. A step makes one model call (`modelCallsPerStep` is 1). The `park`
outcome of the coordinator cannot occur after stale answers have become text. The
limit prompt has one identifier. Questions that take any text (`Freeform`) are
in the module and the proofs; no run has one, because a question with options can
be answered and dismissed.

## 3. Runs

| run | question | bounds | states |
|---|---|---|---|
| `queue_input` | is what the parked owner selects in order, whole, of one sender, is nothing lost, are cancelled tasks silent, do only expected callbacks resume, and is a complete cohort taken? | two own tasks, a delegated task that waits, a known and an anonymous sender, a clear command, cancel commands for an own and the delegated task at any time, two attempts, task mode; 3 admissions | 1.1 M |
| `turn_active` | do cancels end their turn, does steering reach its generation, are messages kept, do waits end? | a steering and a queued message of two senders, one request with an answer that stops the turn, a cancel that names turn 1, a reset, one delegated call; fairness of the owner | 0.36 M |
| `turn_cancel` | finding: one cancel stops two turns | two messages, an unnamed cancel | violated |
| `handoff_transfer` | one owner, every address, every gap marked, mailbox implemented, commands taken, retries ended? | two successors, two addresses, two deployments, commands, two timers, one replacement, retry windows that may pass; fairness | 64 k |
| `handoff_gone` | finding: a live session is reported gone | one successor, two commands | violated |
| `tasks_safety` | is every run silent until indexed, one verdict heard once, are requests and lease released, do reports precede outcomes, is every task stopped at the end whose cancellation does not fail? | two tasks that continue one agent, one of them asks once and reports once; one cancellation, and the end of the session; one repeated step of the turn, the answer, the cancellation or a notice, or one failed cancellation at the end | 5.0 M |
| `tasks_settlement` | is every run's end settled? | one task, two cancellations, one of which may fail or any one step be repeated, handoffs; fairness of the owner and the run | 0.46 M |
| `tasks_questions` | finding: a second request of a body is lost | one task that asks twice | violated |
| `input_steps` | do guarded calls run only when allowed, does nothing but context follow an approval, are answers and messages kept, policies run, and do turns end? | a batch of a guarded and a plain approval, a question, the limit prompt; a responder and an anonymous caller; an option and prose as messages; memory and instructions; both modes; 3 deliveries of up to 2 parts, one round of tool calls, one cancelled turn, failed call or retry; fairness of the step | 0.34 M |
| `input_recall` | finding: an approved call is not executed | two plain approvals, one responder, an agent with memory; no interruption | violated |
| `input_follow_up` | finding: a follow-up turn stops after its tool call | two plain approvals, one responder, no context | violated |
| `input_resume` | finding: a batch answered in two deliveries stays open | the same | violated |

*Why the bounds are enough to mean something.* A cohort has two members
in `queue_input`, and three admissions leave room for both outcomes and for
one other delivery before, between or behind them; `OneOpenCohort`
needs`OneOpenCohort`
needs exactly a launch after one outcome of a cohort was recorded. `CancelledTaskSilent` needs two notifications of one task around a
cancel command. In the handoff runs two successors are needed, because the
conflicts of a second handoff with the remains of the first are the hard case;
two addresses are the least for which a batch of claims can lose one and win the
other; three commands (one of them a reset) allow one that is selected, one that
is accepted in the gap and one that arrives after it. In `turn_active` two messages allow two turns,
the least for which something of one turn may reach the next; a cancel that names
a turn, an answer that stops it and a reset are the three ways to abort, which
race one another; one call is enough for a child that reports after its turn was
cancelled, and its identifier may be used again by the next turn. In `tasks_safety`
two tasks are what it takes for one to be refused the agent the other holds, for
one to be committed and the other not, and for a cancellation to die between the
two; a second repeated step or failure, or a second question, adds states and little
that the proofs do not cover, which hold for any number of them. `tasks_settlement` has one task, because temporal properties
cost more, and two cancellations, because the second meets what the first left.
In `input_steps` the batch of two approvals is what it takes to be half answered,
and a second batch what it takes to have answers for a batch that has to wait;
three deliveries are one for each of two approvals and one that meets what they
left; two parts allow an answer with a message, and answers to two batches; a responder
and an anonymous caller tell an answer that names its sender from one that does
not; one round of tools gives a step without input in the middle of a turn. A
second interruption meets nothing the first one did not. There is one responder,
because temporal properties cost more and responders compete only within a pass;
the proofs of section 5 hold for any number.

*Cancel commands in `queue_input`.* A cancel command is meant for the delegated
caller's task; one that names a task of this very session silences the run without
settling it in the registry (`admission.ts:113`), so that later launches go on
joining its cohort (`workflow-tool-runs.ts:356`) though the rest has been reported;
their outcomes are reported alone, and a handoff may leave half of the cohort's
dedup facts behind. The run has commands of both kinds. `CohortReportedWhole` and
`HandoffLeavesWholeCohorts` therefore except the cohorts of which a run was
silenced (`Silenced`); the other properties hold without exception.

*Deadlock* is not checked: a session ends, and clients send a bounded number of
payloads.

*Fairness.* That the queue hands over what is complete is stated as an action
property (`ReadyCohortsAreTaken`: the owner never goes back to waiting for input
while an outcome at hand is complete), because how long a turn takes is a matter
of the model and its tools; it needs no fairness. `turn_active` assumes
weak fairness of the owner's steps taken together and nothing else: a durable
workflow runs until its next await is answered, a step returns, and clients and
children owe it nothing, so that `CancelEndsItsTurn` holds with children that
never report. `handoff_transfer` assumes weak fairness of every run's own steps, of its
hook operations and of a client's retry loop: a durable workflow is replayed
until its steps complete, and `resumeSessionInbox` retries in a loop. Nothing
forces a client to send, a timer to fire, or a channel to start a replacement.
`tasks_settlement` assumes weak fairness of the parent's owner (its routing and
acknowledging, and a cancellation it began, whose wait for a run has a deadline)
and of a run's own loop; a body owes nobody anything, a step may die as often as
the bound allows, and nobody must answer a question; a task whose cancellation failed is excepted,
since nobody cancels it again. `input_steps` assumes weak
fairness of a step's stages taken together, and nothing of people or policies but
that a policy answers, which its timeout (`withAuthorizerTimeout`) sees to.

## 4. Findings

Each is the outcome of a run that TLC must find violated, of a property that
says what a comment or a page of the documentation says.

1. `turn_cancel` — `session/turn.ts:371`. A cancel without a turn id takes effect
   when it is pumped and again when it is read. Pumped after the last boundary of
   one turn was drained, or during its dispatch or wait, it stops that turn, stays
   unread behind queued input that starts the next turn, and stops that one too.
2. `handoff_gone` — `session-inbox/resume.ts:48`. A client that looks the hook
   up before the successor claims it, and the marker after the old owner
   disposed it, takes a live session for gone.
3. `tasks_questions` — `tasks/child/notify.ts:107`. Every request of a body has
   the same delivery id, so that the parent drops the second as a repeat of the
   first, whether or not the first was answered. Were it not dropped, it would
   take the first one's place in the view of the run (`tasks/transitions.ts:72`),
   which ignores answers to requests that are not in its view.
4. `input_recall` — `harness/tool-loop.ts:1083`. Memory recalled, or instructions
   resolved, for the turn of an approving answer are appended behind the approval
   response, unlike the listing of agents (line 1110) and what `current-messages.ts`
   adds. The approved tool is not executed, which is the rule a regression test of the
   approval resume states. The run has an agent with memory; `"instructions"` alone
   violates it too, when the limit prompt left the response in the history.
5. `input_follow_up` — `harness/tool-loop.ts:846`. A message that passes by an open
   approval starts a turn that may call tools; the step that should give the model
   their results has no input, finds the approval open, and parks. The results wait
   for the next delivery.
6. `input_resume` — `harness/approval-delivery-coordinator.ts:275`. Two approvals of a
   batch are answered one after the other. The second delivery is joined with the
   first answer, which is dropped as a repeat of what is settled and, because the
   same pass settles the second, not put back. The batch waits for a third delivery.

Seen while modelling, without a run of their own: an authorization callback that is
queued between two outcomes of a ready cohort resumes its challenge alone, though
another attempt is still expected (`input-queue.ts:251`); a successor that hands
over before its predecessor has disposed its markers fails the session on a marker
conflict outside the `try` (`handoff.ts:114`); an intermediate owner that
transferred reports its initial error result to the anchor (`program.ts:113`);
a task whose cancellation fails while its session ends is cancelled by nobody: the
failure is logged (`cancel-indexed-session-tasks-step.ts:65`), the session is over and
the run may go on, though `docs/tools/workflows.mdx` has background runs cancelled
when their session ends (`EndStopsTheRest` says what does hold);
answers that cancel and approve one request in the same input are settled as the
first and executed as the last (`input-requests.ts:182`); an approval that was
granted but whose response is followed in history by the message of a cancelled
turn is never executed; a sign-in that a candidate needs is not announced in a pass
that finds another request settled (`approval-delivery-coordinator.ts:328`); and in
task mode a pass that settles a deferred answer leaves candidates unjudged until the
next turn.

## 5. Proofs

`SessionInputQueueProofs` proves, for any sets of tasks, callers, senders and
attempts, any menu of inputs and any bound on admissions:

* `TypeCorrect`, `OneCohortIsOpen`, `CancelledTasksStaySilent`,
  `OnlyExpectedCallbacksResume`, all from `Invariance` (`Spec => []IInv`);
* the action properties `NothingIsLost`, `TurnsHaveOneSender`,
  `SelectionsKeepArrivalOrder` and `ReadyCohortsAreNotHeld`, from
  `PositionsAreUnique` (`Spec => [](IInv /\ PositionsOK)`);
* `CohortsAreReportedWhole` and `NoCohortIsHandedOverInHalves`, from
  `OutcomesWaitForTheirCohort` (`Spec => [](IInv /\ PositionsOK /\ CohortsOK)`).

`CancelledTaskSilent` speaks of what is handed over. It is not inductive: a
selection is made of queued entries, so the invariant adds
`NothingQueuedOfCancelled`, that no entry in the queue belongs to a cancelled
task. Admission keeps it because `enqueueDelivery` refuses such entries, and
`cancelTask` because it removes what is queued. `ResumeOnlyExpected` follows
from `RoutedIsQueued` and `SelectedFromQueue`: a selection is made from what
`dropStale` left. `FirstIsMember`, that the head of a nonempty queue exists, is
the only place where the order of the naturals is needed (`LeastNumber`).
`OneOpenCohort` is inductive alone: a launch joins the cohort of a pending run,
and outcomes only shrink the set of pending runs.

`PositionsOK` says that a position names one entry: what is queued has distinct
positions below `nextSequence`, none of which was handed over. That is what makes
"once" in `NoInputLost` hold, and it makes the order of positions an order of
entries. A selection is a single entry, a contiguous batch from the first entry
that may be taken (`BatchIsContiguous`), or the outcomes of a cohort, gathered
from anywhere in the queue; `SelectionsKeepArrivalOrder` holds for the last
because ordinary input that stands before the newest outcome is selected instead
(`Boundary`, `StartsInOrder`).

`CohortsOK` is about outcomes between admission and report. A cohort is named
after a run that belongs to it (`FoundersBelong`), only registered runs have been
seen (`SeenAreRegistered`), and the outcome of a run that was seen is queued
until its cohort is reported (`SeenUntilReported`): a competing outcome of the
same run is refused, and a recorded cancellation leaves the queue alone. Hence a
cohort that is ready has an outcome queued for each of its runs, and the
selection that takes one takes all. `Reported` includes that all runs of the
cohort are settled in the registry, which routing did before the selection; a
launch joins the cohort of a run that is *not* settled, so nothing joins a cohort
after its report. A selection that makes the session eligible for a handoff
leaves the queue empty (`EligibleEmptiesQueue`), so that every run seen is one of
a reported cohort, whose runs were all seen.

`SessionHandoffProofs` proves, for any number of successors, replacements,
addresses, commands and timers:

* `OneOwnerAtATime`, `OwnersHoldTheirAddresses`, `UnownedAddressesAreMarked`,
  from `Invariance` (`Spec => []HInv`).

`HInv` is about responsibility. A run is *live* while it owns, moves or
recovers the session, and while it waits for a candidate that has not signalled
activation. `OneLive` says that at most one run is, `SomeoneLive` that one is
until the session is over. What makes this inductive is the other half: a
booting candidate's predecessor waits for it and has heard nothing yet
(`CandidateAwaited`), there is one candidate (`OneCandidate`), and a signal
reaches only a run that waits (`SignalIsAwaited`). So the step in which a
candidate becomes live is the step in which its predecessor stops being so.
`OwnerHolds` needs `ClaimsAreKept`, that a claimed hook stays claimed until the
batch ends without conflict; `UnownedIsMarked` follows from `MovingMarks`, that
a run between release and takeover marks every address.

`SessionHandoffMailboxProofs` proves, for the same instances:

* `HandoffTypeCorrect`, `TimeoutsAreOfTheOwner` and `SessionIsAMailbox`, that
  `SessionHandoff` implements `SessionMailbox`, all from `MailIsKept`
  (`Spec => []MailInv`).

`MailInv` adds to `HInv` where the mail is. One run at a time is the *holder*
(`OneHolder`): the live one, or the candidate it waits for. `Accounted` says of it
that `accepted` is what turns took, followed by the selected command and by the
commands in what the holder has yet to read: its inbox, or the replay before its
inbox while it recovers, or the payloads in the failure its candidate reported. A
release, a failure report and a replay move payloads between these places, so
that the sequence they form stays the same; an arrival appends to both sides,
because only the holder has a hook (`Hooked`), and the inbox of a run that has
nothing yet is empty (`QuietRunsHaveNone`). The refinement then maps every step to
`Accept`, `Take`, `End` or a stutter: `Take` is allowed because a selected command
is the next of `accepted` behind `turns`. That an accepted command was not
accepted before is `AcceptedArrived` and `ContendedOnce`. `EndsByOwnTimeout` needs
`TimersArrived`, that a timer found in an inbox, a replay or a failure report was
delivered, since that is all the owner goes by.

`SessionTurnProofs` proves, for any sets of messages, answers, requests, commands
and calls, any senders and any turn ids that commands name:

* `SteeringIsNotSleptThrough`, `HandlesEndWithTheirTurn` and, of a property no run
  checks (`NamedCancelStopsItsTurn`), `NamedCancelsStopTheirTurn`, from `Invariance` (`Spec => []TInv`);
* `TypeCorrect` and `NoMessageIsLostOrDoubled`, from `MessagesAreCounted`
  (`Spec => []MInv`).

`TInv` strengthens each property to all phases of a turn. `NoSleptSteering` speaks of
generations, but whether the signal is set then was decided earlier:
`Signalled` says that in every phase the unread steering is signalled or
arrived while a request was open. The step that matters is the boundary's
`resetSteering`: it forgets the signal and replays what is unread *at that
moment*, not what was unread when the drain began. `HandlesEnd` needs
`HandlesAreAwaited`, that a wait waits for every call on record, so that
`resume`, which withdraws what it waited for, withdraws all.
`NamedCancelStopsItsTurn` records the past; `AbortedByMeant` says of the present
that what aborted the active turn was meant for it, and `settleCancelledTurn`
turns the one into the other, the turn number being the same.

`MessagesKept` counts places. `MInv` says first that no sequence holds a message
twice (`Singly`), and then counts, for each message, in how many of them it is:
the inbox, the drained payloads, the queue, the input of the step, the history
and `dropped` add up to one if it was sent and to none otherwise. Each
step takes a message out of one of these exactly when it puts it into another:
for a step that appends or removes a head this is plain, and where a batch is
picked out of the queue it follows from the lemmas of `FilteringProofs`: what
`Only` and `Without` keep of a sequence has the order and the occurrences of the
original, and together they have all of it. These are proved by induction on the
length of the sequence, in the form that a set of numbers without a least one is
empty (`LeastNumber`). `Only` is a recursive function for this reason: the provers
cannot expand `SelectSeq`.

`BackgroundTasksProofs` proves, for any number of tasks, questions, reports,
cancellations and repeated steps:

* `TypeCorrect`, `UnindexedTasksAreSilent`, `VerdictsStand`,
  `SettledTasksAskNothing` and, for an owner that is not handed over,
  `OutcomesAreReportedOnce`, all from `Invariance` (`Spec => []Inv`);
* `LeasesAreLive` and `EndingStopsTheRest`, each from an invariant of its own
  on top of `Inv` (`Leases`, `Closing`);
* `ReportsPrecedeOutcomes`, from `Reporting`, if steps that send a report take
  effect once (`"report" \notin Repeats`).

`Inv` has three parts. `Types` is `TypeOK`. `Silence` makes
`UnindexedIsSilent` inductive: a run that is not in the index has received
neither a cancel nor a `ready`, so its view works still or was rejected, and it
cannot have begun to settle; a task that is to be acknowledged is in the index.
`Settlement` relates the record of an outcome to what the parent has seen: an
outcome that was reported has its delivery id in `seen`, what the model was told
is the outcome on record, which never changes (`recorded`), and a request of a
task whose outcome is known but not reported yet is withdrawn by a settlement
that is queued. The hypothesis of `OutcomesAreReportedOnce` is not an artefact:
`seen` does not survive a handoff, which the source says is accepted
(`input-queue.ts:56`).

`Leases` is about who gives a lease back. A task takes it in a step, whose end
gives it back unless the task is then on record (`compensated`); a task comes on
record without an outcome (`OutcomesAreIndexed`). Afterwards the lease goes with
the report of the outcome, and the case to be excluded is that of a lease whose
task is settled and whose settlement will be dropped as repeated: a report
releases (`ReportReleases`), so a task that holds a lease has no delivery id
`ready` among those seen. The cancellation tool records outcomes and releases
nothing; `ViewsAreQueued` says that it queued a settlement of every task it
records first.

`Closing` follows the end of the session task by task: each task on record is
still listed, is the one waited for, is one whose cancellation failed (`missed`), or
has ended (`EndingReachesAll`), and the
wait is over only when the run is (`WaitIsOver`). It is kept because a run on
record that is over stays over (`RunsStayOver`), an outcome stands
(`OutcomesStand`), no task comes on record while the session is ending, and a
step that dies lists again what it had dealt with. A failure takes one task off the
list and leaves the others on it. That failed tasks end too is not so (section 4).

`Reporting` relates the two counts the loop compares. The reports a body has
made wait in the order of their numbers, all of them above the number of those
read (`UnreadInOrder`), and each one is waiting, on its way or heard
(`HeardOrUnread`); when the counts agree none is waiting, and the loop, which
reads only while it sends nothing, finds none on its way. The hypothesis is
needed: the loop counts a report that was sent again as another one
(`consumed`), so the outcome may overtake a later report. TLC finds that
behaviour with two reports and one repeated step; `tasks_safety` leaves
`"report"` out of `Repeats` for this reason.

`PendingInputProofs` proves, for any requests, batches, texts, responders and bounds:

* `TypeCorrect`, `GuardedCallsAreAllowed`, `ApprovedCallsExecute` and, of a
  property no run checks (`CandidatesArePending`), `CandidatesOfOpenRequests`, all
  from `Invariance` (`Spec => []IInv`).

`IInv` follows an approval from the answer to the call. `SessionOK` says of a
session that its candidates are of open, unsettled guarded requests, and that
the approvals in its history and the calls it executed were allowed. What makes
it inductive is that it also holds of what the step started from (`SavedOK`), to
which a cancellation and a retry return, and what coordination guarantees to
resolution (`AnswersAreSettlements`): a guarded answer that gets past coordination is
the outcome its request was settled with, so that the last answer, by which
resolution goes, cannot differ from the outcome. This is also why no batch is
closed over a candidate: a batch with a guarded request is resolved only when
that request is settled, and settling removed the candidates.

`ApprovalsExecute` says what may stand behind an approval response in a prompt while
nothing is interrupted: context that the agent added when a turn started, and in an
agent without such context nothing. (That nothing may, `ApprovalsStayLast`, is finding
4.) `OrderOK` is its half about the parked session: an approval waits in the history
only behind the limit prompt, and nothing but context was put behind it there
(`Undisturbed`). A message is deferred when an approval is resolved or is the tail;
when context hides the response, the next item is that context.

`PendingInputKeptProofs` proves, for the same instances:

* `NoAnswerIsLost` and `NoMessageIsLost`, from `KeepingInvariance`
  (`Spec => [](IInv /\ KInv)`), and `CandidatesOfTheTurn`.

`KInv` names, per stage, where what was taken may be: in the input of the step,
among the settlements, in the deferred input, in the history or in the prompt. Of the
start of the step (`SavedKeeps`) it says that it holds everything without what the
step has done: for a cancellation the message of its input goes to the history
(`Rollback`), for a retry of a task it is the input again. A message passes out of
these places only to a model call, one that answered or one that failed (`Passed`);
that the second kind is excepted is the code's doing and not a step of the argument.
`AskedFirst` is needed because an answer outlives its batch in `answered`: a
batch that opens later has new requests, which nobody has answered. For
`CandidatesOfTheTurn`, `JInv` says that a candidate is pending only between the
pass that made it and the next one, and that this pass finds nothing else to
take (`QuietAnswers`), since the first one settled every plain approval and
consumed every guarded answer. A task breaks the argument where it joins held
back answers later, which is why the property speaks of conversations.

The assumptions are the ones the modules state by name: identifiers are
distinct, inputs come from the menus, the stable address is one of the
session's, and the kinds of payload a turn receives do not overlap.

*Only model-checked.* The liveness properties: `AcceptedIsTaken` and
`DeliverySettles` of the handoff, `CancelEndsItsTurn` and `WaitsEnd` of the turn,
`EndedTasksSettle` of the tasks, `StepsPark` of pending input. Liveness and
`ENABLED` are out of the prover's reach. Every invariant and every action property
of a passing run is proved, `ReportedOnce` and `ReportsBeforeOutcome` under the
hypotheses named above.

## 6. Not modelled

Listed with reasons in `PROJECT.json`. In short: what happens inside a turn step
(a model call and tool execution), the content of messages, streams and hooks of
user code; the world behind the workflow engine, reduced to unique tokens and
FIFO hooks; repeated execution of a durable step in a handoff; growing and
retiring addresses; and the components of section 7.

Assumptions that exclude behaviour of the code: routing a delivery to the children
and replacing or removing it is one action of `SessionInputQueue` (the owner awaits
in between, `next-input.ts:46-54`, but nobody else removes from the queue while it
does); the session and its task index can be read when the session ends; a run that
never ends holds the outcomes of its cohort, which is the world's doing; report steps
are not repeated in `tasks_safety`; `ReportedOnce` is about one owner.

## 7. Plan

In this order, most important first.

1. Step retries in `SessionHandoff`: a candidate started twice, an activation
   signalled twice.
2. `SubagentHandles`: handle phases, child's answer racing a cancel, and the
   routing of answers and proxied requests.
3. `PendingInput`: batches of coordinated calls that are mixed with requests, and
   steering that joins a continued step.
4. `SqliteState`: locks with expiry, and queues; `OrderedEmitter`;
   `MapConcurrent`; the prewarm lock.
5. Proofs: that an active turn takes its messages from the mailbox of the session,
   which joins the accounting of `SessionTurn` to that of `SessionHandoff`.
