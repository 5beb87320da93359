------------------------- MODULE SessionInputQueue -------------------------
(***************************************************************************)
(* The queue of admitted session input and the owner loop that drains it   *)
(* (packages/eve/src/execution/session/input-queue.ts, next-input.ts), and *)
(* the registry that groups background tasks into cohorts                  *)
(* (harness/workflow-tool-runs.ts).                                        *)
(*                                                                         *)
(* The code keeps `entries` as an array.  It only ever appends an entry    *)
(* with a fresh, larger `sequence`, deletes entries, or replaces one in    *)
(* place under its own sequence, so the array is always the set of its     *)
(* entries sorted by sequence.  The model keeps the set; "position" in the *)
(* code is `sequence` here.                                                *)
(***************************************************************************)
EXTENDS Naturals, FiniteSets

CONSTANTS
    Tasks,        \* ids of background tasks and of delegated callers' tasks
    NoTask,
    Calls,        \* call ids of delegated callers
    NoCaller,
    NoNotice,     \* a delivery without a taskDeliveryId
    Principals,   \* authenticated senders
    Anonymous,    \* absent or anonymous auth
    Attempts,     \* authorization attempt ids
    Inputs,       \* the deliveries that may arrive
    Registrable,  \* tasks this session itself may launch
    Cancellable,  \* task ids a cancel command may name
    Commands,     \* the controls that may arrive
    TaskMode,     \* session mode: TRUE for "task", FALSE for "conversation"
    MaxSequence   \* bound on admissions

Controls == {"clear", "compact", "expired", "reset"}
Outcomes == {"completed", "failed", "cancelled"}

(* "update" stands for a progress message, "request" for a notification    *)
(* that carries only payload.task (an input or agent request).             *)
Phases == Outcomes \cup {"update", "request"}

Notice == [task: Tasks, phase: Phases]
Caller == [call: Calls, task: Tasks \cup {NoTask}]
Delivery == [notice: Notice \cup {NoNotice},
             caller: Caller \cup {NoCaller},
             auth: Principals \cup {Anonymous},
             policy: {"steer", "queue"}]

(* Ids the queue deduplicates by: "self" is a bare task id, "ready" the    *)
(* shared id of every outcome of a task.                                   *)
DeliveryId == [task: Tasks, phase: Phases \cup {"self", "ready"}]

ASSUME IdsAssumption ==
    /\ NoTask \notin Tasks
    /\ NoNotice \notin Notice
    /\ NoCaller \notin Caller
    /\ Anonymous \notin Principals
ASSUME InputsAssumption ==
    /\ Inputs \subseteq Delivery
    /\ Registrable \subseteq Tasks
    /\ Cancellable \subseteq Tasks
    /\ Commands \subseteq Controls
    /\ TaskMode \in BOOLEAN
    /\ MaxSequence \in Nat

Sequences == 0 .. MaxSequence

DeliveryEntry == [kind: {"delivery"}, sequence: Sequences, delivery: Inputs]
ControlEntry == [kind: {"control"}, sequence: Sequences, control: Controls]
AuthorizationEntry ==
    [kind: {"authorization"}, sequence: Sequences, attempt: Attempts]
Entry == DeliveryEntry \cup ControlEntry \cup AuthorizationEntry

VARIABLES
    entries,              \* admitted, unconsumed input
    cancelledTaskIds,
    seenTaskDeliveryIds,
    nextSequence,
    cohortOf,             \* registry: cohort (founding task) of each run, or NoTask
    settled,              \* registry: tasks whose outcome is recorded
    owner,                \* "parked", "turn" or "ended"
    turnCaller,           \* caller of the active turn
    admitted,             \* sequences admitted by the active turn
    expected,             \* attempt ids of the open authorization challenge
    freshSequence,        \* delivery admitted while nothing else was pending
    selection,            \* what the last step handed to the owner
    handed                \* history: sequences handed over in some selection

queueVars == <<entries, cancelledTaskIds, seenTaskDeliveryIds, nextSequence>>
registryVars == <<cohortOf, settled>>
ownerVars == <<owner, turnCaller, admitted, expected, freshSequence>>
historyVars == <<selection, handed>>
vars == <<queueVars, registryVars, ownerVars, historyVars>>

NoFresh == MaxSequence + 1
NoSelection == [kind |-> "none"]

(***************************************************************************)
(* Identity of a delivery.                                                 *)
(***************************************************************************)
taskDeliveryId(d) ==
    IF d.notice # NoNotice THEN {[task |-> d.notice.task, phase |-> d.notice.phase]}
    ELSE IF d.caller # NoCaller THEN {[task |-> t, phase |-> "self"] : t \in {d.caller.task} \ {NoTask}}
    ELSE {}

terminalTaskId(d) ==
    IF d.caller = NoCaller /\ d.notice # NoNotice /\ d.notice.phase \in Outcomes
    THEN d.notice.task ELSE NoTask

terminalCohort(d) ==
    IF terminalTaskId(d) = NoTask THEN NoTask ELSE cohortOf[terminalTaskId(d)]

(* Competing outcomes of one task share the id that deduplicates them.     *)
deduplicationId(d) ==
    IF terminalTaskId(d) = NoTask THEN taskDeliveryId(d)
    ELSE {[task |-> terminalTaskId(d), phase |-> "ready"]}

(* Operators whose name ends in an underscore and a word are the mistakes  *)
(* the runs must notice; no behaviour of the model uses them.              *)
isTaskDelivery(d, task) == \E id \in taskDeliveryId(d) : id.task = task

isSteeringDelivery(d) ==
    /\ d.notice = NoNotice
    /\ d.policy = "steer"
    /\ d.caller # NoCaller =>
          turnCaller # NoCaller /\ d.caller.call = turnCaller.call

(***************************************************************************)
(* Selecting from a set E of entries, with the registry as it stands.      *)
(***************************************************************************)
IsDelivery(e) == e.kind = "delivery"
CohortOf(e) == IF IsDelivery(e) THEN terminalCohort(e.delivery) ELSE NoTask

First(E) == CHOOSE e \in E : \A x \in E : e.sequence <= x.sequence
Last(E) == CHOOSE e \in E : \A x \in E : x.sequence <= e.sequence

pendingCohorts_unsettled == {cohortOf[t] : t \in Tasks \ settled} \ {NoTask}
pendingCohorts ==
    {cohortOf[t] : t \in {u \in Tasks :
        /\ cohortOf[u] # NoTask
        /\ [task |-> u, phase |-> "ready"] \notin seenTaskDeliveryIds
        /\ u \notin cancelledTaskIds}}

deferDeliveries == TaskMode /\ expected # {}

Actionable_settled(E) ==
    {e \in E :
        \/ e.kind = "control"
        \/ /\ IsDelivery(e)
           /\ ~deferDeliveries
           /\ CohortOf(e) = NoTask \/ \A t \in Tasks : cohortOf[t] = CohortOf(e) => t \in settled}
Actionable(E) ==
    {e \in E :
        \/ e.kind = "control"
        \/ /\ IsDelivery(e)
           /\ ~deferDeliveries
           /\ CohortOf(e) = NoTask \/ CohortOf(e) \notin pendingCohorts}

Siblings(E, cohort) == {e \in E : CohortOf(e) = cohort}

(* A ready cohort is not reported over input that arrived before its last  *)
(* member: that input is selected first.                                   *)
Boundary_none(E, first) == {}
Boundary(E, first) ==
    {e \in E : /\ CohortOf(first) # NoTask
               /\ first.sequence < e.sequence
               /\ e.sequence < Last(Siblings(E, CohortOf(first))).sequence
               /\ CohortOf(e) = NoTask}

Coalesces_anonymous(first, e) ==
    /\ IsDelivery(e)
    /\ first.delivery.notice = NoNotice
    /\ e.delivery.notice = NoNotice
    /\ e.delivery.auth = first.delivery.auth
Coalesces(first, e) ==
    /\ IsDelivery(e)
    /\ first.delivery.notice = NoNotice
    /\ e.delivery.notice = NoNotice
    /\ first.delivery.auth # Anonymous
    /\ e.delivery.auth = first.delivery.auth

(* coalesceDeliveries throws on a second caller, which fails the session.  *)
Coalescable(members) ==
    \A x, y \in members :
        x.delivery.caller # NoCaller /\ y.delivery.caller # NoCaller => x = y

(* The delivery and those queued directly behind it, up to the first that  *)
(* may not share its turn or that would bring a second caller.             *)
Batch(E, first) ==
    LET Upto(e) == {x \in E : first.sequence <= x.sequence /\ x.sequence <= e.sequence}
    IN  {e \in E : /\ first.sequence <= e.sequence
                   /\ \A x \in Upto(e) \ {first} : Coalesces(first, x)
                   /\ Coalescable(Upto(e))}

TurnEntries_single(E, first) == Batch(E, first)
TurnEntries(E, first) ==
    IF CohortOf(first) # NoTask THEN Siblings(E, CohortOf(first)) ELSE Batch(E, first)

CallersOf(members) == {m.delivery.caller : m \in members} \ {NoCaller}

turnSelection(E, first, fresh) ==
    LET members == TurnEntries(E, first)
    IN  [kind |-> "turn", members |-> members,
         handoffEligible |->
            /\ members = {first}
            /\ first.sequence = fresh
            /\ first.delivery.caller = NoCaller
            /\ taskDeliveryId(first.delivery) = {}
            /\ E = {first}]

takeSelectionAt(E, e, fresh) ==
    CASE e.kind = "control" ->
            [kind |-> "control", members |-> {e}, control |-> e.control]
      [] e.kind = "authorization" ->
            [kind |-> "authorization-resume", members |-> {e}]
      [] e.kind = "delivery" -> turnSelection(E, e, fresh)

(* takeNext on E, where stale authorization entries are already gone.      *)
Select(E, fresh) ==
    LET callbacks == {e \in E : e.kind = "authorization"}
        first == First(Actionable(E))
    IN  IF expected # {} /\ \A a \in expected : \E e \in callbacks : e.attempt = a
        THEN [kind |-> "authorization-resume", members |-> callbacks]
        ELSE IF Actionable(E) = {} THEN NoSelection
        ELSE IF IsDelivery(first) /\ Boundary(E, first) # {}
        THEN takeSelectionAt(E, First(Boundary(E, first)), fresh)
        ELSE takeSelectionAt(E, first, fresh)

dropStale_never(E) == E
dropStale(E) ==
    {e \in E : e.kind = "authorization" => e.attempt \in expected}

(* Routing strips payload.task from a delivery: a notification that was    *)
(* nothing else disappears, an outcome is recorded in the registry.        *)
AfterRouting_all(E, R) ==
    {e \in E : ~(e \in R /\ IsDelivery(e) /\ e.delivery.notice # NoNotice)}
AfterRouting(E, R) ==
    {e \in E : ~(e \in R /\ IsDelivery(e) /\ e.delivery.notice # NoNotice
                   /\ e.delivery.notice.phase = "request")}
SettledBy_unregistered(R) == {terminalTaskId(e.delivery) : e \in {x \in R : IsDelivery(x)}}
SettledBy(R) == {terminalTaskId(e.delivery) : e \in {x \in R : IsDelivery(x)}}
                  \cap {t \in Tasks : cohortOf[t] # NoTask}

(***************************************************************************)
(* Admission.  `E` is the queue the payload is appended to.                *)
(***************************************************************************)
HasRoom == nextSequence <= MaxSequence

Refused(d) ==
    \/ deduplicationId(d) \cap seenTaskDeliveryIds # {}
    \/ \E t \in cancelledTaskIds : isTaskDelivery(d, t)

enqueueDelivery(E, d) ==
    IF Refused(d)
    THEN /\ entries' = E
         /\ UNCHANGED <<cancelledTaskIds, seenTaskDeliveryIds, nextSequence>>
    ELSE /\ entries' = E \cup {[kind |-> "delivery", sequence |-> nextSequence, delivery |-> d]}
         /\ seenTaskDeliveryIds' = seenTaskDeliveryIds \cup deduplicationId(d)
         /\ nextSequence' = nextSequence + 1
         /\ UNCHANGED cancelledTaskIds

enqueueControl(E, c) ==
    /\ entries' = E \cup {[kind |-> "control", sequence |-> nextSequence, control |-> c]}
    /\ nextSequence' = nextSequence + 1
    /\ UNCHANGED <<cancelledTaskIds, seenTaskDeliveryIds>>

(* A repeated callback for a collected attempt is dropped.                 *)
enqueueAuthorization(E, a) ==
    IF \E e \in E : e.kind = "authorization" /\ e.attempt = a
    THEN /\ entries' = E
         /\ UNCHANGED <<cancelledTaskIds, seenTaskDeliveryIds, nextSequence>>
    ELSE /\ entries' = E \cup {[kind |-> "authorization", sequence |-> nextSequence, attempt |-> a]}
         /\ nextSequence' = nextSequence + 1
         /\ UNCHANGED <<cancelledTaskIds, seenTaskDeliveryIds>>

(* Drops what the cancelled task already queued and refuses the rest.      *)
cancelTask_later(E, t) ==
    /\ cancelledTaskIds' = cancelledTaskIds \cup {t}
    /\ entries' = E
    /\ UNCHANGED <<seenTaskDeliveryIds, nextSequence>>
cancelTask(E, t) ==
    /\ cancelledTaskIds' = cancelledTaskIds \cup {t}
    /\ entries' = {e \in E : IsDelivery(e) => ~isTaskDelivery(e.delivery, t)}
    /\ UNCHANGED <<seenTaskDeliveryIds, nextSequence>>

(* A run of this session notifies only once it is in the registry: the     *)
(* step that launches it commits before the owner admits anything again.   *)
MayArrive(d) ==
    d.notice # NoNotice => d.notice.task \in Registrable /\ cohortOf[d.notice.task] # NoTask

(***************************************************************************)
(* The parked owner: nextTurnDelivery routes task deliveries, tries to     *)
(* select, and only when nothing is selectable reads one more payload.     *)
(***************************************************************************)
Routed == dropStale(AfterRouting(entries, entries))

Waiting ==
    /\ owner = "parked"
    /\ Select(Routed, freshSequence) = NoSelection
    /\ settled' = settled \cup SettledBy(entries)
    /\ selection' = NoSelection
    /\ UNCHANGED <<cohortOf, owner, turnCaller, admitted, expected, handed>>

ParkedDelivery(d) ==
    /\ HasRoom /\ MayArrive(d)
    /\ Waiting
    /\ enqueueDelivery(Routed, d)
    /\ freshSequence' = IF Routed = {} /\ ~Refused(d) THEN nextSequence ELSE NoFresh

ParkedControl(c) ==
    /\ HasRoom
    /\ Waiting
    /\ enqueueControl(Routed, c)
    /\ freshSequence' = NoFresh

ParkedAuthorization(a) ==
    /\ HasRoom
    /\ Waiting
    /\ enqueueAuthorization(Routed, a)
    /\ freshSequence' = NoFresh

ParkedCancelTask(t) ==
    /\ Waiting
    /\ cancelTask(Routed, t)
    /\ freshSequence' = NoFresh

(* Whether more input is already buffered in the inbox, and whether        *)
(* routing the selected delivery to a child consumed it, is not decided    *)
(* by this module.                                                         *)
TakeNext(inboxHasPending, consumed) ==
    LET chosen == Select(Routed, IF inboxHasPending THEN NoFresh ELSE freshSequence)
        callers == IF chosen.kind = "turn" THEN CallersOf(chosen.members) ELSE {}
    IN  /\ owner = "parked"
        /\ chosen # NoSelection
        /\ consumed => chosen.kind = "turn"
        /\ entries' = Routed \ chosen.members
        /\ settled' = settled \cup SettledBy(entries)
        /\ selection' = chosen
        /\ handed' = handed \cup {m.sequence : m \in chosen.members}
        /\ owner' = CASE consumed -> "parked"
                      [] chosen.kind = "control" ->
                            IF chosen.control \in {"reset", "expired"} THEN "ended" ELSE "turn"
                      [] OTHER -> "turn"
        /\ turnCaller' = IF callers = {} \/ consumed THEN NoCaller ELSE CHOOSE c \in callers : TRUE
        /\ freshSequence' = IF consumed THEN freshSequence ELSE NoFresh
        /\ UNCHANGED <<cancelledTaskIds, seenTaskDeliveryIds, nextSequence, cohortOf,
                       admitted, expected>>

(***************************************************************************)
(* The active turn.                                                        *)
(***************************************************************************)
InTurn ==
    /\ owner = "turn"
    /\ selection' = NoSelection
    /\ UNCHANGED <<owner, turnCaller, expected, freshSequence>>

Admits == /\ InTurn
          /\ admitted' = admitted \cup (nextSequence .. nextSequence' - 1)
          /\ UNCHANGED <<registryVars, handed>>

TurnDelivery(d) == HasRoom /\ MayArrive(d) /\ enqueueDelivery(entries, d) /\ Admits
TurnControl(c) == HasRoom /\ InTurn /\ enqueueControl(entries, c)
                    /\ UNCHANGED <<admitted, registryVars, handed>>
TurnAuthorization(a) == HasRoom /\ InTurn /\ enqueueAuthorization(entries, a)
                          /\ UNCHANGED <<admitted, registryVars, handed>>
TurnCancelTask(t) == InTurn /\ cancelTask(entries, t)
                       /\ UNCHANGED <<admitted, registryVars, handed>>

(* takeSteering: everything the turn admitted that may join it.            *)
TakeSteering ==
    LET steering == {e \in entries : /\ IsDelivery(e)
                                     /\ e.sequence \in admitted
                                     /\ isSteeringDelivery(e.delivery)}
    IN  /\ owner = "turn"
        /\ steering # {}
        /\ entries' = entries \ steering
        /\ admitted' = admitted \ {e.sequence : e \in steering}
        /\ selection' = [kind |-> "turn", members |-> steering, handoffEligible |-> FALSE]
        /\ handed' = handed \cup {e.sequence : e \in steering}
        /\ owner' = IF Coalescable(steering) THEN owner ELSE "ended"
        /\ UNCHANGED <<cancelledTaskIds, seenTaskDeliveryIds, nextSequence, registryVars,
                       turnCaller, expected, freshSequence>>

(* While the turn waits for runtime results it routes what it admitted.    *)
(* `answers` are the deliveries a child was waiting for.                   *)
Ordinaries(E) == {e \in E : IsDelivery(e) /\ e.delivery.notice = NoNotice}

routeAdmittedToChildren(answers) ==
    LET routed == {e \in entries : e.sequence \in admitted}
    IN  /\ InTurn
        /\ answers \subseteq Ordinaries(routed)
        /\ settled' = settled \cup SettledBy(routed)
        /\ entries' = AfterRouting(entries, routed) \ answers
        /\ handed' = handed \cup {e.sequence : e \in answers}
        /\ UNCHANGED <<cancelledTaskIds, seenTaskDeliveryIds, nextSequence, admitted,
                       cohortOf>>

(* A new run joins the cohort of a run that is still pending, or founds    *)
(* its own.  The code takes the first pending run; any is allowed here.    *)
pendingRuns == {t \in Tasks : cohortOf[t] # NoTask /\ t \notin settled}

cohortsToJoin_own(t) == {t}
cohortsToJoin(t) == IF pendingRuns = {} THEN {t} ELSE {cohortOf[p] : p \in pendingRuns}

registerWorkflowToolRun(t) ==
    /\ InTurn
    /\ cohortOf[t] = NoTask
    /\ \E cohort \in cohortsToJoin(t) : cohortOf' = [cohortOf EXCEPT ![t] = cohort]
    /\ UNCHANGED <<queueVars, settled, admitted, handed>>

(* The task_cancel tool, and a cancel command for all tasks, record an     *)
(* outcome before the notification of the task is admitted.                *)
executeTaskControlAction(tasks) ==
    /\ InTurn
    /\ tasks # {}
    /\ tasks \subseteq pendingRuns
    /\ settled' = settled \cup tasks
    /\ UNCHANGED <<queueVars, cohortOf, admitted, handed>>

cancelAllIndexedSessionTasks ==
    /\ owner # "ended"
    /\ owner = "parked" => Select(Routed, freshSequence) = NoSelection
    /\ settled' = settled \cup {t \in Tasks : cohortOf[t] # NoTask}
    /\ settled' # settled
    /\ selection' = NoSelection
    /\ freshSequence' = NoFresh
    /\ UNCHANGED <<queueVars, cohortOf, owner, turnCaller, admitted, expected, handed>>

EndTurn(attempts) ==
    /\ owner = "turn"
    /\ owner' = "parked"
    /\ turnCaller' = NoCaller
    /\ admitted' = {}
    /\ expected' = attempts
    /\ freshSequence' = NoFresh
    /\ selection' = NoSelection
    /\ UNCHANGED <<queueVars, registryVars, handed>>

(* The first turn runs the session's initial input; its caller's own task  *)
(* counts as seen (rememberTask).                                          *)
Init ==
    /\ entries = {}
    /\ cancelledTaskIds = {}
    /\ nextSequence = 0
    /\ cohortOf = [t \in Tasks |-> NoTask]
    /\ settled = {}
    /\ owner = "turn"
    /\ turnCaller \in CallersOf({[delivery |-> d] : d \in Inputs}) \cup {NoCaller}
    /\ seenTaskDeliveryIds =
          IF turnCaller = NoCaller THEN {}
          ELSE {[task |-> t, phase |-> "self"] : t \in {turnCaller.task} \ {NoTask}}
    /\ admitted = {}
    /\ expected = {}
    /\ freshSequence = NoFresh
    /\ selection = NoSelection
    /\ handed = {}

Next ==
    \/ \E d \in Inputs : ParkedDelivery(d) \/ TurnDelivery(d)
    \/ \E c \in Commands : ParkedControl(c) \/ TurnControl(c)
    \/ \E a \in Attempts : ParkedAuthorization(a) \/ TurnAuthorization(a)
    \/ \E t \in Cancellable : ParkedCancelTask(t) \/ TurnCancelTask(t)
    \/ \E p, c \in BOOLEAN : TakeNext(p, c)
    \/ TakeSteering
    \/ \E answers \in SUBSET Ordinaries(entries) : routeAdmittedToChildren(answers)
    \/ \E t \in Registrable : registerWorkflowToolRun(t)
    \/ \E tasks \in SUBSET pendingRuns : executeTaskControlAction(tasks)
    \/ cancelAllIndexedSessionTasks
    \/ \E A \in SUBSET Attempts : EndTurn(A)

Spec == Init /\ [][Next]_vars

TypeOK ==
    /\ entries \in SUBSET Entry
    /\ cancelledTaskIds \in SUBSET Tasks
    /\ seenTaskDeliveryIds \in SUBSET DeliveryId
    /\ nextSequence \in 0 .. MaxSequence + 1
    /\ cohortOf \in [Tasks -> Tasks \cup {NoTask}]
    /\ settled \in SUBSET Tasks
    /\ owner \in {"parked", "turn", "ended"}
    /\ turnCaller \in Caller \cup {NoCaller}
    /\ admitted \in SUBSET Sequences
    /\ expected \in SUBSET Attempts
    /\ freshSequence \in Sequences \cup {NoFresh}
    /\ handed \in SUBSET Sequences
    /\ \/ selection = NoSelection
       \/ /\ selection.kind \in {"turn", "control", "authorization-resume"}
          /\ selection.members \in SUBSET Entry

(***************************************************************************)
(* Properties.                                                             *)
(***************************************************************************)
Selects == owner = "parked" /\ selection' # NoSelection
Ordinary(e) == e.kind = "control" \/ (IsDelivery(e) /\ CohortOf(e) = NoTask)
Members(cohort) == {t \in Tasks : cohortOf[t] = cohort}
ReadySeen(t) == [task |-> t, phase |-> "ready"] \in seenTaskDeliveryIds

(* Unless deliveries are deferred, no selection overtakes a control or an  *)
(* ordinary delivery that arrived before its newest member: neither a      *)
(* batch, nor a cohort report gathering members from all over the queue.   *)
InputInArrivalOrder ==
    [][Selects /\ selection'.kind \in {"turn", "control"} /\ ~deferDeliveries =>
          \A m \in selection'.members, e \in entries' :
              Ordinary(e) => m.sequence < e.sequence]_vars

(* A cohort report carries the outcome of every run registered in the      *)
(* cohort.  A cohort is excepted once a cancel command silenced one of its *)
(* runs: the registry does not learn of it, and launches go on joining.    *)
Silenced(cohort) == Members(cohort) \cap cancelledTaskIds # {}
CohortReportedWhole ==
    [][Selects /\ selection'.kind = "turn" =>
          \A m \in selection'.members : CohortOf(m) # NoTask /\ ~Silenced(CohortOf(m)) =>
              Members(CohortOf(m)) \subseteq
                  {terminalTaskId(x.delivery) : x \in selection'.members}]_vars

(* After a cancel command for a task nothing of that task is handed over.  *)
CancelledTaskSilent ==
    selection # NoSelection =>
        \A m \in selection.members : IsDelivery(m) =>
            \A t \in cancelledTaskIds : ~isTaskDelivery(m.delivery, t)

(* Input leaves the queue only by being handed over, to a turn or to a     *)
(* child, once; or because its task was cancelled, its challenge closed,   *)
(* or it was a task's request, which routing consumes.                     *)
NoInputLost ==
    [][/\ \A e \in entries \ entries' :
            \/ e.sequence \in handed' \ handed
            \/ e.kind = "authorization" /\ e.attempt \notin expected
            \/ /\ IsDelivery(e) /\ e.delivery.notice # NoNotice
               /\ e.delivery.notice.phase = "request"
            \/ /\ IsDelivery(e)
               /\ \E t \in cancelledTaskIds' : isTaskDelivery(e.delivery, t)
       /\ selection' # NoSelection =>
             \A m \in selection'.members : m.sequence \notin handed]_vars

(* A session may move to another deployment on this selection only if the  *)
(* facts that stay behind cannot matter: the successor starts with nothing *)
(* seen, so no cohort may be half seen (comment at input-queue.ts:56-57).  *)
RegistryIdle == pendingRuns = {}
HandoffLeavesWholeCohorts ==
    (/\ selection # NoSelection /\ selection.kind = "turn"
     /\ selection.handoffEligible /\ RegistryIdle) =>
            \A t, u \in Tasks :
                cohortOf[t] # NoTask /\ cohortOf[t] = cohortOf[u] /\ ~Silenced(cohortOf[t]) =>
                    (ReadySeen(t) <=> ReadySeen(u))

(* All runs that are still pending belong to one cohort, so it does not    *)
(* matter which of them a new run joins (workflow-tool-runs.ts:356).       *)
OneOpenCohort ==
    \A t, u \in pendingRuns : cohortOf[t] = cohortOf[u]

(* Callbacks of a closed challenge never resume the one that replaced it.  *)
ResumeOnlyExpected ==
    selection # NoSelection /\ selection.kind = "authorization-resume" =>
        \A m \in selection.members : m.attempt \in expected

(* A parked turn folds in deliveries of one authenticated sender only, and *)
(* at most one of them expects a reply.                                    *)
TurnHasOneSender ==
    [][Selects /\ selection'.kind = "turn" =>
          \A x, y \in selection'.members : x # y =>
              \/ CohortOf(x) # NoTask
              \/ /\ x.delivery.auth = y.delivery.auth
                 /\ x.delivery.auth # Anonymous
                 /\ ~(x.delivery.caller # NoCaller /\ y.delivery.caller # NoCaller)]_vars

(* An owner that goes on to wait for more input holds back the outcomes of *)
(* a cohort only while a member is missing that may still report, whatever *)
(* cancellations and competing outcomes did to the others.                 *)
Holds(c) == \E e \in entries : CohortOf(e) = c
Complete(c) == \A t \in Members(c) : ReadySeen(t) \/ t \in cancelledTaskIds
ReadyCohortsAreTaken ==
    [][owner = "parked" /\ nextSequence' # nextSequence /\ ~deferDeliveries =>
          \A c \in Tasks : Holds(c) => ~Complete(c)]_vars
=============================================================================
