--------------------------- MODULE BackgroundTasks ---------------------------
(***************************************************************************)
(* Background tasks: tool calls that outlive the step that made them.  The *)
(* parent session starts a run for each (execution/tasks/parent/           *)
(* tool-execution.ts), commits it to its index before it lets the body     *)
(* start, answers the questions it asks, cancels it, and reports its       *)
(* outcome to the model (execution/route-child-delivery.ts).  The run      *)
(* (execution/tools/workflow/workflow.ts, workflow-owner-background.ts)    *)
(* reads commands of the parent and messages of its body in one loop.      *)
(*                                                                         *)
(* Parent and runs are workflows of their own that talk through hooks.     *)
(* What happens to a notice between the parent's inbox and the turn that   *)
(* reports it is SessionInputQueue's subject.                              *)
(***************************************************************************)
EXTENDS Naturals, Sequences, FiniteSets

CONSTANTS
    Tasks, NoTask,
    Questions,      \* what bodies may ask
    taskOf,         \* the task whose body asks a question
    coordinatesOf,  \* turn, step and sequence a question is announced with
    Subagents,      \* tasks whose reports go to the parent
    AgentTasks,     \* tasks that continue one and the same earlier agent
    reportsOf,      \* bound: reports of a body
    MaxControls,    \* bound: cancellations, the end of the session aside
    Repeats,        \* durable steps that may take effect more than once
    MaxMishaps,     \* bound: repeated steps and failed cancellations
    FailsIn,        \* bound: when the cancellation of a task may fail
    MayHandOff      \* whether the session moves to a new owner

ASSUME TasksAssumption == NoTask \notin Tasks
ASSUME SubsetsAssumption == Subagents \subseteq Tasks /\ AgentTasks \subseteq Tasks
ASSUME QuestionsAssumption ==
    /\ taskOf \in [Questions -> Tasks]
    /\ DOMAIN coordinatesOf = Questions
    /\ \A q \in Questions : coordinatesOf[q] # "ready"
ASSUME BoundsAssumption ==
    /\ reportsOf \in [Tasks -> Nat] /\ MaxControls \in Nat /\ MaxMishaps \in Nat
    /\ FailsIn \subseteq {"all", "close"}

VARIABLES
    (* the parent session *)
    parent,       \* what its owner is doing
    record,       \* the call's record in the step, then in the index
    unready,      \* indexed by the last step, not yet acknowledged
    control,      \* the cancellation it is carrying out
    controls,     \* how many there were
    missed,       \* history: tasks whose last cancellation failed
    outcome,      \* settlement in the index
    asked,        \* requests open at the parent
    inbox,        \* per task: notices accepted, not yet routed
    seen,         \* delivery ids admitted by this owner, per task
    agent,        \* the task that holds the agent's lease
    told,         \* history: outcomes of a task the model was told
    reports,      \* history: how often a task's outcome was reported
    (* the runs *)
    run, status,  \* the run, and the status of its view
    waiting,      \* requests outstanding in the view
    commands,     \* hook of the run: commands not yet read
    body,         \* idle, running, or what it returned
    produced, consumed,   \* reports counted by the body and by the loop
    messages,     \* hook of the body: messages not yet read
    sending,      \* the notice the run is delivering
    heard,        \* history: reports the parent received
    posed,        \* questions a body asked
    resumes,      \* history: how often a question was answered
    mishaps       \* steps repeated and cancellations failed

stepVars == <<parent, record, unready>>
controlVars == <<control, controls, missed>>
settleVars == <<outcome, asked, seen, told, reports>>
parentVars == <<stepVars, controlVars, settleVars, inbox, agent>>
bodyVars == <<body, produced, messages, posed>>
viewVars == <<status, waiting, resumes>>
runVars == <<run, viewVars, commands, consumed, sending, heard>>
vars == <<parentVars, bodyVars, runVars, mishaps>>

Final == {"completed", "failed", "cancelled"}
Settled(s) == [kind |-> "settled", status |-> s]
Asks(q) == [kind |-> "ask", question |-> q]
Update(i) == [kind |-> "update", index |-> i]
Nothing == [kind |-> "nothing"]
NoControl == [kind |-> "none", left |-> {}, at |-> NoTask, over |-> FALSE, views |-> {}]

Members(s) == {s[i] : i \in 1 .. Len(s)}
Indexed == {t \in Tasks : record[t] = "indexed"}
QuestionsOf(T) == {q \in Questions : taskOf[q] \in T}

(* Operators whose name ends in an underscore and a word are the mistakes  *)
(* the runs must notice; no behaviour of the model uses them.              *)

(***************************************************************************)
(* Steps run at least once: an attempt that took effect may fail to say so *)
(* and be run again.                                                       *)
(***************************************************************************)
Repeat(step) ==
    step \in Repeats /\ mishaps < MaxMishaps /\ mishaps' = mishaps + 1

(* A command is lost, and its sender told so, once the hook is gone.       *)
Sent(T, c) ==
    [t \in Tasks |-> IF t \in T /\ run[t] = "owned" THEN Append(commands[t], c)
                                                   ELSE commands[t]]

(***************************************************************************)
(* A step of the parent's turn starts tasks.  The agent's lease is taken   *)
(* in the step's own copy of the session.                                  *)
(***************************************************************************)
startTask(t) ==
    /\ parent \in {"open", "step"}
    /\ record[t] = "none"
    /\ t \in AgentTasks => agent = NoTask
    /\ parent' = "step"
    /\ agent' = IF t \in AgentTasks THEN t ELSE agent
    /\ record' = [record EXCEPT ![t] = "starting"]
    /\ run' = [run EXCEPT ![t] = "started"]
    /\ UNCHANGED <<unready, controlVars, settleVars, inbox, bodyVars, viewVars, commands,
                   consumed, sending, heard, mishaps>>

claimHook(t) ==
    /\ run[t] = "started"
    /\ run' = [run EXCEPT ![t] = "owned"]
    /\ UNCHANGED <<parentVars, bodyVars, viewVars, commands, consumed, sending, heard, mishaps>>

delegated(t) ==
    /\ record[t] = "starting"
    /\ run[t] = "owned"
    /\ record' = [record EXCEPT ![t] = "delegated"]
    /\ UNCHANGED <<parent, unready, controlVars, settleVars, inbox, agent, bodyVars, runVars,
                   mishaps>>

(* The run does not show up in time.  Nothing remembers it any more.       *)
startTimesOut(t) ==
    /\ record[t] = "starting"
    /\ record' = [record EXCEPT ![t] = "abandoned"]
    /\ UNCHANGED <<parent, unready, controlVars, settleVars, inbox, agent, bodyVars, runVars,
                   mishaps>>

(* How a step ends: what becomes of a task it delegated, and of the lease. *)
compensated_kept == agent
compensated == IF agent # NoTask /\ record'[agent] # "indexed" THEN NoTask ELSE agent

StepEnds(fate) ==
    /\ parent = "step"
    /\ record' = [t \in Tasks |-> CASE record[t] = "delegated" -> fate
                                     [] record[t] = "starting" -> "abandoned"
                                     [] OTHER -> record[t]]
    /\ agent' = compensated
    /\ UNCHANGED <<controlVars, settleVars, inbox, bodyVars, run, viewVars, consumed,
                   sending, heard>>

Delegated == {t \in Tasks : record[t] = "delegated"}

(* Cancelling the turn keeps what was delegated, like the end of the step. *)
commit ==
    /\ StepEnds("indexed")
    /\ unready' = Delegated
    /\ parent' = IF Delegated = {} THEN "open" ELSE "acknowledging"
    /\ UNCHANGED <<commands, mishaps>>

toReject == Delegated

rollback ==
    /\ StepEnds("rejected")
    /\ commands' = Sent(toReject, "reject-dispatch")
    /\ parent' = "open"
    /\ UNCHANGED <<unready, mishaps>>

(* The process of the step dies.  The next attempt makes calls of its own. *)
stepDies ==
    /\ StepEnds("abandoned")
    /\ Repeat("turn")
    /\ UNCHANGED <<parent, unready, commands>>

(* acknowledgeDelegatedTasksStep, once the index is durable.               *)
acknowledge(t) ==
    /\ parent = "acknowledging"
    /\ t \in unready
    /\ commands' = Sent({t}, "ready")
    /\ \/ unready' = unready \ {t} /\ UNCHANGED mishaps
       \/ unready' = unready /\ Repeat("ready")
    /\ parent' = IF unready' = {} THEN "open" ELSE parent
    /\ UNCHANGED <<record, controlVars, settleVars, inbox, agent, bodyVars, run, viewVars,
                   consumed, sending, heard>>

(***************************************************************************)
(* Notices at the parent.  Admission drops a delivery id it has seen, and  *)
(* takes any two outcomes of a task for the same.  Requests are routed     *)
(* before anything else is selected.                                       *)
(***************************************************************************)
DeliveryId(n) == IF n.kind = "ask" THEN coordinatesOf[n.question] ELSE "ready"
Repeated_asksOnly(t, n) == n.kind = "ask" /\ DeliveryId(n) \in seen[t]
Repeated(t, n) == DeliveryId(n) \in seen[t]

IsFirst(t, i) == i = 1 \/ /\ inbox[t][i].kind = "ask"
                          /\ \A j \in 1 .. (i - 1) : inbox[t][j].kind # "ask"

(* recordTaskInputRequestStep                                              *)
accepted_always(t) == t \in Indexed
accepted(t) == t \in Indexed /\ outcome[t] = "none"

recordTaskInputRequest(t, q) ==
    /\ asked' = IF accepted(t) THEN asked \cup {q} ELSE asked
    /\ UNCHANGED <<outcome, agent, told, reports>>

(* recordWorkflowTaskView: the first settlement of a task stands.          *)
recorded_latest(T, s) == [t \in Tasks |-> IF t \in T THEN s ELSE outcome[t]]
recorded(T, s) == [t \in Tasks |-> IF t \in T /\ outcome[t] = "none" THEN s ELSE outcome[t]]

(* recordTerminalTaskViewsStep                                             *)
recordTerminalViews(T, s) ==
    /\ outcome' = recorded(T, s)
    /\ asked' = asked \ QuestionsOf(T)
    /\ agent' = IF agent \in T THEN NoTask ELSE agent

(* The turn that follows tells the model the settlement that was accepted. *)
reportOutcome(t, s) ==
    /\ recordTerminalViews({t}, s)
    /\ told' = [told EXCEPT ![t] = @ \cup {outcome'[t]}]
    /\ reports' = [reports EXCEPT ![t] = @ + 1]

route(t, i) ==
    LET n == inbox[t][i]
    IN  /\ parent = "open"
        /\ IsFirst(t, i)
        /\ inbox' = [inbox EXCEPT ![t] = SubSeq(@, 1, i - 1) \o SubSeq(@, i + 1, Len(@))]
        /\ seen' = [seen EXCEPT ![t] = @ \cup {DeliveryId(n)}]
        /\ IF Repeated(t, n) \/ t \notin Indexed
           THEN UNCHANGED <<outcome, asked, agent, told, reports>>
           ELSE IF n.kind = "ask" THEN recordTaskInputRequest(t, n.question)
                                  ELSE reportOutcome(t, n.status)
        /\ UNCHANGED <<stepVars, controlVars, bodyVars, runVars, mishaps>>

(* An answer to an open request goes to the run.  Once sent, the request   *)
(* is retired; with the run gone it is left to the settlement.             *)
answer(q) ==
    LET t == taskOf[q]
    IN  /\ parent = "open"
        /\ q \in asked
        /\ run[t] = "owned"
        /\ commands' = Sent({t}, q)
        /\ \/ asked' = asked \ {q} /\ UNCHANGED mishaps
           \/ asked' = asked /\ Repeat("answer")
        /\ UNCHANGED <<stepVars, controlVars, outcome, seen, told, reports, inbox, agent,
                       bodyVars, run, viewVars, consumed, sending, heard>>

(* The session moves to a new owner only when it is idle, with nothing     *)
(* accepted and unread; what the old owner had seen is not handed over.    *)
Idle == /\ \A t \in Tasks : inbox[t] = <<>> /\ (t \in Indexed => outcome[t] # "none")
        /\ asked = {} /\ agent = NoTask

handOff ==
    /\ MayHandOff
    /\ parent = "open"
    /\ Idle
    /\ seen' = [t \in Tasks |-> {}]
    /\ UNCHANGED <<stepVars, controlVars, outcome, asked, told, reports, inbox, agent,
                   bodyVars, runVars, mishaps>>

(***************************************************************************)
(* Cancellation, task by task: a command to the run, a wait for it to end, *)
(* force when it does not, and a settlement in the parent's own inbox, in  *)
(* case the run can no longer send one.  The tool takes a list of tasks;   *)
(* a cancel command with tasks, and the end of the session, take them all. *)
(***************************************************************************)
beginControl(kind, T) ==
    /\ parent = "open"
    /\ parent' = "cancelling"
    /\ control' = [NoControl EXCEPT !.kind = kind, !.left = T]
    /\ controls' = IF kind = "close" THEN controls ELSE controls + 1
    /\ UNCHANGED <<missed, record, unready, settleVars, inbox, agent, bodyVars, runVars, mishaps>>

cancelTasks(T) == controls < MaxControls /\ T # {} /\ beginControl("tool", T)
cancelAll == controls < MaxControls /\ Indexed # {} /\ beginControl("all", Indexed)
closeSession == beginControl("close", Indexed)

(* cancelOwnedTask                                                         *)
skipSettled(t) ==
    /\ t \in control.left /\ control.at = NoTask
    /\ outcome[t] \in {"completed", "failed"}
    /\ control' = [control EXCEPT !.left = @ \ {t}]
    /\ UNCHANGED <<stepVars, controls, missed, settleVars, inbox, agent, bodyVars, runVars, mishaps>>

signalCancel(t) ==
    /\ t \in control.left /\ control.at = NoTask
    /\ outcome[t] \in {"none", "cancelled"}
    /\ control' = [control EXCEPT !.at = t, !.left = @ \ {t}]
    /\ commands' = Sent({t}, "cancel")
    /\ missed' = missed \ {t}
    /\ UNCHANGED <<stepVars, controls, settleVars, inbox, agent, bodyVars, run, viewVars,
                   consumed, sending, heard, mishaps>>

(* cancelRun stops the run at once; a step it has under way may still take *)
(* effect.                                                                 *)
stopped(t) == /\ run' = [run EXCEPT ![t] = "over"]
              /\ \/ UNCHANGED sending
                 \/ sending' = [sending EXCEPT ![t] = Nothing]

settleCancellation(t) ==
    /\ control.at = t /\ ~control.over
    /\ control' = [control EXCEPT !.over = TRUE]
    /\ IF run[t] = "over" THEN UNCHANGED <<run, sending>> ELSE stopped(t)
    /\ UNCHANGED <<stepVars, controls, missed, settleVars, inbox, agent, bodyVars, viewVars,
                   commands, consumed, heard, mishaps>>

(* The inbox is closed first when the session ends.                        *)
Accepting == parent # "ended" /\ control.kind # "close"
Notified(t, n) == IF Accepting THEN [inbox EXCEPT ![t] = Append(@, n)] ELSE inbox
ownNotice_none(t) == inbox
ownNotice(t) == Notified(t, Settled("cancelled"))

notifyCancelled(t) ==
    /\ control.at = t /\ control.over
    /\ inbox' = ownNotice(t)
    /\ control' = [control EXCEPT !.at = NoTask, !.over = FALSE, !.views = @ \cup {t}]
    /\ UNCHANGED <<stepVars, controls, missed, settleVars, agent, bodyVars, runVars, mishaps>>

(* The command, the stop or the notice may fail.  The loop over the tasks  *)
(* on record logs that, without a view, and goes on with the next; under   *)
(* the tool the step itself fails, which is controlDies.                   *)
failing(t) ==
    \/ control.at = t
    \/ t \in control.left /\ control.at = NoTask /\ outcome[t] \in {"none", "cancelled"}

remaining_none(t) == {}
remaining(t) == control.left \ {t}

cancellationFails(t) ==
    /\ control.kind \in FailsIn /\ mishaps < MaxMishaps
    /\ failing(t)
    /\ control' = [control EXCEPT !.left = remaining(t), !.at = NoTask, !.over = FALSE]
    /\ missed' = missed \cup {t}
    /\ UNCHANGED <<stepVars, controls, settleVars, inbox, agent, bodyVars, runVars>>
    /\ mishaps' = mishaps + 1

(* The tool records its settlements and tells the model; the rest is left  *)
(* to the notices.                                                         *)
endControl ==
    /\ parent = "cancelling" /\ control.left = {} /\ control.at = NoTask
    /\ control' = NoControl
    /\ IF control.kind = "tool"
       THEN /\ outcome' = recorded(control.views, "cancelled")
            /\ told' = [t \in Tasks |-> IF t \in control.views THEN told[t] \cup {outcome'[t]}
                                                               ELSE told[t]]
            /\ UNCHANGED <<asked, agent>>
       ELSE recordTerminalViews(control.views, "cancelled") /\ UNCHANGED told
    /\ parent' = IF control.kind = "close" THEN "ended" ELSE "open"
    /\ UNCHANGED <<record, unready, controls, missed, seen, reports, inbox, bodyVars, runVars,
                   mishaps>>

(* The step dies and starts over; its session was not saved.               *)
controlDies ==
    /\ parent = "cancelling"
    /\ Repeat("control")
    /\ control' = [NoControl EXCEPT !.kind = control.kind,
                     !.left = IF control.kind = "tool"
                              THEN control.left \cup control.views \cup ({control.at} \ {NoTask})
                              ELSE Indexed]
    /\ UNCHANGED <<stepVars, controls, missed, settleVars, inbox, agent, bodyVars, runVars>>

(***************************************************************************)
(* The body.  It may go on after a cancellation, to clean up, and returns  *)
(* when it likes.                                                          *)
(***************************************************************************)
bodyReports(t) ==
    /\ body[t] = "running" /\ run[t] = "owned"
    /\ produced[t] < reportsOf[t]
    /\ messages' = [messages EXCEPT ![t] = Append(@, Update(produced[t] + 1))]
    /\ produced' = [produced EXCEPT ![t] = @ + 1]
    /\ UNCHANGED <<parentVars, body, posed, runVars, mishaps>>

bodyReportsAgain(t) ==
    /\ body[t] = "running" /\ run[t] = "owned"
    /\ produced[t] > 0
    /\ Repeat("report")
    /\ messages' = [messages EXCEPT ![t] = Append(@, Update(produced[t]))]
    /\ UNCHANGED <<parentVars, body, produced, posed, runVars>>

bodyAsks(t, q) ==
    /\ body[t] = "running" /\ run[t] = "owned"
    /\ taskOf[q] = t /\ q \notin posed
    /\ posed' = posed \cup {q}
    /\ messages' = [messages EXCEPT ![t] = Append(@, Asks(q))]
    /\ UNCHANGED <<parentVars, body, produced, runVars, mishaps>>

bodyReturns(t, result) ==
    /\ body[t] = "running" /\ run[t] = "owned"
    /\ result = "cancelled" => status[t] = "cancelled"
    /\ body' = [body EXCEPT ![t] = result]
    /\ UNCHANGED <<parentVars, produced, messages, posed, runVars, mishaps>>

(***************************************************************************)
(* The loop of the run.  While it delivers a notice it reads nothing.  A   *)
(* command that comes once the outcome is settled is not read at all.      *)
(***************************************************************************)
Reads(t) == run[t] = "owned" /\ sending[t] = Nothing
Terminal(t) == status[t] \in Final

(* applyTaskTransition: a terminal view does not change.                   *)
becomes(t, s) ==
    /\ status' = [status EXCEPT ![t] = IF Terminal(t) THEN @ ELSE s]
    /\ waiting' = [waiting EXCEPT ![t] = {}]

(* The view is cancelled exactly when the body's signal is aborted.        *)
handleReady_always(t) ==
    sending' = [sending EXCEPT ![t] = Settled(status[t])] /\ UNCHANGED body
handleReady(t) ==
    IF Terminal(t)
    THEN sending' = [sending EXCEPT ![t] = Settled(status[t])] /\ UNCHANGED body
    ELSE body' = [body EXCEPT ![t] = "running"] /\ UNCHANGED sending

handleReject_notifies(t) ==
    becomes(t, "failed") /\ sending' = [sending EXCEPT ![t] = Settled(status'[t])] /\ UNCHANGED run
handleReject(t) ==
    becomes(t, "failed") /\ run' = [run EXCEPT ![t] = "over"] /\ UNCHANGED sending

(* An answer to a request that is not outstanding is ignored.              *)
outstanding(t, q) == q \in waiting[t]

handleAnswer(t, q) ==
    IF outstanding(t, q)
    THEN /\ waiting' = [waiting EXCEPT ![t] = @ \ {q}]
         /\ resumes' = [resumes EXCEPT ![q] = @ + 1]
    ELSE UNCHANGED <<waiting, resumes>>

readCommand(t) ==
    LET c == Head(commands[t])
    IN  /\ Reads(t) /\ commands[t] # <<>>
        /\ commands' = [commands EXCEPT ![t] = Tail(@)]
        /\ CASE c \in {"ready", "reject-dispatch"} /\ body[t] # "idle" ->
                   UNCHANGED <<run, viewVars, body, sending>>
             [] c = "ready" /\ body[t] = "idle" ->
                   handleReady(t) /\ UNCHANGED <<run, viewVars>>
             [] c = "reject-dispatch" /\ body[t] = "idle" ->
                   handleReject(t) /\ UNCHANGED <<resumes, body>>
             [] c = "cancel" ->
                   becomes(t, "cancelled") /\ UNCHANGED <<run, resumes, body, sending>>
             [] c \in Questions ->
                   handleAnswer(t, c) /\ UNCHANGED <<run, status, body, sending>>
        /\ UNCHANGED <<parentVars, produced, messages, posed, consumed, heard, mishaps>>

(* A new request takes the place of what the view was waiting for.         *)
readMessage(t) ==
    LET m == Head(messages[t])
    IN  /\ Reads(t) /\ messages[t] # <<>>
        /\ messages' = [messages EXCEPT ![t] = Tail(@)]
        /\ IF m.kind = "update"
           THEN /\ consumed' = [consumed EXCEPT ![t] = @ + 1]
                /\ sending' = IF t \in Subagents /\ ~Terminal(t) THEN [sending EXCEPT ![t] = m]
                                                                ELSE sending
                /\ UNCHANGED waiting
           ELSE /\ IF Terminal(t) THEN UNCHANGED <<waiting, sending>>
                   ELSE /\ waiting' = [waiting EXCEPT ![t] = {m.question}]
                        /\ sending' = [sending EXCEPT ![t] = m]
                /\ UNCHANGED consumed
        /\ UNCHANGED <<parentVars, body, produced, posed, run, status, resumes, commands,
                       heard, mishaps>>

(* The body's outcome, when every report it counts and every command has   *)
(* been read; or, of a cancelled task, the end of the time for its cleanup.*)
reportsRead_never(t) == TRUE
reportsRead(t) == consumed[t] >= produced[t]

settle(t) ==
    /\ Reads(t)
    /\ \/ /\ body[t] \in Final /\ reportsRead(t) /\ commands[t] = <<>>
          /\ becomes(t, body[t])
       \/ body[t] # "idle" /\ status[t] = "cancelled" /\ becomes(t, "cancelled")
    /\ sending' = [sending EXCEPT ![t] = Settled(status'[t])]
    /\ UNCHANGED <<parentVars, bodyVars, run, resumes, commands, consumed, heard, mishaps>>

(* notifyTaskParent.  The run is over with the notice of its outcome; one  *)
(* to a session that is gone is dropped.                                   *)
notify(t) ==
    LET n == sending[t]
    IN  /\ n # Nothing
        /\ IF n.kind = "update"
           THEN heard' = [heard EXCEPT ![t] = @ \cup {n.index}] /\ UNCHANGED inbox
           ELSE inbox' = Notified(t, n) /\ UNCHANGED heard
        /\ \/ /\ sending' = [sending EXCEPT ![t] = Nothing]
              /\ run' = IF n.kind = "settled" THEN [run EXCEPT ![t] = "over"] ELSE run
              /\ UNCHANGED mishaps
           \/ Repeat("notify") /\ UNCHANGED <<sending, run>>
        /\ UNCHANGED <<stepVars, controlVars, settleVars, agent, bodyVars, viewVars, commands,
                       consumed>>

-----------------------------------------------------------------------------
Init ==
    /\ parent = "open" /\ record = [t \in Tasks |-> "none"] /\ unready = {}
    /\ control = NoControl /\ controls = 0 /\ missed = {}
    /\ outcome = [t \in Tasks |-> "none"] /\ asked = {}
    /\ inbox = [t \in Tasks |-> <<>>] /\ seen = [t \in Tasks |-> {}]
    /\ agent = NoTask
    /\ told = [t \in Tasks |-> {}] /\ reports = [t \in Tasks |-> 0]
    /\ run = [t \in Tasks |-> "none"] /\ status = [t \in Tasks |-> "working"]
    /\ waiting = [t \in Tasks |-> {}] /\ resumes = [q \in Questions |-> 0]
    /\ commands = [t \in Tasks |-> <<>>] /\ messages = [t \in Tasks |-> <<>>]
    /\ body = [t \in Tasks |-> "idle"] /\ posed = {}
    /\ produced = [t \in Tasks |-> 0] /\ consumed = [t \in Tasks |-> 0]
    /\ sending = [t \in Tasks |-> Nothing] /\ heard = [t \in Tasks |-> {}]
    /\ mishaps = 0

stepOfParent ==
    \/ commit
    \/ \E t \in Tasks : acknowledge(t)
    \/ \E t \in Tasks : \E i \in DOMAIN inbox[t] : route(t, i)

stepOfControl ==
    \/ \E t \in Tasks : \/ skipSettled(t) \/ signalCancel(t)
                        \/ settleCancellation(t) \/ notifyCancelled(t)
    \/ endControl

stepOfRun(t) == readCommand(t) \/ readMessage(t) \/ settle(t) \/ notify(t)

stepOfBody(t) ==
    \/ bodyReports(t) \/ bodyReportsAgain(t)
    \/ \E q \in Questions : bodyAsks(t, q)
    \/ \E result \in Final : bodyReturns(t, result)

Next ==
    \/ stepOfParent \/ stepOfControl
    \/ rollback \/ stepDies \/ controlDies \/ handOff
    \/ \E T \in SUBSET Indexed : cancelTasks(T)
    \/ cancelAll \/ closeSession
    \/ \E q \in Questions : answer(q)
    \/ \E t \in Tasks : \/ startTask(t) \/ claimHook(t) \/ delegated(t) \/ startTimesOut(t)
                        \/ cancellationFails(t)
                        \/ stepOfRun(t) \/ stepOfBody(t)

Spec == Init /\ [][Next]_vars

(* The parent's owner and the runs make progress; a body need not.  The    *)
(* wait for a cancelled run is bounded by a deadline.                      *)
FairSpec ==
    /\ Spec
    /\ WF_vars(stepOfParent) /\ WF_vars(stepOfControl)
    /\ \A t \in Tasks : WF_vars(claimHook(t)) /\ WF_vars(stepOfRun(t))

-----------------------------------------------------------------------------
Outcomes == [kind : {"settled"}, status : Final]
Requests == [kind : {"ask"}, question : Questions]
Updates == [kind : {"update"}, index : Nat]

(* Every variable has its type: in particular a run announces settlements  *)
(* only, and asks only when its view waits.                                *)
TypeOK ==
    /\ parent \in {"open", "step", "acknowledging", "cancelling", "ended"}
    /\ record \in [Tasks ->
            {"none", "starting", "delegated", "indexed", "rejected", "abandoned"}]
    /\ unready \subseteq Tasks /\ missed \subseteq Tasks /\ controls \in Nat /\ mishaps \in Nat
    /\ control \in [kind : {"none", "tool", "all", "close"}, left : SUBSET Tasks,
                    at : Tasks \cup {NoTask}, over : BOOLEAN, views : SUBSET Tasks]
    /\ outcome \in [Tasks -> Final \cup {"none"}]
    /\ asked \subseteq Questions /\ posed \subseteq Questions
    /\ inbox \in [Tasks -> Seq(Outcomes \cup Requests)]
    /\ seen \in [Tasks -> SUBSET ({coordinatesOf[q] : q \in Questions} \cup {"ready"})]
    /\ agent \in Tasks \cup {NoTask}
    /\ told \in [Tasks -> SUBSET Final] /\ reports \in [Tasks -> Nat]
    /\ run \in [Tasks -> {"none", "started", "owned", "over"}]
    /\ status \in [Tasks -> {"working"} \cup Final]
    /\ waiting \in [Tasks -> SUBSET Questions] /\ resumes \in [Questions -> Nat]
    /\ commands \in [Tasks -> Seq({"ready", "reject-dispatch", "cancel"} \cup Questions)]
    /\ body \in [Tasks -> {"idle", "running"} \cup Final]
    /\ produced \in [Tasks -> Nat] /\ consumed \in [Tasks -> Nat]
    /\ messages \in [Tasks -> Seq(Requests \cup Updates)]
    /\ sending \in [Tasks -> Outcomes \cup Requests \cup Updates \cup {Nothing}]
    /\ heard \in [Tasks -> SUBSET Nat]

(* A task that is not in the parent's index (delegate.ts:3) runs no code   *)
(* of its body and sends nothing to the parent, whichever way its step     *)
(* failed, were it rejected, forgotten, or killed.                         *)
UnindexedIsSilent ==
    \A t \in Tasks \ Indexed : body[t] = "idle" /\ sending[t] = Nothing /\ inbox[t] = <<>>

(* The model hears one outcome of a task, whether from the tool that       *)
(* cancelled it or from its report, and it is the one on record ("a task   *)
(* that finishes after you cancel it stays cancelled", framework/          *)
(* task-cancel.ts:10).                                                     *)
OneVerdict == \A t \in Tasks : told[t] \subseteq {outcome[t]}

(* No outcome is reported twice, though the run and the parent itself both *)
(* announce it, and either may do so again (input-queue.ts:74).            *)
ReportedOnce == \A t \in Tasks : reports[t] <= 1

(* The end of a run withdraws its requests (docs/tools/workflows.mdx:296): *)
(* one is open for a settled task only while the settlement is queued.     *)
SettlementQueued(t) == "ready" \notin seen[t] /\ \E n \in Members(inbox[t]) : n.kind = "settled"
SettledAsksNothing ==
    \A q \in asked : outcome[taskOf[q]] # "none" => SettlementQueued(taskOf[q])

(* The agent's lease belongs to a task of the current step, or to one on   *)
(* record that is still to be settled: nobody waits for a lease that no    *)
(* notice will release.                                                    *)
LeaseHeldByLiveTask ==
    agent # NoTask => \/ parent = "step" /\ record[agent] \in {"starting", "delegated", "abandoned"}
                      \/ agent \in Indexed /\ outcome[agent] = "none"
                      \/ agent \in Indexed /\ SettlementQueued(agent)

(* A subagent's reports reach the parent before its outcome does ("must    *)
(* also finish delivery before settlement", workflow.ts:63).               *)
ReportsBeforeOutcome ==
    \A t \in Subagents : sending[t] \in {Settled("completed"), Settled("failed")}
                            => 1 .. produced[t] \subseteq heard[t]

(* The end of the session ends the tasks on record (cancel-indexed-        *)
(* session-tasks-step.ts:16), one by one: a task whose cancellation fails  *)
(* costs none of the others theirs.  What still runs has announced its     *)
(* outcome.                                                                *)
EndStopsTheRest ==
    parent = "ended" =>
        \A t \in Indexed \ missed : run[t] = "over" \/ outcome[t] \in {"completed", "failed"}

(* A question of a live task can be answered, or will be: it is on its way *)
(* to the parent, open there, or its answer is on its way back ("It stays  *)
(* answerable until it is answered or the run ends").                      *)
StaysAnswerable ==
    \A q \in posed :
        LET t == taskOf[q]
        IN  \/ resumes[q] > 0 \/ q \in asked
            \/ q \in Members(commands[t])
            \/ Asks(q) \in Members(messages[t]) \cup {sending[t]} \cup Members(inbox[t])
            \/ Terminal(t) \/ body[t] # "running" \/ run[t] = "over" \/ outcome[t] # "none"
            \/ parent \in {"cancelling", "ended"}

(* A task whose run is over is settled, reported and released, killed or   *)
(* not, unless the session ends first or its cancellation failed.          *)
EndedTasksSettle ==
    \A t \in Tasks :
        run[t] = "over" /\ t \in Indexed
            ~> \/ parent = "ended" \/ t \in missed
               \/ /\ outcome[t] # "none" /\ reports[t] > 0
                  /\ agent # t /\ asked \cap QuestionsOf({t}) = {}
=============================================================================
