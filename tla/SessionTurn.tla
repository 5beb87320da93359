----------------------------- MODULE SessionTurn -----------------------------
(***************************************************************************)
(* The active turn of a session (packages/eve/src/execution/session/       *)
(* turn.ts): its steps, the boundary after each of them, the wait for      *)
(* results of delegated calls, and what cancellation and steering do       *)
(* meanwhile.  The pump of the inbox (execution/session-inbox/inbox.ts)    *)
(* calls the turn's two handlers as it pushes a payload, which the turn    *)
(* reads later; the model is about the time in between.                    *)
(*                                                                         *)
(* Between turns the parked owner (next-input.ts) selects from the queue   *)
(* first and reads the inbox only when nothing is selectable.  Background  *)
(* outcomes, other controls and callers are SessionInputQueue's subject.   *)
(***************************************************************************)
EXTENDS Naturals, Sequences, FiniteSets, Filtering

CONSTANTS
    Steers,       \* messages that may join the active turn
    Queued,       \* messages sent with turnPolicy "queue"
    Answers,      \* responses to a request, without a message
    Stops,        \* those of them that stop the parent's turn, too
    Questions,    \* requests of background tasks for input
    Cancels, Resets,
    Calls,        \* delegated calls
    Anonymous,
    sender,       \* who sent a delivery
    question,     \* the request an answer addresses
    turnId,       \* the turn a cancel command names, or AnyTurn
    AnyTurn

Messages == Steers \cup Queued
Deliveries == Messages \cup Answers
Commands == Deliveries \cup Questions \cup Cancels \cup Resets
Payloads == Commands \cup Calls

ASSUME PayloadsAssumption ==
    /\ Steers \cap (Queued \cup Answers \cup Questions) = {}
    /\ Queued \cap (Answers \cup Questions) = {} /\ Answers \cap Questions = {}
    /\ (Cancels \cup Resets) \cap (Deliveries \cup Questions) = {}
    /\ Cancels \cap Resets = {} /\ Calls \cap Commands = {}
    /\ Stops \subseteq Answers
    /\ question \in [Answers -> Questions]
    /\ DOMAIN sender = Deliveries
    /\ AnyTurn \notin Nat
    /\ turnId \in [Cancels -> Nat \cup {AnyTurn}]

VARIABLES
    inbox,        \* pumped, unread
    draining,     \* read at a boundary, not yet admitted
    queue,        \* admitted, not yet selected
    admitted,     \* what the active turn admitted
    pc, turn,
    abortedBy,    \* what aborted the turn's cancellation signal, if anything did
    steered,      \* the turn's steering signal
    outcome,      \* what the last step returned
    pending,      \* calls the turn waits for
    results,      \* calls whose result it has
    events,       \* results admitted, not yet looked at
    handles,      \* calls recorded as running in session state
    children,     \* calls whose child has not reported yet
    stepInput,    \* deliveries the next or running step is given
    asking,       \* open requests
    sent,         \* history: what was accepted, in order
    history,      \* messages in durable history, in order
    answered,     \* history: deliveries that went to a child
    dropped,      \* history: deliveries given up
    muted,        \* history: steering left unread while a request was open
    stops         \* history: which command stopped which turn

inputVars == <<inbox, draining, queue, admitted>>
signalVars == <<abortedBy, steered>>
callVars == <<outcome, pending, results, events, handles, children>>
recordVars == <<stepInput, asking, history, answered, dropped>>
vars == <<inputVars, pc, turn, signalVars, callVars, recordVars, sent, muted, stops>>

InStep == {"generating", "acting"}
Active == InStep \cup
    {"returned", "admitting", "dispatching", "waiting", "routing", "cancelling"}
Results == [kind: {"cancelled", "steered", "continue", "settled", "parked"}]
               \cup [kind: {"calls"}, calls: SUBSET Calls]

Unread == Members(inbox)

(* Operators whose name ends in an underscore and a word are the mistakes  *)
(* the runs must notice; no behaviour of the model uses them.              *)

(***************************************************************************)
(* Signals.  The first abort counts.                                       *)
(***************************************************************************)
aborted == abortedBy # {}
abort(p) == IF aborted THEN abortedBy ELSE {p}

cancelsThisTurn_any(p) == p \in Cancels \cup Resets
cancelsThisTurn(p) == p \in Resets \/ (p \in Cancels /\ turnId[p] \in {AnyTurn, turn})

(* Steering waits while a request is open: the message may be an answer.   *)
signalSteering(S) == asking = {} /\ S \cap Steers # {}
Mutes(S) == IF asking = {} THEN muted ELSE muted \cup (S \cap Steers)

(* The boundary replays what is unread to a fresh signal.                  *)
resetSteering_forgets == FALSE
resetSteering == steered /\ signalSteering(Unread)

(***************************************************************************)
(* The pump.  A client cancels a turn it has seen, and answers a request   *)
(* it was shown.                                                           *)
(***************************************************************************)
MaySend(p) ==
    /\ p \in Cancels /\ turnId[p] # AnyTurn => turnId[p] <= turn
    /\ p \in Answers => question[p] \in asking

pump(p) ==
    /\ pc # "ended"
    /\ inbox' = Append(inbox, p)
    /\ IF pc \in Active
       THEN /\ steered' = (steered \/ signalSteering({p}))
            /\ muted' = Mutes({p})
            /\ abortedBy' = IF cancelsThisTurn(p) THEN abort(p) ELSE abortedBy
       ELSE UNCHANGED <<signalVars, muted>>

send(p) ==
    /\ p \notin Members(sent)
    /\ MaySend(p)
    /\ sent' = Append(sent, p)
    /\ pump(p)
    /\ UNCHANGED <<draining, queue, admitted, pc, turn, callVars, recordVars, stops>>

(* A child reports when it likes, to a turn that may be long gone.         *)
report(c) ==
    /\ c \in children
    /\ children' = children \ {c}
    /\ pump(c)
    /\ UNCHANGED <<draining, queue, admitted, pc, turn, outcome, pending, results, events,
                   handles, recordVars, sent, stops>>

(***************************************************************************)
(* The parked owner.                                                       *)
(***************************************************************************)
(* Requests of tasks are routed before every selection.                    *)
Routed == Without(queue, Questions)
Opened == asking \cup (Members(queue) \cap Questions)

Consumed(batch, open) == {a \in Members(batch) \cap Answers : question[a] \in open}
Requests(answers) == {question[a] : a \in answers}

(* Consecutive deliveries of one authenticated sender share a turn.        *)
Batch(q) ==
    LET Shares(i) == \A j \in 1 .. i : q[j] \in Deliveries /\ sender[q[j]] = sender[q[1]]
        last == IF sender[q[1]] = Anonymous THEN 1
                ELSE CHOOSE n \in 1 .. Len(q) : Shares(n) /\ (n = Len(q) \/ ~Shares(n + 1))
    IN  SubSeq(q, 1, last)

(* What routing leaves of a batch starts a turn.  A stop among it drops    *)
(* the batch and settles like a cancelled turn, which withdraws requests.  *)
takeNext ==
    LET batch == Batch(Routed)
        used == Consumed(batch, Opened)
        stopped == used \cap Stops # {}
        turnInput == Without(batch, used)
    IN  /\ pc = "parked"
        /\ Routed # <<>>
        /\ Head(Routed) \in Deliveries
        /\ queue' = SubSeq(Routed, Len(batch) + 1, Len(Routed))
        /\ answered' = answered \cup used
        /\ asking' = IF stopped THEN {} ELSE Opened \ Requests(used)
        /\ dropped' = IF stopped THEN dropped \cup Members(turnInput) ELSE dropped
        /\ IF stopped \/ turnInput = <<>>
           THEN UNCHANGED <<pc, turn, stepInput, signalVars, muted>>
           ELSE /\ pc' = "generating"
                /\ turn' = turn + 1
                /\ stepInput' = turnInput
                /\ abortedBy' = {}
                /\ steered' = (asking' = {} /\ Unread \cap Steers # {})
                /\ muted' = IF asking' = {} THEN muted ELSE muted \cup (Unread \cap Steers)
        /\ UNCHANGED <<inbox, draining, admitted, callVars, history, sent, stops>>

takeReset ==
    /\ pc = "parked"
    /\ Routed # <<>>
    /\ Head(Routed) \in Resets
    /\ pc' = "ended"
    /\ queue' = Tail(Routed)
    /\ asking' = Opened
    /\ UNCHANGED <<inbox, draining, admitted, turn, signalVars, callVars, stepInput, history,
                   answered, dropped, sent, muted, stops>>

(* Nothing selectable: read one payload.  A cancel is a no-op, and a       *)
(* result of a turn that ended is dropped.                                 *)
Enqueued_cancels(q, p) == IF p \notin Calls THEN Append(q, p) ELSE q
Enqueued(q, p) == IF p \in Deliveries \cup Questions \cup Resets THEN Append(q, p) ELSE q

readParked ==
    /\ pc = "parked"
    /\ Routed = <<>>
    /\ inbox # <<>>
    /\ inbox' = Tail(inbox)
    /\ queue' = Enqueued(Routed, Head(inbox))
    /\ asking' = Opened
    /\ UNCHANGED <<draining, admitted, pc, turn, signalVars, callVars, stepInput, history,
                   answered, dropped, sent, muted, stops>>

(***************************************************************************)
(* turnStep.  A generation can be interrupted until it has produced output *)
(* or started an effect.  A step that does not notice a signal in time     *)
(* acts as one that did so before the signal.                              *)
(***************************************************************************)
startsOutput ==
    /\ pc = "generating"
    /\ ~steered /\ ~aborted
    /\ pc' = "acting"
    /\ UNCHANGED <<inputVars, turn, signalVars, callVars, recordVars, sent, muted, stops>>

(* A call has an identifier of its own; one nobody knows any more stands   *)
(* for a new one.                                                          *)
Fresh == Calls \ (handles \cup children \cup Unread \cup Members(events))

StepReturns ==
    IF aborted THEN [kind: {"cancelled"} \cup (IF pc = "acting" THEN {"settled"} ELSE {})]
    ELSE IF pc = "acting"
    THEN [kind: {"continue", "settled", "parked"}]
             \cup [kind: {"calls"}, calls: SUBSET Fresh \ {{}}]
    ELSE IF steered THEN [kind: {"steered"}] ELSE {}

(* Even a step cancelled on entry keeps its message in durable history.    *)
preserved_unlessCancelled(result) ==
    IF result.kind = "cancelled" THEN history ELSE history \o Only(stepInput, Messages)
preserved(result) == history \o Only(stepInput, Messages)

turnStep(result) ==
    /\ pc \in InStep
    /\ result \in StepReturns
    /\ outcome' = result
    /\ history' = preserved(result)
    /\ stepInput' = <<>>
    /\ pc' = "returned"
    /\ UNCHANGED <<inputVars, turn, signalVars, pending, results, events, handles, children,
                   asking, answered, dropped, sent, muted, stops>>

(***************************************************************************)
(* The boundary after a step.                                              *)
(***************************************************************************)
admitBoundary ==
    /\ pc = "returned"
    /\ pc' = "admitting"
    /\ draining' = inbox
    /\ inbox' = <<>>
    /\ UNCHANGED <<queue, admitted, turn, signalVars, callVars, recordVars, sent, muted, stops>>

(* ActiveTurn.admit, for one payload.                                      *)
admit(p) ==
    /\ queue' = Enqueued(queue, p)
    /\ admitted' = admitted \cup ({p} \cap (Deliveries \cup Questions))
    /\ events' = IF p \in Calls THEN Append(events, p) ELSE events
    /\ abortedBy' = IF cancelsThisTurn(p) THEN abort(p) ELSE abortedBy

admitDrained ==
    /\ pc = "admitting"
    /\ draining # <<>>
    /\ draining' = Tail(draining)
    /\ admit(Head(draining))
    /\ UNCHANGED <<inbox, pc, turn, steered, outcome, pending, results, handles, children,
                   recordVars, sent, muted, stops>>

AtBoundary == pc = "admitting" /\ draining = <<>>

resetsSteering ==
    /\ steered' = resetSteering
    /\ muted' = IF steered THEN Mutes(Unread) ELSE muted

cancelTurn ==
    /\ AtBoundary
    /\ outcome.kind = "cancelled"
       \/ (aborted /\ outcome.kind \in {"steered", "continue", "parked"})
    /\ resetsSteering
    /\ pc' = "cancelling"
    /\ UNCHANGED <<inputVars, turn, abortedBy, callVars, recordVars, sent, stops>>

parkTurn ==
    /\ AtBoundary
    /\ outcome.kind = "settled" \/ (~aborted /\ outcome.kind = "parked")
    /\ resetsSteering
    /\ pc' = "parked"
    /\ admitted' = {}
    /\ events' = <<>>
    /\ UNCHANGED <<inbox, draining, queue, turn, abortedBy, outcome, pending, results, handles,
                   children, recordVars, sent, stops>>

(* takeSteering: what this turn admitted joins its next step.              *)
takeSteering ==
    LET batch == Only(queue, admitted \cap (Steers \cup Answers))
        used == Consumed(batch, asking)
        joining == Without(batch, used)
    IN  /\ queue' = Without(queue, Members(batch))
        /\ admitted' = admitted \ Members(batch)
        /\ answered' = answered \cup used
        /\ asking' = asking \ Requests(used)
        /\ IF used \cap Stops = {}
           THEN stepInput' = joining /\ UNCHANGED <<dropped, abortedBy>>
           ELSE /\ stepInput' = <<>>
                /\ dropped' = dropped \cup Members(joining)
                /\ abortedBy' = abort(CHOOSE p \in used \cap Stops : TRUE)

continueTurn ==
    /\ AtBoundary
    /\ ~aborted
    /\ outcome.kind \in {"steered", "continue"}
    /\ resetsSteering
    /\ takeSteering
    /\ pc' = "generating"
    /\ UNCHANGED <<inbox, draining, turn, callVars, history, sent, stops>>

(* Calls are dispatched even by a turn that is aborted by now.             *)
beginDispatch ==
    /\ AtBoundary
    /\ outcome.kind = "calls"
    /\ resetsSteering
    /\ pc' = "dispatching"
    /\ UNCHANGED <<inputVars, turn, abortedBy, callVars, recordVars, sent, stops>>

(***************************************************************************)
(* Dispatch, and the wait for results.                                     *)
(***************************************************************************)
initialResults_forgotten(failed) == {}
initialResults(failed) == failed

(* A call that cannot be started has its result at once.                   *)
dispatchCoordination(failed) ==
    /\ pc = "dispatching"
    /\ failed \subseteq outcome.calls
    /\ pending' = outcome.calls
    /\ results' = initialResults(failed)
    /\ handles' = handles \cup (outcome.calls \ failed)
    /\ children' = children \cup (outcome.calls \ failed)
    /\ pc' = "waiting"
    /\ UNCHANGED <<inputVars, turn, signalVars, outcome, events, recordVars, sent, muted, stops>>

ready == pending \subseteq results

(* The steering signal is not reset here.                                  *)
resume ==
    /\ pc = "waiting"
    /\ ready
    /\ takeSteering
    /\ pc' = "generating"
    /\ pending' = {} /\ results' = {}
    /\ handles' = handles \ pending
    /\ UNCHANGED <<inbox, draining, turn, steered, outcome, events, children, history, sent,
                   muted, stops>>

noticesAbort_never == FALSE
noticesAbort == aborted

abandonWait ==
    /\ pc = "waiting"
    /\ ~ready
    /\ noticesAbort
    /\ pc' = "cancelling"
    /\ UNCHANGED <<inputVars, turn, signalVars, callVars, recordVars, sent, muted, stops>>

(* Results of calls that are not recorded as running are ignored.          *)
takeEvent ==
    /\ pc = "waiting"
    /\ ~ready /\ ~noticesAbort
    /\ events # <<>>
    /\ events' = Tail(events)
    /\ results' = results \cup ({Head(events)} \cap handles)
    /\ UNCHANGED <<inputVars, pc, turn, signalVars, outcome, pending, handles, children,
                   recordVars, sent, muted, stops>>

readWaiting ==
    /\ pc = "waiting"
    /\ ~ready /\ ~noticesAbort
    /\ events = <<>>
    /\ inbox # <<>>
    /\ inbox' = Tail(inbox)
    /\ admit(Head(inbox))
    /\ pc' = "routing"
    /\ UNCHANGED <<draining, turn, steered, outcome, pending, results, handles, children,
                   recordVars, sent, muted, stops>>

(* routeAdmittedToChildren, one delivery at a time.  A stop ends the round *)
(* and drops nothing but itself.                                           *)
ForChildren(d) == d \in Questions \/ (d \in Answers /\ question[d] \in asking)
Unrouted == Only(queue, {d \in admitted : ForChildren(d)})

routeToChild ==
    LET d == Head(Unrouted)
    IN  /\ pc = "routing"
        /\ Unrouted # <<>>
        /\ queue' = Without(queue, {d})
        /\ admitted' = admitted \ {d}
        /\ asking' = IF d \in Questions THEN asking \cup {d} ELSE asking \ {question[d]}
        /\ answered' = answered \cup ({d} \cap Answers)
        /\ IF d \in Stops THEN pc' = "waiting" /\ abortedBy' = abort(d)
           ELSE UNCHANGED <<pc, abortedBy>>
        /\ UNCHANGED <<inbox, draining, turn, steered, callVars, stepInput, history, dropped,
                       sent, muted, stops>>

routed ==
    /\ pc = "routing"
    /\ Unrouted = <<>>
    /\ pc' = "waiting"
    /\ UNCHANGED <<inputVars, turn, signalVars, callVars, recordVars, sent, muted, stops>>

(***************************************************************************)
(* finishCancelledTurn and settleCancelledTurn.  Children are told, but    *)
(* may report all the same.                                                *)
(***************************************************************************)
abandonedHandles_kept == handles
abandonedHandles == {}

settleCancelledTurn ==
    /\ pc = "cancelling"
    /\ pc' = "parked"
    /\ pending' = {} /\ results' = {} /\ handles' = abandonedHandles
    /\ asking' = {}
    /\ admitted' = {}
    /\ events' = <<>>
    /\ stops' = stops \cup {<<p, turn>> : p \in abortedBy}
    /\ UNCHANGED <<inbox, draining, queue, turn, signalVars, outcome, children, stepInput,
                   history, answered, dropped, sent, muted>>

(***************************************************************************)
(* The specification.                                                      *)
(***************************************************************************)
Init ==
    /\ inbox = <<>> /\ draining = <<>> /\ queue = <<>>
    /\ admitted = {}
    /\ pc = "parked" /\ turn = 0
    /\ abortedBy = {} /\ steered = FALSE
    /\ outcome = [kind |-> "parked"]
    /\ pending = {} /\ results = {} /\ handles = {} /\ children = {}
    /\ events = <<>>
    /\ stepInput = <<>>
    /\ asking = {}
    /\ sent = <<>> /\ history = <<>>
    /\ answered = {} /\ dropped = {} /\ muted = {} /\ stops = {}

ownerStep ==
    \/ takeNext \/ takeReset \/ readParked
    \/ startsOutput \/ (\E result \in StepReturns : turnStep(result))
    \/ admitBoundary \/ admitDrained
    \/ cancelTurn \/ parkTurn \/ continueTurn \/ beginDispatch
    \/ (\E failed \in SUBSET Calls : dispatchCoordination(failed))
    \/ resume \/ abandonWait \/ takeEvent \/ readWaiting \/ routeToChild \/ routed
    \/ settleCancelledTurn

Next ==
    \/ \E p \in Commands : send(p)
    \/ \E c \in Calls : report(c)
    \/ ownerStep

Spec == Init /\ [][Next]_vars

(* The owner's workflow runs until its steps complete; clients and         *)
(* children owe it nothing.                                                *)
FairSpec == Spec /\ WF_vars(ownerStep)

(***************************************************************************)
(* Properties.                                                             *)
(***************************************************************************)
TypeOK ==
    /\ inbox \in Seq(Payloads) /\ draining \in Seq(Payloads)
    /\ queue \in Seq(Deliveries \cup Questions \cup Resets)
    /\ admitted \subseteq Deliveries \cup Questions
    /\ pc \in Active \cup {"parked", "ended"}
    /\ turn \in Nat
    /\ abortedBy \subseteq Cancels \cup Resets \cup Stops
    /\ steered \in BOOLEAN
    /\ outcome \in Results
    /\ pending \subseteq Calls /\ results \subseteq Calls
    /\ events \in Seq(Calls)
    /\ handles \subseteq Calls /\ children \subseteq Calls
    /\ stepInput \in Seq(Deliveries)
    /\ asking \subseteq Questions
    /\ sent \in Seq(Commands) /\ history \in Seq(Messages)
    /\ answered \subseteq Answers /\ dropped \subseteq Deliveries
    /\ muted \subseteq Steers
    /\ stops \subseteq (Cancels \cup Resets \cup Stops) \X Nat

(* A message that was accepted is in exactly one place, once: unread, at   *)
(* the boundary, in the queue, in the input of a step, or in durable       *)
(* history; or it was given up with a stop it was combined with.  Steps    *)
(* that are cancelled or interrupted, boundaries and routing all move it.  *)
Places(m) ==
    {<<"inbox", i>> : i \in {i \in DOMAIN inbox : inbox[i] = m}}
    \cup {<<"draining", i>> : i \in {i \in DOMAIN draining : draining[i] = m}}
    \cup {<<"queue", i>> : i \in {i \in DOMAIN queue : queue[i] = m}}
    \cup {<<"step", i>> : i \in {i \in DOMAIN stepInput : stepInput[i] = m}}
    \cup {<<"history", i>> : i \in {i \in DOMAIN history : history[i] = m}}
    \cup {<<"dropped", 0>> : d \in dropped \cap {m}}
MessagesKept ==
    \A m \in Messages : Cardinality(Places(m)) = IF m \in Members(sent) THEN 1 ELSE 0

(* No generation sleeps through a correction: while one runs that can      *)
(* still be interrupted, no steering message is unread without the signal, *)
(* unless it arrived while a request was open.  The signal is replaced at  *)
(* every boundary, and messages arrive while the boundary admits others.   *)
NoSleptSteering ==
    pc = "generating" /\ ~aborted /\ asking = {} /\ (Unread \cap Steers) \ muted # {} => steered

(* A cancelled turn leaves no call on record behind: the next turn has to  *)
(* ignore what its children still report, and does so by the record.       *)
NoHandleOutlivesItsTurn ==
    pc \in {"parked", "ended"} \cup InStep => handles = {}

(* A cancel that names a turn stops no other, however late it is read: it  *)
(* may be pumped in one turn and admitted in the next.                     *)
NamedCancelStopsItsTurn ==
    \A s \in stops : s[1] \in Cancels /\ turnId[s[1]] # AnyTurn => s[2] = turnId[s[1]]

(* A cancel or reset that reaches a turn it is meant for ends the turn,    *)
(* in whatever phase it arrives and whatever the children do: none of them *)
(* needs to report.                                                        *)
CancelEndsItsTurn ==
    \A c \in Cancels \cup Resets :
        (pc \in Active /\ cancelsThisTurn(c) /\ c \in Unread \cup Members(draining))
            ~> pc \notin Active

(* A turn does not wait for children that have all reported, or that were  *)
(* never started.                                                          *)
WaitsEnd ==
    (pc = "waiting" /\ children \cap pending = {}) ~> pc \notin {"waiting", "routing"}

(* "POST to the session's cancel endpoint to stop the turn that is         *)
(* currently running" (docs/concepts/sessions-runs-and-streaming.md:223).  *)
(* One command stops one turn.                                             *)
CancelStopsOneTurn ==
    \A s, t \in stops : s[1] = t[1] => s[2] = t[2]
=============================================================================
