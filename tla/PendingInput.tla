---------------------------- MODULE PendingInput ----------------------------
(* What a session of the harness does with the input it waits for: the     *)
(* batches of requests its model calls left open (tool approvals,          *)
(* questions, the prompt of a session limit), the answers and messages     *)
(* that arrive while they are open, and the steps that coordinate,         *)
(* authorize, resolve and defer them before each model call.               *)
(* (src/packages/eve/src/harness: tool-loop.ts, input-requests.ts, hitl/,  *)
(* approval-delivery-coordinator.ts, approval-candidates.ts)               *)
EXTENDS Naturals, FiniteSets, SequencesExt

CONSTANTS
    Requests,      \* ids of the requests a session can make
    KindOf,        \* "approval", "question" or "limit", per request
    Guarded,       \* approvals of tools that have a response policy
    Freeform,      \* questions that take any text as their answer
    Batches,       \* assistant responses that park on requests
    Asks,          \* the requests of each batch
    LimitBatch,    \* the batch of the session-limit prompt
    Texts,         \* messages of the users
    Says,          \* the option a text names ("yes", "no"), or "prose"
    Responders,    \* authenticated callers
    Anonymous,     \* a caller without identity
    Replies,       \* what one delivery has for a request: the answers of the
                   \* messages that were queued together, in their order
    None,          \* no step input, nothing deferred
    Modes,         \* session modes: "conversation", "task"
    Context,       \* what the agent adds when a turn starts: "memory" it
                   \* recalls, dynamic "instructions"
    Overdraws,     \* whether a model call can use up the token budget
    MaxDeliveries, \* bound on deliveries and callbacks
    MaxParts,      \* bound on the answers and messages of one delivery
    MaxRounds,     \* bound on model calls that end in tool results
    MaxInterruptions \* bound on cancelled turns and failed calls

Kinds == {"approval", "question", "limit"}
Options == {"yes", "no"}     \* approve/cancel, an answer, continue/stop

ASSUME RequestsAssumption ==
    /\ KindOf \in [Requests -> Kinds]
    /\ Guarded \subseteq {r \in Requests : KindOf[r] = "approval"}
    /\ Freeform \subseteq {r \in Requests : KindOf[r] = "question"}
ASSUME BatchesAssumption ==
    /\ Asks \in [Batches -> SUBSET Requests]
    /\ LimitBatch \in Batches
    /\ \A b \in Batches : \A r \in Asks[b] : (KindOf[r] = "limit") <=> (b = LimitBatch)
    /\ \A b, c \in Batches : b # c => Asks[b] \cap Asks[c] = {}
ASSUME CallersAssumption == Anonymous \notin Responders
ASSUME TextsAssumption ==
    /\ Says \in [Texts -> Options \cup {"prose"}]
    /\ Texts \cap Requests = {}
ASSUME InputAssumption ==
    None \notin [responses : [Requests -> Seq(Options)], message : SUBSET (Texts \cup Requests)]
ASSUME RepliesAssumption == Replies \subseteq Seq(Options) \ {<<>>}
ASSUME ModesAssumption == Modes \subseteq {"conversation", "task"}
ASSUME ContextAssumption == Context \subseteq {"memory", "instructions"}
ASSUME BoundsAssumption ==
    /\ Overdraws \subseteq BOOLEAN /\ Overdraws # {}
    /\ {MaxDeliveries, MaxParts, MaxRounds, MaxInterruptions} \subseteq Nat

VARIABLES
    mode,          \* the session's mode
    session,       \* the harness session: see SessionType
    pc,            \* "idle" while it waits for input, "ended" when it is
                   \* over, else the stage of the step
    input,         \* the step's input, None when it has none
    caller,        \* who the last delivery came from
    callbacks,     \* candidates whose sign-in callback arrived
    prompt,        \* what the model is called with since its last response
    saved,         \* what the running step started from and retries with
    unsent,        \* texts not delivered yet
    deliveries, rounds, interruptions     \* counters of the bounds

vars == <<mode, session, pc, input, caller, callbacks, prompt, saved,
          unsent, deliveries, rounds, interruptions>>
bounded == <<mode, unsent, deliveries, rounds, interruptions>>

Candidate == Requests \X Responders
StepInputs == [responses : [Requests -> Seq(Options)], message : SUBSET (Texts \cup Requests)]
Item(kind, of) == [kind |-> kind, of |-> of]
Items == [kind : {"approval", "question", "message", "results", "context"},
          of : SUBSET (Requests \cup Texts)]
SessionType ==
    [batches : SUBSET Batches,      \* the open batches
     asked : Seq(Batches),          \* the batches made so far, in their order
     deferred : StepInputs \cup {None},
     allowed : SUBSET Requests,     \* settlements, by outcome
     cancelled : SUBSET Requests,
     pending : SUBSET Candidate,    \* candidates to authorize
     required : SUBSET Candidate,   \* candidates that wait for a sign-in
     announced : SUBSET Candidate,  \* challenges given to the users
     unread : Seq(Items),           \* history since the last model response
     exhausted : BOOLEAN,           \* the token budget is used up
     inTurn : BOOLEAN,              \* a turn was started and not finished
     ran : SUBSET Requests,         \* approved calls that were executed
     read : SUBSET (Texts \cup Requests),      \* texts the model was given
     failed : SUBSET (Texts \cup Requests),    \* texts of calls that failed
     answered : SUBSET Requests]    \* requests somebody answered
Starts == [session : SessionType, input : StepInputs \cup {None}, resumed : SUBSET Candidate,
           caller : Responders \cup {Anonymous}, callbacks : SUBSET Candidate]
ASSUME StartsAssumption == None \notin Starts

-----------------------------------------------------------------------------
(* Step input and batches *)

NoAnswers == [r \in Requests |-> <<>>]
EmptyInput == [responses |-> NoAnswers, message |-> {}]
AnsweredBy(in) == IF in = None THEN {} ELSE {r \in Requests : in.responses[r] # <<>>}

Coalesce(a, b) ==
    [responses |-> [r \in Requests |-> a.responses[r] \o b.responses[r]],
     message |-> a.message \cup b.message]

Queue(s, in) == [s EXCEPT !.deferred = IF @ = None THEN in ELSE Coalesce(@, in)]

Only(in, rs) ==
    [in EXCEPT !.responses = [r \in Requests |-> IF r \in rs THEN @[r] ELSE <<>>]]

RemoveResponses_none(in, rs) == in    \* mutant
RemoveResponses(in, rs) == IF in = None THEN None ELSE Only(in, Requests \ rs)

OpenRequests(s) == UNION {Asks[b] : b \in s.batches}
Settled(s) == s.allowed \cup s.cancelled
ApprovalsOf(b) == {r \in Asks[b] : KindOf[r] = "approval"}
IsApprovalBatch(b) == ApprovalsOf(b) # {}
ApprovalOpen(s) == \E b \in s.batches : IsApprovalBatch(b)
LimitOpen(s) == LimitBatch \in s.batches

Close(s, bs) == [s EXCEPT !.batches = @ \ bs]
OpenBatch(s, b) == [s EXCEPT !.batches = @ \cup {b},
                             !.asked = IF b \in ToSet(@) THEN @ ELSE Append(@, b)]
Before(s, b, c) == \E i, j \in DOMAIN s.asked : i < j /\ s.asked[i] = b /\ s.asked[j] = c

(* An answer to a request that is not open becomes text; one to a limit    *)
(* prompt that is gone is dropped.                                         *)
DropStale(in, s) ==
    IF in = None THEN None
    ELSE LET stale == {r \in AnsweredBy(in) \ OpenRequests(s) : KindOf[r] # "limit"}
         IN  [Only(in, OpenRequests(s)) EXCEPT !.message = @ \cup stale]

-----------------------------------------------------------------------------
(* Deliveries and the start of a step *)

AnswersTo(rs) ==
    UNION {{[r \in Requests |-> IF r \in R THEN f[r] ELSE <<>>] :
                f \in [R -> Replies]} :
           R \in {S \in SUBSET rs : Cardinality(S) <= MaxParts}}

(* What a step starts from: a retry runs again with the session, the input *)
(* and the resumed callbacks, a cancellation goes back to the caller and   *)
(* the callbacks of before.                                                *)
StartOf(s, in, resumed) ==
    [session |-> s, input |-> in, resumed |-> resumed, caller |-> caller, callbacks |-> callbacks]

Start == IF saved = None THEN StartOf(session, input, callbacks) ELSE saved

Deliver(who, answers, text) ==
    /\ pc = "idle" /\ deliveries < MaxDeliveries
    /\ LET delivered == [responses |-> answers, message |-> text]
       IN  /\ Cardinality(AnsweredBy(delivered)) + Cardinality(text) \in 1 .. MaxParts
           /\ input' = delivered
    /\ caller' = who
    /\ unsent' = unsent \ text
    /\ deliveries' = deliveries + 1
    /\ saved' = StartOf(session, input', callbacks)
    /\ pc' = "step"
    /\ UNCHANGED <<mode, session, callbacks, prompt, rounds, interruptions>>

(* What the agent puts into the history when a turn starts: the memory it  *)
(* recalls and the instructions that are resolved then, either of which    *)
(* may be nothing.                                                         *)
Added(kind) == {<<>>} \cup (IF kind \in Context THEN {<<Item("context", {})>>} ELSE {})
Preamble(s) ==
    IF s.inTurn THEN {<<>>}
    ELSE {recalled \o instructed : recalled \in Added("memory"),
                                   instructed \in Added("instructions")}

(* The callback of an announced sign-in: it is matched and cleared before  *)
(* the step runs, it starts a turn, and the step has no other input.       *)
CallBack(c) ==
    /\ pc = "idle" /\ deliveries < MaxDeliveries
    /\ c \in session.announced
    /\ LET cleared == [session EXCEPT !.announced = @ \ {c}]
       IN  /\ \E added \in Preamble(session) :
                 session' = [cleared EXCEPT !.unread = @ \o added, !.inTurn = TRUE]
           /\ saved' = StartOf(cleared, None, {c})
    /\ callbacks' = {c}
    /\ deliveries' = deliveries + 1
    /\ pc' = "step"
    /\ UNCHANGED <<mode, input, caller, prompt, unsent, rounds, interruptions>>

BeginStep ==
    /\ pc = "step"
    /\ LET hold == mode = "task" /\ input # None /\ ApprovalOpen(session)
           taken == IF session.deferred = None \/ hold THEN input
                    ELSE IF input = None THEN session.deferred
                    ELSE Coalesce(session.deferred, input)
           in == DropStale(taken, session)
       IN  /\ input' = in
           /\ session' = [session EXCEPT
                 !.deferred = IF hold THEN @ ELSE None,
                 !.answered = @ \cup AnsweredBy(in)]
    /\ saved' = Start
    /\ pc' = "coordinate"
    /\ UNCHANGED <<bounded, caller, callbacks, prompt>>

-----------------------------------------------------------------------------
(* Coordination of approvals: one durable phase per pass *)

Expire(s, cs) == [s EXCEPT !.pending = @ \ cs, !.required = @ \ cs, !.announced = @ \ cs]

(* Settling a request takes all of its candidates off the table. *)
Settle(s, allowed, cancelled) ==
    LET live(cs) == {c \in cs : c[1] \notin allowed \cup cancelled}
    IN  [s EXCEPT !.allowed = @ \cup allowed, !.cancelled = @ \cup cancelled,
                  !.pending = live(@), !.required = live(@)]

(* The answers of an authenticated caller settle an approval, the first    *)
(* one counts; approving a guarded call only creates a candidate, at most  *)
(* one per responder.                                                      *)
TakeResponses(s, in) ==
    LET named == {r \in AnsweredBy(in) \cap OpenRequests(s) : KindOf[r] = "approval"}
        says(r, o) == o \in ToSet(in.responses[r])
        plain(o) == {r \in named \ Guarded : Head(in.responses[r]) = o}
        candidates == {<<r, caller>> : r \in {q \in named \cap Guarded : says(q, "yes")}}
    IN  IF caller = Anonymous THEN s
        ELSE Settle([s EXCEPT !.pending = @ \cup (candidates \ s.required)],
                    plain("yes"),
                    plain("no") \cup {r \in named \cap Guarded : says(r, "no")})

Park(s) ==
    /\ session' = s /\ input' = None /\ saved' = None /\ prompt' = <<>> /\ pc' = "idle"

End == /\ input' = None /\ saved' = None /\ prompt' = <<>> /\ pc' = "ended"
       /\ UNCHANGED session

ContinueCoordination_parks(s, in) ==    \* mutant
    Park(IF in = None THEN s ELSE Queue(s, in))

(* The next step of the same turn continues with the remaining input. *)
ContinueCoordination(s, in) ==
    /\ session' = IF in = None THEN s ELSE Queue(s, in)
    /\ input' = None /\ saved' = None /\ pc' = "step"
    /\ UNCHANGED prompt

Proceed(s, in) ==
    /\ session' = s /\ input' = in /\ pc' = "resolve"
    /\ UNCHANGED <<prompt, saved>>

AppendSettled_outcome(in, rs, s) ==    \* mutant
    [IF in = None THEN EmptyInput ELSE in EXCEPT !.responses =
        [r \in Requests |->
            IF r \in rs THEN Append(@[r], IF r \in s.allowed THEN "allowed" ELSE "cancelled")
            ELSE @[r]]]

AppendSettled(in, rs, s) ==
    IF rs = {} THEN in
    ELSE LET base == IF in = None THEN EmptyInput ELSE in
         IN  [base EXCEPT !.responses =
                 [r \in Requests |->
                     IF r \in rs
                     THEN Append(@[r], IF r \in s.allowed THEN "yes" ELSE "no")
                     ELSE @[r]]]

CoordinateResponses(expired) ==
    LET s == Expire(session, expired)
        in == RemoveResponses(input, Settled(s))
        consumed == AnsweredBy(in) \cap OpenRequests(s) \cap Guarded
        taken == TakeResponses(s, in)
        remaining == RemoveResponses(in, consumed)
    IN  /\ pc = "coordinate" /\ session.batches # {}
        /\ consumed # {} \/ taken # s
        /\ IF consumed # {} /\ taken # s
           THEN ContinueCoordination(taken, remaining)
           ELSE Proceed(taken, remaining)
        /\ UNCHANGED <<bounded, caller, callbacks>>

(* No answer to take: run the policies of the pending candidates and of    *)
(* those whose sign-in returned.  Each allows, rejects (or fails), or asks *)
(* for a sign-in.                                                          *)
AuthorizeCandidates(expired) ==
    LET s == Expire(session, expired)
        in == RemoveResponses(input, Settled(s))
        due == {c \in s.pending \cup (s.required \cap callbacks) : c[1] \in OpenRequests(s)}
        quiet == /\ AnsweredBy(in) \cap OpenRequests(s) \cap Guarded = {}
                 /\ TakeResponses(s, in) = s
    IN  /\ pc = "coordinate" /\ session.batches # {} /\ quiet
        /\ callbacks' = callbacks \ due
        /\ \E verdict \in [due -> {"allowed", "rejected", "challenged"}] :
             LET with(v) == {c \in due : verdict[c] = v}
                 t == Settle([s EXCEPT !.pending = @ \ due,
                                       !.required = (@ \ due) \cup with("challenged")],
                             {c[1] : c \in with("allowed")}, {})
                 settled == Settled(t) \cap OpenRequests(t)
                 resumed == AppendSettled(in, settled, t)
                 unannounced == t.required \ t.announced
             IN  IF settled # {} THEN Proceed(t, resumed)
                 ELSE IF due # {} THEN ContinueCoordination(t, resumed)
                 ELSE IF unannounced # {}
                 THEN Park([(IF resumed = None THEN t ELSE Queue(t, resumed))
                              EXCEPT !.announced = @ \cup unannounced])
                 ELSE Proceed(t, resumed)
        /\ UNCHANGED <<bounded, caller>>

NothingToCoordinate(expired) ==
    /\ pc = "coordinate" /\ session.batches = {}
    /\ Proceed(Expire(session, expired), RemoveResponses(input, Settled(session)))
    /\ UNCHANGED <<bounded, caller, callbacks>>

-----------------------------------------------------------------------------
(* Resolution of the batches that are open *)

(* What a message says to one request: the option it names, or, for a      *)
(* freeform question, itself.  Coalesced messages name no option.          *)
Heard(message, r) ==
    IF r \in Freeform THEN "yes"
    ELSE IF \E t \in Texts : message = {t} /\ Says[t] \in Options
         THEN CHOOSE o \in Options : \E t \in message : Says[t] = o
    ELSE "nothing"

(* A message answers the limit prompt, or else the only open batch, unless *)
(* the input already answers that batch.                                   *)
StepInput ==
    LET target == IF LimitOpen(session) THEN {LimitBatch}
                  ELSE IF Cardinality(session.batches) = 1 THEN session.batches ELSE {}
        asks == UNION {Asks[b] : b \in target}
        matched == {r \in asks \ Guarded : Heard(input.message, r) # "nothing"}
    IN  IF input = None THEN EmptyInput
        ELSE IF \/ input.message = {} \/ matched = {}
                \/ AnsweredBy(input) \cap asks # {}
        THEN input
        ELSE [responses |-> [r \in Requests |->
                                IF r \in matched THEN <<Heard(input.message, r)>>
                                ELSE input.responses[r]],
              message |-> {}]

Decided == AnsweredBy(StepInput)
Decision(r) == Last(StepInput.responses[r])      \* the last answer counts
Said == StepInput.message # {}

(* A batch with approvals needs all of them decided, one with questions    *)
(* only, any.                                                              *)
Answered(b) == IF IsApprovalBatch(b) THEN ApprovalsOf(b) \subseteq Decided
               ELSE Asks[b] \cap Decided # {}

(* The answered batches, up to the first one with approvals. *)
Resolvable ==
    LET answered == {b \in session.batches : Answered(b)}
    IN  {b \in answered : \A a \in answered : IsApprovalBatch(a) => ~Before(session, a, b)}

Transcript(kind, bs) ==
    IF bs = {} THEN <<>>
    ELSE <<Item(kind, {r \in (UNION {Asks[b] : b \in bs}) \cap Decided :
                         KindOf[r] = kind /\ (kind = "approval" => Decision(r) = "yes")})>>

IsApproval(item) == item.kind = "approval"
HasTailApproval_never(items) == FALSE    \* mutant
HasTailApproval(items) == items # <<>> /\ IsApproval(Last(items))
MessageItems(message) ==
    IF message = {} THEN <<>> ELSE <<Item("message", message)>>

(* A message that was matched as an answer does not go to the model. *)
Heed(s) == [s EXCEPT !.read = @ \cup (IF input = None \/ Said THEN {} ELSE input.message)]

(* Input that is not deferred from an earlier step starts a turn, unless   *)
(* one is open.  What the turn adds is kept in the history: after the      *)
(* resolved items when memory was recalled for them, else before them.     *)
(* The resolved items and the message are kept once the model answered.    *)
CallModel(s, items, message) ==
    /\ \E added \in IF saved.input = None THEN {<<>>} ELSE Preamble(s) :
         LET commits == saved.input # None /\ ~s.inTurn /\ "memory" \in Context
             kept == s.unread \o (IF commits THEN items \o added ELSE added)
         IN  /\ session' = [Heed(s) EXCEPT !.unread = kept,
                                           !.inTurn = @ \/ saved.input # None]
             /\ prompt' = kept \o (IF commits THEN <<>> ELSE items) \o MessageItems(message)
    /\ pc' = "model"
    /\ input' = None
    /\ UNCHANGED <<bounded, saved, caller, callbacks>>

Unresolved_continues(s) ==    \* mutant
    /\ session' = Heed(s) /\ input' = None /\ saved' = None /\ prompt' = <<>>
    /\ pc' = IF s.deferred = None THEN "idle" ELSE "step"
    /\ UNCHANGED <<bounded, caller, callbacks>>

Unresolved(s) == Park(Heed(s)) /\ UNCHANGED <<bounded, caller, callbacks>>

FinishResolved_forgets(s, bs, items, defer) ==    \* mutant
    CallModel(IF defer /\ Said
              THEN Queue(Close(s, bs), [EmptyInput EXCEPT !.message = StepInput.message])
              ELSE Close(s, bs),
              items, IF defer THEN {} ELSE StepInput.message)

(* The batches bs are resolved: answers of the others, and turn input that *)
(* would hide an approval response from the model, are deferred.           *)
FinishResolved(s, bs, items, defer) ==
    LET rest == Close(s, bs)
        leftover == Only(StepInput, OpenRequests(rest))
        deferred == IF defer THEN leftover ELSE [leftover EXCEPT !.message = {}]
    IN  CallModel(IF deferred = EmptyInput THEN rest ELSE Queue(rest, deferred),
                  items, IF defer THEN {} ELSE StepInput.message)

TaskDefers ==
    /\ mode = "task" /\ ~LimitOpen(session) /\ Said
    /\ ApprovalOpen(session)
    /\ \A b \in session.batches : IsApprovalBatch(b) => ~Answered(b)

Resolving == pc = "resolve" /\ session.batches # {} /\ ~TaskDefers
Addressed == Resolving /\ (Said \/ Decided # {})

NothingOpen ==
    /\ pc = "resolve" /\ session.batches = {}
    /\ CallModel(session, <<>>, StepInput.message)

DeferWhole ==
    /\ pc = "resolve" /\ TaskDefers
    /\ Unresolved(Queue(session, StepInput))

NothingSaid ==
    /\ Resolving /\ ~Said /\ Decided = {}
    /\ Unresolved(session)

LimitUnanswered ==
    /\ Addressed /\ LimitOpen(session)
    /\ ~Answered(LimitBatch)
    /\ IF mode = "conversation" /\ Said /\ saved.input # None
       THEN \E added \in Preamble(session) :
                Unresolved([Queue(session, StepInput) EXCEPT !.unread = @ \o added,
                                                             !.inTurn = FALSE])
       ELSE Unresolved(Queue(session, StepInput))

LimitGranted ==
    /\ Addressed /\ LimitOpen(session) /\ Answered(LimitBatch)
    /\ \A r \in Asks[LimitBatch] : Decision(r) = "yes"
    /\ FinishResolved([session EXCEPT !.exhausted = FALSE], {LimitBatch}, <<>>,
                      HasTailApproval(session.unread))

ResolveBatches ==
    /\ Addressed /\ ~LimitOpen(session)
    /\ Resolvable # {}
    /\ LET approvals == {b \in Resolvable : IsApprovalBatch(b)}
       IN  FinishResolved(session, Resolvable,
                          Transcript("question", Resolvable \ approvals)
                              \o Transcript("approval", approvals),
                          approvals # {} \/ HasTailApproval(session.unread))

HoldAnswers ==
    /\ Addressed /\ ~LimitOpen(session)
    /\ Resolvable = {} /\ ~Said
    /\ Unresolved(Queue(session, StepInput))

(* One open batch of questions is dismissed by a message that answers none *)
(* of them.                                                                *)
DismissQuestion ==
    /\ Addressed /\ ~LimitOpen(session)
    /\ Resolvable = {} /\ Said
    /\ Cardinality(session.batches) = 1 /\ ~ApprovalOpen(session)
    /\ CallModel(Close(session, session.batches), <<Item("question", {})>>, StepInput.message)

PassBy ==
    /\ Addressed /\ ~LimitOpen(session)
    /\ Resolvable = {} /\ Said
    /\ Cardinality(session.batches) # 1 \/ ApprovalOpen(session)
    /\ CallModel(IF Decided = {} THEN session
                 ELSE Queue(session, [StepInput EXCEPT !.message = {}]),
                 <<>>, StepInput.message)

-----------------------------------------------------------------------------
(* The model call *)

(* The turn of a conversation is over when it waits for its user. *)
FinishTurn(s) == [s EXCEPT !.inTurn = @ /\ mode = "task"]

(* Over budget, no call is made: the session parks on the limit prompt and *)
(* keeps what the call would have been given.                              *)
ParkOnLimit ==
    /\ pc = "model" /\ session.exhausted
    /\ Park([FinishTurn(OpenBatch(session, LimitBatch))
                EXCEPT !.unread = prompt, !.answered = @ \ Asks[LimitBatch]])
    /\ UNCHANGED <<bounded, caller, callbacks>>

Given(items) == UNION {i.of : i \in {j \in ToSet(items) : j.kind = "message"}}

(* The model sees the prompt; an approval response at its tail makes the   *)
(* SDK execute the approved calls first.                                   *)
Called(overdrawn) ==
    [session EXCEPT !.unread = <<>>,
        !.exhausted = overdrawn,
        !.ran = @ \cup (IF HasTailApproval(prompt) THEN Last(prompt).of ELSE {}),
        !.read = @ \cup Given(prompt)]

NextStep(s) == /\ session' = s /\ saved' = None /\ prompt' = <<>> /\ pc' = "step"
               /\ UNCHANGED <<mode, unsent, deliveries, input, caller, callbacks, interruptions>>

ModelAsks(b) ==
    /\ pc = "model" /\ ~session.exhausted
    /\ b \notin ToSet(session.asked) \cup {LimitBatch}
    /\ \E overdrawn \in Overdraws :
         LET s == FinishTurn(OpenBatch(Called(overdrawn), b))
         IN  IF s.deferred # None THEN NextStep(s) /\ UNCHANGED rounds
             ELSE Park(s) /\ UNCHANGED <<bounded, caller, callbacks>>

ModelCallsTools ==
    /\ pc = "model" /\ ~session.exhausted
    /\ rounds < MaxRounds /\ rounds' = rounds + 1
    /\ \E overdrawn \in Overdraws :
         NextStep([Called(overdrawn) EXCEPT !.unread = <<Item("results", {})>>])

(* Nothing is left to call the model for: the turn ends.  A task is done,  *)
(* or defers its result while work of its own is running.                  *)
ModelReplies ==
    /\ pc = "model" /\ ~session.exhausted
    /\ \E overdrawn \in Overdraws :
         IF session.deferred # None THEN NextStep(Called(overdrawn)) /\ UNCHANGED rounds
         ELSE /\ \/ Park([Called(overdrawn) EXCEPT !.inTurn = FALSE])
                 \/ mode = "task" /\ End
              /\ UNCHANGED <<bounded, caller, callbacks>>

(* A call, or a handler of its events, that fails recoverably parks a      *)
(* conversation with the session it was made with: of what the prompt      *)
(* added, the history has the context alone, and the resolved items if     *)
(* they were committed with it.  Its message is the users' to send again.  *)
ModelFails ==
    /\ pc = "model" /\ mode = "conversation"
    /\ interruptions < MaxInterruptions /\ interruptions' = interruptions + 1
    /\ Park([session EXCEPT !.inTurn = FALSE, !.failed = @ \cup Given(prompt)])
    /\ UNCHANGED <<mode, unsent, deliveries, rounds, caller, callbacks>>

(* The failed step of a task is run again from where it started. *)
TaskRetries ==
    /\ pc = "model" /\ mode = "task" /\ ~session.exhausted
    /\ interruptions < MaxInterruptions /\ interruptions' = interruptions + 1
    /\ session' = saved.session /\ input' = saved.input /\ callbacks' = saved.resumed
    /\ prompt' = <<>> /\ pc' = "step"
    /\ UNCHANGED <<mode, unsent, deliveries, rounds, caller, saved>>

(* A failure no retry can help ends the session, in either mode. *)
ModelEnds ==
    /\ pc = "model" /\ ~session.exhausted
    /\ interruptions < MaxInterruptions /\ interruptions' = interruptions + 1
    /\ End
    /\ UNCHANGED <<mode, unsent, deliveries, rounds, caller, callbacks>>

-----------------------------------------------------------------------------
(* Cancellation: the turn settles with the session and the context of      *)
(* before its step, the message of the delivery and no limit prompt.       *)
Rollback_silent(s, in) == Close(s, {LimitBatch})    \* mutant
Rollback(s, in) ==
    Close([s EXCEPT !.unread = @ \o (IF in = None THEN <<>> ELSE MessageItems(in.message)),
                    !.inTurn = FALSE],
          {LimitBatch})

CutOff ==
    /\ Park(Rollback(Start.session, Start.input))
    /\ interruptions' = interruptions + 1
    /\ caller' = Start.caller /\ callbacks' = Start.callbacks
    /\ UNCHANGED <<mode, unsent, deliveries, rounds>>

Cancel ==
    /\ pc \notin {"idle", "ended"}
    /\ interruptions < MaxInterruptions
    /\ CutOff

(* Declining the limit prompt cancels the turn that took the answer. *)
LimitDeclined ==
    /\ Addressed /\ LimitOpen(session) /\ Answered(LimitBatch)
    /\ \E r \in Asks[LimitBatch] : Decision(r) # "yes"
    /\ CutOff

-----------------------------------------------------------------------------

Init ==
    /\ mode \in Modes
    /\ session = [batches |-> {}, asked |-> <<>>, deferred |-> None,
                  allowed |-> {}, cancelled |-> {},
                  pending |-> {}, required |-> {}, announced |-> {},
                  unread |-> <<>>, exhausted |-> FALSE, inTurn |-> FALSE,
                  ran |-> {}, read |-> {}, failed |-> {}, answered |-> {}]
    /\ pc = "idle"
    /\ input = None
    /\ caller = Anonymous
    /\ callbacks = {}
    /\ prompt = <<>>
    /\ saved = None
    /\ unsent = Texts
    /\ deliveries = 0 /\ rounds = 0 /\ interruptions = 0

Deliveries ==
    \E who \in Responders \cup {Anonymous},
       answers \in AnswersTo(UNION {Asks[b] : b \in ToSet(session.asked)}),
       text \in {{}} \cup {{t} : t \in unsent} : Deliver(who, answers, text)

Coordinate ==
    \E expired \in SUBSET (session.pending \cup session.required) :
        \/ CoordinateResponses(expired)
        \/ AuthorizeCandidates(expired)
        \/ NothingToCoordinate(expired)

Resolve ==
    \/ NothingOpen \/ DeferWhole \/ NothingSaid
    \/ LimitUnanswered \/ LimitGranted \/ LimitDeclined
    \/ ResolveBatches \/ HoldAnswers \/ DismissQuestion \/ PassBy

Model ==
    \/ ParkOnLimit \/ (\E b \in Batches : ModelAsks(b))
    \/ ModelCallsTools \/ ModelReplies
    \/ ModelFails \/ TaskRetries \/ ModelEnds

Step == BeginStep \/ Coordinate \/ Resolve \/ Model

Next ==
    \/ Deliveries \/ (\E c \in session.announced : CallBack(c))
    \/ Step \/ Cancel

Spec == Init /\ [][Next]_vars

(* A durable step that was entered is run to its end. *)
FairSpec == Spec /\ WF_vars(Step)

-----------------------------------------------------------------------------
(* Properties *)

(* The state of the harness session and of its step has its type.          *)
TypeOK ==
    /\ mode \in Modes
    /\ session \in SessionType
    /\ pc \in {"idle", "step", "coordinate", "resolve", "model", "ended"}
    /\ input \in StepInputs \cup {None}
    /\ caller \in Responders \cup {Anonymous}
    /\ callbacks \subseteq Candidate
    /\ prompt \in Seq(Items)
    /\ saved \in Starts \cup {None}
    /\ unsent \subseteq Texts
    /\ deliveries \in 0 .. MaxDeliveries
    /\ rounds \in 0 .. MaxRounds
    /\ interruptions \in Nat

(* A guarded call is executed only after the response policy of its tool   *)
(* allowed a responder: neither a message nor an answer that reached the   *)
(* resolution another way can approve it.                                  *)
GuardedCallNeedsAllow == session.ran \cap Guarded \subseteq session.allowed

(* A candidate waits for its policy or its sign-in only while its request  *)
(* is open and unsettled: neither a competitor's settlement nor the        *)
(* resolution of a batch leaves one behind.                                *)
CandidatesArePending ==
    \A c \in session.pending \cup session.required :
        c[1] \in OpenRequests(session) \ Settled(session)

(* current-messages.ts: "The AI SDK reads approvals only from the tail     *)
(* tool message", so that nothing may come to stand after the response to  *)
(* an approval in what the model is called with.                           *)
ApprovalsStayLast ==
    pc = "model" => \A i \in DOMAIN prompt : IsApproval(prompt[i]) => i = Len(prompt)

(* As long as no turn was cancelled and no call failed, neither a message, *)
(* nor another batch, nor the limit prompt comes to stand after the        *)
(* response to an approval: if anything follows it, it is context that the *)
(* agent added when a turn started, and an agent that has none keeps the   *)
(* response at the tail.                                                   *)
ApprovalsExecute ==
    pc = "model" /\ interruptions = 0 =>
        \A i \in DOMAIN prompt : IsApproval(prompt[i]) /\ i # Len(prompt) =>
            Context # {} /\ prompt[i + 1].kind = "context"

(* An answer to an open request is settled or kept for a later step: no    *)
(* step drops the answers its resolution has no use for yet.               *)
AnswersKept ==
    pc = "idle" =>
        \A r \in (session.answered \cap OpenRequests(session)) \ Guarded :
            \/ r \in Settled(session)
            \/ session.deferred # None /\ session.deferred.responses[r] # <<>>

(* Every message a turn took was given to a model call, waits in the       *)
(* history for the next one, or is deferred, also after a cancellation and *)
(* the retries of a task.  Of the messages of a call that failed nothing   *)
(* is said: the code drops them.                                           *)
InputKept ==
    pc = "idle" =>
        (Texts \ unsent) \ session.failed \subseteq
            session.read
            \cup (UNION {item.of : item \in ToSet(session.unread)})
            \cup (IF session.deferred = None THEN {} ELSE session.deferred.message)

(* Between the turns of a conversation no candidate still waits for its    *)
(* policy to run.  (A task holds deferred answers back while it takes      *)
(* fresh ones; when a responder's answer settles one of them, the pass     *)
(* that should have run the policy is spent on it.)                        *)
CandidatesAreJudged ==
    pc = "idle" /\ mode = "conversation" /\ interruptions = 0 => session.pending = {}

(* A turn whose deferred input makes it continue with one more step, and a *)
(* task whose step is retried, come to their end: coordination, deferral   *)
(* and retries do not chase each other.                                    *)
StepsPark == pc # "idle" ~> pc \in {"idle", "ended"}

(* human-in-the-loop.md: follow-up turns run normally while an approval is *)
(* unresolved.  A turn that is not waiting for the limit does not stop     *)
(* with tool results the model never saw.                                  *)
TurnsFinish ==
    pc = "idle" /\ ~LimitOpen(session) /\ interruptions = 0 => session.unread = <<>>

(* sessions-runs-and-streaming.md: answers are carried until each batch    *)
(* can resume.  No batch stays open with all of its approvals settled.     *)
AnsweredBatchResumes ==
    pc = "idle" /\ ~LimitOpen(session) /\ interruptions = 0 =>
        \A b \in session.batches : IsApprovalBatch(b) => ~(ApprovalsOf(b) \subseteq Settled(session))

=============================================================================
