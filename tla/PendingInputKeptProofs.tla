----------------------- MODULE PendingInputKeptProofs -----------------------
(***************************************************************************)
(* Proofs that PendingInput loses no answer and no message, and judges the *)
(* candidates of a conversation in the turn that made them.                *)
(***************************************************************************)
EXTENDS PendingInputProofs

(***************************************************************************)
(* The invariant: where the answers and the messages are at each stage of  *)
(* a step.  With IInv it is inductive.                                     *)
(***************************************************************************)
MessageOf(in) == IF in = None THEN {} ELSE in.message
OfAll(items) == UNION {item.of : item \in ToSet(items)}

(* An answered request that is open is settled, or its answer is deferred  *)
(* or in the input of the step.                                            *)
AnswersHeld(s, in) ==
    \A r \in (s.answered \cap OpenRequests(s)) \ Guarded :
        r \in Settled(s) \cup AnsweredBy(s.deferred) \cup AnsweredBy(in)

(* What the model was given, the calls that failed included. *)
Passed(s) == s.read \cup s.failed

(* A message that was taken was passed to the model, is among the items    *)
(* for it, is deferred, or is in the input.                                *)
MessagesHeld(s, items, in) ==
    Texts \ unsent \subseteq (Passed(s) \cup OfAll(items)) \cup (MessageOf(s.deferred) \cup MessageOf(in))

(* Texts are given to the model as messages only.                          *)
TextsAreMessages(items) ==
    \A item \in ToSet(items) : item.kind # "message" => item.of \cap Texts = {}

(* The open batches were asked, and only what was asked can be answered.   *)
AskedFirst(s) ==
    /\ s.batches \subseteq ToSet(s.asked)
    /\ \A r \in s.answered : \E b \in ToSet(s.asked) : r \in Asks[b]

SessionKeeps(s) == AskedFirst(s) /\ TextsAreMessages(s.unread)

(* What a step started from holds all that a rollback or a retry needs. *)
SavedKeeps(start) ==
    /\ SessionKeeps(start.session) /\ AnswersHeld(start.session, None)
    /\ MessagesHeld(start.session, start.session.unread, start.input)

KInv ==
    /\ SessionKeeps(session) /\ TextsAreMessages(prompt)
    /\ pc \in {"idle", "step", "model"} => AnswersHeld(session, None)
    /\ pc \in {"coordinate", "resolve"} => AnswersHeld(session, input)
    /\ pc = "idle" => MessagesHeld(session, session.unread, None)
    /\ pc \in {"step", "coordinate", "resolve"} => MessagesHeld(session, session.unread, input)
    /\ pc = "model" => MessagesHeld(session, prompt, None)
    /\ saved # None \/ pc \in {"coordinate", "resolve", "model"} => SavedKeeps(saved)

(***************************************************************************)
(* What the operators on step input and on the session keep.               *)
(***************************************************************************)
LEMMA OfConcatenation ==
    ASSUME NEW a \in Seq(Items), NEW b \in Seq(Items)
    PROVE  /\ OfAll(a \o b) = OfAll(a) \cup OfAll(b)
           /\ TextsAreMessages(a) /\ TextsAreMessages(b) => TextsAreMessages(a \o b)
<1>1. ToSet(a \o b) = ToSet(a) \cup ToSet(b)
    <2>1. /\ DOMAIN (a \o b) = 1 .. (Len(a) + Len(b))
          /\ DOMAIN a = 1 .. Len(a) /\ DOMAIN b = 1 .. Len(b)
          /\ Len(a) \in Nat /\ Len(b) \in Nat
        OBVIOUS
    <2>2. \A i \in DOMAIN (a \o b) :
              \/ i \in DOMAIN a /\ (a \o b)[i] = a[i]
              \/ i - Len(a) \in DOMAIN b /\ (a \o b)[i] = b[i - Len(a)]
        OBVIOUS
    <2>3. \A i \in DOMAIN a : i \in DOMAIN (a \o b) /\ (a \o b)[i] = a[i]
        OBVIOUS
    <2>4. \A i \in DOMAIN b : Len(a) + i \in DOMAIN (a \o b) /\ (a \o b)[Len(a) + i] = b[i]
        OBVIOUS
    <2>5. ToSet(a \o b) \subseteq ToSet(a) \cup ToSet(b)
        BY <2>2 DEF ToSet
    <2>6. ToSet(a) \subseteq ToSet(a \o b)
        BY <2>3 DEF ToSet
    <2>7. ToSet(b) \subseteq ToSet(a \o b)
        BY <2>4 DEF ToSet
    <2> QED
        BY <2>5, <2>6, <2>7
<1> QED
    BY <1>1 DEF OfAll, TextsAreMessages

LEMMA OfMessage ==
    ASSUME NEW message \in SUBSET (Texts \cup Requests)
    PROVE  /\ OfAll(MessageItems(message)) = message
           /\ TextsAreMessages(MessageItems(message))
<1>1. CASE message = {}
    <2>1. ToSet(MessageItems(message)) = {}
        BY <1>1 DEF MessageItems, ToSet
    <2> QED
        BY <1>1, <2>1 DEF OfAll, TextsAreMessages
<1>2. CASE message # {}
    <2>1. ToSet(MessageItems(message)) = {Item("message", message)}
        BY <1>2 DEF MessageItems, ToSet
    <2> QED
        BY <2>1 DEF OfAll, TextsAreMessages, Item
<1> QED
    BY <1>1, <1>2

LEMMA CoalesceHolds ==
    ASSUME NEW a \in StepInputs, NEW b \in StepInputs
    PROVE  /\ AnsweredBy(Coalesce(a, b)) = AnsweredBy(a) \cup AnsweredBy(b)
           /\ MessageOf(Coalesce(a, b)) = MessageOf(a) \cup MessageOf(b)
<1>1. Coalesce(a, b) # None /\ a # None /\ b # None
    BY CoalesceType, InputKinds
<1>2. \A r \in Requests : Coalesce(a, b).responses[r] = a.responses[r] \o b.responses[r]
    BY DEF Coalesce
<1>3. \A r \in Requests : a.responses[r] \in Seq(Options) /\ b.responses[r] \in Seq(Options)
    BY DEF StepInputs
<1>4. \A x, y \in Seq(Options) : x \o y # <<>> <=> x # <<>> \/ y # <<>>
    OBVIOUS
<1>5. AnsweredBy(Coalesce(a, b)) = AnsweredBy(a) \cup AnsweredBy(b)
    <2> DEFINE both == Coalesce(a, b)
    <2>1. \A r \in Requests : both.responses[r] # <<>>
                               <=> a.responses[r] # <<>> \/ b.responses[r] # <<>>
        BY <1>2, <1>3, <1>4
    <2>2. both # None
        BY <1>1
    <2> HIDE DEF both
    <2>3. AnsweredBy(both) = AnsweredBy(a) \cup AnsweredBy(b)
        BY <1>1, <2>1, <2>2 DEF AnsweredBy
    <2> QED
        BY <2>3 DEF both
<1>6. MessageOf(Coalesce(a, b)) = MessageOf(a) \cup MessageOf(b)
    BY <1>1 DEF MessageOf, Coalesce
<1> QED
    BY <1>5, <1>6

LEMMA QueueHolds ==
    ASSUME NEW s \in SessionType, NEW in \in StepInputs
    PROVE  /\ AnsweredBy(Queue(s, in).deferred) = AnsweredBy(s.deferred) \cup AnsweredBy(in)
           /\ MessageOf(Queue(s, in).deferred) = MessageOf(s.deferred) \cup MessageOf(in)
           /\ Queue(s, in).asked = s.asked /\ Queue(s, in).answered = s.answered
           /\ Passed(Queue(s, in)) = Passed(s) /\ Queue(s, in).cancelled = s.cancelled
<1>1. Queue(s, in).deferred = IF s.deferred = None THEN in ELSE Coalesce(s.deferred, in)
    BY DEF Queue, SessionType
<1>2. s.deferred # None => s.deferred \in StepInputs
    BY DEF SessionType
<1>3. AnsweredBy(None) = {} /\ MessageOf(None) = {}
    BY DEF AnsweredBy, MessageOf
<1> QED
    BY <1>1, <1>2, <1>3, CoalesceHolds DEF Queue, SessionType, Passed

LEMMA OnlyHolds ==
    ASSUME NEW in \in StepInputs, NEW rs
    PROVE  /\ AnsweredBy(Only(in, rs)) = AnsweredBy(in) \cap rs
           /\ MessageOf(Only(in, rs)) = MessageOf(in)
BY OnlyType, InputKinds DEF AnsweredBy, MessageOf

LEMMA RemoveHolds ==
    ASSUME NEW in \in StepInputs \cup {None}, NEW rs \in SUBSET Requests
    PROVE  MessageOf(RemoveResponses(in, rs)) = MessageOf(in)
<1>1. CASE in = None
    BY <1>1 DEF RemoveResponses
<1>2. CASE in \in StepInputs
    BY <1>2, InputKinds, OnlyHolds DEF RemoveResponses
<1> QED
    BY <1>1, <1>2

LEMMA DropStaleHolds ==
    ASSUME NEW in \in StepInputs \cup {None}, NEW s \in SessionType
    PROVE  /\ AnsweredBy(in) \cap OpenRequests(s) \subseteq AnsweredBy(DropStale(in, s))
           /\ MessageOf(in) \subseteq MessageOf(DropStale(in, s))
<1>1. CASE in = None
    BY <1>1 DEF DropStale, AnsweredBy, MessageOf
<1>2. CASE in \in StepInputs
    <2> DEFINE open == Only(in, OpenRequests(s))
               stale == {r \in AnsweredBy(in) \ OpenRequests(s) : KindOf[r] # "limit"}
               result == [open EXCEPT !.message = @ \cup stale]
    <2>1. open \in StepInputs /\ AnsweredBy(open) = AnsweredBy(in) \cap OpenRequests(s)
          /\ MessageOf(open) = MessageOf(in)
        BY <1>2, OnlyType, OnlyHolds
    <2>2. DropStale(in, s) = result
        BY <1>2, InputKinds DEF DropStale
    <2>3. stale \subseteq Requests
        BY DEF AnsweredBy
    <2> HIDE DEF open, stale
    <2>4. /\ result.responses = open.responses /\ result.message = open.message \cup stale
          /\ result \in StepInputs
        BY <2>1, <2>3 DEF StepInputs
    <2>5. result # None /\ open # None
        BY <2>1, <2>4, InputKinds
    <2> QED
        BY <2>1, <2>2, <2>4, <2>5 DEF AnsweredBy, MessageOf
<1> QED
    BY <1>1, <1>2

LEMMA AppendSettledHolds ==
    ASSUME NEW s \in SessionType, NEW in \in StepInputs \cup {None}, NEW rs \in SUBSET Requests
    PROVE  /\ AnsweredBy(in) \ rs \subseteq AnsweredBy(AppendSettled(in, rs, s))
           /\ MessageOf(AppendSettled(in, rs, s)) = MessageOf(in)
<1>1. CASE rs = {}
    BY <1>1 DEF AppendSettled
<1>2. CASE rs # {}
    <2> DEFINE base == IF in = None THEN EmptyInput ELSE in
               result == AppendSettled(in, rs, s)
    <2>1. base \in StepInputs
        BY EmptyInputType
    <2>2. MessageOf(base) = MessageOf(in)
        BY <2>1, InputKinds DEF MessageOf, EmptyInput
    <2>3. result.message = base.message
        BY <1>2, <2>1 DEF AppendSettled, StepInputs
    <2>4. result # None
        <3>1. result \in StepInputs
            BY <1>2, AppendSettledType
        <3> QED
            BY <3>1, InputKinds
    <2>5. \A r \in AnsweredBy(in) \ rs : result.responses[r] = in.responses[r]
        BY <2>4, AppendSettledType
    <2> HIDE DEF base, result
    <2> QED
        BY <2>1, <2>2, <2>3, <2>4, <2>5, InputKinds DEF AnsweredBy, MessageOf, result
<1> QED
    BY <1>1, <1>2

(* A step hears every answer of its input; a message that it matches with  *)
(* a request is heeded.                                                    *)
LEMMA StepInputHolds ==
    ASSUME input \in StepInputs \cup {None}, NEW s \in SessionType
    PROVE  /\ AnsweredBy(input) \subseteq Decided
           /\ Passed(s) \subseteq Passed(Heed(s))
           /\ MessageOf(input) \subseteq Passed(Heed(s)) \cup MessageOf(StepInput)
           /\ Heed(s).deferred = s.deferred /\ Heed(s).asked = s.asked
           /\ Heed(s).answered = s.answered /\ Heed(s).cancelled = s.cancelled
<1>1. /\ Passed(Heed(s)) = Passed(s) \cup (IF input = None \/ Said THEN {} ELSE input.message)
      /\ Heed(s).deferred = s.deferred /\ Heed(s).asked = s.asked
      /\ Heed(s).answered = s.answered /\ Heed(s).cancelled = s.cancelled
    BY DEF Heed, SessionType, Passed
<1>2. CASE input = None
    BY <1>1, <1>2 DEF AnsweredBy, MessageOf
<1>3. CASE input \in StepInputs
    <2> DEFINE target == IF LimitOpen(session) THEN {LimitBatch}
                         ELSE IF Cardinality(session.batches) = 1 THEN session.batches ELSE {}
               asks == UNION {Asks[b] : b \in target}
               matched == {r \in asks \ Guarded : Heard(input.message, r) # "nothing"}
               heard == [r \in Requests |-> IF r \in matched THEN <<Heard(input.message, r)>>
                                            ELSE input.responses[r]]
    <2>1. \/ StepInput = input
          \/ StepInput = [responses |-> heard, message |-> {}]
        BY <1>3, InputKinds DEF StepInput
    <2> HIDE DEF matched
    <2>2. StepInput # None /\ input # None
        BY <1>3, StepInputType, InputKinds
    <2>3. CASE StepInput = input
        BY <1>1, <2>2, <2>3 DEF Decided, MessageOf
    <2>4. CASE StepInput = [responses |-> heard, message |-> {}]
        <3>1. \A r \in Requests : input.responses[r] # <<>> => heard[r] # <<>>
            OBVIOUS
        <3>2. ~Said
            BY <2>4 DEF Said
        <3> QED
            BY <1>1, <2>2, <2>4, <3>1, <3>2 DEF Decided, AnsweredBy, MessageOf
    <2> QED
        BY <2>1, <2>3, <2>4
<1> QED
    BY <1>2, <1>3

(***************************************************************************)
(* Sessions that differ in settlements and candidates only.                *)
(***************************************************************************)
SameMail(s, t) ==
    /\ t.batches = s.batches /\ t.asked = s.asked /\ t.answered = s.answered
    /\ Passed(t) = Passed(s) /\ t.unread = s.unread /\ t.deferred = s.deferred
    /\ Settled(s) \subseteq Settled(t)

LEMMA SameMailHolds ==
    ASSUME NEW s, NEW t, SameMail(s, t)
    PROVE  /\ SessionKeeps(s) => SessionKeeps(t)
           /\ \A in : AnswersHeld(s, in) => AnswersHeld(t, in)
           /\ \A items, in : MessagesHeld(s, items, in) => MessagesHeld(t, items, in)
<1>1. SessionKeeps(s) => SessionKeeps(t)
    BY DEF SameMail, SessionKeeps, AskedFirst
<1>2. ASSUME NEW in, AnswersHeld(s, in) PROVE AnswersHeld(t, in)
    BY <1>2 DEF SameMail, AnswersHeld, OpenRequests
<1>3. ASSUME NEW items, NEW in, MessagesHeld(s, items, in) PROVE MessagesHeld(t, items, in)
    BY <1>3 DEF SameMail, MessagesHeld
<1> QED
    BY <1>1, <1>2, <1>3

LEMMA ExpireMail ==
    ASSUME NEW s \in SessionType, NEW cs
    PROVE  SameMail(s, Expire(s, cs))
BY DEF SameMail, Passed, Expire, SessionType, Settled

LEMMA SettleMail ==
    ASSUME NEW s \in SessionType, NEW allowed \in SUBSET Requests, NEW cancelled \in SUBSET Requests
    PROVE  SameMail(s, Settle(s, allowed, cancelled))
BY DEF SameMail, Passed, Settle, SessionType, Settled

LEMMA TakeResponsesMail ==
    ASSUME NEW s \in SessionType, NEW in,
           caller \in Responders \cup {Anonymous}
    PROVE  SameMail(s, TakeResponses(s, in))
<1> DEFINE named == {r \in AnsweredBy(in) \cap OpenRequests(s) : KindOf[r] = "approval"}
           says(r, o) == o \in ToSet(in.responses[r])
           plain(o) == {r \in named \ Guarded : Head(in.responses[r]) = o}
           candidates == {<<r, caller>> : r \in {q \in named \cap Guarded : says(q, "yes")}}
           base == [s EXCEPT !.pending = @ \cup (candidates \ s.required)]
           approved == plain("yes")
           refused == plain("no") \cup {r \in named \cap Guarded : says(r, "no")}
<1>1. CASE caller = Anonymous
    BY <1>1 DEF TakeResponses, SameMail
<1>2. CASE caller # Anonymous
    <2>1. named \subseteq Requests
        BY DEF AnsweredBy
    <2>2. approved \in SUBSET Requests /\ refused \in SUBSET Requests
        BY <2>1
    <2>3. candidates \subseteq Candidate
        BY <1>2, <2>1 DEF Candidate
    <2>4. base \in SessionType /\ SameMail(s, base)
        BY <2>3 DEF SessionType, SameMail, Passed, Settled
    <2>5. TakeResponses(s, in) = Settle(base, approved, refused)
        BY <1>2 DEF TakeResponses
    <2> HIDE DEF base, refused, approved
    <2>6. SameMail(base, Settle(base, approved, refused))
        BY <2>2, <2>4, SettleMail
    <2> QED
        BY <2>4, <2>5, <2>6 DEF SameMail
<1> QED
    BY <1>1, <1>2

(* Answers and messages that are queued are held without the input.        *)
LEMMA QueueKeepsMail ==
    ASSUME NEW s \in SessionType, NEW in \in StepInputs \cup {None},
           NEW t, t = IF in = None THEN s ELSE Queue(s, in)
    PROVE  /\ SessionKeeps(s) => SessionKeeps(t)
           /\ AnswersHeld(s, in) => AnswersHeld(t, None)
           /\ MessagesHeld(s, s.unread, in) => MessagesHeld(t, t.unread, None)
<1>1. CASE in = None
    BY <1>1
<1>2. CASE in \in StepInputs
    <2>1. t = Queue(s, in)
        BY <1>2, InputKinds
    <2>2. /\ t.batches = s.batches /\ t.unread = s.unread /\ t.allowed = s.allowed
          /\ t.asked = s.asked /\ t.answered = s.answered /\ Passed(t) = Passed(s)
          /\ t.cancelled = s.cancelled
          /\ AnsweredBy(t.deferred) = AnsweredBy(s.deferred) \cup AnsweredBy(in)
          /\ MessageOf(t.deferred) = MessageOf(s.deferred) \cup MessageOf(in)
        BY <1>2, <2>1, QueueKeeps, QueueHolds
    <2> QED
        BY <2>2 DEF SessionKeeps, AskedFirst, AnswersHeld, MessagesHeld, OpenRequests, Settled
<1> QED
    BY <1>1, <1>2

(***************************************************************************)
(* How the stages of a step hand on what they hold.                        *)
(***************************************************************************)
LEMMA EndsStepHolds ==
    ASSUME KInv, NEW s, session' = s, SessionKeeps(s), AnswersHeld(s, None),
           MessagesHeld(s, s.unread, None),
           prompt' = <<>> \/ prompt' = prompt,
           pc' \in {"idle", "step"}, saved' = None, unsent' = unsent
    PROVE  KInv'
<1>1. TextsAreMessages(prompt)'
    <2>1. ToSet(<<>>) = {}
        BY DEF ToSet
    <2> QED
        BY <2>1 DEF KInv, TextsAreMessages
<1>2. SessionKeeps(session)' /\ AnswersHeld(session, None)'
    BY DEF SessionKeeps, AskedFirst, TextsAreMessages, AnswersHeld, OpenRequests, Settled, AnsweredBy
<1>3. MessagesHeld(session, session.unread, None)'
    BY DEF MessagesHeld, Passed, OfAll, MessageOf
<1>4. MessagesHeld(session, session.unread, input)'
    BY <1>3 DEF MessagesHeld, MessageOf
<1> QED
    BY <1>1, <1>2, <1>3, <1>4 DEF KInv

LEMMA ParkHolds ==
    ASSUME KInv, NEW s, Park(s), SessionKeeps(s), AnswersHeld(s, None),
           MessagesHeld(s, s.unread, None), unsent' = unsent
    PROVE  KInv'
BY EndsStepHolds DEF Park

(* A session that is over takes nothing more.                              *)
LEMMA EndHolds ==
    ASSUME KInv, End
    PROVE  KInv'
<1>1. ToSet(<<>>) = {}
    BY DEF ToSet
<1>2. SessionKeeps(session)' /\ TextsAreMessages(prompt)'
    BY <1>1 DEF End, KInv, SessionKeeps, AskedFirst, TextsAreMessages
<1>3. pc' = "ended" /\ saved' = None
    BY DEF End
<1> QED
    BY <1>2, <1>3 DEF KInv

(* What the step started from keeps all it had while texts arrive for the  *)
(* step alone.                                                             *)
LEMMA SavedHolds ==
    ASSUME NEW start, SavedKeeps(start), saved' = start, unsent' = unsent
    PROVE  SavedKeeps(saved)'
BY DEF SavedKeeps, SessionKeeps, AskedFirst, TextsAreMessages, AnswersHeld, MessagesHeld, Passed,
       OpenRequests, Settled, AnsweredBy, OfAll, MessageOf

LEMMA StillSaved ==
    ASSUME KInv, pc \in {"coordinate", "resolve", "model"}, UNCHANGED <<saved, unsent>>
    PROVE  SavedKeeps(saved)'
<1>1. PICK start : start = saved
    OBVIOUS
<1>2. SavedKeeps(start) /\ saved' = start
    BY <1>1 DEF KInv
<1> QED
    BY <1>2, SavedHolds

LEMMA StartHolds ==
    ASSUME IInv, KInv, pc \notin {"idle", "ended"}
    PROVE  /\ SavedKeeps(Start)
           /\ Start.session \in SessionType /\ Start.input \in StepInputs \cup {None}
<1>1. CASE saved = None
    <2>1. pc \notin {"coordinate", "resolve", "model"}
        BY <1>1, StartsAssumption DEF IInv, StagesOK, SavedOK
    <2>2. pc = "step"
        BY <2>1 DEF IInv, TypeOK
    <2>3. Start.session = session /\ Start.input = input
        BY <1>1 DEF Start, StartOf
    <2> QED
        BY <2>2, <2>3 DEF KInv, SavedKeeps, IInv, TypeOK
<1>2. CASE saved # None
    <2>1. Start = saved
        BY <1>2 DEF Start
    <2> QED
        BY <1>2, <2>1 DEF KInv, IInv, StagesOK, SavedOK, Starts
<1> QED
    BY <1>1, <1>2

LEMMA ProceedHolds ==
    ASSUME KInv, pc = "coordinate", NEW s, NEW in, Proceed(s, in), SessionKeeps(s),
           AnswersHeld(s, in), MessagesHeld(s, s.unread, in), unsent' = unsent
    PROVE  KInv'
<1>1. TextsAreMessages(prompt)'
    BY DEF Proceed, KInv, TextsAreMessages
<1>2. SessionKeeps(session)' /\ AnswersHeld(session, input)'
    BY DEF Proceed, SessionKeeps, AskedFirst, TextsAreMessages, AnswersHeld, OpenRequests, Settled,
           AnsweredBy
<1>3. MessagesHeld(session, session.unread, input)'
    BY DEF Proceed, MessagesHeld, Passed, OfAll, MessageOf
<1>4. pc' = "resolve" /\ SavedKeeps(saved)'
    BY StillSaved DEF Proceed
<1> QED
    BY <1>1, <1>2, <1>3, <1>4 DEF KInv

LEMMA ContinueHolds ==
    ASSUME KInv, pc = "coordinate", NEW s \in SessionType, NEW in \in StepInputs \cup {None},
           ContinueCoordination(s, in), SessionKeeps(s),
           AnswersHeld(s, in), MessagesHeld(s, s.unread, in), unsent' = unsent
    PROVE  KInv'
<1> DEFINE t == IF in = None THEN s ELSE Queue(s, in)
<1>1. SessionKeeps(t) /\ AnswersHeld(t, None) /\ MessagesHeld(t, t.unread, None)
    BY QueueKeepsMail
<1>2. session' = t
    BY DEF ContinueCoordination
<1> HIDE DEF t
<1> QED
    BY <1>1, <1>2, EndsStepHolds DEF ContinueCoordination

(* What a turn adds to the history are no messages of the users.           *)
LEMMA ContextMail ==
    ASSUME NEW s, NEW added \in Preamble(s)
    PROVE  added \in Seq(Items) /\ TextsAreMessages(added)
<1> DEFINE item == Item("context", {})
           plain == {<<>>, <<item>>}
<1>1. item \in Items /\ item.of = {}
    BY DEF Item, Items
<1>2. \A kind : Added(kind) \subseteq plain
    BY DEF Added
<1>3. \/ added = <<>>
      \/ \E a \in Added("memory"), b \in Added("instructions") : added = a \o b
    BY DEF Preamble
<1>4. added = <<>> \/ \E a \in plain, b \in plain : added = a \o b
    <2> HIDE DEF plain
    <2> QED
        BY <1>2, <1>3
<1> HIDE DEF item
<1>5. \A a \in plain : a \in Seq(Items) /\ TextsAreMessages(a)
    <2>1. <<>> \in Seq(Items) /\ <<item>> \in Seq(Items)
        BY <1>1
    <2>2. \A a \in plain : ToSet(a) \subseteq {item}
        BY DEF ToSet
    <2> QED
        BY <1>1, <2>1, <2>2 DEF TextsAreMessages
<1>6. <<>> \in plain
    OBVIOUS
<1> HIDE DEF plain
<1> QED
    BY <1>4, <1>5, <1>6, OfConcatenation, Concatenation

LEMMA ExtendedMail ==
    ASSUME NEW s \in SessionType, NEW added \in Preamble(s), NEW inTurn \in BOOLEAN
    PROVE  /\ SessionKeeps(s) => SessionKeeps(Extended(s, added, inTurn))
           /\ \A in : AnswersHeld(s, in) => AnswersHeld(Extended(s, added, inTurn), in)
           /\ Passed(Extended(s, added, inTurn)) = Passed(s)
           /\ Extended(s, added, inTurn).deferred = s.deferred
           /\ OfAll(s.unread) \subseteq OfAll(Extended(s, added, inTurn).unread)
<1> DEFINE told == s.unread \o added
           t == Extended(s, added, inTurn)
<1>1. added \in Seq(Items) /\ TextsAreMessages(added) /\ s.unread \in Seq(Items)
    BY ContextMail DEF SessionType
<1>2. /\ TextsAreMessages(s.unread) => TextsAreMessages(told)
      /\ OfAll(s.unread) \subseteq OfAll(told)
    BY <1>1, OfConcatenation
<1>3. /\ t.batches = s.batches /\ t.asked = s.asked /\ t.answered = s.answered
      /\ Passed(t) = Passed(s) /\ t.deferred = s.deferred /\ Settled(t) = Settled(s)
      /\ t.unread = told
    BY DEF Extended, SessionType, Passed, Settled
<1> HIDE DEF told, t
<1>4. SessionKeeps(s) => SessionKeeps(t)
    BY <1>2, <1>3 DEF SessionKeeps, AskedFirst
<1>5. ASSUME NEW in, AnswersHeld(s, in) PROVE AnswersHeld(t, in)
    BY <1>3, <1>5 DEF AnswersHeld, OpenRequests
<1> QED
    BY <1>2, <1>3, <1>4, <1>5 DEF t

(* What the model is called with has the message of the step, unless the   *)
(* session defers it.                                                      *)
LEMMA CallModelHolds ==
    ASSUME IInv, KInv, pc = "resolve", NEW s \in SessionType, SessionKeeps(s),
           AnswersHeld(s, None),
           Passed(s) = Passed(session), s.unread = session.unread,
           NEW items \in Seq(Items), TextsAreMessages(items),
           NEW message \in SUBSET (Texts \cup Requests),
           MessageOf(session.deferred) \cup (MessageOf(StepInput) \ message)
               \subseteq MessageOf(s.deferred),
           CallModel(s, items, message)
    PROVE  KInv'
<1> DEFINE commits == saved.input # None /\ ~s.inTurn /\ "memory" \in Context
           heard == Heed(s)
           told == MessageItems(message)
<1>1. input \in StepInputs \cup {None}
    BY DEF IInv, TypeOK
<1>2. /\ heard \in SessionType /\ heard.batches = s.batches /\ heard.allowed = s.allowed
      /\ heard.deferred = s.deferred /\ heard.asked = s.asked
      /\ heard.answered = s.answered /\ heard.cancelled = s.cancelled
      /\ Passed(s) \subseteq Passed(heard)
      /\ MessageOf(input) \subseteq Passed(heard) \cup MessageOf(StepInput)
    BY <1>1, HeedKeeps, StepInputHolds
<1>3. PICK added \in IF saved.input = None THEN {<<>>} ELSE Preamble(s) :
        LET kept == s.unread \o (IF commits THEN items \o added ELSE added)
        IN  /\ session' = [heard EXCEPT !.unread = kept, !.inTurn = @ \/ saved.input # None]
            /\ prompt' = kept \o (IF commits THEN <<>> ELSE items) \o told
    BY DEF CallModel
<1>4. pc' = "model" /\ UNCHANGED <<saved, unsent>>
    BY DEF CallModel, bounded
<1>5. <<>> \in Seq(Items) /\ TextsAreMessages(<<>>)
    BY DEF TextsAreMessages, ToSet
<1>6. added \in Seq(Items) /\ TextsAreMessages(added)
    BY <1>3, <1>5, ContextMail
<1>7. s.unread \in Seq(Items) /\ TextsAreMessages(s.unread)
    BY DEF SessionType, SessionKeeps
<1>8. told \in Seq(Items) /\ OfAll(told) = message /\ TextsAreMessages(told)
    BY MessageItemsType, OfMessage
<1> DEFINE middle == IF commits THEN items \o added ELSE added
           end == IF commits THEN <<>> ELSE items
           kept == s.unread \o middle
           front == kept \o end
           given == front \o told
           inTurn == heard.inTurn \/ saved.input # None
           t == [heard EXCEPT !.unread = kept, !.inTurn = inTurn]
<1>9. session' = t /\ prompt' = given
    BY <1>3
<1> HIDE DEF commits, heard, told
<1>10. /\ middle \in Seq(Items) /\ TextsAreMessages(middle)
       /\ end \in Seq(Items) /\ TextsAreMessages(end)
    <2>1. items \o added \in Seq(Items) /\ TextsAreMessages(items \o added)
        BY <1>6, Concatenation, OfConcatenation
    <2> QED
        BY <1>5, <1>6, <2>1
<1> HIDE DEF middle, end
<1>11. /\ kept \in Seq(Items) /\ TextsAreMessages(kept)
       /\ OfAll(s.unread) \subseteq OfAll(kept)
    BY <1>7, <1>10, Concatenation, OfConcatenation
<1> HIDE DEF kept
<1>12. front \in Seq(Items) /\ TextsAreMessages(front) /\ OfAll(kept) \subseteq OfAll(front)
    BY <1>10, <1>11, Concatenation, OfConcatenation
<1> HIDE DEF front
<1>13. TextsAreMessages(given) /\ OfAll(given) = OfAll(front) \cup message
    BY <1>8, <1>12, OfConcatenation
<1> HIDE DEF given, inTurn
<1>14. /\ t.batches = s.batches /\ t.unread = kept /\ Settled(t) = Settled(s)
       /\ t.deferred = s.deferred /\ t.asked = s.asked /\ t.answered = s.answered
       /\ Passed(t) = Passed(heard)
    BY <1>2 DEF SessionType, Settled, Passed
<1> HIDE DEF t
<1>15. Texts \ unsent \subseteq (Passed(t) \cup OfAll(given)) \cup MessageOf(t.deferred)
    <2>1. Texts \ unsent \subseteq (Passed(session) \cup OfAll(session.unread))
                                      \cup (MessageOf(session.deferred) \cup MessageOf(input))
        BY DEF KInv, MessagesHeld
    <2>2. Passed(session) \subseteq Passed(t) /\ OfAll(session.unread) \subseteq OfAll(given)
        BY <1>2, <1>11, <1>12, <1>13, <1>14
    <2>3. MessageOf(session.deferred) \subseteq MessageOf(t.deferred)
        BY <1>14
    <2>4. MessageOf(input) \subseteq (Passed(t) \cup OfAll(given)) \cup MessageOf(t.deferred)
        BY <1>2, <1>13, <1>14
    <2> QED
        BY <2>1, <2>2, <2>3, <2>4
<1>16. MessagesHeld(session, prompt, None)'
    BY <1>4, <1>9, <1>15 DEF MessagesHeld, Passed, OfAll, MessageOf
<1>17. SessionKeeps(t) /\ AnswersHeld(t, None)
    BY <1>11, <1>14 DEF SessionKeeps, AskedFirst, AnswersHeld, OpenRequests
<1>18. SessionKeeps(session)' /\ AnswersHeld(session, None)'
    BY <1>9, <1>17 DEF SessionKeeps, AskedFirst, TextsAreMessages, AnswersHeld, OpenRequests, Settled,
                      AnsweredBy
<1>19. TextsAreMessages(prompt)'
    BY <1>9, <1>13 DEF TextsAreMessages
<1>20. SavedKeeps(saved)'
    BY <1>4, StillSaved
<1> QED
    BY <1>4, <1>16, <1>18, <1>19, <1>20 DEF KInv

(***************************************************************************)
(* Every action keeps the invariant.                                       *)
(***************************************************************************)
LEMMA BeginsHolds ==
    ASSUME KInv, pc = "idle", pc' = "step",
           NEW from, SameMail(session, from), NEW in, NEW resumed,
           saved' = StartOf(from, in, resumed),
           NEW s, session' = s, SessionKeeps(s), AnswersHeld(s, None),
           Passed(s) = Passed(from), s.deferred = from.deferred,
           OfAll(from.unread) \subseteq OfAll(s.unread),
           Texts \ unsent' \subseteq (Texts \ unsent) \cup MessageOf(in),
           MessageOf(in) \subseteq MessageOf(input'),
           UNCHANGED prompt
    PROVE  KInv'
<1>1. SessionKeeps(from) /\ AnswersHeld(from, None) /\ MessagesHeld(from, from.unread, None)
    BY SameMailHolds DEF KInv, SameMail
<1>2. TextsAreMessages(prompt)'
    BY DEF KInv, TextsAreMessages
<1>3. SessionKeeps(session)' /\ AnswersHeld(session, None)'
    BY DEF SessionKeeps, AskedFirst, TextsAreMessages, AnswersHeld, OpenRequests, Settled, AnsweredBy
<1>4. Texts \ unsent \subseteq (Passed(from) \cup OfAll(from.unread)) \cup MessageOf(from.deferred)
    BY <1>1 DEF MessagesHeld, MessageOf
<1>5. Texts \ unsent' \subseteq (Passed(from) \cup OfAll(from.unread))
                                   \cup (MessageOf(from.deferred) \cup MessageOf(in))
    BY <1>4
<1>6. Texts \ unsent' \subseteq (Passed(s) \cup OfAll(s.unread))
                                   \cup (MessageOf(s.deferred) \cup MessageOf(input'))
    BY <1>5
<1>7. MessagesHeld(session, session.unread, input)'
    BY <1>6 DEF MessagesHeld, Passed, OfAll, MessageOf
<1>8. saved'.session = from /\ saved'.input = in
    BY DEF StartOf
<1>9. SavedKeeps(saved)'
    BY <1>1, <1>5, <1>8
    DEF SavedKeeps, SessionKeeps, AskedFirst, TextsAreMessages, AnswersHeld, MessagesHeld, Passed,
        OpenRequests, Settled, AnsweredBy, OfAll, MessageOf
<1> QED
    BY <1>2, <1>3, <1>7, <1>9 DEF KInv

LEMMA DeliverHolds ==
    ASSUME IInv, KInv, Deliveries
    PROVE  KInv'
<1>1. PICK answers \in AnswersTo(UNION {Asks[b] : b \in ToSet(session.asked)}),
           text \in {{}} \cup {{u} : u \in unsent} :
        /\ pc = "idle" /\ pc' = "step"
        /\ input' = [responses |-> answers, message |-> text]
        /\ unsent' = unsent \ text /\ UNCHANGED <<session, prompt>>
        /\ saved' = StartOf(session, input', callbacks)
        /\ answers \in [Requests -> Seq(Options)]
    <2>1. UNION {Asks[b] : b \in ToSet(session.asked)} \in SUBSET Requests
        <3>1. session.asked \in Seq(Batches)
            BY DEF IInv, TypeOK, SessionType
        <3>2. ToSet(session.asked) \subseteq Batches
            BY <3>1 DEF ToSet
        <3> QED
            BY <3>2, BatchesAssumption
    <2> QED
        BY <2>1, AnswersType DEF Deliveries, Deliver
<1>2. text \in SUBSET (Texts \cup Requests)
    BY DEF IInv, TypeOK
<1>3. input' \in StepInputs
    BY <1>1, <1>2 DEF StepInputs
<1>4. MessageOf(input') = text
    BY <1>1, <1>3, InputKinds DEF MessageOf
<1>5. PICK from : from = session
    OBVIOUS
<1>6. SameMail(session, from) /\ SessionKeeps(from) /\ AnswersHeld(from, None)
    BY <1>1, <1>5 DEF SameMail, KInv
<1>7. PICK in : in = input'
    OBVIOUS
<1>8. saved' = StartOf(from, in, callbacks) /\ session' = from
    BY <1>1, <1>5, <1>7
<1>9. Texts \ unsent' \subseteq (Texts \ unsent) \cup MessageOf(in)
    BY <1>1, <1>4, <1>7
<1> QED
    BY <1>1, <1>6, <1>7, <1>8, <1>9, BeginsHolds

LEMMA CallBackHolds ==
    ASSUME IInv, KInv, NEW c \in session.announced, CallBack(c)
    PROVE  KInv'
<1> DEFINE from == [session EXCEPT !.announced = @ \ {c}]
<1>1. from \in SessionType /\ SameMail(session, from)
    BY DEF SameMail, Passed, Settled, IInv, TypeOK, SessionType
<1>2. PICK added \in Preamble(session) : session' = Extended(from, added, TRUE)
    BY DEF CallBack, Extended
<1>3. /\ pc = "idle" /\ pc' = "step" /\ saved' = StartOf(from, None, {c})
      /\ UNCHANGED <<prompt, unsent>>
    BY DEF CallBack
<1>4. added \in Preamble(from)
    <2>1. from.inTurn = session.inTurn
        BY DEF IInv, TypeOK, SessionType
    <2> HIDE DEF from
    <2> QED
        BY <2>1 DEF Preamble
<1> HIDE DEF from
<1>5. SessionKeeps(from) /\ AnswersHeld(from, None)
    BY <1>1, <1>3, SameMailHolds DEF KInv
<1> DEFINE s == Extended(from, added, TRUE)
<1>6. /\ SessionKeeps(s) /\ AnswersHeld(s, None)
      /\ Passed(s) = Passed(from) /\ s.deferred = from.deferred
      /\ OfAll(from.unread) \subseteq OfAll(s.unread)
    BY <1>1, <1>4, <1>5, ExtendedMail
<1>7. session' = s
    BY <1>2
<1> HIDE DEF s
<1>8. MessageOf(None) = {}
    BY DEF MessageOf
<1>9. Texts \ unsent' \subseteq (Texts \ unsent) \cup MessageOf(None)
    BY <1>3
<1> QED
    BY <1>1, <1>3, <1>6, <1>7, <1>8, <1>9, BeginsHolds

LEMMA BeginStepHolds ==
    ASSUME IInv, KInv, BeginStep
    PROVE  KInv'
<1> DEFINE hold == mode = "task" /\ input # None /\ ApprovalOpen(session)
           taken == IF session.deferred = None \/ hold THEN input
                    ELSE IF input = None THEN session.deferred
                    ELSE Coalesce(session.deferred, input)
           in == DropStale(taken, session)
           deferred == IF hold THEN session.deferred ELSE None
           s == [session EXCEPT !.deferred = deferred, !.answered = @ \cup AnsweredBy(in)]
<1>1. /\ session \in SessionType /\ session.deferred \in StepInputs \cup {None}
      /\ input \in StepInputs \cup {None}
    BY DEF IInv, TypeOK, SessionType
<1>2. MessageOf(None) = {} /\ AnsweredBy(None) = {}
    BY DEF MessageOf, AnsweredBy
<1>3. session.deferred # None /\ input # None =>
        /\ Coalesce(session.deferred, input) \in StepInputs
        /\ AnsweredBy(Coalesce(session.deferred, input)) = AnsweredBy(session.deferred) \cup AnsweredBy(input)
        /\ MessageOf(Coalesce(session.deferred, input)) = MessageOf(session.deferred) \cup MessageOf(input)
    BY <1>1, CoalesceType, CoalesceHolds
<1>4. /\ taken \in StepInputs \cup {None}
      /\ AnsweredBy(session.deferred) \subseteq AnsweredBy(taken) \cup AnsweredBy(deferred)
      /\ MessageOf(session.deferred) \cup MessageOf(input)
            \subseteq MessageOf(deferred) \cup MessageOf(taken)
    <2>1. CASE session.deferred = None \/ hold
        BY <1>1, <1>2, <2>1
    <2>2. CASE ~(session.deferred = None \/ hold) /\ input = None
        BY <1>1, <1>2, <2>2
    <2>3. CASE ~(session.deferred = None \/ hold) /\ input # None
        BY <1>1, <1>2, <1>3, <2>3
    <2> QED
        BY <2>1, <2>2, <2>3
<1> HIDE DEF taken
<1>5. /\ AnsweredBy(in) \subseteq OpenRequests(session)
      /\ AnsweredBy(taken) \cap OpenRequests(session) \subseteq AnsweredBy(in)
      /\ MessageOf(taken) \subseteq MessageOf(in)
    BY <1>1, <1>4, DropStaleType, DropStaleHolds
<1>6. /\ pc = "step" /\ pc' = "coordinate" /\ input' = in
      /\ saved' = Start /\ UNCHANGED <<unsent, prompt>>
    BY DEF BeginStep, taken, bounded
<1>7. session' = s
    BY <1>1 DEF BeginStep, taken, SessionType
<1> HIDE DEF in, deferred
<1>8. /\ s.batches = session.batches /\ s.asked = session.asked
      /\ s.answered = session.answered \cup AnsweredBy(in)
      /\ Passed(s) = Passed(session) /\ s.unread = session.unread /\ s.deferred = deferred
      /\ Settled(s) = Settled(session)
    BY <1>1 DEF SessionType, Passed, Settled
<1> HIDE DEF s
<1>9. OpenRequests(s) = OpenRequests(session)
    BY <1>8 DEF OpenRequests
<1>10. /\ SessionKeeps(session) /\ TextsAreMessages(prompt)
       /\ AnswersHeld(session, None) /\ MessagesHeld(session, session.unread, input)
    BY <1>6 DEF KInv
<1>11. SessionKeeps(s)
    <2>1. \A r \in AnsweredBy(in) : \E b \in ToSet(session.asked) : r \in Asks[b]
        BY <1>5, <1>10 DEF OpenRequests, SessionKeeps, AskedFirst
    <2> QED
        BY <1>8, <1>10, <2>1 DEF SessionKeeps, AskedFirst
<1>12. AnswersHeld(s, in)
    BY <1>2, <1>4, <1>5, <1>8, <1>9, <1>10 DEF AnswersHeld
<1>13. Texts \ unsent \subseteq (Passed(s) \cup OfAll(s.unread)) \cup (MessageOf(deferred) \cup MessageOf(in))
    BY <1>4, <1>5, <1>8, <1>10 DEF MessagesHeld
<1>14. SessionKeeps(session)' /\ AnswersHeld(session, input)'
    BY <1>6, <1>7, <1>11, <1>12 DEF SessionKeeps, AskedFirst, TextsAreMessages, AnswersHeld,
                                    OpenRequests, Settled, AnsweredBy
<1>15. MessagesHeld(session, session.unread, input)'
    BY <1>6, <1>7, <1>8, <1>13 DEF MessagesHeld, Passed, OfAll, MessageOf
<1>16. SavedKeeps(saved)'
    <2>1. PICK start : start = Start
        OBVIOUS
    <2>2. SavedKeeps(start)
        BY <1>6, <2>1, StartHolds
    <2> QED
        BY <1>6, <2>1, <2>2, SavedHolds
<1>17. TextsAreMessages(prompt)'
    BY <1>6, <1>10 DEF TextsAreMessages
<1> QED
    BY <1>6, <1>14, <1>15, <1>16, <1>17 DEF KInv

(* What coordination starts with holds what the step held.                 *)
LEMMA CoordinatesMail ==
    ASSUME IInv, KInv, pc = "coordinate", NEW expired,
           NEW s, s = Expire(session, expired),
           NEW in, in = RemoveResponses(input, Settled(s))
    PROVE  SessionKeeps(s) /\ AnswersHeld(s, in) /\ MessagesHeld(s, s.unread, in)
<1>1. session \in SessionType /\ input \in StepInputs \cup {None}
    BY DEF IInv, TypeOK
<1>2. SameMail(session, s) /\ s \in SessionType
    BY <1>1, ExpireMail, ExpireType
<1>3. SessionKeeps(session) /\ AnswersHeld(session, input) /\ MessagesHeld(session, session.unread, input)
    BY DEF KInv
<1>4. SessionKeeps(s) /\ AnswersHeld(s, input) /\ MessagesHeld(s, s.unread, input)
    BY <1>2, <1>3, SameMailHolds DEF SameMail
<1>5. Settled(s) \in SUBSET Requests
    BY <1>2 DEF Settled, SessionType
<1>6. AnsweredBy(in) = AnsweredBy(input) \ Settled(s) /\ MessageOf(in) = MessageOf(input)
    BY <1>1, <1>5, AnsweredByRemoved, RemoveHolds
<1> QED
    BY <1>4, <1>6 DEF AnswersHeld, MessagesHeld

LEMMA NothingToCoordinateHolds ==
    ASSUME IInv, KInv, NEW expired, NothingToCoordinate(expired)
    PROVE  KInv'
<1> DEFINE s == Expire(session, expired)
           in == RemoveResponses(input, Settled(session))
<1>1. /\ pc = "coordinate" /\ Proceed(s, in) /\ unsent' = unsent
      /\ Settled(s) = Settled(session)
    BY ExpireKeeps DEF NothingToCoordinate, bounded, IInv, TypeOK
<1>2. SessionKeeps(s) /\ AnswersHeld(s, in) /\ MessagesHeld(s, s.unread, in)
    BY <1>1, CoordinatesMail
<1> HIDE DEF s, in
<1> QED
    BY <1>1, <1>2, ProceedHolds

LEMMA CoordinateResponsesHolds ==
    ASSUME IInv, KInv, NEW expired, CoordinateResponses(expired)
    PROVE  KInv'
<1> DEFINE s == Expire(session, expired)
           in == RemoveResponses(input, Settled(s))
           consumed == AnsweredBy(in) \cap OpenRequests(s) \cap Guarded
           taken == TakeResponses(s, in)
           remaining == RemoveResponses(in, consumed)
<1>1. /\ pc = "coordinate" /\ unsent' = unsent
      /\ \/ ContinueCoordination(taken, remaining)
         \/ Proceed(taken, remaining)
    BY DEF CoordinateResponses, bounded
<1>2. /\ SessionKeeps(s) /\ AnswersHeld(s, in) /\ MessagesHeld(s, s.unread, in)
      /\ s \in SessionType /\ in \in StepInputs \cup {None}
      /\ AnsweredBy(in) \subseteq OpenRequests(s) \ Settled(s)
    BY <1>1, CoordinatesMail, Coordinates
<1> HIDE DEF s, in
<1>3. taken \in SessionType /\ SameMail(s, taken)
    BY <1>2, TakeResponsesType, TakeResponsesMail DEF IInv, TypeOK
<1>4. consumed \in SUBSET Requests /\ consumed \subseteq Guarded
    BY DEF AnsweredBy
<1> HIDE DEF taken, consumed
<1>5. /\ remaining \in StepInputs \cup {None}
      /\ AnsweredBy(remaining) = AnsweredBy(in) \ consumed
      /\ MessageOf(remaining) = MessageOf(in)
    BY <1>2, <1>4, AnsweredByRemoved, RemoveHolds
<1> HIDE DEF remaining
<1>6. SessionKeeps(taken) /\ AnswersHeld(taken, in) /\ MessagesHeld(taken, taken.unread, in)
    BY <1>2, <1>3, SameMailHolds DEF SameMail
<1>7. AnswersHeld(taken, remaining) /\ MessagesHeld(taken, taken.unread, remaining)
    BY <1>4, <1>5, <1>6 DEF AnswersHeld, MessagesHeld
<1> QED
    BY <1>1, <1>3, <1>5, <1>6, <1>7, ContinueHolds, ProceedHolds

LEMMA AuthorizeCandidatesHolds ==
    ASSUME IInv, KInv, NEW expired, AuthorizeCandidates(expired)
    PROVE  KInv'
<1> DEFINE s == Expire(session, expired)
           in == RemoveResponses(input, Settled(s))
           due == {c \in s.pending \cup (s.required \cap callbacks) : c[1] \in OpenRequests(s)}
<1>1. PICK verdict \in [due -> {"allowed", "rejected", "challenged"}] :
        LET with(v) == {c \in due : verdict[c] = v}
            t == Settle([s EXCEPT !.pending = @ \ due,
                                  !.required = (@ \ due) \cup with("challenged")],
                        {c[1] : c \in with("allowed")}, {})
            settled == Settled(t) \cap OpenRequests(t)
            resumed == AppendSettled(in, settled, t)
            unannounced == t.required \ t.announced
        IN  IF settled # {} THEN Proceed(t, resumed)
            ELSE IF due # {} THEN ContinueCoordination(t, resumed)
            ELSE IF unannounced # {}
            THEN Park([(IF resumed = None THEN t ELSE Queue(t, resumed))
                         EXCEPT !.announced = @ \cup unannounced])
            ELSE Proceed(t, resumed)
    BY DEF AuthorizeCandidates
<1>2. pc = "coordinate" /\ unsent' = unsent
    BY DEF AuthorizeCandidates, bounded
<1>3. /\ SessionKeeps(s) /\ AnswersHeld(s, in) /\ MessagesHeld(s, s.unread, in)
      /\ s \in SessionType /\ in \in StepInputs \cup {None}
    BY <1>2, CoordinatesMail, Coordinates
<1> HIDE DEF s
<1> DEFINE challenged == {c \in due : verdict[c] = "challenged"}
           allowed == {c[1] : c \in {d \in due : verdict[d] = "allowed"}}
           judged == [s EXCEPT !.pending = @ \ due, !.required = (@ \ due) \cup challenged]
           t == Settle(judged, allowed, {})
           settled == Settled(t) \cap OpenRequests(t)
           resumed == AppendSettled(in, settled, t)
           unannounced == t.required \ t.announced
           queued == IF resumed = None THEN t ELSE Queue(t, resumed)
           parked == [queued EXCEPT !.announced = @ \cup unannounced]
<1>4. \/ Proceed(t, resumed)
      \/ ContinueCoordination(t, resumed)
      \/ Park(parked)
    BY <1>1
<1>5. due \subseteq Candidate
    BY <1>3 DEF SessionType
<1>6. judged \in SessionType /\ SameMail(s, judged)
    BY <1>3, <1>5 DEF SessionType, SameMail, Passed, Settled
<1>7. allowed \in SUBSET Requests
    BY <1>5 DEF Candidate
<1> HIDE DEF in, due, allowed, judged
<1>8. t \in SessionType /\ SameMail(judged, t)
    BY <1>6, <1>7, SettleType, SettleMail
<1> HIDE DEF t
<1>9. settled \in SUBSET Requests /\ settled \subseteq Settled(t)
    BY <1>8 DEF Settled, SessionType
<1> HIDE DEF settled
<1>10. /\ resumed \in StepInputs \cup {None}
       /\ AnsweredBy(in) \ settled \subseteq AnsweredBy(resumed)
       /\ MessageOf(resumed) = MessageOf(in)
    BY <1>3, <1>8, <1>9, AppendSettledType, AppendSettledHolds
<1> HIDE DEF resumed
<1>11. SessionKeeps(t) /\ AnswersHeld(t, in) /\ MessagesHeld(t, t.unread, in)
    <2>1. SameMail(s, t)
        BY <1>6, <1>8 DEF SameMail
    <2> QED
        BY <1>3, <2>1, SameMailHolds DEF SameMail
<1>12. AnswersHeld(t, resumed) /\ MessagesHeld(t, t.unread, resumed)
    BY <1>9, <1>10, <1>11 DEF AnswersHeld, MessagesHeld
<1>13. /\ SessionKeeps(queued) /\ AnswersHeld(queued, None)
       /\ MessagesHeld(queued, queued.unread, None)
    BY <1>8, <1>10, <1>11, <1>12, QueueKeepsMail
<1>14. queued \in SessionType
    BY <1>8, <1>10, QueueType
<1> HIDE DEF queued
<1>15. SameMail(queued, parked)
    BY <1>14 DEF SameMail, Passed, SessionType, Settled
<1> HIDE DEF parked
<1>16. SessionKeeps(parked) /\ AnswersHeld(parked, None) /\ MessagesHeld(parked, parked.unread, None)
    BY <1>13, <1>15, SameMailHolds DEF SameMail
<1> QED
    BY <1>2, <1>4, <1>8, <1>10, <1>11, <1>12, <1>16, ProceedHolds, ContinueHolds, ParkHolds

(* What a resolution has to hold.                                          *)
LEMMA ResolveMail ==
    ASSUME IInv, KInv, pc = "resolve"
    PROVE  /\ session \in SessionType /\ input \in StepInputs \cup {None}
           /\ StepInput \in StepInputs /\ MessageOf(StepInput) = StepInput.message
           /\ StepInput.message \in SUBSET (Texts \cup Requests)
           /\ SessionKeeps(session) /\ AnswersHeld(session, input)
           /\ AnswersHeld(session, StepInput)
           /\ MessagesHeld(session, session.unread, input)
<1>1. session \in SessionType /\ input \in StepInputs \cup {None}
    BY DEF IInv, TypeOK
<1>2. StepInput \in StepInputs /\ AnsweredBy(input) \subseteq AnsweredBy(StepInput)
    BY <1>1, StepInputType, StepInputHolds DEF Decided
<1>3. /\ SessionKeeps(session) /\ AnswersHeld(session, input)
      /\ MessagesHeld(session, session.unread, input)
    BY DEF KInv
<1>4. AnswersHeld(session, StepInput)
    BY <1>2, <1>3 DEF AnswersHeld
<1>5. MessageOf(StepInput) = StepInput.message /\ StepInput.message \in SUBSET (Texts \cup Requests)
    BY <1>2, InputKinds DEF MessageOf, StepInputs
<1> QED
    BY <1>1, <1>2, <1>3, <1>4, <1>5

LEMMA UnresolvedHolds ==
    ASSUME IInv, KInv, pc = "resolve", NEW s \in SessionType, Unresolved(s),
           SessionKeeps(s), AnswersHeld(s, None),
           Passed(s) = Passed(session), OfAll(session.unread) \subseteq OfAll(s.unread),
           MessageOf(session.deferred) \cup MessageOf(StepInput) \subseteq MessageOf(s.deferred)
    PROVE  KInv'
<1> DEFINE t == Heed(s)
<1>1. /\ input \in StepInputs \cup {None}
      /\ MessagesHeld(session, session.unread, input)
    BY ResolveMail
<1>2. /\ t \in SessionType /\ t.batches = s.batches /\ t.unread = s.unread /\ t.allowed = s.allowed
      /\ t.deferred = s.deferred /\ t.asked = s.asked
      /\ t.answered = s.answered /\ t.cancelled = s.cancelled
      /\ Passed(s) \subseteq Passed(t)
      /\ MessageOf(input) \subseteq Passed(t) \cup MessageOf(StepInput)
    BY <1>1, HeedKeeps, StepInputHolds
<1>3. Park(t) /\ unsent' = unsent
    BY DEF Unresolved, bounded
<1> HIDE DEF t
<1>4. SessionKeeps(t) /\ AnswersHeld(t, None)
    BY <1>2 DEF SessionKeeps, AskedFirst, AnswersHeld, OpenRequests, Settled
<1>5. MessagesHeld(t, t.unread, None)
    <2>1. Texts \ unsent \subseteq (Passed(session) \cup OfAll(session.unread))
                                      \cup (MessageOf(session.deferred) \cup MessageOf(input))
        BY <1>1 DEF MessagesHeld
    <2>2. Passed(session) \subseteq Passed(t)
        BY <1>2
    <2>3. MessageOf(session.deferred) \cup MessageOf(input) \subseteq Passed(t) \cup MessageOf(t.deferred)
        BY <1>2
    <2>4. OfAll(session.unread) \subseteq OfAll(t.unread)
        BY <1>2
    <2> QED
        BY <2>1, <2>2, <2>3, <2>4 DEF MessagesHeld
<1> QED
    BY <1>3, <1>4, <1>5, ParkHolds

LEMMA RestingHolds ==
    ASSUME IInv, KInv, DeferWhole \/ NothingSaid \/ LimitUnanswered \/ HoldAnswers
    PROVE  KInv'
<1>1. /\ pc = "resolve"
      /\ \/ Unresolved(session) /\ ~Said /\ Decided = {}
         \/ Unresolved(Queue(session, StepInput))
         \/ \E added \in Preamble(session) :
                Unresolved(Extended(Queue(session, StepInput), added, FALSE))
    BY DEF DeferWhole, NothingSaid, LimitUnanswered, HoldAnswers, Addressed, Resolving, Extended
<1>2. /\ session \in SessionType /\ StepInput \in StepInputs
      /\ MessageOf(StepInput) = StepInput.message
      /\ SessionKeeps(session) /\ AnswersHeld(session, StepInput)
    BY <1>1, ResolveMail
<1>3. CASE Unresolved(session) /\ ~Said /\ Decided = {}
    <2>1. AnswersHeld(session, None)
        BY <1>2, <1>3 DEF AnswersHeld, Decided
    <2>2. MessageOf(StepInput) = {}
        BY <1>2, <1>3 DEF Said
    <2> QED
        BY <1>1, <1>2, <1>3, <2>1, <2>2, UnresolvedHolds
<1> DEFINE queued == Queue(session, StepInput)
<1>4. /\ queued \in SessionType /\ SessionKeeps(queued) /\ AnswersHeld(queued, None)
      /\ Passed(queued) = Passed(session) /\ queued.unread = session.unread
      /\ queued.inTurn = session.inTurn
      /\ MessageOf(queued.deferred) = MessageOf(session.deferred) \cup MessageOf(StepInput)
    <2>1. queued \in SessionType /\ SessionKeeps(queued) /\ AnswersHeld(queued, None)
        BY <1>2, QueueType, QueueKeepsMail, InputKinds
    <2>2. queued.inTurn = session.inTurn
        BY <1>2 DEF Queue, SessionType
    <2> QED
        BY <1>2, <2>1, <2>2, QueueHolds, QueueKeeps
<1>5. CASE Unresolved(queued)
    <2> HIDE DEF queued
    <2> QED
        BY <1>1, <1>4, <1>5, UnresolvedHolds
<1>6. CASE \E added \in Preamble(session) : Unresolved(Extended(queued, added, FALSE))
    <2>1. PICK added \in Preamble(session) : Unresolved(Extended(queued, added, FALSE))
        BY <1>6
    <2> HIDE DEF queued
    <2>2. added \in Preamble(queued)
        BY <1>4 DEF Preamble
    <2> DEFINE s == Extended(queued, added, FALSE)
    <2>3. /\ SessionKeeps(s) /\ AnswersHeld(s, None) /\ Passed(s) = Passed(queued)
          /\ s.deferred = queued.deferred /\ OfAll(queued.unread) \subseteq OfAll(s.unread)
        BY <1>4, <2>2, ExtendedMail
    <2>4. s \in SessionType
        <3>1. added \in Seq(Items)
            BY <2>2, ContextMail
        <3>2. queued.unread \o added \in Seq(Items)
            BY <1>4, <3>1 DEF SessionType
        <3> QED
            BY <1>4, <3>2 DEF Extended, SessionType
    <2>5. Unresolved(s)
        BY <2>1
    <2> HIDE DEF s
    <2> QED
        BY <1>1, <1>4, <2>3, <2>4, <2>5, UnresolvedHolds
<1> QED
    BY <1>1, <1>3, <1>5, <1>6

LEMMA FinishHolds ==
    ASSUME IInv, KInv, pc = "resolve", NEW s \in SessionType, SameMail(session, s),
           NEW bs, NEW items \in Seq(Items), TextsAreMessages(items), NEW defer,
           FinishResolved(s, bs, items, defer)
    PROVE  KInv'
<1> DEFINE rest == Close(s, bs)
           leftover == Only(StepInput, OpenRequests(rest))
           deferred == IF defer THEN leftover ELSE [leftover EXCEPT !.message = {}]
           kept == IF deferred = EmptyInput THEN rest ELSE Queue(rest, deferred)
           message == IF defer THEN {} ELSE StepInput.message
<1>1. CallModel(kept, items, message)
    BY DEF FinishResolved
<1>2. /\ StepInput \in StepInputs /\ MessageOf(StepInput) = StepInput.message
      /\ StepInput.message \in SUBSET (Texts \cup Requests)
      /\ SessionKeeps(s) /\ AnswersHeld(s, StepInput)
    BY ResolveMail, SameMailHolds
<1>3. /\ rest \in SessionType
      /\ rest.batches = s.batches \ bs /\ rest.asked = s.asked /\ rest.answered = s.answered
      /\ Passed(rest) = Passed(s) /\ rest.unread = s.unread /\ rest.deferred = s.deferred
      /\ Settled(rest) = Settled(s)
    BY CloseType DEF Close, SessionType, Passed, Settled
<1> HIDE DEF rest
<1>4. SessionKeeps(rest) /\ OpenRequests(rest) \subseteq OpenRequests(s)
    BY <1>2, <1>3 DEF SessionKeeps, AskedFirst, OpenRequests
<1>5. /\ leftover \in StepInputs
      /\ AnsweredBy(leftover) = AnsweredBy(StepInput) \cap OpenRequests(rest)
      /\ MessageOf(leftover) = MessageOf(StepInput)
    BY <1>2, OnlyType, OnlyHolds
<1> HIDE DEF leftover
<1>6. /\ deferred \in StepInputs
      /\ AnsweredBy(deferred) = AnsweredBy(leftover)
      /\ MessageOf(StepInput) \ message \subseteq MessageOf(deferred)
    <2>1. CASE defer
        BY <1>5, <2>1
    <2>2. CASE ~defer
        <3>1. deferred \in StepInputs /\ deferred.responses = leftover.responses
            BY <1>5, <2>2 DEF StepInputs
        <3>2. AnsweredBy(deferred) = AnsweredBy(leftover)
            BY <1>5, <3>1, InputKinds DEF AnsweredBy
        <3>3. MessageOf(StepInput) \ message = {}
            BY <1>2, <2>2
        <3> QED
            BY <3>1, <3>2, <3>3
    <2> QED
        BY <2>1, <2>2
<1> HIDE DEF deferred
<1>7. AnswersHeld(rest, deferred)
    BY <1>2, <1>3, <1>4, <1>5, <1>6 DEF AnswersHeld
<1>8. /\ kept \in SessionType /\ SessionKeeps(kept) /\ AnswersHeld(kept, None)
      /\ Passed(kept) = Passed(rest) /\ kept.unread = rest.unread
      /\ MessageOf(rest.deferred) \cup MessageOf(deferred) \subseteq MessageOf(kept.deferred)
    <2>1. CASE deferred = EmptyInput
        <3>1. AnsweredBy(deferred) = {} /\ MessageOf(deferred) = {}
            BY <2>1, EmptyInputType, InputKinds DEF AnsweredBy, MessageOf, EmptyInput, NoAnswers
        <3>2. AnswersHeld(rest, None)
            BY <1>7, <3>1 DEF AnswersHeld
        <3> QED
            BY <1>3, <1>4, <2>1, <3>1, <3>2
    <2>2. CASE deferred # EmptyInput
        <3>1. kept = Queue(rest, deferred) /\ deferred # None
            BY <1>6, <2>2, InputKinds
        <3>2. /\ Passed(kept) = Passed(rest) /\ kept.unread = rest.unread
              /\ MessageOf(kept.deferred) = MessageOf(rest.deferred) \cup MessageOf(deferred)
            BY <1>3, <1>6, <3>1, QueueHolds, QueueKeeps
        <3>3. kept \in SessionType /\ SessionKeeps(kept) /\ AnswersHeld(kept, None)
            BY <1>3, <1>4, <1>6, <1>7, <3>1, QueueType, QueueKeepsMail
        <3> QED
            BY <3>2, <3>3
    <2> QED
        BY <2>1, <2>2
<1> HIDE DEF kept
<1>9. message \in SUBSET (Texts \cup Requests)
    BY <1>2
<1>10. MessageOf(session.deferred) \cup (MessageOf(StepInput) \ message) \subseteq MessageOf(kept.deferred)
    BY <1>3, <1>6, <1>8 DEF SameMail
<1>11. Passed(kept) = Passed(session) /\ kept.unread = session.unread
    BY <1>3, <1>8 DEF SameMail
<1> HIDE DEF message
<1> QED
    BY <1>1, <1>8, <1>9, <1>10, <1>11, CallModelHolds

LEMMA LimitGrantedHolds ==
    ASSUME IInv, KInv, LimitGranted
    PROVE  KInv'
<1> DEFINE s == [session EXCEPT !.exhausted = FALSE]
           defer == HasTailApproval(session.unread)
<1>1. pc = "resolve" /\ FinishResolved(s, {LimitBatch}, <<>>, defer)
    BY DEF LimitGranted, Addressed, Resolving
<1>2. s \in SessionType /\ SameMail(session, s)
    BY DEF IInv, TypeOK, SessionType, SameMail, Passed, Settled
<1>3. <<>> \in Seq(Items) /\ TextsAreMessages(<<>>)
    BY DEF TextsAreMessages, ToSet
<1> HIDE DEF s, defer
<1> QED
    BY <1>1, <1>2, <1>3, FinishHolds

LEMMA ResolveBatchesHolds ==
    ASSUME IInv, KInv, ResolveBatches
    PROVE  KInv'
<1> DEFINE approvals == {b \in Resolvable : IsApprovalBatch(b)}
           asked == Transcript("question", Resolvable \ approvals)
           approved == Transcript("approval", approvals)
           defer == approvals # {} \/ HasTailApproval(session.unread)
<1>1. pc = "resolve" /\ FinishResolved(session, Resolvable, asked \o approved, defer)
    BY DEF ResolveBatches, Addressed, Resolving
<1>2. approvals \in SUBSET Batches /\ Resolvable \ approvals \in SUBSET Batches
    BY DEF Resolvable, IInv, TypeOK, SessionType
<1>3. asked \in Seq(Items) /\ approved \in Seq(Items)
    BY <1>1, <1>2, TranscriptType
<1>4. ASSUME NEW kind \in {"question", "approval"}, NEW bs \in SUBSET Batches
      PROVE  TextsAreMessages(Transcript(kind, bs))
    <2> DEFINE of == {r \in (UNION {Asks[b] : b \in bs}) \cap Decided :
                        KindOf[r] = kind /\ (kind = "approval" => Decision(r) = "yes")}
    <2>1. of \cap Texts = {}
        BY TextsAssumption DEF Decided, AnsweredBy
    <2>2. Transcript(kind, bs) = IF bs = {} THEN <<>> ELSE <<Item(kind, of)>>
        BY DEF Transcript
    <2> HIDE DEF of
    <2>3. ToSet(Transcript(kind, bs)) \subseteq {Item(kind, of)}
        BY <2>2 DEF ToSet
    <2> QED
        BY <2>1, <2>3 DEF TextsAreMessages, Item
<1>5. TextsAreMessages(asked) /\ TextsAreMessages(approved)
    BY <1>2, <1>4
<1>6. SameMail(session, session) /\ session \in SessionType
    BY DEF SameMail, IInv, TypeOK
<1> HIDE DEF asked, approved, defer
<1>7. asked \o approved \in Seq(Items) /\ TextsAreMessages(asked \o approved)
    BY <1>3, <1>5, Concatenation, OfConcatenation
<1> QED
    BY <1>1, <1>6, <1>7, FinishHolds

LEMMA PlainCallHolds ==
    ASSUME IInv, KInv, pc = "resolve", NEW s \in SessionType, SessionKeeps(s),
           AnswersHeld(s, None),
           Passed(s) = Passed(session), s.unread = session.unread,
           MessageOf(session.deferred) \subseteq MessageOf(s.deferred),
           NEW items \in {<<>>, <<Item("question", {})>>},
           CallModel(s, items, StepInput.message)
    PROVE  KInv'
<1>1. items \in Seq(Items) /\ TextsAreMessages(items)
    <2>1. ToSet(items) \subseteq {Item("question", {})}
        BY DEF ToSet
    <2>2. Item("question", {}).of = {}
        BY DEF Item
    <2>3. TextsAreMessages(items)
        BY <2>1, <2>2 DEF TextsAreMessages
    <2>4. items = <<>> \/ items = <<Item("question", {})>>
        OBVIOUS
    <2>5. items \in Seq(Items)
        BY <2>4, PlainItems
    <2> QED
        BY <2>3, <2>5
<1>2. /\ MessageOf(StepInput) = StepInput.message
      /\ StepInput.message \in SUBSET (Texts \cup Requests)
    BY ResolveMail
<1> DEFINE message == StepInput.message
<1>3. CallModel(s, items, message) /\ message \in SUBSET (Texts \cup Requests)
    BY <1>2
<1>4. MessageOf(session.deferred) \cup (MessageOf(StepInput) \ message) \subseteq MessageOf(s.deferred)
    BY <1>2
<1> HIDE DEF message
<1> QED
    BY <1>1, <1>3, <1>4, CallModelHolds

LEMMA NothingOpenHolds ==
    ASSUME IInv, KInv, NothingOpen
    PROVE  KInv'
<1>1. pc = "resolve" /\ session.batches = {} /\ CallModel(session, <<>>, StepInput.message)
    BY DEF NothingOpen
<1>2. AnswersHeld(session, None)
    BY <1>1 DEF AnswersHeld, OpenRequests
<1> QED
    BY <1>1, <1>2, ResolveMail, PlainCallHolds

LEMMA DismissQuestionHolds ==
    ASSUME IInv, KInv, DismissQuestion
    PROVE  KInv'
<1> DEFINE s == Close(session, session.batches)
<1>1. pc = "resolve" /\ CallModel(s, <<Item("question", {})>>, StepInput.message)
    BY DEF DismissQuestion, Addressed, Resolving
<1>2. session \in SessionType /\ SessionKeeps(session)
    BY <1>1, ResolveMail
<1>3. /\ s \in SessionType /\ s.batches = {} /\ s.asked = session.asked
      /\ s.answered = session.answered /\ s.deferred = session.deferred
      /\ Passed(s) = Passed(session) /\ s.unread = session.unread
    BY <1>2, CloseType DEF Close, SessionType, Passed
<1> HIDE DEF s
<1>4. SessionKeeps(s) /\ AnswersHeld(s, None)
    BY <1>2, <1>3 DEF SessionKeeps, AskedFirst, AnswersHeld, OpenRequests
<1> QED
    BY <1>1, <1>3, <1>4, PlainCallHolds

LEMMA PassByHolds ==
    ASSUME IInv, KInv, PassBy
    PROVE  KInv'
<1> DEFINE answers == [StepInput EXCEPT !.message = {}]
           s == IF Decided = {} THEN session ELSE Queue(session, answers)
<1>1. pc = "resolve" /\ CallModel(s, <<>>, StepInput.message)
    BY DEF PassBy, Addressed, Resolving
<1>2. /\ session \in SessionType /\ StepInput \in StepInputs
      /\ SessionKeeps(session) /\ AnswersHeld(session, StepInput)
    BY <1>1, ResolveMail
<1>3. answers \in StepInputs /\ AnsweredBy(answers) = Decided
    <2>1. answers \in StepInputs /\ answers.responses = StepInput.responses
        BY <1>2 DEF StepInputs
    <2> QED
        BY <1>2, <2>1, InputKinds DEF AnsweredBy, Decided
<1> HIDE DEF answers
<1>4. /\ s \in SessionType /\ SessionKeeps(s) /\ AnswersHeld(s, None)
      /\ Passed(s) = Passed(session) /\ s.unread = session.unread
      /\ MessageOf(session.deferred) \subseteq MessageOf(s.deferred)
    <2>1. CASE Decided = {}
        <3>1. AnswersHeld(session, None)
            BY <1>2, <2>1 DEF AnswersHeld, Decided
        <3> QED
            BY <1>2, <2>1, <3>1
    <2>2. CASE Decided # {}
        <3>1. AnswersHeld(session, answers)
            BY <1>2, <1>3 DEF AnswersHeld, Decided
        <3>2. s = Queue(session, answers) /\ answers # None
            BY <1>3, <2>2, InputKinds
        <3>3. s \in SessionType /\ SessionKeeps(s) /\ AnswersHeld(s, None)
            BY <1>2, <1>3, <3>1, <3>2, QueueType, QueueKeepsMail
        <3> QED
            BY <1>2, <1>3, <3>2, <3>3, QueueHolds, QueueKeeps
    <2> QED
        BY <2>1, <2>2
<1> HIDE DEF s
<1> QED
    BY <1>1, <1>4, PlainCallHolds

(***************************************************************************)
(* The model call.                                                         *)
(***************************************************************************)
LEMMA FinishTurnMail ==
    ASSUME NEW s \in SessionType
    PROVE  SameMail(s, FinishTurn(s)) /\ FinishTurn(s) \in SessionType
BY DEF FinishTurn, SameMail, SessionType, Passed, Settled

LEMMA CalledHolds ==
    ASSUME IInv, KInv, pc = "model", NEW overdrawn \in BOOLEAN
    PROVE  /\ Called(overdrawn) \in SessionType
           /\ SessionKeeps(Called(overdrawn)) /\ AnswersHeld(Called(overdrawn), None)
           /\ Texts \ unsent \subseteq Passed(Called(overdrawn)) \cup MessageOf(session.deferred)
           /\ Called(overdrawn).asked = session.asked
           /\ Called(overdrawn).deferred = session.deferred
           /\ Called(overdrawn).unread = <<>>
<1> DEFINE s == Called(overdrawn)
           heard == Given(prompt)
<1>1. session \in SessionType /\ s \in SessionType
    BY CalledKeeps DEF IInv, TypeOK
<1>2. /\ s.batches = session.batches /\ s.asked = session.asked
      /\ s.answered = session.answered /\ s.deferred = session.deferred
      /\ s.allowed = session.allowed /\ s.cancelled = session.cancelled
      /\ Passed(s) = Passed(session) \cup heard /\ s.unread = <<>>
    BY <1>1 DEF Called, SessionType, Passed
<1>3. /\ SessionKeeps(session) /\ AnswersHeld(session, None) /\ TextsAreMessages(prompt)
      /\ MessagesHeld(session, prompt, None)
    BY DEF KInv
<1>4. OfAll(prompt) \cap Texts \subseteq heard
    BY <1>3 DEF OfAll, TextsAreMessages, Given
<1>5. Texts \ unsent \subseteq Passed(s) \cup MessageOf(session.deferred)
    <2>1. Texts \ unsent \subseteq (Passed(session) \cup OfAll(prompt)) \cup MessageOf(session.deferred)
        BY <1>3 DEF MessagesHeld, MessageOf
    <2> QED
        BY <1>2, <1>4, <2>1
<1>6. SessionKeeps(s) /\ AnswersHeld(s, None)
    <2>1. ToSet(<<>>) = {}
        BY DEF ToSet
    <2> QED
        BY <1>2, <1>3, <2>1 DEF SessionKeeps, AskedFirst, TextsAreMessages, AnswersHeld, OpenRequests,
                                Settled
<1> QED
    BY <1>1, <1>2, <1>5, <1>6

LEMMA AppendAsked ==
    ASSUME NEW s \in SessionType, NEW b \in Batches
    PROVE  /\ ToSet(OpenBatch(s, b).asked) = ToSet(s.asked) \cup {b}
           /\ OpenBatch(s, b).batches = s.batches \cup {b}
           /\ OpenBatch(s, b).answered = s.answered /\ OpenBatch(s, b).deferred = s.deferred
           /\ Passed(OpenBatch(s, b)) = Passed(s) /\ OpenBatch(s, b).unread = s.unread
           /\ Settled(OpenBatch(s, b)) = Settled(s)
<1> DEFINE a == s.asked
           longer == Append(a, b)
<1>1. /\ OpenBatch(s, b).asked = IF b \in ToSet(a) THEN a ELSE longer
      /\ OpenBatch(s, b).batches = s.batches \cup {b}
      /\ OpenBatch(s, b).answered = s.answered /\ OpenBatch(s, b).deferred = s.deferred
      /\ Passed(OpenBatch(s, b)) = Passed(s) /\ OpenBatch(s, b).unread = s.unread
      /\ Settled(OpenBatch(s, b)) = Settled(s)
    BY DEF OpenBatch, SessionType, Passed, Settled
<1>2. a \in Seq(Batches)
    BY DEF SessionType
<1> HIDE DEF a
<1>3. /\ DOMAIN longer = 1 .. (Len(a) + 1) /\ DOMAIN a = 1 .. Len(a) /\ Len(a) \in Nat
      /\ \A i \in DOMAIN a : longer[i] = a[i]
      /\ longer[Len(a) + 1] = b
    BY <1>2
<1> HIDE DEF longer
<1>4. ToSet(longer) = ToSet(a) \cup {b}
    <2>1. \A i \in DOMAIN longer : i \in DOMAIN a \/ i = Len(a) + 1
        BY <1>3
    <2>2. \A i \in DOMAIN a : i \in DOMAIN longer
        BY <1>3
    <2>3. Len(a) + 1 \in DOMAIN longer
        BY <1>3
    <2>4. ToSet(longer) \subseteq ToSet(a) \cup {b}
        BY <1>3, <2>1 DEF ToSet
    <2>5. ToSet(a) \subseteq ToSet(longer) /\ b \in ToSet(longer)
        BY <1>3, <2>2, <2>3 DEF ToSet
    <2> QED
        BY <2>4, <2>5
<1> QED
    BY <1>1, <1>4 DEF a

LEMMA ParkOnLimitHolds ==
    ASSUME IInv, KInv, ParkOnLimit
    PROVE  KInv'
<1> DEFINE batched == OpenBatch(session, LimitBatch)
           opened == FinishTurn(batched)
           s == [opened EXCEPT !.unread = prompt, !.answered = @ \ Asks[LimitBatch]]
<1>1. pc = "model" /\ Park(s) /\ unsent' = unsent
    BY DEF ParkOnLimit, bounded
<1>2. session \in SessionType /\ LimitBatch \in Batches /\ prompt \in Seq(Items)
    BY BatchesAssumption DEF IInv, TypeOK
<1>3. /\ opened \in SessionType
      /\ ToSet(opened.asked) = ToSet(session.asked) \cup {LimitBatch}
      /\ opened.batches = session.batches \cup {LimitBatch}
      /\ opened.answered = session.answered /\ opened.deferred = session.deferred
      /\ Passed(opened) = Passed(session)
      /\ Settled(session) \subseteq Settled(opened)
    <2>1. batched \in SessionType
        BY <1>2, OpenBatchType
    <2>2. SameMail(batched, opened) /\ opened \in SessionType
        BY <2>1, FinishTurnMail
    <2>3. /\ ToSet(batched.asked) = ToSet(session.asked) \cup {LimitBatch}
          /\ batched.batches = session.batches \cup {LimitBatch}
          /\ batched.answered = session.answered /\ batched.deferred = session.deferred
          /\ Passed(batched) = Passed(session) /\ Settled(batched) = Settled(session)
        BY <1>2, AppendAsked
    <2> QED
        BY <2>2, <2>3 DEF SameMail
<1> HIDE DEF batched, opened
<1>4. /\ s.asked = opened.asked /\ s.batches = opened.batches
      /\ s.answered = opened.answered \ Asks[LimitBatch] /\ s.deferred = opened.deferred
      /\ Passed(s) = Passed(opened) /\ s.unread = prompt
      /\ Settled(s) = Settled(opened)
    BY <1>3 DEF SessionType, Passed, Settled
<1> HIDE DEF s
<1>5. /\ SessionKeeps(session) /\ AnswersHeld(session, None) /\ TextsAreMessages(prompt)
      /\ MessagesHeld(session, prompt, None)
    BY <1>1 DEF KInv
<1>6. SessionKeeps(s)
    BY <1>3, <1>4, <1>5 DEF SessionKeeps, AskedFirst
<1>7. AnswersHeld(s, None)
    <2>1. OpenRequests(s) \ Asks[LimitBatch] \subseteq OpenRequests(session)
        BY <1>3, <1>4 DEF OpenRequests
    <2> QED
        BY <1>3, <1>4, <1>5, <2>1 DEF AnswersHeld
<1>8. MessagesHeld(s, s.unread, None)
    BY <1>3, <1>4, <1>5 DEF MessagesHeld
<1> QED
    BY <1>1, <1>6, <1>7, <1>8, ParkHolds

LEMMA ModelAsksHolds ==
    ASSUME IInv, KInv, NEW b \in Batches, ModelAsks(b)
    PROVE  KInv'
<1>1. pc = "model" /\ b \notin ToSet(session.asked) /\ unsent' = unsent
    BY DEF ModelAsks, NextStep, bounded
<1>2. PICK overdrawn \in Overdraws :
        LET s == FinishTurn(OpenBatch(Called(overdrawn), b))
        IN  NextStep(s) \/ Park(s)
    BY DEF ModelAsks
<1> DEFINE called == Called(overdrawn)
           opened == OpenBatch(called, b)
           s == FinishTurn(opened)
<1>3. NextStep(s) \/ Park(s)
    BY <1>2
<1>4. /\ called \in SessionType /\ SessionKeeps(called) /\ AnswersHeld(called, None)
      /\ Texts \ unsent \subseteq Passed(called) \cup MessageOf(called.deferred)
      /\ called.asked = session.asked
    BY <1>1, BoundsAssumption, CalledHolds
<1> HIDE DEF called
<1>5. /\ ToSet(s.asked) = ToSet(called.asked) \cup {b}
      /\ s.batches = called.batches \cup {b}
      /\ s.answered = called.answered /\ s.deferred = called.deferred
      /\ Passed(s) = Passed(called) /\ s.unread = called.unread
      /\ Settled(called) \subseteq Settled(s)
    <2>1. SameMail(opened, s)
        BY <1>4, OpenBatchType, FinishTurnMail
    <2>2. /\ ToSet(opened.asked) = ToSet(called.asked) \cup {b}
          /\ opened.batches = called.batches \cup {b}
          /\ opened.answered = called.answered /\ opened.deferred = called.deferred
          /\ Passed(opened) = Passed(called) /\ opened.unread = called.unread
          /\ Settled(opened) = Settled(called)
        BY <1>4, AppendAsked
    <2> QED
        BY <2>1, <2>2 DEF SameMail
<1> HIDE DEF s
<1>6. SessionKeeps(s)
    BY <1>4, <1>5 DEF SessionKeeps, AskedFirst
<1>7. s.answered \cap Asks[b] = {}
    <2>1. ToSet(called.asked) \subseteq Batches
        BY <1>4 DEF SessionType, ToSet
    <2>2. \A r \in called.answered : \E c \in ToSet(called.asked) : r \in Asks[c]
        BY <1>4 DEF SessionKeeps, AskedFirst
    <2>3. \A c \in ToSet(called.asked) : Asks[c] \cap Asks[b] = {}
        BY <1>1, <1>4, <2>1, BatchesAssumption
    <2> QED
        BY <1>5, <2>2, <2>3
<1>8. AnswersHeld(s, None)
    <2>1. OpenRequests(s) \ Asks[b] \subseteq OpenRequests(called)
        BY <1>5 DEF OpenRequests
    <2> QED
        BY <1>4, <1>5, <1>7, <2>1 DEF AnswersHeld
<1>9. MessagesHeld(s, s.unread, None)
    BY <1>4, <1>5 DEF MessagesHeld
<1> QED
    BY <1>1, <1>3, <1>6, <1>8, <1>9, ParkHolds, EndsStepHolds DEF NextStep

LEMMA ModelCallsToolsHolds ==
    ASSUME IInv, KInv, ModelCallsTools
    PROVE  KInv'
<1>1. PICK overdrawn \in Overdraws :
        NextStep([Called(overdrawn) EXCEPT !.unread = <<Item("results", {})>>])
    BY DEF ModelCallsTools
<1> DEFINE called == Called(overdrawn)
           results == <<Item("results", {})>>
           s == [called EXCEPT !.unread = results]
<1>2. pc = "model"
    BY DEF ModelCallsTools
<1>3. /\ called \in SessionType /\ SessionKeeps(called) /\ AnswersHeld(called, None)
      /\ Texts \ unsent \subseteq Passed(called) \cup MessageOf(called.deferred)
    BY <1>2, BoundsAssumption, CalledHolds
<1>4. NextStep(s)
    BY <1>1
<1> HIDE DEF called
<1>5. TextsAreMessages(results)
    <2>1. ToSet(results) \subseteq {Item("results", {})}
        BY DEF ToSet
    <2>2. Item("results", {}).of = {}
        BY DEF Item
    <2> QED
        BY <2>1, <2>2 DEF TextsAreMessages
<1> HIDE DEF results
<1>6. /\ s.batches = called.batches /\ s.asked = called.asked
      /\ s.answered = called.answered /\ s.deferred = called.deferred
      /\ Passed(s) = Passed(called) /\ s.unread = results
      /\ Settled(s) = Settled(called)
    BY <1>3 DEF SessionType, Passed, Settled
<1> HIDE DEF s
<1>7. SessionKeeps(s) /\ AnswersHeld(s, None) /\ MessagesHeld(s, s.unread, None)
    BY <1>3, <1>5, <1>6 DEF SessionKeeps, AskedFirst, AnswersHeld, MessagesHeld, OpenRequests
<1> QED
    BY <1>4, <1>7, EndsStepHolds DEF NextStep

LEMMA ModelRepliesHolds ==
    ASSUME IInv, KInv, ModelReplies
    PROVE  KInv'
<1> DEFINE s(overdrawn) == Called(overdrawn)
           t(overdrawn) == [s(overdrawn) EXCEPT !.inTurn = FALSE]
<1>1. PICK overdrawn \in Overdraws : NextStep(s(overdrawn)) \/ Park(t(overdrawn)) \/ End
    BY DEF ModelReplies
<1> DEFINE called == s(overdrawn)
           parked == t(overdrawn)
<1>2. pc = "model" /\ unsent' = unsent
    BY DEF ModelReplies, NextStep, bounded
<1>3. /\ called \in SessionType /\ SessionKeeps(called) /\ AnswersHeld(called, None)
      /\ Texts \ unsent \subseteq Passed(called) \cup MessageOf(called.deferred)
    BY <1>2, BoundsAssumption, CalledHolds
<1> HIDE DEF s
<1>4. SameMail(called, parked)
    BY <1>3 DEF SameMail, SessionType, Passed, Settled
<1> HIDE DEF t
<1>5. MessagesHeld(called, called.unread, None)
    BY <1>3 DEF MessagesHeld
<1>6. SessionKeeps(parked) /\ AnswersHeld(parked, None) /\ MessagesHeld(parked, parked.unread, None)
    BY <1>3, <1>4, <1>5, SameMailHolds DEF SameMail
<1>7. CASE NextStep(called)
    BY <1>2, <1>3, <1>5, <1>7, EndsStepHolds DEF NextStep
<1>8. CASE Park(parked)
    BY <1>2, <1>6, <1>8, ParkHolds
<1> QED
    BY <1>1, <1>7, <1>8, EndHolds

(* The messages of a call that failed are those the prompt gave it.        *)
LEMMA ModelFailsHolds ==
    ASSUME IInv, KInv, ModelFails
    PROVE  KInv'
<1> DEFINE given == Given(prompt)
           s == [session EXCEPT !.inTurn = FALSE, !.failed = @ \cup given]
<1>1. pc = "model" /\ Park(s) /\ unsent' = unsent
    BY DEF ModelFails
<1>2. /\ SessionKeeps(session) /\ AnswersHeld(session, None) /\ TextsAreMessages(prompt)
      /\ MessagesHeld(session, prompt, None)
    BY <1>1 DEF KInv
<1>3. OfAll(prompt) \cap Texts \subseteq given
    BY <1>2 DEF OfAll, TextsAreMessages, Given
<1> HIDE DEF given
<1>4. /\ s.batches = session.batches /\ s.asked = session.asked
      /\ s.answered = session.answered /\ s.deferred = session.deferred
      /\ Passed(s) = Passed(session) \cup given /\ s.unread = session.unread
      /\ Settled(s) = Settled(session)
    BY DEF IInv, TypeOK, SessionType, Passed, Settled
<1> HIDE DEF s
<1>5. SessionKeeps(s) /\ AnswersHeld(s, None)
    BY <1>2, <1>4 DEF SessionKeeps, AskedFirst, AnswersHeld, OpenRequests
<1>6. MessagesHeld(s, s.unread, None)
    <2>1. Texts \ unsent \subseteq (Passed(session) \cup OfAll(prompt)) \cup MessageOf(session.deferred)
        BY <1>2 DEF MessagesHeld, MessageOf
    <2> QED
        BY <1>3, <1>4, <2>1 DEF MessagesHeld
<1> QED
    BY <1>1, <1>5, <1>6, ParkHolds

LEMMA TaskRetriesHolds ==
    ASSUME IInv, KInv, TaskRetries
    PROVE  KInv'
<1>1. PICK start : start = saved
    OBVIOUS
<1>2. /\ pc = "model" /\ pc' = "step" /\ saved' = start /\ UNCHANGED unsent
      /\ session' = start.session /\ input' = start.input /\ prompt' = <<>>
    BY <1>1 DEF TaskRetries
<1>3. SavedKeeps(start)
    BY <1>1, <1>2 DEF KInv
<1>4. SavedKeeps(saved)'
    BY <1>2, <1>3, SavedHolds
<1>5. /\ SessionKeeps(session)' /\ AnswersHeld(session, None)'
      /\ MessagesHeld(session, session.unread, input)'
    BY <1>2, <1>3
    DEF SavedKeeps, SessionKeeps, AskedFirst, TextsAreMessages, AnswersHeld, MessagesHeld, Passed,
        OpenRequests, Settled, AnsweredBy, OfAll, MessageOf
<1>6. TextsAreMessages(prompt)'
    <2>1. ToSet(<<>>) = {}
        BY DEF ToSet
    <2> QED
        BY <1>2, <2>1 DEF TextsAreMessages
<1> QED
    BY <1>2, <1>4, <1>5, <1>6 DEF KInv

(***************************************************************************)
(* Cancellation.                                                           *)
(***************************************************************************)
LEMMA RollbackHolds ==
    ASSUME NEW s \in SessionType, NEW in \in StepInputs \cup {None}, SessionKeeps(s),
           AnswersHeld(s, None), MessagesHeld(s, s.unread, in)
    PROVE  /\ SessionKeeps(Rollback(s, in)) /\ AnswersHeld(Rollback(s, in), None)
           /\ MessagesHeld(Rollback(s, in), Rollback(s, in).unread, None)
<1> DEFINE items == IF in = None THEN <<>> ELSE MessageItems(in.message)
           told == s.unread \o items
           t == Rollback(s, in)
<1>1. items \in Seq(Items) /\ TextsAreMessages(items) /\ OfAll(items) = MessageOf(in)
    <2>1. CASE in = None
        <3>1. ToSet(<<>>) = {}
            BY DEF ToSet
        <3> QED
            BY <2>1, <3>1, PlainItems DEF TextsAreMessages, OfAll, MessageOf
    <2>2. CASE in \in StepInputs
        <3>1. in # None /\ in.message \in SUBSET (Texts \cup Requests)
            BY <2>2, InputKinds DEF StepInputs
        <3> QED
            BY <3>1, MessageItemsType, OfMessage DEF MessageOf
    <2> QED
        BY <2>1, <2>2
<1>2. s.unread \in Seq(Items) /\ TextsAreMessages(s.unread)
    BY DEF SessionType, SessionKeeps
<1>3. /\ t.batches = s.batches \ {LimitBatch} /\ t.asked = s.asked
      /\ t.answered = s.answered /\ t.deferred = s.deferred
      /\ Passed(t) = Passed(s) /\ t.unread = told
      /\ Settled(t) = Settled(s)
    BY DEF Rollback, Close, SessionType, Passed, Settled
<1> HIDE DEF items, t
<1>4. TextsAreMessages(told) /\ OfAll(told) = OfAll(s.unread) \cup MessageOf(in)
    BY <1>1, <1>2, OfConcatenation
<1> HIDE DEF told
<1>5. SessionKeeps(t)
    BY <1>3, <1>4 DEF SessionKeeps, AskedFirst
<1>6. AnswersHeld(t, None)
    BY <1>3 DEF AnswersHeld, OpenRequests
<1>7. MessagesHeld(t, t.unread, None)
    BY <1>3, <1>4 DEF MessagesHeld
<1> QED
    BY <1>5, <1>6, <1>7 DEF t

LEMMA CutOffHolds ==
    ASSUME IInv, KInv, pc \notin {"idle", "ended"}, CutOff
    PROVE  KInv'
<1>1. PICK from : from = Start.session
    OBVIOUS
<1>2. PICK in : in = Start.input
    OBVIOUS
<1>3. /\ from \in SessionType /\ in \in StepInputs \cup {None}
      /\ SessionKeeps(from) /\ AnswersHeld(from, None) /\ MessagesHeld(from, from.unread, in)
    BY <1>1, <1>2, StartHolds DEF SavedKeeps
<1> DEFINE s == Rollback(from, in)
<1>4. SessionKeeps(s) /\ AnswersHeld(s, None) /\ MessagesHeld(s, s.unread, None)
    BY <1>3, RollbackHolds
<1>5. Park(s) /\ unsent' = unsent
    BY <1>1, <1>2 DEF CutOff
<1> HIDE DEF s
<1> QED
    BY <1>4, <1>5, ParkHolds

(***************************************************************************)
(* The invariant and the theorems.                                         *)
(***************************************************************************)
LEMMA InitHolds == Init => KInv
<1> SUFFICES ASSUME Init PROVE KInv
    OBVIOUS
<1>1. ToSet(<<>>) = {}
    BY DEF ToSet
<1>2. /\ session.batches = {} /\ session.answered = {} /\ session.asked = <<>>
      /\ session.unread = <<>> /\ Passed(session) = {} /\ session.deferred = None
      /\ prompt = <<>> /\ pc = "idle" /\ saved = None /\ unsent = Texts
    BY DEF Init, Passed
<1>3. SessionKeeps(session) /\ TextsAreMessages(prompt)
    BY <1>1, <1>2 DEF SessionKeeps, AskedFirst, TextsAreMessages
<1>4. AnswersHeld(session, None) /\ MessagesHeld(session, session.unread, None)
    BY <1>2 DEF AnswersHeld, MessagesHeld
<1> QED
    BY <1>2, <1>3, <1>4 DEF KInv

LEMMA NextHolds == IInv /\ KInv /\ [Next]_vars => KInv'
<1> SUFFICES ASSUME IInv, KInv, [Next]_vars PROVE KInv'
    OBVIOUS
<1>1. CASE Deliveries
    BY <1>1, DeliverHolds
<1>2. CASE \E c \in session.announced : CallBack(c)
    BY <1>2, CallBackHolds
<1>3. CASE BeginStep
    BY <1>3, BeginStepHolds
<1>4. CASE Coordinate
    BY <1>4, CoordinateResponsesHolds, AuthorizeCandidatesHolds, NothingToCoordinateHolds
    DEF Coordinate
<1>5. CASE Resolve
    BY <1>5, NothingOpenHolds, RestingHolds, LimitGrantedHolds, CutOffHolds,
       ResolveBatchesHolds, DismissQuestionHolds, PassByHolds
    DEF Resolve, LimitDeclined, Addressed, Resolving
<1>6. CASE Model
    BY <1>6, ParkOnLimitHolds, ModelAsksHolds, ModelCallsToolsHolds, ModelRepliesHolds,
       ModelFailsHolds, TaskRetriesHolds, EndHolds
    DEF Model, ModelEnds
<1>7. CASE Cancel
    BY <1>7, CutOffHolds DEF Cancel
<1>8. CASE UNCHANGED vars
    BY <1>8 DEF vars, KInv, SavedKeeps, SessionKeeps, AskedFirst, TextsAreMessages, AnswersHeld,
                MessagesHeld, Passed, OpenRequests, Settled, AnsweredBy, OfAll, MessageOf
<1> QED
    BY <1>1, <1>2, <1>3, <1>4, <1>5, <1>6, <1>7, <1>8 DEF Next, Step

(* At every stage of a step the answers and messages it took are somewhere *)
(* where a later step, or a cancellation, finds them.                      *)
LEMMA KeepingInvariance == Spec => [](IInv /\ KInv)
<1> QED
    BY InitKeeps, InitHolds, NextKeeps, NextHolds, PTL DEF Spec

(* deferStepInput and resolvePendingInput lose no answer: between turns an *)
(* answered request that is still open is settled or its answer deferred.  *)
THEOREM NoAnswerIsLost == Spec => []AnswersKept
<1>1. IInv /\ KInv => AnswersKept
    BY DEF IInv, TypeOK, SessionType, KInv, AnswersHeld, AnswersKept, AnsweredBy
<1> QED
    BY <1>1, KeepingInvariance, PTL

(* A message that a turn took is read by the model, or waits for it in the *)
(* history or among the deferred input, also when the turn was cancelled   *)
(* (the rollback of turn-step) or the step of a task was retried.  Only of *)
(* the message of a call that failed is nothing promised.                  *)
THEOREM NoMessageIsLost == Spec => []InputKept
<1>1. IInv /\ KInv => InputKept
    BY DEF KInv, MessagesHeld, Passed, OfAll, MessageOf, InputKept
<1> QED
    BY <1>1, KeepingInvariance, PTL

(***************************************************************************)
(* Candidates of a conversation are judged in the turn that made them.     *)
(***************************************************************************)

(* The input has no answer that coordination would take.                   *)
QuietAnswers(in, s) ==
    \A r \in AnsweredBy(in) : KindOf[r] = "approval" => r \in Settled(s)

(* A candidate is pending only from the pass that made it to the next one, *)
(* which has nothing else to take.                                         *)
JInv ==
    mode = "conversation" =>
        /\ pc = "coordinate" => session.deferred = None
        /\ interruptions = 0 /\ session.pending # {} =>
              /\ pc \in {"step", "coordinate"}
              /\ pc = "step" => input = None /\ QuietAnswers(session.deferred, session)
              /\ pc = "coordinate" => QuietAnswers(input, session)

LEMMA NonePending ==
    ASSUME pc' # "coordinate", mode' = mode,
           mode = "conversation" /\ interruptions' = 0 => session'.pending = {}
    PROVE  JInv'
BY DEF JInv

LEMMA BeginsJudged ==
    ASSUME IInv, JInv, Deliveries \/ \E c \in session.announced : CallBack(c)
    PROVE  JInv'
<1>1. /\ pc = "idle" /\ pc' = "step" /\ mode' = mode /\ interruptions' = interruptions
      /\ session' = session \/ \E c, added : session' =
             [[session EXCEPT !.announced = @ \ {c}] EXCEPT !.unread = @ \o added, !.inTurn = TRUE]
    BY DEF Deliveries, Deliver, CallBack
<1>2. session'.pending = session.pending
    BY <1>1 DEF IInv, TypeOK, SessionType
<1> QED
    BY <1>1, <1>2, NonePending DEF JInv

LEMMA BeginStepJudged ==
    ASSUME IInv, JInv, BeginStep
    PROVE  JInv'
<1> SUFFICES ASSUME mode = "conversation" PROVE JInv'
    BY DEF BeginStep, bounded, JInv
<1> DEFINE taken == IF session.deferred = None THEN input
                    ELSE IF input = None THEN session.deferred
                    ELSE Coalesce(session.deferred, input)
           in == DropStale(taken, session)
           s == [session EXCEPT !.deferred = None, !.answered = @ \cup AnsweredBy(in)]
<1>1. /\ pc = "step" /\ pc' = "coordinate" /\ input' = in /\ session' = s
      /\ mode' = mode /\ interruptions' = interruptions
    BY DEF BeginStep, bounded
<1>2. s.deferred = None /\ s.pending = session.pending /\ Settled(s) = Settled(session)
    BY DEF IInv, TypeOK, SessionType, Settled
<1> HIDE DEF s
<1>3. ASSUME interruptions = 0, session.pending # {} PROVE QuietAnswers(in, session)
    <2>1. input = None /\ QuietAnswers(session.deferred, session)
        BY <1>1, <1>3 DEF JInv
    <2>2. taken = session.deferred
        BY <2>1
    <2>3. AnsweredBy(in) \subseteq AnsweredBy(session.deferred)
        <3>1. CASE taken = None
            BY <3>1 DEF DropStale, AnsweredBy
        <3>2. CASE taken # None
            <4>1. taken \in StepInputs
                BY <2>2, <3>2 DEF IInv, TypeOK, SessionType
            <4> DEFINE open == Only(taken, OpenRequests(session))
                       stale == {r \in AnsweredBy(taken) \ OpenRequests(session) : KindOf[r] # "limit"}
            <4>2. in = [open EXCEPT !.message = @ \cup stale]
                BY <3>2 DEF DropStale
            <4>3. open \in StepInputs /\ AnsweredBy(open) \subseteq AnsweredBy(taken)
                BY <4>1, OnlyType, OnlyHolds
            <4> HIDE DEF open, stale, in
            <4>4. in.responses = open.responses
                BY <4>2, <4>3 DEF StepInputs
            <4> QED
                BY <2>2, <4>3, <4>4, InputKinds DEF AnsweredBy
        <3> QED
            BY <3>1, <3>2
    <2> QED
        BY <2>1, <2>3 DEF QuietAnswers
<1> HIDE DEF in
<1> QED
    BY <1>1, <1>2, <1>3 DEF JInv, QuietAnswers, AnsweredBy, Settled

(* With nothing to take, taking changes nothing.                           *)
LEMMA NothingTaken ==
    ASSUME NEW s \in SessionType, NEW in, caller \in Responders \cup {Anonymous},
           \A r \in AnsweredBy(in) : KindOf[r] # "approval"
    PROVE  TakeResponses(s, in) = s
<1> DEFINE named == {r \in AnsweredBy(in) \cap OpenRequests(s) : KindOf[r] = "approval"}
           says(r, o) == o \in ToSet(in.responses[r])
           plain(o) == {r \in named \ Guarded : Head(in.responses[r]) = o}
           candidates == {<<r, caller>> : r \in {q \in named \cap Guarded : says(q, "yes")}}
           base == [s EXCEPT !.pending = @ \cup (candidates \ s.required)]
           approved == plain("yes")
           refused == plain("no") \cup {r \in named \cap Guarded : says(r, "no")}
<1>1. approved = {} /\ refused = {} /\ candidates = {}
    OBVIOUS
<1>2. TakeResponses(s, in) = IF caller = Anonymous THEN s ELSE Settle(base, approved, refused)
    BY DEF TakeResponses
<1> HIDE DEF approved, refused, candidates
<1>3. base = s
    BY <1>1 DEF SessionType
<1>4. Settle(s, {}, {}) = s
    BY DEF Settle, SessionType
<1> QED
    BY <1>1, <1>2, <1>3, <1>4

(* The answers that coordination takes settle every plain approval, and    *)
(* only the guarded ones make candidates.                                  *)
LEMMA TakenJudged ==
    ASSUME NEW s \in SessionType, NEW in \in StepInputs \cup {None},
           caller \in Responders \cup {Anonymous}
    PROVE  LET named == {r \in AnsweredBy(in) \cap OpenRequests(s) : KindOf[r] = "approval"}
               taken == TakeResponses(s, in)
           IN  /\ taken # s => named \ Guarded \subseteq Settled(taken)
               /\ named \cap Guarded = {} => taken.pending \subseteq s.pending
               /\ taken.deferred = s.deferred
<1> DEFINE named == {r \in AnsweredBy(in) \cap OpenRequests(s) : KindOf[r] = "approval"}
           taken == TakeResponses(s, in)
           says(r, o) == o \in ToSet(in.responses[r])
           plain(o) == {r \in named \ Guarded : Head(in.responses[r]) = o}
           candidates == {<<r, caller>> : r \in {q \in named \cap Guarded : says(q, "yes")}}
           base == [s EXCEPT !.pending = @ \cup (candidates \ s.required)]
           approved == plain("yes")
           refused == plain("no") \cup {r \in named \cap Guarded : says(r, "no")}
<1>1. CASE caller = Anonymous
    BY <1>1 DEF TakeResponses
<1>2. CASE caller # Anonymous
    <2>1. taken = Settle(base, approved, refused)
        BY <1>2 DEF TakeResponses
    <2>2. \A r \in named : Head(in.responses[r]) \in {"yes", "no"}
        <3> SUFFICES ASSUME NEW r \in named PROVE Head(in.responses[r]) \in {"yes", "no"}
            OBVIOUS
        <3>1. r \in Requests /\ in # None /\ in.responses[r] # <<>>
            BY DEF AnsweredBy
        <3>2. in.responses[r] \in Seq(Options)
            BY <3>1 DEF StepInputs
        <3> QED
            BY <3>1, <3>2 DEF Options
    <2>3. named \ Guarded \subseteq approved \cup refused
        BY <2>2
    <2>4. named \cap Guarded = {} => candidates = {}
        OBVIOUS
    <2> HIDE DEF approved, refused, candidates
    <2>5. /\ taken.allowed = s.allowed \cup approved
          /\ taken.cancelled = s.cancelled \cup refused
          /\ taken.pending \subseteq s.pending \cup candidates
          /\ taken.deferred = s.deferred
        BY <2>1 DEF Settle, SessionType
    <2> QED
        BY <2>3, <2>4, <2>5 DEF Settled
<1> QED
    BY <1>1, <1>2

LEMMA CoordinateResponsesJudged ==
    ASSUME IInv, JInv, NEW expired, CoordinateResponses(expired)
    PROVE  JInv'
<1> SUFFICES ASSUME mode = "conversation" PROVE JInv'
    BY DEF CoordinateResponses, bounded, JInv
<1> DEFINE s == Expire(session, expired)
           in == RemoveResponses(input, Settled(s))
           named == {r \in AnsweredBy(in) \cap OpenRequests(s) : KindOf[r] = "approval"}
           consumed == AnsweredBy(in) \cap OpenRequests(s) \cap Guarded
           taken == TakeResponses(s, in)
           remaining == RemoveResponses(in, consumed)
<1>1. /\ pc = "coordinate" /\ mode' = mode /\ interruptions' = interruptions
      /\ consumed # {} \/ taken # s
      /\ \/ taken # s /\ ContinueCoordination(taken, remaining)
         \/ (consumed = {} \/ taken = s) /\ Proceed(taken, remaining)
    BY DEF CoordinateResponses, bounded
<1>2. /\ s \in SessionType
      /\ in \in StepInputs \cup {None}
      /\ AnsweredBy(in) \subseteq OpenRequests(s) \ Settled(s)
    BY <1>1, Coordinates
<1>3. s.pending \subseteq session.pending /\ s.deferred = None
    BY <1>1 DEF Expire, IInv, TypeOK, SessionType, JInv
<1>4. interruptions = 0 => session.pending = {}
    <2> SUFFICES ASSUME interruptions = 0, session.pending # {} PROVE FALSE
        OBVIOUS
    <2>1. QuietAnswers(input, session)
        BY <1>1 DEF JInv
    <2>2. AnsweredBy(in) \subseteq AnsweredBy(input) /\ Settled(s) = Settled(session)
        <3>1. Settled(s) = Settled(session)
            BY ExpireKeeps DEF IInv, TypeOK
        <3>2. Settled(s) \in SUBSET Requests
            BY <1>2 DEF Settled, SessionType
        <3> QED
            BY <3>1, <3>2, AnsweredByRemoved DEF IInv, TypeOK
    <2> HIDE DEF s, in
    <2>3. \A r \in AnsweredBy(in) : KindOf[r] # "approval"
        BY <1>2, <2>1, <2>2 DEF QuietAnswers
    <2>4. taken = s
        BY <1>2, <2>3, NothingTaken DEF IInv, TypeOK
    <2>5. consumed = {}
        BY <2>3, RequestsAssumption
    <2> QED
        BY <1>1, <2>4, <2>5
<1> HIDE DEF s, in
<1>5. /\ taken # s => named \ Guarded \subseteq Settled(taken)
      /\ named \cap Guarded = {} => taken.pending \subseteq s.pending
      /\ taken.deferred = s.deferred /\ taken \in SessionType
    BY <1>2, TakenJudged, TakeResponsesType DEF IInv, TypeOK
<1>6. named \cap Guarded \subseteq consumed
    OBVIOUS
<1>7. /\ remaining \in StepInputs \cup {None}
      /\ AnsweredBy(remaining) = AnsweredBy(in) \ consumed
    <2>1. consumed \in SUBSET Requests
        BY DEF AnsweredBy
    <2> QED
        BY <1>2, <2>1, AnsweredByRemoved
<1>8. taken # s => QuietAnswers(remaining, taken)
    BY <1>2, <1>5, <1>7 DEF QuietAnswers
<1> HIDE DEF taken, remaining, consumed, named
<1>9. CASE taken # s /\ ContinueCoordination(taken, remaining)
    <2> DEFINE t == IF remaining = None THEN taken ELSE Queue(taken, remaining)
    <2>1. session' = t /\ input' = None /\ pc' = "step"
        BY <1>9 DEF ContinueCoordination
    <2>2. t.deferred = remaining /\ Settled(t) = Settled(taken)
        <3>1. CASE remaining = None
            BY <1>3, <1>5, <3>1
        <3>2. CASE remaining # None
            BY <1>3, <1>5, <3>2 DEF Queue, SessionType, Settled
        <3> QED
            BY <3>1, <3>2
    <2> HIDE DEF t
    <2>3. QuietAnswers(t.deferred, t)
        BY <1>8, <1>9, <2>2 DEF QuietAnswers
    <2>4. QuietAnswers(session.deferred, session)'
        BY <2>1, <2>3 DEF QuietAnswers, AnsweredBy, Settled
    <2> QED
        BY <2>1, <2>4 DEF JInv
<1>10. CASE (consumed = {} \/ taken = s) /\ Proceed(taken, remaining)
    <2>1. interruptions = 0 => taken.pending = {}
        BY <1>3, <1>4, <1>5, <1>6, <1>10
    <2>2. pc' = "resolve" /\ session' = taken
        BY <1>10 DEF Proceed
    <2> QED
        BY <1>1, <2>1, <2>2, NonePending
<1> QED
    BY <1>1, <1>9, <1>10

LEMMA NothingToCoordinateJudged ==
    ASSUME IInv, JInv, NEW expired, NothingToCoordinate(expired)
    PROVE  JInv'
<1> DEFINE s == Expire(session, expired)
<1>1. /\ session.batches = {} /\ mode' = mode /\ pc' = "resolve" /\ session' = s
    BY DEF NothingToCoordinate, Proceed, bounded
<1>2. session.pending = {}
    BY <1>1 DEF IInv, SessionOK, CandidatesOK, OpenRequests
<1>3. s.pending = {}
    BY <1>2 DEF Expire, IInv, TypeOK, SessionType
<1> HIDE DEF s
<1> QED
    BY <1>1, <1>3, NonePending

LEMMA AuthorizeCandidatesJudged ==
    ASSUME IInv, JInv, NEW expired, AuthorizeCandidates(expired)
    PROVE  JInv'
<1> DEFINE s == Expire(session, expired)
           in == RemoveResponses(input, Settled(s))
           due == {c \in s.pending \cup (s.required \cap callbacks) : c[1] \in OpenRequests(s)}
<1>1. PICK verdict \in [due -> {"allowed", "rejected", "challenged"}] :
        LET with(v) == {c \in due : verdict[c] = v}
            t == Settle([s EXCEPT !.pending = @ \ due,
                                  !.required = (@ \ due) \cup with("challenged")],
                        {c[1] : c \in with("allowed")}, {})
            settled == Settled(t) \cap OpenRequests(t)
            resumed == AppendSettled(in, settled, t)
            unannounced == t.required \ t.announced
        IN  IF settled # {} THEN Proceed(t, resumed)
            ELSE IF due # {} THEN ContinueCoordination(t, resumed)
            ELSE IF unannounced # {}
            THEN Park([(IF resumed = None THEN t ELSE Queue(t, resumed))
                         EXCEPT !.announced = @ \cup unannounced])
            ELSE Proceed(t, resumed)
    BY DEF AuthorizeCandidates
<1>2. pc = "coordinate" /\ mode' = mode
    BY DEF AuthorizeCandidates, bounded
<1>3. s \in SessionType /\ SessionOK(s) /\ in \in StepInputs \cup {None}
    BY <1>2, Coordinates
<1> HIDE DEF s
<1> DEFINE challenged == {c \in due : verdict[c] = "challenged"}
           allowed == {c[1] : c \in {d \in due : verdict[d] = "allowed"}}
           judged == [s EXCEPT !.pending = @ \ due, !.required = (@ \ due) \cup challenged]
           t == Settle(judged, allowed, {})
           settled == Settled(t) \cap OpenRequests(t)
           resumed == AppendSettled(in, settled, t)
           unannounced == t.required \ t.announced
           queued == IF resumed = None THEN t ELSE Queue(t, resumed)
           parked == [queued EXCEPT !.announced = @ \cup unannounced]
<1>4. \/ Proceed(t, resumed)
      \/ ContinueCoordination(t, resumed)
      \/ Park(parked)
    BY <1>1
<1>5. s.pending \subseteq due
    BY <1>3 DEF SessionOK, CandidatesOK
<1>6. due \subseteq Candidate
    BY <1>3 DEF SessionType
<1>7. judged \in SessionType /\ judged.pending = {}
    BY <1>3, <1>5, <1>6 DEF SessionType
<1>8. allowed \in SUBSET Requests
    BY <1>6 DEF Candidate
<1> HIDE DEF in, due, allowed, judged
<1>9. t \in SessionType /\ t.pending = {}
    BY <1>7, <1>8, SettleType DEF Settle, SessionType
<1> HIDE DEF t
<1>10. settled \in SUBSET Requests
    BY <1>9 DEF Settled, SessionType
<1> HIDE DEF settled
<1>11. resumed \in StepInputs \cup {None}
    BY <1>3, <1>9, <1>10, AppendSettledType
<1> HIDE DEF resumed
<1>12. queued \in SessionType /\ queued.pending = {}
    <2>1. CASE resumed = None
        BY <1>9, <2>1
    <2>2. CASE resumed # None
        BY <1>9, <1>11, <2>2, QueueType DEF Queue, SessionType
    <2> QED
        BY <2>1, <2>2
<1>13. session' \in {t, queued, parked} /\ pc' # "coordinate"
    BY <1>4 DEF Proceed, ContinueCoordination, Park
<1> HIDE DEF queued
<1>14. parked.pending = {}
    BY <1>12 DEF SessionType
<1> HIDE DEF parked
<1> QED
    BY <1>2, <1>9, <1>12, <1>13, <1>14, NonePending

LEMMA PendingOfQueue ==
    ASSUME NEW s \in SessionType, NEW in
    PROVE  Queue(s, in).pending = s.pending
BY DEF Queue, SessionType

LEMMA PendingOfHeed ==
    ASSUME NEW s \in SessionType
    PROVE  Heed(s).pending = s.pending
BY DEF Heed, SessionType

LEMMA PendingOfClose ==
    ASSUME NEW s \in SessionType, NEW bs
    PROVE  Close(s, bs) \in SessionType /\ Close(s, bs).pending = s.pending
BY CloseType DEF Close, SessionType

(* Resolving leaves the candidates alone.                                  *)
LEMMA ResolveJudged ==
    ASSUME IInv, JInv, Resolve, ~LimitDeclined
    PROVE  JInv'
<1>1. session \in SessionType /\ StepInput \in StepInputs
    BY StepInputType DEF IInv, TypeOK
<1>2. pc = "resolve"
    BY DEF Resolve, NothingOpen, DeferWhole, NothingSaid, LimitUnanswered, LimitGranted, ResolveBatches,
           HoldAnswers, DismissQuestion, PassBy, Addressed, Resolving
<1>3. /\ session'.pending = session.pending /\ pc' # "coordinate"
      /\ mode' = mode /\ interruptions' = interruptions
    <2>1. ASSUME NEW s \in SessionType, s.pending = session.pending, Unresolved(s)
          PROVE  /\ session'.pending = session.pending /\ pc' # "coordinate"
                 /\ mode' = mode /\ interruptions' = interruptions
        BY <2>1, PendingOfHeed DEF Unresolved, Park, bounded
    <2>2. ASSUME NEW s \in SessionType, s.pending = session.pending, NEW items, NEW message,
                 CallModel(s, items, message)
          PROVE  /\ session'.pending = session.pending /\ pc' # "coordinate"
                 /\ mode' = mode /\ interruptions' = interruptions
        <3>1. \E kept, inTurn : session' = [Heed(s) EXCEPT !.unread = kept, !.inTurn = inTurn]
            BY <2>2 DEF CallModel
        <3>2. Heed(s) \in SessionType /\ Heed(s).pending = session.pending
            BY <2>2, HeedKeeps, PendingOfHeed DEF IInv, TypeOK
        <3>3. session'.pending = session.pending
            BY <3>1, <3>2 DEF SessionType
        <3> QED
            BY <2>2, <3>3 DEF CallModel, bounded
    <2>3. ASSUME NEW s \in SessionType, s.pending = session.pending, NEW bs, NEW items, NEW defer,
                 FinishResolved(s, bs, items, defer)
          PROVE  /\ session'.pending = session.pending /\ pc' # "coordinate"
                 /\ mode' = mode /\ interruptions' = interruptions
        <3> DEFINE rest == Close(s, bs)
                   leftover == Only(StepInput, OpenRequests(rest))
                   deferred == IF defer THEN leftover ELSE [leftover EXCEPT !.message = {}]
                   kept == IF deferred = EmptyInput THEN rest ELSE Queue(rest, deferred)
                   message == IF defer THEN {} ELSE StepInput.message
        <3>1. CallModel(kept, items, message)
            BY <2>3 DEF FinishResolved
        <3>2. rest \in SessionType /\ rest.pending = session.pending
            BY <2>3, PendingOfClose
        <3> HIDE DEF rest
        <3>3. leftover \in StepInputs
            BY <1>1, OnlyType
        <3> HIDE DEF leftover
        <3>4. deferred \in StepInputs
            BY <3>3 DEF StepInputs
        <3> HIDE DEF deferred, message
        <3>5. kept \in SessionType /\ kept.pending = session.pending
            BY <3>2, <3>4, QueueType, PendingOfQueue
        <3> HIDE DEF kept
        <3> QED
            BY <2>2, <3>1, <3>5
    <2>4. CASE NothingOpen
        BY <1>1, <2>2, <2>4 DEF NothingOpen
    <2>5. CASE DeferWhole \/ NothingSaid \/ LimitUnanswered \/ HoldAnswers
        <3> DEFINE queued == Queue(session, StepInput)
                   begun(added) == Extended(queued, added, FALSE)
        <3>1. \/ Unresolved(session) \/ Unresolved(queued)
              \/ \E added \in Preamble(session) : Unresolved(begun(added))
            BY <2>5 DEF DeferWhole, NothingSaid, LimitUnanswered, HoldAnswers, Extended
        <3>2. queued \in SessionType /\ queued.pending = session.pending
            BY <1>1, QueueType, PendingOfQueue
        <3> HIDE DEF queued
        <3>3. ASSUME NEW added \in Preamble(session)
              PROVE  begun(added) \in SessionType /\ begun(added).pending = session.pending
            <4>1. queued.unread \o added \in Seq(Items)
                BY <3>2, <3>3, ContextMail DEF SessionType
            <4> QED
                BY <3>2, <4>1 DEF Extended, SessionType
        <3> HIDE DEF begun
        <3> QED
            BY <1>1, <2>1, <3>1, <3>2, <3>3
    <2>6. CASE LimitGranted
        <3> DEFINE s == [session EXCEPT !.exhausted = FALSE]
        <3>1. FinishResolved(s, {LimitBatch}, <<>>, HasTailApproval(session.unread))
            BY <2>6 DEF LimitGranted
        <3>2. s \in SessionType /\ s.pending = session.pending
            BY <1>1 DEF SessionType
        <3> HIDE DEF s
        <3> QED
            BY <2>3, <3>1, <3>2
    <2>7. CASE ResolveBatches
        BY <1>1, <2>3, <2>7 DEF ResolveBatches
    <2>8. CASE DismissQuestion
        BY <1>1, <2>2, <2>8, PendingOfClose DEF DismissQuestion
    <2>9. CASE PassBy
        <3> DEFINE answers == [StepInput EXCEPT !.message = {}]
                   s == IF Decided = {} THEN session ELSE Queue(session, answers)
        <3>1. CallModel(s, <<>>, StepInput.message)
            BY <2>9 DEF PassBy
        <3>2. answers \in StepInputs
            BY <1>1 DEF StepInputs
        <3> HIDE DEF answers
        <3>3. s \in SessionType /\ s.pending = session.pending
            BY <1>1, <3>2, QueueType, PendingOfQueue
        <3> HIDE DEF s
        <3> QED
            BY <2>2, <3>1, <3>3
    <2> QED
        BY <2>4, <2>5, <2>6, <2>7, <2>8, <2>9 DEF Resolve
<1> QED
    BY <1>2, <1>3, NonePending DEF JInv

LEMMA ModelJudged ==
    ASSUME IInv, JInv, Model, ~ModelFails, ~TaskRetries, ~ModelEnds
    PROVE  JInv'
<1>1. pc = "model" /\ session \in SessionType
    BY DEF IInv, TypeOK, Model, ParkOnLimit, ModelAsks, ModelCallsTools, ModelReplies
<1>2. ASSUME NEW overdrawn \in BOOLEAN
      PROVE  Called(overdrawn) \in SessionType /\ Called(overdrawn).pending = session.pending
    BY <1>1, CalledKeeps DEF Called, SessionType
<1>3. ASSUME NEW s \in SessionType, NEW b \in Batches
      PROVE  /\ FinishTurn(OpenBatch(s, b)) \in SessionType
             /\ FinishTurn(OpenBatch(s, b)).pending = s.pending
    <2>1. OpenBatch(s, b) \in SessionType /\ OpenBatch(s, b).pending = s.pending
        BY OpenBatchType DEF OpenBatch, SessionType
    <2>2. FinishTurn(OpenBatch(s, b)).pending = OpenBatch(s, b).pending
        BY <2>1 DEF FinishTurn, SessionType
    <2> QED
        BY <2>1, <2>2, FinishTurnMail
<1>4. /\ session'.pending = session.pending /\ pc' # "coordinate"
      /\ mode' = mode /\ interruptions' = interruptions
    <2>1. CASE ParkOnLimit
        <3> DEFINE opened == FinishTurn(OpenBatch(session, LimitBatch))
                   s == [opened EXCEPT !.unread = prompt, !.answered = @ \ Asks[LimitBatch]]
        <3>1. opened \in SessionType /\ opened.pending = session.pending
            BY <1>1, <1>3, BatchesAssumption
        <3>2. session' = s /\ pc' = "idle" /\ mode' = mode /\ interruptions' = interruptions
            BY <2>1 DEF ParkOnLimit, Park, bounded
        <3> HIDE DEF opened
        <3> QED
            BY <3>1, <3>2 DEF SessionType
    <2>2. CASE \E b \in Batches : ModelAsks(b)
        <3>1. PICK b \in Batches, overdrawn \in Overdraws :
                  /\ session' = FinishTurn(OpenBatch(Called(overdrawn), b)) /\ pc' # "coordinate"
                  /\ mode' = mode /\ interruptions' = interruptions
            BY <2>2 DEF ModelAsks, NextStep, Park, bounded
        <3> QED
            BY <1>2, <1>3, <3>1, BoundsAssumption
    <2>3. CASE ModelCallsTools
        <3>1. PICK overdrawn \in Overdraws :
                  /\ session' = [Called(overdrawn) EXCEPT !.unread = <<Item("results", {})>>]
                  /\ pc' # "coordinate" /\ mode' = mode /\ interruptions' = interruptions
            BY <2>3 DEF ModelCallsTools, NextStep
        <3> QED
            BY <1>2, <3>1, BoundsAssumption DEF SessionType
    <2>4. CASE ModelReplies
        <3>1. PICK overdrawn \in Overdraws :
                  /\ session' \in {session, Called(overdrawn), [Called(overdrawn) EXCEPT !.inTurn = FALSE]}
                  /\ pc' # "coordinate" /\ mode' = mode /\ interruptions' = interruptions
            BY <2>4 DEF ModelReplies, NextStep, Park, End, bounded
        <3> QED
            BY <1>2, <3>1, BoundsAssumption DEF SessionType
    <2> QED
        BY <2>1, <2>2, <2>3, <2>4 DEF Model
<1> QED
    BY <1>1, <1>4, NonePending DEF JInv

(* After a cut off turn or a failed call the invariant promises nothing    *)
(* more.                                                                   *)
LEMMA CutOffJudged ==
    ASSUME IInv, JInv, CutOff \/ ModelFails \/ TaskRetries \/ ModelEnds
    PROVE  JInv'
<1>1. interruptions' = interruptions + 1 /\ pc' # "coordinate"
    BY DEF CutOff, ModelFails, TaskRetries, ModelEnds, Park, End
<1>2. interruptions' # 0
    BY <1>1 DEF IInv, TypeOK
<1> QED
    BY <1>1, <1>2 DEF JInv

LEMMA NextJudged == IInv /\ JInv /\ [Next]_vars => JInv'
<1> SUFFICES ASSUME IInv, JInv, [Next]_vars PROVE JInv'
    OBVIOUS
<1>1. CASE Deliveries \/ \E c \in session.announced : CallBack(c)
    BY <1>1, BeginsJudged
<1>2. CASE BeginStep
    BY <1>2, BeginStepJudged
<1>3. CASE Coordinate
    BY <1>3, CoordinateResponsesJudged, AuthorizeCandidatesJudged, NothingToCoordinateJudged
    DEF Coordinate
<1>4. CASE Resolve
    BY <1>4, ResolveJudged, CutOffJudged DEF LimitDeclined
<1>5. CASE Model
    BY <1>5, ModelJudged, CutOffJudged
<1>6. CASE Cancel
    BY <1>6, CutOffJudged DEF Cancel
<1>7. CASE UNCHANGED vars
    BY <1>7 DEF vars, JInv, QuietAnswers, AnsweredBy, Settled
<1> QED
    BY <1>1, <1>2, <1>3, <1>4, <1>5, <1>6, <1>7 DEF Next, Step

(* Between the turns of a conversation no candidate waits for a policy     *)
(* run: the pass of approval-delivery-coordinator that made it is followed *)
(* by one that judges it, as long as no turn is cut off in between.        *)
THEOREM CandidatesOfTheTurn == Spec => []CandidatesAreJudged
<1>1. Init => JInv
    BY DEF Init, JInv
<1>2. IInv /\ JInv => CandidatesAreJudged
    BY DEF JInv, CandidatesAreJudged
<1> QED
    BY <1>1, <1>2, InitKeeps, NextKeeps, NextJudged, PTL DEF Spec

=============================================================================
