------------------------- MODULE PendingInputProofs -------------------------
(***************************************************************************)
(* Proofs about PendingInput for any requests, batches, messages and       *)
(* responders.                                                             *)
(***************************************************************************)
EXTENDS PendingInput, TLAPS

(***************************************************************************)
(* Types of the operators on step input and on the session.                *)
(***************************************************************************)
LEMMA InputKinds == \A in \in StepInputs : in # None
BY InputAssumption DEF StepInputs

LEMMA EmptyInputType == EmptyInput \in StepInputs
BY DEF EmptyInput, NoAnswers, StepInputs

LEMMA CoalesceType ==
    ASSUME NEW a \in StepInputs, NEW b \in StepInputs
    PROVE  Coalesce(a, b) \in StepInputs
BY DEF Coalesce, StepInputs

LEMMA OnlyType ==
    ASSUME NEW in \in StepInputs, NEW rs
    PROVE  /\ Only(in, rs) \in StepInputs
           /\ Only(in, rs).message = in.message
           /\ \A r \in Requests : Only(in, rs).responses[r] = IF r \in rs THEN in.responses[r] ELSE <<>>
<1> DEFINE kept == [r \in Requests |-> IF r \in rs THEN in.responses[r] ELSE <<>>]
<1>1. <<>> \in Seq(Options)
    OBVIOUS
<1>2. kept \in [Requests -> Seq(Options)]
    BY <1>1 DEF StepInputs
<1>3. Only(in, rs) = [in EXCEPT !.responses = kept]
    BY DEF Only, StepInputs
<1> HIDE DEF kept
<1>4. /\ Only(in, rs) \in StepInputs
      /\ Only(in, rs).message = in.message
      /\ Only(in, rs).responses = kept
    BY <1>2, <1>3 DEF StepInputs
<1> QED
    BY <1>4 DEF kept

LEMMA RemoveResponsesType ==
    ASSUME NEW in \in StepInputs \cup {None}, NEW rs
    PROVE  RemoveResponses(in, rs) \in StepInputs \cup {None}
BY OnlyType DEF RemoveResponses

LEMMA QueueType ==
    ASSUME NEW s \in SessionType, NEW in \in StepInputs
    PROVE  Queue(s, in) \in SessionType
<1>1. (IF s.deferred = None THEN in ELSE Coalesce(s.deferred, in)) \in StepInputs
    BY CoalesceType DEF SessionType
<1> QED
    BY <1>1 DEF Queue, SessionType

LEMMA CloseType ==
    ASSUME NEW s \in SessionType, NEW bs
    PROVE  Close(s, bs) \in SessionType
BY DEF Close, SessionType

LEMMA OpenBatchType ==
    ASSUME NEW s \in SessionType, NEW b \in Batches
    PROVE  OpenBatch(s, b) \in SessionType
<1>1. Append(s.asked, b) \in Seq(Batches)
    BY DEF SessionType
<1> QED
    BY <1>1 DEF OpenBatch, SessionType

LEMMA DropStaleType ==
    ASSUME NEW in \in StepInputs \cup {None}, NEW s \in SessionType
    PROVE  /\ DropStale(in, s) \in StepInputs \cup {None}
           /\ AnsweredBy(DropStale(in, s)) \subseteq OpenRequests(s)
<1>1. CASE in = None
    BY <1>1 DEF DropStale, AnsweredBy
<1>2. CASE in \in StepInputs
    <2>1. /\ Only(in, OpenRequests(s)) \in StepInputs
          /\ \A r \in Requests \ OpenRequests(s) : Only(in, OpenRequests(s)).responses[r] = <<>>
        BY <1>2, OnlyType
    <2> DEFINE stale == {r \in AnsweredBy(in) \ OpenRequests(s) : KindOf[r] # "limit"}
               result == [Only(in, OpenRequests(s)) EXCEPT !.message = @ \cup stale]
    <2>2. stale \subseteq Requests
        BY DEF AnsweredBy
    <2>3. /\ result \in StepInputs
          /\ result.responses = Only(in, OpenRequests(s)).responses
        BY <2>1, <2>2 DEF StepInputs
    <2>4. DropStale(in, s) = result
        BY <1>2, InputKinds DEF DropStale
    <2> QED
        BY <2>1, <2>3, <2>4, InputKinds DEF AnsweredBy
<1> QED
    BY <1>1, <1>2

LEMMA ExpireType ==
    ASSUME NEW s \in SessionType, NEW cs
    PROVE  Expire(s, cs) \in SessionType
BY DEF Expire, SessionType

LEMMA SettleType ==
    ASSUME NEW s \in SessionType, NEW allowed \in SUBSET Requests, NEW cancelled \in SUBSET Requests
    PROVE  Settle(s, allowed, cancelled) \in SessionType
BY DEF Settle, SessionType

LEMMA AnsweredByRemoved ==
    ASSUME NEW in \in StepInputs \cup {None}, NEW rs \in SUBSET Requests
    PROVE  /\ RemoveResponses(in, rs) \in StepInputs \cup {None}
           /\ AnsweredBy(RemoveResponses(in, rs)) = AnsweredBy(in) \ rs
           /\ RemoveResponses(in, rs) # None =>
                 /\ in # None
                 /\ \A r \in AnsweredBy(in) \ rs :
                        RemoveResponses(in, rs).responses[r] = in.responses[r]
<1>1. CASE in = None
    BY <1>1 DEF RemoveResponses, AnsweredBy
<1>2. CASE in \in StepInputs
    <2>1. RemoveResponses(in, rs) = Only(in, Requests \ rs)
        BY <1>2, InputKinds DEF RemoveResponses
    <2>2. /\ Only(in, Requests \ rs) \in StepInputs
          /\ \A r \in Requests : Only(in, Requests \ rs).responses[r]
                = IF r \in Requests \ rs THEN in.responses[r] ELSE <<>>
        BY <1>2, OnlyType
    <2> QED
        BY <1>2, <2>1, <2>2, InputKinds DEF AnsweredBy
<1> QED
    BY <1>1, <1>2

LEMMA TakeResponsesType ==
    ASSUME NEW s \in SessionType, NEW in \in StepInputs \cup {None},
           caller \in Responders \cup {Anonymous}
    PROVE  TakeResponses(s, in) \in SessionType
<1> DEFINE named == {r \in AnsweredBy(in) \cap OpenRequests(s) : KindOf[r] = "approval"}
           says(r, o) == o \in ToSet(in.responses[r])
           plain(o) == {r \in named \ Guarded : Head(in.responses[r]) = o}
           candidates == {<<r, caller>> : r \in {q \in named \cap Guarded : says(q, "yes")}}
           base == [s EXCEPT !.pending = @ \cup (candidates \ s.required)]
           refused == plain("no") \cup {r \in named \cap Guarded : says(r, "no")}
<1>1. CASE caller = Anonymous
    BY <1>1 DEF TakeResponses
<1>2. CASE caller # Anonymous
    <2>1. named \subseteq Requests
        BY DEF AnsweredBy
    <2>2. plain("yes") \subseteq Requests /\ refused \subseteq Requests
        BY <2>1
    <2>3. candidates \subseteq Candidate
        BY <1>2, <2>1 DEF Candidate
    <2>4. base \in SessionType
        BY <2>3 DEF SessionType
    <2>5. TakeResponses(s, in) = Settle(base, plain("yes"), refused)
        BY <1>2 DEF TakeResponses
    <2> HIDE DEF base, refused, plain
    <2> QED
        BY <2>2, <2>4, <2>5, SettleType
<1> QED
    BY <1>1, <1>2

LEMMA AppendSettledType ==
    ASSUME NEW s \in SessionType, NEW in \in StepInputs \cup {None},
           NEW rs \in SUBSET Requests
    PROVE  /\ AppendSettled(in, rs, s) \in StepInputs \cup {None}
           /\ rs # {} => AppendSettled(in, rs, s) \in StepInputs
           /\ AnsweredBy(AppendSettled(in, rs, s)) \subseteq AnsweredBy(in) \cup rs
           /\ AppendSettled(in, rs, s) # None =>
                 /\ \A r \in rs : Last(AppendSettled(in, rs, s).responses[r])
                        = IF r \in s.allowed THEN "yes" ELSE "no"
                 /\ \A r \in AnsweredBy(in) \ rs :
                        AppendSettled(in, rs, s).responses[r] = in.responses[r]
<1>1. CASE rs = {}
    BY <1>1 DEF AppendSettled
<1>2. CASE rs # {}
    <2> DEFINE base == IF in = None THEN EmptyInput ELSE in
               outcome(r) == IF r \in s.allowed THEN "yes" ELSE "no"
               said == [r \in Requests |-> IF r \in rs THEN Append(base.responses[r], outcome(r))
                                           ELSE base.responses[r]]
    <2>1. base \in StepInputs
        BY EmptyInputType
    <2>2. AnsweredBy(base) = AnsweredBy(in)
        BY <2>1, InputKinds DEF AnsweredBy, EmptyInput, NoAnswers
    <2>3. \A r \in Requests : base.responses[r] \in Seq(Options)
        BY <2>1 DEF StepInputs
    <2> HIDE DEF base
    <2>4. \A r \in Requests : outcome(r) \in Options
        BY DEF Options
    <2>5. \A r \in Requests : /\ Append(base.responses[r], outcome(r)) \in Seq(Options)
                              /\ Last(Append(base.responses[r], outcome(r))) = outcome(r)
        BY <2>3, <2>4 DEF Last
    <2> HIDE DEF outcome
    <2>6. said \in [Requests -> Seq(Options)]
        BY <2>3, <2>5
    <2>7. AppendSettled(in, rs, s) = [base EXCEPT !.responses = said]
        BY <1>2, <2>1 DEF AppendSettled, base, outcome, StepInputs
    <2>8. /\ AppendSettled(in, rs, s) \in StepInputs
          /\ AppendSettled(in, rs, s).responses = said
        BY <2>1, <2>6, <2>7 DEF StepInputs
    <2>9. AnsweredBy(AppendSettled(in, rs, s)) \subseteq AnsweredBy(in) \cup rs
        BY <2>1, <2>2, <2>8, InputKinds DEF AnsweredBy
    <2>10. \A r \in rs : Last(said[r]) = outcome(r)
        BY <2>5
    <2>11. \A r \in AnsweredBy(in) \ rs : said[r] = in.responses[r]
        BY DEF AnsweredBy, base
    <2> QED
        BY <2>8, <2>9, <2>10, <2>11 DEF outcome
<1> QED
    BY <1>1, <1>2

(***************************************************************************)
(* What a step hears: the guarded requests have exactly the answers of the *)
(* step's input, no message adds to them.                                  *)
(***************************************************************************)
LEMMA StepInputType ==
    ASSUME input \in StepInputs \cup {None}
    PROVE  /\ StepInput \in StepInputs
           /\ AnsweredBy(StepInput) \cap Guarded \subseteq AnsweredBy(input)
           /\ \A r \in AnsweredBy(StepInput) \cap Guarded :
                 StepInput.responses[r] = input.responses[r]
<1> DEFINE target == IF LimitOpen(session) THEN {LimitBatch}
                     ELSE IF Cardinality(session.batches) = 1 THEN session.batches ELSE {}
           asks == UNION {Asks[b] : b \in target}
           matched == {r \in asks \ Guarded : Heard(input.message, r) # "nothing"}
           heard == [r \in Requests |-> IF r \in matched THEN <<Heard(input.message, r)>>
                                        ELSE input.responses[r]]
<1>1. CASE input = None
    <2>1. StepInput = EmptyInput
        BY <1>1 DEF StepInput
    <2> QED
        BY <2>1, EmptyInputType, InputKinds DEF AnsweredBy, EmptyInput, NoAnswers
<1>2. CASE input \in StepInputs /\ StepInput = input
    BY <1>2
<1>3. CASE input \in StepInputs /\ StepInput = [responses |-> heard, message |-> {}]
    <2>1. \A r \in matched : Heard(input.message, r) \in Options
        <3> SUFFICES ASSUME NEW r \in matched PROVE Heard(input.message, r) \in Options
            OBVIOUS
        <3>1. CASE r \in Freeform
            BY <3>1 DEF Heard, Options
        <3>2. CASE r \notin Freeform
            <4>1. PICK t \in Texts : input.message = {t} /\ Says[t] \in Options
                BY <3>2 DEF Heard
            <4>2. Heard(input.message, r) = CHOOSE o \in Options : \E u \in input.message : Says[u] = o
                BY <3>2, <4>1 DEF Heard
            <4>3. \E o \in Options : \E u \in input.message : Says[u] = o
                BY <4>1
            <4> QED
                BY <4>2, <4>3
        <3> QED
            BY <3>1, <3>2
    <2> HIDE DEF matched
    <2>2. \A r \in matched : <<Heard(input.message, r)>> \in Seq(Options)
        BY <2>1
    <2>3. heard \in [Requests -> Seq(Options)]
        BY <1>3, <2>2 DEF StepInputs
    <2>4. StepInput \in StepInputs /\ StepInput.responses = heard
        BY <1>3, <2>3 DEF StepInputs
    <2>5. \A r \in Guarded : r \notin matched
        BY DEF matched
    <2>6. \A r \in Guarded \cap Requests : heard[r] = input.responses[r]
        BY <2>5
    <2> QED
        BY <1>3, <2>4, <2>6, InputKinds DEF AnsweredBy
<1> QED
    BY <1>1, <1>2, <1>3 DEF StepInput

(***************************************************************************)
(* Items of the history: approvals that were allowed, and their place.     *)
(***************************************************************************)
Approved(items, allowed) ==
    \A i \in DOMAIN items :
        IsApproval(items[i]) => /\ items[i].of \subseteq Requests
                                /\ items[i].of \cap Guarded \subseteq allowed
NoApproval(items) == \A i \in DOMAIN items : ~IsApproval(items[i])
(* Nothing but context comes right after an approval.                      *)
Undisturbed(items) ==
    \A i \in DOMAIN items :
        IsApproval(items[i]) /\ i # Len(items) => Context # {} /\ items[i + 1].kind = "context"
IsContext(items) ==
    /\ items \in Seq(Items) /\ NoApproval(items)
    /\ items # <<>> => Context # {} /\ items[1].kind = "context"

LEMMA Concatenation ==
    ASSUME NEW a \in Seq(Items), NEW b \in Seq(Items), NEW allowed
    PROVE  /\ a \o b \in Seq(Items)
           /\ Approved(a, allowed) /\ Approved(b, allowed) => Approved(a \o b, allowed)
           /\ NoApproval(a) /\ NoApproval(b) => NoApproval(a \o b)
           /\ /\ Undisturbed(a) /\ Undisturbed(b)
              /\ NoApproval(a) \/ IsContext(b) \/ ~HasTailApproval(a) \/ b = <<>>
              => Undisturbed(a \o b)
<1>1. /\ a \o b \in Seq(Items)
      /\ Len(a \o b) = Len(a) + Len(b)
      /\ DOMAIN (a \o b) = 1 .. (Len(a) + Len(b))
      /\ Len(a) \in Nat /\ Len(b) \in Nat
      /\ DOMAIN a = 1 .. Len(a) /\ DOMAIN b = 1 .. Len(b)
    OBVIOUS
<1>2. \A i \in DOMAIN (a \o b) :
          \/ i \in DOMAIN a /\ (a \o b)[i] = a[i]
          \/ i - Len(a) \in DOMAIN b /\ (a \o b)[i] = b[i - Len(a)] /\ i > Len(a)
    OBVIOUS
<1>3. Approved(a, allowed) /\ Approved(b, allowed) => Approved(a \o b, allowed)
    BY <1>2 DEF Approved
<1>4. NoApproval(a) /\ NoApproval(b) => NoApproval(a \o b)
    BY <1>2 DEF NoApproval
<1>5. ASSUME Undisturbed(a), Undisturbed(b),
             NoApproval(a) \/ IsContext(b) \/ ~HasTailApproval(a) \/ b = <<>>
      PROVE  Undisturbed(a \o b)
    <2> SUFFICES ASSUME NEW i \in DOMAIN (a \o b), IsApproval((a \o b)[i]), i # Len(a \o b)
                 PROVE  Context # {} /\ (a \o b)[i + 1].kind = "context"
        BY DEF Undisturbed
    <2>1. i \in 1 .. (Len(a) + Len(b)) /\ i + 1 \in 1 .. (Len(a) + Len(b))
        BY <1>1
    <2>2. CASE i > Len(a)
        <3>1. /\ i - Len(a) \in DOMAIN b /\ (a \o b)[i] = b[i - Len(a)]
              /\ (a \o b)[i + 1] = b[(i - Len(a)) + 1] /\ i - Len(a) # Len(b)
            BY <1>1, <2>1, <2>2
        <3> QED
            BY <1>5, <3>1 DEF Undisturbed
    <2>3. CASE i < Len(a)
        <3>1. /\ i \in DOMAIN a /\ (a \o b)[i] = a[i] /\ (a \o b)[i + 1] = a[i + 1]
              /\ i # Len(a)
            BY <1>1, <2>1, <2>3
        <3> QED
            BY <1>5, <3>1 DEF Undisturbed
    <2>4. CASE i = Len(a)
        <3>3. Len(a) + Len(b) = Len(a \o b) /\ Len(a) \in Nat /\ Len(b) \in Nat
            BY <1>1
        <3>4. Len(b) # 0
            BY <2>4, <3>3
        <3>5. Len(a) \in 1 .. Len(a) /\ 1 \in 1 .. Len(b)
            BY <2>1, <2>4, <3>3, <3>4
        <3>6. (a \o b)[Len(a)] = a[Len(a)] /\ (a \o b)[Len(a) + 1] = b[1] /\ b # <<>>
            BY <3>5
        <3>1. /\ i \in DOMAIN a /\ (a \o b)[i] = a[i] /\ (a \o b)[i + 1] = b[1] /\ b # <<>>
            BY <2>4, <3>5, <3>6
        <3>2. HasTailApproval(a) /\ ~NoApproval(a)
            BY <2>4, <3>1 DEF HasTailApproval, Last, NoApproval
        <3> QED
            BY <1>5, <3>1, <3>2 DEF IsContext
    <2> QED
        BY <1>1, <2>1, <2>2, <2>3, <2>4
<1> QED
    BY <1>1, <1>3, <1>4, <1>5

LEMMA MessageItemsType ==
    ASSUME NEW message \in SUBSET (Texts \cup Requests)
    PROVE  /\ MessageItems(message) \in Seq(Items)
           /\ NoApproval(MessageItems(message))
<1>1. Item("message", message) \in Items /\ ~IsApproval(Item("message", message))
    BY DEF Item, Items, IsApproval
<1> QED
    BY <1>1 DEF MessageItems, NoApproval

LEMMA PlainItems ==
    /\ <<>> \in Seq(Items) /\ NoApproval(<<>>)
    /\ <<Item("question", {})>> \in Seq(Items) /\ NoApproval(<<Item("question", {})>>)
    /\ <<Item("results", {})>> \in Seq(Items) /\ NoApproval(<<Item("results", {})>>)
<1>1. /\ Item("question", {}) \in Items /\ ~IsApproval(Item("question", {}))
      /\ Item("results", {}) \in Items /\ ~IsApproval(Item("results", {}))
    BY DEF Item, Items, IsApproval
<1> QED
    BY <1>1 DEF NoApproval

LEMMA PreambleType ==
    ASSUME NEW s, NEW added \in Preamble(s)
    PROVE  IsContext(added)
<1> DEFINE item == Item("context", {})
<1>1. item \in Items /\ ~IsApproval(item) /\ item.kind = "context"
    BY DEF Item, Items, IsApproval
<1>2. Preamble(s) = IF s.inTurn THEN {<<>>}
                    ELSE {a \o b : a \in Added("memory"), b \in Added("instructions")}
    BY DEF Preamble
<1>3. \A kind : \A a \in Added(kind) : a = <<>> \/ (Context # {} /\ a = <<item>>)
    BY DEF Added
<1> HIDE DEF item
<1>4. IsContext(<<>>)
    BY PlainItems DEF IsContext
<1>5. Context # {} => IsContext(<<item>>)
    <2>1. <<item>> \in Seq(Items) /\ DOMAIN <<item>> = {1} /\ <<item>>[1] = item
        BY <1>1
    <2> QED
        BY <1>1, <2>1 DEF IsContext, NoApproval
<1>6. \A kind : \A a \in Added(kind) : IsContext(a)
    BY <1>3, <1>4, <1>5
<1>7. ASSUME NEW a, NEW b, IsContext(a), IsContext(b)
      PROVE  IsContext(a \o b)
    <2>1. a \in Seq(Items) /\ b \in Seq(Items) /\ NoApproval(a) /\ NoApproval(b)
        BY <1>7 DEF IsContext
    <2>2. a \o b \in Seq(Items) /\ NoApproval(a \o b)
        BY <2>1, Concatenation
    <2>3. CASE a = <<>>
        <3>1. a \o b = b
            BY <2>1, <2>3
        <3> QED
            BY <1>7, <3>1
    <2>4. CASE a # <<>>
        <3>1. (a \o b)[1] = a[1]
            BY <2>1, <2>4
        <3> QED
            BY <1>7, <2>2, <2>4, <3>1 DEF IsContext
    <2> QED
        BY <2>3, <2>4
<1>8. CASE s.inTurn
    BY <1>2, <1>4, <1>8
<1>9. CASE ~s.inTurn
    <2>1. PICK a \in Added("memory"), b \in Added("instructions") : added = a \o b
        BY <1>2, <1>9
    <2>2. IsContext(a) /\ IsContext(b)
        BY <1>6
    <2> QED
        BY <1>7, <2>1, <2>2
<1> QED
    BY <1>8, <1>9

LEMMA NoApprovalIsApproved ==
    ASSUME NEW items, NoApproval(items), NEW allowed
    PROVE  Approved(items, allowed) /\ Undisturbed(items)
BY DEF NoApproval, Approved, Undisturbed

LEMMA TailOf ==
    ASSUME NEW a \in Seq(Items), NEW b \in Seq(Items)
    PROVE  /\ NoApproval(a) => ~HasTailApproval(a)
           /\ b # <<>> => HasTailApproval(a \o b) = HasTailApproval(b)
           /\ a \o <<>> = a
<1>1. a # <<>> => Len(a) \in DOMAIN a /\ Last(a) = a[Len(a)]
    BY DEF Last
<1>2. NoApproval(a) => ~HasTailApproval(a)
    BY <1>1 DEF NoApproval, HasTailApproval
<1>3. b # <<>> => a \o b # <<>> /\ (a \o b)[Len(a \o b)] = b[Len(b)]
    OBVIOUS
<1>4. b # <<>> => Last(a \o b) = Last(b)
    BY <1>3 DEF Last
<1> QED
    BY <1>2, <1>3, <1>4 DEF HasTailApproval

(* What the model may be called with: approvals are in the history alone   *)
(* or in the items alone, and no message comes when one is at their end.   *)
CallOK(unread, items, message) ==
    /\ Undisturbed(unread) /\ Undisturbed(items)
    /\ NoApproval(unread) \/ items = <<>>
    /\ HasTailApproval(unread \o items) => message = {}

(* Wherever the context of a turn that begins is put, before the items or  *)
(* after them, nothing else comes to stand right after an approval.        *)
LEMMA PromptsUndisturbed ==
    ASSUME NEW unread \in Seq(Items), NEW items \in Seq(Items),
           NEW message \in SUBSET (Texts \cup Requests),
           CallOK(unread, items, message), NEW added, IsContext(added)
    PROVE  /\ Undisturbed(unread \o added \o items \o MessageItems(message))
           /\ Undisturbed(unread \o (items \o added) \o <<>> \o MessageItems(message))
<1> DEFINE told == MessageItems(message)
<1>1. told \in Seq(Items) /\ NoApproval(told) /\ (message = {} => told = <<>>)
    BY MessageItemsType DEF MessageItems
<1>2. Undisturbed(told)
    BY <1>1, NoApprovalIsApproved
<1> HIDE DEF told
<1>3. added \in Seq(Items) /\ NoApproval(added) /\ Undisturbed(added)
    BY NoApprovalIsApproved DEF IsContext
<1>4. unread \o added \in Seq(Items) /\ Undisturbed(unread \o added)
    BY <1>3, Concatenation DEF CallOK
<1>5. NoApproval(unread) => NoApproval(unread \o added)
    BY <1>3, Concatenation
<1>6. /\ unread \o added \o items \in Seq(Items)
      /\ Undisturbed(unread \o added \o items)
    BY <1>4, <1>5, Concatenation DEF CallOK
<1>7. unread \o items \in Seq(Items) /\ Undisturbed(unread \o items)
    BY Concatenation DEF CallOK
<1>8. HasTailApproval(unread \o added \o items) => HasTailApproval(unread \o items)
    <2>1. CASE items # <<>>
        BY <1>4, <2>1, TailOf
    <2>2. CASE items = <<>> /\ added # <<>>
        BY <1>3, <1>4, <2>2, TailOf
    <2>3. CASE items = <<>> /\ added = <<>>
        BY <2>3, TailOf
    <2> QED
        BY <2>1, <2>2, <2>3
<1>9. Undisturbed(unread \o added \o items \o told)
    BY <1>1, <1>2, <1>6, <1>8, Concatenation DEF CallOK
<1>10. /\ (unread \o items) \o added \in Seq(Items)
       /\ Undisturbed((unread \o items) \o added)
    BY <1>3, <1>7, Concatenation
<1>11. HasTailApproval((unread \o items) \o added) => HasTailApproval(unread \o items)
    <2>1. CASE added # <<>>
        BY <1>3, <1>7, <2>1, TailOf
    <2>2. CASE added = <<>>
        BY <1>7, <2>2, TailOf
    <2> QED
        BY <2>1, <2>2
<1>12. Undisturbed((unread \o items) \o added \o told)
    BY <1>1, <1>2, <1>10, <1>11, Concatenation DEF CallOK
<1>13. unread \o (items \o added) \o <<>> = (unread \o items) \o added
    BY <1>3
<1> QED
    BY <1>9, <1>12, <1>13 DEF told

LEMMA OneItem ==
    ASSUME NEW item \in Items, NEW allowed
    PROVE  /\ <<item>> \in Seq(Items) /\ Undisturbed(<<item>>)
           /\ ~IsApproval(item) => NoApproval(<<item>>)
           /\ item.of \subseteq Requests /\ item.of \cap Guarded \subseteq allowed
                => Approved(<<item>>, allowed)
<1>1. <<item>> \in Seq(Items) /\ Len(<<item>>) = 1 /\ \A i \in DOMAIN <<item>> : i = 1
    OBVIOUS
<1>2. <<item>>[1] = item
    OBVIOUS
<1> QED
    BY <1>1, <1>2 DEF NoApproval, Approved, Undisturbed

LEMMA MoreAllowed ==
    ASSUME NEW items, NEW allowed, NEW more, allowed \subseteq more, Approved(items, allowed)
    PROVE  Approved(items, more)
BY DEF Approved

(***************************************************************************)
(* The inductive invariant.                                                *)
(***************************************************************************)

(* A candidate is of a guarded request that is open and unsettled.         *)
CandidatesOK(s) ==
    \A c \in s.pending \cup s.required :
        c[1] \in (Guarded \cap OpenRequests(s)) \ Settled(s)

(* The guarded calls that were executed, or wait in the history to be, are *)
(* those that a policy allowed.                                            *)
CallsOK(s) ==
    /\ Approved(s.unread, s.allowed)
    /\ s.ran \cap Guarded \subseteq s.allowed

SessionOK(s) == CandidatesOK(s) /\ CallsOK(s)

(* Between model calls an approval waits in the history only for the limit *)
(* prompt, and nothing but context was put behind it.                      *)
OrderOK(s) == NoApproval(s.unread) \/ (Undisturbed(s.unread) /\ LimitOpen(s))

(* The guarded answers a resolution gets are what their requests were      *)
(* settled with.                                                           *)
AnswersAreSettlements(in, s) ==
    \A r \in AnsweredBy(in) \cap Guarded :
        /\ r \in Settled(s)
        /\ Last(in.responses[r]) = "yes" => r \in s.allowed

(* What a step started from is a session with the same guarantees.         *)
SavedOK(start) ==
    /\ start \in Starts
    /\ SessionOK(start.session)

StagesOK ==
    /\ saved # None \/ pc \in {"coordinate", "resolve", "model"} => SavedOK(saved)
    /\ pc = "coordinate" => AnsweredBy(input) \subseteq OpenRequests(session)
    /\ pc = "resolve" => AnswersAreSettlements(input, session)
    /\ Approved(prompt, session.allowed)
    /\ interruptions = 0 /\ pc = "model" => Undisturbed(prompt)
    /\ interruptions = 0 /\ pc \notin {"model", "ended"} => OrderOK(session)

IInv == TypeOK /\ SessionOK(session) /\ StagesOK

(***************************************************************************)
(* The operators on the session keep their part of it.                     *)
(***************************************************************************)
LEMMA QueueKeeps ==
    ASSUME NEW s \in SessionType, NEW in \in StepInputs
    PROVE  /\ Queue(s, in) \in SessionType
           /\ Queue(s, in).batches = s.batches /\ Queue(s, in).unread = s.unread
           /\ Queue(s, in).allowed = s.allowed
           /\ SessionOK(s) => SessionOK(Queue(s, in))
           /\ OrderOK(s) => OrderOK(Queue(s, in))
<1> DEFINE t == Queue(s, in)
<1>1. /\ t.batches = s.batches /\ t.unread = s.unread
      /\ t.allowed = s.allowed /\ t.cancelled = s.cancelled /\ t.ran = s.ran
      /\ t.pending = s.pending /\ t.required = s.required
    BY DEF Queue, SessionType
<1> QED
    BY <1>1, QueueType
    DEF SessionOK, CandidatesOK, CallsOK, OrderOK, OpenRequests, Settled, LimitOpen

LEMMA ExpireKeeps ==
    ASSUME NEW s \in SessionType, NEW cs
    PROVE  /\ Expire(s, cs) \in SessionType
           /\ Expire(s, cs).batches = s.batches /\ Expire(s, cs).unread = s.unread
           /\ Expire(s, cs).allowed = s.allowed /\ Settled(Expire(s, cs)) = Settled(s)
           /\ SessionOK(s) => SessionOK(Expire(s, cs))
           /\ OrderOK(s) => OrderOK(Expire(s, cs))
<1> DEFINE t == Expire(s, cs)
<1>1. /\ t.batches = s.batches /\ t.unread = s.unread
      /\ t.allowed = s.allowed /\ t.cancelled = s.cancelled /\ t.ran = s.ran
      /\ t.pending \subseteq s.pending /\ t.required \subseteq s.required
    BY DEF Expire, SessionType
<1> QED
    BY <1>1, ExpireType
    DEF SessionOK, CandidatesOK, CallsOK, OrderOK, OpenRequests, Settled, LimitOpen

(* Candidates of open and unsettled guarded requests, after settling some  *)
(* of them, are again that.                                                *)
LEMMA SettleKeeps ==
    ASSUME NEW s \in SessionType, NEW allowed \in SUBSET Requests, NEW cancelled \in SUBSET Requests
    PROVE  /\ Settle(s, allowed, cancelled) \in SessionType
           /\ Settle(s, allowed, cancelled).batches = s.batches
           /\ Settle(s, allowed, cancelled).unread = s.unread
           /\ s.allowed \subseteq Settle(s, allowed, cancelled).allowed
           /\ SessionOK(s) => SessionOK(Settle(s, allowed, cancelled))
           /\ OrderOK(s) => OrderOK(Settle(s, allowed, cancelled))
<1> DEFINE t == Settle(s, allowed, cancelled)
<1>1. /\ t.batches = s.batches /\ t.unread = s.unread
      /\ t.allowed = s.allowed \cup allowed /\ t.cancelled = s.cancelled \cup cancelled
      /\ t.ran = s.ran
      /\ t.pending = {c \in s.pending : c[1] \notin allowed \cup cancelled}
      /\ t.required = {c \in s.required : c[1] \notin allowed \cup cancelled}
    BY DEF Settle, SessionType
<1>2. CandidatesOK(s) => CandidatesOK(t)
    BY <1>1 DEF CandidatesOK, OpenRequests, Settled
<1>3. CallsOK(s) => CallsOK(t)
    BY <1>1, MoreAllowed DEF CallsOK
<1> QED
    BY <1>1, <1>2, <1>3, SettleType DEF SessionOK, OrderOK, LimitOpen

(* Closing batches that leave no candidate behind.                         *)
LEMMA CloseKeeps ==
    ASSUME NEW s \in SessionType, NEW bs \in SUBSET Batches,
           \A b \in bs : Asks[b] \cap Guarded \subseteq Settled(s)
    PROVE  /\ Close(s, bs) \in SessionType
           /\ Close(s, bs).unread = s.unread /\ Close(s, bs).allowed = s.allowed
           /\ SessionOK(s) => SessionOK(Close(s, bs))
<1> DEFINE t == Close(s, bs)
<1>1. /\ t.batches = s.batches \ bs /\ t.unread = s.unread
      /\ t.allowed = s.allowed /\ t.cancelled = s.cancelled /\ t.ran = s.ran
      /\ t.pending = s.pending /\ t.required = s.required
    BY DEF Close, SessionType
<1>2. CandidatesOK(s) => CandidatesOK(t)
    <2> SUFFICES ASSUME CandidatesOK(s), NEW c \in s.pending \cup s.required
                 PROVE  c[1] \in (Guarded \cap OpenRequests(t)) \ Settled(t)
        BY <1>1 DEF CandidatesOK
    <2>1. c[1] \in (Guarded \cap OpenRequests(s)) \ Settled(s)
        BY DEF CandidatesOK
    <2>2. PICK b \in s.batches : c[1] \in Asks[b]
        BY <2>1 DEF OpenRequests
    <2>3. b \in s.batches \ bs
        BY <2>1, <2>2
    <2> QED
        BY <1>1, <2>1, <2>2, <2>3 DEF OpenRequests, Settled
<1> QED
    BY <1>1, <1>2, CloseType DEF SessionOK, CallsOK

(* The requests of the limit prompt and of a batch without approvals are   *)
(* not guarded.                                                            *)
LEMMA PlainBatch ==
    ASSUME NEW b \in Batches, b = LimitBatch \/ ~IsApprovalBatch(b)
    PROVE  Asks[b] \cap Guarded = {}
<1>1. \A r \in Asks[b] \cap Guarded : KindOf[r] = "approval"
    BY RequestsAssumption
<1>2. b = LimitBatch => \A r \in Asks[b] : KindOf[r] = "limit"
    BY BatchesAssumption
<1> QED
    BY <1>1, <1>2 DEF IsApprovalBatch, ApprovalsOf

LEMMA HeedKeeps ==
    ASSUME NEW s \in SessionType, input \in StepInputs \cup {None}
    PROVE  /\ Heed(s) \in SessionType
           /\ Heed(s).batches = s.batches /\ Heed(s).unread = s.unread
           /\ Heed(s).allowed = s.allowed
           /\ SessionOK(s) => SessionOK(Heed(s))
           /\ OrderOK(s) => OrderOK(Heed(s))
<1> DEFINE t == Heed(s)
           heard == IF input = None \/ Said THEN {} ELSE input.message
<1>1. heard \in SUBSET (Texts \cup Requests)
    BY DEF StepInputs
<1>2. t = [s EXCEPT !.read = @ \cup heard]
    BY DEF Heed
<1> HIDE DEF heard
<1>3. /\ t \in SessionType
      /\ t.batches = s.batches /\ t.unread = s.unread
      /\ t.allowed = s.allowed /\ t.cancelled = s.cancelled /\ t.ran = s.ran
      /\ t.pending = s.pending /\ t.required = s.required
    BY <1>1, <1>2 DEF SessionType
<1> QED
    BY <1>3 DEF SessionOK, CandidatesOK, CallsOK, OrderOK, OpenRequests, Settled, LimitOpen

LEMMA TakeResponsesKeeps ==
    ASSUME NEW s \in SessionType, NEW in \in StepInputs \cup {None},
           caller \in Responders \cup {Anonymous},
           AnsweredBy(in) \cap Settled(s) = {}
    PROVE  /\ TakeResponses(s, in) \in SessionType
           /\ TakeResponses(s, in).batches = s.batches
           /\ TakeResponses(s, in).unread = s.unread
           /\ s.allowed \subseteq TakeResponses(s, in).allowed
           /\ SessionOK(s) => SessionOK(TakeResponses(s, in))
           /\ OrderOK(s) => OrderOK(TakeResponses(s, in))
<1> DEFINE named == {r \in AnsweredBy(in) \cap OpenRequests(s) : KindOf[r] = "approval"}
           says(r, o) == o \in ToSet(in.responses[r])
           plain(o) == {r \in named \ Guarded : Head(in.responses[r]) = o}
           candidates == {<<r, caller>> : r \in {q \in named \cap Guarded : says(q, "yes")}}
           base == [s EXCEPT !.pending = @ \cup (candidates \ s.required)]
           refused == plain("no") \cup {r \in named \cap Guarded : says(r, "no")}
<1>1. CASE caller = Anonymous
    BY <1>1 DEF TakeResponses
<1>2. CASE caller # Anonymous
    <2>1. named \subseteq Requests
        BY DEF AnsweredBy
    <2>2. plain("yes") \in SUBSET Requests /\ refused \in SUBSET Requests
        BY <2>1
    <2>3. /\ candidates \subseteq Candidate
          /\ \A c \in candidates : c[1] \in (Guarded \cap OpenRequests(s)) \ Settled(s)
        BY <1>2, <2>1 DEF Candidate
    <2>4. /\ base \in SessionType
          /\ base.batches = s.batches /\ base.unread = s.unread
          /\ base.allowed = s.allowed /\ base.cancelled = s.cancelled /\ base.ran = s.ran
          /\ base.pending = s.pending \cup (candidates \ s.required) /\ base.required = s.required
        BY <2>3 DEF SessionType
    <2>5. TakeResponses(s, in) = Settle(base, plain("yes"), refused)
        BY <1>2 DEF TakeResponses
    <2> DEFINE approved == plain("yes")
    <2> HIDE DEF base, refused, approved, plain, candidates
    <2>6. SessionOK(s) => SessionOK(base)
        BY <2>3, <2>4 DEF SessionOK, CandidatesOK, CallsOK, OpenRequests, Settled
    <2>7. OrderOK(s) => OrderOK(base)
        BY <2>4 DEF OrderOK, LimitOpen
    <2>8. approved \in SUBSET Requests /\ refused \in SUBSET Requests
        BY <2>2 DEF approved
    <2>9. TakeResponses(s, in) = Settle(base, approved, refused)
        BY <2>5 DEF approved
    <2>10. /\ Settle(base, approved, refused) \in SessionType
           /\ Settle(base, approved, refused).batches = base.batches
           /\ Settle(base, approved, refused).unread = base.unread
           /\ base.allowed \subseteq Settle(base, approved, refused).allowed
           /\ SessionOK(base) => SessionOK(Settle(base, approved, refused))
           /\ OrderOK(base) => OrderOK(Settle(base, approved, refused))
        BY <2>4, <2>8, SettleKeeps
    <2> QED
        BY <2>4, <2>6, <2>7, <2>9, <2>10
<1> QED
    BY <1>1, <1>2

(***************************************************************************)
(* How a step moves from one stage to the next.                            *)
(***************************************************************************)

(* The end of a turn, or of a step that the turn follows with another.     *)
LEMMA EndsStep ==
    ASSUME IInv, NEW s \in SessionType, SessionOK(s),
           session' = s, pc' \in {"idle", "step", "ended"}, saved' \in {None, saved},
           saved' # None => SavedOK(saved),
           input' \in StepInputs \cup {None},
           prompt' = <<>> \/ (prompt' = prompt /\ session.allowed \subseteq s.allowed),
           interruptions' = 0 => OrderOK(s) \/ pc' = "ended",
           callbacks' \subseteq Candidate, caller' \in Responders \cup {Anonymous},
           mode' = mode, unsent' = unsent, deliveries' = deliveries,
           rounds' \in 0 .. MaxRounds, interruptions' \in Nat
    PROVE  IInv'
<1>1. TypeOK'
    BY PlainItems DEF IInv, TypeOK
<1>2. Approved(prompt', session'.allowed)
    <2>1. CASE prompt' = <<>>
        BY <2>1 DEF Approved
    <2>2. CASE prompt' = prompt /\ session.allowed \subseteq s.allowed
        BY <2>2, MoreAllowed DEF IInv, StagesOK
    <2> QED
        BY <2>1, <2>2
<1>3. SessionOK(session)'
    BY DEF SessionOK, CandidatesOK, CallsOK, Approved, IsApproval, OpenRequests, Settled
<1>4. OrderOK(session)' <=> OrderOK(s)
    BY DEF OrderOK, NoApproval, Undisturbed, IsApproval, LimitOpen
<1>5. saved' # None => SavedOK(saved)'
    BY DEF SavedOK, SessionOK, CandidatesOK, CallsOK, Approved, IsApproval, OpenRequests, Settled
<1>6. StagesOK'
    BY <1>2, <1>4, <1>5 DEF StagesOK, Approved, IsApproval
<1> QED
    BY <1>1, <1>3, <1>6 DEF IInv

LEMMA ProceedKeeps ==
    ASSUME IInv, pc = "coordinate", NEW s \in SessionType, SessionOK(s),
           session.allowed \subseteq s.allowed, OrderOK(session) => OrderOK(s),
           NEW in \in StepInputs \cup {None}, AnswersAreSettlements(in, s),
           Proceed(s, in), callbacks' \subseteq Candidate,
           UNCHANGED <<bounded, caller>>
    PROVE  IInv'
<1> USE DEF Proceed, bounded
<1>1. TypeOK'
    BY DEF IInv, TypeOK
<1>2. Approved(prompt', session'.allowed)
    BY MoreAllowed DEF IInv, StagesOK
<1>3. SessionOK(session)'
    BY DEF SessionOK, CandidatesOK, CallsOK, Approved, IsApproval, OpenRequests, Settled
<1>4. OrderOK(session)' <=> OrderOK(s)
    BY DEF OrderOK, NoApproval, Undisturbed, IsApproval, LimitOpen
<1>5. AnswersAreSettlements(input, session)'
    BY DEF AnswersAreSettlements, AnsweredBy, Settled
<1>6. saved' = saved /\ SavedOK(saved)
    BY DEF IInv, StagesOK
<1>7. SavedOK(saved)'
    BY <1>6 DEF SavedOK, SessionOK, CandidatesOK, CallsOK, Approved, IsApproval, OpenRequests, Settled
<1>8. interruptions' = 0 => OrderOK(session)
    BY DEF IInv, StagesOK
<1>9. StagesOK'
    BY <1>2, <1>4, <1>5, <1>6, <1>7, <1>8 DEF StagesOK, Approved, IsApproval
<1> QED
    BY <1>1, <1>3, <1>9 DEF IInv

LEMMA CallModelKeeps ==
    ASSUME IInv, pc = "resolve", NEW s \in SessionType, SessionOK(s),
           s.allowed = session.allowed,
           NEW items \in Seq(Items), Approved(items, s.allowed),
           NEW message \in SUBSET (Texts \cup Requests),
           interruptions = 0 => CallOK(s.unread, items, message),
           CallModel(s, items, message)
    PROVE  IInv'
<1> USE DEF bounded
<1> DEFINE commits == saved.input # None /\ ~s.inTurn /\ "memory" \in Context
           heard == Heed(s)
           told == MessageItems(message)
<1>1. /\ heard \in SessionType /\ SessionOK(heard) /\ heard.allowed = s.allowed
    BY HeedKeeps DEF IInv, TypeOK
<1>2. PICK added \in IF saved.input = None THEN {<<>>} ELSE Preamble(s) :
        LET kept == s.unread \o (IF commits THEN items \o added ELSE added)
        IN  /\ session' = [heard EXCEPT !.unread = kept, !.inTurn = @ \/ saved.input # None]
            /\ prompt' = kept \o (IF commits THEN <<>> ELSE items) \o told
    BY DEF CallModel
<1>3. IsContext(added)
    <2>1. IsContext(<<>>)
        BY PlainItems DEF IsContext
    <2> QED
        BY <1>2, <2>1, PreambleType
<1>4. added \in Seq(Items) /\ Approved(added, s.allowed)
    BY <1>3, NoApprovalIsApproved DEF IsContext
<1>5. s.unread \in Seq(Items) /\ Approved(s.unread, s.allowed)
    BY DEF SessionOK, CallsOK, SessionType
<1>6. told \in Seq(Items) /\ Approved(told, s.allowed)
    BY MessageItemsType, NoApprovalIsApproved
<1> DEFINE middle == IF commits THEN items \o added ELSE added
           end == IF commits THEN <<>> ELSE items
           kept == s.unread \o middle
           given == kept \o end \o told
           inTurn == heard.inTurn \/ saved.input # None
           s1 == [heard EXCEPT !.unread = kept, !.inTurn = inTurn]
<1>7. interruptions = 0 => Undisturbed(given)
    <2> SUFFICES ASSUME interruptions = 0 PROVE Undisturbed(given)
        OBVIOUS
    <2>1. /\ Undisturbed(s.unread \o added \o items \o told)
          /\ Undisturbed(s.unread \o (items \o added) \o <<>> \o told)
        BY <1>3, <1>5, PromptsUndisturbed
    <2> QED
        BY <2>1
<1>8. session' = s1 /\ prompt' = given
    BY <1>2
<1>9. /\ pc' = "model" /\ input' = None
      /\ UNCHANGED <<mode, unsent, deliveries, rounds, interruptions, saved, caller, callbacks>>
    BY DEF CallModel
<1> HIDE DEF commits, heard, told
<1>10. /\ middle \in Seq(Items) /\ Approved(middle, s.allowed)
       /\ end \in Seq(Items) /\ Approved(end, s.allowed)
    <2>1. items \o added \in Seq(Items) /\ Approved(items \o added, s.allowed)
        BY <1>4, Concatenation
    <2>2. <<>> \in Seq(Items) /\ Approved(<<>>, s.allowed)
        BY PlainItems, NoApprovalIsApproved
    <2> QED
        BY <1>4, <2>1, <2>2
<1> HIDE DEF middle, end
<1>11. kept \in Seq(Items) /\ Approved(kept, s.allowed)
    BY <1>5, <1>10, Concatenation
<1>12. given \in Seq(Items) /\ Approved(given, s.allowed)
    <2>1. kept \o end \in Seq(Items) /\ Approved(kept \o end, s.allowed)
        BY <1>10, <1>11, Concatenation
    <2> QED
        BY <1>6, <2>1, Concatenation
<1>13. inTurn \in BOOLEAN
    BY <1>1 DEF SessionType
<1> HIDE DEF kept, given, inTurn
<1>14. /\ s1 \in SessionType
       /\ s1.batches = heard.batches /\ s1.unread = kept
       /\ s1.allowed = heard.allowed /\ s1.cancelled = heard.cancelled /\ s1.ran = heard.ran
       /\ s1.pending = heard.pending /\ s1.required = heard.required
    BY <1>1, <1>11, <1>13 DEF SessionType
<1> HIDE DEF s1
<1>15. TypeOK'
    BY <1>8, <1>9, <1>12, <1>14 DEF IInv, TypeOK
<1>16. SessionOK(s1)
    BY <1>1, <1>11, <1>14 DEF SessionOK, CandidatesOK, CallsOK, OpenRequests, Settled
<1>17. SessionOK(session)'
    BY <1>8, <1>16 DEF SessionOK, CandidatesOK, CallsOK, Approved, IsApproval, OpenRequests, Settled
<1>18. SavedOK(saved)
    BY DEF IInv, StagesOK
<1>19. SavedOK(saved)'
    BY <1>9, <1>18
    DEF SavedOK, SessionOK, CandidatesOK, CallsOK, Approved, IsApproval, OpenRequests, Settled
<1>20. Approved(prompt, session.allowed)'
    BY <1>1, <1>8, <1>12, <1>14 DEF Approved, IsApproval
<1>21. interruptions' = 0 => Undisturbed(prompt)'
    BY <1>7, <1>8, <1>9 DEF Undisturbed, IsApproval
<1>22. StagesOK'
    BY <1>9, <1>19, <1>20, <1>21 DEF StagesOK
<1> QED
    BY <1>15, <1>17, <1>22 DEF IInv

LEMMA ParkKeeps ==
    ASSUME IInv, NEW s \in SessionType, SessionOK(s), interruptions' = 0 => OrderOK(s),
           Park(s), callbacks' \subseteq Candidate, caller' \in Responders \cup {Anonymous},
           mode' = mode, unsent' = unsent, deliveries' = deliveries,
           rounds' = rounds, interruptions' \in Nat
    PROVE  IInv'
BY EndsStep DEF Park, IInv, TypeOK

LEMMA NextStepKeeps ==
    ASSUME IInv, pc # "coordinate", NEW s \in SessionType, SessionOK(s), OrderOK(s),
           NextStep(s), rounds' \in 0 .. MaxRounds
    PROVE  IInv'
BY EndsStep DEF NextStep, IInv, TypeOK

(***************************************************************************)
(* Every action keeps the invariant.                                       *)
(***************************************************************************)
LEMMA AnswersType ==
    ASSUME NEW rs \in SUBSET Requests, NEW answers \in AnswersTo(rs)
    PROVE  answers \in [Requests -> Seq(Options)]
<1>1. PICK R \in SUBSET rs : \E f \in [R -> Replies] :
          answers = [r \in Requests |-> IF r \in R THEN f[r] ELSE <<>>]
    BY DEF AnswersTo
<1>2. PICK f \in [R -> Replies] :
          answers = [r \in Requests |-> IF r \in R THEN f[r] ELSE <<>>]
    BY <1>1
<1>3. \A r \in R : f[r] \in Seq(Options)
    BY RepliesAssumption
<1>4. <<>> \in Seq(Options)
    OBVIOUS
<1> QED
    BY <1>2, <1>3, <1>4

LEMMA Begins ==
    ASSUME IInv, pc = "idle", pc' = "step",
           NEW s \in SessionType, SessionOK(s), session' = s,
           s.allowed = session.allowed, OrderOK(session) => OrderOK(s),
           NEW from \in SessionType, SessionOK(from),
           NEW in \in StepInputs \cup {None}, NEW resumed \in SUBSET Candidate,
           saved' = StartOf(from, in, resumed),
           input' \in StepInputs \cup {None}, caller' \in Responders \cup {Anonymous},
           callbacks' \subseteq Candidate, unsent' \subseteq Texts,
           deliveries' \in 0 .. MaxDeliveries,
           UNCHANGED <<mode, prompt, rounds, interruptions>>
    PROVE  IInv'
<1> DEFINE start == StartOf(from, in, resumed)
<1>1. start \in Starts /\ start.session = from
    BY DEF StartOf, Starts, IInv, TypeOK
<1> HIDE DEF start
<1>2. TypeOK'
    BY <1>1 DEF IInv, TypeOK, start
<1>3. SessionOK(session)'
    BY DEF SessionOK, CandidatesOK, CallsOK, Approved, IsApproval, OpenRequests, Settled
<1>4. OrderOK(session)' <=> OrderOK(s)
    BY DEF OrderOK, NoApproval, Undisturbed, IsApproval, LimitOpen
<1>5. Approved(prompt, session.allowed)'
    BY DEF IInv, StagesOK, Approved, IsApproval
<1>6. interruptions' = 0 => OrderOK(session)'
    BY <1>4 DEF IInv, StagesOK
<1>7. SavedOK(start)
    BY <1>1 DEF SavedOK
<1>8. SavedOK(saved)'
    BY <1>7 DEF SavedOK, SessionOK, CandidatesOK, CallsOK, Approved, IsApproval, OpenRequests,
                Settled, start
<1>9. StagesOK'
    BY <1>5, <1>6, <1>8 DEF StagesOK
<1> QED
    BY <1>2, <1>3, <1>9 DEF IInv

LEMMA DeliverKeeps ==
    ASSUME IInv, Deliveries
    PROVE  IInv'
<1> DEFINE asked == UNION {Asks[b] : b \in ToSet(session.asked)}
<1>1. PICK who \in Responders \cup {Anonymous}, answers \in AnswersTo(asked),
           text \in {{}} \cup {{u} : u \in unsent} : Deliver(who, answers, text)
    BY DEF Deliveries
<1>2. asked \in SUBSET Requests
    <2>1. session.asked \in Seq(Batches)
        BY DEF IInv, TypeOK, SessionType
    <2>2. ToSet(session.asked) \subseteq Batches
        BY <2>1 DEF ToSet
    <2> QED
        BY <2>2, BatchesAssumption
<1>3. text \in SUBSET (Texts \cup Requests)
    BY DEF IInv, TypeOK
<1>4. [responses |-> answers, message |-> text] \in StepInputs
    BY <1>2, <1>3, AnswersType DEF StepInputs
<1>5. deliveries' \in 0 .. MaxDeliveries
    BY <1>1, BoundsAssumption DEF Deliver, IInv, TypeOK
<1> QED
    BY <1>1, <1>4, <1>5, Begins DEF Deliver, IInv, TypeOK

(* Context at the end of the history leaves it in order.                   *)
Extended(s, added, inTurn) == [s EXCEPT !.unread = @ \o added, !.inTurn = inTurn]

LEMMA ContextKeeps ==
    ASSUME NEW s \in SessionType, SessionOK(s), NEW added, IsContext(added),
           NEW inTurn \in BOOLEAN
    PROVE  /\ Extended(s, added, inTurn) \in SessionType
           /\ SessionOK(Extended(s, added, inTurn))
           /\ Extended(s, added, inTurn).allowed = s.allowed
           /\ OrderOK(s) => OrderOK(Extended(s, added, inTurn))
<1> DEFINE t == Extended(s, added, inTurn)
<1>1. s.unread \in Seq(Items) /\ Approved(s.unread, s.allowed)
    BY DEF SessionOK, CallsOK, SessionType
<1>2. added \in Seq(Items) /\ Approved(added, s.allowed) /\ NoApproval(added) /\ Undisturbed(added)
    BY NoApprovalIsApproved DEF IsContext
<1> DEFINE told == s.unread \o added
<1>3. /\ told \in Seq(Items) /\ Approved(told, s.allowed)
      /\ NoApproval(s.unread) => NoApproval(told)
      /\ Undisturbed(s.unread) => Undisturbed(told)
    BY <1>1, <1>2, Concatenation
<1>4. t = [s EXCEPT !.unread = told, !.inTurn = inTurn]
    BY DEF Extended
<1> HIDE DEF told, t
<1>5. /\ t \in SessionType
      /\ t.batches = s.batches /\ t.unread = told
      /\ t.allowed = s.allowed /\ t.cancelled = s.cancelled /\ t.ran = s.ran
      /\ t.pending = s.pending /\ t.required = s.required
    BY <1>3, <1>4 DEF SessionType
<1>6. SessionOK(t) /\ (OrderOK(s) => OrderOK(t))
    BY <1>3, <1>5 DEF SessionOK, CandidatesOK, CallsOK, OrderOK, OpenRequests, Settled, LimitOpen
<1> QED
    BY <1>5, <1>6 DEF t

LEMMA CallBackKeeps ==
    ASSUME IInv, NEW c \in session.announced, CallBack(c)
    PROVE  IInv'
<1> DEFINE s == [session EXCEPT !.announced = @ \ {c}]
<1>1. /\ s \in SessionType
      /\ s.batches = session.batches /\ s.unread = session.unread
      /\ s.allowed = session.allowed /\ s.cancelled = session.cancelled /\ s.ran = session.ran
      /\ s.pending = session.pending /\ s.required = session.required
    BY DEF IInv, TypeOK, SessionType
<1>2. PICK added \in Preamble(session) :
        session' = [s EXCEPT !.unread = @ \o added, !.inTurn = TRUE]
    BY DEF CallBack
<1>3. saved' = StartOf(s, None, {c}) /\ c \in Candidate
    BY DEF CallBack, IInv, TypeOK, SessionType
<1> HIDE DEF s
<1>4. SessionOK(s) /\ (OrderOK(session) => OrderOK(s))
    BY <1>1 DEF IInv, SessionOK, CandidatesOK, CallsOK, OrderOK, OpenRequests, Settled, LimitOpen
<1>5. IsContext(added)
    BY PreambleType
<1> DEFINE t == Extended(s, added, TRUE)
<1>6. t \in SessionType /\ SessionOK(t) /\ t.allowed = s.allowed /\ (OrderOK(s) => OrderOK(t))
    BY <1>1, <1>4, <1>5, ContextKeeps
<1>7. session' = t
    BY <1>2 DEF Extended
<1> HIDE DEF t
<1>8. deliveries' \in 0 .. MaxDeliveries
    BY BoundsAssumption DEF CallBack, IInv, TypeOK
<1>9. /\ pc = "idle" /\ pc' = "step" /\ input' = input /\ caller' = caller
      /\ callbacks' = {c} /\ unsent' = unsent
      /\ UNCHANGED <<mode, prompt, rounds, interruptions>>
    BY DEF CallBack
<1>10. input' \in StepInputs \cup {None} /\ caller' \in Responders \cup {Anonymous}
      /\ unsent' \subseteq Texts /\ callbacks' \subseteq Candidate
    BY <1>3, <1>9 DEF IInv, TypeOK
<1> QED
    BY <1>1, <1>3, <1>4, <1>6, <1>7, <1>8, <1>9, <1>10, Begins

LEMMA StartKeeps ==
    ASSUME IInv
    PROVE  SavedOK(Start)
<1>1. CASE saved = None
    <2>1. Start = StartOf(session, input, callbacks)
        BY <1>1 DEF Start
    <2> QED
        BY <2>1 DEF StartOf, SavedOK, Starts, IInv, TypeOK
<1>2. CASE saved # None
    BY <1>2 DEF Start, IInv, StagesOK
<1> QED
    BY <1>1, <1>2

LEMMA BeginStepKeeps ==
    ASSUME IInv, BeginStep
    PROVE  IInv'
<1> DEFINE hold == mode = "task" /\ input # None /\ ApprovalOpen(session)
           taken == IF session.deferred = None \/ hold THEN input
                    ELSE IF input = None THEN session.deferred
                    ELSE Coalesce(session.deferred, input)
           in == DropStale(taken, session)
           deferred == IF hold THEN session.deferred ELSE None
           s == [session EXCEPT !.deferred = deferred, !.answered = @ \cup AnsweredBy(in)]
<1>1. session \in SessionType /\ session.deferred \in StepInputs \cup {None}
    BY DEF IInv, TypeOK, SessionType
<1>2. taken \in StepInputs \cup {None}
    <2>1. input \in StepInputs \cup {None}
        BY DEF IInv, TypeOK
    <2>2. session.deferred # None /\ input # None => Coalesce(session.deferred, input) \in StepInputs
        BY <1>1, <2>1, CoalesceType
    <2> QED
        BY <1>1, <2>1, <2>2
<1> HIDE DEF taken
<1>3. in \in StepInputs \cup {None} /\ AnsweredBy(in) \subseteq OpenRequests(session)
    BY <1>1, <1>2, DropStaleType
<1> HIDE DEF in
<1>4. /\ pc = "step" /\ pc' = "coordinate" /\ input' = in
      /\ saved' = Start
      /\ UNCHANGED <<bounded, caller, callbacks, prompt>>
    BY DEF BeginStep, in, taken
<1>5. session' = s
    BY <1>1 DEF BeginStep, in, taken, SessionType
<1>6. deferred \in StepInputs \cup {None} /\ AnsweredBy(in) \subseteq Requests
    BY <1>1 DEF AnsweredBy
<1> HIDE DEF deferred
<1>7. /\ s \in SessionType
      /\ s.batches = session.batches /\ s.unread = session.unread
      /\ s.allowed = session.allowed /\ s.cancelled = session.cancelled /\ s.ran = session.ran
      /\ s.pending = session.pending /\ s.required = session.required
    BY <1>1, <1>6 DEF SessionType
<1> HIDE DEF s
<1>8. SavedOK(Start)
    BY StartKeeps
<1>9. TypeOK'
    BY <1>1, <1>3, <1>4, <1>5, <1>7, <1>8 DEF IInv, TypeOK, bounded, SavedOK
<1>10. SessionOK(s) /\ (OrderOK(session) => OrderOK(s)) /\ OpenRequests(s) = OpenRequests(session)
    BY <1>7 DEF IInv, SessionOK, CandidatesOK, CallsOK, OrderOK, OpenRequests, Settled, LimitOpen
<1>11. SessionOK(session)'
    BY <1>5, <1>10 DEF SessionOK, CandidatesOK, CallsOK, Approved, IsApproval, OpenRequests, Settled
<1>12. SavedOK(saved)'
    BY <1>4, <1>8 DEF SavedOK, SessionOK, CandidatesOK, CallsOK, Approved, IsApproval,
                       OpenRequests, Settled
<1>13. OrderOK(session)' <=> OrderOK(s)
    BY <1>5 DEF OrderOK, NoApproval, Undisturbed, IsApproval, LimitOpen
<1>14. Approved(prompt, session.allowed)'
    BY <1>4, <1>5, <1>7 DEF IInv, StagesOK, Approved, IsApproval
<1>15. (AnsweredBy(input) \subseteq OpenRequests(session))'
    BY <1>3, <1>4, <1>5, <1>10 DEF AnsweredBy, OpenRequests
<1>16. interruptions' = 0 => OrderOK(s)
    BY <1>4, <1>10 DEF IInv, StagesOK, bounded
<1>17. StagesOK'
    BY <1>4, <1>12, <1>13, <1>14, <1>15, <1>16 DEF StagesOK
<1> QED
    BY <1>9, <1>11, <1>17 DEF IInv

(* What coordination starts with: no expired candidate, and of the step's  *)
(* answers those to open and unsettled requests.                           *)
LEMMA Coordinates ==
    ASSUME IInv, pc = "coordinate", NEW expired,
           NEW s, s = Expire(session, expired),
           NEW in, in = RemoveResponses(input, Settled(s))
    PROVE  /\ s \in SessionType /\ SessionOK(s) /\ (OrderOK(session) => OrderOK(s))
           /\ s.allowed = session.allowed
           /\ in \in StepInputs \cup {None}
           /\ AnsweredBy(in) \subseteq OpenRequests(s) \ Settled(s)
<1>1. /\ s \in SessionType /\ SessionOK(s) /\ (OrderOK(session) => OrderOK(s))
      /\ s.batches = session.batches /\ s.allowed = session.allowed
    BY ExpireKeeps DEF IInv, TypeOK
<1>2. Settled(s) \in SUBSET Requests
    BY <1>1 DEF Settled, SessionType
<1>3. /\ in \in StepInputs \cup {None}
      /\ AnsweredBy(in) = AnsweredBy(input) \ Settled(s)
    BY <1>2, AnsweredByRemoved DEF IInv, TypeOK
<1>4. AnsweredBy(input) \subseteq OpenRequests(s)
    BY <1>1 DEF IInv, StagesOK, OpenRequests
<1> QED
    BY <1>1, <1>3, <1>4

LEMMA ContinueKeeps ==
    ASSUME IInv, pc = "coordinate", NEW s \in SessionType, SessionOK(s),
           session.allowed \subseteq s.allowed, OrderOK(session) => OrderOK(s),
           NEW in \in StepInputs \cup {None},
           ContinueCoordination(s, in), callbacks' \subseteq Candidate,
           UNCHANGED <<bounded, caller>>
    PROVE  IInv'
<1> DEFINE t == IF in = None THEN s ELSE Queue(s, in)
<1>1. /\ t \in SessionType /\ SessionOK(t) /\ t.allowed = s.allowed
      /\ OrderOK(s) => OrderOK(t)
    BY QueueKeeps
<1>2. interruptions' = 0 => OrderOK(t)
    BY <1>1 DEF IInv, StagesOK, bounded
<1>3. session' = t
    BY DEF ContinueCoordination
<1> HIDE DEF t
<1> QED
    BY <1>1, <1>2, <1>3, EndsStep DEF ContinueCoordination, IInv, TypeOK, bounded

LEMMA CoordinateResponsesKeeps ==
    ASSUME IInv, NEW expired, CoordinateResponses(expired)
    PROVE  IInv'
<1> DEFINE s == Expire(session, expired)
           in == RemoveResponses(input, Settled(s))
           consumed == AnsweredBy(in) \cap OpenRequests(s) \cap Guarded
           taken == TakeResponses(s, in)
           remaining == RemoveResponses(in, consumed)
<1>1. /\ pc = "coordinate"
      /\ \/ ContinueCoordination(taken, remaining)
         \/ Proceed(taken, remaining)
      /\ UNCHANGED <<bounded, caller, callbacks>>
    BY DEF CoordinateResponses
<1>2. /\ s \in SessionType /\ SessionOK(s) /\ (OrderOK(session) => OrderOK(s))
      /\ s.allowed = session.allowed
      /\ in \in StepInputs \cup {None}
      /\ AnsweredBy(in) \subseteq OpenRequests(s) \ Settled(s)
    BY <1>1, Coordinates
<1> HIDE DEF s, in
<1>3. /\ taken \in SessionType /\ SessionOK(taken)
      /\ s.allowed \subseteq taken.allowed /\ (OrderOK(s) => OrderOK(taken))
    BY <1>2, TakeResponsesKeeps DEF IInv, TypeOK
<1>4. consumed \in SUBSET Requests
    BY DEF AnsweredBy
<1>5. /\ remaining \in StepInputs \cup {None}
      /\ AnsweredBy(remaining) = AnsweredBy(in) \ consumed
    BY <1>2, <1>4, AnsweredByRemoved
<1>6. AnswersAreSettlements(remaining, taken)
    BY <1>2, <1>5 DEF AnswersAreSettlements
<1>7. callbacks' \subseteq Candidate
    BY <1>1 DEF IInv, TypeOK
<1> HIDE DEF taken, remaining, consumed
<1>8. CASE ContinueCoordination(taken, remaining)
    BY <1>1, <1>2, <1>3, <1>5, <1>7, <1>8, ContinueKeeps
<1>9. CASE Proceed(taken, remaining)
    BY <1>1, <1>2, <1>3, <1>5, <1>6, <1>7, <1>9, ProceedKeeps
<1> QED
    BY <1>1, <1>8, <1>9

LEMMA NothingToCoordinateKeeps ==
    ASSUME IInv, NEW expired, NothingToCoordinate(expired)
    PROVE  IInv'
<1> DEFINE s == Expire(session, expired)
           in == RemoveResponses(input, Settled(session))
<1>1. /\ pc = "coordinate" /\ session.batches = {}
      /\ Proceed(s, in) /\ UNCHANGED <<bounded, caller, callbacks>>
    BY DEF NothingToCoordinate
<1>2. Settled(s) = Settled(session)
    BY ExpireKeeps DEF IInv, TypeOK
<1>3. /\ s \in SessionType /\ SessionOK(s) /\ (OrderOK(session) => OrderOK(s))
      /\ s.allowed = session.allowed
      /\ in \in StepInputs \cup {None}
      /\ AnsweredBy(in) \subseteq OpenRequests(s) \ Settled(s)
    BY <1>1, <1>2, Coordinates
<1>4. s.batches = {}
    BY <1>1, ExpireKeeps DEF IInv, TypeOK
<1> HIDE DEF s, in
<1>5. AnswersAreSettlements(in, s)
    BY <1>3, <1>4 DEF AnswersAreSettlements, OpenRequests
<1> QED
    BY <1>1, <1>3, <1>5, ProceedKeeps DEF IInv, TypeOK

LEMMA AuthorizeCandidatesKeeps ==
    ASSUME IInv, NEW expired, AuthorizeCandidates(expired)
    PROVE  IInv'
<1> DEFINE s == Expire(session, expired)
           in == RemoveResponses(input, Settled(s))
           due == {c \in s.pending \cup (s.required \cap callbacks) : c[1] \in OpenRequests(s)}
           quiet == /\ AnsweredBy(in) \cap OpenRequests(s) \cap Guarded = {}
                    /\ TakeResponses(s, in) = s
<1>1. PICK verdict \in [due -> {"allowed", "rejected", "challenged"}] :
        LET with(v) == {c \in due : verdict[c] = v}
            t == Settle([s EXCEPT !.pending = @ \ due,
                                  !.required = (@ \ due) \cup with("challenged")],
                        {c[1] : c \in with("allowed")}, {})
            settled == Settled(t) \cap OpenRequests(t)
            resumed == AppendSettled(in, settled, t)
            unannounced == t.required \ t.announced
        IN  IF settled # {} THEN Proceed(t, resumed)
            ELSE IF due # {} THEN ContinueCoordination(t, resumed)
            ELSE IF unannounced # {}
            THEN Park([(IF resumed = None THEN t ELSE Queue(t, resumed))
                         EXCEPT !.announced = @ \cup unannounced])
            ELSE Proceed(t, resumed)
    BY DEF AuthorizeCandidates
<1>2. /\ pc = "coordinate" /\ quiet /\ callbacks' = callbacks \ due
      /\ UNCHANGED <<bounded, caller>>
    BY DEF AuthorizeCandidates
<1>3. /\ s \in SessionType /\ SessionOK(s) /\ (OrderOK(session) => OrderOK(s))
      /\ s.allowed = session.allowed
      /\ in \in StepInputs \cup {None}
      /\ AnsweredBy(in) \subseteq OpenRequests(s) \ Settled(s)
    BY <1>2, Coordinates
<1> HIDE DEF s
<1> DEFINE challenged == {c \in due : verdict[c] = "challenged"}
           allowed == {c[1] : c \in {d \in due : verdict[d] = "allowed"}}
           judged == [s EXCEPT !.pending = @ \ due, !.required = (@ \ due) \cup challenged]
           t == Settle(judged, allowed, {})
           settled == Settled(t) \cap OpenRequests(t)
           resumed == AppendSettled(in, settled, t)
           unannounced == t.required \ t.announced
           queued == IF resumed = None THEN t ELSE Queue(t, resumed)
           parked == [queued EXCEPT !.announced = @ \cup unannounced]
<1>4. \/ Proceed(t, resumed)
      \/ ContinueCoordination(t, resumed)
      \/ Park(parked)
    BY <1>1
<1>5. due \subseteq s.pending \cup s.required /\ due \subseteq Candidate
    BY <1>3 DEF SessionType
<1>6. /\ judged \in SessionType
      /\ judged.batches = s.batches /\ judged.unread = s.unread
      /\ judged.allowed = s.allowed /\ judged.cancelled = s.cancelled /\ judged.ran = s.ran
      /\ judged.pending \subseteq s.pending
      /\ judged.required \subseteq s.pending \cup s.required
    BY <1>3, <1>5 DEF SessionType
<1>7. SessionOK(judged) /\ (OrderOK(s) => OrderOK(judged))
    BY <1>3, <1>6 DEF SessionOK, CandidatesOK, CallsOK, OrderOK, OpenRequests, Settled, LimitOpen
<1>8. allowed \in SUBSET Requests
    BY <1>5 DEF Candidate
<1>9. callbacks' \subseteq Candidate
    BY <1>2 DEF IInv, TypeOK
<1>10. AnsweredBy(in) \cap Guarded = {}
    BY <1>2, <1>3
<1> HIDE DEF in, due, allowed, judged
<1>11. /\ t \in SessionType /\ SessionOK(t)
       /\ session.allowed \subseteq t.allowed /\ (OrderOK(session) => OrderOK(t))
    BY <1>3, <1>6, <1>7, <1>8, SettleKeeps
<1> HIDE DEF t
<1>12. settled \in SUBSET Requests /\ settled \subseteq Settled(t)
    BY <1>11 DEF Settled, SessionType
<1> HIDE DEF settled
<1>13. /\ resumed \in StepInputs \cup {None}
       /\ AnsweredBy(resumed) \subseteq AnsweredBy(in) \cup settled
       /\ resumed # None =>
            \A r \in settled : Last(resumed.responses[r]) = IF r \in t.allowed THEN "yes" ELSE "no"
    BY <1>3, <1>11, <1>12, AppendSettledType
<1>14. AnswersAreSettlements(resumed, t)
    <2> SUFFICES ASSUME NEW r \in AnsweredBy(resumed) \cap Guarded
                 PROVE  r \in Settled(t) /\ (Last(resumed.responses[r]) = "yes" => r \in t.allowed)
        BY DEF AnswersAreSettlements
    <2>1. r \in settled /\ resumed # None
        BY <1>10, <1>13 DEF AnsweredBy
    <2> QED
        BY <1>12, <1>13, <2>1
<1> HIDE DEF resumed
<1>15. /\ queued \in SessionType /\ SessionOK(queued)
       /\ OrderOK(t) => OrderOK(queued)
    BY <1>11, <1>13, QueueKeeps
<1> HIDE DEF queued
<1>16. /\ parked \in SessionType
       /\ parked.batches = queued.batches /\ parked.unread = queued.unread
       /\ parked.allowed = queued.allowed /\ parked.cancelled = queued.cancelled
       /\ parked.ran = queued.ran
       /\ parked.pending = queued.pending /\ parked.required = queued.required
    <2>1. unannounced \subseteq Candidate
        BY <1>11 DEF SessionType
    <2> QED
        BY <1>15, <2>1 DEF SessionType
<1> HIDE DEF parked
<1>17. SessionOK(parked) /\ (OrderOK(queued) => OrderOK(parked))
    BY <1>15, <1>16 DEF SessionOK, CandidatesOK, CallsOK, OrderOK, OpenRequests, Settled, LimitOpen
<1>18. CASE Proceed(t, resumed)
    BY <1>2, <1>9, <1>11, <1>13, <1>14, <1>18, ProceedKeeps
<1>19. CASE ContinueCoordination(t, resumed)
    BY <1>2, <1>9, <1>11, <1>13, <1>19, ContinueKeeps
<1>20. CASE Park(parked)
    <2>1. interruptions' = 0 => OrderOK(parked)
        BY <1>2, <1>11, <1>15, <1>17 DEF IInv, StagesOK, bounded
    <2> QED
        BY <1>2, <1>9, <1>16, <1>17, <1>20, <2>1, ParkKeeps DEF IInv, TypeOK, bounded
<1> QED
    BY <1>4, <1>18, <1>19, <1>20

(* The step's input is at rest: nothing was resolved.                      *)
LEMMA UnresolvedKeeps ==
    ASSUME IInv, pc = "resolve", NEW s \in SessionType, SessionOK(s),
           OrderOK(session) => OrderOK(s), Unresolved(s)
    PROVE  IInv'
<1>1. /\ Heed(s) \in SessionType /\ SessionOK(Heed(s))
      /\ OrderOK(s) => OrderOK(Heed(s))
    BY HeedKeeps DEF IInv, TypeOK
<1>2. interruptions' = 0 => OrderOK(Heed(s))
    BY <1>1 DEF Unresolved, bounded, IInv, StagesOK
<1> QED
    BY <1>1, <1>2, ParkKeeps DEF Unresolved, bounded, IInv, TypeOK

(* What is given to the model when batches are resolved: the answers of    *)
(* the others are deferred.                                                *)
LEMMA FinishKeeps ==
    ASSUME IInv, pc = "resolve", NEW s \in SessionType, SessionOK(s),
           s.allowed = session.allowed,
           NEW bs \in SUBSET Batches, \A b \in bs : Asks[b] \cap Guarded \subseteq Settled(s),
           NEW items \in Seq(Items), Approved(items, s.allowed), NEW defer,
           interruptions = 0 =>
               CallOK(s.unread, items, IF defer THEN {} ELSE StepInput.message),
           FinishResolved(s, bs, items, defer)
    PROVE  IInv'
<1> DEFINE rest == Close(s, bs)
           leftover == Only(StepInput, OpenRequests(rest))
           deferred == IF defer THEN leftover ELSE [leftover EXCEPT !.message = {}]
           kept == IF deferred = EmptyInput THEN rest ELSE Queue(rest, deferred)
           message == IF defer THEN {} ELSE StepInput.message
<1>1. CallModel(kept, items, message)
    BY DEF FinishResolved
<1>2. /\ rest \in SessionType /\ SessionOK(rest)
      /\ rest.unread = s.unread /\ rest.allowed = s.allowed
    BY CloseKeeps
<1>3. StepInput \in StepInputs
    BY StepInputType DEF IInv, TypeOK
<1> HIDE DEF rest
<1>4. leftover \in StepInputs
    BY <1>3, OnlyType
<1> HIDE DEF leftover
<1>5. deferred \in StepInputs
    BY <1>4 DEF StepInputs
<1> HIDE DEF deferred
<1>6. /\ kept \in SessionType /\ SessionOK(kept)
      /\ kept.unread = s.unread /\ kept.allowed = s.allowed
    BY <1>2, <1>5, QueueKeeps
<1>7. message \in SUBSET (Texts \cup Requests)
    BY <1>3 DEF StepInputs
<1>8. interruptions = 0 => CallOK(kept.unread, items, message)
    BY <1>6
<1> HIDE DEF kept, message
<1> QED
    BY <1>1, <1>6, <1>7, <1>8, CallModelKeeps

(* Without the limit prompt no approval waits in the history, unless a     *)
(* turn was cut off.                                                       *)
LEMMA NoneWaits ==
    ASSUME IInv, pc = "resolve", ~LimitOpen(session), interruptions = 0
    PROVE  NoApproval(session.unread)
BY DEF IInv, StagesOK, OrderOK

(* An approval response is put in the transcript only for calls that were  *)
(* allowed.                                                                *)
LEMMA TranscriptType ==
    ASSUME IInv, pc = "resolve", NEW bs \in SUBSET Batches
    PROVE  /\ Transcript("question", bs) \in Seq(Items)
           /\ NoApproval(Transcript("question", bs))
           /\ Transcript("approval", bs) \in Seq(Items)
           /\ Approved(Transcript("approval", bs), session.allowed)
           /\ Undisturbed(Transcript("approval", bs))
           /\ bs = {} => Transcript("approval", bs) = <<>>
<1> DEFINE of(kind) == {r \in (UNION {Asks[b] : b \in bs}) \cap Decided :
                          KindOf[r] = kind /\ (kind = "approval" => Decision(r) = "yes")}
<1>1. CASE bs = {}
    BY <1>1, PlainItems, NoApprovalIsApproved DEF Transcript
<1>2. CASE bs # {}
    <2>1. of("question") \subseteq Requests /\ of("approval") \subseteq Requests
        BY DEF Decided, AnsweredBy
    <2>2. of("approval") \cap Guarded \subseteq session.allowed
        <3> SUFFICES ASSUME NEW r \in of("approval"), r \in Guarded
                     PROVE  r \in session.allowed
            OBVIOUS
        <3>1. r \in AnsweredBy(StepInput) /\ Last(StepInput.responses[r]) = "yes"
            BY DEF Decided, Decision
        <3>2. r \in AnsweredBy(input) /\ StepInput.responses[r] = input.responses[r]
            BY <3>1, StepInputType DEF IInv, TypeOK
        <3> QED
            BY <3>1, <3>2 DEF IInv, StagesOK, AnswersAreSettlements
    <2> DEFINE q == of("question")
               a == of("approval")
    <2>3. /\ Transcript("question", bs) = <<Item("question", q)>>
          /\ Transcript("approval", bs) = <<Item("approval", a)>>
        BY <1>2 DEF Transcript
    <2>4. q \subseteq Requests /\ a \subseteq Requests /\ a \cap Guarded \subseteq session.allowed
        BY <2>1, <2>2
    <2> HIDE DEF q, a
    <2>5. /\ Item("question", q) \in Items /\ ~IsApproval(Item("question", q))
          /\ Item("approval", a) \in Items /\ Item("approval", a).of = a
        BY <2>4 DEF Item, Items, IsApproval
    <2> QED
        BY <1>2, <2>3, <2>4, <2>5, OneItem
<1> QED
    BY <1>1, <1>2

(* A batch that can be resolved leaves no guarded request unsettled.       *)
LEMMA ResolvableSettled ==
    ASSUME IInv, pc = "resolve", NEW b \in session.batches, Answered(b)
    PROVE  Asks[b] \cap Guarded \subseteq Settled(session)
<1>1. b \in Batches
    BY DEF IInv, TypeOK, SessionType
<1>2. CASE ~IsApprovalBatch(b)
    BY <1>1, <1>2, PlainBatch
<1>3. CASE IsApprovalBatch(b)
    <2> SUFFICES ASSUME NEW r \in Asks[b] \cap Guarded
                 PROVE  r \in Settled(session)
        OBVIOUS
    <2>1. r \in ApprovalsOf(b)
        BY RequestsAssumption DEF ApprovalsOf
    <2>2. r \in AnsweredBy(StepInput)
        BY <1>3, <2>1 DEF Answered, Decided
    <2>3. r \in AnsweredBy(input)
        BY <2>2, StepInputType DEF IInv, TypeOK
    <2> QED
        BY <2>3 DEF IInv, StagesOK, AnswersAreSettlements
<1> QED
    BY <1>2, <1>3

LEMMA ResolveBatchesKeeps ==
    ASSUME IInv, ResolveBatches
    PROVE  IInv'
<1> DEFINE approvals == {b \in Resolvable : IsApprovalBatch(b)}
           asked == Transcript("question", Resolvable \ approvals)
           approved == Transcript("approval", approvals)
           items == asked \o approved
           defer == approvals # {} \/ HasTailApproval(session.unread)
           message == IF defer THEN {} ELSE StepInput.message
<1>1. /\ pc = "resolve" /\ ~LimitOpen(session)
      /\ FinishResolved(session, Resolvable, items, defer)
    BY DEF ResolveBatches, Addressed, Resolving
<1>2. /\ Resolvable \in SUBSET Batches /\ Resolvable \subseteq session.batches
      /\ \A b \in Resolvable : Answered(b)
    BY DEF Resolvable, IInv, TypeOK, SessionType
<1>3. \A b \in Resolvable : Asks[b] \cap Guarded \subseteq Settled(session)
    BY <1>1, <1>2, ResolvableSettled
<1>4. approvals \in SUBSET Batches /\ Resolvable \ approvals \in SUBSET Batches
    BY <1>2
<1> HIDE DEF approvals
<1>5. /\ asked \in Seq(Items) /\ NoApproval(asked)
      /\ approved \in Seq(Items) /\ Approved(approved, session.allowed) /\ Undisturbed(approved)
      /\ approvals = {} => approved = <<>>
    BY <1>1, <1>4, TranscriptType
<1> HIDE DEF asked, approved
<1>6. /\ items \in Seq(Items) /\ Approved(items, session.allowed) /\ Undisturbed(items)
      /\ approvals = {} => NoApproval(items)
    BY <1>5, Concatenation, NoApprovalIsApproved, PlainItems
<1> HIDE DEF items
<1>7. interruptions = 0 => CallOK(session.unread, items, message)
    <2> SUFFICES ASSUME interruptions = 0
                 PROVE  CallOK(session.unread, items, message)
        OBVIOUS
    <2>1. session.unread \in Seq(Items) /\ NoApproval(session.unread)
        BY <1>1, NoneWaits DEF IInv, TypeOK, SessionType
    <2>2. Undisturbed(session.unread)
        BY <2>1, NoApprovalIsApproved
    <2>3. approvals = {} => ~HasTailApproval(session.unread \o items)
        BY <1>6, <2>1, Concatenation, TailOf
    <2> QED
        BY <1>6, <2>1, <2>2, <2>3 DEF CallOK
<1> HIDE DEF defer
<1> QED
    BY <1>1, <1>2, <1>3, <1>6, <1>7, FinishKeeps DEF IInv, TypeOK

LEMMA LimitGrantedKeeps ==
    ASSUME IInv, LimitGranted
    PROVE  IInv'
<1> DEFINE s == [session EXCEPT !.exhausted = FALSE]
           defer == HasTailApproval(session.unread)
           message == IF defer THEN {} ELSE StepInput.message
<1>1. pc = "resolve" /\ FinishResolved(s, {LimitBatch}, <<>>, defer)
    BY DEF LimitGranted, Addressed, Resolving
<1>2. session \in SessionType /\ session.unread \in Seq(Items)
    BY DEF IInv, TypeOK, SessionType
<1>3. /\ s \in SessionType
      /\ s.batches = session.batches /\ s.unread = session.unread
      /\ s.allowed = session.allowed /\ s.cancelled = session.cancelled /\ s.ran = session.ran
      /\ s.pending = session.pending /\ s.required = session.required
    BY <1>2 DEF SessionType
<1> HIDE DEF s
<1>4. SessionOK(s)
    BY <1>3 DEF IInv, SessionOK, CandidatesOK, CallsOK, OpenRequests, Settled
<1>5. {LimitBatch} \in SUBSET Batches /\ Asks[LimitBatch] \cap Guarded = {}
    BY BatchesAssumption, PlainBatch
<1>6. interruptions = 0 => CallOK(s.unread, <<>>, message)
    <2> SUFFICES ASSUME interruptions = 0
                 PROVE  CallOK(session.unread, <<>>, message)
        BY <1>3
    <2>1. OrderOK(session)
        BY <1>1 DEF IInv, StagesOK
    <2>2. Undisturbed(session.unread) /\ Undisturbed(<<>>)
        BY <2>1, PlainItems, NoApprovalIsApproved DEF OrderOK
    <2>3. session.unread \o <<>> = session.unread
        BY <1>2
    <2> QED
        BY <2>2, <2>3 DEF CallOK
<1> HIDE DEF message
<1>7. interruptions = 0 =>
          CallOK(s.unread, <<>>, IF defer THEN {} ELSE StepInput.message)
    BY <1>6 DEF message
<1>8. \A b \in {LimitBatch} : Asks[b] \cap Guarded \subseteq Settled(s)
    BY <1>5
<1>9. <<>> \in Seq(Items) /\ Approved(<<>>, s.allowed)
    BY PlainItems, NoApprovalIsApproved
<1> HIDE DEF defer
<1> QED
    BY <1>1, <1>3, <1>4, <1>5, <1>7, <1>8, <1>9, FinishKeeps

(* Items that are no approvals may follow a history without any.           *)
LEMMA PlainCall ==
    ASSUME NEW unread \in Seq(Items), NoApproval(unread),
           NEW items \in Seq(Items), NoApproval(items),
           NEW message \in SUBSET (Texts \cup Requests)
    PROVE  CallOK(unread, items, message)
<1>1. unread \o items \in Seq(Items) /\ NoApproval(unread \o items)
    BY Concatenation
<1> QED
    BY <1>1, TailOf, NoApprovalIsApproved DEF CallOK

LEMMA PlainCallKeeps ==
    ASSUME IInv, pc = "resolve", ~LimitOpen(session),
           NEW s \in SessionType, SessionOK(s),
           s.allowed = session.allowed, s.unread = session.unread,
           NEW items \in Seq(Items), NoApproval(items),
           CallModel(s, items, StepInput.message)
    PROVE  IInv'
<1>1. StepInput.message \in SUBSET (Texts \cup Requests)
    BY StepInputType DEF IInv, TypeOK, StepInputs
<1>2. s.unread \in Seq(Items)
    BY DEF SessionType
<1>3. interruptions = 0 => CallOK(s.unread, items, StepInput.message)
    BY <1>1, <1>2, NoneWaits, PlainCall
<1> QED
    BY <1>1, <1>3, NoApprovalIsApproved, CallModelKeeps

LEMMA NothingOpenKeeps ==
    ASSUME IInv, NothingOpen
    PROVE  IInv'
<1>1. pc = "resolve" /\ ~LimitOpen(session) /\ CallModel(session, <<>>, StepInput.message)
    BY DEF NothingOpen, LimitOpen
<1> QED
    BY <1>1, PlainCallKeeps, PlainItems DEF IInv, TypeOK

LEMMA DismissQuestionKeeps ==
    ASSUME IInv, DismissQuestion
    PROVE  IInv'
<1> DEFINE s == Close(session, session.batches)
<1>1. /\ pc = "resolve" /\ ~LimitOpen(session) /\ ~ApprovalOpen(session)
      /\ CallModel(s, <<Item("question", {})>>, StepInput.message)
    BY DEF DismissQuestion, Addressed, Resolving
<1>2. session \in SessionType /\ session.batches \in SUBSET Batches
    BY DEF IInv, TypeOK, SessionType
<1>3. \A b \in session.batches : Asks[b] \cap Guarded \subseteq Settled(session)
    BY <1>1, <1>2, PlainBatch DEF ApprovalOpen
<1>4. /\ s \in SessionType /\ SessionOK(s)
      /\ s.unread = session.unread /\ s.allowed = session.allowed
    BY <1>2, <1>3, CloseKeeps DEF IInv
<1> HIDE DEF s
<1> QED
    BY <1>1, <1>4, PlainCallKeeps, PlainItems

LEMMA PassByKeeps ==
    ASSUME IInv, PassBy
    PROVE  IInv'
<1> DEFINE answers == [StepInput EXCEPT !.message = {}]
           s == IF Decided = {} THEN session ELSE Queue(session, answers)
<1>1. /\ pc = "resolve" /\ ~LimitOpen(session)
      /\ CallModel(s, <<>>, StepInput.message)
    BY DEF PassBy, Addressed, Resolving
<1>2. answers \in StepInputs
    BY StepInputType DEF IInv, TypeOK, StepInputs
<1> HIDE DEF answers
<1>3. /\ s \in SessionType /\ SessionOK(s)
      /\ s.unread = session.unread /\ s.allowed = session.allowed
    BY <1>2, QueueKeeps DEF IInv, TypeOK
<1> HIDE DEF s
<1> QED
    BY <1>1, <1>3, PlainCallKeeps, PlainItems

LEMMA RestingKeeps ==
    ASSUME IInv, DeferWhole \/ NothingSaid \/ LimitUnanswered \/ HoldAnswers
    PROVE  IInv'
<1> DEFINE queued == Queue(session, StepInput)
           begun(added) == Extended(queued, added, FALSE)
<1>1. /\ pc = "resolve"
      /\ \/ Unresolved(session) \/ Unresolved(queued)
         \/ \E added \in Preamble(session) : Unresolved(begun(added))
    BY DEF DeferWhole, NothingSaid, LimitUnanswered, HoldAnswers, Addressed, Resolving, Extended
<1>2. session \in SessionType /\ SessionOK(session) /\ StepInput \in StepInputs
    BY StepInputType DEF IInv, TypeOK
<1>3. queued \in SessionType /\ SessionOK(queued) /\ (OrderOK(session) => OrderOK(queued))
    BY <1>2, QueueKeeps
<1>4. CASE Unresolved(session)
    BY <1>1, <1>2, <1>4, UnresolvedKeeps
<1> HIDE DEF queued
<1>5. CASE Unresolved(queued)
    BY <1>1, <1>3, <1>5, UnresolvedKeeps
<1>6. CASE \E added \in Preamble(session) : Unresolved(begun(added))
    <2>1. PICK added \in Preamble(session) : Unresolved(begun(added))
        BY <1>6
    <2>2. /\ begun(added) \in SessionType /\ SessionOK(begun(added))
          /\ OrderOK(queued) => OrderOK(begun(added))
        <3>1. IsContext(added)
            BY PreambleType
        <3> QED
            BY <1>3, <3>1, ContextKeeps
    <2> HIDE DEF begun
    <2> QED
        BY <1>1, <1>3, <2>1, <2>2, UnresolvedKeeps
<1> QED
    BY <1>1, <1>4, <1>5, <1>6

LEMMA FinishTurnKeeps ==
    ASSUME NEW s \in SessionType, SessionOK(s), NEW inTurn \in BOOLEAN,
           NEW t, t = [s EXCEPT !.inTurn = inTurn]
    PROVE  /\ t \in SessionType /\ SessionOK(t)
           /\ t.batches = s.batches /\ t.unread = s.unread /\ t.allowed = s.allowed
           /\ OrderOK(s) => OrderOK(t)
<1>1. /\ t \in SessionType
      /\ t.batches = s.batches /\ t.unread = s.unread
      /\ t.allowed = s.allowed /\ t.cancelled = s.cancelled /\ t.ran = s.ran
      /\ t.pending = s.pending /\ t.required = s.required
    BY DEF SessionType
<1> QED
    BY <1>1 DEF SessionOK, CandidatesOK, CallsOK, OrderOK, OpenRequests, Settled, LimitOpen

LEMMA FinishedKeeps ==
    ASSUME NEW s \in SessionType, SessionOK(s)
    PROVE  /\ FinishTurn(s) \in SessionType /\ SessionOK(FinishTurn(s))
           /\ FinishTurn(s).batches = s.batches /\ FinishTurn(s).unread = s.unread
           /\ FinishTurn(s).allowed = s.allowed
<1> DEFINE inTurn == s.inTurn /\ mode = "task"
<1>1. inTurn \in BOOLEAN /\ FinishTurn(s) = [s EXCEPT !.inTurn = inTurn]
    BY DEF FinishTurn, SessionType
<1> HIDE DEF inTurn
<1> QED
    BY <1>1, FinishTurnKeeps

LEMMA OpenBatchKeeps ==
    ASSUME NEW s \in SessionType, NEW b \in Batches, SessionOK(s)
    PROVE  /\ OpenBatch(s, b) \in SessionType /\ SessionOK(OpenBatch(s, b))
           /\ OpenBatch(s, b).unread = s.unread /\ OpenBatch(s, b).allowed = s.allowed
           /\ b \in OpenBatch(s, b).batches
<1> DEFINE t == OpenBatch(s, b)
<1>1. /\ t.batches = s.batches \cup {b} /\ t.unread = s.unread
      /\ t.allowed = s.allowed /\ t.cancelled = s.cancelled /\ t.ran = s.ran
      /\ t.pending = s.pending /\ t.required = s.required
    BY DEF OpenBatch, SessionType
<1>2. OpenRequests(s) \subseteq OpenRequests(t)
    BY <1>1 DEF OpenRequests
<1> QED
    BY <1>1, <1>2, OpenBatchType DEF SessionOK, CandidatesOK, CallsOK, Settled

LEMMA GivenType ==
    ASSUME NEW items \in Seq(Items)
    PROVE  Given(items) \subseteq Texts \cup Requests
<1>1. ToSet(items) \subseteq Items
    BY DEF ToSet
<1>2. \A i \in Items : i.of \subseteq Texts \cup Requests
    BY DEF Items
<1> QED
    BY <1>1, <1>2 DEF Given

(* The calls that the SDK executes before the model's response are those   *)
(* of an approval response in the prompt.                                  *)
LEMMA CalledKeeps ==
    ASSUME IInv, NEW overdrawn \in BOOLEAN
    PROVE  /\ Called(overdrawn) \in SessionType /\ SessionOK(Called(overdrawn))
           /\ NoApproval(Called(overdrawn).unread)
<1> DEFINE executed == IF HasTailApproval(prompt) THEN Last(prompt).of ELSE {}
           heard == Given(prompt)
           s == [session EXCEPT !.unread = <<>>, !.exhausted = overdrawn,
                                !.ran = @ \cup executed, !.read = @ \cup heard]
<1>1. prompt \in Seq(Items) /\ Approved(prompt, session.allowed)
    BY DEF IInv, TypeOK, StagesOK
<1>2. executed \subseteq Requests /\ executed \cap Guarded \subseteq session.allowed
    <2>1. CASE ~HasTailApproval(prompt)
        BY <2>1
    <2>2. CASE HasTailApproval(prompt)
        <3>1. Len(prompt) \in DOMAIN prompt /\ Last(prompt) = prompt[Len(prompt)]
            BY <1>1, <2>2 DEF HasTailApproval, Last
        <3>2. IsApproval(prompt[Len(prompt)])
            BY <2>2, <3>1 DEF HasTailApproval
        <3> QED
            BY <1>1, <2>2, <3>1, <3>2 DEF Approved
    <2> QED
        BY <2>1, <2>2
<1>3. heard \subseteq Texts \cup Requests
    BY <1>1, GivenType
<1>4. Called(overdrawn) = s
    BY DEF Called
<1> HIDE DEF executed, heard
<1>5. <<>> \in Seq(Items) /\ NoApproval(<<>>) /\ Approved(<<>>, session.allowed)
    BY PlainItems, NoApprovalIsApproved
<1>6. session \in SessionType
    BY DEF IInv, TypeOK
<1>7. /\ s.batches = session.batches /\ s.unread = <<>>
      /\ s.allowed = session.allowed /\ s.cancelled = session.cancelled
      /\ s.ran = session.ran \cup executed
      /\ s.pending = session.pending /\ s.required = session.required
    BY <1>6 DEF SessionType
<1>8. s \in SessionType
    BY <1>2, <1>3, <1>5, <1>6 DEF SessionType
<1> HIDE DEF s
<1>9. SessionOK(s)
    BY <1>2, <1>5, <1>7 DEF IInv, SessionOK, CandidatesOK, CallsOK, OpenRequests, Settled
<1> QED
    BY <1>4, <1>5, <1>7, <1>8, <1>9

LEMMA ParkOnLimitKeeps ==
    ASSUME IInv, ParkOnLimit
    PROVE  IInv'
<1> DEFINE asked == OpenBatch(session, LimitBatch)
           opened == FinishTurn(asked)
           s == [opened EXCEPT !.unread = prompt, !.answered = @ \ Asks[LimitBatch]]
<1>1. pc = "model" /\ Park(s) /\ UNCHANGED <<bounded, caller, callbacks>>
    BY DEF ParkOnLimit
<1>2. /\ asked \in SessionType /\ SessionOK(asked)
      /\ asked.allowed = session.allowed /\ LimitBatch \in asked.batches
    BY OpenBatchKeeps, BatchesAssumption DEF IInv, TypeOK
<1> HIDE DEF asked
<1>3. /\ opened \in SessionType /\ SessionOK(opened)
      /\ opened.allowed = session.allowed /\ LimitBatch \in opened.batches
    BY <1>2, FinishedKeeps
<1> HIDE DEF opened
<1>4. prompt \in Seq(Items) /\ Approved(prompt, session.allowed)
    BY DEF IInv, TypeOK, StagesOK
<1>5. /\ s.batches = opened.batches /\ s.unread = prompt
      /\ s.allowed = opened.allowed /\ s.cancelled = opened.cancelled /\ s.ran = opened.ran
      /\ s.pending = opened.pending /\ s.required = opened.required
      /\ s \in SessionType
    BY <1>3, <1>4 DEF SessionType
<1> HIDE DEF s
<1>6. SessionOK(s)
    BY <1>3, <1>4, <1>5 DEF SessionOK, CandidatesOK, CallsOK, OpenRequests, Settled
<1>7. interruptions' = 0 => OrderOK(s)
    BY <1>1, <1>3, <1>5 DEF bounded, IInv, StagesOK, OrderOK, LimitOpen
<1> QED
    BY <1>1, <1>5, <1>6, <1>7, ParkKeeps DEF bounded, IInv, TypeOK

LEMMA ModelAsksKeeps ==
    ASSUME IInv, NEW b \in Batches, ModelAsks(b)
    PROVE  IInv'
<1>1. PICK overdrawn \in Overdraws :
        LET s == FinishTurn(OpenBatch(Called(overdrawn), b))
        IN  \/ NextStep(s) /\ UNCHANGED rounds
            \/ Park(s) /\ UNCHANGED <<bounded, caller, callbacks>>
    BY DEF ModelAsks
<1> DEFINE s == FinishTurn(OpenBatch(Called(overdrawn), b))
<1>2. Called(overdrawn) \in SessionType /\ SessionOK(Called(overdrawn))
      /\ NoApproval(Called(overdrawn).unread)
    BY BoundsAssumption, CalledKeeps
<1>3. s \in SessionType /\ SessionOK(s) /\ OrderOK(s)
    BY <1>2, OpenBatchKeeps, FinishedKeeps DEF OrderOK
<1> HIDE DEF s
<1>4. CASE NextStep(s) /\ UNCHANGED rounds
    BY <1>3, <1>4, NextStepKeeps DEF ModelAsks, IInv, TypeOK
<1>5. CASE Park(s) /\ UNCHANGED <<bounded, caller, callbacks>>
    BY <1>3, <1>5, ParkKeeps DEF bounded, IInv, TypeOK
<1> QED
    BY <1>1, <1>4, <1>5 DEF s

LEMMA ModelCallsToolsKeeps ==
    ASSUME IInv, ModelCallsTools
    PROVE  IInv'
<1>1. /\ pc = "model"
      /\ rounds < MaxRounds /\ rounds' = rounds + 1
    BY DEF ModelCallsTools
<1>2. PICK overdrawn \in Overdraws :
        NextStep([Called(overdrawn) EXCEPT !.unread = <<Item("results", {})>>])
    BY DEF ModelCallsTools
<1> DEFINE called == Called(overdrawn)
           results == <<Item("results", {})>>
           s == [called EXCEPT !.unread = results]
<1>3. called \in SessionType /\ SessionOK(called)
    BY BoundsAssumption, CalledKeeps
<1> HIDE DEF called
<1>4. results \in Seq(Items) /\ NoApproval(results) /\ Approved(results, called.allowed)
    BY PlainItems, NoApprovalIsApproved
<1> HIDE DEF results
<1>5. /\ s \in SessionType
      /\ s.batches = called.batches /\ s.unread = results
      /\ s.allowed = called.allowed /\ s.cancelled = called.cancelled /\ s.ran = called.ran
      /\ s.pending = called.pending /\ s.required = called.required
    BY <1>3, <1>4 DEF SessionType
<1>6. NextStep(s)
    BY <1>2 DEF called, results
<1> HIDE DEF s
<1>7. SessionOK(s) /\ OrderOK(s)
    BY <1>3, <1>4, <1>5 DEF SessionOK, CandidatesOK, CallsOK, OrderOK, OpenRequests, Settled
<1>8. rounds' \in 0 .. MaxRounds
    BY <1>1, BoundsAssumption DEF IInv, TypeOK
<1> QED
    BY <1>1, <1>5, <1>6, <1>7, <1>8, NextStepKeeps

(* The end of the session.                                                 *)
LEMMA EndKeeps ==
    ASSUME IInv, End, UNCHANGED <<mode, unsent, deliveries, rounds, caller, callbacks>>,
           interruptions' \in Nat
    PROVE  IInv'
BY EndsStep DEF End, IInv, TypeOK

LEMMA ModelRepliesKeeps ==
    ASSUME IInv, ModelReplies
    PROVE  IInv'
<1> DEFINE called(overdrawn) == Called(overdrawn)
           parked(overdrawn) == [called(overdrawn) EXCEPT !.inTurn = FALSE]
<1>1. PICK overdrawn \in Overdraws :
        \/ NextStep(called(overdrawn)) /\ UNCHANGED rounds
        \/ Park(parked(overdrawn)) /\ UNCHANGED <<bounded, caller, callbacks>>
        \/ End /\ UNCHANGED <<bounded, caller, callbacks>>
    BY DEF ModelReplies
<1> DEFINE s == called(overdrawn)
           t == parked(overdrawn)
<1>2. s \in SessionType /\ SessionOK(s) /\ OrderOK(s)
    BY BoundsAssumption, CalledKeeps DEF OrderOK
<1> HIDE DEF called
<1>3. t \in SessionType /\ SessionOK(t) /\ OrderOK(t)
    BY <1>2, FinishTurnKeeps
<1> HIDE DEF parked
<1>4. CASE NextStep(s) /\ UNCHANGED rounds
    BY <1>2, <1>4, NextStepKeeps DEF ModelReplies, IInv, TypeOK
<1>5. CASE Park(t) /\ UNCHANGED <<bounded, caller, callbacks>>
    BY <1>3, <1>5, ParkKeeps DEF bounded, IInv, TypeOK
<1>6. CASE End /\ UNCHANGED <<bounded, caller, callbacks>>
    BY <1>6, EndKeeps DEF bounded, IInv, TypeOK
<1> QED
    BY <1>1, <1>4, <1>5, <1>6

LEMMA ModelFailsKeeps ==
    ASSUME IInv, ModelFails
    PROVE  IInv'
<1> DEFINE given == Given(prompt)
           s == [session EXCEPT !.inTurn = FALSE, !.failed = @ \cup given]
<1>1. /\ pc = "model" /\ interruptions' = interruptions + 1 /\ Park(s)
      /\ UNCHANGED <<mode, unsent, deliveries, rounds, caller, callbacks>>
    BY DEF ModelFails
<1>2. given \subseteq Texts \cup Requests
    BY GivenType DEF IInv, TypeOK
<1> HIDE DEF given
<1>3. /\ s \in SessionType
      /\ s.batches = session.batches /\ s.unread = session.unread
      /\ s.allowed = session.allowed /\ s.cancelled = session.cancelled /\ s.ran = session.ran
      /\ s.pending = session.pending /\ s.required = session.required
    BY <1>2 DEF IInv, TypeOK, SessionType
<1> HIDE DEF s
<1>4. SessionOK(s)
    BY <1>3 DEF IInv, SessionOK, CandidatesOK, CallsOK, OpenRequests, Settled
<1>5. interruptions' \in Nat /\ interruptions' # 0
    BY <1>1 DEF IInv, TypeOK
<1> QED
    BY <1>1, <1>3, <1>4, <1>5, ParkKeeps DEF IInv, TypeOK

LEMMA TaskRetriesKeeps ==
    ASSUME IInv, TaskRetries
    PROVE  IInv'
<1>1. SavedOK(saved)
    BY DEF TaskRetries, IInv, StagesOK
<1>2. PICK s : s = saved.session
    OBVIOUS
<1>3. /\ s \in SessionType /\ SessionOK(s)
      /\ saved.input \in StepInputs \cup {None} /\ saved.resumed \subseteq Candidate
    BY <1>1, <1>2 DEF SavedOK, Starts
<1>4. /\ session' = s /\ input' = saved.input /\ callbacks' = saved.resumed
      /\ prompt' = <<>> /\ pc' = "step" /\ saved' = saved
      /\ interruptions' = interruptions + 1
      /\ UNCHANGED <<mode, unsent, deliveries, rounds, caller>>
    BY <1>2 DEF TaskRetries
<1>5. interruptions' \in Nat /\ interruptions' # 0
    BY <1>4 DEF IInv, TypeOK
<1>6. /\ rounds' \in 0 .. MaxRounds /\ caller' \in Responders \cup {Anonymous}
    BY <1>4 DEF IInv, TypeOK
<1> QED
    BY <1>1, <1>3, <1>4, <1>5, <1>6, EndsStep

LEMMA ModelEndsKeeps ==
    ASSUME IInv, ModelEnds
    PROVE  IInv'
<1>1. interruptions' \in Nat
    BY DEF ModelEnds, IInv, TypeOK
<1> QED
    BY <1>1, EndKeeps DEF ModelEnds

(***************************************************************************)
(* Cancellation.                                                           *)
(***************************************************************************)
LEMMA RollbackKeeps ==
    ASSUME NEW s \in SessionType, SessionOK(s), NEW in \in StepInputs \cup {None}
    PROVE  Rollback(s, in) \in SessionType /\ SessionOK(Rollback(s, in))
<1> DEFINE items == IF in = None THEN <<>> ELSE MessageItems(in.message)
           told == s.unread \o items
           t == [s EXCEPT !.unread = told, !.inTurn = FALSE]
<1>1. items \in Seq(Items) /\ NoApproval(items)
    BY PlainItems, MessageItemsType DEF StepInputs
<1> HIDE DEF items
<1>2. told \in Seq(Items) /\ Approved(told, s.allowed)
    BY <1>1, Concatenation, NoApprovalIsApproved DEF SessionOK, CallsOK, SessionType
<1>3. Rollback(s, in) = Close(t, {LimitBatch})
    BY DEF Rollback, items, SessionType
<1> HIDE DEF told
<1>4. /\ t \in SessionType
      /\ t.batches = s.batches /\ t.unread = told
      /\ t.allowed = s.allowed /\ t.cancelled = s.cancelled /\ t.ran = s.ran
      /\ t.pending = s.pending /\ t.required = s.required
    BY <1>2 DEF SessionType
<1> HIDE DEF t
<1>5. SessionOK(t)
    BY <1>2, <1>4 DEF SessionOK, CandidatesOK, CallsOK, OpenRequests, Settled
<1>6. {LimitBatch} \in SUBSET Batches /\ Asks[LimitBatch] \cap Guarded = {}
    BY BatchesAssumption, PlainBatch
<1> QED
    BY <1>3, <1>4, <1>5, <1>6, CloseKeeps

LEMMA CutOffKeeps ==
    ASSUME IInv, CutOff
    PROVE  IInv'
<1>1. SavedOK(Start)
    BY StartKeeps
<1>2. PICK s : s = Rollback(Start.session, Start.input)
    OBVIOUS
<1>3. s \in SessionType /\ SessionOK(s)
    BY <1>1, <1>2, RollbackKeeps DEF SavedOK, Starts
<1>4. /\ Park(s) /\ interruptions' = interruptions + 1
      /\ caller' = Start.caller /\ callbacks' = Start.callbacks
      /\ UNCHANGED <<mode, unsent, deliveries, rounds>>
    BY <1>2 DEF CutOff
<1>5. caller' \in Responders \cup {Anonymous} /\ callbacks' \subseteq Candidate
    BY <1>1, <1>4 DEF SavedOK, Starts
<1>6. interruptions' \in Nat /\ interruptions' # 0
    BY <1>4 DEF IInv, TypeOK
<1> QED
    BY <1>3, <1>4, <1>5, <1>6, ParkKeeps

LEMMA StutterKeeps ==
    ASSUME IInv, UNCHANGED vars
    PROVE  IInv'
BY DEF vars, IInv, TypeOK, SessionOK, CandidatesOK, CallsOK, StagesOK, SavedOK, OrderOK,
       AnswersAreSettlements, AnsweredBy, Approved, NoApproval, Undisturbed, IsApproval,
       OpenRequests, Settled, LimitOpen

LEMMA InitKeeps == Init => IInv
<1> SUFFICES ASSUME Init PROVE IInv
    OBVIOUS
<1>1. <<>> \in Seq(Batches) /\ <<>> \in Seq(Items) /\ NoApproval(<<>>)
    BY PlainItems
<1>2. session \in SessionType
    BY <1>1 DEF Init, SessionType
<1>3. TypeOK
    BY <1>1, <1>2, BoundsAssumption DEF Init, TypeOK
<1>4. SessionOK(session) /\ OrderOK(session)
    BY DEF Init, SessionOK, CandidatesOK, CallsOK, OrderOK, NoApproval, Approved
<1>5. StagesOK
    BY <1>4 DEF Init, StagesOK, Approved
<1> QED
    BY <1>3, <1>4, <1>5 DEF IInv

LEMMA NextKeeps == IInv /\ [Next]_vars => IInv'
<1> SUFFICES ASSUME IInv, [Next]_vars PROVE IInv'
    OBVIOUS
<1>1. CASE Deliveries
    BY <1>1, DeliverKeeps
<1>2. CASE \E c \in session.announced : CallBack(c)
    BY <1>2, CallBackKeeps
<1>3. CASE BeginStep
    BY <1>3, BeginStepKeeps
<1>4. CASE Coordinate
    BY <1>4, CoordinateResponsesKeeps, AuthorizeCandidatesKeeps, NothingToCoordinateKeeps
    DEF Coordinate
<1>5. CASE Resolve
    BY <1>5, NothingOpenKeeps, RestingKeeps, LimitGrantedKeeps, CutOffKeeps,
       ResolveBatchesKeeps, DismissQuestionKeeps, PassByKeeps
    DEF Resolve, LimitDeclined
<1>6. CASE Model
    BY <1>6, ParkOnLimitKeeps, ModelAsksKeeps, ModelCallsToolsKeeps, ModelRepliesKeeps,
       ModelFailsKeeps, TaskRetriesKeeps, ModelEndsKeeps
    DEF Model
<1>7. CASE Cancel
    BY <1>7, CutOffKeeps DEF Cancel
<1>8. CASE UNCHANGED vars
    BY <1>8, StutterKeeps
<1> QED
    BY <1>1, <1>2, <1>3, <1>4, <1>5, <1>6, <1>7, <1>8 DEF Next, Step

(***************************************************************************)
(* The theorems.                                                           *)
(***************************************************************************)

(* In every state of the harness the types hold, candidates are of open    *)
(* and unsettled guarded requests, the guarded calls in the history, in    *)
(* the prompt and among the executed ones were allowed, and what a step    *)
(* started from, which a cancellation returns to, has the same guarantees. *)
THEOREM Invariance == Spec => []IInv
<1> QED
    BY InitKeeps, NextKeeps, PTL DEF Spec

(* The harness session and its step have their types, for any requests,    *)
(* batches, messages and callers.                                          *)
THEOREM TypeCorrect == Spec => []TypeOK
<1>1. IInv => TypeOK
    BY DEF IInv
<1> QED
    BY <1>1, Invariance, PTL

(* executeApprovedCalls never runs the call of a tool with a response      *)
(* policy that no policy run allowed, whatever the answers, messages,      *)
(* cancellations and limits that came in between.                          *)
THEOREM GuardedCallsAreAllowed == Spec => []GuardedCallNeedsAllow
<1>1. IInv => GuardedCallNeedsAllow
    BY DEF IInv, SessionOK, CallsOK, GuardedCallNeedsAllow
<1> QED
    BY <1>1, Invariance, PTL

(* Neither a settlement by another responder nor the resolution of a batch *)
(* leaves an authorization or a sign-in under way for a request that is    *)
(* closed or settled.                                                      *)
THEOREM CandidatesOfOpenRequests == Spec => []CandidatesArePending
<1>1. IInv => CandidatesArePending
    BY DEF IInv, SessionOK, CandidatesOK, CandidatesArePending
<1> QED
    BY <1>1, Invariance, PTL

(* As long as no turn was cut off, no message, batch or limit prompt comes *)
(* to stand after an approval response in what the model is called with,   *)
(* also when the session's limit came in between, so that the approved     *)
(* calls of an agent without memory and dynamic instructions are executed: *)
(* what they add when a turn starts is the only thing that can hide them.  *)
THEOREM ApprovedCallsExecute == Spec => []ApprovalsExecute
<1>1. IInv => ApprovalsExecute
    BY DEF IInv, StagesOK, ApprovalsExecute, Undisturbed
<1> QED
    BY <1>1, Invariance, PTL

=============================================================================
