-------------------------- MODULE SessionTurnProofs --------------------------
(***************************************************************************)
(* Proofs about SessionTurn for any sets of messages, answers, requests,   *)
(* commands and calls.                                                     *)
(***************************************************************************)
EXTENDS SessionTurn, FilteringProofs, FiniteSetTheorems

InboxOK == inbox \in Seq(Payloads)

(* The signal is never behind the inbox, in any phase of a turn.           *)
Signalled == pc \in Active => (Unread \cap Steers \subseteq muted) \/ steered

(* Only a wait has calls on record, and it awaits every one of them.       *)
HandlesEnd == pc \notin {"waiting", "routing", "cancelling"} => handles = {}
HandlesAreAwaited == pc \in {"waiting", "routing"} => handles \subseteq pending

(* Whatever aborted the active turn was meant for it.                      *)
Meant(p) == p \in Stops \/ cancelsThisTurn(p)
AbortedByMeant == pc \in Active => \A p \in abortedBy : Meant(p)

TInv ==
    /\ InboxOK
    /\ Signalled
    /\ HandlesEnd /\ HandlesAreAwaited
    /\ AbortedByMeant /\ NamedCancelStopsItsTurn

(***************************************************************************)
(* What Tail does to the members of a sequence.                            *)
(***************************************************************************)
LEMMA MembersOfTail ==
    ASSUME NEW S, NEW s \in Seq(S), s # <<>>
    PROVE  /\ Head(s) \in S /\ Head(s) \in Members(s)
           /\ Tail(s) \in Seq(S) /\ Members(Tail(s)) \subseteq Members(s)
<1>1. Len(s) \in Nat /\ Len(s) # 0
    OBVIOUS
<1>2. Head(s) = s[1] /\ s[1] \in S
    BY <1>1
<1>3. Tail(s) \in Seq(S) /\ Len(Tail(s)) = Len(s) - 1
    BY <1>1
<1>4. \A i \in 1 .. Len(Tail(s)) : Tail(s)[i] = s[i + 1] /\ i + 1 \in 1 .. Len(s)
    BY <1>1, <1>3
<1> QED
    BY <1>1, <1>2, <1>3, <1>4 DEF Members

LEMMA MembersOfEmpty == <<>> \in Seq(Payloads) /\ Members(<<>>) = {}
BY DEF Members

LEMMA InitHolds == Init => TInv
BY MembersOfEmpty
   DEF Init, TInv, InboxOK, Signalled, HandlesEnd, HandlesAreAwaited, AbortedByMeant, Active,
       InStep, NamedCancelStopsItsTurn

(***************************************************************************)
(* A payload is pumped.                                                    *)
(***************************************************************************)
LEMMA PumpKeeps ==
    ASSUME TInv, NEW p \in Payloads, pump(p),
           UNCHANGED <<pc, turn, handles, pending, stops>>
    PROVE  TInv'
<1> USE DEF TInv, pump
<1>1. InboxOK' /\ Unread' = Unread \cup {p}
    BY MembersOfAppend DEF InboxOK, Unread
<1>2. Signalled'
    BY <1>1 DEF Signalled, signalSteering, Mutes
<1>3. (HandlesEnd /\ HandlesAreAwaited /\ NamedCancelStopsItsTurn)'
    BY DEF HandlesEnd, HandlesAreAwaited, NamedCancelStopsItsTurn
<1>4. AbortedByMeant'
    BY DEF AbortedByMeant, Meant, cancelsThisTurn, abort, Active, InStep
<1> QED
    BY <1>1, <1>2, <1>3, <1>4

(***************************************************************************)
(* Steps of an active turn, by what they change.                           *)
(***************************************************************************)
(* Neither the inbox nor a signal; what happens to the record is left to   *)
(* the caller.                                                             *)
LEMMA QuietStep ==
    ASSUME TInv, pc \in Active, HandlesEnd', HandlesAreAwaited',
           UNCHANGED <<inbox, turn, signalVars, muted, stops>>
    PROVE  TInv'
BY DEF TInv, InboxOK, Signalled, Unread, AbortedByMeant, Meant, cancelsThisTurn, signalVars,
       NamedCancelStopsItsTurn

(* The step ends the turn without a cancellation.                          *)
LEMMA TurnParks ==
    ASSUME TInv, pc' \notin Active, handles' = {}, UNCHANGED <<inbox, stops>>
    PROVE  TInv'
BY DEF TInv, InboxOK, Signalled, HandlesEnd, HandlesAreAwaited, AbortedByMeant, Active, InStep,
       NamedCancelStopsItsTurn

(* The boundary resets the steering signal.                                *)
LEMMA ResetKeeps ==
    ASSUME TInv, AtBoundary, resetsSteering, pc' \in Active \ {"waiting", "routing"},
           UNCHANGED <<inbox, turn, stops, handles>>,
           \A p \in abortedBy' : Meant(p)
    PROVE  TInv'
<1>1. pc \in Active /\ pc \notin {"waiting", "routing", "cancelling"}
    BY DEF AtBoundary, Active
<1>2. Signalled'
    BY <1>1 DEF TInv, Signalled, resetsSteering, resetSteering, signalSteering, Mutes, Unread
<1>3. (HandlesEnd /\ HandlesAreAwaited)'
    BY <1>1 DEF TInv, HandlesEnd, HandlesAreAwaited
<1>4. AbortedByMeant'
    BY DEF AbortedByMeant, Meant, cancelsThisTurn
<1> QED
    BY <1>2, <1>3, <1>4 DEF TInv, InboxOK, NamedCancelStopsItsTurn

(* What is admitted aborts the turn only if it is meant for it.            *)
LEMMA AdmitMeans ==
    ASSUME TInv, pc \in Active, NEW p, admit(p)
    PROVE  \A q \in abortedBy' : Meant(q)
BY DEF TInv, AbortedByMeant, admit, abort, Meant

LEMMA TakeSteeringMeans ==
    ASSUME TInv, pc \in Active, takeSteering
    PROVE  \A q \in abortedBy' : Meant(q)
<1> DEFINE batch == Only(queue, admitted \cap (Steers \cup Answers))
           stop == CHOOSE p \in Consumed(batch, asking) \cap Stops : TRUE
<1>1. CASE Consumed(batch, asking) \cap Stops = {}
    BY <1>1 DEF takeSteering, TInv, AbortedByMeant
<1>2. CASE Consumed(batch, asking) \cap Stops # {}
    <2>1. abortedBy' = abort(stop)
        BY <1>2 DEF takeSteering
    <2>2. stop \in Stops
        BY <1>2
    <2> QED
        BY <2>1, <2>2 DEF abort, TInv, AbortedByMeant, Meant
<1> QED
    BY <1>1, <1>2

(***************************************************************************)
(* The parked owner.                                                       *)
(***************************************************************************)
LEMMA TakeNextKeeps == TInv /\ takeNext => TInv'
<1> SUFFICES ASSUME TInv, takeNext PROVE TInv'
    OBVIOUS
<1>1. handles = {} /\ UNCHANGED <<inbox, handles, pending, stops>>
    BY DEF TInv, HandlesEnd, takeNext, callVars
<1>2. CASE UNCHANGED pc
    BY <1>1, <1>2, TurnParks DEF takeNext, Active, InStep
<1>3. CASE pc' = "generating"
    <2>1. abortedBy' = {}
        BY <1>3 DEF takeNext
    <2>2. (Unread \cap Steers \subseteq muted)' \/ steered'
        BY <1>3, <1>1 DEF takeNext, Unread
    <2> QED
        BY <1>1, <1>3, <2>1, <2>2
           DEF TInv, InboxOK, Signalled, HandlesEnd, HandlesAreAwaited, AbortedByMeant,
               NamedCancelStopsItsTurn
<1> QED
    BY <1>2, <1>3 DEF takeNext

LEMMA TakeResetKeeps == TInv /\ takeReset => TInv'
<1> SUFFICES ASSUME TInv, takeReset PROVE TInv'
    OBVIOUS
<1>1. handles' = {} /\ UNCHANGED <<inbox, stops>> /\ pc' \notin Active
    BY DEF TInv, HandlesEnd, takeReset, callVars, Active, InStep
<1> QED
    BY <1>1, TurnParks

LEMMA ReadParkedKeeps == TInv /\ readParked => TInv'
<1> SUFFICES ASSUME TInv, readParked PROVE TInv'
    OBVIOUS
<1>1. InboxOK'
    BY MembersOfTail DEF TInv, InboxOK, readParked
<1>2. handles' = {} /\ UNCHANGED stops /\ pc' \notin Active
    BY DEF TInv, HandlesEnd, readParked, callVars, Active, InStep
<1> QED
    BY <1>1, <1>2 DEF TInv, Signalled, HandlesEnd, HandlesAreAwaited, AbortedByMeant, Active,
                      InStep, NamedCancelStopsItsTurn

(***************************************************************************)
(* The wait.                                                               *)
(***************************************************************************)
LEMMA ResumeKeeps == TInv /\ resume => TInv'
<1> SUFFICES ASSUME TInv, resume PROVE TInv'
    OBVIOUS
<1>1. pc \in Active /\ handles \subseteq pending
    BY DEF TInv, HandlesAreAwaited, resume, Active
<1>2. handles' = {} /\ pc' = "generating"
    BY <1>1 DEF resume
<1>3. AbortedByMeant'
    BY <1>1, TakeSteeringMeans DEF resume, AbortedByMeant, Meant, cancelsThisTurn
<1>4. Signalled'
    BY <1>1 DEF TInv, Signalled, resume, Unread
<1> QED
    BY <1>2, <1>3, <1>4
       DEF resume, TInv, InboxOK, HandlesEnd, HandlesAreAwaited, NamedCancelStopsItsTurn

LEMMA ReadWaitingKeeps == TInv /\ readWaiting => TInv'
<1> SUFFICES ASSUME TInv, readWaiting PROVE TInv'
    OBVIOUS
<1>1. pc = "waiting" /\ pc \in Active /\ pc' = "routing"
    BY DEF readWaiting, Active
<1>2. InboxOK' /\ Unread' \subseteq Unread
    BY MembersOfTail DEF TInv, InboxOK, readWaiting, Unread
<1>3. Signalled'
    BY <1>1, <1>2 DEF TInv, Signalled, readWaiting
<1>4. AbortedByMeant'
    BY <1>1, AdmitMeans DEF readWaiting, AbortedByMeant, Meant, cancelsThisTurn
<1> QED
    BY <1>1, <1>2, <1>3, <1>4
       DEF readWaiting, TInv, HandlesEnd, HandlesAreAwaited, NamedCancelStopsItsTurn

LEMMA RouteToChildKeeps == TInv /\ routeToChild => TInv'
<1> SUFFICES ASSUME TInv, routeToChild PROVE TInv'
    OBVIOUS
<1>1. pc = "routing" /\ pc \in Active /\ pc' \in {"waiting", "routing"}
    BY DEF routeToChild, Active
<1>2. AbortedByMeant'
    BY <1>1 DEF routeToChild, TInv, AbortedByMeant, Meant, cancelsThisTurn, abort
<1>3. UNCHANGED <<inbox, handles, pending, steered, muted, stops>>
    BY DEF routeToChild, callVars
<1> QED
    BY <1>1, <1>2, <1>3
       DEF TInv, InboxOK, Signalled, Unread, HandlesEnd, HandlesAreAwaited,
           NamedCancelStopsItsTurn

(***************************************************************************)
(* The boundary, and the end of a cancelled turn.                          *)
(***************************************************************************)
LEMMA AdmitBoundaryKeeps == TInv /\ admitBoundary => TInv'
<1> SUFFICES ASSUME TInv, admitBoundary PROVE TInv'
    OBVIOUS
<1>1. InboxOK' /\ Unread' = {}
    BY MembersOfEmpty DEF admitBoundary, InboxOK, Unread
<1>2. pc = "returned" /\ pc \in Active /\ pc' = "admitting"
    BY DEF admitBoundary, Active
<1> QED
    BY <1>1, <1>2
       DEF admitBoundary, TInv, Signalled, HandlesEnd, HandlesAreAwaited, AbortedByMeant, Meant,
           cancelsThisTurn, signalVars, callVars, NamedCancelStopsItsTurn

LEMMA AdmitDrainedKeeps == TInv /\ admitDrained => TInv'
<1> SUFFICES ASSUME TInv, admitDrained PROVE TInv'
    OBVIOUS
<1>1. pc = "admitting" /\ pc \in Active
    BY DEF admitDrained, Active
<1>2. AbortedByMeant'
    BY <1>1, AdmitMeans DEF admitDrained, AbortedByMeant, Meant, cancelsThisTurn
<1> QED
    BY <1>1, <1>2
       DEF admitDrained, TInv, InboxOK, Signalled, Unread, HandlesEnd, HandlesAreAwaited,
           NamedCancelStopsItsTurn

LEMMA BoundaryKeeps ==
    TInv /\ (cancelTurn \/ parkTurn \/ continueTurn \/ beginDispatch) => TInv'
<1> SUFFICES ASSUME TInv, cancelTurn \/ parkTurn \/ continueTurn \/ beginDispatch PROVE TInv'
    OBVIOUS
<1>1. AtBoundary /\ pc \in Active
    BY DEF cancelTurn, parkTurn, continueTurn, beginDispatch, AtBoundary, Active
<1>2. \A p \in abortedBy : Meant(p)
    BY <1>1 DEF TInv, AbortedByMeant
<1>3. CASE cancelTurn
    BY <1>1, <1>2, <1>3, ResetKeeps DEF cancelTurn, inputVars, callVars, Active
<1>4. CASE parkTurn
    <2>1. handles' = {} /\ UNCHANGED <<inbox, stops>> /\ pc' \notin Active
        BY <1>1, <1>4 DEF parkTurn, AtBoundary, TInv, HandlesEnd, Active, InStep
    <2> QED
        BY <2>1, TurnParks
<1>5. CASE continueTurn
    BY <1>1, <1>5, ResetKeeps, TakeSteeringMeans DEF continueTurn, callVars, Active, InStep
<1>6. CASE beginDispatch
    BY <1>1, <1>2, <1>6, ResetKeeps DEF beginDispatch, inputVars, callVars, Active
<1> QED
    BY <1>3, <1>4, <1>5, <1>6

(* What stopped the turn was a stop, or a command that meant this turn.    *)
LEMMA SettleKeeps == TInv /\ settleCancelledTurn => TInv'
<1> SUFFICES ASSUME TInv, settleCancelledTurn PROVE TInv'
    OBVIOUS
<1>1. pc \in Active /\ pc' \notin Active /\ handles' = {} /\ UNCHANGED inbox
    BY DEF settleCancelledTurn, abandonedHandles, Active, InStep
<1>2. NamedCancelStopsItsTurn'
    <2> SUFFICES ASSUME NEW s \in stops', s[1] \in Cancels, turnId[s[1]] # AnyTurn
                 PROVE  s[2] = turnId[s[1]]
        BY DEF NamedCancelStopsItsTurn
    <2>1. CASE s \in stops
        BY <2>1 DEF TInv, NamedCancelStopsItsTurn
    <2>2. CASE s \notin stops
        <3>1. PICK p \in abortedBy : s = <<p, turn>>
            BY <2>2 DEF settleCancelledTurn
        <3>2. Meant(p) /\ p \in Cancels
            BY <1>1, <3>1 DEF TInv, AbortedByMeant
        <3>3. p \notin Stops /\ p \notin Resets
            BY <3>2, PayloadsAssumption DEF Deliveries
        <3>4. turnId[p] \in {AnyTurn, turn}
            BY <3>2, <3>3 DEF Meant, cancelsThisTurn
        <3> QED
            BY <3>1, <3>4
    <2> QED
        BY <2>1, <2>2
<1> QED
    BY <1>1, <1>2
       DEF TInv, InboxOK, Signalled, HandlesEnd, HandlesAreAwaited, AbortedByMeant, Active,
           InStep

(***************************************************************************)
(* Every step.                                                             *)
(***************************************************************************)
LEMMA OwnerStepKeeps == TInv /\ ownerStep => TInv'
<1> SUFFICES ASSUME TInv, ownerStep PROVE TInv'
    OBVIOUS
<1> USE DEF HandlesEnd, HandlesAreAwaited, inputVars, callVars
<1>1. CASE startsOutput
    BY <1>1, QuietStep DEF startsOutput, TInv, Active, InStep
<1>2. ASSUME NEW result \in StepReturns, turnStep(result) PROVE TInv'
    BY <1>2, QuietStep DEF turnStep, TInv, Active, InStep
<1>3. ASSUME NEW failed \in SUBSET Calls, dispatchCoordination(failed) PROVE TInv'
    BY <1>3, QuietStep DEF dispatchCoordination, TInv, Active, InStep
<1>4. CASE abandonWait
    BY <1>4, QuietStep DEF abandonWait, TInv, Active, InStep
<1>5. CASE takeEvent
    BY <1>5, QuietStep DEF takeEvent, TInv, Active, InStep
<1>6. CASE routed
    BY <1>6, QuietStep DEF routed, TInv, Active, InStep
<1> QED
    BY <1>1, <1>2, <1>3, <1>4, <1>5, <1>6, TakeNextKeeps, TakeResetKeeps, ReadParkedKeeps,
       AdmitBoundaryKeeps, AdmitDrainedKeeps, BoundaryKeeps, ResumeKeeps, ReadWaitingKeeps,
       RouteToChildKeeps, SettleKeeps
       DEF ownerStep

LEMMA StepPreserves == TInv /\ [Next]_vars => TInv'
<1> SUFFICES ASSUME TInv, [Next]_vars PROVE TInv'
    OBVIOUS
<1>1. CASE UNCHANGED vars
    BY <1>1 DEF vars, inputVars, signalVars, callVars, TInv, InboxOK, Signalled, Unread,
                HandlesEnd, HandlesAreAwaited, AbortedByMeant, Meant, cancelsThisTurn,
                NamedCancelStopsItsTurn
<1>2. ASSUME NEW p \in Commands, send(p) PROVE TInv'
    BY <1>2, PumpKeeps DEF send, callVars, Payloads
<1>3. ASSUME NEW c \in Calls, report(c) PROVE TInv'
    BY <1>3, PumpKeeps DEF report, Payloads
<1> QED
    BY <1>1, <1>2, <1>3, OwnerStepKeeps DEF Next

(* Every state of a session satisfies TInv, whatever arrives and whenever. *)
THEOREM Invariance == Spec => []TInv
BY InitHolds, StepPreserves, PTL DEF Spec

(* A steering message that is unread while a generation can be interrupted *)
(* has raised the signal (turn.ts signalSteering, resetSteering), unless   *)
(* it arrived while a request was open.                                    *)
THEOREM SteeringIsNotSleptThrough == Spec => []NoSleptSteering
<1>1. TInv => NoSleptSteering
    BY DEF TInv, Signalled, NoSleptSteering, Active, InStep
<1> QED
    BY <1>1, Invariance, PTL

(* Between turns and in every step the session records no call as running  *)
(* (settle-cancelled-turn-step.ts), so late results find no taker.         *)
THEOREM HandlesEndWithTheirTurn == Spec => []NoHandleOutlivesItsTurn
<1>1. TInv => NoHandleOutlivesItsTurn
    BY DEF TInv, HandlesEnd, NoHandleOutlivesItsTurn, InStep
<1> QED
    BY <1>1, Invariance, PTL

(* A cancel with a turn id stops that turn only (turn.ts cancelsThisTurn), *)
(* in whichever turn it is pumped or read.                                 *)
THEOREM NamedCancelsStopTheirTurn == Spec => []NamedCancelStopsItsTurn
<1>1. TInv => NamedCancelStopsItsTurn
    BY DEF TInv
<1> QED
    BY <1>1, Invariance, PTL

(***************************************************************************)
(* Messages are kept: the accounting, and the types it needs.              *)
(***************************************************************************)
Single(s) == Once(s, Messages)

LEMMA SingleAppended ==
    ASSUME NEW T, NEW s \in Seq(T), NEW x \in T, Single(s),
           x \notin Messages \/ x \notin Members(s)
    PROVE  Single(Append(s, x))
BY OnceAppended DEF Single

LEMMA MessagesPicked ==
    ASSUME NEW T, NEW s \in Seq(T), NEW S
    PROVE  /\ Only(s, S) \in Seq(T \cap S)
           /\ Members(Only(s, S)) = Members(s) \cap S
           /\ Single(s) => Single(Only(s, S))
BY OnlyPicks DEF Single

LEMMA MessagesDropped ==
    ASSUME NEW T, NEW s \in Seq(T), NEW S
    PROVE  /\ Without(s, S) \in Seq(T \ S)
           /\ Members(Without(s, S)) = Members(s) \ S
           /\ Single(s) => Single(Without(s, S))
BY WithoutDrops DEF Single

LEMMA MessagesCut ==
    ASSUME NEW T, NEW s \in Seq(T), NEW n \in 1 .. Len(s)
    PROVE  LET a == SubSeq(s, 1, n)
               b == SubSeq(s, n + 1, Len(s))
           IN  /\ a \in Seq(T) /\ b \in Seq(T)
               /\ Len(a) = n /\ \A i \in 1 .. n : a[i] = s[i]
               /\ Members(s) = Members(a) \cup Members(b)
               /\ Single(s) => /\ Single(a) /\ Single(b)
                               /\ Members(a) \cap Members(b) \cap Messages = {}
BY Cut DEF Single

LEMMA MessagesAtHead ==
    ASSUME NEW T, NEW s \in Seq(T), s # <<>>
    PROVE  /\ Head(s) \in T /\ Tail(s) \in Seq(T)
           /\ Members(s) = {Head(s)} \cup Members(Tail(s))
           /\ Single(s) => /\ Single(Tail(s))
                           /\ Head(s) \notin Messages \/ Head(s) \notin Members(Tail(s))
BY HeadAndTail DEF Single

LEMMA MessagesJoined ==
    ASSUME NEW T, NEW s \in Seq(T), NEW t \in Seq(T)
    PROVE  /\ s \o t \in Seq(T)
           /\ Members(s \o t) = Members(s) \cup Members(t)
           /\ Single(s) /\ Single(t) /\ Members(s) \cap Members(t) \cap Messages = {}
                  => Single(s \o t)
BY Joined DEF Single

(* A turn takes deliveries only, and takes one at least.                   *)
LEMMA BatchIsPrefix ==
    ASSUME NEW T, NEW q \in Seq(T), q # <<>>, Head(q) \in Deliveries
    PROVE  \E n \in 1 .. Len(q) :
               Batch(q) = SubSeq(q, 1, n) /\ \A i \in 1 .. n : q[i] \in Deliveries
<1>0. Len(q) \in Nat /\ Len(q) >= 1 /\ q[1] \in Deliveries
    OBVIOUS
<1> DEFINE Shares(i) == \A j \in 1 .. i : q[j] \in Deliveries /\ sender[q[j]] = sender[q[1]]
           last == IF sender[q[1]] = Anonymous THEN 1
                   ELSE CHOOSE n \in 1 .. Len(q) : Shares(n) /\ (n = Len(q) \/ ~Shares(n + 1))
           T1 == {n \in 1 .. Len(q) : n = Len(q) \/ ~Shares(n + 1)}
<1>1. Batch(q) = SubSeq(q, 1, last)
    BY DEF Batch
<1>2. Shares(1)
    BY <1>0
<1>3. \E n \in 1 .. Len(q) : Shares(n) /\ (n = Len(q) \/ ~Shares(n + 1))
    <2> HIDE DEF Shares
    <2>1. T1 \subseteq Nat /\ Len(q) \in T1
        BY <1>0
    <2> HIDE DEF T1
    <2>2. PICK n \in T1 : \A m \in T1 : n <= m
        BY <2>1, LeastNumber
    <2>3. n \in 1 .. Len(q) /\ (n = Len(q) \/ ~Shares(n + 1))
        BY <2>2 DEF T1
    <2>4. CASE n = 1
        BY <1>2, <2>3, <2>4
    <2>5. CASE n # 1
        <3>1. n - 1 \in 1 .. Len(q) /\ ~(n <= n - 1) /\ (n - 1) + 1 = n /\ n - 1 # Len(q)
            BY <1>0, <2>3, <2>5
        <3>2. n - 1 \notin T1
            BY <2>2, <3>1
        <3>3. Shares(n)
            BY <3>1, <3>2 DEF T1
        <3> QED
            BY <2>3, <3>3
    <2> QED
        BY <2>4, <2>5
<1>4. last \in 1 .. Len(q) /\ Shares(last)
    <2>1. CASE sender[q[1]] = Anonymous
        BY <1>0, <1>2, <2>1
    <2>2. CASE sender[q[1]] # Anonymous
        <3> HIDE DEF Shares
        <3> QED
            BY <1>3, <2>2
    <2> QED
        BY <2>1, <2>2
<1> QED
    BY <1>1, <1>4

(***************************************************************************)
(* The invariant.  A message that was sent is counted in one place.        *)
(***************************************************************************)
Bit(b) == IF b THEN 1 ELSE 0
Count(m) ==
    Bit(m \in Members(inbox)) + Bit(m \in Members(draining)) + Bit(m \in Members(queue))
        + Bit(m \in Members(stepInput)) + Bit(m \in Members(history)) + Bit(m \in dropped)
Accounted == \A m \in Messages : Count(m) = Bit(m \in Members(sent))
Singly == Single(inbox) /\ Single(draining) /\ Single(queue) /\ Single(stepInput) /\ Single(history)

(* Only the boundary drains, only a step has input, and only a step that   *)
(* returned calls leads to their dispatch.                                 *)
PhaseOK ==
    /\ draining # <<>> => pc = "admitting"
    /\ stepInput # <<>> => pc \in InStep
    /\ pc = "dispatching" => outcome.kind = "calls"

MInv == TypeOK /\ PhaseOK /\ Singly /\ Accounted

LEMMA Kinds ==
    /\ Messages \cap (Answers \cup Questions \cup Cancels \cup Resets \cup Calls) = {}
    /\ Stops \subseteq Answers
    /\ Answers \cap Questions = {}
    /\ Deliveries = Messages \cup Answers
    /\ Calls \cap (Deliveries \cup Questions \cup Resets \cup Cancels) = {}
    /\ (Cancels \cup Resets) \cap (Deliveries \cup Questions) = {}
    /\ Cancels \cap Resets = {}
BY PayloadsAssumption DEF Messages, Deliveries, Commands

LEMMA EmptySequence == \A T : <<>> \in Seq(T) /\ Members(<<>>) = {} /\ Single(<<>>)
BY DEF Members, Single, Once

LEMMA InitCounts == Init => MInv
<1> SUFFICES ASSUME Init PROVE MInv
    OBVIOUS
<1>1. TypeOK
    BY EmptySequence DEF Init, TypeOK, Results
<1>2. Accounted
    BY EmptySequence DEF Init, Accounted, Count, Bit
<1> QED
    BY <1>1, <1>2, EmptySequence DEF Init, MInv, PhaseOK, Singly

(* Steps that move no message.                                             *)
LEMMA MessagesStay ==
    ASSUME MInv, UNCHANGED <<inbox, draining, queue, stepInput, history, dropped, sent>>
    PROVE  Singly' /\ Accounted'
BY DEF MInv, Singly, Single, Accounted, Count, Members

(***************************************************************************)
(* Payloads arrive.                                                        *)
(***************************************************************************)
LEMMA PumpTypes ==
    ASSUME TypeOK, NEW p \in Payloads, pump(p)
    PROVE  /\ inbox' \in Seq(Payloads) /\ steered' \in BOOLEAN
           /\ abortedBy' \subseteq Cancels \cup Resets \cup Stops
           /\ muted' \subseteq Steers
           /\ pc # "ended"
<1>0. inbox \in Seq(Payloads) /\ pc # "ended" /\ inbox' = Append(inbox, p)
    BY DEF TypeOK, pump
<1>1. inbox' \in Seq(Payloads)
    BY <1>0, MembersOfAppend
<1>2. steered' \in BOOLEAN
    BY DEF TypeOK, pump, signalSteering, signalVars
<1>3. muted' \subseteq Steers
    BY DEF TypeOK, pump, Mutes
<1>4. abortedBy' = abortedBy \/ (abortedBy' = abort(p) /\ cancelsThisTurn(p))
    BY DEF pump, signalVars
<1>5. abortedBy' \subseteq Cancels \cup Resets \cup Stops
    BY <1>4 DEF TypeOK, abort, cancelsThisTurn
<1> QED
    BY <1>0, <1>1, <1>2, <1>3, <1>5

LEMMA SendCounts == ASSUME MInv, NEW p \in Commands, send(p) PROVE MInv'
<1>1. p \in Payloads /\ p \notin Members(sent) /\ pump(p) /\ sent' = Append(sent, p)
    BY DEF send, Payloads
<1>2. /\ inbox \in Seq(Payloads) /\ sent \in Seq(Commands) /\ inbox' = Append(inbox, p)
    BY <1>1 DEF MInv, TypeOK, pump
<1>3. /\ sent' \in Seq(Commands) /\ Members(sent') = Members(sent) \cup {p}
      /\ Members(inbox') = Members(inbox) \cup {p}
    BY <1>1, <1>2, MembersOfAppend
<1>4. TypeOK'
    BY <1>1, <1>3, PumpTypes DEF MInv, TypeOK, send, callVars, recordVars
<1>5. p \in Messages => /\ p \notin Members(inbox) /\ p \notin Members(draining)
                        /\ p \notin Members(queue) /\ p \notin Members(stepInput)
                        /\ p \notin Members(history) /\ p \notin dropped
    BY <1>1 DEF MInv, Accounted, Count, Bit
<1>6. Singly'
    BY <1>1, <1>2, <1>5, SingleAppended DEF MInv, Singly, send, recordVars, Single
<1>7. Accounted'
    <2> SUFFICES ASSUME NEW m \in Messages PROVE Count(m)' = Bit(m \in Members(sent'))
        BY DEF Accounted
    <2>1. Count(m) = Bit(m \in Members(sent))
        BY DEF MInv, Accounted
    <2>2. CASE m = p
        BY <1>1, <1>3, <1>5, <2>2 DEF Count, Bit, send, recordVars
    <2>3. CASE m # p
        BY <1>3, <2>1, <2>3 DEF Count, Bit, send, recordVars
    <2> QED
        BY <2>2, <2>3
<1>8. PhaseOK'
    BY DEF MInv, PhaseOK, send, callVars, recordVars
<1> QED
    BY <1>4, <1>6, <1>7, <1>8 DEF MInv

LEMMA ReportCounts == ASSUME MInv, NEW c \in Calls, report(c) PROVE MInv'
<1>1. c \in Payloads /\ c \notin Messages /\ pump(c)
    BY Kinds DEF report, Payloads
<1>2. inbox \in Seq(Payloads) /\ inbox' = Append(inbox, c)
    BY <1>1 DEF MInv, TypeOK, pump
<1>3. Members(inbox') = Members(inbox) \cup {c}
    BY <1>1, <1>2, MembersOfAppend
<1>4. TypeOK'
    BY <1>1, PumpTypes DEF MInv, TypeOK, report, recordVars
<1>5. Singly'
    BY <1>1, <1>2, SingleAppended DEF MInv, Singly, report, recordVars, Single
<1>6. Accounted'
    BY <1>1, <1>3 DEF MInv, Accounted, Count, Bit, report, recordVars
<1>7. PhaseOK'
    BY DEF MInv, PhaseOK, report, recordVars
<1> QED
    BY <1>4, <1>5, <1>6, <1>7 DEF MInv

(***************************************************************************)
(* The parked owner.                                                       *)
(***************************************************************************)
LEMMA RoutedSequence ==
    ASSUME MInv
    PROVE  /\ Routed \in Seq(Deliveries \cup Resets)
           /\ Members(Routed) = Members(queue) \ Questions
           /\ Single(Routed)
<1> DEFINE w == Without(queue, Questions)
<1>1. queue \in Seq(Deliveries \cup Questions \cup Resets) /\ Single(queue)
    BY DEF MInv, TypeOK, Singly
<1>2. /\ w \in Seq((Deliveries \cup Questions \cup Resets) \ Questions)
      /\ Members(w) = Members(queue) \ Questions
      /\ Single(w)
    BY <1>1, MessagesDropped
<1> HIDE DEF w
<1>3. (Deliveries \cup Questions \cup Resets) \ Questions \subseteq Deliveries \cup Resets
    OBVIOUS
<1>4. \A A, B : A \subseteq B => Seq(A) \subseteq Seq(B)
    OBVIOUS
<1>5. w \in Seq(Deliveries \cup Resets)
    BY <1>2, <1>3, <1>4
<1> QED
    BY <1>2, <1>5 DEF w, Routed

LEMMA OpenedQuestions == TypeOK => Opened \subseteq Questions
BY DEF TypeOK, Opened

LEMMA Wider == \A A, B : A \subseteq B => Seq(A) \subseteq Seq(B)
OBVIOUS

LEMMA MembersOfType == ASSUME NEW T, NEW s \in Seq(T) PROVE Members(s) \subseteq T
BY DEF Members

LEMMA TakeNextCounts == ASSUME MInv, takeNext PROVE MInv'
<1> DEFINE batch == Batch(Routed)
           rest == SubSeq(Routed, Len(batch) + 1, Len(Routed))
           used == Consumed(batch, Opened)
           stopped == used \cap Stops # {}
           turnInput == Without(batch, used)
<1>0. Routed \in Seq(Deliveries \cup Resets) /\ Single(Routed)
      /\ Members(Routed) = Members(queue) \ Questions
    BY RoutedSequence
<1>1. pc = "parked" /\ Routed # <<>> /\ Head(Routed) \in Deliveries
    BY DEF takeNext
<1>2. PICK n \in 1 .. Len(Routed) :
          batch = SubSeq(Routed, 1, n) /\ \A i \in 1 .. n : Routed[i] \in Deliveries
    BY <1>0, <1>1, BatchIsPrefix
<1>3. /\ batch \in Seq(Deliveries \cup Resets) /\ Len(batch) = n
      /\ \A i \in 1 .. n : batch[i] = Routed[i]
      /\ rest \in Seq(Deliveries \cup Resets)
      /\ Members(Routed) = Members(batch) \cup Members(rest)
      /\ Single(batch) /\ Single(rest) /\ Members(batch) \cap Members(rest) \cap Messages = {}
    <2>1. Len(SubSeq(Routed, 1, n)) = n
        BY <1>0, MessagesCut
    <2>2. Len(batch) = n /\ rest = SubSeq(Routed, n + 1, Len(Routed))
        BY <1>2, <2>1
    <2> HIDE DEF batch, rest
    <2> QED
        BY <1>0, <1>2, <2>2, MessagesCut
<1>4. Members(batch) \subseteq Deliveries /\ batch \in Seq(Deliveries)
    BY <1>2, <1>3 DEF Members
<1>5. /\ queue' = rest
      /\ answered' = answered \cup used
      /\ asking' = IF stopped THEN {} ELSE Opened \ Requests(used)
      /\ dropped' = IF stopped THEN dropped \cup Members(turnInput) ELSE dropped
      /\ IF stopped \/ turnInput = <<>>
         THEN UNCHANGED <<pc, turn, stepInput, signalVars, muted>>
         ELSE /\ pc' = "generating"
              /\ turn' = turn + 1
              /\ stepInput' = turnInput
              /\ abortedBy' = {}
              /\ steered' = (asking' = {} /\ Unread \cap Steers # {})
              /\ muted' = IF asking' = {} THEN muted ELSE muted \cup (Unread \cap Steers)
      /\ UNCHANGED <<inbox, draining, admitted, callVars, history, sent, stops>>
    BY DEF takeNext
<1> HIDE DEF batch, rest
<1>6. used \subseteq Answers
    BY DEF Consumed
<1> HIDE DEF used
<1>7. /\ turnInput \in Seq(Deliveries) /\ Members(turnInput) = Members(batch) \ used
      /\ Single(turnInput)
    <2>1. turnInput \in Seq(Deliveries \ used) /\ Members(turnInput) = Members(batch) \ used
          /\ Single(turnInput)
        BY <1>3, <1>4, MessagesDropped
    <2> HIDE DEF turnInput
    <2> QED
        BY <2>1, Wider
<1> HIDE DEF turnInput, stopped
<1>8. Members(turnInput) \cap Messages = Members(batch) \cap Messages
    BY <1>6, <1>7, Kinds
<1>9. Members(queue) \cap Messages = (Members(batch) \cup Members(rest)) \cap Messages
    BY <1>0, <1>3, Kinds
<1>11. stepInput = <<>> /\ Members(stepInput) = {}
    BY <1>1, EmptySequence DEF MInv, PhaseOK, InStep
<1>12. TypeOK'
    <2>1. queue' \in Seq(Deliveries \cup Questions \cup Resets)
        <3>1. Deliveries \cup Resets \subseteq Deliveries \cup Questions \cup Resets
            OBVIOUS
        <3> QED
            BY <1>3, <1>5, <3>1, Wider
    <2>2. answered' \subseteq Answers /\ dropped' \subseteq Deliveries
        BY <1>4, <1>5, <1>6, <1>7 DEF MInv, TypeOK
    <2>3. asking' \subseteq Questions
        BY <1>5, OpenedQuestions DEF MInv
    <2>4. stepInput' \in Seq(Deliveries) /\ turn' \in Nat /\ pc' \in Active \cup {"parked", "ended"}
          /\ abortedBy' \subseteq Cancels \cup Resets \cup Stops /\ steered' \in BOOLEAN
          /\ muted' \subseteq Steers
        <3>1. CASE stopped \/ turnInput = <<>>
            BY <1>5, <3>1 DEF MInv, TypeOK, signalVars
        <3>2. CASE ~(stopped \/ turnInput = <<>>)
            <4>1. /\ pc' = "generating" /\ turn' = turn + 1 /\ stepInput' = turnInput
                  /\ abortedBy' = {} /\ steered' = (asking' = {} /\ Unread \cap Steers # {})
                  /\ muted' = IF asking' = {} THEN muted ELSE muted \cup (Unread \cap Steers)
                BY <1>5, <3>2
            <4>2. turn \in Nat /\ muted \subseteq Steers
                BY DEF MInv, TypeOK
            <4> QED
                BY <1>7, <4>1, <4>2 DEF Active, InStep
        <3> QED
            BY <3>1, <3>2
    <2> QED
        BY <1>5, <2>1, <2>2, <2>3, <2>4 DEF MInv, TypeOK, callVars
<1>13. PhaseOK'
    BY <1>1, <1>5, <1>11 DEF MInv, PhaseOK, InStep
<1>14. Singly'
    BY <1>3, <1>5, <1>7 DEF MInv, Singly
<1>15. Accounted'
    <2> SUFFICES ASSUME NEW m \in Messages PROVE Count(m)' = Bit(m \in Members(sent'))
        BY DEF Accounted
    <2>1. Count(m) = Bit(m \in Members(sent)) /\ m \notin Members(stepInput)
        BY <1>11 DEF MInv, Accounted
    <2>2. Members(queue') = Members(rest) /\ UNCHANGED <<inbox, draining, history, sent>>
        BY <1>5
    <2>3. m \in Members(queue) <=> m \in Members(batch) \/ m \in Members(rest)
        BY <1>9
    <2>4. ~(m \in Members(batch) /\ m \in Members(rest))
          /\ (m \in Members(turnInput) <=> m \in Members(batch))
        BY <1>3, <1>8
    <2>5. CASE stopped
        <3>1. dropped' = dropped \cup Members(turnInput) /\ stepInput' = stepInput
            BY <1>5, <2>5
        <3> QED
            BY <2>1, <2>2, <2>3, <2>4, <3>1 DEF Count, Bit
    <2>6. CASE ~stopped /\ turnInput = <<>>
        <3>1. dropped' = dropped /\ stepInput' = stepInput /\ m \notin Members(turnInput)
            BY <1>5, <2>6, EmptySequence
        <3> QED
            BY <2>1, <2>2, <2>3, <2>4, <3>1 DEF Count, Bit
    <2>7. CASE ~stopped /\ turnInput # <<>>
        <3>1. dropped' = dropped /\ stepInput' = turnInput
            BY <1>5, <2>7
        <3> QED
            BY <2>1, <2>2, <2>3, <2>4, <3>1 DEF Count, Bit
    <2> QED
        BY <2>5, <2>6, <2>7
<1> QED
    BY <1>12, <1>13, <1>14, <1>15 DEF MInv

LEMMA TakeResetCounts == ASSUME MInv, takeReset PROVE MInv'
<1>0. Routed \in Seq(Deliveries \cup Resets) /\ Single(Routed)
      /\ Members(Routed) = Members(queue) \ Questions
    BY RoutedSequence
<1>1. pc = "parked" /\ Routed # <<>> /\ Head(Routed) \in Resets /\ queue' = Tail(Routed)
      /\ pc' = "ended" /\ asking' = Opened
      /\ UNCHANGED <<inbox, draining, admitted, turn, signalVars, callVars, stepInput, history,
                     answered, dropped, sent, muted, stops>>
    BY DEF takeReset
<1>2. /\ Tail(Routed) \in Seq(Deliveries \cup Resets) /\ Single(Tail(Routed))
      /\ Members(Routed) = {Head(Routed)} \cup Members(Tail(Routed))
    BY <1>0, <1>1, MessagesAtHead
<1>3. Members(queue') \cap Messages = Members(queue) \cap Messages
    BY <1>0, <1>1, <1>2, Kinds
<1>4. queue' \in Seq(Deliveries \cup Questions \cup Resets)
    <2>1. Deliveries \cup Resets \subseteq Deliveries \cup Questions \cup Resets
        OBVIOUS
    <2> QED
        BY <1>1, <1>2, <2>1, Wider
<1>5. TypeOK'
    BY <1>1, <1>4, OpenedQuestions DEF MInv, TypeOK, signalVars, callVars
<1>6. Singly'
    BY <1>1, <1>2 DEF MInv, Singly
<1>7. Accounted'
    BY <1>1, <1>3 DEF MInv, Accounted, Count, Bit
<1>8. PhaseOK'
    BY <1>1 DEF MInv, PhaseOK, InStep
<1> QED
    BY <1>5, <1>6, <1>7, <1>8 DEF MInv

(* What is read from the inbox is a message of the queue, or none.         *)
LEMMA EnqueuedSequence ==
    ASSUME NEW q \in Seq(Deliveries \cup Questions \cup Resets), NEW p, Single(q),
           p \in Messages => p \notin Members(q)
    PROVE  /\ Enqueued(q, p) \in Seq(Deliveries \cup Questions \cup Resets)
           /\ Members(Enqueued(q, p)) = Members(q) \cup ({p} \cap (Deliveries \cup Questions \cup Resets))
           /\ Single(Enqueued(q, p))
<1>1. CASE p \in Deliveries \cup Questions \cup Resets
    BY <1>1, MembersOfAppend, SingleAppended DEF Enqueued
<1>2. CASE p \notin Deliveries \cup Questions \cup Resets
    BY <1>2 DEF Enqueued
<1> QED
    BY <1>1, <1>2

LEMMA ReadParkedCounts == ASSUME MInv, readParked PROVE MInv'
<1> DEFINE p == Head(inbox)
<1>1. /\ inbox # <<>> /\ Routed = <<>> /\ inbox' = Tail(inbox) /\ queue' = Enqueued(Routed, p)
      /\ asking' = Opened
      /\ UNCHANGED <<draining, admitted, pc, turn, signalVars, callVars, stepInput, history,
                     answered, dropped, sent, muted, stops>>
    BY DEF readParked
<1>2. inbox \in Seq(Payloads) /\ Single(inbox)
    BY DEF MInv, TypeOK, Singly
<1> HIDE DEF p
<1>3. /\ p \in Payloads /\ inbox' \in Seq(Payloads)
      /\ Members(inbox) = {p} \cup Members(inbox') /\ Single(inbox')
      /\ p \notin Messages \/ p \notin Members(inbox')
    BY <1>1, <1>2, MessagesAtHead DEF p
<1>4. Members(queue) \ Questions = {}
    BY <1>1, RoutedSequence, EmptySequence
<1>5. /\ queue' \in Seq(Deliveries \cup Questions \cup Resets) /\ Single(queue')
      /\ Members(queue') = {p} \cap (Deliveries \cup Questions \cup Resets)
    <2>1. /\ <<>> \in Seq(Deliveries \cup Questions \cup Resets) /\ Single(<<>>)
          /\ Members(<<>>) = {}
        BY EmptySequence
    <2>2. queue' = Enqueued(<<>>, p)
        BY <1>1
    <2> QED
        BY <2>1, <2>2, EnqueuedSequence
<1>6. TypeOK'
    BY <1>1, <1>3, <1>5, OpenedQuestions DEF MInv, TypeOK, signalVars, callVars
<1>7. Singly'
    BY <1>1, <1>3, <1>5 DEF MInv, Singly
<1>8. Accounted'
    <2> SUFFICES ASSUME NEW m \in Messages PROVE Count(m)' = Bit(m \in Members(sent'))
        BY DEF Accounted
    <2>1. Count(m) = Bit(m \in Members(sent))
        BY DEF MInv, Accounted
    <2>2. m \notin Members(queue) /\ (m \in Members(queue') <=> m = p)
        BY <1>4, <1>5, Kinds
    <2>3. m \in Members(inbox) <=> m = p \/ m \in Members(inbox')
        BY <1>3
    <2>4. ~(m = p /\ m \in Members(inbox'))
        BY <1>3
    <2> QED
        BY <1>1, <2>1, <2>2, <2>3, <2>4 DEF Count, Bit
<1>9. PhaseOK'
    BY <1>1 DEF MInv, PhaseOK, callVars
<1> QED
    BY <1>6, <1>7, <1>8, <1>9 DEF MInv

(***************************************************************************)
(* A step returns, and its boundary admits what arrived meanwhile.         *)
(***************************************************************************)
LEMMA TurnStepCounts == ASSUME MInv, NEW result \in StepReturns, turnStep(result) PROVE MInv'
<1>1. /\ pc \in InStep /\ pc' = "returned" /\ outcome' = result
      /\ history' = history \o Only(stepInput, Messages) /\ stepInput' = <<>>
      /\ UNCHANGED <<inputVars, turn, signalVars, pending, results, events, handles, children,
                     asking, answered, dropped, sent, muted, stops>>
    BY DEF turnStep, preserved
<1>2. /\ stepInput \in Seq(Deliveries) /\ Single(stepInput) /\ history \in Seq(Messages)
      /\ Single(history) /\ draining = <<>>
    BY <1>1 DEF MInv, TypeOK, Singly, PhaseOK, InStep
<1> DEFINE kept == Only(stepInput, Messages)
<1>3. /\ kept \in Seq(Messages) /\ Single(kept)
      /\ Members(kept) = Members(stepInput) \cap Messages
    <2>1. kept \in Seq(Deliveries \cap Messages) /\ Single(kept)
          /\ Members(kept) = Members(stepInput) \cap Messages
        BY <1>2, MessagesPicked
    <2>2. Deliveries \cap Messages \subseteq Messages
        OBVIOUS
    <2> HIDE DEF kept
    <2> QED
        BY <2>1, <2>2, Wider
<1>4. \A m \in Messages : ~(m \in Members(stepInput) /\ m \in Members(history))
    <2>1. \A m \in Messages : Count(m) \in {0, 1}
        BY DEF MInv, Accounted, Bit
    <2> QED
        BY <2>1 DEF Count, Bit
<1> HIDE DEF kept
<1>5. /\ history' \in Seq(Messages) /\ Single(history')
      /\ Members(history') = Members(history) \cup Members(kept)
    BY <1>1, <1>2, <1>3, <1>4, MessagesJoined DEF kept
<1>6. result \in Results
    BY DEF StepReturns, Fresh, Results
<1>7. TypeOK'
    BY <1>1, <1>5, <1>6, EmptySequence DEF MInv, TypeOK, inputVars, signalVars, Active
<1>8. Singly'
    BY <1>1, <1>5, EmptySequence DEF MInv, Singly, inputVars
<1>9. Accounted'
    <2> SUFFICES ASSUME NEW m \in Messages PROVE Count(m)' = Bit(m \in Members(sent'))
        BY DEF Accounted
    <2>1. Count(m) = Bit(m \in Members(sent))
        BY DEF MInv, Accounted
    <2>2. m \in Members(history') <=> m \in Members(history) \/ m \in Members(stepInput)
        BY <1>3, <1>5
    <2>3. m \notin Members(stepInput')
        BY <1>1, EmptySequence
    <2> QED
        BY <1>1, <1>4, <2>1, <2>2, <2>3 DEF Count, Bit, inputVars
<1>10. PhaseOK'
    BY <1>1, <1>2 DEF PhaseOK, inputVars
<1> QED
    BY <1>7, <1>8, <1>9, <1>10 DEF MInv

LEMMA AdmitBoundaryCounts == ASSUME MInv, admitBoundary PROVE MInv'
<1>1. /\ pc = "returned" /\ pc' = "admitting" /\ draining' = inbox /\ inbox' = <<>>
      /\ UNCHANGED <<queue, admitted, turn, signalVars, callVars, recordVars, sent, muted, stops>>
    BY DEF admitBoundary
<1>2. draining = <<>>
    BY <1>1 DEF MInv, PhaseOK
<1>3. TypeOK'
    BY <1>1, EmptySequence DEF MInv, TypeOK, signalVars, callVars, recordVars, Active
<1>4. Singly'
    BY <1>1, EmptySequence DEF MInv, Singly, recordVars
<1>5. Accounted'
    BY <1>1, <1>2, EmptySequence DEF MInv, Accounted, Count, Bit, recordVars
<1>6. PhaseOK'
    BY <1>1 DEF MInv, PhaseOK, recordVars, InStep
<1> QED
    BY <1>3, <1>4, <1>5, <1>6 DEF MInv

LEMMA AdmitTypes ==
    ASSUME TypeOK, NEW p \in Payloads, admit(p)
    PROVE  /\ admitted' \subseteq Deliveries \cup Questions
           /\ events' \in Seq(Calls)
           /\ abortedBy' \subseteq Cancels \cup Resets \cup Stops
BY DEF TypeOK, admit, abort, cancelsThisTurn

LEMMA AdmitDrainedCounts == ASSUME MInv, admitDrained PROVE MInv'
<1> DEFINE p == Head(draining)
<1>1. /\ pc = "admitting" /\ draining # <<>> /\ draining' = Tail(draining) /\ admit(p)
      /\ queue' = Enqueued(queue, p)
      /\ UNCHANGED <<inbox, pc, turn, steered, outcome, pending, results, handles, children,
                     recordVars, sent, muted, stops>>
    BY DEF admitDrained, admit
<1>2. draining \in Seq(Payloads) /\ Single(draining)
      /\ queue \in Seq(Deliveries \cup Questions \cup Resets) /\ Single(queue)
    BY DEF MInv, TypeOK, Singly
<1> HIDE DEF p
<1>3. /\ p \in Payloads /\ draining' \in Seq(Payloads)
      /\ Members(draining) = {p} \cup Members(draining') /\ Single(draining')
      /\ p \notin Messages \/ p \notin Members(draining')
    BY <1>1, <1>2, MessagesAtHead DEF p
<1>4. \A m \in Messages : ~(m \in Members(draining) /\ m \in Members(queue))
    <2>1. \A m \in Messages : Count(m) \in {0, 1}
        BY DEF MInv, Accounted, Bit
    <2> QED
        BY <2>1 DEF Count, Bit
<1>5. /\ queue' \in Seq(Deliveries \cup Questions \cup Resets) /\ Single(queue')
      /\ Members(queue') = Members(queue) \cup ({p} \cap (Deliveries \cup Questions \cup Resets))
    BY <1>1, <1>2, <1>3, <1>4, EnqueuedSequence
<1>6. TypeOK'
    BY <1>1, <1>3, <1>5, AdmitTypes DEF MInv, TypeOK, recordVars
<1>7. Singly'
    BY <1>1, <1>3, <1>5 DEF MInv, Singly, recordVars
<1>8. Accounted'
    <2> SUFFICES ASSUME NEW m \in Messages PROVE Count(m)' = Bit(m \in Members(sent'))
        BY DEF Accounted
    <2>1. Count(m) = Bit(m \in Members(sent))
        BY DEF MInv, Accounted
    <2>2. m \in Members(queue') <=> m \in Members(queue) \/ m = p
        BY <1>5, Kinds
    <2>3. m \in Members(draining) <=> m = p \/ m \in Members(draining')
        BY <1>3
    <2>4. ~(m = p /\ m \in Members(draining')) /\ ~(m \in Members(draining) /\ m \in Members(queue))
        BY <1>3, <1>4
    <2> QED
        BY <1>1, <2>1, <2>2, <2>3, <2>4 DEF Count, Bit, recordVars
<1>9. PhaseOK'
    BY <1>1 DEF MInv, PhaseOK, recordVars
<1> QED
    BY <1>6, <1>7, <1>8, <1>9 DEF MInv

LEMMA ReadWaitingCounts == ASSUME MInv, readWaiting PROVE MInv'
<1> DEFINE p == Head(inbox)
<1>1. /\ pc = "waiting" /\ pc' = "routing" /\ inbox # <<>> /\ inbox' = Tail(inbox) /\ admit(p)
      /\ queue' = Enqueued(queue, p)
      /\ UNCHANGED <<draining, turn, steered, outcome, pending, results, handles, children,
                     recordVars, sent, muted, stops>>
    BY DEF readWaiting, admit
<1>2. inbox \in Seq(Payloads) /\ Single(inbox)
      /\ queue \in Seq(Deliveries \cup Questions \cup Resets) /\ Single(queue)
    BY DEF MInv, TypeOK, Singly
<1> HIDE DEF p
<1>3. /\ p \in Payloads /\ inbox' \in Seq(Payloads)
      /\ Members(inbox) = {p} \cup Members(inbox') /\ Single(inbox')
      /\ p \notin Messages \/ p \notin Members(inbox')
    BY <1>1, <1>2, MessagesAtHead DEF p
<1>4. \A m \in Messages : ~(m \in Members(inbox) /\ m \in Members(queue))
    <2>1. \A m \in Messages : Count(m) \in {0, 1}
        BY DEF MInv, Accounted, Bit
    <2> QED
        BY <2>1 DEF Count, Bit
<1>5. /\ queue' \in Seq(Deliveries \cup Questions \cup Resets) /\ Single(queue')
      /\ Members(queue') = Members(queue) \cup ({p} \cap (Deliveries \cup Questions \cup Resets))
    BY <1>1, <1>2, <1>3, <1>4, EnqueuedSequence
<1>6. TypeOK'
    BY <1>1, <1>3, <1>5, AdmitTypes DEF MInv, TypeOK, recordVars, Active
<1>7. Singly'
    BY <1>1, <1>3, <1>5 DEF MInv, Singly, recordVars
<1>8. Accounted'
    <2> SUFFICES ASSUME NEW m \in Messages PROVE Count(m)' = Bit(m \in Members(sent'))
        BY DEF Accounted
    <2>1. Count(m) = Bit(m \in Members(sent))
        BY DEF MInv, Accounted
    <2>2. m \in Members(queue') <=> m \in Members(queue) \/ m = p
        BY <1>5, Kinds
    <2>3. m \in Members(inbox) <=> m = p \/ m \in Members(inbox')
        BY <1>3
    <2>4. ~(m = p /\ m \in Members(inbox')) /\ ~(m \in Members(inbox) /\ m \in Members(queue))
        BY <1>3, <1>4
    <2> QED
        BY <1>1, <2>1, <2>2, <2>3, <2>4 DEF Count, Bit, recordVars
<1>9. PhaseOK'
    BY <1>1 DEF MInv, PhaseOK, recordVars, InStep
<1> QED
    BY <1>6, <1>7, <1>8, <1>9 DEF MInv

(***************************************************************************)
(* Steering, and the wait for calls.                                       *)
(***************************************************************************)
(* What joins the next step leaves the queue; what answers a request is    *)
(* consumed, and a stop gives up the messages it was combined with.        *)
LEMMA SteeringMoves ==
    ASSUME MInv, stepInput = <<>>, takeSteering, UNCHANGED <<inbox, draining, history, sent>>
    PROVE  /\ Singly' /\ Accounted'
           /\ queue' \in Seq(Deliveries \cup Questions \cup Resets)
           /\ admitted' \subseteq Deliveries \cup Questions
           /\ answered' \subseteq Answers /\ dropped' \subseteq Deliveries
           /\ asking' \subseteq Questions
           /\ abortedBy' \subseteq Cancels \cup Resets \cup Stops
           /\ stepInput' \in Seq(Deliveries)
<1> DEFINE batch == Only(queue, admitted \cap (Steers \cup Answers))
           used == Consumed(batch, asking)
           joining == Without(batch, used)
           stop == CHOOSE p \in used \cap Stops : TRUE
<1>1. /\ queue' = Without(queue, Members(batch))
      /\ admitted' = admitted \ Members(batch)
      /\ answered' = answered \cup used
      /\ asking' = asking \ Requests(used)
      /\ IF used \cap Stops = {}
         THEN stepInput' = joining /\ UNCHANGED <<dropped, abortedBy>>
         ELSE /\ stepInput' = <<>>
              /\ dropped' = dropped \cup Members(joining)
              /\ abortedBy' = abort(stop)
    BY DEF takeSteering
<1>2. queue \in Seq(Deliveries \cup Questions \cup Resets) /\ Single(queue)
    BY DEF MInv, TypeOK, Singly
<1>3. batch \in Seq(Deliveries) /\ Single(batch) /\ Members(batch) \subseteq Members(queue)
    <2>1. /\ batch \in Seq((Deliveries \cup Questions \cup Resets)
                               \cap (admitted \cap (Steers \cup Answers)))
          /\ Members(batch) = Members(queue) \cap (admitted \cap (Steers \cup Answers))
          /\ Single(batch)
        BY <1>2, MessagesPicked, ZenonT(60)
    <2>2. (Deliveries \cup Questions \cup Resets) \cap (admitted \cap (Steers \cup Answers))
              \subseteq Deliveries
        BY DEF Deliveries, Messages
    <2> HIDE DEF batch
    <2> QED
        BY <2>1, <2>2, Wider
<1> HIDE DEF batch
<1>4. used \subseteq Answers
    BY DEF Consumed
<1>5. used \cap Stops # {} => stop \in Stops
    OBVIOUS
<1> HIDE DEF used, stop
<1>6. joining \in Seq(Deliveries) /\ Single(joining) /\ Members(joining) = Members(batch) \ used
    <2>1. joining \in Seq(Deliveries \ used) /\ Single(joining)
          /\ Members(joining) = Members(batch) \ used
        BY <1>3, MessagesDropped
    <2> HIDE DEF joining
    <2> QED
        BY <2>1, Wider
<1> HIDE DEF joining
<1>7. /\ queue' \in Seq(Deliveries \cup Questions \cup Resets) /\ Single(queue')
      /\ Members(queue') = Members(queue) \ Members(batch)
    <2> DEFINE B == Members(batch)
               rest == Without(queue, B)
    <2>1. queue' = rest
        BY <1>1
    <2> HIDE DEF B
    <2>2. /\ rest \in Seq((Deliveries \cup Questions \cup Resets) \ B) /\ Single(rest)
          /\ Members(rest) = Members(queue) \ B
        BY <1>2, MessagesDropped
    <2>3. (Deliveries \cup Questions \cup Resets) \ B
              \subseteq Deliveries \cup Questions \cup Resets
        OBVIOUS
    <2> HIDE DEF rest
    <2>4. queue' \in Seq(Deliveries \cup Questions \cup Resets) /\ Single(queue')
          /\ Members(queue') = Members(queue) \ B
        BY <2>1, <2>2, <2>3, Wider
    <2> QED
        BY <2>4 DEF B
<1>8. Members(joining) \subseteq Deliveries
    BY <1>6, MembersOfType
<1>9. Singly'
    BY <1>1, <1>6, <1>7, EmptySequence DEF MInv, Singly
<1>10. Accounted'
    <2> SUFFICES ASSUME NEW m \in Messages PROVE Count(m)' = Bit(m \in Members(sent'))
        BY DEF Accounted
    <2>1. Count(m) = Bit(m \in Members(sent)) /\ m \notin Members(stepInput)
        BY EmptySequence DEF MInv, Accounted
    <2>2. m \in Members(joining) <=> m \in Members(batch)
        BY <1>4, <1>6, Kinds
    <2>3. m \in Members(queue) <=> m \in Members(queue') \/ m \in Members(batch)
        BY <1>3, <1>7
    <2>4. ~(m \in Members(queue') /\ m \in Members(batch))
        BY <1>7
    <2>5. CASE used \cap Stops = {}
        <3>1. stepInput' = joining /\ dropped' = dropped
            BY <1>1, <2>5
        <3> QED
            BY <2>1, <2>2, <2>3, <2>4, <3>1 DEF Count, Bit
    <2>6. CASE used \cap Stops # {}
        <3>1. dropped' = dropped \cup Members(joining) /\ m \notin Members(stepInput')
            BY <1>1, <2>6, EmptySequence
        <3> QED
            BY <2>1, <2>2, <2>3, <2>4, <3>1 DEF Count, Bit
    <2> QED
        BY <2>5, <2>6
<1>11. /\ admitted' \subseteq Deliveries \cup Questions /\ answered' \subseteq Answers
       /\ asking' \subseteq Questions
    BY <1>1, <1>4 DEF MInv, TypeOK
<1>12. /\ dropped' \subseteq Deliveries /\ stepInput' \in Seq(Deliveries)
       /\ abortedBy' \subseteq Cancels \cup Resets \cup Stops
    <2>1. dropped \subseteq Deliveries /\ abortedBy \subseteq Cancels \cup Resets \cup Stops
        BY DEF MInv, TypeOK
    <2>2. CASE used \cap Stops = {}
        BY <1>1, <1>6, <2>1, <2>2
    <2>3. CASE used \cap Stops # {}
        BY <1>1, <1>5, <1>8, <2>1, <2>3, EmptySequence DEF abort
    <2> QED
        BY <2>2, <2>3
<1> QED
    BY <1>7, <1>9, <1>10, <1>11, <1>12

LEMMA ResetTypes ==
    ASSUME TypeOK, resetsSteering
    PROVE  steered' \in BOOLEAN /\ muted' \subseteq Steers
BY DEF TypeOK, resetsSteering, resetSteering, Mutes, signalSteering

LEMMA BoundaryCounts ==
    ASSUME MInv, cancelTurn \/ parkTurn \/ continueTurn \/ beginDispatch
    PROVE  MInv'
<1>1. pc = "admitting" /\ draining = <<>> /\ stepInput = <<>>
    BY DEF cancelTurn, parkTurn, continueTurn, beginDispatch, AtBoundary, MInv, PhaseOK, InStep
<1>2. CASE cancelTurn \/ parkTurn \/ beginDispatch
    <2>1. Singly' /\ Accounted'
        BY <1>2, MessagesStay DEF cancelTurn, parkTurn, beginDispatch, inputVars, recordVars
    <2>2. PhaseOK'
        BY <1>1, <1>2 DEF cancelTurn, parkTurn, beginDispatch, inputVars, recordVars, callVars,
                          PhaseOK
    <2>3. TypeOK'
        <3>1. steered' \in BOOLEAN /\ muted' \subseteq Steers
            BY <1>2, ResetTypes DEF MInv, cancelTurn, parkTurn, beginDispatch
        <3>2. CASE cancelTurn
            BY <3>1, <3>2 DEF cancelTurn, MInv, TypeOK, inputVars, callVars, recordVars, Active
        <3>3. CASE parkTurn
            BY <3>1, <3>3, EmptySequence DEF parkTurn, MInv, TypeOK, recordVars
        <3>4. CASE beginDispatch
            BY <3>1, <3>4 DEF beginDispatch, MInv, TypeOK, inputVars, callVars, recordVars, Active
        <3> QED
            BY <1>2, <3>2, <3>3, <3>4
    <2> QED
        BY <2>1, <2>2, <2>3 DEF MInv
<1>3. CASE continueTurn
    <2>1. /\ resetsSteering /\ takeSteering /\ pc' = "generating"
          /\ UNCHANGED <<inbox, draining, turn, callVars, history, sent, stops>>
        BY <1>3 DEF continueTurn
    <2>2. steered' \in BOOLEAN /\ muted' \subseteq Steers
        BY <2>1, ResetTypes DEF MInv
    <2>3. /\ Singly' /\ Accounted'
          /\ queue' \in Seq(Deliveries \cup Questions \cup Resets)
          /\ admitted' \subseteq Deliveries \cup Questions
          /\ answered' \subseteq Answers /\ dropped' \subseteq Deliveries
          /\ asking' \subseteq Questions
          /\ abortedBy' \subseteq Cancels \cup Resets \cup Stops
          /\ stepInput' \in Seq(Deliveries)
        BY <1>1, <2>1, SteeringMoves
    <2>4. TypeOK'
        BY <2>1, <2>2, <2>3 DEF MInv, TypeOK, callVars, Active, InStep
    <2>5. PhaseOK'
        BY <1>1, <2>1 DEF PhaseOK, InStep
    <2> QED
        BY <2>3, <2>4, <2>5 DEF MInv
<1> QED
    BY <1>2, <1>3

LEMMA ResumeCounts == ASSUME MInv, resume PROVE MInv'
<1>1. /\ pc = "waiting" /\ takeSteering /\ pc' = "generating" /\ pending' = {} /\ results' = {}
      /\ handles' = handles \ pending
      /\ UNCHANGED <<inbox, draining, turn, steered, outcome, events, children, history, sent,
                     muted, stops>>
    BY DEF resume
<1>2. draining = <<>> /\ stepInput = <<>>
    BY <1>1 DEF MInv, PhaseOK, InStep
<1>3. /\ Singly' /\ Accounted'
      /\ queue' \in Seq(Deliveries \cup Questions \cup Resets)
      /\ admitted' \subseteq Deliveries \cup Questions
      /\ answered' \subseteq Answers /\ dropped' \subseteq Deliveries
      /\ asking' \subseteq Questions
      /\ abortedBy' \subseteq Cancels \cup Resets \cup Stops
      /\ stepInput' \in Seq(Deliveries)
    BY <1>1, <1>2, SteeringMoves
<1>4. TypeOK'
    BY <1>1, <1>3 DEF MInv, TypeOK, Active, InStep
<1>5. PhaseOK'
    BY <1>1, <1>2 DEF PhaseOK, InStep
<1> QED
    BY <1>3, <1>4, <1>5 DEF MInv

LEMMA RouteToChildCounts == ASSUME MInv, routeToChild PROVE MInv'
<1> DEFINE d == Head(Unrouted)
<1>1. /\ pc = "routing" /\ Unrouted # <<>>
      /\ queue' = Without(queue, {d})
      /\ admitted' = admitted \ {d}
      /\ asking' = IF d \in Questions THEN asking \cup {d} ELSE asking \ {question[d]}
      /\ answered' = answered \cup ({d} \cap Answers)
      /\ IF d \in Stops THEN pc' = "waiting" /\ abortedBy' = abort(d)
         ELSE UNCHANGED <<pc, abortedBy>>
      /\ UNCHANGED <<inbox, draining, turn, steered, callVars, stepInput, history, dropped,
                     sent, muted, stops>>
    BY DEF routeToChild
<1>2. queue \in Seq(Deliveries \cup Questions \cup Resets) /\ Single(queue)
    BY DEF MInv, TypeOK, Singly
<1>3. d \in Questions \cup Answers
    <2> DEFINE F == {x \in admitted : ForChildren(x)}
    <2>1. Only(queue, F) \in Seq((Deliveries \cup Questions \cup Resets) \cap F)
        BY <1>2, MessagesPicked
    <2>2. F \subseteq Questions \cup Answers
        BY DEF ForChildren
    <2>3. Unrouted = Only(queue, F)
        BY DEF Unrouted
    <2> HIDE DEF F
    <2>4. Head(Unrouted) \in (Deliveries \cup Questions \cup Resets) \cap F
        BY <1>1, <2>1, <2>3, MessagesAtHead
    <2> QED
        BY <2>2, <2>4
<1> HIDE DEF d
<1>4. /\ queue' \in Seq(Deliveries \cup Questions \cup Resets) /\ Single(queue')
      /\ Members(queue') = Members(queue) \ {d}
    <2> DEFINE rest == Without(queue, {d})
    <2>1. /\ rest \in Seq((Deliveries \cup Questions \cup Resets) \ {d}) /\ Single(rest)
          /\ Members(rest) = Members(queue) \ {d}
        BY <1>2, MessagesDropped
    <2>2. (Deliveries \cup Questions \cup Resets) \ {d} \subseteq Deliveries \cup Questions \cup Resets
        OBVIOUS
    <2>3. queue' = rest
        BY <1>1
    <2> HIDE DEF rest
    <2> QED
        BY <2>1, <2>2, <2>3, Wider
<1>5. /\ pc' \in Active \cup {"parked", "ended"}
      /\ abortedBy' \subseteq Cancels \cup Resets \cup Stops
    BY <1>1 DEF MInv, TypeOK, abort, Active
<1>6. TypeOK'
    BY <1>1, <1>3, <1>4, <1>5 DEF MInv, TypeOK, callVars
<1>7. Singly'
    BY <1>1, <1>4 DEF MInv, Singly
<1>8. Accounted'
    <2> SUFFICES ASSUME NEW m \in Messages PROVE Count(m)' = Bit(m \in Members(sent'))
        BY DEF Accounted
    <2>1. m # d
        BY <1>3, Kinds
    <2>2. m \in Members(queue') <=> m \in Members(queue)
        BY <1>4, <2>1
    <2> QED
        BY <1>1, <2>2 DEF MInv, Accounted, Count, Bit
<1>9. PhaseOK'
    BY <1>1 DEF MInv, PhaseOK, callVars, InStep
<1> QED
    BY <1>6, <1>7, <1>8, <1>9 DEF MInv

(***************************************************************************)
(* Steps that move no delivery.                                            *)
(***************************************************************************)
LEMMA DispatchTypes ==
    ASSUME MInv, NEW failed \in SUBSET Calls, dispatchCoordination(failed)
    PROVE  TypeOK'
<1>1. outcome.calls \subseteq Calls
    <2>1. outcome \in Results /\ outcome.kind = "calls"
        BY DEF dispatchCoordination, MInv, TypeOK, PhaseOK
    <2> QED
        BY <2>1 DEF Results
<1> QED
    BY <1>1
       DEF dispatchCoordination, initialResults, MInv, TypeOK, inputVars, signalVars, recordVars,
           Active

LEMMA QuietCounts ==
    ASSUME MInv,
           \/ startsOutput \/ abandonWait \/ takeEvent \/ routed \/ settleCancelledTurn
           \/ \E failed \in SUBSET Calls : dispatchCoordination(failed)
    PROVE  MInv'
<1>1. CASE startsOutput
    <2>1. TypeOK'
        BY <1>1 DEF startsOutput, MInv, TypeOK, inputVars, signalVars, callVars, recordVars,
                    Active, InStep
    <2>2. PhaseOK'
        BY <1>1 DEF startsOutput, MInv, PhaseOK, inputVars, callVars, recordVars, InStep
    <2> QED
        BY <1>1, <2>1, <2>2, MessagesStay DEF startsOutput, MInv, inputVars, recordVars
<1>2. CASE abandonWait
    <2>1. TypeOK'
        BY <1>2 DEF abandonWait, MInv, TypeOK, inputVars, signalVars, callVars, recordVars, Active
    <2>2. PhaseOK'
        BY <1>2 DEF abandonWait, MInv, PhaseOK, inputVars, callVars, recordVars, InStep
    <2> QED
        BY <1>2, <2>1, <2>2, MessagesStay DEF abandonWait, MInv, inputVars, recordVars
<1>3. CASE takeEvent
    <2>1. TypeOK'
        <3>1. Tail(events) \in Seq(Calls) /\ results' \subseteq Calls
            BY <1>3, MessagesAtHead DEF takeEvent, MInv, TypeOK
        <3> QED
            BY <1>3, <3>1 DEF takeEvent, MInv, TypeOK, inputVars, signalVars, recordVars
    <2>2. PhaseOK'
        BY <1>3 DEF takeEvent, MInv, PhaseOK, inputVars, recordVars
    <2> QED
        BY <1>3, <2>1, <2>2, MessagesStay DEF takeEvent, MInv, inputVars, recordVars
<1>4. CASE routed
    <2>1. TypeOK'
        BY <1>4 DEF routed, MInv, TypeOK, inputVars, signalVars, callVars, recordVars, Active
    <2>2. PhaseOK'
        BY <1>4 DEF routed, MInv, PhaseOK, inputVars, callVars, recordVars, InStep
    <2> QED
        BY <1>4, <2>1, <2>2, MessagesStay DEF routed, MInv, inputVars, recordVars
<1>5. CASE settleCancelledTurn
    <2>1. TypeOK'
        BY <1>5, EmptySequence
           DEF settleCancelledTurn, abandonedHandles, MInv, TypeOK, signalVars
    <2>2. PhaseOK'
        BY <1>5 DEF settleCancelledTurn, MInv, PhaseOK, InStep
    <2> QED
        BY <1>5, <2>1, <2>2, MessagesStay DEF settleCancelledTurn, MInv
<1>6. ASSUME NEW failed \in SUBSET Calls, dispatchCoordination(failed) PROVE MInv'
    <2>1. PhaseOK'
        BY <1>6 DEF dispatchCoordination, MInv, PhaseOK, inputVars, recordVars, InStep
    <2> QED
        BY <1>6, <2>1, DispatchTypes, MessagesStay
           DEF dispatchCoordination, MInv, inputVars, recordVars
<1> QED
    BY <1>1, <1>2, <1>3, <1>4, <1>5, <1>6

LEMMA StepCounts == ASSUME MInv, [Next]_vars PROVE MInv'
<1>1. CASE UNCHANGED vars
    <2>1. TypeOK' /\ PhaseOK'
        BY <1>1 DEF vars, inputVars, signalVars, callVars, recordVars, MInv, TypeOK, PhaseOK
    <2> QED
        BY <1>1, <2>1, MessagesStay DEF vars, inputVars, recordVars, MInv
<1>2. ASSUME NEW p \in Commands, send(p) PROVE MInv'
    BY <1>2, SendCounts
<1>3. ASSUME NEW c \in Calls, report(c) PROVE MInv'
    BY <1>3, ReportCounts
<1>4. ASSUME NEW result \in StepReturns, turnStep(result) PROVE MInv'
    BY <1>4, TurnStepCounts
<1>5. CASE ownerStep
    BY <1>4, <1>5, TakeNextCounts, TakeResetCounts, ReadParkedCounts, AdmitBoundaryCounts,
       AdmitDrainedCounts, BoundaryCounts, ResumeCounts, ReadWaitingCounts, RouteToChildCounts,
       QuietCounts
       DEF ownerStep
<1> QED
    BY <1>1, <1>2, <1>3, <1>5 DEF Next

(* Every state of a session satisfies MInv: clients may send as they like, *)
(* and the turn may be stopped or corrected in any of its phases.          *)
THEOREM MessagesAreCounted == Spec => []MInv
<1>1. Init => MInv
    BY InitCounts
<1>2. MInv /\ [Next]_vars => MInv'
    BY StepCounts
<1> QED
    BY <1>1, <1>2, PTL DEF Spec

(* The state keeps its types.                                              *)
THEOREM TypeCorrect == Spec => []TypeOK
<1>1. MInv => TypeOK
    BY DEF MInv
<1> QED
    BY <1>1, MessagesAreCounted, PTL

(* A message a client sent is in exactly one place, once (turn.ts          *)
(* admitBoundary, takeSteering, routeAdmittedToChildren; next-input.ts).   *)
THEOREM NoMessageIsLostOrDoubled == Spec => []MessagesKept
<1>1. ASSUME MInv PROVE MessagesKept
    <2> SUFFICES ASSUME NEW m \in Messages
                 PROVE  Cardinality(Places(m)) = IF m \in Members(sent) THEN 1 ELSE 0
        BY DEF MessagesKept
    <2> DEFINE At(s) == {i \in DOMAIN s : s[i] = m}
               PlaceOf(name, s) == {<<name, i>> : i \in At(s)}
    <2>1. /\ inbox \in Seq(Payloads) /\ draining \in Seq(Payloads)
          /\ queue \in Seq(Deliveries \cup Questions \cup Resets)
          /\ stepInput \in Seq(Deliveries) /\ history \in Seq(Messages)
          /\ Single(inbox) /\ Single(draining) /\ Single(queue) /\ Single(stepInput) /\ Single(history)
        BY <1>1 DEF MInv, TypeOK, Singly
    <2>2. Count(m) = Bit(m \in Members(sent))
        BY <1>1 DEF MInv, Accounted
    <2>3. ASSUME NEW T, NEW s \in Seq(T), Single(s), NEW name
          PROVE  IF m \in Members(s) THEN \E i : PlaceOf(name, s) = {<<name, i>>}
                 ELSE PlaceOf(name, s) = {}
        <3>1. DOMAIN s = 1 .. Len(s)
            OBVIOUS
        <3>2. CASE m \in Members(s)
            <4>1. PICK i \in 1 .. Len(s) : s[i] = m
                BY <3>2 DEF Members
            <4>2. At(s) = {i}
                BY <2>3, <3>1, <4>1 DEF Single, Once
            <4> QED
                BY <3>2, <4>2
        <3>3. CASE m \notin Members(s)
            <4>1. At(s) = {}
                BY <3>1, <3>3 DEF Members
            <4> QED
                BY <3>3, <4>1
        <3> QED
            BY <3>2, <3>3
    <2> DEFINE D == {<<"dropped", 0>> : d \in dropped \cap {m}}
    <2>4. IF m \in dropped THEN D = {<<"dropped", 0>>} ELSE D = {}
        OBVIOUS
    <2>5. Places(m) = PlaceOf("inbox", inbox) \cup PlaceOf("draining", draining)
                        \cup PlaceOf("queue", queue) \cup PlaceOf("step", stepInput)
                        \cup PlaceOf("history", history) \cup D
        BY DEF Places
    <2> HIDE DEF PlaceOf, D, At
    <2>6. IF m \in Members(sent) THEN \E p : Places(m) = {p} ELSE Places(m) = {}
        <3>1. /\ IF m \in Members(inbox) THEN \E p : PlaceOf("inbox", inbox) = {p}
                 ELSE PlaceOf("inbox", inbox) = {}
              /\ IF m \in Members(draining) THEN \E p : PlaceOf("draining", draining) = {p}
                 ELSE PlaceOf("draining", draining) = {}
              /\ IF m \in Members(queue) THEN \E p : PlaceOf("queue", queue) = {p}
                 ELSE PlaceOf("queue", queue) = {}
              /\ IF m \in Members(stepInput) THEN \E p : PlaceOf("step", stepInput) = {p}
                 ELSE PlaceOf("step", stepInput) = {}
              /\ IF m \in Members(history) THEN \E p : PlaceOf("history", history) = {p}
                 ELSE PlaceOf("history", history) = {}
              /\ IF m \in dropped THEN \E p : D = {p} ELSE D = {}
            BY <2>1, <2>3, <2>4
        <3>2. CASE m \notin Members(sent)
            <4>1. /\ m \notin Members(inbox) /\ m \notin Members(draining)
                  /\ m \notin Members(queue) /\ m \notin Members(stepInput)
                  /\ m \notin Members(history) /\ m \notin dropped
                BY <2>2, <3>2 DEF Count, Bit
            <4> QED
                BY <2>5, <3>1, <3>2, <4>1
        <3>3. CASE m \in Members(sent)
            <4>1. \/ m \in Members(inbox) \/ m \in Members(draining) \/ m \in Members(queue)
                  \/ m \in Members(stepInput) \/ m \in Members(history) \/ m \in dropped
                BY <2>2, <3>3 DEF Count, Bit
            <4>2. /\ m \in Members(inbox) => /\ m \notin Members(draining)
                        /\ m \notin Members(queue) /\ m \notin Members(stepInput)
                        /\ m \notin Members(history) /\ m \notin dropped
                  /\ m \in Members(draining) => /\ m \notin Members(queue)
                        /\ m \notin Members(stepInput) /\ m \notin Members(history)
                        /\ m \notin dropped
                  /\ m \in Members(queue) => /\ m \notin Members(stepInput)
                        /\ m \notin Members(history) /\ m \notin dropped
                  /\ m \in Members(stepInput) => m \notin Members(history) /\ m \notin dropped
                  /\ m \in Members(history) => m \notin dropped
                BY <2>2, <3>3 DEF Count, Bit
            <4>3. \/ Places(m) = PlaceOf("inbox", inbox) /\ m \in Members(inbox)
                  \/ Places(m) = PlaceOf("draining", draining) /\ m \in Members(draining)
                  \/ Places(m) = PlaceOf("queue", queue) /\ m \in Members(queue)
                  \/ Places(m) = PlaceOf("step", stepInput) /\ m \in Members(stepInput)
                  \/ Places(m) = PlaceOf("history", history) /\ m \in Members(history)
                  \/ Places(m) = D /\ m \in dropped
                BY <2>5, <3>1, <4>1, <4>2
            <4> QED
                BY <3>1, <3>3, <4>3
        <3> QED
            BY <3>2, <3>3
    <2> QED
        BY <2>6, FS_EmptySet, FS_Singleton
<1> QED
    BY <1>1, MessagesAreCounted, PTL
============================================================================
