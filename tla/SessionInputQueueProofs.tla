---------------------- MODULE SessionInputQueueProofs ----------------------
(***************************************************************************)
(* Proofs about SessionInputQueue for every menu of inputs, any number of  *)
(* tasks, callers and attempts, and any bound on admissions.               *)
(***************************************************************************)
EXTENDS SessionInputQueue, WellFoundedInduction, TLAPS

(* Every nonempty set of numbers has a least element.                      *)
LEMMA LeastNumber ==
    ASSUME NEW T, T \subseteq Nat, T # {}
    PROVE  \E x \in T : \A y \in T : x <= y
<1>1. \E x \in T : \A y \in T : ~(<<y, x>> \in OpToRel(<, Nat))
  BY NatLessThanWellFounded, WFMin, Zenon
<1>2. \A x \in Nat, y \in Nat : y < x => <<y, x>> \in OpToRel(<, Nat)
  BY DEF OpToRel
<1>3. PICK x \in T : \A y \in T : ~(<<y, x>> \in OpToRel(<, Nat))
  BY <1>1
<1>4. \A y \in T : ~(y < x)
  BY <1>2, <1>3
<1>5. \A y \in T : x <= y
  BY <1>4
<1> QED
  BY <1>5

LEMMA SequencesAreNumbers == Sequences \subseteq Nat
  BY InputsAssumption DEF Sequences

LEMMA EntrySequence == \A e \in Entry : e.sequence \in Nat
  BY SequencesAreNumbers DEF Entry, DeliveryEntry, ControlEntry, AuthorizationEntry

(* The head of a nonempty queue is one of its entries.                     *)
LEMMA FirstIsMember ==
    ASSUME NEW E \in SUBSET Entry, E # {}
    PROVE  First(E) \in E
<1> DEFINE T == {e.sequence : e \in E}
<1>1. T \subseteq Nat /\ T # {}
  BY EntrySequence
<1>2. PICK m \in T : \A y \in T : m <= y
  BY <1>1, LeastNumber
<1>3. PICK e \in E : e.sequence = m
  BY <1>2
<1>4. \A x \in E : e.sequence <= x.sequence
  BY <1>2, <1>3
<1> QED
  BY <1>4 DEF First

(* Whatever is selected comes from the queue, and a resume carries         *)
(* authorization entries only.                                             *)
LEMMA SelectedFromQueue ==
    ASSUME NEW E \in SUBSET Entry, NEW fresh, Select(E, fresh) # NoSelection
    PROVE  /\ Select(E, fresh).kind \in {"turn", "control", "authorization-resume"}
           /\ Select(E, fresh).members \subseteq E
           /\ Select(E, fresh).kind = "authorization-resume" =>
                 \A m \in Select(E, fresh).members : m.kind = "authorization"
           /\ Select(E, fresh).kind = "turn" =>
                 \A m \in Select(E, fresh).members : IsDelivery(m)
<1> DEFINE callbacks == {e \in E : e.kind = "authorization"}
<1> DEFINE first == First(Actionable(E))
<1>1. ASSUME NEW e \in E
      PROVE  /\ takeSelectionAt(E, e, fresh).kind \in {"turn", "control", "authorization-resume"}
             /\ takeSelectionAt(E, e, fresh).members \subseteq E
             /\ takeSelectionAt(E, e, fresh).kind = "authorization-resume" =>
                   \A m \in takeSelectionAt(E, e, fresh).members : m.kind = "authorization"
             /\ takeSelectionAt(E, e, fresh).kind = "turn" =>
                   \A m \in takeSelectionAt(E, e, fresh).members : IsDelivery(m)
  <2>1. e.kind \in {"control", "authorization", "delivery"}
    BY DEF Entry, DeliveryEntry, ControlEntry, AuthorizationEntry
  <2>2. CASE e.kind = "control"
    <3>1. takeSelectionAt(E, e, fresh) =
            [kind |-> "control", members |-> {e}, control |-> e.control]
      BY <2>2 DEF takeSelectionAt
    <3> QED BY <3>1
  <2>3. CASE e.kind = "authorization"
    <3>1. takeSelectionAt(E, e, fresh) = [kind |-> "authorization-resume", members |-> {e}]
      BY <2>3 DEF takeSelectionAt
    <3> QED BY <3>1, <2>3
  <2>4. CASE e.kind = "delivery"
    <3>1. takeSelectionAt(E, e, fresh) = turnSelection(E, e, fresh)
      BY <2>4 DEF takeSelectionAt
    <3>2. /\ turnSelection(E, e, fresh).kind = "turn"
          /\ turnSelection(E, e, fresh).members = TurnEntries(E, e)
      BY DEF turnSelection
    <3>3. TurnEntries(E, e) \subseteq E
      BY DEF TurnEntries, Siblings, Batch
    <3>4. \A m \in TurnEntries(E, e) : IsDelivery(m)
      <4>1. CASE CohortOf(e) # NoTask
        BY <4>1 DEF TurnEntries, Siblings, CohortOf
      <4>2. CASE CohortOf(e) = NoTask
        <5>1. \A m \in Batch(E, e) : m = e \/ Coalesces(e, m)
          BY EntrySequence DEF Batch
        <5> QED BY <2>4, <4>2, <5>1 DEF TurnEntries, Coalesces, IsDelivery
      <4> QED BY <4>1, <4>2
    <3> QED BY <3>1, <3>2, <3>3, <3>4
  <2> QED BY <2>1, <2>2, <2>3, <2>4
<1>2. CASE expected # {} /\ \A a \in expected : \E e \in callbacks : e.attempt = a
  <2>1. Select(E, fresh) = [kind |-> "authorization-resume", members |-> callbacks]
    BY <1>2 DEF Select
  <2> QED BY <2>1
<1>3. CASE ~(expected # {} /\ \A a \in expected : \E e \in callbacks : e.attempt = a)
  <2>1. Actionable(E) # {}
    BY <1>3 DEF Select
  <2>2. first \in E
    <3>1. Actionable(E) \in SUBSET Entry /\ Actionable(E) \subseteq E
      BY DEF Actionable
    <3> QED BY <2>1, <3>1, FirstIsMember
  <2>3. CASE IsDelivery(first) /\ Boundary(E, first) # {}
    <3>1. Boundary(E, first) \in SUBSET Entry /\ Boundary(E, first) \subseteq E
      BY DEF Boundary
    <3>2. First(Boundary(E, first)) \in E
      BY <2>3, <3>1, FirstIsMember
    <3>3. Select(E, fresh) = takeSelectionAt(E, First(Boundary(E, first)), fresh)
      BY <1>3, <2>1, <2>3 DEF Select
    <3> QED BY <1>1, <3>2, <3>3
  <2>4. CASE ~(IsDelivery(first) /\ Boundary(E, first) # {})
    <3>1. Select(E, fresh) = takeSelectionAt(E, first, fresh)
      BY <1>3, <2>1, <2>4 DEF Select
    <3> QED BY <1>1, <2>2, <3>1
  <2> QED BY <2>3, <2>4
<1> QED BY <1>2, <1>3

(***************************************************************************)
(* The inductive invariant.  CancelledTaskSilent speaks of the selection   *)
(* only; what makes it hold is that the queue itself keeps nothing of a    *)
(* cancelled task, which enqueueDelivery and cancelTask share.             *)
(***************************************************************************)
QueueTypeOK ==
    /\ entries \in SUBSET Entry
    /\ cancelledTaskIds \in SUBSET Tasks
    /\ seenTaskDeliveryIds \in SUBSET DeliveryId
    /\ nextSequence \in 0 .. MaxSequence + 1

OwnerTypeOK ==
    /\ cohortOf \in [Tasks -> Tasks \cup {NoTask}]
    /\ settled \in SUBSET Tasks
    /\ owner \in {"parked", "turn", "ended"}
    /\ turnCaller \in Caller \cup {NoCaller}
    /\ admitted \in SUBSET Sequences
    /\ expected \in SUBSET Attempts
    /\ freshSequence \in Sequences \cup {NoFresh}
    /\ handed \in SUBSET Sequences

NothingQueuedOfCancelled ==
    \A e \in entries : IsDelivery(e) =>
        \A t \in cancelledTaskIds : ~isTaskDelivery(e.delivery, t)

IInv == TypeOK /\ OneOpenCohort /\ NothingQueuedOfCancelled
               /\ CancelledTaskSilent /\ ResumeOnlyExpected

LEMMA EntryKinds ==
    /\ \A e \in Entry : IsDelivery(e) => e \in DeliveryEntry
    /\ \A e \in Entry : e.kind = "authorization" => e \in AuthorizationEntry
BY DEF Entry, DeliveryEntry, ControlEntry, AuthorizationEntry, IsDelivery

LEMMA InputIsDelivery ==
    \A d \in Inputs : /\ d.notice \in Notice \cup {NoNotice}
                      /\ d.caller \in Caller \cup {NoCaller}
BY InputsAssumption DEF Delivery

(* The ids a delivery is deduplicated by are ids of tasks.                 *)
LEMMA DeduplicationIds == \A d \in Inputs : deduplicationId(d) \in SUBSET DeliveryId
<1> SUFFICES ASSUME NEW d \in Inputs PROVE deduplicationId(d) \in SUBSET DeliveryId
  OBVIOUS
<1> USE InputIsDelivery
<1>1. taskDeliveryId(d) \in SUBSET DeliveryId
  <2>1. CASE d.notice # NoNotice
    <3>1. d.notice.task \in Tasks /\ d.notice.phase \in Phases
      BY <2>1 DEF Notice
    <3> QED BY <2>1, <3>1 DEF taskDeliveryId, DeliveryId
  <2>2. CASE d.notice = NoNotice /\ d.caller # NoCaller
    <3>1. d.caller.task \in Tasks \cup {NoTask}
      BY <2>2 DEF Caller
    <3>2. taskDeliveryId(d) = {[task |-> t, phase |-> "self"] : t \in {d.caller.task} \ {NoTask}}
      BY <2>2 DEF taskDeliveryId
    <3> QED BY <3>1, <3>2 DEF DeliveryId
  <2>3. CASE d.notice = NoNotice /\ d.caller = NoCaller
    BY <2>3 DEF taskDeliveryId
  <2> QED BY <2>1, <2>2, <2>3
<1>2. CASE terminalTaskId(d) = NoTask
  BY <1>1, <1>2 DEF deduplicationId
<1>3. CASE terminalTaskId(d) # NoTask
  <2>1. d.notice # NoNotice /\ terminalTaskId(d) = d.notice.task
    BY <1>3 DEF terminalTaskId
  <2>2. terminalTaskId(d) \in Tasks
    BY <2>1 DEF Notice
  <2> QED BY <1>3, <2>2 DEF deduplicationId, DeliveryId
<1> QED BY <1>2, <1>3

(* Admitting a delivery to a part of the queue.                            *)
LEMMA AdmitsDelivery ==
    ASSUME QueueTypeOK, NothingQueuedOfCancelled, HasRoom,
           NEW E \in SUBSET entries, NEW d \in Inputs, enqueueDelivery(E, d)
    PROVE  QueueTypeOK' /\ NothingQueuedOfCancelled'
<1> USE InputsAssumption DEF QueueTypeOK, HasRoom
<1>1. CASE Refused(d)
  BY <1>1 DEF enqueueDelivery, NothingQueuedOfCancelled, IsDelivery, isTaskDelivery, taskDeliveryId
<1>2. CASE ~Refused(d)
  <2> DEFINE new == [kind |-> "delivery", sequence |-> nextSequence, delivery |-> d]
  <2>1. /\ entries' = E \cup {new}
        /\ seenTaskDeliveryIds' = seenTaskDeliveryIds \cup deduplicationId(d)
        /\ nextSequence' = nextSequence + 1
        /\ cancelledTaskIds' = cancelledTaskIds
    BY <1>2 DEF enqueueDelivery
  <2>2. nextSequence \in Sequences
    BY DEF Sequences
  <2>3. new \in Entry
    BY <2>2 DEF Entry, DeliveryEntry
  <2>4. QueueTypeOK'
    BY <2>1, <2>2, <2>3, DeduplicationIds DEF Sequences
  <2>5. \A t \in cancelledTaskIds : ~isTaskDelivery(new.delivery, t)
    BY <1>2 DEF Refused
  <2>6. NothingQueuedOfCancelled'
    <3>1. \A e \in E : IsDelivery(e) =>
              \A t \in cancelledTaskIds : ~isTaskDelivery(e.delivery, t)
      BY DEF NothingQueuedOfCancelled
    <3>2. \A e \in E \cup {new} : IsDelivery(e) =>
              \A t \in cancelledTaskIds : ~isTaskDelivery(e.delivery, t)
      BY <2>5, <3>1
    <3> QED BY <2>1, <3>2 DEF NothingQueuedOfCancelled, IsDelivery, isTaskDelivery, taskDeliveryId
  <2> QED BY <2>4, <2>6
<1> QED BY <1>1, <1>2

(* Admitting a control or an authorization callback.                       *)
LEMMA AdmitsOther ==
    ASSUME QueueTypeOK, NothingQueuedOfCancelled, HasRoom, NEW E \in SUBSET entries,
           \/ \E c \in Commands : enqueueControl(E, c)
           \/ \E a \in Attempts : enqueueAuthorization(E, a)
    PROVE  QueueTypeOK' /\ NothingQueuedOfCancelled'
<1> USE InputsAssumption DEF QueueTypeOK, HasRoom
<1>1. nextSequence \in Sequences
  BY DEF Sequences
<1>2. PICK new \in ControlEntry \cup AuthorizationEntry :
         /\ entries' = E \/ entries' = E \cup {new}
         /\ nextSequence' \in {nextSequence, nextSequence + 1}
         /\ UNCHANGED <<cancelledTaskIds, seenTaskDeliveryIds>>
  <2>1. CASE \E c \in Commands : enqueueControl(E, c)
    <3>1. PICK c \in Commands : enqueueControl(E, c)
      BY <2>1
    <3>2. [kind |-> "control", sequence |-> nextSequence, control |-> c] \in ControlEntry
      BY <1>1 DEF ControlEntry
    <3> QED BY <3>1, <3>2 DEF enqueueControl
  <2>2. CASE \E a \in Attempts : enqueueAuthorization(E, a)
    <3>1. PICK a \in Attempts : enqueueAuthorization(E, a)
      BY <2>2
    <3>2. [kind |-> "authorization", sequence |-> nextSequence, attempt |-> a]
             \in AuthorizationEntry
      BY <1>1 DEF AuthorizationEntry
    <3> QED BY <3>1, <3>2 DEF enqueueAuthorization
  <2> QED BY <2>1, <2>2
<1>3. ~IsDelivery(new)
  BY <1>2 DEF ControlEntry, AuthorizationEntry, IsDelivery
<1>4. QueueTypeOK'
  BY <1>1, <1>2 DEF Entry, Sequences
<1>5. NothingQueuedOfCancelled'
  BY <1>2, <1>3 DEF NothingQueuedOfCancelled, IsDelivery, isTaskDelivery, taskDeliveryId
<1> QED BY <1>4, <1>5

(* Cancelling a task.                                                      *)
LEMMA Cancels ==
    ASSUME QueueTypeOK, NothingQueuedOfCancelled, NEW E \in SUBSET entries,
           NEW t \in Cancellable, cancelTask(E, t)
    PROVE  QueueTypeOK' /\ NothingQueuedOfCancelled'
<1>1. QueueTypeOK'
  BY InputsAssumption DEF QueueTypeOK, cancelTask
<1>2. NothingQueuedOfCancelled'
  BY DEF NothingQueuedOfCancelled, cancelTask, IsDelivery, isTaskDelivery, taskDeliveryId
<1> QED BY <1>1, <1>2

(* A run that was open stays in its cohort; outcomes only close runs.      *)
LEMMA OpenCohortKept ==
    ASSUME OneOpenCohort, UNCHANGED cohortOf, settled \subseteq settled'
    PROVE  OneOpenCohort'
BY DEF OneOpenCohort, pendingRuns

(* Steps that hand nothing over.                                           *)
LEMMA NothingHandedOver ==
    ASSUME selection' = NoSelection, QueueTypeOK', OwnerTypeOK', OneOpenCohort',
           NothingQueuedOfCancelled'
    PROVE  IInv'
BY DEF IInv, TypeOK, QueueTypeOK, OwnerTypeOK, CancelledTaskSilent, ResumeOnlyExpected,
       NoSelection

LEMMA RoutedIsQueued ==
    /\ Routed \in SUBSET entries
    /\ \A e \in Routed : e.kind = "authorization" => e.attempt \in expected
BY DEF Routed, dropStale, AfterRouting

LEMMA SettledTasks == \A R : SettledBy(R) \in SUBSET Tasks
BY DEF SettledBy

LEMMA InitEstablishes == Init => IInv
<1> SUFFICES ASSUME Init PROVE IInv
  OBVIOUS
<1> USE InputsAssumption DEF Init
<1>1. turnCaller \in Caller \cup {NoCaller}
  BY InputIsDelivery DEF CallersOf
<1>2. seenTaskDeliveryIds \in SUBSET DeliveryId
  <2>1. CASE turnCaller = NoCaller
    BY <2>1
  <2>2. CASE turnCaller # NoCaller
    <3>1. turnCaller.task \in Tasks \cup {NoTask}
      BY <1>1, <2>2 DEF Caller
    <3>2. seenTaskDeliveryIds = {[task |-> t, phase |-> "self"] : t \in {turnCaller.task} \ {NoTask}}
      BY <2>2
    <3> QED BY <3>1, <3>2 DEF DeliveryId
  <2> QED BY <2>1, <2>2
<1>3. TypeOK
  BY <1>1, <1>2, IdsAssumption DEF TypeOK, NoFresh, NoSelection
<1>4. pendingRuns = {}
  BY IdsAssumption DEF pendingRuns
<1> QED
  BY <1>3, <1>4 DEF IInv, OneOpenCohort, NothingQueuedOfCancelled, CancelledTaskSilent,
     ResumeOnlyExpected, NoSelection

(* The parked owner admits one payload.                                    *)
LEMMA WaitingKeeps ==
    ASSUME IInv, Waiting, QueueTypeOK', NothingQueuedOfCancelled',
           freshSequence' \in Sequences \cup {NoFresh}
    PROVE  IInv'
<1>1. OwnerTypeOK'
  BY SettledTasks DEF IInv, TypeOK, OwnerTypeOK, Waiting, NoFresh
<1>2. OneOpenCohort'
  BY OpenCohortKept DEF IInv, Waiting
<1>3. selection' = NoSelection
  BY DEF Waiting
<1> QED BY <1>1, <1>2, <1>3, NothingHandedOver

LEMMA ParkedAdmission ==
    ASSUME IInv,
           \/ \E d \in Inputs : ParkedDelivery(d)
           \/ \E c \in Commands : ParkedControl(c)
           \/ \E a \in Attempts : ParkedAuthorization(a)
           \/ \E t \in Cancellable : ParkedCancelTask(t)
    PROVE  IInv'
<1> USE RoutedIsQueued
<1>0. QueueTypeOK /\ NothingQueuedOfCancelled
  BY DEF IInv, TypeOK, QueueTypeOK
<1>1. CASE \E d \in Inputs : ParkedDelivery(d)
  <2>1. PICK d \in Inputs : ParkedDelivery(d)
    BY <1>1
  <2>2. HasRoom /\ Waiting /\ enqueueDelivery(Routed, d)
    BY <2>1 DEF ParkedDelivery
  <2>3. QueueTypeOK' /\ NothingQueuedOfCancelled'
    BY <1>0, <2>2, AdmitsDelivery
  <2>4. freshSequence' \in Sequences \cup {NoFresh}
    BY <1>0, <2>1, <2>2, InputsAssumption
       DEF ParkedDelivery, QueueTypeOK, HasRoom, Sequences, NoFresh
  <2> QED BY <2>2, <2>3, <2>4, WaitingKeeps
<1>2. CASE \/ \E c \in Commands : ParkedControl(c)
           \/ \E a \in Attempts : ParkedAuthorization(a)
  <2>1. /\ HasRoom /\ Waiting /\ freshSequence' = NoFresh
        /\ \/ \E c \in Commands : enqueueControl(Routed, c)
           \/ \E a \in Attempts : enqueueAuthorization(Routed, a)
    BY <1>2 DEF ParkedControl, ParkedAuthorization
  <2>2. QueueTypeOK' /\ NothingQueuedOfCancelled'
    BY <1>0, <2>1, AdmitsOther
  <2> QED BY <2>1, <2>2, WaitingKeeps
<1>3. CASE \E t \in Cancellable : ParkedCancelTask(t)
  <2>1. PICK t \in Cancellable : ParkedCancelTask(t)
    BY <1>3
  <2>2. Waiting /\ cancelTask(Routed, t) /\ freshSequence' = NoFresh
    BY <2>1 DEF ParkedCancelTask
  <2>3. QueueTypeOK' /\ NothingQueuedOfCancelled'
    BY <1>0, <2>2, Cancels
  <2> QED BY <2>2, <2>3, WaitingKeeps
<1> QED BY <1>1, <1>2, <1>3

(* The active turn admits one payload.                                     *)
LEMMA TurnAdmission ==
    ASSUME IInv,
           \/ \E d \in Inputs : TurnDelivery(d)
           \/ \E c \in Commands : TurnControl(c)
           \/ \E a \in Attempts : TurnAuthorization(a)
           \/ \E t \in Cancellable : TurnCancelTask(t)
    PROVE  IInv'
<1>0. QueueTypeOK /\ NothingQueuedOfCancelled /\ OwnerTypeOK /\ OneOpenCohort
  BY DEF IInv, TypeOK, QueueTypeOK, OwnerTypeOK
<1>1. QueueTypeOK' /\ NothingQueuedOfCancelled'
  <2>1. CASE \E d \in Inputs : TurnDelivery(d)
    BY <1>0, <2>1, AdmitsDelivery DEF TurnDelivery
  <2>2. CASE (\E c \in Commands : TurnControl(c)) \/ (\E a \in Attempts : TurnAuthorization(a))
    <3>1. /\ HasRoom
          /\ \/ \E c \in Commands : enqueueControl(entries, c)
             \/ \E a \in Attempts : enqueueAuthorization(entries, a)
      BY <2>2 DEF TurnControl, TurnAuthorization
    <3> QED BY <1>0, <3>1, AdmitsOther
  <2>3. CASE \E t \in Cancellable : TurnCancelTask(t)
    BY <1>0, <2>3, Cancels DEF TurnCancelTask
  <2> QED BY <2>1, <2>2, <2>3
<1>2. InTurn /\ UNCHANGED registryVars /\ UNCHANGED handed
  BY DEF TurnDelivery, TurnControl, TurnAuthorization, TurnCancelTask, Admits
<1>3. admitted' \in SUBSET Sequences
  <2>1. CASE UNCHANGED admitted
    BY <1>0, <2>1 DEF OwnerTypeOK
  <2>2. CASE admitted' = admitted \cup (nextSequence .. nextSequence' - 1)
    <3>1. /\ nextSequence \in Nat /\ nextSequence' \in Nat
          /\ nextSequence' <= MaxSequence + 1 /\ MaxSequence \in Nat
      BY <1>0, <1>1, InputsAssumption DEF QueueTypeOK
    <3>2. \A n, m \in Nat : m <= MaxSequence + 1 => (n .. m - 1) \subseteq 0 .. MaxSequence
      BY <3>1
    <3>3. (nextSequence .. nextSequence' - 1) \subseteq 0 .. MaxSequence
      BY <3>1, <3>2
    <3> QED BY <1>0, <2>2, <3>3 DEF OwnerTypeOK, Sequences
  <2> QED
    BY <2>1, <2>2 DEF TurnDelivery, TurnControl, TurnAuthorization, TurnCancelTask, Admits
<1>4. OwnerTypeOK'
  BY <1>0, <1>2, <1>3 DEF OwnerTypeOK, InTurn, registryVars, NoFresh
<1>5. OneOpenCohort'
  BY <1>0, <1>2, OpenCohortKept DEF registryVars
<1> QED BY <1>1, <1>2, <1>4, <1>5, NothingHandedOver DEF InTurn

(* Removing entries keeps what the queue satisfies.                        *)
LEMMA Shrinks ==
    ASSUME QueueTypeOK, NothingQueuedOfCancelled, entries' \subseteq entries,
           UNCHANGED <<cancelledTaskIds, seenTaskDeliveryIds, nextSequence>>
    PROVE  QueueTypeOK' /\ NothingQueuedOfCancelled'
BY DEF QueueTypeOK, NothingQueuedOfCancelled, IsDelivery, isTaskDelivery, taskDeliveryId

(* Handing entries over keeps the invariant when they come from the queue. *)
LEMMA HandsOver ==
    ASSUME IInv, QueueTypeOK', NothingQueuedOfCancelled', OwnerTypeOK', OneOpenCohort',
           UNCHANGED <<cancelledTaskIds, expected>>,
           selection'.kind \in {"turn", "control", "authorization-resume"},
           selection'.members \subseteq entries,
           selection'.kind = "authorization-resume" =>
              \A m \in selection'.members : m.attempt \in expected
    PROVE  IInv'
<1>1. TypeOK'
  BY DEF IInv, TypeOK, QueueTypeOK, OwnerTypeOK
<1>2. CancelledTaskSilent'
  BY DEF IInv, NothingQueuedOfCancelled, CancelledTaskSilent, IsDelivery, isTaskDelivery,
     taskDeliveryId
<1>3. ResumeOnlyExpected'
  BY DEF ResumeOnlyExpected
<1> QED BY <1>1, <1>2, <1>3 DEF IInv

LEMMA TakesNext ==
    ASSUME IInv, NEW p \in BOOLEAN, NEW c \in BOOLEAN, TakeNext(p, c)
    PROVE  IInv'
<1> DEFINE chosen == Select(Routed, IF p THEN NoFresh ELSE freshSequence)
<1> DEFINE callers == IF chosen.kind = "turn" THEN CallersOf(chosen.members) ELSE {}
<1>0. QueueTypeOK /\ NothingQueuedOfCancelled /\ OwnerTypeOK /\ OneOpenCohort
  BY DEF IInv, TypeOK, QueueTypeOK, OwnerTypeOK
<1>1. /\ chosen # NoSelection
      /\ entries' = Routed \ chosen.members
      /\ settled' = settled \cup SettledBy(entries)
      /\ selection' = chosen
      /\ handed' = handed \cup {m.sequence : m \in chosen.members}
      /\ owner' \in {"parked", "turn", "ended"}
      /\ turnCaller' = IF callers = {} \/ c THEN NoCaller ELSE CHOOSE x \in callers : TRUE
      /\ freshSequence' = IF c THEN freshSequence ELSE NoFresh
      /\ UNCHANGED <<cancelledTaskIds, seenTaskDeliveryIds, nextSequence, cohortOf,
                     admitted, expected>>
  BY DEF TakeNext
<1>2. Routed \in SUBSET Entry
  BY <1>0, RoutedIsQueued DEF QueueTypeOK
<1>3. /\ chosen.kind \in {"turn", "control", "authorization-resume"}
      /\ chosen.members \subseteq Routed
      /\ chosen.kind = "authorization-resume" =>
            \A m \in chosen.members : m.kind = "authorization"
      /\ chosen.kind = "turn" => \A m \in chosen.members : IsDelivery(m)
  <2> HIDE DEF chosen
  <2>1. chosen = Select(Routed, IF p THEN NoFresh ELSE freshSequence)
    BY DEF chosen
  <2> QED BY <1>1, <1>2, <2>1, SelectedFromQueue
<1> HIDE DEF chosen
<1>4. chosen.members \subseteq Entry
  BY <1>2, <1>3
<1>5. QueueTypeOK' /\ NothingQueuedOfCancelled'
  BY <1>0, <1>1, RoutedIsQueued, Shrinks
<1>6. turnCaller' \in Caller \cup {NoCaller}
  <2>1. \A m \in Entry : IsDelivery(m) => m.delivery.caller \in Caller \cup {NoCaller}
    BY EntryKinds, InputIsDelivery DEF DeliveryEntry
  <2>2. callers \subseteq Caller
    BY <1>3, <1>4, <2>1 DEF CallersOf
  <2> HIDE DEF callers
  <2> QED BY <1>1, <2>2
<1>7. OwnerTypeOK'
  <2>1. {m.sequence : m \in chosen.members} \subseteq Sequences
    BY <1>4 DEF Entry, DeliveryEntry, ControlEntry, AuthorizationEntry
  <2> HIDE DEF callers
  <2> QED BY <1>0, <1>1, <1>6, <2>1, SettledTasks DEF OwnerTypeOK, NoFresh
<1>8. OneOpenCohort'
  BY <1>0, <1>1, OpenCohortKept
<1>9. \A m \in chosen.members : m.kind = "authorization" => m.attempt \in expected
  BY <1>3, RoutedIsQueued
<1> HIDE DEF callers
<1> QED
  BY <1>1, <1>3, <1>5, <1>7, <1>8, <1>9, RoutedIsQueued, HandsOver

LEMMA Steers == ASSUME IInv, TakeSteering PROVE IInv'
<1> DEFINE steering == {e \in entries : /\ IsDelivery(e)
                                        /\ e.sequence \in admitted
                                        /\ isSteeringDelivery(e.delivery)}
<1>0. QueueTypeOK /\ NothingQueuedOfCancelled /\ OwnerTypeOK /\ OneOpenCohort
  BY DEF IInv, TypeOK, QueueTypeOK, OwnerTypeOK
<1>1. /\ entries' = entries \ steering
      /\ admitted' = admitted \ {e.sequence : e \in steering}
      /\ selection' = [kind |-> "turn", members |-> steering, handoffEligible |-> FALSE]
      /\ handed' = handed \cup {e.sequence : e \in steering}
      /\ owner' \in {owner, "ended"}
      /\ UNCHANGED <<cancelledTaskIds, seenTaskDeliveryIds, nextSequence, registryVars,
                     turnCaller, expected, freshSequence>>
  BY DEF TakeSteering
<1>2. steering \subseteq entries
  OBVIOUS
<1> HIDE DEF steering
<1>3. QueueTypeOK' /\ NothingQueuedOfCancelled'
  BY <1>0, <1>1, Shrinks
<1>4. OwnerTypeOK'
  <2>1. {e.sequence : e \in steering} \subseteq Sequences
    BY <1>0, <1>2 DEF QueueTypeOK, Entry, DeliveryEntry, ControlEntry, AuthorizationEntry
  <2> QED BY <1>0, <1>1, <2>1 DEF OwnerTypeOK, registryVars, NoFresh
<1>5. OneOpenCohort'
  BY <1>0, <1>1, OpenCohortKept DEF registryVars
<1> QED
  BY <1>1, <1>2, <1>3, <1>4, <1>5, HandsOver

LEMMA Routes ==
    ASSUME IInv, NEW answers \in SUBSET Ordinaries(entries), routeAdmittedToChildren(answers)
    PROVE  IInv'
<1> DEFINE routed == {e \in entries : e.sequence \in admitted}
<1>0. QueueTypeOK /\ NothingQueuedOfCancelled /\ OwnerTypeOK /\ OneOpenCohort
  BY DEF IInv, TypeOK, QueueTypeOK, OwnerTypeOK
<1>1. /\ InTurn
      /\ settled' = settled \cup SettledBy(routed)
      /\ entries' = AfterRouting(entries, routed) \ answers
      /\ handed' = handed \cup {e.sequence : e \in answers}
      /\ UNCHANGED <<cancelledTaskIds, seenTaskDeliveryIds, nextSequence, admitted,
                     cohortOf>>
  BY DEF routeAdmittedToChildren
<1> HIDE DEF routed
<1>2. QueueTypeOK' /\ NothingQueuedOfCancelled'
  BY <1>0, <1>1, Shrinks DEF AfterRouting
<1>3. OwnerTypeOK'
  <2>1. {e.sequence : e \in answers} \subseteq Sequences
    BY <1>0 DEF Ordinaries, QueueTypeOK, Entry, DeliveryEntry, ControlEntry, AuthorizationEntry
  <2> QED BY <1>0, <1>1, <2>1, SettledTasks DEF OwnerTypeOK, InTurn, NoFresh
<1>4. OneOpenCohort'
  BY <1>0, <1>1, OpenCohortKept
<1> QED BY <1>1, <1>2, <1>3, <1>4, NothingHandedOver DEF InTurn

(* A new run joins the only open cohort, or opens one when none is open.   *)
LEMMA Registers ==
    ASSUME IInv, NEW t \in Registrable, registerWorkflowToolRun(t)
    PROVE  IInv'
<1>0. QueueTypeOK /\ NothingQueuedOfCancelled /\ OwnerTypeOK /\ OneOpenCohort
  BY DEF IInv, TypeOK, QueueTypeOK, OwnerTypeOK
<1>1. t \in Tasks
  BY InputsAssumption
<1>2. InTurn /\ UNCHANGED <<queueVars, settled, admitted, handed>>
  BY DEF registerWorkflowToolRun, cohortsToJoin
<1>3. QueueTypeOK' /\ NothingQueuedOfCancelled'
  BY <1>0, <1>2, Shrinks DEF queueVars
<1>4. PICK c \in Tasks :
         /\ cohortOf' = [cohortOf EXCEPT ![t] = c]
         /\ \A u \in pendingRuns : cohortOf[u] = c
  <2>1. CASE pendingRuns = {} /\ cohortOf' = [cohortOf EXCEPT ![t] = t]
    BY <1>1, <2>1
  <2>2. CASE \E p \in pendingRuns : cohortOf' = [cohortOf EXCEPT ![t] = cohortOf[p]]
    <3>1. PICK p \in pendingRuns : cohortOf' = [cohortOf EXCEPT ![t] = cohortOf[p]]
      BY <2>2
    <3>2. cohortOf[p] \in Tasks
      BY <1>0 DEF pendingRuns, OwnerTypeOK
    <3>3. \A u \in pendingRuns : cohortOf[u] = cohortOf[p]
      BY <1>0 DEF OneOpenCohort
    <3> QED BY <3>1, <3>2, <3>3
  <2> QED BY <2>1, <2>2, ZenonT(60) DEF registerWorkflowToolRun, cohortsToJoin
<1>5. OwnerTypeOK'
  BY <1>0, <1>1, <1>2, <1>4 DEF OwnerTypeOK, InTurn, NoFresh
<1>6. \A u \in Tasks : cohortOf'[u] # NoTask /\ u \notin settled => cohortOf'[u] = c
  BY <1>0, <1>1, <1>4 DEF OwnerTypeOK, pendingRuns
<1>7. OneOpenCohort'
  BY <1>2, <1>6 DEF OneOpenCohort, pendingRuns
<1> QED BY <1>2, <1>3, <1>5, <1>7, NothingHandedOver DEF InTurn

LEMMA CancelsSome ==
    ASSUME IInv, NEW tasks \in SUBSET pendingRuns, executeTaskControlAction(tasks)
    PROVE  IInv'
<1>0. QueueTypeOK /\ NothingQueuedOfCancelled /\ OwnerTypeOK /\ OneOpenCohort
  BY DEF IInv, TypeOK, QueueTypeOK, OwnerTypeOK
<1>1. /\ InTurn
      /\ settled' = settled \cup tasks
      /\ tasks \subseteq Tasks
      /\ UNCHANGED <<queueVars, cohortOf, admitted, handed>>
  BY DEF executeTaskControlAction, pendingRuns
<1>2. QueueTypeOK' /\ NothingQueuedOfCancelled'
  BY <1>0, <1>1, Shrinks DEF queueVars
<1>3. OwnerTypeOK'
  BY <1>0, <1>1 DEF OwnerTypeOK, InTurn, NoFresh
<1>4. OneOpenCohort'
  BY <1>0, <1>1, OpenCohortKept
<1> QED BY <1>1, <1>2, <1>3, <1>4, NothingHandedOver DEF InTurn

LEMMA CancelsAll == ASSUME IInv, cancelAllIndexedSessionTasks PROVE IInv'
<1>0. QueueTypeOK /\ NothingQueuedOfCancelled /\ OwnerTypeOK /\ OneOpenCohort
  BY DEF IInv, TypeOK, QueueTypeOK, OwnerTypeOK
<1>1. /\ settled' = settled \cup {t \in Tasks : cohortOf[t] # NoTask}
      /\ selection' = NoSelection
      /\ freshSequence' = NoFresh
      /\ UNCHANGED <<queueVars, cohortOf, owner, turnCaller, admitted, expected, handed>>
  BY DEF cancelAllIndexedSessionTasks
<1>2. QueueTypeOK' /\ NothingQueuedOfCancelled'
  BY <1>0, <1>1, Shrinks DEF queueVars
<1>3. OwnerTypeOK'
  BY <1>0, <1>1 DEF OwnerTypeOK, NoFresh
<1>4. OneOpenCohort'
  BY <1>0, <1>1, OpenCohortKept
<1> QED BY <1>1, <1>2, <1>3, <1>4, NothingHandedOver

LEMMA Ends == ASSUME IInv, NEW A \in SUBSET Attempts, EndTurn(A) PROVE IInv'
<1>0. QueueTypeOK /\ NothingQueuedOfCancelled /\ OwnerTypeOK /\ OneOpenCohort
  BY DEF IInv, TypeOK, QueueTypeOK, OwnerTypeOK
<1>1. QueueTypeOK' /\ NothingQueuedOfCancelled'
  BY <1>0, Shrinks DEF EndTurn, queueVars
<1>2. OwnerTypeOK'
  BY <1>0 DEF OwnerTypeOK, EndTurn, registryVars, NoFresh
<1>3. OneOpenCohort'
  BY <1>0, OpenCohortKept DEF EndTurn, registryVars
<1> QED BY <1>1, <1>2, <1>3, NothingHandedOver DEF EndTurn

LEMMA StepPreserves == ASSUME IInv, [Next]_vars PROVE IInv'
<1>1. CASE UNCHANGED vars
  BY <1>1 DEF vars, queueVars, registryVars, ownerVars, historyVars, IInv, TypeOK, OneOpenCohort,
     pendingRuns, NothingQueuedOfCancelled, CancelledTaskSilent, ResumeOnlyExpected,
     isTaskDelivery, taskDeliveryId, IsDelivery
<1>2. CASE Next
  <2>1. CASE \/ \E d \in Inputs : ParkedDelivery(d)
             \/ \E c \in Commands : ParkedControl(c)
             \/ \E a \in Attempts : ParkedAuthorization(a)
             \/ \E t \in Cancellable : ParkedCancelTask(t)
    BY <2>1, ParkedAdmission
  <2>2. CASE \/ \E d \in Inputs : TurnDelivery(d)
             \/ \E c \in Commands : TurnControl(c)
             \/ \E a \in Attempts : TurnAuthorization(a)
             \/ \E t \in Cancellable : TurnCancelTask(t)
    BY <2>2, TurnAdmission
  <2>3. CASE \E p, c \in BOOLEAN : TakeNext(p, c)
    BY <2>3, TakesNext
  <2>4. CASE TakeSteering
    BY <2>4, Steers
  <2>5. CASE \E answers \in SUBSET Ordinaries(entries) : routeAdmittedToChildren(answers)
    BY <2>5, Routes
  <2>6. CASE \E t \in Registrable : registerWorkflowToolRun(t)
    BY <2>6, Registers
  <2>7. CASE cancelAllIndexedSessionTasks
    BY <2>7, CancelsAll
  <2>8. CASE \E A \in SUBSET Attempts : EndTurn(A)
    BY <2>8, Ends
  <2>9. CASE \E tasks \in SUBSET pendingRuns : executeTaskControlAction(tasks)
    BY <2>9, CancelsSome
  <2> QED
    BY <1>2, <2>1, <2>2, <2>3, <2>4, <2>5, <2>6, <2>7, <2>8, <2>9 DEF Next
<1> QED BY <1>1, <1>2

(* Every reachable state satisfies the inductive invariant: what the queue *)
(* holds, what its owner expects and the registry stay consistent under    *)
(* every admission, selection, cancellation and registration.              *)
THEOREM Invariance == Spec => []IInv
<1>1. Init => IInv
  BY InitEstablishes
<1>2. IInv /\ [Next]_vars => IInv'
  BY StepPreserves
<1> QED BY <1>1, <1>2, PTL DEF Spec

(* Types are respected, whatever the menu of inputs.                       *)
THEOREM TypeCorrect == Spec => []TypeOK
<1>1. IInv => TypeOK
  BY DEF IInv
<1> QED BY <1>1, Invariance, PTL

(* At any time the runs without an outcome form one cohort: a new run that *)
(* joins the cohort of "the first pending run" joins all of them.          *)
THEOREM OneCohortIsOpen == Spec => []OneOpenCohort
<1>1. IInv => OneOpenCohort
  BY DEF IInv
<1> QED BY <1>1, Invariance, PTL

(* After a cancel command for a task no selection carries anything of it,  *)
(* neither what was queued before nor what arrives later.                  *)
THEOREM CancelledTasksStaySilent == Spec => []CancelledTaskSilent
<1>1. IInv => CancelledTaskSilent
  BY DEF IInv
<1> QED BY <1>1, Invariance, PTL

(* No callback of a closed challenge resumes the challenge that is open.   *)
THEOREM OnlyExpectedCallbacksResume == Spec => []ResumeOnlyExpected
<1>1. IInv => ResumeOnlyExpected
  BY DEF IInv
<1> QED BY <1>1, Invariance, PTL

(***************************************************************************)
(* Selection, in the order of the queue.                                   *)
(***************************************************************************)

(* The head of a nonempty queue precedes all of it.                        *)
LEMMA FirstIsLeast ==
    ASSUME NEW E \in SUBSET Entry, NEW e \in E
    PROVE  First(E) \in E /\ First(E).sequence <= e.sequence
<1> DEFINE T == {x.sequence : x \in E}
<1>1. T \subseteq Nat /\ T # {}
  BY EntrySequence
<1>2. PICK m \in T : \A y \in T : m <= y
  BY <1>1, LeastNumber
<1>3. PICK f \in E : f.sequence = m
  BY <1>2
<1>4. \A x \in E : f.sequence <= x.sequence
  BY <1>2, <1>3
<1>5. First(E) \in E /\ \A x \in E : First(E).sequence <= x.sequence
  BY <1>4 DEF First
<1> QED BY <1>5

(* The tail of a nonempty queue, which admissions bound, follows all of it.*)
LEMMA LastIsGreatest ==
    ASSUME NEW E \in SUBSET Entry, NEW e \in E
    PROVE  Last(E) \in E /\ e.sequence <= Last(E).sequence
<1> DEFINE Bounds == {n \in Nat : \A x \in E : x.sequence <= n}
<1>1. \A x \in E : x.sequence \in Nat /\ x.sequence <= MaxSequence
  BY InputsAssumption DEF Entry, DeliveryEntry, ControlEntry, AuthorizationEntry, Sequences
<1>2. MaxSequence \in Bounds
  BY <1>1, InputsAssumption
<1>3. PICK n \in Bounds : \A k \in Bounds : n <= k
  BY <1>2, LeastNumber
<1>4. \E l \in E : l.sequence = n
  <2> SUFFICES ASSUME \A x \in E : x.sequence # n PROVE FALSE
    OBVIOUS
  <2>1. \A x \in E : x.sequence < n
    BY <1>1, <1>3
  <2>2. n - 1 \in Nat
    BY <1>1, <1>3, <2>1
  <2>3. n - 1 \in Bounds
    BY <1>1, <2>1, <2>2
  <2> QED BY <1>3, <2>3
<1>5. PICK l \in E : l.sequence = n
  BY <1>4
<1>6. \A x \in E : x.sequence <= l.sequence
  BY <1>3, <1>5
<1>7. Last(E) \in E /\ \A x \in E : x.sequence <= Last(E).sequence
  BY <1>6 DEF Last
<1> QED BY <1>7

(* What a selection is made from: a resume of the whole challenge, or the  *)
(* entry at the head of what is actionable, unless that is the outcome of  *)
(* a cohort with other input before its last member.                       *)
LEMMA SelectedAt ==
    ASSUME NEW E \in SUBSET Entry, NEW fresh, Select(E, fresh) # NoSelection,
           Select(E, fresh).kind \in {"turn", "control"}
    PROVE  LET first == First(Actionable(E))
           IN  /\ Actionable(E) # {}
               /\ first \in Actionable(E)
               /\ \/ /\ IsDelivery(first)
                     /\ Boundary(E, first) # {}
                     /\ First(Boundary(E, first)) \in Boundary(E, first)
                     /\ Select(E, fresh) = takeSelectionAt(E, First(Boundary(E, first)), fresh)
                  \/ /\ ~(IsDelivery(first) /\ Boundary(E, first) # {})
                     /\ Select(E, fresh) = takeSelectionAt(E, first, fresh)
<1> DEFINE first == First(Actionable(E))
<1> DEFINE callbacks == {e \in E : e.kind = "authorization"}
<1>1. CASE expected # {} /\ \A a \in expected : \E e \in callbacks : e.attempt = a
  <2>1. Select(E, fresh) = [kind |-> "authorization-resume", members |-> callbacks]
    BY <1>1 DEF Select
  <2> QED BY <2>1
<1>2. CASE ~(expected # {} /\ \A a \in expected : \E e \in callbacks : e.attempt = a)
  <2>1. Actionable(E) # {}
    BY <1>2 DEF Select
  <2>2. first \in Actionable(E)
    <3>1. Actionable(E) \in SUBSET Entry
      BY DEF Actionable
    <3> QED BY <2>1, <3>1, FirstIsMember
  <2>3. CASE IsDelivery(first) /\ Boundary(E, first) # {}
    <3>1. Boundary(E, first) \in SUBSET Entry
      BY DEF Boundary
    <3>2. First(Boundary(E, first)) \in Boundary(E, first)
      BY <2>3, <3>1, FirstIsMember
    <3>3. Select(E, fresh) = takeSelectionAt(E, First(Boundary(E, first)), fresh)
      BY <1>2, <2>1, <2>3 DEF Select
    <3> QED BY <2>1, <2>2, <2>3, <3>2, <3>3
  <2>4. CASE ~(IsDelivery(first) /\ Boundary(E, first) # {})
    <3>1. Select(E, fresh) = takeSelectionAt(E, first, fresh)
      BY <1>2, <2>1, <2>4 DEF Select
    <3> QED BY <2>1, <2>2, <2>4, <3>1
  <2> QED BY <2>3, <2>4
<1> QED BY <1>1, <1>2

(* Input of no cohort: a control or an ordinary delivery.                  *)
LEMMA OrdinaryOutsideCohorts == \A e \in Entry : Ordinary(e) => CohortOf(e) = NoTask
BY DEF Ordinary, CohortOf, IsDelivery

(* A turn consists of the outcomes of one cohort, or it is the batch of a  *)
(* delivery that belongs to none; a control comes alone.                   *)
LEMMA SelectionForms ==
    ASSUME NEW E \in SUBSET Entry, NEW f \in E, NEW fresh,
           takeSelectionAt(E, f, fresh).kind \in {"turn", "control"}
    PROVE  \/ /\ f.kind = "control"
              /\ takeSelectionAt(E, f, fresh).kind = "control"
              /\ takeSelectionAt(E, f, fresh).members = {f}
           \/ /\ IsDelivery(f) /\ CohortOf(f) # NoTask
              /\ takeSelectionAt(E, f, fresh).members = Siblings(E, CohortOf(f))
           \/ /\ IsDelivery(f) /\ CohortOf(f) = NoTask
              /\ takeSelectionAt(E, f, fresh).members = Batch(E, f)
<1>1. f.kind \in {"control", "authorization", "delivery"}
  BY DEF Entry, DeliveryEntry, ControlEntry, AuthorizationEntry
<1>2. CASE f.kind = "control"
  <2>1. takeSelectionAt(E, f, fresh) =
          [kind |-> "control", members |-> {f}, control |-> f.control]
    BY <1>2 DEF takeSelectionAt
  <2> QED BY <1>2, <2>1
<1>3. CASE f.kind = "authorization"
  <2>1. takeSelectionAt(E, f, fresh) = [kind |-> "authorization-resume", members |-> {f}]
    BY <1>3 DEF takeSelectionAt
  <2> QED BY <2>1
<1>4. CASE f.kind = "delivery"
  <2>1. takeSelectionAt(E, f, fresh) = turnSelection(E, f, fresh)
    BY <1>4 DEF takeSelectionAt
  <2>2. turnSelection(E, f, fresh).members = TurnEntries(E, f)
    BY DEF turnSelection
  <2> QED BY <1>4, <2>1, <2>2 DEF TurnEntries, IsDelivery
<1> QED BY <1>1, <1>2, <1>3, <1>4

(* A delivery that joins the batch of another one coalesces with it.       *)
LEMMA BatchCoalesces ==
    ASSUME NEW E \in SUBSET Entry, NEW f \in E, NEW x \in Batch(E, f), x # f
    PROVE  Coalesces(f, x)
<1>1. /\ x \in E
      /\ f.sequence <= x.sequence
      /\ \A y \in {z \in E : f.sequence <= z.sequence /\ z.sequence <= x.sequence} \ {f} :
            Coalesces(f, y)
  BY DEF Batch
<1>2. x.sequence <= x.sequence
  BY <1>1, EntrySequence
<1> QED BY <1>1, <1>2

(* A batch has no gap.                                                     *)
LEMMA BatchIsContiguous ==
    ASSUME NEW E \in SUBSET Entry, NEW f \in E, NEW m \in Batch(E, f), NEW e \in E,
           f.sequence <= e.sequence, e.sequence <= m.sequence
    PROVE  e \in Batch(E, f)
<1> DEFINE Upto(x) == {z \in E : f.sequence <= z.sequence /\ z.sequence <= x.sequence}
<1>1. /\ m \in E
      /\ \A y \in Upto(m) \ {f} : Coalesces(f, y)
      /\ Coalescable(Upto(m))
  BY DEF Batch
<1>2. Upto(e) \subseteq Upto(m)
  BY <1>1, EntrySequence
<1>3. Coalescable(Upto(e))
  BY <1>1, <1>2 DEF Coalescable
<1>4. \A y \in Upto(e) \ {f} : Coalesces(f, y)
  BY <1>1, <1>2
<1> QED BY <1>3, <1>4 DEF Batch

(***************************************************************************)
(* Positions.  `sequence` stands for the position in the code's array and  *)
(* for the identity by which a turn knows what it admitted: no two entries *)
(* share one, and none that was handed over is in the queue again.         *)
(***************************************************************************)
PositionsOK ==
    /\ \A x, y \in entries : x.sequence = y.sequence => x = y
    /\ \A e \in entries : e.sequence < nextSequence /\ e.sequence \notin handed
    /\ \A s \in handed : s < nextSequence

(* One step either admits an entry at the next position, or only takes     *)
(* entries out, and what it hands over it takes out.                       *)
AdmitsOne ==
    /\ nextSequence' = nextSequence + 1
    /\ handed' = handed
    /\ \E n \in Entry : n.sequence = nextSequence /\ entries' \subseteq entries \cup {n}

TakesOut ==
    /\ nextSequence' = nextSequence
    /\ entries' \subseteq entries
    /\ \A s \in handed' : s \in handed \/ \E e \in entries \ entries' : e.sequence = s

LEMMA AdmissionMoves ==
    ASSUME IInv, HasRoom, UNCHANGED handed, NEW E \in SUBSET entries,
           \/ \E d \in Inputs : enqueueDelivery(E, d)
           \/ \E c \in Commands : enqueueControl(E, c)
           \/ \E a \in Attempts : enqueueAuthorization(E, a)
    PROVE  AdmitsOne \/ TakesOut
<1>1. nextSequence \in Sequences
  BY InputsAssumption DEF IInv, TypeOK, HasRoom, Sequences
<1>2. CASE \E d \in Inputs : enqueueDelivery(E, d)
  <2>1. PICK d \in Inputs : enqueueDelivery(E, d)
    BY <1>2
  <2>2. CASE Refused(d)
    BY <2>1, <2>2 DEF enqueueDelivery, TakesOut
  <2>3. CASE ~Refused(d)
    <3>1. [kind |-> "delivery", sequence |-> nextSequence, delivery |-> d] \in Entry
      BY <1>1 DEF Entry, DeliveryEntry
    <3> QED BY <2>1, <2>3, <3>1 DEF enqueueDelivery, AdmitsOne
  <2> QED BY <2>2, <2>3
<1>3. CASE \E c \in Commands : enqueueControl(E, c)
  <2>1. PICK c \in Commands : enqueueControl(E, c)
    BY <1>3
  <2>2. [kind |-> "control", sequence |-> nextSequence, control |-> c] \in Entry
    BY <1>1, InputsAssumption DEF Entry, ControlEntry
  <2> QED BY <2>1, <2>2 DEF enqueueControl, AdmitsOne
<1>4. CASE \E a \in Attempts : enqueueAuthorization(E, a)
  <2>1. PICK a \in Attempts : enqueueAuthorization(E, a)
    BY <1>4
  <2>2. [kind |-> "authorization", sequence |-> nextSequence, attempt |-> a] \in Entry
    BY <1>1 DEF Entry, AuthorizationEntry
  <2>3. CASE \E e \in E : e.kind = "authorization" /\ e.attempt = a
    BY <2>1, <2>3 DEF enqueueAuthorization, TakesOut
  <2>4. CASE ~ \E e \in E : e.kind = "authorization" /\ e.attempt = a
    BY <2>1, <2>2, <2>4 DEF enqueueAuthorization, AdmitsOne
  <2> QED BY <2>3, <2>4
<1> QED BY <1>2, <1>3, <1>4

(* What TakeNext does to the queue.                                        *)
LEMMA NextTaken ==
    ASSUME IInv, NEW p \in BOOLEAN, NEW c \in BOOLEAN, TakeNext(p, c)
    PROVE  \E fresh \in Sequences \cup {NoFresh} :
              /\ selection' = Select(Routed, fresh)
              /\ selection' # NoSelection
              /\ selection'.members \subseteq Routed
              /\ entries' = Routed \ selection'.members
              /\ handed' = handed \cup {m.sequence : m \in selection'.members}
              /\ settled' = settled \cup SettledBy(entries)
              /\ UNCHANGED <<cancelledTaskIds, seenTaskDeliveryIds, nextSequence, cohortOf,
                             expected>>
<1>1. PICK fresh \in Sequences \cup {NoFresh} :
         fresh = IF p THEN NoFresh ELSE freshSequence
  BY DEF IInv, TypeOK
<1>2. /\ selection' = Select(Routed, fresh)
      /\ selection' # NoSelection
      /\ entries' = Routed \ selection'.members
      /\ handed' = handed \cup {m.sequence : m \in selection'.members}
      /\ settled' = settled \cup SettledBy(entries)
      /\ UNCHANGED <<cancelledTaskIds, seenTaskDeliveryIds, nextSequence, cohortOf,
                     expected>>
  BY <1>1 DEF TakeNext
<1>3. Routed \in SUBSET Entry
  BY RoutedIsQueued DEF IInv, TypeOK
<1>4. selection'.members \subseteq Routed
  BY <1>2, <1>3, SelectedFromQueue
<1> QED BY <1>2, <1>4

(* Every step moves the queue in one of the two ways.                      *)
LEMMA QueueMoves == ASSUME IInv, Next PROVE AdmitsOne \/ TakesOut
<1> USE RoutedIsQueued
<1>1. CASE \E d \in Inputs : ParkedDelivery(d) \/ TurnDelivery(d)
  <2>1. PICK d \in Inputs : ParkedDelivery(d) \/ TurnDelivery(d)
    BY <1>1
  <2>2. HasRoom /\ UNCHANGED handed /\ (enqueueDelivery(Routed, d) \/ enqueueDelivery(entries, d))
    BY <2>1 DEF ParkedDelivery, TurnDelivery, Waiting, Admits
  <2> QED BY <2>2, AdmissionMoves
<1>2. CASE \E c \in Commands : ParkedControl(c) \/ TurnControl(c)
  <2>1. PICK c \in Commands : ParkedControl(c) \/ TurnControl(c)
    BY <1>2
  <2>2. HasRoom /\ UNCHANGED handed /\ (enqueueControl(Routed, c) \/ enqueueControl(entries, c))
    BY <2>1 DEF ParkedControl, TurnControl, Waiting
  <2> QED BY <2>2, AdmissionMoves
<1>3. CASE \E a \in Attempts : ParkedAuthorization(a) \/ TurnAuthorization(a)
  <2>1. PICK a \in Attempts : ParkedAuthorization(a) \/ TurnAuthorization(a)
    BY <1>3
  <2>2. /\ HasRoom /\ UNCHANGED handed
        /\ enqueueAuthorization(Routed, a) \/ enqueueAuthorization(entries, a)
    BY <2>1 DEF ParkedAuthorization, TurnAuthorization, Waiting
  <2> QED BY <2>2, AdmissionMoves
<1>4. CASE \E t \in Cancellable : ParkedCancelTask(t) \/ TurnCancelTask(t)
  BY <1>4 DEF ParkedCancelTask, TurnCancelTask, Waiting, cancelTask, TakesOut
<1>5. CASE \E p, c \in BOOLEAN : TakeNext(p, c)
  <2>1. PICK p \in BOOLEAN, c \in BOOLEAN : TakeNext(p, c)
    BY <1>5
  <2>2. /\ selection'.members \subseteq Routed
        /\ entries' = Routed \ selection'.members
        /\ handed' = handed \cup {m.sequence : m \in selection'.members}
        /\ nextSequence' = nextSequence
    BY <2>1, NextTaken
  <2> QED BY <2>2 DEF TakesOut
<1>6. CASE TakeSteering
  BY <1>6 DEF TakeSteering, TakesOut
<1>7. CASE \E answers \in SUBSET Ordinaries(entries) : routeAdmittedToChildren(answers)
  <2>1. PICK answers \in SUBSET Ordinaries(entries) : routeAdmittedToChildren(answers)
    BY <1>7
  <2>2. /\ entries' \subseteq entries \ answers
        /\ handed' = handed \cup {e.sequence : e \in answers}
        /\ nextSequence' = nextSequence
    BY <2>1 DEF routeAdmittedToChildren, AfterRouting
  <2>3. answers \subseteq entries
    BY DEF Ordinaries
  <2> QED BY <2>2, <2>3 DEF TakesOut
<1>8. CASE \/ \E t \in Registrable : registerWorkflowToolRun(t)
           \/ \E tasks \in SUBSET pendingRuns : executeTaskControlAction(tasks)
           \/ cancelAllIndexedSessionTasks
           \/ \E A \in SUBSET Attempts : EndTurn(A)
  <2>1. UNCHANGED <<entries, nextSequence, handed>>
    BY <1>8 DEF registerWorkflowToolRun, executeTaskControlAction,
       cancelAllIndexedSessionTasks, EndTurn, queueVars
  <2> QED BY <2>1 DEF TakesOut
<1> QED
  BY <1>1, <1>2, <1>3, <1>4, <1>5, <1>6, <1>7, <1>8 DEF Next

LEMMA PositionsKept == ASSUME IInv, PositionsOK, [Next]_vars PROVE PositionsOK'
<1>0. /\ nextSequence \in Nat
      /\ \A e \in entries : e.sequence \in Nat
      /\ \A s \in handed : s \in Nat
  BY EntrySequence, SequencesAreNumbers DEF IInv, TypeOK
<1>1. CASE UNCHANGED vars
  BY <1>1 DEF vars, queueVars, historyVars, PositionsOK
<1>2. CASE AdmitsOne
  <2>1. PICK n \in Entry : n.sequence = nextSequence /\ entries' \subseteq entries \cup {n}
    BY <1>2 DEF AdmitsOne
  <2>2. nextSequence' = nextSequence + 1 /\ handed' = handed
    BY <1>2 DEF AdmitsOne
  <2>3. \A x, y \in entries' : x.sequence = y.sequence => x = y
    BY <1>0, <2>1 DEF PositionsOK
  <2>4. \A e \in entries' : e.sequence < nextSequence' /\ e.sequence \notin handed'
    BY <1>0, <2>1, <2>2 DEF PositionsOK
  <2>5. \A s \in handed' : s < nextSequence'
    BY <1>0, <2>2 DEF PositionsOK
  <2> QED BY <2>3, <2>4, <2>5 DEF PositionsOK
<1>3. CASE TakesOut
  <2>1. /\ nextSequence' = nextSequence
        /\ entries' \subseteq entries
        /\ \A s \in handed' : s \in handed \/ \E e \in entries \ entries' : e.sequence = s
    BY <1>3 DEF TakesOut
  <2>2. \A e \in entries' : e.sequence < nextSequence' /\ e.sequence \notin handed'
    BY <2>1 DEF PositionsOK
  <2>3. \A s \in handed' : s < nextSequence'
    BY <2>1 DEF PositionsOK
  <2> QED BY <2>1, <2>2, <2>3 DEF PositionsOK
<1> QED BY <1>1, <1>2, <1>3, QueueMoves

(* A position names at most one queued entry, for the life of the session. *)
THEOREM PositionsAreUnique == Spec => [](IInv /\ PositionsOK)
<1>1. Init => IInv /\ PositionsOK
  BY InitEstablishes DEF Init, PositionsOK
<1>2. IInv /\ PositionsOK /\ [Next]_vars => (IInv /\ PositionsOK)'
  BY StepPreserves, PositionsKept
<1> QED BY <1>1, <1>2, PTL DEF Spec

(* A parked owner selects only by taking the next input.                   *)
LEMMA SelectsByTaking ==
    ASSUME Next, Selects
    PROVE  \E p, c \in BOOLEAN : TakeNext(p, c)
<1>1. \A d \in Inputs : ~ParkedDelivery(d) /\ ~TurnDelivery(d)
  BY DEF Selects, ParkedDelivery, TurnDelivery, Waiting, Admits, InTurn
<1>2. \A c \in Commands : ~ParkedControl(c) /\ ~TurnControl(c)
  BY DEF Selects, ParkedControl, TurnControl, Waiting, InTurn
<1>3. \A a \in Attempts : ~ParkedAuthorization(a) /\ ~TurnAuthorization(a)
  BY DEF Selects, ParkedAuthorization, TurnAuthorization, Waiting, InTurn
<1>4. \A t \in Cancellable : ~ParkedCancelTask(t) /\ ~TurnCancelTask(t)
  BY DEF Selects, ParkedCancelTask, TurnCancelTask, Waiting, InTurn
<1>5. ~TakeSteering
  BY DEF Selects, TakeSteering
<1>6. \A answers \in SUBSET Ordinaries(entries) : ~routeAdmittedToChildren(answers)
  BY DEF Selects, routeAdmittedToChildren, InTurn
<1>7. \A t \in Registrable : ~registerWorkflowToolRun(t)
  BY DEF Selects, registerWorkflowToolRun, InTurn
<1>8. \A tasks \in SUBSET pendingRuns : ~executeTaskControlAction(tasks)
  BY DEF Selects, executeTaskControlAction, InTurn
<1>9. ~cancelAllIndexedSessionTasks /\ \A A \in SUBSET Attempts : ~EndTurn(A)
  BY DEF Selects, cancelAllIndexedSessionTasks, EndTurn
<1> QED
  BY <1>1, <1>2, <1>3, <1>4, <1>5, <1>6, <1>7, <1>8, <1>9 DEF Next

(* The selection of a parked owner, as the property readers see it.        *)
LEMMA SelectedNext ==
    ASSUME IInv, PositionsOK, Next, Selects
    PROVE  \E fresh \in Sequences \cup {NoFresh} :
              /\ selection' = Select(Routed, fresh)
              /\ selection'.members \subseteq Routed
              /\ entries' = Routed \ selection'.members
<1>1. PICK p \in BOOLEAN, c \in BOOLEAN : TakeNext(p, c)
  BY SelectsByTaking
<1> QED BY <1>1, NextTaken

(***************************************************************************)
(* NoInputLost.                                                            *)
(***************************************************************************)
Excused(e) ==
    \/ e.sequence \in handed' \ handed
    \/ e.kind = "authorization" /\ e.attempt \notin expected
    \/ /\ IsDelivery(e) /\ e.delivery.notice # NoNotice
       /\ e.delivery.notice.phase = "request"
    \/ /\ IsDelivery(e)
       /\ \E t \in cancelledTaskIds' : isTaskDelivery(e.delivery, t)

(* What routing and the cleaning of stale callbacks drop.                  *)
LEMMA RoutingExcuses == \A e \in entries \ Routed : Excused(e)
BY DEF Routed, dropStale, AfterRouting, Excused

LEMMA AdmittingKeeps ==
    ASSUME NEW E \in SUBSET entries,
           \/ \E d \in Inputs : enqueueDelivery(E, d)
           \/ \E c \in Commands : enqueueControl(E, c)
           \/ \E a \in Attempts : enqueueAuthorization(E, a)
    PROVE  E \subseteq entries'
BY DEF enqueueDelivery, enqueueControl, enqueueAuthorization

LEMMA HandedOnce ==
    ASSUME PositionsOK, NEW M \in SUBSET entries,
           handed' = handed \cup {m.sequence : m \in M}
    PROVE  /\ \A m \in M : m.sequence \notin handed
           /\ \A m \in M : Excused(m)
<1>1. \A m \in M : m.sequence \notin handed
  BY DEF PositionsOK
<1>2. \A m \in M : m.sequence \in handed'
  OBVIOUS
<1> QED BY <1>1, <1>2 DEF Excused

LEMMA StepLosesNothing ==
    ASSUME IInv, PositionsOK, Next
    PROVE  /\ \A e \in entries \ entries' : Excused(e)
           /\ selection' # NoSelection =>
                 \A m \in selection'.members : m.sequence \notin handed
<1> USE RoutedIsQueued
<1>1. CASE \E d \in Inputs : ParkedDelivery(d) \/ TurnDelivery(d)
  <2>1. PICK d \in Inputs : ParkedDelivery(d) \/ TurnDelivery(d)
    BY <1>1
  <2>2. /\ selection' = NoSelection
        /\ enqueueDelivery(Routed, d) \/ enqueueDelivery(entries, d)
    BY <2>1 DEF ParkedDelivery, TurnDelivery, Waiting, Admits, InTurn
  <2>3. Routed \subseteq entries'
    BY <2>2, AdmittingKeeps
  <2> QED BY <2>2, <2>3, RoutingExcuses
<1>2. CASE \E c \in Commands : ParkedControl(c) \/ TurnControl(c)
  <2>1. PICK c \in Commands : ParkedControl(c) \/ TurnControl(c)
    BY <1>2
  <2>2. /\ selection' = NoSelection
        /\ enqueueControl(Routed, c) \/ enqueueControl(entries, c)
    BY <2>1 DEF ParkedControl, TurnControl, Waiting, InTurn
  <2>3. Routed \subseteq entries'
    BY <2>2, AdmittingKeeps
  <2> QED BY <2>2, <2>3, RoutingExcuses
<1>3. CASE \E a \in Attempts : ParkedAuthorization(a) \/ TurnAuthorization(a)
  <2>1. PICK a \in Attempts : ParkedAuthorization(a) \/ TurnAuthorization(a)
    BY <1>3
  <2>2. /\ selection' = NoSelection
        /\ enqueueAuthorization(Routed, a) \/ enqueueAuthorization(entries, a)
    BY <2>1 DEF ParkedAuthorization, TurnAuthorization, Waiting, InTurn
  <2>3. Routed \subseteq entries'
    BY <2>2, AdmittingKeeps
  <2> QED BY <2>2, <2>3, RoutingExcuses
<1>4. CASE \E t \in Cancellable : ParkedCancelTask(t) \/ TurnCancelTask(t)
  <2>1. PICK t \in Cancellable : ParkedCancelTask(t) \/ TurnCancelTask(t)
    BY <1>4
  <2>2. /\ selection' = NoSelection
        /\ cancelTask(Routed, t) \/ cancelTask(entries, t)
    BY <2>1 DEF ParkedCancelTask, TurnCancelTask, Waiting, InTurn
  <2>3. \A e \in Routed \ entries' : Excused(e)
    BY <2>2 DEF cancelTask, Excused
  <2> QED BY <2>2, <2>3, RoutingExcuses
<1>5. CASE \E p, c \in BOOLEAN : TakeNext(p, c)
  <2>1. PICK p \in BOOLEAN, c \in BOOLEAN : TakeNext(p, c)
    BY <1>5
  <2>2. /\ selection'.members \subseteq Routed
        /\ entries' = Routed \ selection'.members
        /\ handed' = handed \cup {m.sequence : m \in selection'.members}
    BY <2>1, NextTaken
  <2>3. /\ \A m \in selection'.members : m.sequence \notin handed
        /\ \A m \in selection'.members : Excused(m)
    BY <2>2, HandedOnce
  <2> QED BY <2>2, <2>3, RoutingExcuses
<1>6. CASE TakeSteering
  <2>1. PICK steering \in SUBSET entries :
           /\ entries' = entries \ steering
           /\ selection' = [kind |-> "turn", members |-> steering, handoffEligible |-> FALSE]
           /\ handed' = handed \cup {e.sequence : e \in steering}
    BY <1>6 DEF TakeSteering
  <2>2. /\ \A m \in steering : m.sequence \notin handed
        /\ \A m \in steering : Excused(m)
    BY <2>1, HandedOnce
  <2> QED BY <2>1, <2>2
<1>7. CASE \E answers \in SUBSET Ordinaries(entries) : routeAdmittedToChildren(answers)
  <2>1. PICK answers \in SUBSET Ordinaries(entries) : routeAdmittedToChildren(answers)
    BY <1>7
  <2>2. PICK routed \in SUBSET entries : entries' = AfterRouting(entries, routed) \ answers
    BY <2>1 DEF routeAdmittedToChildren
  <2>3. handed' = handed \cup {e.sequence : e \in answers} /\ selection' = NoSelection
    BY <2>1 DEF routeAdmittedToChildren, InTurn
  <2>4. answers \in SUBSET entries
    BY DEF Ordinaries
  <2>5. \A m \in answers : Excused(m)
    BY <2>3, <2>4, HandedOnce
  <2>6. \A e \in entries \ AfterRouting(entries, routed) : Excused(e)
    BY DEF AfterRouting, Excused
  <2> QED BY <2>2, <2>3, <2>5, <2>6
<1>8. CASE \/ \E t \in Registrable : registerWorkflowToolRun(t)
           \/ \E tasks \in SUBSET pendingRuns : executeTaskControlAction(tasks)
           \/ cancelAllIndexedSessionTasks
           \/ \E A \in SUBSET Attempts : EndTurn(A)
  <2>1. entries' = entries /\ selection' = NoSelection
    BY <1>8 DEF registerWorkflowToolRun, executeTaskControlAction,
       cancelAllIndexedSessionTasks, EndTurn, queueVars, InTurn
  <2> QED BY <2>1
<1> QED
  BY <1>1, <1>2, <1>3, <1>4, <1>5, <1>6, <1>7, <1>8 DEF Next

(* Input leaves the queue by being handed over, once, or for one of the    *)
(* reasons the code has to drop it: its task was cancelled, its challenge  *)
(* is closed, or it was a request that routing consumed.                   *)
THEOREM NothingIsLost == Spec => NoInputLost
<1>1. IInv /\ PositionsOK /\ [Next]_vars =>
         [/\ \A e \in entries \ entries' : Excused(e)
          /\ selection' # NoSelection =>
                \A m \in selection'.members : m.sequence \notin handed]_vars
  BY StepLosesNothing
<1> QED BY <1>1, PositionsAreUnique, PTL DEF Spec, NoInputLost, Excused

(***************************************************************************)
(* TurnHasOneSender.                                                       *)
(***************************************************************************)
LEMMA BatchHasOneSender ==
    ASSUME NEW E \in SUBSET Entry, NEW f \in E,
           NEW x \in Batch(E, f), NEW y \in Batch(E, f), x # y
    PROVE  /\ x.delivery.auth = y.delivery.auth
           /\ x.delivery.auth # Anonymous
           /\ ~(x.delivery.caller # NoCaller /\ y.delivery.caller # NoCaller)
<1> DEFINE Upto(e) == {z \in E : f.sequence <= z.sequence /\ z.sequence <= e.sequence}
<1>1. /\ x.delivery.auth = y.delivery.auth
      /\ x.delivery.auth # Anonymous
  <2>1. x # f => Coalesces(f, x)
    BY BatchCoalesces
  <2>2. y # f => Coalesces(f, y)
    BY BatchCoalesces
  <2> QED BY <2>1, <2>2 DEF Coalesces
<1>2. /\ x \in E /\ f.sequence <= x.sequence /\ Coalescable(Upto(x))
      /\ y \in E /\ f.sequence <= y.sequence /\ Coalescable(Upto(y))
  BY DEF Batch
<1>3. x.sequence \in Nat /\ y.sequence \in Nat
  BY <1>2, EntrySequence
<1>4. CASE x.sequence <= y.sequence
  <2>1. x \in Upto(y) /\ y \in Upto(y)
    BY <1>2, <1>3, <1>4
  <2> QED BY <1>1, <1>2, <2>1 DEF Coalescable
<1>5. CASE y.sequence <= x.sequence
  <2>1. x \in Upto(x) /\ y \in Upto(x)
    BY <1>2, <1>3, <1>5
  <2> QED BY <1>1, <1>2, <2>1 DEF Coalescable
<1> QED BY <1>3, <1>4, <1>5

LEMMA SelectionHasOneSender ==
    ASSUME NEW E \in SUBSET Entry, NEW fresh, Select(E, fresh) # NoSelection,
           Select(E, fresh).kind = "turn",
           NEW x \in Select(E, fresh).members, NEW y \in Select(E, fresh).members, x # y
    PROVE  \/ CohortOf(x) # NoTask
           \/ /\ x.delivery.auth = y.delivery.auth
              /\ x.delivery.auth # Anonymous
              /\ ~(x.delivery.caller # NoCaller /\ y.delivery.caller # NoCaller)
<1>1. PICK f \in E : Select(E, fresh) = takeSelectionAt(E, f, fresh)
  <2>1. Actionable(E) \subseteq E
    BY DEF Actionable
  <2>2. Boundary(E, First(Actionable(E))) \subseteq E
    BY DEF Boundary
  <2> QED BY <2>1, <2>2, SelectedAt
<1>2. CASE Select(E, fresh).members = {f}
  BY <1>2
<1>3. CASE CohortOf(f) # NoTask /\ Select(E, fresh).members = Siblings(E, CohortOf(f))
  BY <1>3 DEF Siblings
<1>4. CASE Select(E, fresh).members = Batch(E, f)
  BY <1>4, BatchHasOneSender
<1> QED BY <1>1, <1>2, <1>3, <1>4, SelectionForms

(* A turn of a parked owner has one authenticated sender and at most one   *)
(* caller waiting for a reply, unless it reports a cohort.                 *)
THEOREM TurnsHaveOneSender == Spec => TurnHasOneSender
<1>1. ASSUME IInv, PositionsOK, Next, Selects, selection'.kind = "turn",
             NEW x \in selection'.members, NEW y \in selection'.members, x # y
      PROVE  \/ CohortOf(x) # NoTask
             \/ /\ x.delivery.auth = y.delivery.auth
                /\ x.delivery.auth # Anonymous
                /\ ~(x.delivery.caller # NoCaller /\ y.delivery.caller # NoCaller)
  <2>1. PICK fresh \in Sequences \cup {NoFresh} : selection' = Select(Routed, fresh)
    BY <1>1, SelectedNext
  <2>2. Routed \in SUBSET Entry
    BY <1>1, RoutedIsQueued DEF IInv, TypeOK
  <2>3. Select(Routed, fresh) # NoSelection
    BY <1>1, <2>1 DEF Selects
  <2> QED BY <1>1, <2>1, <2>2, <2>3, SelectionHasOneSender
<1>2. IInv /\ PositionsOK /\ [Next]_vars =>
         [Selects /\ selection'.kind = "turn" =>
             \A x, y \in selection'.members : x # y =>
                 \/ CohortOf(x) # NoTask
                 \/ /\ x.delivery.auth = y.delivery.auth
                    /\ x.delivery.auth # Anonymous
                    /\ ~(x.delivery.caller # NoCaller /\ y.delivery.caller # NoCaller)]_vars
  BY <1>1
<1> QED BY <1>2, PositionsAreUnique, PTL DEF Spec, TurnHasOneSender

(***************************************************************************)
(* InputInArrivalOrder.                                                    *)
(***************************************************************************)
DistinctPositions(E) == \A x, y \in E : x.sequence = y.sequence => x = y

LEMMA OrdinaryIsActionable ==
    ASSUME ~deferDeliveries, NEW E \in SUBSET Entry
    PROVE  \A e \in E : Ordinary(e) => e \in Actionable(E)
BY DEF Ordinary, Actionable

(* Where a selection starts no ordinary input is overtaken, and an outcome *)
(* is reported only when none stands before the last of its cohort.        *)
LEMMA StartsInOrder ==
    ASSUME ~deferDeliveries, NEW E \in SUBSET Entry, DistinctPositions(E),
           NEW fresh, Select(E, fresh) # NoSelection,
           Select(E, fresh).kind \in {"turn", "control"}
    PROVE  \E f \in E :
              /\ Select(E, fresh) = takeSelectionAt(E, f, fresh)
              /\ \A e \in E : Ordinary(e) => f.sequence <= e.sequence
              /\ CohortOf(f) # NoTask =>
                    \A e \in E : Ordinary(e) => ~(e.sequence < Last(Siblings(E, CohortOf(f))).sequence)
<1> DEFINE first == First(Actionable(E))
<1>1. /\ first \in Actionable(E)
      /\ \/ /\ IsDelivery(first)
            /\ Boundary(E, first) # {}
            /\ First(Boundary(E, first)) \in Boundary(E, first)
            /\ Select(E, fresh) = takeSelectionAt(E, First(Boundary(E, first)), fresh)
         \/ /\ ~(IsDelivery(first) /\ Boundary(E, first) # {})
            /\ Select(E, fresh) = takeSelectionAt(E, first, fresh)
  BY SelectedAt
<1>2. Actionable(E) \in SUBSET Entry /\ Actionable(E) \subseteq E
  BY DEF Actionable
<1>3. \A e \in E : Ordinary(e) => first.sequence <= e.sequence
  BY <1>2, OrdinaryIsActionable, FirstIsLeast
<1>4. first \in E
  BY <1>1, <1>2
<1> HIDE DEF first
<1>5. \A e \in E : Ordinary(e) /\ CohortOf(first) # NoTask => first.sequence < e.sequence
  <2>1. \A e \in E : Ordinary(e) /\ CohortOf(first) # NoTask => e # first
    BY OrdinaryOutsideCohorts
  <2>2. \A e \in E : e.sequence \in Nat
    BY EntrySequence
  <2> QED BY <1>3, <1>4, <2>1, <2>2 DEF DistinctPositions
<1>6. \A e \in E : /\ Ordinary(e) /\ CohortOf(first) # NoTask
                   /\ e.sequence < Last(Siblings(E, CohortOf(first))).sequence
                   => e \in Boundary(E, first)
  BY <1>5, OrdinaryOutsideCohorts DEF Boundary
<1>7. CASE /\ IsDelivery(first)
           /\ Boundary(E, first) # {}
           /\ First(Boundary(E, first)) \in Boundary(E, first)
           /\ Select(E, fresh) = takeSelectionAt(E, First(Boundary(E, first)), fresh)
  <2>1. PICK f : f = First(Boundary(E, first))
    OBVIOUS
  <2>2. Boundary(E, first) \in SUBSET Entry
    BY DEF Boundary
  <2>3. /\ f \in E
        /\ CohortOf(f) = NoTask
        /\ CohortOf(first) # NoTask
        /\ f.sequence < Last(Siblings(E, CohortOf(first))).sequence
    BY <1>7, <2>1 DEF Boundary
  <2>4. Last(Siblings(E, CohortOf(first))).sequence \in Nat
    <3>1. first \in Siblings(E, CohortOf(first)) /\ Siblings(E, CohortOf(first)) \in SUBSET Entry
      BY <1>4 DEF Siblings
    <3>2. Last(Siblings(E, CohortOf(first))) \in Entry
      BY <3>1, LastIsGreatest
    <3> QED BY <3>2, EntrySequence
  <2>5. ASSUME NEW e \in E, Ordinary(e) PROVE f.sequence <= e.sequence
    <3>1. e.sequence \in Nat /\ f.sequence \in Nat
      BY <2>3, EntrySequence
    <3>2. CASE e.sequence < f.sequence
      <4>1. e.sequence < Last(Siblings(E, CohortOf(first))).sequence
        BY <2>3, <2>4, <3>1, <3>2
      <4>2. e \in Boundary(E, first)
        BY <1>6, <2>3, <2>5, <4>1
      <4> QED BY <2>1, <2>2, <4>2, FirstIsLeast
    <3> QED BY <3>1, <3>2
  <2> QED BY <1>7, <2>1, <2>3, <2>5
<1>8. CASE /\ ~(IsDelivery(first) /\ Boundary(E, first) # {})
           /\ Select(E, fresh) = takeSelectionAt(E, first, fresh)
  <2>1. CohortOf(first) # NoTask => Boundary(E, first) = {}
    BY <1>8 DEF CohortOf
  <2> QED BY <1>3, <1>4, <1>6, <1>8, <2>1
<1> QED BY <1>1, <1>7, <1>8 DEF first

(* What comes out of the queue stood before all ordinary input left in it. *)
LEMMA SelectsInOrder ==
    ASSUME ~deferDeliveries, NEW E \in SUBSET Entry, DistinctPositions(E),
           NEW fresh, Select(E, fresh) # NoSelection,
           Select(E, fresh).kind \in {"turn", "control"},
           NEW m \in Select(E, fresh).members, NEW e \in E \ Select(E, fresh).members,
           Ordinary(e)
    PROVE  m.sequence < e.sequence
<1>1. PICK f \in E :
         /\ Select(E, fresh) = takeSelectionAt(E, f, fresh)
         /\ \A o \in E : Ordinary(o) => f.sequence <= o.sequence
         /\ CohortOf(f) # NoTask =>
               \A o \in E : Ordinary(o) => ~(o.sequence < Last(Siblings(E, CohortOf(f))).sequence)
  BY StartsInOrder
<1>2. e.sequence \in Nat /\ f.sequence \in Nat /\ f.sequence <= e.sequence
  BY <1>1, EntrySequence
<1>3. CASE Select(E, fresh).members = {f}
  BY <1>2, <1>3 DEF DistinctPositions
<1>4. CASE CohortOf(f) # NoTask /\ Select(E, fresh).members = Siblings(E, CohortOf(f))
  <2>1. PICK l : l = Last(Siblings(E, CohortOf(f)))
    OBVIOUS
  <2>2. Siblings(E, CohortOf(f)) \in SUBSET Entry
    BY DEF Siblings
  <2>3. l \in Siblings(E, CohortOf(f)) /\ m.sequence <= l.sequence
    BY <1>4, <2>1, <2>2, LastIsGreatest
  <2>4. m.sequence \in Nat /\ l.sequence \in Nat /\ l \in E
    BY <1>4, <2>2, <2>3, EntrySequence DEF Siblings
  <2>5. ~(e.sequence < l.sequence)
    BY <1>1, <1>4, <2>1
  <2>6. e.sequence # l.sequence
    BY <1>4, <2>3, <2>4 DEF DistinctPositions
  <2> QED BY <1>2, <2>3, <2>4, <2>5, <2>6
<1>5. CASE Select(E, fresh).members = Batch(E, f)
  <2>1. m \in E /\ m.sequence \in Nat
    BY <1>5, EntrySequence DEF Batch
  <2>2. ~(e.sequence <= m.sequence)
    BY <1>2, <1>5, BatchIsContiguous
  <2> QED BY <1>2, <2>1, <2>2
<1> QED BY <1>1, <1>3, <1>4, <1>5, SelectionForms

(* Neither a batch nor a cohort report, gathered from all over the queue,  *)
(* overtakes a control or an ordinary delivery that is left behind.        *)
THEOREM SelectionsKeepArrivalOrder == Spec => InputInArrivalOrder
<1>1. ASSUME IInv, PositionsOK, Next, Selects, selection'.kind \in {"turn", "control"},
             ~deferDeliveries,
             NEW m \in selection'.members, NEW e \in entries', Ordinary(e)
      PROVE  m.sequence < e.sequence
  <2>1. PICK fresh \in Sequences \cup {NoFresh} :
           /\ selection' = Select(Routed, fresh)
           /\ entries' = Routed \ selection'.members
    BY <1>1, SelectedNext
  <2>2. Routed \in SUBSET Entry /\ DistinctPositions(Routed)
    BY <1>1, RoutedIsQueued DEF IInv, TypeOK, PositionsOK, DistinctPositions
  <2>3. Select(Routed, fresh) # NoSelection
    BY <1>1, <2>1 DEF Selects
  <2> QED BY <1>1, <2>1, <2>2, <2>3, SelectsInOrder
<1>2. IInv /\ PositionsOK /\ [Next]_vars =>
         [Selects /\ selection'.kind \in {"turn", "control"} /\ ~deferDeliveries =>
             \A m \in selection'.members, e \in entries' :
                 Ordinary(e) => m.sequence < e.sequence]_vars
  BY <1>1
<1> QED BY <1>2, PositionsAreUnique, PTL DEF Spec, InputInArrivalOrder

(***************************************************************************)
(* ReadyCohortsAreTaken.                                                   *)
(***************************************************************************)
(* Only an owner without anything to select admits while it is parked.     *)
LEMMA ParkedAdmissionWaits ==
    ASSUME IInv, Next, owner = "parked", nextSequence' # nextSequence
    PROVE  Select(Routed, freshSequence) = NoSelection
<1>1. \A d \in Inputs : ParkedDelivery(d) => Waiting
  BY DEF ParkedDelivery
<1>2. \A c \in Commands : ParkedControl(c) => Waiting
  BY DEF ParkedControl
<1>3. \A a \in Attempts : ParkedAuthorization(a) => Waiting
  BY DEF ParkedAuthorization
<1>4. \A t \in Cancellable : ParkedCancelTask(t) => Waiting
  BY DEF ParkedCancelTask
<1>5. /\ \A d \in Inputs : ~TurnDelivery(d)
      /\ \A c \in Commands : ~TurnControl(c)
      /\ \A a \in Attempts : ~TurnAuthorization(a)
      /\ \A t \in Cancellable : ~TurnCancelTask(t)
      /\ ~TakeSteering
  BY DEF TurnDelivery, TurnControl, TurnAuthorization, TurnCancelTask, TakeSteering, Admits,
     InTurn
<1>6. \A p, c \in BOOLEAN : ~TakeNext(p, c)
  BY DEF TakeNext
<1>7. \A answers \in SUBSET Ordinaries(entries) : ~routeAdmittedToChildren(answers)
  BY DEF routeAdmittedToChildren
<1>8. /\ \A t \in Registrable : ~registerWorkflowToolRun(t)
      /\ \A tasks \in SUBSET pendingRuns : ~executeTaskControlAction(tasks)
      /\ ~cancelAllIndexedSessionTasks
      /\ \A A \in SUBSET Attempts : ~EndTurn(A)
  BY DEF registerWorkflowToolRun, executeTaskControlAction, cancelAllIndexedSessionTasks,
     EndTurn, queueVars
<1>9. Waiting
  BY <1>1, <1>2, <1>3, <1>4, <1>5, <1>6, <1>7, <1>8 DEF Next
<1> QED BY <1>9 DEF Waiting

(* Nothing is actionable when nothing is selected.                         *)
LEMMA NothingActionable ==
    ASSUME NEW E \in SUBSET Entry, NEW fresh, Select(E, fresh) = NoSelection
    PROVE  Actionable(E) = {}
<1> DEFINE callbacks == {e \in E : e.kind = "authorization"}
<1> DEFINE first == First(Actionable(E))
<1> SUFFICES ASSUME Actionable(E) # {} PROVE FALSE
  OBVIOUS
<1>1. first \in E
  <2>1. Actionable(E) \in SUBSET Entry /\ Actionable(E) \subseteq E
    BY DEF Actionable
  <2> QED BY <2>1, FirstIsMember
<1>2. \A e \in E : takeSelectionAt(E, e, fresh).kind # "none"
  <2> SUFFICES ASSUME NEW e \in E PROVE takeSelectionAt(E, e, fresh).kind # "none"
    OBVIOUS
  <2>1. e.kind \in {"control", "authorization", "delivery"}
    BY DEF Entry, DeliveryEntry, ControlEntry, AuthorizationEntry
  <2>2. CASE e.kind = "control"
    BY <2>2 DEF takeSelectionAt
  <2>3. CASE e.kind = "authorization"
    BY <2>3 DEF takeSelectionAt
  <2>4. CASE e.kind = "delivery"
    BY <2>4 DEF takeSelectionAt, turnSelection
  <2> QED BY <2>1, <2>2, <2>3, <2>4
<1>3. NoSelection.kind = "none"
  BY DEF NoSelection
<1>4. CASE expected # {} /\ \A a \in expected : \E e \in callbacks : e.attempt = a
  <2>1. Select(E, fresh) = [kind |-> "authorization-resume", members |-> callbacks]
    BY <1>4 DEF Select
  <2> QED BY <1>3, <2>1
<1>5. CASE ~(expected # {} /\ \A a \in expected : \E e \in callbacks : e.attempt = a)
  <2>1. CASE IsDelivery(first) /\ Boundary(E, first) # {}
    <3>1. Boundary(E, first) \in SUBSET Entry /\ Boundary(E, first) \subseteq E
      BY DEF Boundary
    <3>2. First(Boundary(E, first)) \in E
      BY <2>1, <3>1, FirstIsMember
    <3>3. Select(E, fresh) = takeSelectionAt(E, First(Boundary(E, first)), fresh)
      BY <1>5, <2>1 DEF Select
    <3> QED BY <1>2, <1>3, <3>2, <3>3
  <2>2. CASE ~(IsDelivery(first) /\ Boundary(E, first) # {})
    <3>1. Select(E, fresh) = takeSelectionAt(E, first, fresh)
      BY <1>5, <2>2 DEF Select
    <3> QED BY <1>1, <1>2, <1>3, <3>1
  <2> QED BY <2>1, <2>2
<1> QED BY <1>4, <1>5

(* Routing keeps the outcomes of registered tasks.                         *)
LEMMA OutcomeIsRouted ==
    ASSUME NEW e \in entries, CohortOf(e) # NoTask
    PROVE  e \in Routed
<1>1. /\ IsDelivery(e)
      /\ terminalTaskId(e.delivery) # NoTask
  BY DEF CohortOf, terminalCohort
<1>2. e.delivery.notice.phase \in Outcomes
  BY <1>1 DEF terminalTaskId
<1>3. e.kind # "authorization" /\ e.delivery.notice.phase # "request"
  BY <1>1, <1>2 DEF IsDelivery, Outcomes
<1> QED BY <1>3 DEF Routed, dropStale, AfterRouting

(* An owner goes back to waiting for input only while a member of every    *)
(* cohort it holds is missing and may still report.                        *)
THEOREM ReadyCohortsAreNotHeld == Spec => ReadyCohortsAreTaken
<1>1. ASSUME IInv, Next, owner = "parked", nextSequence' # nextSequence, ~deferDeliveries,
             NEW c \in Tasks, Holds(c)
      PROVE  ~Complete(c)
  <2>1. PICK e \in entries : CohortOf(e) = c
    BY <1>1 DEF Holds
  <2>2. c # NoTask
    BY IdsAssumption
  <2>3. e \in Routed
    BY <2>1, <2>2, OutcomeIsRouted
  <2>4. Actionable(Routed) = {}
    <3>1. Routed \in SUBSET Entry
      BY <1>1, RoutedIsQueued DEF IInv, TypeOK
    <3> QED BY <1>1, <3>1, ParkedAdmissionWaits, NothingActionable
  <2>5. IsDelivery(e)
    BY <2>1, <2>2 DEF CohortOf
  <2>6. c \in pendingCohorts
    BY <1>1, <2>1, <2>3, <2>4, <2>5 DEF Actionable
  <2>7. PICK u \in Tasks : /\ cohortOf[u] = c
                           /\ [task |-> u, phase |-> "ready"] \notin seenTaskDeliveryIds
                           /\ u \notin cancelledTaskIds
    BY <2>6 DEF pendingCohorts
  <2> QED BY <2>7 DEF Complete, Members, ReadySeen
<1>2. IInv /\ [Next]_vars =>
         [owner = "parked" /\ nextSequence' # nextSequence /\ ~deferDeliveries =>
             \A c \in Tasks : Holds(c) => ~Complete(c)]_vars
  BY <1>1
<1> QED BY <1>2, Invariance, PTL DEF Spec, ReadyCohortsAreTaken

(***************************************************************************)
(* Cohorts.  A report is whole because the outcome of a run stays queued   *)
(* from its admission until its whole cohort is reported, and because no   *)
(* run joins a cohort after that: all its members are settled.             *)
(***************************************************************************)
IsOutcomeOf(e, t) == IsDelivery(e) /\ terminalTaskId(e.delivery) = t
HasOutcome(t) == \E e \in entries : IsOutcomeOf(e, t)
Reported(c) == \A u \in Members(c) : ReadySeen(u) /\ u \in settled /\ ~HasOutcome(u)

FoundersBelong == \A t \in Tasks : cohortOf[t] # NoTask => cohortOf[cohortOf[t]] = cohortOf[t]
SeenAreRegistered == \A t \in Tasks : ReadySeen(t) => cohortOf[t] # NoTask
SeenUntilReported ==
    \A t \in Tasks : cohortOf[t] # NoTask /\ ~Silenced(cohortOf[t]) /\ ReadySeen(t) =>
        HasOutcome(t) \/ Reported(cohortOf[t])
EligibleEmptiesQueue ==
    selection # NoSelection /\ selection.kind = "turn" /\ selection.handoffEligible =>
        entries = {}

CohortsOK == FoundersBelong /\ SeenAreRegistered /\ SeenUntilReported /\ EligibleEmptiesQueue

LEMMA OutcomeCohort ==
    ASSUME NEW t \in Tasks, NEW e, IsOutcomeOf(e, t)
    PROVE  CohortOf(e) = cohortOf[t]
BY IdsAssumption DEF IsOutcomeOf, CohortOf, terminalCohort

LEMMA CohortOutcome ==
    ASSUME TypeOK, NEW e \in entries, CohortOf(e) # NoTask
    PROVE  \E t \in Tasks : IsOutcomeOf(e, t) /\ cohortOf[t] = CohortOf(e)
<1>1. /\ IsDelivery(e)
      /\ terminalTaskId(e.delivery) # NoTask
      /\ CohortOf(e) = cohortOf[terminalTaskId(e.delivery)]
  BY DEF CohortOf, terminalCohort
<1>2. e.delivery \in Inputs
  BY <1>1, EntryKinds DEF TypeOK, DeliveryEntry
<1>3. e.delivery.notice # NoNotice /\ terminalTaskId(e.delivery) = e.delivery.notice.task
  BY <1>1 DEF terminalTaskId
<1>4. terminalTaskId(e.delivery) \in Tasks
  BY <1>2, <1>3, InputIsDelivery DEF Notice
<1> QED BY <1>1, <1>4 DEF IsOutcomeOf

(* Competing outcomes of a task share one id, and only an outcome has it.  *)
LEMMA ReadyIds ==
    ASSUME NEW d \in Inputs, NEW t \in Tasks
    PROVE  [task |-> t, phase |-> "ready"] \in deduplicationId(d) <=> terminalTaskId(d) = t
<1> USE InputIsDelivery
<1>1. CASE terminalTaskId(d) = NoTask
  <2>1. deduplicationId(d) = taskDeliveryId(d)
    BY <1>1 DEF deduplicationId
  <2>2. \A id \in taskDeliveryId(d) : id.phase # "ready"
    <3>1. CASE d.notice # NoNotice
      <4>1. d.notice.phase # "ready"
        BY <3>1 DEF Notice, Phases, Outcomes
      <4> QED BY <3>1, <4>1 DEF taskDeliveryId
    <3>2. CASE d.notice = NoNotice
      BY <3>2 DEF taskDeliveryId
    <3> QED BY <3>1, <3>2
  <2>3. [task |-> t, phase |-> "ready"] \notin taskDeliveryId(d)
    BY <2>2
  <2> QED BY <1>1, <2>1, <2>3, IdsAssumption
<1>2. CASE terminalTaskId(d) # NoTask
  <2>1. deduplicationId(d) = {[task |-> terminalTaskId(d), phase |-> "ready"]}
    BY <1>2 DEF deduplicationId
  <2>2. [task |-> t, phase |-> "ready"].task = t
    OBVIOUS
  <2>3. [task |-> terminalTaskId(d), phase |-> "ready"].task = terminalTaskId(d)
    OBVIOUS
  <2> QED BY <2>1, <2>2, <2>3
<1> QED BY <1>1, <1>2

(* A step that leaves the registry's runs alone, admits an outcome only of *)
(* a run without one, and lets go of outcomes only by a cancel command or  *)
(* by reporting their whole cohort.                                        *)
LEMMA OutcomesKept ==
    ASSUME CohortsOK, EligibleEmptiesQueue',
           UNCHANGED cohortOf, settled \subseteq settled',
           cancelledTaskIds \subseteq cancelledTaskIds',
           \A t \in Tasks : ReadySeen(t) => ReadySeen(t)',
           \A t \in Tasks : ReadySeen(t)' =>
               ReadySeen(t) \/ (HasOutcome(t)' /\ cohortOf[t] # NoTask),
           \A t \in Tasks : HasOutcome(t)' => HasOutcome(t) \/ ~ReadySeen(t),
           \A t \in Tasks : cohortOf[t] # NoTask /\ HasOutcome(t) =>
               HasOutcome(t)' \/ Silenced(cohortOf[t])' \/ Reported(cohortOf[t])'
    PROVE  CohortsOK'
<1>1. FoundersBelong' /\ SeenAreRegistered'
  BY DEF CohortsOK, FoundersBelong, SeenAreRegistered
<1>2. ASSUME NEW t \in Tasks, cohortOf[t] # NoTask, ~Silenced(cohortOf[t])', ReadySeen(t)'
      PROVE  HasOutcome(t)' \/ Reported(cohortOf[t])'
  <2>1. ~Silenced(cohortOf[t])
    BY <1>2 DEF Silenced, Members
  <2>2. CASE HasOutcome(t)
    BY <1>2, <2>2
  <2>3. CASE ~HasOutcome(t) /\ ReadySeen(t)
    <3>1. Reported(cohortOf[t])
      BY <1>2, <2>1, <2>3 DEF CohortsOK, SeenUntilReported
    <3>2. \A u \in Members(cohortOf[t]) : ReadySeen(u)' /\ u \in settled' /\ ~HasOutcome(u)'
      BY <3>1 DEF Reported, Members
    <3> QED BY <3>2 DEF Reported, Members
  <2> QED BY <1>2, <2>2, <2>3
<1>3. SeenUntilReported'
  BY <1>2 DEF SeenUntilReported
<1> QED BY <1>1, <1>3 DEF CohortsOK

(* Steps that leave the outcomes in the queue as they are.                 *)
LEMMA OutcomesUntouched ==
    ASSUME CohortsOK, selection' = NoSelection \/ selection'.handoffEligible = FALSE,
           UNCHANGED <<cohortOf, cancelledTaskIds, seenTaskDeliveryIds>>,
           settled \subseteq settled',
           \A t \in Tasks : HasOutcome(t)' => HasOutcome(t),
           \A t \in Tasks : cohortOf[t] # NoTask /\ HasOutcome(t) => HasOutcome(t)'
    PROVE  CohortsOK'
<1>1. EligibleEmptiesQueue'
  BY DEF EligibleEmptiesQueue
<1>2. \A t \in Tasks : ReadySeen(t)' <=> ReadySeen(t)
  BY DEF ReadySeen
<1> QED BY <1>1, <1>2, OutcomesKept

(* The outcomes of registered runs are still there after routing.          *)
LEMMA RoutedOutcome ==
    ASSUME NEW t \in Tasks, cohortOf[t] # NoTask, NEW e \in entries, IsOutcomeOf(e, t)
    PROVE  e \in Routed
BY OutcomeCohort, OutcomeIsRouted

LEMMA AdmitsOutcome ==
    ASSUME IInv, CohortsOK, selection' = NoSelection, UNCHANGED cohortOf,
           settled \subseteq settled', NEW d \in Inputs, MayArrive(d),
           enqueueDelivery(Routed, d) \/ enqueueDelivery(entries, d)
    PROVE  CohortsOK'
<1>1. PICK E \in SUBSET entries : Routed \subseteq E /\ enqueueDelivery(E, d)
  BY RoutedIsQueued
<1>2. ASSUME NEW t \in Tasks, cohortOf[t] # NoTask, HasOutcome(t)
      PROVE  \E e \in E : IsOutcomeOf(e, t)
  BY <1>1, <1>2, RoutedOutcome DEF HasOutcome
<1>3. CASE Refused(d)
  <2>1. entries' = E /\ UNCHANGED <<cancelledTaskIds, seenTaskDeliveryIds>>
    BY <1>1, <1>3 DEF enqueueDelivery
  <2>2. \A t \in Tasks : cohortOf[t] # NoTask /\ HasOutcome(t) => HasOutcome(t)'
    BY <1>2, <2>1 DEF HasOutcome, IsOutcomeOf, IsDelivery, terminalTaskId
  <2>3. \A t \in Tasks : HasOutcome(t)' => HasOutcome(t)
    BY <2>1 DEF HasOutcome, IsOutcomeOf, IsDelivery, terminalTaskId
  <2> QED BY <2>1, <2>2, <2>3, OutcomesUntouched
<1>4. CASE ~Refused(d)
  <2>1. PICK new : new = [kind |-> "delivery", sequence |-> nextSequence, delivery |-> d]
    OBVIOUS
  <2>2. /\ entries' = E \cup {new}
        /\ seenTaskDeliveryIds' = seenTaskDeliveryIds \cup deduplicationId(d)
        /\ cancelledTaskIds' = cancelledTaskIds
    BY <1>1, <1>4, <2>1 DEF enqueueDelivery
  <2>3. \A t \in Tasks : IsOutcomeOf(new, t) <=> terminalTaskId(d) = t
    BY <2>1 DEF IsOutcomeOf, IsDelivery
  <2>4. \A t \in Tasks : ReadySeen(t)' <=> ReadySeen(t) \/ terminalTaskId(d) = t
    <3>1. \A t \in Tasks :
             [task |-> t, phase |-> "ready"] \in deduplicationId(d) <=> terminalTaskId(d) = t
      BY ReadyIds, Zenon
    <3>2. \A t \in Tasks :
             [task |-> t, phase |-> "ready"] \in seenTaskDeliveryIds'
               <=> \/ [task |-> t, phase |-> "ready"] \in seenTaskDeliveryIds
                   \/ [task |-> t, phase |-> "ready"] \in deduplicationId(d)
      BY <2>2, Zenon
    <3> QED BY <3>1, <3>2, Zenon DEF ReadySeen
  <2>5. \A t \in Tasks : HasOutcome(t)' =>
           (HasOutcome(t) \/ terminalTaskId(d) = t)
    BY <2>2, <2>3 DEF HasOutcome, IsOutcomeOf, IsDelivery, terminalTaskId
  <2>6. \A t \in Tasks : terminalTaskId(d) = t => HasOutcome(t)' /\ ~ReadySeen(t)
    <3> SUFFICES ASSUME NEW t \in Tasks, terminalTaskId(d) = t
                 PROVE  HasOutcome(t)' /\ ~ReadySeen(t)
      OBVIOUS
    <3>1. new \in entries' /\ IsOutcomeOf(new, t)
      BY <2>2, <2>3
    <3>2. HasOutcome(t)'
      BY <3>1 DEF HasOutcome, IsOutcomeOf, IsDelivery, terminalTaskId
    <3>3. [task |-> t, phase |-> "ready"] \in deduplicationId(d)
      BY ReadyIds
    <3> QED BY <1>4, <3>2, <3>3 DEF Refused, ReadySeen
  <2>7. \A t \in Tasks : terminalTaskId(d) = t => cohortOf[t] # NoTask
    BY IdsAssumption DEF MayArrive, terminalTaskId
  <2>8. \A t \in Tasks : cohortOf[t] # NoTask /\ HasOutcome(t) => HasOutcome(t)'
    BY <1>2, <2>2 DEF HasOutcome, IsOutcomeOf, IsDelivery, terminalTaskId
  <2>9. EligibleEmptiesQueue'
    BY DEF EligibleEmptiesQueue
  <2> QED BY <2>2, <2>4, <2>5, <2>6, <2>7, <2>8, <2>9, OutcomesKept
<1> QED BY <1>3, <1>4

LEMMA AdmitsNoOutcome ==
    ASSUME IInv, CohortsOK, selection' = NoSelection, UNCHANGED cohortOf,
           settled \subseteq settled',
           \/ \E c \in Commands : enqueueControl(Routed, c) \/ enqueueControl(entries, c)
           \/ \E a \in Attempts : enqueueAuthorization(Routed, a) \/ enqueueAuthorization(entries, a)
    PROVE  CohortsOK'
<1>1. PICK E \in SUBSET entries :
         /\ Routed \subseteq E
         /\ (\E c \in Commands : enqueueControl(E, c))
              \/ (\E a \in Attempts : enqueueAuthorization(E, a))
  BY RoutedIsQueued
<1>2. /\ UNCHANGED <<cancelledTaskIds, seenTaskDeliveryIds>>
      /\ E \subseteq entries'
      /\ \A e \in entries' : IsDelivery(e) => e \in entries
  <2>1. CASE \E c \in Commands : enqueueControl(E, c)
    BY <2>1 DEF enqueueControl, IsDelivery
  <2>2. CASE \E a \in Attempts : enqueueAuthorization(E, a)
    BY <2>2 DEF enqueueAuthorization, IsDelivery
  <2> QED BY <1>1, <2>1, <2>2
<1>3. \A t \in Tasks : cohortOf[t] # NoTask /\ HasOutcome(t) => HasOutcome(t)'
  BY <1>1, <1>2, RoutedOutcome DEF HasOutcome, IsOutcomeOf, IsDelivery, terminalTaskId
<1>4. \A t \in Tasks : HasOutcome(t)' => HasOutcome(t)
  BY <1>2 DEF HasOutcome, IsOutcomeOf, IsDelivery, terminalTaskId
<1> QED BY <1>2, <1>3, <1>4, OutcomesUntouched

(* A cancel command takes the outcome of the task it names, and with it    *)
(* silences the cohort of the task.                                        *)
LEMMA CancelSilences ==
    ASSUME IInv, CohortsOK, selection' = NoSelection, UNCHANGED cohortOf,
           settled \subseteq settled', NEW c \in Cancellable,
           cancelTask(Routed, c) \/ cancelTask(entries, c)
    PROVE  CohortsOK'
<1>1. PICK E \in SUBSET entries : Routed \subseteq E /\ cancelTask(E, c)
  BY RoutedIsQueued
<1>2. /\ cancelledTaskIds' = cancelledTaskIds \cup {c}
      /\ entries' = {e \in E : IsDelivery(e) => ~isTaskDelivery(e.delivery, c)}
      /\ UNCHANGED seenTaskDeliveryIds
  BY <1>1 DEF cancelTask
<1>3. \A t \in Tasks : HasOutcome(t)' => HasOutcome(t)
  BY <1>2 DEF HasOutcome, IsOutcomeOf, IsDelivery, terminalTaskId
<1>4. ASSUME NEW t \in Tasks, cohortOf[t] # NoTask, HasOutcome(t), t # c
      PROVE  HasOutcome(t)'
  <2>1. PICK e \in E : IsOutcomeOf(e, t)
    BY <1>1, <1>4, RoutedOutcome DEF HasOutcome
  <2>2. ~isTaskDelivery(e.delivery, c)
    <3>1. /\ e.delivery.notice # NoNotice
          /\ e.delivery.notice.task = t
      BY <2>1, IdsAssumption DEF IsOutcomeOf, terminalTaskId
    <3> QED BY <1>4, <3>1 DEF isTaskDelivery, taskDeliveryId
  <2>3. e \in entries'
    BY <1>2, <2>2
  <2> QED BY <2>1, <2>3 DEF HasOutcome, IsOutcomeOf, IsDelivery, terminalTaskId
<1>5. cohortOf[c] # NoTask => Silenced(cohortOf[c])'
  <2>1. c \in Tasks
    BY InputsAssumption
  <2> QED BY <1>2, <2>1 DEF Silenced, Members
<1>6. EligibleEmptiesQueue'
  BY DEF EligibleEmptiesQueue
<1>7. \A t \in Tasks : ReadySeen(t)' <=> ReadySeen(t)
  BY <1>2 DEF ReadySeen
<1>8. \A t \in Tasks : cohortOf[t] # NoTask /\ HasOutcome(t) =>
         HasOutcome(t)' \/ Silenced(cohortOf[t])'
  BY <1>4, <1>5
<1> QED BY <1>2, <1>3, <1>6, <1>7, <1>8, OutcomesKept

(* A selection with an outcome of a cohort is the whole queue has of that  *)
(* cohort, and no member of it is missing that may still report.           *)
LEMMA OutcomeSelected ==
    ASSUME NEW E \in SUBSET Entry, NEW fresh, Select(E, fresh) # NoSelection,
           NEW m \in Select(E, fresh).members, CohortOf(m) # NoTask
    PROVE  /\ Select(E, fresh).kind = "turn"
           /\ Select(E, fresh).members = Siblings(E, CohortOf(m))
           /\ CohortOf(m) \notin pendingCohorts
<1>0. IsDelivery(m)
  BY DEF CohortOf
<1>1. Select(E, fresh).kind \in {"turn", "control"}
  BY <1>0, SelectedFromQueue DEF IsDelivery
<1>2. /\ First(Actionable(E)) \in Actionable(E)
      /\ \/ /\ First(Boundary(E, First(Actionable(E)))) \in Boundary(E, First(Actionable(E)))
            /\ Select(E, fresh) =
                 takeSelectionAt(E, First(Boundary(E, First(Actionable(E)))), fresh)
         \/ Select(E, fresh) = takeSelectionAt(E, First(Actionable(E)), fresh)
  BY <1>1, SelectedAt
<1>3. PICK f \in E :
         /\ Select(E, fresh) = takeSelectionAt(E, f, fresh)
         /\ f \in Actionable(E) \/ CohortOf(f) = NoTask
  BY <1>2 DEF Actionable, Boundary
<1>4. CASE /\ f.kind = "control"
           /\ takeSelectionAt(E, f, fresh).members = {f}
  BY <1>0, <1>3, <1>4 DEF IsDelivery
<1>5. CASE /\ IsDelivery(f) /\ CohortOf(f) # NoTask
           /\ takeSelectionAt(E, f, fresh).members = Siblings(E, CohortOf(f))
  <2>1. CohortOf(m) = CohortOf(f)
    BY <1>3, <1>5 DEF Siblings
  <2>2. CohortOf(f) \notin pendingCohorts
    BY <1>3, <1>5 DEF Actionable, IsDelivery
  <2>3. takeSelectionAt(E, f, fresh).kind = "turn"
    BY <1>5 DEF takeSelectionAt, turnSelection, IsDelivery
  <2> QED BY <1>3, <1>5, <2>1, <2>2, <2>3
<1>6. CASE /\ IsDelivery(f) /\ CohortOf(f) = NoTask
           /\ takeSelectionAt(E, f, fresh).members = Batch(E, f)
  <2>1. m # f
    BY <1>6
  <2>2. Coalesces(f, m)
    BY <1>3, <1>6, <2>1, BatchCoalesces
  <2>3. terminalTaskId(m.delivery) = NoTask
    BY <2>2 DEF Coalesces, terminalTaskId
  <2> QED BY <2>3 DEF CohortOf, terminalCohort
<1> QED BY <1>1, <1>3, <1>4, <1>5, <1>6, SelectionForms

(* A selection that allows a handoff leaves nothing behind.                *)
LEMMA EligibleIsAll ==
    ASSUME NEW E \in SUBSET Entry, NEW fresh, Select(E, fresh) # NoSelection,
           Select(E, fresh).kind = "turn", Select(E, fresh).handoffEligible
    PROVE  E \subseteq Select(E, fresh).members
<1>1. PICK f \in E : Select(E, fresh) = takeSelectionAt(E, f, fresh)
  <2>1. Actionable(E) \subseteq E
    BY DEF Actionable
  <2>2. Boundary(E, First(Actionable(E))) \subseteq E
    BY DEF Boundary
  <2> QED BY <2>1, <2>2, SelectedAt
<1>2. f.kind \in {"control", "authorization", "delivery"}
  BY DEF Entry, DeliveryEntry, ControlEntry, AuthorizationEntry
<1>3. f.kind # "control"
  <2> SUFFICES ASSUME f.kind = "control" PROVE FALSE
    OBVIOUS
  <2>1. takeSelectionAt(E, f, fresh).kind = "control"
    BY DEF takeSelectionAt
  <2> QED BY <1>1, <2>1
<1>4. f.kind # "authorization"
  <2> SUFFICES ASSUME f.kind = "authorization" PROVE FALSE
    OBVIOUS
  <2>1. takeSelectionAt(E, f, fresh).kind = "authorization-resume"
    BY DEF takeSelectionAt
  <2> QED BY <1>1, <2>1
<1>5. Select(E, fresh) = turnSelection(E, f, fresh)
  BY <1>1, <1>2, <1>3, <1>4 DEF takeSelectionAt
<1>6. TurnEntries(E, f) = {f} /\ E = {f}
  BY <1>5 DEF turnSelection
<1>7. turnSelection(E, f, fresh).members = TurnEntries(E, f)
  BY DEF turnSelection
<1> QED BY <1>5, <1>6, <1>7

(* A cohort without a pending member: every member was seen or cancelled.  *)
LEMMA NothingPending ==
    ASSUME NEW k, k # NoTask, k \notin pendingCohorts, NEW u \in Tasks, cohortOf[u] = k
    PROVE  ReadySeen(u) \/ u \in cancelledTaskIds
<1> SUFFICES ASSUME ~ReadySeen(u), u \notin cancelledTaskIds PROVE FALSE
  OBVIOUS
<1>1. u \in {x \in Tasks : /\ cohortOf[x] # NoTask
                          /\ [task |-> x, phase |-> "ready"] \notin seenTaskDeliveryIds
                          /\ x \notin cancelledTaskIds}
  BY DEF ReadySeen
<1> QED BY <1>1 DEF pendingCohorts

LEMMA TakingKeepsCohorts ==
    ASSUME IInv, CohortsOK, NEW p \in BOOLEAN, NEW c \in BOOLEAN, TakeNext(p, c)
    PROVE  CohortsOK'
<1>1. PICK fresh \in Sequences \cup {NoFresh} :
         /\ selection' = Select(Routed, fresh)
         /\ selection' # NoSelection
         /\ selection'.members \subseteq Routed
         /\ entries' = Routed \ selection'.members
         /\ settled' = settled \cup SettledBy(entries)
         /\ UNCHANGED <<cancelledTaskIds, seenTaskDeliveryIds, nextSequence, cohortOf, expected>>
  BY NextTaken
<1>2. Routed \in SUBSET entries /\ Routed \in SUBSET Entry
  BY RoutedIsQueued DEF IInv, TypeOK
<1>3. EligibleEmptiesQueue'
  BY <1>1, <1>2, EligibleIsAll DEF EligibleEmptiesQueue
<1>4. /\ \A t \in Tasks : ReadySeen(t)' <=> ReadySeen(t)
      /\ \A k \in Tasks : Members(k)' = Members(k) /\ (Silenced(k)' <=> Silenced(k))
  BY <1>1 DEF ReadySeen, Members, Silenced
<1>5. \A t \in Tasks : HasOutcome(t)' <=> \E e \in Routed \ selection'.members : IsOutcomeOf(e, t)
  BY <1>1 DEF HasOutcome, IsOutcomeOf, IsDelivery, terminalTaskId
<1>6. \A t \in Tasks : HasOutcome(t)' => HasOutcome(t)
  BY <1>2, <1>5 DEF HasOutcome
<1>7. ASSUME NEW t \in Tasks, cohortOf[t] # NoTask, HasOutcome(t), ~HasOutcome(t)',
             ~Silenced(cohortOf[t])
      PROVE  Reported(cohortOf[t])'
  <2>1. PICK k \in Tasks : k = cohortOf[t]
    BY <1>7 DEF IInv, TypeOK
  <2>2. PICK m \in Routed : IsOutcomeOf(m, t)
    BY <1>7, RoutedOutcome DEF HasOutcome
  <2>3. m \in selection'.members
    BY <1>5, <1>7, <2>2
  <2>4. CohortOf(m) = k /\ k # NoTask
    BY <1>7, <2>1, <2>2, OutcomeCohort
  <2>5. selection'.members = Siblings(Routed, k) /\ k \notin pendingCohorts
    BY <1>1, <1>2, <2>3, <2>4, OutcomeSelected
  <2>6. \A u \in Members(k) : ReadySeen(u)
    <3>1. \A u \in Members(k) : u \in Tasks /\ cohortOf[u] = k /\ u \notin cancelledTaskIds
      BY <1>7, <2>1 DEF Members, Silenced
    <3> QED BY <2>4, <2>5, <3>1, NothingPending
  <2>7. t \in Members(k) /\ ~Reported(k)
    BY <1>7, <2>1 DEF Members, Reported
  <2>8. \A u \in Members(k) : HasOutcome(u)
    BY <1>7, <2>1, <2>4, <2>6, <2>7 DEF CohortsOK, SeenUntilReported, Members
  <2>9. \A u \in Members(k) : u \in settled'
    <3> SUFFICES ASSUME NEW u \in Members(k) PROVE u \in settled'
      OBVIOUS
    <3>1. PICK e \in entries : IsOutcomeOf(e, u)
      BY <2>8 DEF HasOutcome
    <3>2. u \in Tasks /\ cohortOf[u] # NoTask
      BY <2>4 DEF Members
    <3>3. u \in SettledBy(entries)
      BY <3>1, <3>2 DEF SettledBy, IsOutcomeOf
    <3> QED BY <1>1, <3>3
  <2>10. \A u \in Members(k) : ~HasOutcome(u)'
    <3> SUFFICES ASSUME NEW u \in Members(k), HasOutcome(u)' PROVE FALSE
      OBVIOUS
    <3>1. u \in Tasks /\ cohortOf[u] = k
      BY DEF Members
    <3>2. PICK e \in Routed \ selection'.members : IsOutcomeOf(e, u)
      BY <1>5, <3>1
    <3>3. CohortOf(e) = k
      BY <3>1, <3>2, OutcomeCohort
    <3> QED BY <2>5, <3>2, <3>3 DEF Siblings
  <2>11. \A u \in Members(k)' : ReadySeen(u)' /\ u \in settled' /\ ~HasOutcome(u)'
    BY <1>4, <2>6, <2>9, <2>10 DEF Members
  <2>12. cohortOf'[t] = k
    BY <1>1, <2>1
  <2> QED BY <2>11, <2>12 DEF Reported, Members
<1>8. \A t \in Tasks : cohortOf[t] # NoTask /\ HasOutcome(t) =>
         HasOutcome(t)' \/ Silenced(cohortOf[t])' \/ Reported(cohortOf[t])'
  <2>1. \A t \in Tasks : Silenced(cohortOf[t]) <=> Silenced(cohortOf[t])'
    BY <1>1 DEF Silenced, Members
  <2> QED BY <1>7, <2>1
<1> QED BY <1>1, <1>3, <1>4, <1>6, <1>8, OutcomesKept

(* A new run joins no cohort that has been reported: its members are all   *)
(* settled, and cohorts are joined through a run that is not.              *)
LEMMA RegistrationKeepsCohorts ==
    ASSUME IInv, CohortsOK, NEW r \in Registrable, registerWorkflowToolRun(r)
    PROVE  CohortsOK'
<1>0. /\ r \in Tasks
      /\ cohortOf \in [Tasks -> Tasks \cup {NoTask}]
  BY InputsAssumption DEF IInv, TypeOK
<1>1. /\ cohortOf[r] = NoTask
      /\ selection' = NoSelection
      /\ UNCHANGED <<entries, cancelledTaskIds, seenTaskDeliveryIds, settled>>
  BY DEF registerWorkflowToolRun, InTurn, queueVars
<1>2. PICK k \in Tasks :
         /\ cohortOf' = [cohortOf EXCEPT ![r] = k]
         /\ k = r \/ \E p \in pendingRuns : cohortOf[p] = k
  <2>1. CASE pendingRuns = {} /\ cohortOf' = [cohortOf EXCEPT ![r] = r]
    BY <1>0, <2>1
  <2>2. CASE \E p \in pendingRuns : cohortOf' = [cohortOf EXCEPT ![r] = cohortOf[p]]
    BY <1>0, <2>2 DEF pendingRuns
  <2> QED BY <2>1, <2>2, ZenonT(60) DEF registerWorkflowToolRun, cohortsToJoin
<1>3. /\ cohortOf'[r] = k
      /\ \A t \in Tasks \ {r} : cohortOf'[t] = cohortOf[t]
  BY <1>0, <1>2
<1>4. k # NoTask
  BY IdsAssumption
<1>5. FoundersBelong'
  <2>1. \A t \in Tasks : cohortOf[t] # NoTask =>
           cohortOf[t] \in Tasks \ {r} /\ cohortOf[cohortOf[t]] = cohortOf[t]
    BY <1>0, <1>1 DEF CohortsOK, FoundersBelong
  <2>2. cohortOf'[k] = k
    BY <1>2, <1>3, <1>4, <2>1 DEF pendingRuns
  <2>3. \A t \in Tasks : cohortOf'[t] # NoTask => cohortOf'[cohortOf'[t]] = cohortOf'[t]
    BY <1>3, <2>1, <2>2
  <2> QED BY <2>3 DEF FoundersBelong
<1>6. \A t \in Tasks : ReadySeen(t)' <=> ReadySeen(t)
  BY <1>1 DEF ReadySeen
<1>7. \A t \in Tasks : HasOutcome(t)' <=> HasOutcome(t)
  BY <1>1 DEF HasOutcome, IsOutcomeOf, IsDelivery, terminalTaskId
<1>8. SeenAreRegistered'
  BY <1>3, <1>4, <1>6 DEF CohortsOK, SeenAreRegistered
<1>9. EligibleEmptiesQueue'
  BY <1>1 DEF EligibleEmptiesQueue
<1>10. ASSUME NEW t \in Tasks, cohortOf'[t] # NoTask, ~Silenced(cohortOf[t])', ReadySeen(t)'
       PROVE  HasOutcome(t)' \/ Reported(cohortOf[t])'
  <2>1. t # r
    BY <1>1, <1>6, <1>10 DEF CohortsOK, SeenAreRegistered
  <2>2. cohortOf'[t] = cohortOf[t] /\ cohortOf[t] # NoTask
    BY <1>3, <1>10, <2>1
  <2>3. Members(cohortOf[t]) \subseteq Members(cohortOf[t])'
    BY <1>1, <1>3, <2>2 DEF Members
  <2>4. ~Silenced(cohortOf[t])
    BY <1>1, <1>10, <2>3 DEF Silenced
  <2>5. CASE HasOutcome(t)
    BY <1>7, <2>5
  <2>6. CASE Reported(cohortOf[t])
    <3>1. k # cohortOf[t]
      <4>1. CASE k = r
        <5>1. cohortOf[cohortOf[t]] = cohortOf[t]
          BY <2>2 DEF CohortsOK, FoundersBelong
        <5> QED BY <1>1, <2>2, <4>1, <5>1
      <4>2. CASE \E p \in pendingRuns : cohortOf[p] = k
        BY <2>6, <4>2 DEF Reported, Members, pendingRuns
      <4> QED BY <1>2, <4>1, <4>2
    <3>2. \A u \in Tasks : cohortOf'[u] = cohortOf[t] => cohortOf[u] = cohortOf[t]
      BY <1>3, <3>1
    <3>3. \A u \in Tasks : cohortOf'[u] = cohortOf[t] =>
             ReadySeen(u)' /\ u \in settled' /\ ~HasOutcome(u)'
      BY <1>1, <1>6, <1>7, <2>6, <3>2 DEF Reported, Members
    <3> QED BY <2>2, <3>3 DEF Reported, Members
  <2> QED BY <1>6, <1>10, <2>2, <2>4, <2>5, <2>6 DEF CohortsOK, SeenUntilReported
<1>11. SeenUntilReported'
  BY <1>10 DEF SeenUntilReported
<1> QED BY <1>5, <1>8, <1>9, <1>11 DEF CohortsOK

LEMMA CohortsKept == ASSUME IInv, CohortsOK, [Next]_vars PROVE CohortsOK'
<1> USE RoutedIsQueued
<1>0. CASE UNCHANGED vars
  BY <1>0 DEF vars, queueVars, registryVars, historyVars, CohortsOK, FoundersBelong,
     SeenAreRegistered, SeenUntilReported, EligibleEmptiesQueue, ReadySeen, Silenced, Members,
     HasOutcome, Reported, IsOutcomeOf, IsDelivery, terminalTaskId
<1>1. CASE \E d \in Inputs : ParkedDelivery(d) \/ TurnDelivery(d)
  <2>1. PICK d \in Inputs : ParkedDelivery(d) \/ TurnDelivery(d)
    BY <1>1
  <2>2. /\ MayArrive(d) /\ selection' = NoSelection
        /\ UNCHANGED cohortOf /\ settled \subseteq settled'
        /\ enqueueDelivery(Routed, d) \/ enqueueDelivery(entries, d)
    BY <2>1 DEF ParkedDelivery, TurnDelivery, Waiting, Admits, InTurn, registryVars
  <2> QED BY <2>2, AdmitsOutcome
<1>2. CASE \E c \in Commands : ParkedControl(c) \/ TurnControl(c)
  <2>1. PICK c \in Commands : ParkedControl(c) \/ TurnControl(c)
    BY <1>2
  <2>2. /\ selection' = NoSelection
        /\ UNCHANGED cohortOf /\ settled \subseteq settled'
        /\ enqueueControl(Routed, c) \/ enqueueControl(entries, c)
    BY <2>1 DEF ParkedControl, TurnControl, Waiting, InTurn, registryVars
  <2> QED BY <2>2, AdmitsNoOutcome
<1>3. CASE \E a \in Attempts : ParkedAuthorization(a) \/ TurnAuthorization(a)
  <2>1. PICK a \in Attempts : ParkedAuthorization(a) \/ TurnAuthorization(a)
    BY <1>3
  <2>2. /\ selection' = NoSelection
        /\ UNCHANGED cohortOf /\ settled \subseteq settled'
        /\ enqueueAuthorization(Routed, a) \/ enqueueAuthorization(entries, a)
    BY <2>1 DEF ParkedAuthorization, TurnAuthorization, Waiting, InTurn, registryVars
  <2> QED BY <2>2, AdmitsNoOutcome
<1>4. CASE \E t \in Cancellable : ParkedCancelTask(t) \/ TurnCancelTask(t)
  <2>1. PICK t \in Cancellable : ParkedCancelTask(t) \/ TurnCancelTask(t)
    BY <1>4
  <2>2. /\ selection' = NoSelection
        /\ UNCHANGED cohortOf /\ settled \subseteq settled'
        /\ cancelTask(Routed, t) \/ cancelTask(entries, t)
    BY <2>1 DEF ParkedCancelTask, TurnCancelTask, Waiting, InTurn, registryVars
  <2> QED BY <2>2, CancelSilences
<1>5. CASE \E p, c \in BOOLEAN : TakeNext(p, c)
  BY <1>5, TakingKeepsCohorts
<1>6. CASE TakeSteering
  <2>1. PICK steering \in SUBSET entries :
           /\ \A e \in steering : e.delivery.notice = NoNotice
           /\ entries' = entries \ steering
           /\ selection' = [kind |-> "turn", members |-> steering, handoffEligible |-> FALSE]
           /\ UNCHANGED <<cancelledTaskIds, seenTaskDeliveryIds, cohortOf, settled>>
    BY <1>6 DEF TakeSteering, isSteeringDelivery, registryVars
  <2>2. \A t \in Tasks, e \in steering : ~IsOutcomeOf(e, t)
    BY <2>1, IdsAssumption DEF IsOutcomeOf, terminalTaskId
  <2>3. \A t \in Tasks : HasOutcome(t)' <=> HasOutcome(t)
    BY <2>1, <2>2 DEF HasOutcome, IsOutcomeOf, IsDelivery, terminalTaskId
  <2> QED BY <2>1, <2>3, OutcomesUntouched
<1>7. CASE \E answers \in SUBSET Ordinaries(entries) : routeAdmittedToChildren(answers)
  <2>1. PICK answers \in SUBSET Ordinaries(entries) : routeAdmittedToChildren(answers)
    BY <1>7
  <2>2. PICK routed \in SUBSET entries :
           /\ entries' = AfterRouting(entries, routed) \ answers
           /\ settled' = settled \cup SettledBy(routed)
    BY <2>1 DEF routeAdmittedToChildren
  <2>3. /\ selection' = NoSelection
        /\ UNCHANGED <<cancelledTaskIds, seenTaskDeliveryIds, cohortOf>>
    BY <2>1 DEF routeAdmittedToChildren, InTurn
  <2>4. \A t \in Tasks, e \in entries : IsOutcomeOf(e, t) =>
           e.delivery.notice # NoNotice /\ e.delivery.notice.phase # "request"
    BY IdsAssumption DEF IsOutcomeOf, terminalTaskId, Outcomes
  <2>5. \A t \in Tasks, e \in entries : IsOutcomeOf(e, t) => e \in entries'
    BY <2>2, <2>4 DEF AfterRouting, Ordinaries
  <2>6. entries' \subseteq entries
    BY <2>2 DEF AfterRouting
  <2>7. \A t \in Tasks : HasOutcome(t)' <=> HasOutcome(t)
    BY <2>5, <2>6 DEF HasOutcome, IsOutcomeOf, IsDelivery, terminalTaskId
  <2> QED BY <2>2, <2>3, <2>7, OutcomesUntouched
<1>8. CASE \E t \in Registrable : registerWorkflowToolRun(t)
  BY <1>8, RegistrationKeepsCohorts
<1>9. CASE \/ \E tasks \in SUBSET pendingRuns : executeTaskControlAction(tasks)
           \/ cancelAllIndexedSessionTasks
           \/ \E A \in SUBSET Attempts : EndTurn(A)
  <2>1. /\ selection' = NoSelection /\ settled \subseteq settled'
        /\ UNCHANGED <<entries, cancelledTaskIds, seenTaskDeliveryIds, cohortOf>>
    BY <1>9 DEF executeTaskControlAction, cancelAllIndexedSessionTasks, EndTurn, queueVars,
       registryVars, InTurn
  <2>2. \A t \in Tasks : HasOutcome(t)' <=> HasOutcome(t)
    BY <2>1 DEF HasOutcome, IsOutcomeOf, IsDelivery, terminalTaskId
  <2> QED BY <2>1, <2>2, OutcomesUntouched
<1> QED
  BY <1>0, <1>1, <1>2, <1>3, <1>4, <1>5, <1>6, <1>7, <1>8, <1>9 DEF Next

LEMMA CohortsBegin == Init => CohortsOK
<1> SUFFICES ASSUME Init PROVE CohortsOK
  OBVIOUS
<1>1. \A t \in Tasks : cohortOf[t] = NoTask
  BY DEF Init
<1>2. \A t \in Tasks : ~ReadySeen(t)
  <2>1. \A id \in seenTaskDeliveryIds : id.phase = "self"
    BY DEF Init
  <2>2. \A t \in Tasks : [task |-> t, phase |-> "ready"].phase = "ready"
    OBVIOUS
  <2> QED BY <2>1, <2>2 DEF ReadySeen
<1>3. EligibleEmptiesQueue
  BY DEF Init, EligibleEmptiesQueue
<1> QED BY <1>1, <1>2, <1>3
     DEF CohortsOK, FoundersBelong, SeenAreRegistered, SeenUntilReported

(* The outcomes of an unreported cohort stay queued, every one of them.    *)
THEOREM OutcomesWaitForTheirCohort == Spec => [](IInv /\ PositionsOK /\ CohortsOK)
<1>1. Init => IInv /\ PositionsOK /\ CohortsOK
  BY InitEstablishes, CohortsBegin DEF Init, PositionsOK
<1>2. IInv /\ PositionsOK /\ CohortsOK /\ [Next]_vars => (IInv /\ PositionsOK /\ CohortsOK)'
  BY StepPreserves, PositionsKept, CohortsKept
<1> QED BY <1>1, <1>2, PTL DEF Spec

(* A cohort is reported whole, in one turn, if no cancel command silenced  *)
(* a run of it: launches between two outcomes, competing outcomes of one   *)
(* run and recorded cancellations notwithstanding.                         *)
THEOREM CohortsAreReportedWhole == Spec => CohortReportedWhole
<1>1. ASSUME IInv, PositionsOK, CohortsOK, Next, Selects, NEW m \in selection'.members,
             CohortOf(m) # NoTask, ~Silenced(CohortOf(m)),
             NEW t \in Members(CohortOf(m))
      PROVE  \E x \in selection'.members : terminalTaskId(x.delivery) = t
  <2>1. PICK fresh \in Sequences \cup {NoFresh} :
           /\ selection' = Select(Routed, fresh)
           /\ selection'.members \subseteq Routed
    BY <1>1, SelectedNext
  <2>2. Routed \in SUBSET entries /\ Routed \in SUBSET Entry /\ TypeOK
    BY <1>1, RoutedIsQueued DEF IInv, TypeOK
  <2>3. Select(Routed, fresh) # NoSelection
    BY <1>1, <2>1 DEF Selects
  <2>4. /\ selection'.members = Siblings(Routed, CohortOf(m))
        /\ CohortOf(m) \notin pendingCohorts
    BY <1>1, <2>1, <2>2, <2>3, OutcomeSelected
  <2>5. t \in Tasks /\ cohortOf[t] = CohortOf(m) /\ ReadySeen(t)
    <3>1. t \in Tasks /\ cohortOf[t] = CohortOf(m) /\ t \notin cancelledTaskIds
      BY <1>1 DEF Members, Silenced
    <3> QED BY <1>1, <2>4, <3>1, NothingPending
  <2>6. ~Reported(CohortOf(m))
    <3>1. PICK u \in Tasks : IsOutcomeOf(m, u) /\ cohortOf[u] = CohortOf(m)
      BY <1>1, <2>1, <2>2, CohortOutcome
    <3>2. HasOutcome(u) /\ u \in Members(CohortOf(m))
      BY <2>1, <2>2, <3>1 DEF HasOutcome, Members
    <3> QED BY <3>2 DEF Reported
  <2>7. HasOutcome(t)
    BY <1>1, <2>5, <2>6 DEF CohortsOK, SeenUntilReported
  <2>8. PICK x \in Routed : IsOutcomeOf(x, t)
    BY <1>1, <2>5, <2>7, RoutedOutcome DEF HasOutcome
  <2>9. x \in selection'.members
    BY <2>4, <2>5, <2>8, OutcomeCohort DEF Siblings
  <2> QED BY <2>8, <2>9 DEF IsOutcomeOf
<1>2. IInv /\ PositionsOK /\ CohortsOK /\ [Next]_vars =>
         [Selects /\ selection'.kind = "turn" =>
             \A m \in selection'.members : CohortOf(m) # NoTask /\ ~Silenced(CohortOf(m)) =>
                 Members(CohortOf(m)) \subseteq
                     {terminalTaskId(x.delivery) : x \in selection'.members}]_vars
  BY <1>1
<1> QED BY <1>2, OutcomesWaitForTheirCohort, PTL DEF Spec, CohortReportedWhole

(* When a selection lets the session move to another deployment, no cohort *)
(* is half seen: the successor, which starts with nothing seen, cannot     *)
(* report the other half on its own.                                       *)
THEOREM NoCohortIsHandedOverInHalves == Spec => []HandoffLeavesWholeCohorts
<1>1. ASSUME CohortsOK, selection # NoSelection, selection.kind = "turn",
             selection.handoffEligible,
             NEW t \in Tasks, NEW u \in Tasks, cohortOf[t] # NoTask, cohortOf[t] = cohortOf[u],
             ~Silenced(cohortOf[t]), ReadySeen(t)
      PROVE  ReadySeen(u)
  <2>1. entries = {}
    BY <1>1 DEF CohortsOK, EligibleEmptiesQueue
  <2>2. ~HasOutcome(t)
    BY <2>1 DEF HasOutcome
  <2>3. Reported(cohortOf[t])
    BY <1>1, <2>2 DEF CohortsOK, SeenUntilReported
  <2> QED BY <1>1, <2>3 DEF Reported, Members
<1>2. CohortsOK => HandoffLeavesWholeCohorts
  BY <1>1 DEF HandoffLeavesWholeCohorts
<1> QED BY <1>2, OutcomesWaitForTheirCohort, PTL
=============================================================================
