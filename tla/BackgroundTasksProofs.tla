----------------------- MODULE BackgroundTasksProofs -----------------------
(***************************************************************************)
(* Proofs about BackgroundTasks for any number of tasks and questions.     *)
(***************************************************************************)
EXTENDS BackgroundTasks, TLAPS

Inboxed == Outcomes \cup Requests

(***************************************************************************)
(* What the operators on queues do to the set of their members.            *)
(***************************************************************************)
LEMMA MembersOfAppend ==
    ASSUME NEW S, NEW s \in Seq(S), NEW x \in S
    PROVE  Append(s, x) \in Seq(S) /\ Members(Append(s, x)) = Members(s) \cup {x}
<1>1. Append(s, x) \in Seq(S) /\ Len(Append(s, x)) = Len(s) + 1
    OBVIOUS
<1>2. /\ \A i \in 1 .. Len(s) : Append(s, x)[i] = s[i]
      /\ Append(s, x)[Len(s) + 1] = x
    OBVIOUS
<1>3. 1 .. (Len(s) + 1) = (1 .. Len(s)) \cup {Len(s) + 1}
    OBVIOUS
<1> QED
    BY <1>1, <1>2, <1>3 DEF Members

LEMMA RemovalKeepsType ==
    ASSUME NEW S, NEW s \in Seq(S), NEW i \in 1 .. Len(s)
    PROVE  SubSeq(s, 1, i - 1) \o SubSeq(s, i + 1, Len(s)) \in Seq(S)
OBVIOUS

LEMMA Concatenation ==
    ASSUME NEW S, NEW a \in Seq(S), NEW b \in Seq(S)
    PROVE  /\ a \o b \in Seq(S) /\ Len(a \o b) = Len(a) + Len(b)
           /\ \A j \in 1 .. (Len(a) + Len(b)) :
                 (a \o b)[j] = IF j <= Len(a) THEN a[j] ELSE b[j - Len(a)]
OBVIOUS

LEMMA RemovalKeepsOthers ==
    ASSUME NEW S, NEW s \in Seq(S), NEW i \in 1 .. Len(s)
    PROVE  LET r == SubSeq(s, 1, i - 1) \o SubSeq(s, i + 1, Len(s))
           IN  /\ \A x \in Members(s) : x # s[i] => x \in Members(r)
               /\ Members(r) \subseteq Members(s)
<1> DEFINE a == SubSeq(s, 1, i - 1)
           b == SubSeq(s, i + 1, Len(s))
           r == a \o b
<1>1. a \in Seq(S) /\ Len(a) = i - 1 /\ \A j \in 1 .. (i - 1) : a[j] = s[j]
    OBVIOUS
<1>2. b \in Seq(S) /\ Len(b) = Len(s) - i /\ \A j \in 1 .. (Len(s) - i) : b[j] = s[i + j]
    OBVIOUS
<1> HIDE DEF a, b
<1>3. /\ r \in Seq(S) /\ Len(r) = Len(s) - 1
      /\ \A j \in 1 .. (Len(s) - 1) : r[j] = IF j < i THEN s[j] ELSE s[j + 1]
    <2>1. Len(s) \in Nat /\ i \in Nat
        OBVIOUS
    <2>2. r \in Seq(S) /\ Len(r) = Len(a) + Len(b)
        BY <1>1, <1>2, Concatenation
    <2>3. \A j \in 1 .. (Len(a) + Len(b)) : r[j] = IF j <= Len(a) THEN a[j] ELSE b[j - Len(a)]
        BY <1>1, <1>2, Concatenation
    <2>4. ASSUME NEW j \in 1 .. (Len(s) - 1)
          PROVE  r[j] = IF j < i THEN s[j] ELSE s[j + 1]
        <3>1. r[j] = IF j <= i - 1 THEN a[j] ELSE b[j - (i - 1)]
            BY <1>1, <1>2, <2>1, <2>3
        <3>2. CASE j < i
            BY <1>1, <2>1, <3>1, <3>2
        <3>3. CASE ~(j < i)
            <4>1. j - (i - 1) \in 1 .. (Len(s) - i) /\ i + (j - (i - 1)) = j + 1
                BY <2>1, <3>3
            <4> QED
                BY <1>2, <2>1, <3>1, <3>3, <4>1
        <3> QED
            BY <3>2, <3>3
    <2> QED
        BY <1>1, <1>2, <2>1, <2>2, <2>4
<1> HIDE DEF r
<1>4. ASSUME NEW k \in 1 .. Len(s), s[k] # s[i] PROVE s[k] \in Members(r)
    <2>1. CASE k < i
        BY <2>1, <1>3 DEF Members
    <2>2. CASE k > i
        <3>1. k - 1 \in 1 .. Len(r) /\ r[k - 1] = s[k]
            BY <2>2, <1>3
        <3> QED
            BY <3>1 DEF Members
    <2> QED
        BY <1>4, <2>1, <2>2
<1>5. Members(r) \subseteq Members(s)
    BY <1>3 DEF Members
<1> QED
    BY <1>4, <1>5 DEF Members, r, a, b

(***************************************************************************)
(* Types.                                                                  *)
(***************************************************************************)
Statuses == {"working"} \cup Final
CommandSet == {"ready", "reject-dispatch", "cancel"} \cup Questions

(* The types by what owns a variable.                                      *)
StepTypes ==
    /\ parent \in {"open", "step", "acknowledging", "cancelling", "ended"}
    /\ record \in [Tasks ->
            {"none", "starting", "delegated", "indexed", "rejected", "abandoned"}]
    /\ unready \subseteq Tasks /\ agent \in Tasks \cup {NoTask}
ControlTypes ==
    /\ control \in [kind : {"none", "tool", "all", "close"}, left : SUBSET Tasks,
                    at : Tasks \cup {NoTask}, over : BOOLEAN, views : SUBSET Tasks]
    /\ missed \subseteq Tasks /\ controls \in Nat /\ mishaps \in Nat
SettleTypes ==
    /\ outcome \in [Tasks -> Final \cup {"none"}]
    /\ asked \subseteq Questions
    /\ seen \in [Tasks -> SUBSET ({coordinatesOf[q] : q \in Questions} \cup {"ready"})]
    /\ told \in [Tasks -> SUBSET Final] /\ reports \in [Tasks -> Nat]
InboxTypes == inbox \in [Tasks -> Seq(Inboxed)]
BodyTypes ==
    /\ body \in [Tasks -> {"idle", "running"} \cup Final]
    /\ produced \in [Tasks -> Nat] /\ posed \subseteq Questions
    /\ messages \in [Tasks -> Seq(Requests \cup Updates)]
ViewTypes ==
    /\ run \in [Tasks -> {"none", "started", "owned", "over"}]
    /\ status \in [Tasks -> {"working"} \cup Final]
    /\ waiting \in [Tasks -> SUBSET Questions] /\ resumes \in [Questions -> Nat]
RunTypes ==
    /\ consumed \in [Tasks -> Nat] /\ heard \in [Tasks -> SUBSET Nat]
    /\ sending \in [Tasks -> Inboxed \cup Updates \cup {Nothing}]
CommandTypes == commands \in [Tasks -> Seq(CommandSet)]

Types == /\ StepTypes /\ ControlTypes /\ SettleTypes /\ InboxTypes
         /\ BodyTypes /\ ViewTypes /\ RunTypes /\ CommandTypes

LEMMA TypesAreTypeOK == Types <=> TypeOK
BY DEF Types, TypeOK, StepTypes, ControlTypes, SettleTypes, InboxTypes, BodyTypes, ViewTypes,
       RunTypes, CommandTypes, Inboxed, CommandSet

LEMMA TypeInit == Init => Types
<1> SUFFICES ASSUME Init PROVE Types
    OBVIOUS
<1> USE DEF Init
<1>1. StepTypes /\ ControlTypes /\ SettleTypes
    BY DEF StepTypes, ControlTypes, SettleTypes, NoControl
<1>2. InboxTypes /\ BodyTypes /\ ViewTypes /\ RunTypes /\ CommandTypes
    BY DEF InboxTypes, BodyTypes, ViewTypes, RunTypes, CommandTypes
<1> QED
    BY <1>1, <1>2 DEF Types

LEMMA SentIsTyped ==
    ASSUME CommandTypes, NEW T, NEW c \in CommandSet
    PROVE  Sent(T, c) \in [Tasks -> Seq(CommandSet)]
<1>1. \A t \in Tasks : commands[t] \in Seq(CommandSet)
    BY DEF CommandTypes
<1>2. \A t \in Tasks : Append(commands[t], c) \in Seq(CommandSet)
    BY <1>1
<1> QED
    BY <1>1, <1>2 DEF Sent

LEMMA NoticeIsTyped ==
    ASSUME InboxTypes, NEW t \in Tasks, NEW n \in Inboxed
    PROVE  Notified(t, n) \in [Tasks -> Seq(Inboxed)]
<1>1. inbox \in [Tasks -> Seq(Inboxed)]
    BY DEF InboxTypes
<1>2. Append(inbox[t], n) \in Seq(Inboxed)
    BY <1>1
<1> QED
    BY <1>1, <1>2 DEF Notified

(***************************************************************************)
(* What an action leaves alone keeps its type.                             *)
(***************************************************************************)
LEMMA SettleUnchanged == SettleTypes /\ UNCHANGED settleVars => SettleTypes'
BY DEF SettleTypes, settleVars

LEMMA BodyUnchanged == BodyTypes /\ UNCHANGED bodyVars => BodyTypes'
BY DEF BodyTypes, bodyVars

LEMMA ViewUnchanged == ViewTypes /\ UNCHANGED <<run, viewVars>> => ViewTypes'
BY DEF ViewTypes, viewVars

LEMMA ParentUnchanged ==
    ASSUME Types, UNCHANGED <<parentVars>>, mishaps' \in Nat
    PROVE  StepTypes' /\ ControlTypes' /\ SettleTypes' /\ InboxTypes'
BY DEF Types, StepTypes, ControlTypes, SettleTypes, InboxTypes, parentVars, stepVars,
       controlVars, settleVars

LEMMA RunUnchanged ==
    ASSUME Types, UNCHANGED runVars
    PROVE  ViewTypes' /\ RunTypes' /\ CommandTypes'
BY DEF Types, ViewTypes, RunTypes, CommandTypes, runVars, viewVars

LEMMA Repeated1 == ASSUME Types, NEW s, Repeat(s) PROVE mishaps' \in Nat
BY DEF Types, ControlTypes, Repeat

(***************************************************************************)
(* Types: the turn.                                                        *)
(***************************************************************************)
LEMMA TypeOfStart ==
    ASSUME Types, NEW t \in Tasks,
           startTask(t) \/ claimHook(t) \/ delegated(t) \/ startTimesOut(t)
    PROVE  Types'
<1> USE DEF Types, startTask, claimHook, delegated, startTimesOut
<1>1. StepTypes'
    BY DEF StepTypes, parentVars, stepVars
<1>2. ControlTypes' /\ SettleTypes' /\ InboxTypes'
    BY DEF ControlTypes, SettleTypes, InboxTypes, parentVars, controlVars, settleVars
<1>3. BodyTypes'
    BY BodyUnchanged
<1>4. ViewTypes'
    BY DEF ViewTypes, runVars, viewVars
<1>5. RunTypes' /\ CommandTypes'
    BY DEF RunTypes, CommandTypes, runVars
<1> QED
    BY <1>1, <1>2, <1>3, <1>4, <1>5

LEMMA TypeOfStepEnds ==
    ASSUME Types, NEW fate \in {"indexed", "rejected", "abandoned"}, StepEnds(fate),
           parent' \in {"open", "step", "acknowledging"}, unready' \subseteq Tasks,
           CommandTypes', mishaps' \in Nat
    PROVE  Types'
<1> USE DEF Types, StepEnds
<1>1. agent' \in Tasks \cup {NoTask}
    BY DEF StepTypes, compensated
<1>2. record' \in [Tasks -> {"none", "starting", "delegated", "indexed", "rejected",
                             "abandoned"}]
    BY DEF StepTypes
<1>3. StepTypes'
    BY <1>1, <1>2 DEF StepTypes
<1>4. ControlTypes' /\ SettleTypes' /\ InboxTypes'
    BY SettleUnchanged DEF ControlTypes, InboxTypes, controlVars
<1>5. BodyTypes' /\ ViewTypes' /\ RunTypes'
    BY BodyUnchanged, ViewUnchanged DEF RunTypes
<1> QED
    BY <1>3, <1>4, <1>5

LEMMA TypeOfStepEnd ==
    ASSUME Types, commit \/ rollback \/ stepDies
    PROVE  Types'
<1>1. CASE commit
    BY <1>1, TypeOfStepEnds
       DEF commit, Types, ControlTypes, CommandTypes, Delegated
<1>2. CASE rollback
    BY <1>2, TypeOfStepEnds, SentIsTyped
       DEF rollback, Types, StepTypes, ControlTypes, CommandTypes, CommandSet
<1>3. CASE stepDies
    <2>1. StepEnds("abandoned") /\ parent' = "step" /\ UNCHANGED <<unready, commands>>
        BY <1>3 DEF stepDies, StepEnds
    <2>2. unready' \subseteq Tasks /\ CommandTypes' /\ mishaps' \in Nat
        BY <1>3, <2>1, Repeated1 DEF stepDies, Types, StepTypes, CommandTypes
    <2> QED
        BY <2>1, <2>2, TypeOfStepEnds
<1> QED
    BY <1>1, <1>2, <1>3

LEMMA TypeOfAcknowledge ==
    ASSUME Types, NEW t \in Tasks, acknowledge(t)
    PROVE  Types'
<1> USE DEF Types, acknowledge
<1>1. CommandTypes'
    BY SentIsTyped DEF CommandTypes, CommandSet
<1>2. StepTypes'
    BY DEF StepTypes
<1>3. mishaps' \in Nat
    BY Repeated1 DEF ControlTypes
<1>4. ControlTypes' /\ SettleTypes' /\ InboxTypes'
    BY <1>3, SettleUnchanged DEF ControlTypes, InboxTypes, controlVars
<1>5. BodyTypes' /\ ViewTypes' /\ RunTypes'
    BY BodyUnchanged, ViewUnchanged DEF RunTypes
<1> QED
    BY <1>1, <1>2, <1>4, <1>5

(***************************************************************************)
(* Types: notices at the parent.                                           *)
(***************************************************************************)
LEMMA RecordedIsTyped ==
    ASSUME SettleTypes, NEW T, NEW s \in Final
    PROVE  /\ recorded(T, s) \in [Tasks -> Final \cup {"none"}]
           /\ \A t \in Tasks : t \in T => recorded(T, s)[t] \in Final
BY DEF SettleTypes, recorded

LEMMA TypeOfReport ==
    ASSUME Types, NEW t \in Tasks, NEW s \in Final, reportOutcome(t, s)
    PROVE  /\ outcome' \in [Tasks -> Final \cup {"none"}] /\ asked' \subseteq Questions
           /\ agent' \in Tasks \cup {NoTask}
           /\ told' \in [Tasks -> SUBSET Final] /\ reports' \in [Tasks -> Nat]
<1> USE DEF Types, reportOutcome, recordTerminalViews
<1>1. outcome' \in [Tasks -> Final \cup {"none"}] /\ outcome'[t] \in Final
    BY RecordedIsTyped
<1>2. asked' \subseteq Questions /\ agent' \in Tasks \cup {NoTask}
    BY DEF SettleTypes, StepTypes
<1>3. told' \in [Tasks -> SUBSET Final]
    BY <1>1 DEF SettleTypes
<1>4. reports' \in [Tasks -> Nat]
    BY DEF SettleTypes
<1> QED
    BY <1>1, <1>2, <1>3, <1>4

LEMMA TypeOfRoute ==
    ASSUME Types, NEW t \in Tasks, NEW i \in DOMAIN inbox[t], route(t, i)
    PROVE  Types'
<1> DEFINE n == inbox[t][i]
<1> USE DEF Types
<1>1. inbox[t] \in Seq(Inboxed) /\ i \in 1 .. Len(inbox[t])
    BY DEF InboxTypes
<1>2. n \in Inboxed
    BY <1>1
<1>3. InboxTypes'
    BY <1>1, RemovalKeepsType DEF route, InboxTypes
<1>4. DeliveryId(n) \in {coordinatesOf[q] : q \in Questions} \cup {"ready"}
    BY <1>2 DEF Inboxed, Outcomes, Requests, DeliveryId
<1>5. seen' \in [Tasks -> SUBSET ({coordinatesOf[q] : q \in Questions} \cup {"ready"})]
    BY <1>4 DEF route, SettleTypes
<1>6. /\ outcome' \in [Tasks -> Final \cup {"none"}] /\ asked' \subseteq Questions
      /\ agent' \in Tasks \cup {NoTask}
      /\ told' \in [Tasks -> SUBSET Final] /\ reports' \in [Tasks -> Nat]
    <2>1. CASE UNCHANGED <<outcome, asked, agent, told, reports>>
        BY <2>1 DEF SettleTypes, StepTypes
    <2>2. CASE n.kind = "ask" /\ recordTaskInputRequest(t, n.question)
        <3>1. n.question \in Questions
            BY <1>2, <2>2 DEF Inboxed, Outcomes, Requests
        <3> QED
            BY <2>2, <3>1 DEF recordTaskInputRequest, SettleTypes, StepTypes
    <2>3. CASE n.kind # "ask" /\ reportOutcome(t, n.status)
        <3>1. n.status \in Final
            BY <1>2, <2>3 DEF Inboxed, Outcomes, Requests
        <3> QED
            BY <2>3, <3>1, TypeOfReport
    <2> QED
        BY <2>1, <2>2, <2>3 DEF route
<1>7. StepTypes' /\ ControlTypes' /\ SettleTypes'
    BY <1>5, <1>6 DEF route, StepTypes, ControlTypes, SettleTypes, stepVars, controlVars
<1>8. BodyTypes' /\ ViewTypes' /\ RunTypes' /\ CommandTypes'
    BY BodyUnchanged, RunUnchanged DEF route
<1> QED
    BY <1>3, <1>7, <1>8

LEMMA TypeOfAnswer ==
    ASSUME Types, NEW q \in Questions, answer(q)
    PROVE  Types'
<1> USE DEF Types, answer
<1>1. CommandTypes'
    BY SentIsTyped DEF CommandTypes, CommandSet
<1>2. StepTypes' /\ InboxTypes'
    BY DEF StepTypes, InboxTypes, stepVars
<1>3. mishaps' \in Nat
    BY Repeated1 DEF ControlTypes
<1>4. ControlTypes'
    BY <1>3 DEF ControlTypes, controlVars
<1>5. SettleTypes'
    BY DEF SettleTypes
<1>6. BodyTypes' /\ ViewTypes' /\ RunTypes'
    BY BodyUnchanged, ViewUnchanged DEF RunTypes
<1> QED
    BY <1>1, <1>2, <1>4, <1>5, <1>6

LEMMA TypeOfHandOff ==
    ASSUME Types, handOff
    PROVE  Types'
<1> USE DEF Types, handOff
<1>1. StepTypes' /\ ControlTypes' /\ InboxTypes'
    BY DEF StepTypes, ControlTypes, InboxTypes, stepVars, controlVars
<1>2. SettleTypes'
    BY DEF SettleTypes
<1>3. BodyTypes' /\ ViewTypes' /\ RunTypes' /\ CommandTypes'
    BY BodyUnchanged, RunUnchanged
<1> QED
    BY <1>1, <1>2, <1>3

(***************************************************************************)
(* Types: cancellation.                                                    *)
(***************************************************************************)
LEMMA TypeOfControl ==
    ASSUME Types,
           control' \in [kind : {"none", "tool", "all", "close"}, left : SUBSET Tasks,
                    at : Tasks \cup {NoTask}, over : BOOLEAN, views : SUBSET Tasks],
           missed' \subseteq Tasks, UNCHANGED controls, mishaps' \in Nat
    PROVE  ControlTypes'
BY DEF Types, ControlTypes

LEMMA TypeOfBegin ==
    ASSUME Types, NEW kind \in {"tool", "all", "close"}, NEW T \in SUBSET Tasks,
           beginControl(kind, T)
    PROVE  Types'
<1> USE DEF Types, beginControl
<1>1. control' \in [kind : {"none", "tool", "all", "close"}, left : SUBSET Tasks,
                    at : Tasks \cup {NoTask}, over : BOOLEAN, views : SUBSET Tasks]
    BY DEF NoControl
<1>2. ControlTypes'
    BY <1>1 DEF ControlTypes
<1>3. StepTypes' /\ SettleTypes' /\ InboxTypes'
    BY SettleUnchanged DEF StepTypes, InboxTypes
<1>4. BodyTypes' /\ ViewTypes' /\ RunTypes' /\ CommandTypes'
    BY BodyUnchanged, RunUnchanged
<1> QED
    BY <1>2, <1>3, <1>4

LEMMA TypeOfCancellation ==
    ASSUME Types, NEW t \in Tasks,
           \/ skipSettled(t) \/ signalCancel(t)
           \/ settleCancellation(t) \/ notifyCancelled(t) \/ cancellationFails(t)
    PROVE  Types'
<1> USE DEF Types, skipSettled, signalCancel, settleCancellation, notifyCancelled,
            cancellationFails, remaining
<1>1. control' \in [kind : {"none", "tool", "all", "close"}, left : SUBSET Tasks,
                    at : Tasks \cup {NoTask}, over : BOOLEAN, views : SUBSET Tasks]
    <2> USE DEF ControlTypes
    <2>1. CASE skipSettled(t)
        BY <2>1
    <2>2. CASE signalCancel(t)
        BY <2>2
    <2>3. CASE settleCancellation(t)
        BY <2>3
    <2>4. CASE notifyCancelled(t)
        BY <2>4
    <2>5. CASE cancellationFails(t)
        BY <2>5
    <2> QED
        BY <2>1, <2>2, <2>3, <2>4, <2>5
<1>2. ControlTypes'
    BY <1>1 DEF ControlTypes
<1>3. StepTypes' /\ SettleTypes'
    BY SettleUnchanged DEF StepTypes, stepVars
<1>4. InboxTypes'
    BY NoticeIsTyped
       DEF InboxTypes, ownNotice, Settled, Inboxed, Outcomes, Final
<1>5. BodyTypes'
    BY BodyUnchanged
<1>6. CommandTypes'
    BY SentIsTyped DEF CommandTypes, CommandSet, runVars
<1>7. ViewTypes' /\ RunTypes'
    BY DEF ViewTypes, RunTypes, runVars, viewVars, stopped
<1> QED
    BY <1>2, <1>3, <1>4, <1>5, <1>6, <1>7

LEMMA TypeOfEndControl ==
    ASSUME Types, endControl
    PROVE  Types'
<1> USE DEF Types, endControl
<1>1. ControlTypes'
    BY DEF ControlTypes, NoControl
<1>2. /\ outcome' = recorded(control.views, "cancelled")
      /\ asked' \subseteq asked /\ agent' \in {agent, NoTask}
    BY DEF recordTerminalViews
<1>3. /\ outcome' \in [Tasks -> Final \cup {"none"}]
      /\ \A t \in Tasks : t \in control.views => outcome'[t] \in Final
    BY <1>2, RecordedIsTyped DEF Final
<1>4. told' \in [Tasks -> SUBSET Final]
    <2>1. \A t \in Tasks : t \in control.views => told[t] \cup {outcome'[t]} \in SUBSET Final
        BY <1>3 DEF SettleTypes
    <2> QED
        BY <2>1 DEF SettleTypes
<1>5. SettleTypes'
    BY <1>2, <1>3, <1>4 DEF SettleTypes
<1>6. StepTypes' /\ InboxTypes'
    BY <1>2 DEF StepTypes, InboxTypes
<1>7. BodyTypes' /\ ViewTypes' /\ RunTypes' /\ CommandTypes'
    BY BodyUnchanged, RunUnchanged
<1> QED
    BY <1>1, <1>5, <1>6, <1>7

LEMMA TypeOfControlDies ==
    ASSUME Types, controlDies
    PROVE  Types'
<1> USE DEF Types, controlDies
<1>1. control' \in [kind : {"none", "tool", "all", "close"}, left : SUBSET Tasks,
                    at : Tasks \cup {NoTask}, over : BOOLEAN, views : SUBSET Tasks]
    <2> DEFINE L == IF control.kind = "tool"
                    THEN control.left \cup control.views \cup ({control.at} \ {NoTask})
                    ELSE Indexed
    <2>1. L \in SUBSET Tasks /\ control.kind \in {"none", "tool", "all", "close"}
        BY DEF ControlTypes, Indexed
    <2>2. control' = [NoControl EXCEPT !.kind = control.kind, !.left = L]
        OBVIOUS
    <2> HIDE DEF L
    <2> QED
        BY <2>1, <2>2 DEF NoControl
<1>2. ControlTypes'
    BY <1>1, Repeated1 DEF ControlTypes
<1>3. StepTypes' /\ SettleTypes' /\ InboxTypes'
    BY SettleUnchanged DEF StepTypes, stepVars, InboxTypes
<1>4. BodyTypes' /\ ViewTypes' /\ RunTypes' /\ CommandTypes'
    BY BodyUnchanged, RunUnchanged
<1> QED
    BY <1>2, <1>3, <1>4

(***************************************************************************)
(* Types: the body and the run.                                            *)
(***************************************************************************)
LEMMA TypeOfBody ==
    ASSUME Types, NEW t \in Tasks, stepOfBody(t)
    PROVE  Types'
<1> USE DEF Types
<1>1. BodyTypes'
    <2>1. messages[t] \in Seq(Requests \cup Updates) /\ produced[t] \in Nat
        BY DEF BodyTypes
    <2>2. CASE bodyReports(t)
        <3>1. Append(messages[t], Update(produced[t] + 1)) \in Seq(Requests \cup Updates)
            BY <2>1 DEF Update, Updates
        <3> QED
            BY <2>1, <2>2, <3>1 DEF bodyReports, BodyTypes
    <2>3. CASE bodyReportsAgain(t)
        <3>1. Append(messages[t], Update(produced[t])) \in Seq(Requests \cup Updates)
            BY <2>1 DEF Update, Updates
        <3> QED
            BY <2>1, <2>3, <3>1 DEF bodyReportsAgain, BodyTypes
    <2>4. ASSUME NEW q \in Questions, bodyAsks(t, q) PROVE BodyTypes'
        <3>1. Append(messages[t], Asks(q)) \in Seq(Requests \cup Updates)
            BY <2>1 DEF Asks, Requests
        <3> QED
            BY <2>1, <2>4, <3>1 DEF bodyAsks, BodyTypes
    <2>5. ASSUME NEW result \in Final, bodyReturns(t, result) PROVE BodyTypes'
        BY <2>5 DEF bodyReturns, BodyTypes
    <2> QED
        BY <2>2, <2>3, <2>4, <2>5 DEF stepOfBody
<1>2. UNCHANGED <<parentVars, runVars>> /\ mishaps' \in Nat
    BY Repeated1
       DEF stepOfBody, bodyReports, bodyReportsAgain, bodyAsks, bodyReturns, ControlTypes
<1> QED
    BY <1>1, <1>2, ParentUnchanged, RunUnchanged

LEMMA TypeOfReadCommand ==
    ASSUME Types, NEW t \in Tasks, readCommand(t)
    PROVE  Types'
<1> DEFINE c == Head(commands[t])
<1> USE DEF Types
<1>1. commands[t] \in Seq(CommandSet) /\ commands[t] # <<>>
    BY DEF CommandTypes, readCommand
<1>2. c \in CommandSet /\ Tail(commands[t]) \in Seq(CommandSet)
    BY <1>1
<1>3. CommandTypes'
    BY <1>2 DEF CommandTypes, readCommand
<1>4. /\ StepTypes' /\ ControlTypes' /\ SettleTypes' /\ InboxTypes'
    BY ParentUnchanged DEF readCommand, ControlTypes
<1>5. ViewTypes' /\ BodyTypes' /\ RunTypes'
    <2>1. UNCHANGED <<produced, messages, posed, consumed, heard>>
        BY DEF readCommand
    <2>2. CASE UNCHANGED <<run, viewVars, body, sending>>
        BY <2>1, <2>2 DEF ViewTypes, BodyTypes, RunTypes, viewVars
    <2>3. CASE handleReady(t) /\ UNCHANGED <<run, viewVars>>
        <3>1. Terminal(t) => Settled(status[t]) \in Inboxed
            BY DEF Terminal, Settled, Inboxed, Outcomes
        <3> QED
            BY <2>1, <2>3, <3>1 DEF handleReady, ViewTypes, BodyTypes, RunTypes, viewVars
    <2>4. CASE handleReject(t) /\ UNCHANGED <<resumes, body>>
        BY <2>1, <2>4 DEF handleReject, becomes, ViewTypes, BodyTypes, RunTypes, Final
    <2>5. CASE becomes(t, "cancelled") /\ UNCHANGED <<run, resumes, body, sending>>
        BY <2>1, <2>5 DEF becomes, ViewTypes, BodyTypes, RunTypes, Final
    <2>6. CASE c \in Questions /\ handleAnswer(t, c) /\ UNCHANGED <<run, status, body, sending>>
        <3>1. waiting' \in [Tasks -> SUBSET Questions]
            BY <2>6 DEF handleAnswer, ViewTypes
        <3>2. resumes' \in [Questions -> Nat]
            BY <2>6 DEF handleAnswer, ViewTypes
        <3> QED
            BY <2>1, <2>6, <3>1, <3>2 DEF ViewTypes, BodyTypes, RunTypes
    <2> QED
        BY <1>2, <2>2, <2>3, <2>4, <2>5, <2>6 DEF readCommand, CommandSet
<1> QED
    BY <1>3, <1>4, <1>5

LEMMA TypeOfReadMessage ==
    ASSUME Types, NEW t \in Tasks, readMessage(t)
    PROVE  Types'
<1> DEFINE m == Head(messages[t])
<1> USE DEF Types
<1>1. messages[t] \in Seq(Requests \cup Updates) /\ messages[t] # <<>>
    BY DEF BodyTypes, readMessage
<1>2. m \in Requests \cup Updates /\ Tail(messages[t]) \in Seq(Requests \cup Updates)
    BY <1>1
<1>3. BodyTypes'
    BY <1>2 DEF BodyTypes, readMessage
<1>4. StepTypes' /\ ControlTypes' /\ SettleTypes' /\ InboxTypes'
    BY ParentUnchanged DEF readMessage, ControlTypes
<1>5. ViewTypes'
    BY <1>2 DEF ViewTypes, readMessage, Requests, Updates
<1>6. RunTypes'
    <2>1. consumed' \in [Tasks -> Nat] /\ heard' \in [Tasks -> SUBSET Nat]
        <3>1. \/ consumed' = consumed
              \/ consumed' = [consumed EXCEPT ![t] = consumed[t] + 1]
            BY DEF readMessage
        <3>2. heard' = heard
            BY DEF readMessage
        <3> QED
            BY <3>1, <3>2 DEF RunTypes
    <2>2. m \in Inboxed \cup Updates \cup {Nothing}
        BY <1>2 DEF Inboxed
    <2>3. sending' = sending \/ sending' = [sending EXCEPT ![t] = m]
        BY DEF readMessage
    <2>4. sending' \in [Tasks -> Inboxed \cup Updates \cup {Nothing}]
        BY <2>2, <2>3 DEF RunTypes
    <2> QED
        BY <2>1, <2>4 DEF RunTypes
<1>7. CommandTypes'
    BY DEF CommandTypes, readMessage
<1> QED
    BY <1>3, <1>4, <1>5, <1>6, <1>7

LEMMA TypeOfSettle ==
    ASSUME Types, NEW t \in Tasks, settle(t)
    PROVE  Types'
<1> USE DEF Types, settle
<1>1. StepTypes' /\ ControlTypes' /\ SettleTypes' /\ InboxTypes'
    BY ParentUnchanged DEF ControlTypes
<1>2. ViewTypes' /\ status'[t] \in Final
    BY DEF ViewTypes, becomes, Terminal, Final
<1>3. RunTypes' /\ CommandTypes'
    BY <1>2 DEF RunTypes, CommandTypes, Settled, Inboxed, Outcomes
<1>4. BodyTypes'
    BY BodyUnchanged
<1> QED
    BY <1>1, <1>2, <1>3, <1>4

LEMMA TypeOfNotify ==
    ASSUME Types, NEW t \in Tasks, notify(t)
    PROVE  Types'
<1> DEFINE n == sending[t]
<1> USE DEF Types
<1>1. n \in Inboxed \cup Updates
    BY DEF notify, RunTypes
<1>2. mishaps' \in Nat
    BY Repeated1 DEF notify, ControlTypes
<1>3. StepTypes' /\ ControlTypes' /\ SettleTypes'
    BY <1>2, SettleUnchanged DEF notify, StepTypes, stepVars, ControlTypes, controlVars
<1>4. InboxTypes'
    <2>1. n.kind # "update" => n \in Inboxed
        BY <1>1 DEF Updates
    <2> QED
        BY <2>1, NoticeIsTyped DEF notify, InboxTypes
<1>5. RunTypes'
    <2>1. n.kind = "update" => n.index \in Nat
        BY <1>1 DEF Updates, Inboxed, Outcomes, Requests
    <2> QED
        BY <2>1 DEF notify, RunTypes
<1>6. ViewTypes' /\ CommandTypes' /\ BodyTypes'
    BY BodyUnchanged DEF notify, ViewTypes, viewVars, CommandTypes
<1> QED
    BY <1>3, <1>4, <1>5, <1>6

(* Every action keeps the types.                                           *)
LEMMA TypeStep == Types /\ [Next]_vars => Types'
<1> SUFFICES ASSUME Types, [Next]_vars PROVE Types'
    OBVIOUS
<1>1. CASE stepOfParent
    BY <1>1, TypeOfStepEnd, TypeOfAcknowledge, TypeOfRoute DEF stepOfParent
<1>2. CASE stepOfControl
    BY <1>2, TypeOfCancellation, TypeOfEndControl DEF stepOfControl
<1>3. CASE rollback \/ stepDies
    BY <1>3, TypeOfStepEnd
<1>4. CASE controlDies \/ handOff
    BY <1>4, TypeOfControlDies, TypeOfHandOff
<1>5. CASE (\E T \in SUBSET Indexed : cancelTasks(T)) \/ cancelAll \/ closeSession
    <2>1. Indexed \subseteq Tasks
        BY DEF Indexed
    <2> QED
        BY <1>5, <2>1, TypeOfBegin DEF cancelTasks, cancelAll, closeSession
<1>6. ASSUME NEW q \in Questions, answer(q) PROVE Types'
    BY <1>6, TypeOfAnswer
<1>7. ASSUME NEW t \in Tasks,
             \/ startTask(t) \/ claimHook(t) \/ delegated(t) \/ startTimesOut(t)
             \/ cancellationFails(t)
      PROVE  Types'
    BY <1>7, TypeOfStart, TypeOfCancellation
<1>8. ASSUME NEW t \in Tasks, stepOfRun(t) PROVE Types'
    BY <1>8, TypeOfReadCommand, TypeOfReadMessage, TypeOfSettle, TypeOfNotify DEF stepOfRun
<1>9. ASSUME NEW t \in Tasks, stepOfBody(t) PROVE Types'
    BY <1>9, TypeOfBody
<1>10. CASE UNCHANGED vars
    <2>1. UNCHANGED <<parentVars, bodyVars, runVars, mishaps>>
        BY <1>10 DEF vars
    <2>2. mishaps' \in Nat
        BY <2>1 DEF Types, ControlTypes
    <2> QED
        BY <2>1, <2>2, ParentUnchanged, RunUnchanged, BodyUnchanged DEF Types
<1> QED
    BY <1>1, <1>2, <1>3, <1>4, <1>5, <1>6, <1>7, <1>8, <1>9, <1>10 DEF Next

(***************************************************************************)
(* Silence: a task out of the index has nothing queued but a rejection,    *)
(* and the parent refers to tasks of its index only.  Questions travel     *)
(* with the task that asked them.                                          *)
(***************************************************************************)
Quiet(t) == /\ body[t] = "idle" /\ sending[t] = Nothing
            /\ inbox[t] = <<>> /\ messages[t] = <<>>
            /\ Members(commands[t]) \subseteq {"reject-dispatch"}
OthersAreQuiet == \A t \in Tasks \ Indexed : Quiet(t)

References ==
    /\ unready \subseteq Indexed
    /\ control.left \subseteq Indexed /\ control.views \subseteq Indexed
    /\ control.at \in Indexed \cup {NoTask}
    /\ \A q \in asked : taskOf[q] \in Indexed

Own(m, t) == m.kind = "ask" => taskOf[m.question] = t
OwnQuestions ==
    \A t \in Tasks : /\ \A m \in Members(messages[t]) : Own(m, t)
                     /\ \A m \in Members(inbox[t]) : Own(m, t)
                     /\ Own(sending[t], t)

Silence == OthersAreQuiet /\ References /\ OwnQuestions

LEMMA MembersOfNone == Members(<<>>) = {}
BY DEF Members

LEMMA HeadAndTail ==
    ASSUME NEW S, NEW s \in Seq(S), s # <<>>
    PROVE  /\ Head(s) \in S /\ Head(s) \in Members(s)
           /\ Tail(s) \in Seq(S) /\ Members(Tail(s)) \subseteq Members(s)
<1>1. Len(s) \in Nat /\ Len(s) # 0
    OBVIOUS
<1>2. Head(s) = s[1] /\ s[1] \in S
    BY <1>1
<1>3. Tail(s) \in Seq(S) /\ Len(Tail(s)) = Len(s) - 1
    BY <1>1
<1>4. \A i \in 1 .. Len(Tail(s)) : Tail(s)[i] = s[i + 1] /\ i + 1 \in 1 .. Len(s)
    BY <1>1, <1>3
<1> QED
    BY <1>1, <1>2, <1>3, <1>4 DEF Members

LEMMA SilenceInit == Init => Silence
<1> SUFFICES ASSUME Init PROVE Silence
    OBVIOUS
<1> USE DEF Init
<1>1. OthersAreQuiet
    BY MembersOfNone DEF OthersAreQuiet, Quiet
<1>2. References
    BY DEF References, NoControl
<1>3. OwnQuestions
    BY MembersOfNone DEF OwnQuestions, Own, Nothing
<1> QED
    BY <1>1, <1>2, <1>3 DEF Silence

LEMMA IndexGrows == Types /\ Next => Indexed \subseteq Indexed'
<1> SUFFICES ASSUME Types, Next, NEW t \in Tasks, record[t] = "indexed"
             PROVE  record'[t] = "indexed"
    BY DEF Indexed
<1>1. CASE UNCHANGED record
    BY <1>1
<1>2. ASSUME NEW u \in Tasks, startTask(u) \/ delegated(u) \/ startTimesOut(u)
      PROVE  record'[t] = "indexed"
    BY <1>2 DEF startTask, delegated, startTimesOut, Types, StepTypes
<1>3. ASSUME NEW fate, StepEnds(fate) PROVE record'[t] = "indexed"
    BY <1>3 DEF StepEnds
<1> QED
    BY <1>1, <1>2, <1>3
       DEF Next, stepOfParent, stepOfControl, stepOfRun, stepOfBody, commit, rollback, stepDies,
           acknowledge, route, answer, handOff, beginControl, cancelTasks, cancelAll,
           closeSession, skipSettled, signalCancel, settleCancellation, notifyCancelled,
           cancellationFails, endControl, controlDies, claimHook, bodyReports, bodyReportsAgain, bodyAsks,
           bodyReturns, readCommand, readMessage, settle, notify, parentVars, stepVars

(* An action that touches none of the queues.                              *)
LEMMA QueuesUntouched ==
    ASSUME Silence, Indexed \subseteq Indexed', References',
           UNCHANGED <<body, sending, inbox, messages, commands>>
    PROVE  Silence'
<1>1. \A t \in Tasks \ Indexed' : t \in Tasks \ Indexed
    OBVIOUS
<1>2. OthersAreQuiet'
    BY <1>1 DEF Silence, OthersAreQuiet, Quiet
<1>3. OwnQuestions'
    BY DEF Silence, OwnQuestions, Own
<1> QED
    BY <1>2, <1>3 DEF Silence

LEMMA SilenceOfTurn ==
    ASSUME Types, Silence, Next, NEW t \in Tasks,
           startTask(t) \/ claimHook(t) \/ delegated(t) \/ startTimesOut(t)
    PROVE  Silence'
<1>1. /\ UNCHANGED <<body, sending, inbox, messages, commands>>
      /\ UNCHANGED <<unready, control, asked>>
    BY DEF startTask, claimHook, delegated, startTimesOut, parentVars, stepVars, bodyVars,
           runVars, controlVars, settleVars
<1>2. References'
    BY <1>1, IndexGrows DEF Silence, References
<1> QED
    BY <1>1, <1>2, IndexGrows, QueuesUntouched

LEMMA SilenceOfStepEnd ==
    ASSUME Types, Silence, Next, commit \/ rollback \/ stepDies
    PROVE  Silence'
<1>1. UNCHANGED <<body, sending, inbox, messages, control, asked>>
    BY DEF commit, rollback, stepDies, StepEnds, bodyVars, controlVars, settleVars
<1>2. unready' \subseteq Indexed'
    <2>1. CASE commit
        <3>1. Delegated \subseteq Indexed'
            BY <2>1 DEF commit, StepEnds, Delegated, Indexed
        <3> QED
            BY <2>1, <3>1 DEF commit
    <2>2. CASE rollback \/ stepDies
        BY <2>2, IndexGrows DEF rollback, stepDies, Silence, References
    <2> QED
        BY <2>1, <2>2
<1>3. References'
    BY <1>1, <1>2, IndexGrows DEF Silence, References
<1>4. CASE commit \/ stepDies
    BY <1>1, <1>3, <1>4, IndexGrows, QueuesUntouched DEF commit, stepDies
<1>5. CASE rollback
    <2>1. ASSUME NEW t \in Tasks \ Indexed' PROVE Quiet(t)'
        <3>1. t \in Tasks \ Indexed /\ Quiet(t)
            BY <2>1, IndexGrows DEF Silence, OthersAreQuiet
        <3>2. commands'[t] \in {commands[t], Append(commands[t], "reject-dispatch")}
            BY <1>5 DEF rollback, Sent
        <3>3. Members(commands'[t]) \subseteq {"reject-dispatch"}
            <4>1. commands[t] \in Seq(CommandSet)
                BY DEF Types, CommandTypes
            <4>2. Members(Append(commands[t], "reject-dispatch"))
                      = Members(commands[t]) \cup {"reject-dispatch"}
                BY <4>1, MembersOfAppend DEF CommandSet
            <4> QED
                BY <3>1, <3>2, <4>2 DEF Quiet
        <3> QED
            BY <1>1, <3>1, <3>3 DEF Quiet
    <2>2. OwnQuestions'
        BY <1>1 DEF Silence, OwnQuestions, Own
    <2> QED
        BY <1>3, <2>1, <2>2 DEF Silence, OthersAreQuiet
<1> QED
    BY <1>4, <1>5

(* A command goes to a task of the index.                                  *)
LEMMA SilenceOfCommand ==
    ASSUME Silence, Indexed \subseteq Indexed', References', NEW u \in Indexed, NEW c,
           commands' = Sent({u}, c), UNCHANGED <<body, sending, inbox, messages>>
    PROVE  Silence'
<1>1. ASSUME NEW t \in Tasks \ Indexed' PROVE Quiet(t)'
    <2>1. t \in Tasks \ Indexed /\ t # u
        OBVIOUS
    <2>2. commands'[t] = commands[t]
        BY <2>1 DEF Sent
    <2> QED
        BY <2>1, <2>2 DEF Silence, OthersAreQuiet, Quiet
<1>2. OwnQuestions'
    BY DEF Silence, OwnQuestions, Own
<1> QED
    BY <1>1, <1>2 DEF Silence, OthersAreQuiet

LEMMA SilenceOfCommands ==
    ASSUME Types, Silence, Next,
           \/ \E t \in Tasks : acknowledge(t) \/ signalCancel(t)
           \/ \E q \in Questions : answer(q)
    PROVE  Silence'
<1>1. ASSUME NEW t \in Tasks, acknowledge(t) PROVE Silence'
    <2>1. /\ UNCHANGED <<body, sending, inbox, messages, control, asked>>
          /\ unready' \subseteq unready /\ t \in Indexed
          /\ commands' = Sent({t}, "ready")
        BY <1>1 DEF acknowledge, Silence, References, bodyVars, controlVars, settleVars
    <2>2. References'
        BY <2>1, IndexGrows DEF Silence, References
    <2> QED
        BY <2>1, <2>2, IndexGrows, SilenceOfCommand
<1>2. ASSUME NEW t \in Tasks, signalCancel(t) PROVE Silence'
    <2>1. /\ UNCHANGED <<body, sending, inbox, messages, unready, asked>>
          /\ commands' = Sent({t}, "cancel") /\ t \in control.left
          /\ control' = [control EXCEPT !.at = t, !.left = @ \ {t}]
        BY <1>2 DEF signalCancel, stepVars, settleVars, bodyVars
    <2>2. t \in Indexed
        BY <2>1 DEF Silence, References
    <2>3. control'.left \subseteq control.left /\ control'.at = t /\ control'.views = control.views
        BY <2>1 DEF Types, ControlTypes
    <2>4. References'
        BY <2>1, <2>2, <2>3, IndexGrows DEF Silence, References
    <2> QED
        BY <2>1, <2>2, <2>4, IndexGrows, SilenceOfCommand
<1>3. ASSUME NEW q \in Questions, answer(q) PROVE Silence'
    <2>1. /\ UNCHANGED <<body, sending, inbox, messages, unready, control>>
          /\ commands' = Sent({taskOf[q]}, q) /\ q \in asked /\ asked' \subseteq asked
        BY <1>3 DEF answer, stepVars, controlVars, bodyVars
    <2>2. taskOf[q] \in Indexed
        BY <2>1 DEF Silence, References
    <2>3. References'
        BY <2>1, IndexGrows DEF Silence, References
    <2> QED
        BY <2>1, <2>2, <2>3, IndexGrows, SilenceOfCommand
<1> QED
    BY <1>1, <1>2, <1>3

LEMMA SilenceOfRoute ==
    ASSUME Types, Silence, Next, NEW t \in Tasks, NEW i \in DOMAIN inbox[t], route(t, i)
    PROVE  Silence'
<1> DEFINE n == inbox[t][i]
<1>1. inbox[t] \in Seq(Inboxed) /\ i \in 1 .. Len(inbox[t])
    BY DEF Types, InboxTypes
<1>2. t \in Indexed /\ n \in Members(inbox[t])
    BY <1>1 DEF Silence, OthersAreQuiet, Quiet, Members
<1>3. UNCHANGED <<body, sending, messages, commands, unready, control>>
    BY DEF route, bodyVars, runVars, stepVars, controlVars
<1>4. /\ Members(inbox'[t]) \subseteq Members(inbox[t])
      /\ \A u \in Tasks : u # t => inbox'[u] = inbox[u]
    BY <1>1, RemovalKeepsOthers DEF route, Types, InboxTypes
<1>5. \A q \in asked' : taskOf[q] \in Indexed
    <2>1. n.kind = "ask" => taskOf[n.question] = t
        BY <1>2 DEF Silence, OwnQuestions, Own
    <2> QED
        BY <1>2, <2>1
           DEF route, recordTaskInputRequest, reportOutcome, recordTerminalViews, Silence,
               References
<1>6. References'
    BY <1>3, <1>5, IndexGrows DEF Silence, References
<1>7. ASSUME NEW u \in Tasks \ Indexed' PROVE Quiet(u)'
    BY <1>2, <1>3, <1>4, IndexGrows DEF Silence, OthersAreQuiet, Quiet
<1>8. OwnQuestions'
    BY <1>3, <1>4 DEF Silence, OwnQuestions, Own
<1> QED
    BY <1>6, <1>7, <1>8 DEF Silence, OthersAreQuiet

LEMMA SilenceOfControl ==
    ASSUME Types, Silence, Next,
           \/ handOff \/ endControl \/ controlDies
           \/ \E kind : \E T \in SUBSET Indexed : beginControl(kind, T)
           \/ \E t \in Tasks : skipSettled(t) \/ cancellationFails(t)
    PROVE  Silence'
<1>1. UNCHANGED <<body, sending, inbox, messages, commands, unready>> /\ asked' \subseteq asked
    BY DEF handOff, endControl, controlDies, beginControl, skipSettled, cancellationFails,
           stepVars, bodyVars, runVars, settleVars, recordTerminalViews
<1>2. /\ control'.left \subseteq Indexed /\ control'.views \subseteq Indexed
      /\ control'.at \in Indexed \cup {NoTask}
    <2> USE DEF Silence, References
    <2>1. CASE handOff
        BY <2>1 DEF handOff, controlVars
    <2>2. CASE endControl
        BY <2>2 DEF endControl, NoControl
    <2>3. CASE controlDies
        BY <2>3 DEF controlDies, NoControl, Types, ControlTypes
    <2>4. CASE \E kind : \E T \in SUBSET Indexed : beginControl(kind, T)
        BY <2>4 DEF beginControl, NoControl
    <2>5. CASE \E t \in Tasks : skipSettled(t) \/ cancellationFails(t)
        <3>1. PICK t \in Tasks : skipSettled(t) \/ cancellationFails(t)
            BY <2>5
        <3>2. control'.left \subseteq control.left /\ control'.views = control.views
              /\ control'.at \in {control.at, NoTask}
            <4>1. CASE skipSettled(t)
                BY <4>1 DEF skipSettled, Types, ControlTypes
            <4>2. CASE cancellationFails(t)
                BY <4>2 DEF cancellationFails, remaining, Types, ControlTypes
            <4> QED
                BY <3>1, <4>1, <4>2
        <3> QED
            BY <3>2
    <2> QED
        BY <2>1, <2>2, <2>3, <2>4, <2>5
<1>3. References'
    BY <1>1, <1>2, IndexGrows DEF Silence, References
<1> QED
    BY <1>1, <1>3, IndexGrows, QueuesUntouched

(* A notice goes to the inbox of a task of the index.                      *)
LEMMA SilenceOfNotice ==
    ASSUME Types, Silence, Indexed \subseteq Indexed', References', NEW t \in Indexed,
           NEW n \in Inboxed, Own(n, t), inbox' \in {inbox, Notified(t, n)},
           \A u \in Tasks : sending'[u] \in {sending[u], Nothing},
           UNCHANGED <<body, messages, commands>>
    PROVE  Silence'
<1>1. ASSUME NEW u \in Tasks \ Indexed' PROVE Quiet(u)'
    <2>1. u \in Tasks \ Indexed /\ u # t
        OBVIOUS
    <2>2. inbox'[u] = inbox[u]
        BY <2>1 DEF Notified, Types, InboxTypes
    <2> QED
        BY <2>1, <2>2 DEF Silence, OthersAreQuiet, Quiet
<1>2. ASSUME NEW u \in Tasks PROVE \A m \in Members(inbox'[u]) : Own(m, u)
    <2>1. inbox \in [Tasks -> Seq(Inboxed)] /\ t \in Tasks
        BY DEF Types, InboxTypes, Indexed
    <2>2. Members(Append(inbox[t], n)) = Members(inbox[t]) \cup {n}
        BY <2>1, MembersOfAppend
    <2>3. inbox'[u] = inbox[u] \/ (u = t /\ inbox'[u] = Append(inbox[t], n))
        BY <2>1 DEF Notified
    <2> QED
        BY <2>2, <2>3 DEF Silence, OwnQuestions
<1>3. OwnQuestions'
    BY <1>2 DEF Silence, OwnQuestions, Own, Nothing
<1> QED
    BY <1>1, <1>3 DEF Silence, OthersAreQuiet

LEMMA SilenceOfCancellation ==
    ASSUME Types, Silence, Next, NEW t \in Tasks, settleCancellation(t) \/ notifyCancelled(t)
    PROVE  Silence'
<1>1. t \in Indexed /\ control.at = t
    BY TasksAssumption DEF settleCancellation, notifyCancelled, Silence, References
<1>2. UNCHANGED <<body, messages, commands, unready, asked>>
    BY DEF settleCancellation, notifyCancelled, stepVars, bodyVars, runVars, settleVars
<1>3. /\ control'.left = control.left /\ control'.views \subseteq control.views \cup {t}
      /\ control'.at \in {t, NoTask}
    BY <1>1 DEF settleCancellation, notifyCancelled, Types, ControlTypes
<1>4. References'
    BY <1>1, <1>2, <1>3, IndexGrows DEF Silence, References
<1>5. Settled("cancelled") \in Inboxed /\ Own(Settled("cancelled"), t)
    BY DEF Settled, Inboxed, Outcomes, Final, Own
<1>6. inbox' \in {inbox, Notified(t, Settled("cancelled"))}
    BY DEF settleCancellation, notifyCancelled, ownNotice
<1>7. \A u \in Tasks : sending'[u] \in {sending[u], Nothing}
    BY DEF settleCancellation, notifyCancelled, stopped, runVars, Types, RunTypes
<1> QED
    BY <1>1, <1>2, <1>4, <1>5, <1>6, <1>7, IndexGrows, SilenceOfNotice

(* A step of the body, or of the run, of a task of the index that leaves   *)
(* the other tasks alone.                                                  *)
LEMMA SilenceOfOne ==
    ASSUME Silence, Indexed \subseteq Indexed', NEW t \in Indexed, t \in Tasks,
           UNCHANGED <<unready, control, asked, inbox>>,
           \A u \in Tasks : u # t => UNCHANGED <<body[u], sending[u], messages[u], commands[u]>>,
           \A m \in Members(messages'[t]) : Own(m, t), Own(sending'[t], t)
    PROVE  Silence'
<1>1. References'
    BY DEF Silence, References
<1>2. ASSUME NEW u \in Tasks \ Indexed' PROVE Quiet(u)'
    BY DEF Silence, OthersAreQuiet, Quiet
<1>3. ASSUME NEW u \in Tasks
      PROVE  /\ \A m \in Members(messages'[u]) : Own(m, u)
             /\ \A m \in Members(inbox'[u]) : Own(m, u)
             /\ Own(sending'[u], u)
    BY DEF Silence, OwnQuestions
<1>4. OwnQuestions'
    BY <1>3 DEF OwnQuestions, Own
<1> QED
    BY <1>1, <1>2, <1>4 DEF Silence, OthersAreQuiet

LEMMA SilenceOfBody ==
    ASSUME Types, Silence, Next, NEW t \in Tasks, stepOfBody(t)
    PROVE  Silence'
<1>1. t \in Indexed
    BY DEF stepOfBody, bodyReports, bodyReportsAgain, bodyAsks, bodyReturns, Silence,
           OthersAreQuiet, Quiet
<1>2. /\ UNCHANGED <<unready, control, asked, inbox, sending, commands>>
      /\ \A u \in Tasks : u # t => UNCHANGED <<body[u], messages[u]>>
    BY DEF stepOfBody, bodyReports, bodyReportsAgain, bodyAsks, bodyReturns, parentVars, stepVars,
           controlVars, settleVars, runVars, Types, BodyTypes
<1>3. \A m \in Members(messages'[t]) : Own(m, t)
    <2>1. ASSUME NEW m \in Requests \cup Updates, Own(m, t),
                 messages' = [messages EXCEPT ![t] = Append(@, m)]
          PROVE  \A x \in Members(messages'[t]) : Own(x, t)
        <3>1. messages[t] \in Seq(Requests \cup Updates)
            BY DEF Types, BodyTypes
        <3>2. messages'[t] = Append(messages[t], m)
            BY <2>1 DEF Types, BodyTypes
        <3> QED
            BY <2>1, <3>1, <3>2, MembersOfAppend DEF Silence, OwnQuestions
    <2>2. ASSUME NEW k \in Nat PROVE Update(k) \in Updates /\ Own(Update(k), t)
        BY DEF Update, Updates, Own
    <2>3. ASSUME NEW q \in Questions, taskOf[q] = t PROVE Asks(q) \in Requests /\ Own(Asks(q), t)
        BY <2>3 DEF Asks, Requests, Own
    <2>4. produced[t] \in Nat /\ produced[t] + 1 \in Nat
        BY DEF Types, BodyTypes
    <2>5. CASE bodyReports(t)
        BY <2>1, <2>2, <2>4, <2>5 DEF bodyReports
    <2>6. CASE bodyReportsAgain(t)
        BY <2>1, <2>2, <2>4, <2>6 DEF bodyReportsAgain
    <2>7. ASSUME NEW q \in Questions, bodyAsks(t, q)
          PROVE  \A m \in Members(messages'[t]) : Own(m, t)
        BY <2>1, <2>3, <2>7 DEF bodyAsks
    <2>8. CASE UNCHANGED messages
        BY <2>8 DEF Silence, OwnQuestions
    <2> QED
        BY <2>5, <2>6, <2>7, <2>8 DEF stepOfBody, bodyReturns
<1>4. Own(sending'[t], t)
    BY <1>2 DEF Silence, OwnQuestions
<1> QED
    BY <1>1, <1>2, <1>3, <1>4, IndexGrows, SilenceOfOne

LEMMA SettledIsOwn == \A t, s : Own(Settled(s), t)
BY DEF Own, Settled

LEMMA SilenceOfReadCommand ==
    ASSUME Types, Silence, Next, NEW t \in Tasks, readCommand(t)
    PROVE  Silence'
<1> DEFINE c == Head(commands[t])
<1>1. /\ c \in Members(commands[t]) /\ Members(Tail(commands[t])) \subseteq Members(commands[t])
      /\ commands'[t] = Tail(commands[t]) /\ c \in CommandSet
    BY HeadAndTail DEF readCommand, Types, CommandTypes
<1>2. /\ UNCHANGED <<unready, control, asked, inbox, messages>>
      /\ \A u \in Tasks : u # t => UNCHANGED <<body[u], sending[u], commands[u]>>
    BY <1>1
       DEF readCommand, handleReady, handleReject, handleAnswer, parentVars, stepVars, controlVars,
           settleVars, Types, RunTypes, BodyTypes, CommandTypes, CommandSet
<1>3. sending'[t] = sending[t] \/ \E s : sending'[t] = Settled(s)
    BY <1>1
       DEF readCommand, handleReady, handleReject, handleAnswer, Types, RunTypes, CommandSet
<1>4. Own(sending'[t], t) /\ \A m \in Members(messages'[t]) : Own(m, t)
    BY <1>2, <1>3, SettledIsOwn DEF Silence, OwnQuestions
<1>5. CASE t \in Indexed
    BY <1>2, <1>4, <1>5, IndexGrows, SilenceOfOne
<1>6. CASE t \notin Indexed
    <2>1. Quiet(t)
        BY <1>6 DEF Silence, OthersAreQuiet
    <2>2. c = "reject-dispatch" /\ body[t] = "idle"
        BY <1>1, <2>1 DEF Quiet
    <2>3. \/ handleReject(t) /\ UNCHANGED <<resumes, body>>
          \/ handleAnswer(t, c) /\ UNCHANGED <<run, status, body, sending>>
        BY <2>2 DEF readCommand
    <2>4. UNCHANGED <<body, sending>>
        BY <2>3 DEF handleReject
    <2>5. Quiet(t)'
        BY <1>1, <1>2, <2>1, <2>4 DEF Quiet
    <2>6. References'
        BY <1>2, IndexGrows DEF Silence, References
    <2>7. ASSUME NEW u \in Tasks \ Indexed' PROVE Quiet(u)'
        BY <1>2, <2>4, <2>5, IndexGrows DEF Silence, OthersAreQuiet, Quiet
    <2>8. OwnQuestions'
        BY <1>2, <2>4 DEF Silence, OwnQuestions, Own
    <2> QED
        BY <2>6, <2>7, <2>8 DEF Silence, OthersAreQuiet
<1> QED
    BY <1>5, <1>6

LEMMA SilenceOfReadMessage ==
    ASSUME Types, Silence, Next, NEW t \in Tasks, readMessage(t)
    PROVE  Silence'
<1> DEFINE m == Head(messages[t])
<1>1. /\ m \in Members(messages[t]) /\ Members(Tail(messages[t])) \subseteq Members(messages[t])
      /\ messages'[t] = Tail(messages[t])
    BY HeadAndTail DEF readMessage, Types, BodyTypes
<1>2. t \in Indexed
    BY DEF readMessage, Silence, OthersAreQuiet, Quiet
<1>3. /\ UNCHANGED <<unready, control, asked, inbox, body, commands>>
      /\ \A u \in Tasks : u # t => UNCHANGED <<sending[u], messages[u]>>
      /\ sending'[t] \in {sending[t], m}
    BY DEF readMessage, parentVars, stepVars, controlVars, settleVars, Types, RunTypes, BodyTypes
<1>4. Own(sending'[t], t) /\ \A x \in Members(messages'[t]) : Own(x, t)
    BY <1>1, <1>3 DEF Silence, OwnQuestions
<1> QED
    BY <1>2, <1>3, <1>4, IndexGrows, SilenceOfOne

LEMMA SilenceOfSettle ==
    ASSUME Types, Silence, Next, NEW t \in Tasks, settle(t)
    PROVE  Silence'
<1>1. t \in Indexed
    BY DEF settle, Silence, OthersAreQuiet, Quiet, Final
<1>2. /\ UNCHANGED <<unready, control, asked, inbox, body, messages, commands>>
      /\ \A u \in Tasks : u # t => UNCHANGED sending[u]
      /\ sending'[t] = Settled(status'[t])
    BY DEF settle, parentVars, stepVars, controlVars, settleVars, bodyVars, Types, RunTypes
<1>3. Own(sending'[t], t) /\ \A x \in Members(messages'[t]) : Own(x, t)
    BY <1>2, SettledIsOwn DEF Silence, OwnQuestions
<1> QED
    BY <1>1, <1>2, <1>3, IndexGrows, SilenceOfOne

LEMMA SilenceOfNotify ==
    ASSUME Types, Silence, Next, NEW t \in Tasks, notify(t)
    PROVE  Silence'
<1> DEFINE n == sending[t]
<1>1. t \in Indexed
    BY DEF notify, Silence, OthersAreQuiet, Quiet
<1>2. UNCHANGED <<unready, control, asked, body, messages, commands>>
    BY DEF notify, stepVars, controlVars, settleVars, bodyVars
<1>3. References'
    BY <1>2, IndexGrows DEF Silence, References
<1>4. \A u \in Tasks : sending'[u] \in {sending[u], Nothing}
    BY DEF notify, Types, RunTypes
<1>5. n \in Inboxed \cup Updates /\ Own(n, t)
    BY DEF notify, Types, RunTypes, Silence, OwnQuestions
<1>6. CASE n.kind = "update"
    <2>1. Settled("failed") \in Inboxed /\ Own(Settled("failed"), t)
        BY DEF Settled, Inboxed, Outcomes, Final, Own
    <2>2. inbox' = inbox
        BY <1>6 DEF notify
    <2> QED
        BY <1>1, <1>2, <1>3, <1>4, <2>1, <2>2, IndexGrows, SilenceOfNotice
<1>7. CASE n.kind # "update"
    <2>1. n \in Inboxed /\ inbox' = Notified(t, n)
        BY <1>5, <1>7 DEF notify, Updates
    <2> QED
        BY <1>1, <1>2, <1>3, <1>4, <1>5, <2>1, IndexGrows, SilenceOfNotice
<1> QED
    BY <1>6, <1>7

LEMMA SilenceStep == Types /\ Silence /\ [Next]_vars => Silence'
<1> SUFFICES ASSUME Types, Silence, [Next]_vars PROVE Silence'
    OBVIOUS
<1>1. CASE Next
    <2>1. CASE stepOfParent
        BY <1>1, <2>1, SilenceOfStepEnd, SilenceOfCommands, SilenceOfRoute DEF stepOfParent
    <2>2. CASE stepOfControl
        BY <1>1, <2>2, SilenceOfCommands, SilenceOfControl, SilenceOfCancellation
           DEF stepOfControl
    <2>3. CASE rollback \/ stepDies
        BY <1>1, <2>3, SilenceOfStepEnd
    <2>4. CASE controlDies \/ handOff
        BY <1>1, <2>4, SilenceOfControl
    <2>5. CASE (\E T \in SUBSET Indexed : cancelTasks(T)) \/ cancelAll \/ closeSession
        BY <1>1, <2>5, SilenceOfControl DEF cancelTasks, cancelAll, closeSession
    <2>6. ASSUME NEW q \in Questions, answer(q) PROVE Silence'
        BY <1>1, <2>6, SilenceOfCommands
    <2>7. ASSUME NEW t \in Tasks,
                 \/ startTask(t) \/ claimHook(t) \/ delegated(t) \/ startTimesOut(t)
                 \/ cancellationFails(t)
          PROVE  Silence'
        BY <1>1, <2>7, SilenceOfTurn, SilenceOfControl
    <2>8. ASSUME NEW t \in Tasks, stepOfRun(t) PROVE Silence'
        BY <1>1, <2>8, SilenceOfReadCommand, SilenceOfReadMessage, SilenceOfSettle,
           SilenceOfNotify DEF stepOfRun
    <2>9. ASSUME NEW t \in Tasks, stepOfBody(t) PROVE Silence'
        BY <1>1, <2>9, SilenceOfBody
    <2> QED
        BY <1>1, <2>1, <2>2, <2>3, <2>4, <2>5, <2>6, <2>7, <2>8, <2>9 DEF Next
<1>2. CASE UNCHANGED vars
    <2>1. /\ UNCHANGED <<body, sending, inbox, messages, commands>>
          /\ UNCHANGED <<unready, control, asked, record>>
        BY <1>2 DEF vars, parentVars, stepVars, controlVars, settleVars, bodyVars, runVars
    <2>2. Indexed' = Indexed /\ References'
        BY <2>1 DEF Indexed, Silence, References
    <2> QED
        BY <2>1, <2>2, QueuesUntouched
<1> QED
    BY <1>1, <1>2

(***************************************************************************)
(* Settlement: what was withdrawn stays so, because a request is accepted  *)
(* only without an outcome on record, and an outcome recorded by the       *)
(* cancellation tool is followed by a notice that withdraws the requests.  *)
(***************************************************************************)
Withdrawn(t) == \A q \in asked : taskOf[q] # t
HasSettlement(t) == \E n \in Members(inbox[t]) : n.kind = "settled"
WillWithdraw(t) == Withdrawn(t) \/ HasSettlement(t)

ControlIsOpen == parent # "cancelling" => control = NoControl
Reported == \A t \in Tasks : "ready" \in seen[t] => outcome[t] # "none" /\ Withdrawn(t)
SettledWithdraw == \A t \in Tasks : outcome[t] # "none" => WillWithdraw(t)
ViewsWithdraw == control.kind = "tool" => \A t \in control.views : WillWithdraw(t)
ReportsCounted ==
    ~MayHandOff => \A t \in Tasks : reports[t] <= (IF "ready" \in seen[t] THEN 1 ELSE 0)

Settlement ==
    /\ ControlIsOpen /\ Reported /\ SettledWithdraw /\ ViewsWithdraw
    /\ OneVerdict /\ ReportsCounted

LEMMA SettlementInit == Init => Settlement
<1> SUFFICES ASSUME Init PROVE Settlement
    OBVIOUS
<1> USE DEF Init
<1>1. ControlIsOpen /\ Reported /\ SettledWithdraw /\ ViewsWithdraw
    BY DEF ControlIsOpen, Reported, SettledWithdraw, ViewsWithdraw, NoControl
<1>2. OneVerdict /\ ReportsCounted
    BY DEF OneVerdict, ReportsCounted
<1> QED
    BY <1>1, <1>2 DEF Settlement

(* Nothing is settled or asked; notices may arrive.                        *)
LEMMA NothingSettles ==
    ASSUME Settlement, UNCHANGED <<outcome, seen, told, reports, parent, control>>,
           asked' \subseteq asked,
           \A t \in Tasks : Members(inbox[t]) \subseteq Members(inbox'[t]),
           control.views \subseteq Tasks
    PROVE  Settlement'
<1>1. \A t \in Tasks : /\ Withdrawn(t) => Withdrawn(t)'
                       /\ WillWithdraw(t) => WillWithdraw(t)'
    BY DEF WillWithdraw, Withdrawn, HasSettlement
<1>2. (Reported /\ SettledWithdraw /\ ViewsWithdraw)'
    BY <1>1 DEF Settlement, Reported, SettledWithdraw, ViewsWithdraw
<1>3. (ControlIsOpen /\ OneVerdict /\ ReportsCounted)'
    BY DEF Settlement, ControlIsOpen, OneVerdict, ReportsCounted
<1> QED
    BY <1>2, <1>3 DEF Settlement

(* The same, while the parent goes from one phase to another.              *)
LEMMA PhaseChanges ==
    ASSUME Settlement, UNCHANGED <<outcome, seen, told, reports, asked, inbox>>,
           ControlIsOpen', control'.views = {}
    PROVE  Settlement'
<1>1. \A t \in Tasks : (Withdrawn(t) <=> Withdrawn(t)') /\ (WillWithdraw(t) <=> WillWithdraw(t)')
    BY DEF WillWithdraw, Withdrawn, HasSettlement
<1>2. (Reported /\ SettledWithdraw /\ ViewsWithdraw)'
    BY <1>1 DEF Settlement, Reported, SettledWithdraw, ViewsWithdraw
<1>3. (OneVerdict /\ ReportsCounted)'
    BY DEF Settlement, OneVerdict, ReportsCounted
<1> QED
    BY <1>2, <1>3 DEF Settlement

LEMMA NotifiedGrows ==
    ASSUME Types, NEW t \in Tasks, NEW n \in Inboxed
    PROVE  /\ \A u \in Tasks : Members(inbox[u]) \subseteq Members(Notified(t, n)[u])
           /\ Accepting => n \in Members(Notified(t, n)[t])
<1>1. inbox \in [Tasks -> Seq(Inboxed)]
    BY DEF Types, InboxTypes
<1>2. Members(Append(inbox[t], n)) = Members(inbox[t]) \cup {n}
    BY <1>1, MembersOfAppend
<1> QED
    BY <1>1, <1>2 DEF Notified

LEMMA SettlementOfTurn ==
    ASSUME Types, Settlement,
           \/ commit \/ rollback \/ stepDies
           \/ \E t \in Tasks : \/ startTask(t) \/ claimHook(t) \/ delegated(t)
                               \/ startTimesOut(t) \/ acknowledge(t)
    PROVE  Settlement'
<1>1. UNCHANGED <<outcome, seen, told, reports, asked, inbox, control>>
    BY DEF commit, rollback, stepDies, StepEnds, startTask, claimHook, delegated, startTimesOut,
           acknowledge, controlVars, settleVars, parentVars
<1>2. CASE \E t \in Tasks : claimHook(t) \/ delegated(t) \/ startTimesOut(t)
    <2>1. UNCHANGED parent
        BY <1>2 DEF claimHook, delegated, startTimesOut, parentVars, stepVars
    <2> QED
        BY <1>1, <2>1, NothingSettles DEF Types, ControlTypes
<1>3. CASE commit \/ rollback \/ stepDies \/ \E t \in Tasks : startTask(t) \/ acknowledge(t)
    <2>1. parent # "cancelling"
        BY <1>3 DEF commit, rollback, stepDies, StepEnds, startTask, acknowledge
    <2>2. control' = NoControl
        BY <1>1, <2>1 DEF Settlement, ControlIsOpen
    <2>3. ControlIsOpen' /\ control'.views = {}
        BY <2>2 DEF ControlIsOpen, NoControl
    <2> QED
        BY <1>1, <2>3, PhaseChanges
<1> QED
    BY <1>2, <1>3

LEMMA SettlementOfRoute ==
    ASSUME Types, Silence, Settlement, NEW t \in Tasks, NEW i \in DOMAIN inbox[t], route(t, i)
    PROVE  Settlement'
<1> DEFINE n == inbox[t][i]
<1>1. inbox[t] \in Seq(Inboxed) /\ i \in 1 .. Len(inbox[t])
    BY DEF Types, InboxTypes
<1>2. n \in Inboxed /\ n \in Members(inbox[t])
    BY <1>1 DEF Members
<1>3. /\ \A x \in Members(inbox[t]) : x # n => x \in Members(inbox'[t])
      /\ \A u \in Tasks : u # t => inbox'[u] = inbox[u]
    BY <1>1, RemovalKeepsOthers DEF route, Types, InboxTypes
<1>4. control' = NoControl
    BY DEF route, controlVars, Settlement, ControlIsOpen
<1>5. ControlIsOpen' /\ ViewsWithdraw'
    BY <1>4 DEF ControlIsOpen, ViewsWithdraw, NoControl
<1>6. /\ seen'[t] = seen[t] \cup {DeliveryId(n)}
      /\ \A u \in Tasks : u # t => seen'[u] = seen[u]
    BY DEF route, Types, SettleTypes
<1>7. CASE n.kind = "ask"
    <2>1. n.question \in Questions /\ taskOf[n.question] = t
        BY <1>2, <1>7 DEF Inboxed, Outcomes, Requests, Silence, OwnQuestions, Own
    <2>2. DeliveryId(n) # "ready"
        BY <1>7, <2>1, QuestionsAssumption DEF DeliveryId
    <2>3. UNCHANGED <<outcome, told, reports>>
        BY <1>7 DEF route, recordTaskInputRequest
    <2>4. asked' = asked \/ (outcome[t] = "none" /\ asked' = asked \cup {n.question})
        BY <1>7 DEF route, recordTaskInputRequest, accepted
    <2>5. \A u \in Tasks : HasSettlement(u) => HasSettlement(u)'
        BY <1>3, <1>7 DEF HasSettlement
    <2>6. \A u \in Tasks : "ready" \in seen'[u] <=> "ready" \in seen[u]
        BY <1>6, <2>2
    <2>7. \A u \in Tasks : Withdrawn(u) /\ outcome[u] # "none" => Withdrawn(u)'
        BY <2>1, <2>4 DEF Withdrawn
    <2>8. Reported' /\ SettledWithdraw'
        BY <2>3, <2>5, <2>6, <2>7 DEF Settlement, Reported, SettledWithdraw, WillWithdraw
    <2>9. OneVerdict' /\ ReportsCounted'
        BY <2>3, <2>6 DEF Settlement, OneVerdict, ReportsCounted
    <2> QED
        BY <1>5, <2>8, <2>9 DEF Settlement
<1>8. CASE n.kind # "ask" /\ (Repeated(t, n) \/ t \notin Indexed)
    <2>1. UNCHANGED <<outcome, asked, told, reports>>
        BY <1>8 DEF route
    <2>2. t \in Indexed
        BY <1>1 DEF Silence, OthersAreQuiet, Quiet
    <2>3. "ready" \in seen[t]
        BY <1>8, <2>2 DEF Repeated, DeliveryId
    <2>4. \A u \in Tasks : "ready" \in seen'[u] <=> "ready" \in seen[u]
        BY <1>6, <2>3
    <2>5. Withdrawn(t) /\ \A u \in Tasks : Withdrawn(u) => Withdrawn(u)'
        BY <2>1, <2>3 DEF Settlement, Reported, Withdrawn
    <2>6. \A u \in Tasks : u # t /\ HasSettlement(u) => HasSettlement(u)'
        BY <1>3 DEF HasSettlement
    <2>7. Reported' /\ SettledWithdraw'
        BY <2>1, <2>4, <2>5, <2>6 DEF Settlement, Reported, SettledWithdraw, WillWithdraw
    <2>8. OneVerdict' /\ ReportsCounted'
        BY <2>1, <2>4 DEF Settlement, OneVerdict, ReportsCounted
    <2> QED
        BY <1>5, <2>7, <2>8 DEF Settlement
<1>9. CASE n.kind # "ask" /\ ~Repeated(t, n) /\ t \in Indexed
    <2>1. reportOutcome(t, n.status) /\ n.status \in Final
        BY <1>2, <1>9 DEF route, Inboxed, Outcomes, Requests
    <2>2. "ready" \notin seen[t] /\ "ready" \in seen'[t]
        BY <1>6, <1>9 DEF Repeated, DeliveryId
    <2>3. /\ outcome'[t] # "none"
          /\ outcome[t] # "none" => outcome'[t] = outcome[t]
          /\ \A u \in Tasks : u # t => outcome'[u] = outcome[u]
        BY <2>1 DEF reportOutcome, recordTerminalViews, recorded, Final
    <2>4. Withdrawn(t)' /\ \A u \in Tasks : Withdrawn(u) => Withdrawn(u)'
        BY <2>1 DEF reportOutcome, recordTerminalViews, Withdrawn, QuestionsOf, Types, SettleTypes
    <2>5. \A u \in Tasks : u # t /\ HasSettlement(u) => HasSettlement(u)'
        BY <1>3 DEF HasSettlement
    <2>6. Reported' /\ SettledWithdraw'
        BY <1>6, <2>2, <2>3, <2>4, <2>5 DEF Settlement, Reported, SettledWithdraw, WillWithdraw
    <2>7. OneVerdict'
        <3>1. told[t] \subseteq {outcome'[t]}
            BY <2>3 DEF Settlement, OneVerdict, Types, SettleTypes, Final
        <3> QED
            BY <2>1, <2>3, <3>1 DEF Settlement, OneVerdict, reportOutcome, Types, SettleTypes
    <2>8. ReportsCounted'
        BY <1>6, <2>1, <2>2 DEF Settlement, ReportsCounted, reportOutcome, Types, SettleTypes
    <2> QED
        BY <1>5, <2>6, <2>7, <2>8 DEF Settlement
<1> QED
    BY <1>7, <1>8, <1>9

LEMMA SettlementOfOthers ==
    ASSUME Types, Silence, Settlement,
           \/ \E q \in Questions : answer(q)
           \/ \E t \in Tasks : claimHook(t) \/ stepOfBody(t) \/ stepOfRun(t)
    PROVE  Settlement'
<1>1. /\ UNCHANGED <<outcome, seen, told, reports, parent, control>> /\ asked' \subseteq asked
    BY DEF answer, claimHook, stepOfBody, bodyReports, bodyReportsAgain, bodyAsks, bodyReturns,
           stepOfRun, readCommand, readMessage, settle, notify, parentVars, stepVars, controlVars,
           settleVars
<1>2. ASSUME NEW t \in Tasks, notify(t)
      PROVE  \A u \in Tasks : Members(inbox[u]) \subseteq Members(inbox'[u])
    <2>1. sending[t] \in Inboxed \cup Updates
        BY <1>2 DEF notify, Types, RunTypes
    <2>2. inbox' = inbox \/ (sending[t] \in Inboxed /\ inbox' = Notified(t, sending[t]))
        BY <1>2, <2>1 DEF notify, Updates
    <2> QED
        BY <2>2, NotifiedGrows
<1>3. inbox' = inbox \/ \E t \in Tasks : notify(t)
    BY DEF answer, claimHook, stepOfBody, bodyReports, bodyReportsAgain, bodyAsks, bodyReturns,
           stepOfRun, readCommand, readMessage, settle, parentVars
<1>4. \A u \in Tasks : Members(inbox[u]) \subseteq Members(inbox'[u])
    BY <1>2, <1>3
<1> QED
    BY <1>1, <1>4, NothingSettles DEF Types, ControlTypes

LEMMA SettlementOfHandOff ==
    ASSUME Types, Settlement, handOff
    PROVE  Settlement'
<1>1. UNCHANGED <<outcome, told, reports, parent, asked, inbox, control>>
    BY DEF handOff, stepVars, controlVars
<1>2. \A t \in Tasks : WillWithdraw(t) <=> WillWithdraw(t)'
    BY <1>1 DEF WillWithdraw, Withdrawn, HasSettlement
<1>3. Reported'
    BY DEF handOff, Reported
<1>4. (ControlIsOpen /\ SettledWithdraw /\ ViewsWithdraw /\ OneVerdict)'
    BY <1>1, <1>2 DEF Settlement, ControlIsOpen, SettledWithdraw, ViewsWithdraw, OneVerdict,
                      Types, ControlTypes
<1>5. ReportsCounted'
    BY DEF handOff, ReportsCounted
<1> QED
    BY <1>3, <1>4, <1>5 DEF Settlement

LEMMA SettlementOfControl ==
    ASSUME Types, Settlement,
           \/ controlDies
           \/ \E kind \in {"tool", "all", "close"} : \E T \in SUBSET Indexed : beginControl(kind, T)
           \/ \E t \in Tasks : \/ skipSettled(t) \/ signalCancel(t) \/ settleCancellation(t)
                               \/ notifyCancelled(t) \/ cancellationFails(t)
    PROVE  Settlement'
<1>1. UNCHANGED <<outcome, seen, told, reports, asked>>
    BY DEF controlDies, beginControl, skipSettled, signalCancel, settleCancellation,
           notifyCancelled, cancellationFails, settleVars
<1>2. parent' = "cancelling"
    <2>1. CASE controlDies
        BY <2>1 DEF controlDies, stepVars
    <2>2. CASE \E kind \in {"tool", "all", "close"} : \E T \in SUBSET Indexed : beginControl(kind, T)
        BY <2>2 DEF beginControl
    <2>3. ASSUME NEW t \in Tasks,
                 \/ skipSettled(t) \/ signalCancel(t) \/ settleCancellation(t)
                 \/ notifyCancelled(t) \/ cancellationFails(t)
          PROVE  parent' = "cancelling"
        <3>1. UNCHANGED parent /\ (t \in control.left \/ control.at = t)
            BY <2>3 DEF skipSettled, signalCancel, settleCancellation, notifyCancelled,
                        cancellationFails, failing, stepVars
        <3>2. control # NoControl
            BY <3>1, TasksAssumption DEF NoControl
        <3> QED
            BY <3>1, <3>2 DEF Settlement, ControlIsOpen
    <2> QED
        BY <2>1, <2>2, <2>3
<1>3. ControlIsOpen'
    BY <1>2 DEF ControlIsOpen
<1>4. CASE controlDies \/ \E kind \in {"tool", "all", "close"} :
                               \E T \in SUBSET Indexed : beginControl(kind, T)
    <2>1. UNCHANGED inbox /\ control'.views = {}
        BY <1>4 DEF controlDies, beginControl, NoControl
    <2> QED
        BY <1>1, <1>3, <2>1, PhaseChanges
<1>5. ASSUME NEW t \in Tasks,
             \/ skipSettled(t) \/ signalCancel(t) \/ settleCancellation(t)
             \/ cancellationFails(t)
      PROVE  Settlement'
    <2>1. UNCHANGED inbox /\ control'.views = control.views /\ control'.kind = control.kind
        BY <1>5 DEF skipSettled, signalCancel, settleCancellation, cancellationFails, Types,
                    ControlTypes
    <2>2. \A u \in Tasks : (Withdrawn(u) <=> Withdrawn(u)') /\ (WillWithdraw(u) <=> WillWithdraw(u)')
        BY <1>1, <2>1 DEF WillWithdraw, Withdrawn, HasSettlement
    <2>3. control.views \subseteq Tasks
        BY DEF Types, ControlTypes
    <2>4. (Reported /\ SettledWithdraw /\ ViewsWithdraw)'
        BY <1>1, <2>1, <2>2, <2>3 DEF Settlement, Reported, SettledWithdraw, ViewsWithdraw
    <2>5. (OneVerdict /\ ReportsCounted)'
        BY <1>1 DEF Settlement, OneVerdict, ReportsCounted
    <2> QED
        BY <1>3, <2>4, <2>5 DEF Settlement
<1>6. ASSUME NEW t \in Tasks, notifyCancelled(t) PROVE Settlement'
    <2> DEFINE n == Settled("cancelled")
    <2>1. inbox' = Notified(t, n) /\ n \in Inboxed /\ n.kind = "settled"
        BY <1>6 DEF notifyCancelled, ownNotice, Settled, Inboxed, Outcomes, Final
    <2>2. control'.views = control.views \cup {t} /\ control'.kind = control.kind
        BY <1>6 DEF notifyCancelled, Types, ControlTypes
    <2>3. /\ \A u \in Tasks : Members(inbox[u]) \subseteq Members(inbox'[u])
          /\ Accepting => n \in Members(inbox'[t])
        BY <2>1, NotifiedGrows
    <2>4. \A u \in Tasks : /\ Withdrawn(u) <=> Withdrawn(u)'
                           /\ WillWithdraw(u) => WillWithdraw(u)'
        BY <1>1, <2>3 DEF WillWithdraw, Withdrawn, HasSettlement
    <2>5. control.kind = "tool" => WillWithdraw(t)'
        <3>1. parent = "cancelling"
            BY <1>2, <1>6 DEF notifyCancelled, stepVars
        <3> QED
            BY <2>1, <2>3, <3>1 DEF Accepting, WillWithdraw, HasSettlement
    <2>6. control.views \subseteq Tasks
        BY DEF Types, ControlTypes
    <2>7. (Reported /\ SettledWithdraw /\ ViewsWithdraw)'
        BY <1>1, <2>2, <2>4, <2>5, <2>6 DEF Settlement, Reported, SettledWithdraw, ViewsWithdraw
    <2>8. (OneVerdict /\ ReportsCounted)'
        BY <1>1 DEF Settlement, OneVerdict, ReportsCounted
    <2> QED
        BY <1>3, <2>7, <2>8 DEF Settlement
<1> QED
    BY <1>4, <1>5, <1>6

LEMMA SettlementOfEnd ==
    ASSUME Types, Settlement, endControl
    PROVE  Settlement'
<1>1. /\ control' = NoControl /\ parent' # "cancelling" /\ UNCHANGED <<seen, reports, inbox>>
      /\ outcome' = recorded(control.views, "cancelled") /\ asked' \subseteq asked
    BY DEF endControl, recordTerminalViews
<1>2. (ControlIsOpen /\ ViewsWithdraw)'
    BY <1>1 DEF ControlIsOpen, ViewsWithdraw, NoControl
<1>3. \A t \in Tasks : /\ outcome[t] # "none" => outcome'[t] = outcome[t]
                       /\ t \notin control.views => outcome'[t] = outcome[t]
    BY <1>1 DEF recorded
<1>4. \A t \in Tasks : (Withdrawn(t) => Withdrawn(t)') /\ (WillWithdraw(t) => WillWithdraw(t)')
    BY <1>1 DEF WillWithdraw, Withdrawn, HasSettlement
<1>5. \A t \in Tasks : t \in control.views => WillWithdraw(t)'
    <2>1. CASE control.kind = "tool"
        BY <1>4, <2>1 DEF Settlement, ViewsWithdraw
    <2>2. CASE control.kind # "tool"
        <3>1. asked' = asked \ QuestionsOf(control.views) /\ asked \subseteq Questions
            BY <2>2 DEF endControl, recordTerminalViews, Types, SettleTypes
        <3> QED
            BY <3>1 DEF QuestionsOf, WillWithdraw, Withdrawn
    <2> QED
        BY <2>1, <2>2
<1>6. (Reported /\ SettledWithdraw)'
    BY <1>1, <1>3, <1>4, <1>5 DEF Settlement, Reported, SettledWithdraw
<1>7. OneVerdict'
    <2>1. \A t \in Tasks : told[t] \subseteq {outcome'[t]}
        BY <1>1, <1>3 DEF Settlement, OneVerdict, Types, SettleTypes, Final
    <2>2. \A t \in Tasks : told'[t] \in {told[t], told[t] \cup {outcome'[t]}}
        BY DEF endControl
    <2> QED
        BY <2>1, <2>2 DEF OneVerdict
<1>8. ReportsCounted'
    BY <1>1 DEF Settlement, ReportsCounted
<1> QED
    BY <1>2, <1>6, <1>7, <1>8 DEF Settlement

LEMMA SettlementStep == Types /\ Silence /\ Settlement /\ [Next]_vars => Settlement'
<1> SUFFICES ASSUME Types, Silence, Settlement, [Next]_vars PROVE Settlement'
    OBVIOUS
<1>1. CASE stepOfParent
    BY <1>1, SettlementOfTurn, SettlementOfRoute DEF stepOfParent
<1>2. CASE stepOfControl
    BY <1>2, SettlementOfControl, SettlementOfEnd DEF stepOfControl
<1>3. CASE rollback \/ stepDies
    BY <1>3, SettlementOfTurn
<1>4. CASE controlDies \/ handOff
    BY <1>4, SettlementOfControl, SettlementOfHandOff
<1>5. CASE (\E T \in SUBSET Indexed : cancelTasks(T)) \/ cancelAll \/ closeSession
    BY <1>5, SettlementOfControl DEF cancelTasks, cancelAll, closeSession
<1>6. ASSUME NEW q \in Questions, answer(q) PROVE Settlement'
    BY <1>6, SettlementOfOthers
<1>7. ASSUME NEW t \in Tasks,
             \/ startTask(t) \/ claimHook(t) \/ delegated(t) \/ startTimesOut(t)
             \/ cancellationFails(t)
      PROVE  Settlement'
    BY <1>7, SettlementOfTurn, SettlementOfControl
<1>8. ASSUME NEW t \in Tasks, stepOfRun(t) \/ stepOfBody(t) PROVE Settlement'
    BY <1>8, SettlementOfOthers
<1>9. CASE UNCHANGED vars
    <2>1. UNCHANGED <<outcome, seen, told, reports, parent, control, asked, inbox>>
        BY <1>9 DEF vars, parentVars, stepVars, controlVars, settleVars
    <2> QED
        BY <2>1, NothingSettles DEF Types, ControlTypes
<1> QED
    BY <1>1, <1>2, <1>3, <1>4, <1>5, <1>6, <1>7, <1>8, <1>9 DEF Next

(***************************************************************************)
(* The theorems.                                                           *)
(***************************************************************************)
Inv == Types /\ Silence /\ Settlement

(* Types, the silence of tasks out of the index, and the settlement of     *)
(* those in it hold in every reachable state.                              *)
THEOREM Invariance == Spec => []Inv
<1>1. Init => Inv
    BY TypeInit, SilenceInit, SettlementInit DEF Inv
<1>2. Inv /\ [Next]_vars => Inv'
    BY TypeStep, SilenceStep, SettlementStep DEF Inv
<1> QED
    BY <1>1, <1>2, PTL DEF Spec

(* Every variable has its type.                                            *)
THEOREM TypeCorrect == Spec => []TypeOK
<1>1. Inv => TypeOK
    BY TypesAreTypeOK DEF Inv
<1> QED
    BY <1>1, Invariance, PTL

(* A task that is not in the parent's index runs no code of its body and   *)
(* sends nothing to the parent, whichever way its step failed.             *)
THEOREM UnindexedTasksAreSilent == Spec => []UnindexedIsSilent
<1>1. Inv => UnindexedIsSilent
    BY DEF Inv, Silence, OthersAreQuiet, Quiet, UnindexedIsSilent
<1> QED
    BY <1>1, Invariance, PTL

(* The model hears one outcome of a task, and it is the one on record.     *)
THEOREM VerdictsStand == Spec => []OneVerdict
<1>1. Inv => OneVerdict
    BY DEF Inv, Settlement
<1> QED
    BY <1>1, Invariance, PTL

(* A request is open for a settled task only while its settlement is       *)
(* queued.                                                                 *)
THEOREM SettledTasksAskNothing == Spec => []SettledAsksNothing
<1>1. Inv => SettledAsksNothing
    <2> SUFFICES ASSUME Inv, NEW q \in asked, outcome[taskOf[q]] # "none"
                 PROVE  SettlementQueued(taskOf[q])
        BY DEF SettledAsksNothing
    <2>1. taskOf[q] \in Tasks /\ ~Withdrawn(taskOf[q])
        BY QuestionsAssumption DEF Inv, Types, SettleTypes, Withdrawn
    <2> QED
        BY <2>1
           DEF Inv, Settlement, SettledWithdraw, WillWithdraw, HasSettlement, Reported,
               SettlementQueued
<1> QED
    BY <1>1, Invariance, PTL

(* Without a handoff no outcome is reported twice, whichever of its        *)
(* announcements are repeated.                                             *)
THEOREM OutcomesAreReportedOnce == ASSUME ~MayHandOff PROVE Spec => []ReportedOnce
<1>1. Inv => ReportedOnce
    <2> SUFFICES ASSUME Inv, NEW t \in Tasks PROVE reports[t] <= 1
        BY DEF ReportedOnce
    <2>1. reports[t] \in Nat /\ reports[t] <= (IF "ready" \in seen[t] THEN 1 ELSE 0)
        BY DEF Inv, Types, SettleTypes, Settlement, ReportsCounted
    <2> QED
        BY <2>1
<1> QED
    BY <1>1, Invariance, PTL

(***************************************************************************)
(* The lease.  A task holds it from its start in a step; the step's end    *)
(* gives it back unless the task is on record, and a task on record has no *)
(* outcome yet or has its settlement in the inbox.  The report of an       *)
(* outcome releases, so a lease is never held by a task whose settlement   *)
(* would be dropped as repeated.                                           *)
(***************************************************************************)
OutcomesAreIndexed == \A t \in Tasks : outcome[t] # "none" => t \in Indexed
ReportReleases == \A t \in Tasks : "ready" \in seen[t] => t \in Indexed /\ agent # t
ViewsAreQueued == control.kind = "tool" => \A t \in control.views : HasSettlement(t)

HeldInStep == parent = "step" /\ record[agent] \in {"starting", "delegated", "abandoned"}
HeldOnRecord == agent \in Indexed /\ (outcome[agent] = "none" \/ HasSettlement(agent))
LeaseHeld == agent # NoTask => HeldInStep \/ HeldOnRecord

Leases == OutcomesAreIndexed /\ ReportReleases /\ ViewsAreQueued /\ LeaseHeld

LEMMA LeasesInit == Init => Leases
<1> SUFFICES ASSUME Init PROVE Leases
    OBVIOUS
<1> USE DEF Init
<1>1. OutcomesAreIndexed /\ ReportReleases /\ ViewsAreQueued
    BY DEF OutcomesAreIndexed, ReportReleases, ViewsAreQueued, NoControl
<1>2. LeaseHeld
    BY DEF LeaseHeld
<1> QED
    BY <1>1, <1>2 DEF Leases

(* Nobody takes or gives back the lease; notices may arrive.               *)
LEMMA LeaseUntouched ==
    ASSUME Leases, UNCHANGED <<parent, record, agent, outcome, seen>>, ViewsAreQueued',
           Types, \A t \in Tasks : HasSettlement(t) => HasSettlement(t)'
    PROVE  Leases'
<1>1. Indexed' = Indexed
    BY DEF Indexed
<1>2. OutcomesAreIndexed' /\ ReportReleases'
    BY <1>1 DEF Leases, OutcomesAreIndexed, ReportReleases
<1>3. LeaseHeld'
    BY <1>1 DEF Leases, LeaseHeld, HeldInStep, HeldOnRecord, Types, StepTypes
<1> QED
    BY <1>2, <1>3 DEF Leases

(* The same, while the parent goes from one phase to another, with no step *)
(* under way before.                                                       *)
LEMMA LeaseOnRecord ==
    ASSUME Leases, Types, UNCHANGED <<record, agent, outcome, seen, inbox>>, ViewsAreQueued',
           parent = "step" => parent' = "step"
    PROVE  Leases'
<1>1. Indexed' = Indexed
    BY DEF Indexed
<1>2. OutcomesAreIndexed' /\ ReportReleases'
    BY <1>1 DEF Leases, OutcomesAreIndexed, ReportReleases
<1>3. \A t \in Tasks : HasSettlement(t) => HasSettlement(t)'
    BY DEF HasSettlement
<1>4. LeaseHeld'
    BY <1>1, <1>3 DEF Leases, LeaseHeld, HeldInStep, HeldOnRecord, Types, StepTypes
<1> QED
    BY <1>2, <1>4 DEF Leases

LEMMA NoViewsOutsideControl ==
    ASSUME Settlement, UNCHANGED control, parent # "cancelling"
    PROVE  ViewsAreQueued'
BY DEF Settlement, ControlIsOpen, ViewsAreQueued, NoControl

LEMMA LeasesOfTurn ==
    ASSUME Types, Settlement, Leases, NEW t \in Tasks,
           startTask(t) \/ delegated(t) \/ startTimesOut(t)
    PROVE  Leases'
<1>1. /\ UNCHANGED <<outcome, seen, inbox, control>>
      /\ record[t] # "indexed" /\ record'[t] \in {"starting", "delegated", "abandoned"}
      /\ \A u \in Tasks : u # t => record'[u] = record[u]
    BY DEF startTask, delegated, startTimesOut, controlVars, settleVars, Types, StepTypes
<1>2. Indexed' = Indexed
    BY <1>1 DEF Indexed
<1>3. ViewsAreQueued'
    BY <1>1 DEF Leases, ViewsAreQueued, HasSettlement
<1>4. \A u \in Tasks : HasSettlement(u) => HasSettlement(u)'
    BY <1>1 DEF HasSettlement
<1>5. agent' = agent \/ (agent' = t /\ parent' = "step")
    BY DEF startTask, delegated, startTimesOut
<1>6. parent' = parent \/ parent' = "step"
    BY DEF startTask, delegated, startTimesOut
<1>7. OutcomesAreIndexed' /\ ReportReleases'
    BY <1>1, <1>2, <1>5 DEF Leases, OutcomesAreIndexed, ReportReleases, Indexed
<1>8. LeaseHeld'
    <2>1. CASE agent' = agent
        <3> SUFFICES ASSUME agent # NoTask PROVE (HeldInStep \/ HeldOnRecord)'
            BY <2>1 DEF LeaseHeld
        <3>1. agent \in Tasks
            BY DEF Types, StepTypes
        <3>2. HeldInStep => HeldInStep'
            BY <1>1, <1>6, <2>1, <3>1 DEF HeldInStep
        <3>3. HeldOnRecord => HeldOnRecord'
            BY <1>1, <1>2, <1>4, <2>1, <3>1 DEF HeldOnRecord
        <3> QED
            BY <3>2, <3>3 DEF Leases, LeaseHeld
    <2>2. CASE agent' = t /\ parent' = "step"
        BY <1>1, <2>2 DEF LeaseHeld, HeldInStep
    <2> QED
        BY <1>5, <2>1, <2>2
<1> QED
    BY <1>3, <1>7, <1>8 DEF Leases

(* The end of a step takes the lease from a task that it left off record;  *)
(* one it put on record has no outcome yet.                                *)
LEMMA LeasesOfStepEnd ==
    ASSUME Types, Settlement, Leases, NEW fate, StepEnds(fate)
    PROVE  Leases'
<1>1. /\ UNCHANGED <<outcome, seen, inbox, control>> /\ parent = "step"
      /\ agent' = compensated
    BY DEF StepEnds, controlVars, settleVars
<1>2. \A t \in Tasks : record[t] = "indexed" => record'[t] = "indexed"
    BY DEF StepEnds
<1>3. agent' = NoTask \/ (agent' = agent /\ agent \in Tasks /\ record'[agent] = "indexed")
    BY <1>1 DEF compensated, Types, StepTypes
<1>4. ViewsAreQueued'
    BY <1>1, NoViewsOutsideControl
<1>5. OutcomesAreIndexed' /\ ReportReleases'
    BY <1>1, <1>2, <1>3, TasksAssumption DEF Leases, OutcomesAreIndexed, ReportReleases, Indexed
<1>6. LeaseHeld'
    <2> SUFFICES ASSUME agent' = agent, agent \in Tasks, record'[agent] = "indexed"
                 PROVE  HeldOnRecord'
        BY <1>3 DEF LeaseHeld
    <2>1. CASE record[agent] = "indexed"
        <3>1. HeldOnRecord
            BY <2>1, TasksAssumption DEF Leases, LeaseHeld, HeldInStep
        <3> QED
            BY <1>1, <3>1 DEF HeldOnRecord, HasSettlement, Indexed
    <2>2. CASE record[agent] # "indexed"
        <3>1. outcome'[agent'] = "none"
            BY <1>1, <2>2 DEF Leases, OutcomesAreIndexed, Indexed
        <3> QED
            BY <3>1 DEF HeldOnRecord, Indexed
    <2> QED
        BY <2>1, <2>2
<1> QED
    BY <1>4, <1>5, <1>6 DEF Leases

LEMMA LeasesOfRoute ==
    ASSUME Types, Silence, Settlement, Leases, NEW t \in Tasks, NEW i \in DOMAIN inbox[t],
           route(t, i)
    PROVE  Leases'
<1> DEFINE n == inbox[t][i]
<1>1. inbox[t] \in Seq(Inboxed) /\ i \in 1 .. Len(inbox[t])
    BY DEF Types, InboxTypes
<1>2. n \in Inboxed /\ n \in Members(inbox[t])
    BY <1>1 DEF Members
<1>3. /\ \A x \in Members(inbox[t]) : x # n => x \in Members(inbox'[t])
      /\ \A u \in Tasks : u # t => inbox'[u] = inbox[u]
    BY <1>1, RemovalKeepsOthers DEF route, Types, InboxTypes
<1>4. \A u \in Tasks : u # t /\ HasSettlement(u) => HasSettlement(u)'
    BY <1>3 DEF HasSettlement
<1>5. UNCHANGED <<parent, record, control>> /\ parent = "open"
    BY DEF route, stepVars, controlVars
<1>6. Indexed' = Indexed /\ t \in Indexed
    BY <1>2, <1>5, MembersOfNone DEF Indexed, Silence, OthersAreQuiet, Quiet
<1>7. /\ seen'[t] = seen[t] \cup {DeliveryId(n)}
      /\ \A u \in Tasks : u # t => seen'[u] = seen[u]
    BY DEF route, Types, SettleTypes
<1>8. ViewsAreQueued'
    BY <1>5, NoViewsOutsideControl
<1>9. CASE n.kind = "ask"
    <2>1. n.question \in Questions /\ DeliveryId(n) # "ready"
        BY <1>2, <1>9, QuestionsAssumption DEF Inboxed, Outcomes, Requests, DeliveryId
    <2>2. UNCHANGED <<outcome, agent>>
        BY <1>9 DEF route, recordTaskInputRequest
    <2>3. \A u \in Tasks : "ready" \in seen'[u] <=> "ready" \in seen[u]
        BY <1>7, <2>1
    <2>4. \A u \in Tasks : HasSettlement(u) => HasSettlement(u)'
        BY <1>3, <1>9 DEF HasSettlement
    <2>5. OutcomesAreIndexed' /\ ReportReleases'
        BY <1>6, <2>2, <2>3 DEF Leases, OutcomesAreIndexed, ReportReleases
    <2>6. LeaseHeld'
        BY <1>5, <1>6, <2>2, <2>4
           DEF Leases, LeaseHeld, HeldInStep, HeldOnRecord, Types, StepTypes
    <2> QED
        BY <1>8, <2>5, <2>6 DEF Leases
<1>10. CASE n.kind # "ask" /\ Repeated(t, n)
    <2>1. UNCHANGED <<outcome, agent>>
        BY <1>10 DEF route
    <2>2. "ready" \in seen[t] /\ agent # t
        BY <1>10 DEF Repeated, DeliveryId, Leases, ReportReleases
    <2>3. \A u \in Tasks : "ready" \in seen'[u] <=> "ready" \in seen[u]
        BY <1>7, <2>2
    <2>4. OutcomesAreIndexed' /\ ReportReleases'
        BY <1>6, <2>1, <2>3 DEF Leases, OutcomesAreIndexed, ReportReleases
    <2>5. LeaseHeld'
        BY <1>4, <1>5, <1>6, <2>1, <2>2
           DEF Leases, LeaseHeld, HeldInStep, HeldOnRecord, Types, StepTypes
    <2> QED
        BY <1>8, <2>4, <2>5 DEF Leases
<1>11. CASE n.kind # "ask" /\ ~Repeated(t, n)
    <2>1. reportOutcome(t, n.status)
        BY <1>6, <1>11 DEF route
    <2>2. /\ \A u \in Tasks : u # t => outcome'[u] = outcome[u]
          /\ agent' \in {agent, NoTask} /\ agent' # t
        BY <2>1, TasksAssumption DEF reportOutcome, recordTerminalViews, recorded
    <2>3. OutcomesAreIndexed' /\ ReportReleases'
        BY <1>6, <1>7, <2>2, TasksAssumption DEF Leases, OutcomesAreIndexed, ReportReleases
    <2>4. LeaseHeld'
        BY <1>4, <1>5, <1>6, <2>2
           DEF Leases, LeaseHeld, HeldInStep, HeldOnRecord, Types, StepTypes
    <2> QED
        BY <1>8, <2>3, <2>4 DEF Leases
<1> QED
    BY <1>9, <1>10, <1>11

LEMMA LeasesOfHandOff ==
    ASSUME Types, Settlement, Leases, handOff
    PROVE  Leases'
<1>1. /\ UNCHANGED <<record, outcome, agent, control>> /\ parent = "open" /\ agent = NoTask
      /\ \A t \in Tasks : seen'[t] = {}
    BY DEF handOff, Idle, stepVars, controlVars
<1>2. ViewsAreQueued'
    BY <1>1, NoViewsOutsideControl
<1>3. OutcomesAreIndexed' /\ ReportReleases' /\ LeaseHeld'
    BY <1>1 DEF Leases, OutcomesAreIndexed, ReportReleases, LeaseHeld, Indexed
<1> QED
    BY <1>2, <1>3 DEF Leases

LEMMA LeasesOfAcknowledge ==
    ASSUME Types, Settlement, Leases, NEW t \in Tasks, acknowledge(t)
    PROVE  Leases'
<1>1. /\ UNCHANGED <<record, agent, outcome, seen, inbox, control>>
      /\ parent = "acknowledging"
    BY DEF acknowledge, controlVars, settleVars
<1>2. ViewsAreQueued'
    BY <1>1, NoViewsOutsideControl
<1> QED
    BY <1>1, <1>2, LeaseOnRecord

LEMMA BeginHasNoViews ==
    ASSUME NEW kind, NEW T, beginControl(kind, T)
    PROVE  control'.views = {} /\ control'.left = T /\ control'.at = NoTask
           /\ control'.kind = kind /\ ~control'.over
BY DEF beginControl, NoControl

LEMMA LeasesOfControlStart ==
    ASSUME Types, Settlement, Leases,
           \/ controlDies
           \/ \E kind \in {"tool", "all", "close"} : \E T \in SUBSET Indexed : beginControl(kind, T)
    PROVE  Leases'
<1>1. UNCHANGED <<record, agent, outcome, seen, inbox>>
    BY ZenonT(60) DEF controlDies, beginControl, settleVars, stepVars
<1>2. control'.views = {}
    <2>1. CASE controlDies
        BY <2>1 DEF controlDies, NoControl
    <2> QED
        BY <2>1, BeginHasNoViews
<1>3. parent = "step" => parent' = "step"
    BY DEF controlDies, beginControl
<1>4. ViewsAreQueued'
    BY <1>2 DEF ViewsAreQueued
<1> QED
    BY <1>1, <1>3, <1>4, LeaseOnRecord

LEMMA LeasesOfControl ==
    ASSUME Types, Leases, NEW t \in Tasks,
           \/ skipSettled(t) \/ signalCancel(t) \/ settleCancellation(t)
           \/ cancellationFails(t)
    PROVE  Leases'
<1>1. UNCHANGED <<parent, record, agent, outcome, seen, inbox>>
    BY DEF skipSettled, signalCancel, settleCancellation, cancellationFails, settleVars, stepVars
<1>2. control'.views = control.views /\ control'.kind = control.kind
    BY DEF skipSettled, signalCancel, settleCancellation, cancellationFails, Types, ControlTypes
<1>3. ViewsAreQueued'
    BY <1>1, <1>2 DEF Leases, ViewsAreQueued, HasSettlement
<1> QED
    BY <1>1, <1>3, LeaseOnRecord

LEMMA LeasesOfNotice ==
    ASSUME Types, Settlement, Leases, NEW t \in Tasks, notifyCancelled(t)
    PROVE  Leases'
<1> DEFINE n == Settled("cancelled")
<1>1. inbox' = Notified(t, n) /\ n \in Inboxed /\ n.kind = "settled"
    BY DEF notifyCancelled, ownNotice, Settled, Inboxed, Outcomes, Final
<1>2. /\ control'.views = control.views \cup {t} /\ control'.kind = control.kind
      /\ control.at = t
    BY DEF notifyCancelled, Types, ControlTypes
<1>3. /\ \A u \in Tasks : Members(inbox[u]) \subseteq Members(inbox'[u])
      /\ Accepting => n \in Members(inbox'[t])
    BY <1>1, NotifiedGrows
<1>4. \A u \in Tasks : HasSettlement(u) => HasSettlement(u)'
    BY <1>3 DEF HasSettlement
<1>5. UNCHANGED <<parent, record, agent, outcome, seen>>
    BY DEF notifyCancelled, stepVars, settleVars
<1>6. ViewsAreQueued'
    <2> SUFFICES ASSUME control.kind = "tool" PROVE \A u \in control'.views : HasSettlement(u)'
        BY <1>2 DEF ViewsAreQueued
    <2>1. parent = "cancelling"
        BY <1>2, TasksAssumption DEF Settlement, ControlIsOpen, NoControl
    <2>2. HasSettlement(t)'
        BY <1>1, <1>3, <2>1 DEF Accepting, HasSettlement
    <2>3. control.views \subseteq Tasks
        BY DEF Types, ControlTypes
    <2> QED
        BY <1>2, <1>4, <2>2, <2>3 DEF Leases, ViewsAreQueued
<1> QED
    BY <1>4, <1>5, <1>6, LeaseUntouched

(* The tool leaves the lease to the notices it queued; the other two       *)
(* cancellations give it back themselves.                                  *)
LEMMA LeasesOfEnd ==
    ASSUME Types, Silence, Settlement, Leases, endControl
    PROVE  Leases'
<1>1. /\ UNCHANGED <<record, seen, inbox>> /\ parent = "cancelling" /\ control' = NoControl
      /\ outcome' = recorded(control.views, "cancelled") /\ agent' \in {agent, NoTask}
    BY DEF endControl, recordTerminalViews
<1>2. Indexed' = Indexed /\ control.views \subseteq Indexed
    BY <1>1 DEF Indexed, Silence, References
<1>3. ViewsAreQueued'
    BY <1>1 DEF ViewsAreQueued, NoControl
<1>4. \A t \in Tasks : t \notin control.views => outcome'[t] = outcome[t]
    BY <1>1 DEF recorded
<1>5. OutcomesAreIndexed' /\ ReportReleases'
    BY <1>1, <1>2, <1>4, TasksAssumption DEF Leases, OutcomesAreIndexed, ReportReleases
<1>6. agent' \in control.views => HasSettlement(agent')
    <2>1. CASE control.kind = "tool"
        BY <2>1 DEF Leases, ViewsAreQueued
    <2>2. CASE control.kind # "tool"
        <3>1. agent' = IF agent \in control.views THEN NoTask ELSE agent
            BY <2>2 DEF endControl, recordTerminalViews
        <3> QED
            BY <1>2, <3>1, TasksAssumption DEF Indexed
    <2> QED
        BY <2>1, <2>2
<1>7. LeaseHeld'
    <2> SUFFICES ASSUME agent' # NoTask PROVE HeldOnRecord'
        BY DEF LeaseHeld
    <2>1. agent' = agent /\ agent \in Tasks /\ HeldOnRecord
        BY <1>1 DEF Leases, LeaseHeld, HeldInStep, Types, StepTypes
    <2>2. HasSettlement(agent) => HasSettlement(agent)'
        BY <1>1, <2>1 DEF HasSettlement
    <2>3. agent \in Indexed'
        BY <1>2, <2>1 DEF HeldOnRecord
    <2>4. outcome'[agent] = "none" \/ HasSettlement(agent)
        BY <1>4, <1>6, <2>1 DEF HeldOnRecord
    <2> QED
        BY <2>1, <2>2, <2>3, <2>4 DEF HeldOnRecord
<1> QED
    BY <1>3, <1>5, <1>7 DEF Leases

LEMMA LeasesOfOthers ==
    ASSUME Types, Leases,
           \/ UNCHANGED vars
           \/ \E q \in Questions : answer(q)
           \/ \E t \in Tasks : claimHook(t) \/ stepOfBody(t) \/ stepOfRun(t)
    PROVE  Leases'
<1>1. UNCHANGED <<parent, record, agent, outcome, seen, control>>
    BY ZenonT(60)
       DEF answer, claimHook, stepOfBody, bodyReports, bodyReportsAgain, bodyAsks, bodyReturns,
           stepOfRun, readCommand, readMessage, settle, notify, parentVars, stepVars, controlVars,
           settleVars, vars
<1>2. inbox' = inbox \/ \E t \in Tasks : notify(t)
    BY DEF answer, claimHook, stepOfBody, bodyReports, bodyReportsAgain, bodyAsks, bodyReturns,
           stepOfRun, readCommand, readMessage, settle, parentVars, vars
<1>3. ASSUME NEW t \in Tasks, notify(t)
      PROVE  \A u \in Tasks : Members(inbox[u]) \subseteq Members(inbox'[u])
    <2>1. sending[t] \in Inboxed \cup Updates
        BY <1>3 DEF notify, Types, RunTypes
    <2>2. inbox' = inbox \/ (sending[t] \in Inboxed /\ inbox' = Notified(t, sending[t]))
        BY <1>3, <2>1 DEF notify, Updates
    <2> QED
        BY <2>2, NotifiedGrows
<1>4. \A u \in Tasks : Members(inbox[u]) \subseteq Members(inbox'[u])
    BY <1>2, <1>3
<1>5. \A u \in Tasks : HasSettlement(u) => HasSettlement(u)'
    BY <1>4 DEF HasSettlement
<1>6. ViewsAreQueued'
    BY <1>1, <1>5 DEF Leases, ViewsAreQueued, Types, ControlTypes
<1> QED
    BY <1>1, <1>5, <1>6, LeaseUntouched

LEMMA LeasesStep == Inv /\ Leases /\ [Next]_vars => Leases'
<1> SUFFICES ASSUME Types, Silence, Settlement, Leases, [Next]_vars PROVE Leases'
    BY DEF Inv
<1>1. CASE stepOfParent
    <2>1. CASE commit
        BY <2>1, LeasesOfStepEnd DEF commit
    <2>2. CASE \E t \in Tasks : acknowledge(t)
        BY <2>2, LeasesOfAcknowledge
    <2>3. ASSUME NEW t \in Tasks, NEW i \in DOMAIN inbox[t], route(t, i) PROVE Leases'
        BY <2>3, LeasesOfRoute
    <2> QED
        BY <1>1, <2>1, <2>2, <2>3 DEF stepOfParent
<1>2. CASE stepOfControl
    BY <1>2, LeasesOfControl, LeasesOfNotice, LeasesOfEnd DEF stepOfControl
<1>3. CASE rollback \/ stepDies
    BY <1>3, LeasesOfStepEnd DEF rollback, stepDies
<1>4. CASE controlDies \/ handOff
    BY <1>4, LeasesOfControlStart, LeasesOfHandOff
<1>5. CASE (\E T \in SUBSET Indexed : cancelTasks(T)) \/ cancelAll \/ closeSession
    BY <1>5, LeasesOfControlStart DEF cancelTasks, cancelAll, closeSession
<1>6. ASSUME NEW t \in Tasks,
             startTask(t) \/ delegated(t) \/ startTimesOut(t) \/ cancellationFails(t)
      PROVE  Leases'
    BY <1>6, LeasesOfTurn, LeasesOfControl
<1>7. CASE \/ UNCHANGED vars
           \/ \E q \in Questions : answer(q)
           \/ \E t \in Tasks : claimHook(t) \/ stepOfBody(t) \/ stepOfRun(t)
    BY <1>7, LeasesOfOthers
<1> QED
    BY <1>1, <1>2, <1>3, <1>4, <1>5, <1>6, <1>7 DEF Next

(* The agent's lease belongs to a task of the current step, or to one on   *)
(* record that is still to be settled, whichever way steps fail, tasks are *)
(* cancelled and the session moves: no lease is lost for good.             *)
THEOREM LeasesAreLive == Spec => []LeaseHeldByLiveTask
<1>1. Init => Leases
    BY LeasesInit
<1>2. Inv /\ Leases /\ [Next]_vars => Leases'
    BY LeasesStep
<1>3. Inv /\ Leases => LeaseHeldByLiveTask
    <2> SUFFICES ASSUME Inv, Leases, agent # NoTask, ~HeldInStep
                 PROVE  agent \in Indexed /\ (outcome[agent] = "none" \/ SettlementQueued(agent))
        BY DEF LeaseHeldByLiveTask, HeldInStep
    <2>1. HeldOnRecord
        BY DEF Leases, LeaseHeld
    <2>2. "ready" \notin seen[agent]
        BY <2>1 DEF HeldOnRecord, Indexed, Leases, ReportReleases
    <2> QED
        BY <2>1, <2>2 DEF HeldOnRecord, HasSettlement, SettlementQueued
<1> QED
    BY <1>1, <1>2, <1>3, Invariance, PTL DEF Spec

(***************************************************************************)
(* The end of the session.  A run that is over stays over once its task is *)
(* on record, an outcome that stands stands, and the list of tasks on      *)
(* record does not change while the session ends; so every task it has     *)
(* dealt with remains ended, or missed, until all are.                     *)
(***************************************************************************)
Ended(t) == run[t] = "over" \/ outcome[t] \in {"completed", "failed"}
WaitIsOver == control.over => control.at # NoTask /\ run[control.at] = "over"
EndingReachesAll ==
    control.kind = "close" =>
        \A t \in Indexed : t \in control.left \/ control.at = t \/ t \in missed \/ Ended(t)

Closing == WaitIsOver /\ EndingReachesAll /\ EndStopsTheRest

LEMMA ClosingInit == Init => Closing
BY DEF Init, Closing, WaitIsOver, EndingReachesAll, EndStopsTheRest, NoControl

(* Steps that leave the cancellation, and what is on record, alone.        *)
ParentMoves == \/ commit \/ rollback \/ stepDies
               \/ \E t \in Tasks : \/ acknowledge(t) \/ startTask(t) \/ delegated(t)
                                   \/ startTimesOut(t) \/ (\E i \in DOMAIN inbox[t] : route(t, i))
               \/ \E q \in Questions : answer(q)
               \/ handOff
RunMoves == \E t \in Tasks : claimHook(t) \/ stepOfBody(t) \/ stepOfRun(t)
ControlMoves == \/ \E t \in Tasks : \/ skipSettled(t) \/ signalCancel(t)
                                    \/ settleCancellation(t) \/ notifyCancelled(t)
                                    \/ cancellationFails(t)
                \/ endControl \/ controlDies
                \/ \E kind \in {"tool", "all", "close"} :
                       \E T \in SUBSET Indexed :
                           /\ kind = "close" => T = Indexed
                           /\ beginControl(kind, T)

LEMMA KindsOfMoves == [Next]_vars => ParentMoves \/ RunMoves \/ ControlMoves \/ UNCHANGED vars
<1> SUFFICES ASSUME Next PROVE ParentMoves \/ RunMoves \/ ControlMoves
    OBVIOUS
<1>1. CASE stepOfParent
    BY <1>1 DEF stepOfParent, ParentMoves
<1>2. CASE stepOfControl
    BY <1>2 DEF stepOfControl, ControlMoves
<1>3. CASE \/ rollback \/ stepDies \/ handOff \/ \E q \in Questions : answer(q)
    BY <1>3 DEF ParentMoves
<1>4. CASE controlDies
    BY <1>4 DEF ControlMoves
<1>5. CASE (\E T \in SUBSET Indexed : cancelTasks(T)) \/ cancelAll \/ closeSession
    BY <1>5 DEF cancelTasks, cancelAll, closeSession, ControlMoves
<1>6. ASSUME NEW t \in Tasks,
             \/ startTask(t) \/ claimHook(t) \/ delegated(t) \/ startTimesOut(t)
             \/ stepOfRun(t) \/ stepOfBody(t) \/ cancellationFails(t)
      PROVE  ParentMoves \/ RunMoves \/ ControlMoves
    BY <1>6 DEF ParentMoves, RunMoves, ControlMoves
<1> QED
    BY <1>1, <1>2, <1>3, <1>4, <1>5, <1>6 DEF Next

LEMMA RunsStayOver ==
    ASSUME Types, [Next]_vars, NEW t \in Indexed, run[t] = "over"
    PROVE  run'[t] = "over"
<1>1. t \in Tasks /\ record[t] = "indexed"
    BY DEF Indexed
<1>2. run \in [Tasks -> {"none", "started", "owned", "over"}]
    BY DEF Types, ViewTypes
<1>3. CASE ParentMoves
    <2>1. run' = run \/ \E u \in Tasks : record[u] = "none" /\ run' = [run EXCEPT ![u] = "started"]
        BY <1>3, ZenonT(60)
           DEF ParentMoves, commit, rollback, stepDies, StepEnds, acknowledge, startTask, delegated,
               startTimesOut, route, answer, handOff, runVars
    <2> QED
        BY <1>1, <1>2, <2>1
<1>4. CASE RunMoves
    <2>1. PICK u \in Tasks : claimHook(u) \/ stepOfBody(u) \/ stepOfRun(u)
        BY <1>4 DEF RunMoves
    <2>2. CASE claimHook(u)
        BY <1>2, <2>2 DEF claimHook
    <2>3. CASE stepOfBody(u)
        BY <2>3 DEF stepOfBody, bodyReports, bodyReportsAgain, bodyAsks, bodyReturns, runVars
    <2>4. CASE stepOfRun(u)
        <3>1. run' = run \/ run' = [run EXCEPT ![u] = "over"]
            <4>1. CASE readCommand(u)
                <5>1. Head(commands[u]) \in CommandSet
                    BY <4>1, HeadAndTail DEF readCommand, Types, CommandTypes
                <5> QED
                    BY <4>1, <5>1 DEF readCommand, handleReject, CommandSet
            <4>2. CASE readMessage(u) \/ settle(u) \/ notify(u)
                BY <4>2 DEF readMessage, settle, notify
            <4> QED
                BY <2>4, <4>1, <4>2 DEF stepOfRun
        <3> QED
            BY <1>1, <1>2, <3>1
    <2> QED
        BY <2>1, <2>2, <2>3, <2>4
<1>5. CASE ControlMoves
    <2>1. run' = run \/ \E u \in Tasks : run' = [run EXCEPT ![u] = "over"]
        BY <1>5, ZenonT(60)
           DEF ControlMoves, skipSettled, signalCancel, settleCancellation, notifyCancelled,
               cancellationFails, endControl, controlDies, beginControl, stopped, runVars
    <2> QED
        BY <1>1, <1>2, <2>1
<1>6. CASE UNCHANGED vars
    BY <1>6 DEF vars, runVars
<1> QED
    BY <1>3, <1>4, <1>5, <1>6, KindsOfMoves

LEMMA OutcomesStand ==
    ASSUME [Next]_vars, NEW t \in Tasks, outcome[t] # "none"
    PROVE  outcome'[t] = outcome[t]
<1>1. UNCHANGED outcome \/ \E T, s : outcome' = recorded(T, s)
    <2>1. CASE ParentMoves
        BY <2>1, ZenonT(60)
           DEF ParentMoves, commit, rollback, stepDies, StepEnds, acknowledge, startTask, delegated,
               startTimesOut, route, answer, handOff, reportOutcome, recordTerminalViews,
               recordTaskInputRequest, settleVars
    <2>2. CASE RunMoves
        BY <2>2, ZenonT(60)
           DEF RunMoves, claimHook, stepOfBody, bodyReports, bodyReportsAgain, bodyAsks,
               bodyReturns, stepOfRun, readCommand, readMessage, settle, notify, parentVars,
               settleVars
    <2>3. CASE ControlMoves
        BY <2>3, ZenonT(60)
           DEF ControlMoves, skipSettled, signalCancel, settleCancellation, notifyCancelled,
               cancellationFails, endControl, controlDies, beginControl, recordTerminalViews, settleVars
    <2>4. CASE UNCHANGED vars
        BY <2>4 DEF vars, parentVars, settleVars
    <2> QED
        BY <2>1, <2>2, <2>3, <2>4, KindsOfMoves
<1> QED
    BY <1>1 DEF recorded

LEMMA EndedStays ==
    ASSUME Types, [Next]_vars, NEW t \in Indexed, Ended(t)
    PROVE  Ended(t)'
<1>1. t \in Tasks
    BY DEF Indexed
<1> QED
    BY <1>1, RunsStayOver, OutcomesStand DEF Ended

(* The cancellation and the phase do not change while the session ends.    *)
LEMMA ClosingOfOthers ==
    ASSUME Types, Silence, Settlement, Closing, [Next]_vars,
           ParentMoves \/ RunMoves \/ UNCHANGED vars
    PROVE  Closing'
<1>1. UNCHANGED <<control, missed>>
    <2>1. CASE ParentMoves
        BY <2>1, ZenonT(60)
           DEF ParentMoves, commit, rollback, stepDies, StepEnds, acknowledge, startTask, delegated,
               startTimesOut, route, answer, handOff, controlVars
    <2>2. CASE RunMoves
        BY <2>2, ZenonT(60)
           DEF RunMoves, claimHook, stepOfBody, bodyReports, bodyReportsAgain, bodyAsks,
               bodyReturns, stepOfRun, readCommand, readMessage, settle, notify, parentVars,
               controlVars
    <2>3. CASE UNCHANGED vars
        BY <2>3 DEF vars, parentVars, controlVars
    <2> QED
        BY <2>1, <2>2, <2>3
<1>2. CASE parent \in {"cancelling", "ended"}
    <2>1. UNCHANGED <<parent, record>> \/ \E t \in Tasks : delegated(t) \/ startTimesOut(t)
        <3>1. CASE ParentMoves
            BY <1>2, <3>1, ZenonT(60)
               DEF ParentMoves, commit, rollback, stepDies, StepEnds, acknowledge, startTask,
                   route, answer, handOff, stepVars
        <3>2. CASE RunMoves
            BY <3>2, ZenonT(60)
               DEF RunMoves, claimHook, stepOfBody, bodyReports, bodyReportsAgain, bodyAsks,
                   bodyReturns, stepOfRun, readCommand, readMessage, settle, notify, parentVars,
                   stepVars
        <3>3. CASE UNCHANGED vars
            BY <3>3 DEF vars, parentVars, stepVars
        <3> QED
            BY <3>1, <3>2, <3>3
    <2>2. parent' = parent /\ Indexed' = Indexed
        BY <2>1 DEF delegated, startTimesOut, Indexed, Types, StepTypes
    <2>3. WaitIsOver'
        BY <1>1, RunsStayOver, TasksAssumption DEF Closing, WaitIsOver, Silence, References
    <2>4. EndingReachesAll'
        BY <1>1, <2>2, EndedStays DEF Closing, EndingReachesAll
    <2>5. EndStopsTheRest'
        BY <1>1, <2>2, EndedStays DEF Closing, EndStopsTheRest, Ended
    <2> QED
        BY <2>3, <2>4, <2>5 DEF Closing
<1>3. CASE parent \notin {"cancelling", "ended"}
    <2>1. control' = NoControl
        BY <1>1, <1>3 DEF Settlement, ControlIsOpen
    <2>2. parent' # "ended"
        <3>1. CASE ParentMoves
            BY <1>3, <3>1, ZenonT(60)
               DEF ParentMoves, commit, rollback, stepDies, StepEnds, acknowledge, startTask,
                   delegated, startTimesOut, route, answer, handOff, stepVars
        <3>2. CASE RunMoves
            BY <1>3, <3>2, ZenonT(60)
               DEF RunMoves, claimHook, stepOfBody, bodyReports, bodyReportsAgain, bodyAsks,
                   bodyReturns, stepOfRun, readCommand, readMessage, settle, notify, parentVars,
                   stepVars
        <3>3. CASE UNCHANGED vars
            BY <1>3, <3>3 DEF vars, parentVars, stepVars
        <3> QED
            BY <3>1, <3>2, <3>3
    <2> QED
        BY <2>1, <2>2 DEF Closing, WaitIsOver, EndingReachesAll, EndStopsTheRest, NoControl
<1> QED
    BY <1>2, <1>3

LEMMA ClosingOfControl ==
    ASSUME Types, Silence, Settlement, Closing, [Next]_vars, NEW t \in Tasks,
           \/ skipSettled(t) \/ signalCancel(t) \/ settleCancellation(t) \/ notifyCancelled(t)
           \/ cancellationFails(t)
    PROVE  Closing'
<1>1. UNCHANGED <<parent, record>> /\ control'.kind = control.kind
    BY DEF skipSettled, signalCancel, settleCancellation, notifyCancelled, cancellationFails,
           stepVars, Types, ControlTypes
<1>2. Indexed' = Indexed
    BY <1>1 DEF Indexed
<1>3. parent = "cancelling"
    <2>1. t \in control.left \/ control.at = t
        BY DEF skipSettled, signalCancel, settleCancellation, notifyCancelled, cancellationFails,
               failing
    <2> QED
        BY <2>1, TasksAssumption DEF Settlement, ControlIsOpen, NoControl
<1>4. EndStopsTheRest'
    BY <1>1, <1>3 DEF EndStopsTheRest
<1>5. CASE skipSettled(t)
    <2>1. control'.left = control.left \ {t} /\ control'.at = NoTask /\ control.at = NoTask
          /\ control'.over = control.over /\ UNCHANGED missed
        BY <1>5 DEF skipSettled, Types, ControlTypes
    <2>2. Ended(t)
        BY <1>5 DEF skipSettled, Ended
    <2>3. WaitIsOver'
        BY <2>1 DEF Closing, WaitIsOver
    <2>4. EndingReachesAll'
        BY <1>1, <1>2, <2>1, <2>2, EndedStays, TasksAssumption
           DEF Closing, EndingReachesAll, Indexed
    <2> QED
        BY <1>4, <2>3, <2>4 DEF Closing
<1>6. CASE signalCancel(t)
    <2>1. control'.left = control.left \ {t} /\ control'.at = t /\ control.at = NoTask
          /\ control'.over = control.over /\ missed' = missed \ {t}
        BY <1>6 DEF signalCancel, Types, ControlTypes
    <2>2. WaitIsOver'
        BY <2>1 DEF Closing, WaitIsOver
    <2>3. EndingReachesAll'
        BY <1>1, <1>2, <2>1, EndedStays, TasksAssumption DEF Closing, EndingReachesAll, Indexed
    <2> QED
        BY <1>4, <2>2, <2>3 DEF Closing
<1>7. CASE settleCancellation(t)
    <2>1. control'.left = control.left /\ control'.at = t /\ control.at = t /\ UNCHANGED missed
        BY <1>7 DEF settleCancellation, Types, ControlTypes
    <2>2. run'[t] = "over"
        BY <1>7 DEF settleCancellation, stopped, Types, ViewTypes
    <2>3. WaitIsOver'
        BY <2>1, <2>2, TasksAssumption DEF WaitIsOver
    <2>4. EndingReachesAll'
        BY <1>1, <1>2, <2>1, EndedStays DEF Closing, EndingReachesAll
    <2> QED
        BY <1>4, <2>3, <2>4 DEF Closing
<1>8. CASE notifyCancelled(t)
    <2>1. /\ control'.left = control.left /\ control'.at = NoTask /\ control.at = t
          /\ control.over /\ ~control'.over /\ UNCHANGED missed
        BY <1>8 DEF notifyCancelled, Types, ControlTypes
    <2>2. Ended(t)
        BY <2>1 DEF Closing, WaitIsOver, Ended
    <2>3. WaitIsOver'
        BY <2>1 DEF WaitIsOver
    <2>4. EndingReachesAll'
        BY <1>1, <1>2, <2>1, <2>2, EndedStays, TasksAssumption
           DEF Closing, EndingReachesAll, Indexed
    <2> QED
        BY <1>4, <2>3, <2>4 DEF Closing
<1>9. CASE cancellationFails(t)
    <2>1. /\ control'.left = control.left \ {t} /\ control'.at = NoTask /\ ~control'.over
          /\ control.at \in {t, NoTask} /\ missed' = missed \cup {t}
        BY <1>9 DEF cancellationFails, remaining, failing, Types, ControlTypes
    <2>2. WaitIsOver'
        BY <2>1 DEF WaitIsOver
    <2>3. EndingReachesAll'
        BY <1>1, <1>2, <2>1, EndedStays, TasksAssumption DEF Closing, EndingReachesAll, Indexed
    <2> QED
        BY <1>4, <2>2, <2>3 DEF Closing
<1> QED
    BY <1>5, <1>6, <1>7, <1>8, <1>9

LEMMA ClosingOfEnd ==
    ASSUME Types, Closing, [Next]_vars, endControl
    PROVE  Closing'
<1>1. /\ control' = NoControl /\ control.left = {} /\ control.at = NoTask
      /\ UNCHANGED <<record, missed>> /\ parent' = IF control.kind = "close" THEN "ended" ELSE "open"
    BY DEF endControl
<1>2. Indexed' = Indexed
    BY <1>1 DEF Indexed
<1>3. WaitIsOver' /\ EndingReachesAll'
    BY <1>1 DEF WaitIsOver, EndingReachesAll, NoControl
<1>4. EndStopsTheRest'
    <2> SUFFICES ASSUME parent' = "ended", NEW t \in Indexed \ missed PROVE Ended(t)'
        BY <1>1, <1>2 DEF EndStopsTheRest, Ended
    <2>1. control.kind = "close"
        BY <1>1
    <2>2. Ended(t)
        BY <1>1, <2>1, TasksAssumption DEF Closing, EndingReachesAll, Indexed
    <2> QED
        BY <2>2, EndedStays
<1> QED
    BY <1>3, <1>4 DEF Closing

LEMMA ClosingOfStart ==
    ASSUME Types, Closing, NEW kind \in {"tool", "all", "close"}, NEW T \in SUBSET Indexed,
           kind = "close" => T = Indexed, beginControl(kind, T)
    PROVE  Closing'
<1>1. /\ control'.views = {} /\ control'.left = T /\ control'.at = NoTask
      /\ control'.kind = kind /\ ~control'.over
    BY BeginHasNoViews
<1>2. parent' = "cancelling" /\ record' = record
    BY DEF beginControl
<1>3. Indexed' = Indexed
    BY <1>2 DEF Indexed
<1> QED
    BY <1>1, <1>2, <1>3 DEF Closing, WaitIsOver, EndingReachesAll, EndStopsTheRest

LEMMA ClosingOfDeath ==
    ASSUME Types, Settlement, Closing, [Next]_vars, controlDies
    PROVE  Closing'
<1>1. UNCHANGED <<parent, record>> /\ parent = "cancelling"
    BY DEF controlDies, stepVars
<1>2. Indexed' = Indexed
    BY <1>1 DEF Indexed
<1>3. /\ control'.kind = control.kind /\ ~control'.over
      /\ control.kind = "close" => control'.left = Indexed
    BY DEF controlDies, NoControl
<1>4. WaitIsOver' /\ EndStopsTheRest'
    BY <1>1, <1>3 DEF WaitIsOver, EndStopsTheRest
<1>5. EndingReachesAll'
    BY <1>2, <1>3 DEF EndingReachesAll
<1> QED
    BY <1>4, <1>5 DEF Closing

LEMMA ClosingStep == Inv /\ Closing /\ [Next]_vars => Closing'
<1> SUFFICES ASSUME Types, Silence, Settlement, Closing, [Next]_vars PROVE Closing'
    BY DEF Inv
<1>1. CASE ControlMoves
    BY <1>1, ClosingOfControl, ClosingOfEnd, ClosingOfDeath, ClosingOfStart DEF ControlMoves
<1> QED
    BY <1>1, ClosingOfOthers, KindsOfMoves

(* When the session has ended, every task on record has announced its      *)
(* outcome or has no run left, but for those whose own cancellation        *)
(* failed, whichever did and however often the step died and started over. *)
THEOREM EndingStopsTheRest == Spec => []EndStopsTheRest
<1>1. Init => Closing
    BY ClosingInit
<1>2. Inv /\ Closing /\ [Next]_vars => Closing'
    BY ClosingStep
<1>3. Closing => EndStopsTheRest
    BY DEF Closing
<1> QED
    BY <1>1, <1>2, <1>3, Invariance, PTL DEF Spec

(***************************************************************************)
(* Reports.  The reports of a body wait in the order of their numbers, the *)
(* loop counts those it read, and one it read is on its way to the parent  *)
(* or has arrived; so a body whose reports are all counted has been heard. *)
(* It holds as long as no report is sent twice, for the loop counts a      *)
(* repeated one again.                                                     *)
(***************************************************************************)
IsUpdate(m) == m.kind = "update"
Ascending(s) ==
    \A i, j \in 1 .. Len(s) : i < j /\ IsUpdate(s[i]) /\ IsUpdate(s[j]) => s[i].index < s[j].index
Within(s, low, high) ==
    \A i \in 1 .. Len(s) : IsUpdate(s[i]) => low < s[i].index /\ s[i].index <= high

UnreadInOrder(t) ==
    /\ Ascending(messages[t]) /\ Within(messages[t], consumed[t], produced[t])
    /\ consumed[t] <= produced[t]
HeardOrUnread(t) ==
    t \in Subagents /\ run[t] = "owned" /\ status[t] # "cancelled" =>
        \A i \in 1 .. produced[t] : \/ i \in heard[t] \/ sending[t] = Update(i)
                                    \/ Update(i) \in Members(messages[t])
VerdictIsSent(t) ==
    status[t] \in {"completed", "failed"} => run[t] = "over" \/ sending[t] = Settled(status[t])
VerdictIsLast(t) ==
    sending[t] \in {Settled("completed"), Settled("failed")} =>
        body[t] \in Final /\ (t \in Subagents => 1 .. produced[t] \subseteq heard[t])
BeginsEmpty(t) ==
    /\ run[t] \in {"none", "started"} => produced[t] = 0
    /\ record[t] = "none" => run[t] = "none"

Orderly(t) == /\ UnreadInOrder(t) /\ HeardOrUnread(t) /\ VerdictIsSent(t) /\ VerdictIsLast(t)
              /\ BeginsEmpty(t)
Reporting == \A t \in Tasks : Orderly(t)

LEMMA ReportingInit == Init => Reporting
<1> SUFFICES ASSUME Init, NEW t \in Tasks PROVE Orderly(t)
    BY DEF Reporting
<1> USE DEF Init
<1>1. UnreadInOrder(t)
    BY DEF UnreadInOrder, Ascending, Within
<1>2. HeardOrUnread(t) /\ VerdictIsSent(t) /\ VerdictIsLast(t) /\ BeginsEmpty(t)
    BY DEF HeardOrUnread, VerdictIsSent, VerdictIsLast, BeginsEmpty, Nothing, Settled
<1> QED
    BY <1>1, <1>2 DEF Orderly

LEMMA OrderOfNewReport ==
    ASSUME NEW s \in Seq(Requests \cup Updates), NEW low \in Nat, NEW high \in Nat, low <= high,
           Ascending(s), Within(s, low, high)
    PROVE  LET r == Append(s, Update(high + 1))
           IN  Ascending(r) /\ Within(r, low, high + 1)
<1> DEFINE m == Update(high + 1)
           r == Append(s, m)
<1>1. IsUpdate(m) /\ m.index = high + 1
    BY DEF Update, IsUpdate
<1> HIDE DEF m
<1>2. /\ Len(r) = Len(s) + 1 /\ Len(s) \in Nat /\ r[Len(s) + 1] = m
      /\ \A i \in 1 .. Len(s) : r[i] = s[i]
    OBVIOUS
<1> HIDE DEF r
<1>3. \A i \in 1 .. Len(s) : IsUpdate(s[i]) => s[i].index \in Nat
    BY DEF IsUpdate, Requests, Updates
<1>4. \A i \in 1 .. Len(s) : IsUpdate(r[i]) => /\ low < r[i].index /\ r[i].index <= high
                                                /\ r[i].index \in Nat
    BY <1>2, <1>3 DEF Within
<1>5. Within(r, low, high + 1)
    <2>1. low < high + 1 /\ high + 1 <= high + 1
        OBVIOUS
    <2> SUFFICES ASSUME NEW i \in 1 .. Len(r), IsUpdate(r[i])
                 PROVE  low < r[i].index /\ r[i].index <= high + 1
        BY DEF Within
    <2>2. CASE i = Len(s) + 1
        BY <1>1, <1>2, <2>1, <2>2
    <2>3. CASE i # Len(s) + 1
        <3>1. i \in 1 .. Len(s)
            BY <1>2, <2>3
        <3>2. r[i].index <= high /\ low < r[i].index /\ r[i].index \in Nat
            BY <1>4, <3>1
        <3> QED
            BY <3>2
    <2> QED
        BY <2>2, <2>3
<1>6. Ascending(r)
    <2> SUFFICES ASSUME NEW i \in 1 .. Len(r), NEW j \in 1 .. Len(r), i < j, IsUpdate(r[i]),
                        IsUpdate(r[j])
                 PROVE  r[i].index < r[j].index
        BY DEF Ascending
    <2>1. i \in 1 .. Len(s)
        BY <1>2
    <2>2. CASE j = Len(s) + 1
        <3>1. r[i].index <= high /\ r[i].index \in Nat
            BY <1>4, <2>1
        <3>2. r[j].index = high + 1
            BY <1>1, <1>2, <2>2
        <3> QED
            BY <3>1, <3>2
    <2>3. CASE j # Len(s) + 1
        <3>1. j \in 1 .. Len(s)
            BY <1>2, <2>3
        <3>2. r[i] = s[i] /\ r[j] = s[j]
            BY <1>2, <2>1, <3>1
        <3> QED
            BY <2>1, <3>1, <3>2 DEF Ascending
    <2> QED
        BY <2>2, <2>3
<1> QED
    BY <1>5, <1>6 DEF r, m

LEMMA OrderOfNewRequest ==
    ASSUME NEW s \in Seq(Requests \cup Updates), NEW low \in Nat, NEW high \in Nat,
           NEW q \in Questions, Ascending(s), Within(s, low, high)
    PROVE  Ascending(Append(s, Asks(q))) /\ Within(Append(s, Asks(q)), low, high)
<1> DEFINE m == Asks(q)
           r == Append(s, m)
<1>1. ~IsUpdate(m)
    BY DEF Asks, IsUpdate
<1> HIDE DEF m
<1>2. /\ Len(r) = Len(s) + 1 /\ Len(s) \in Nat /\ r[Len(s) + 1] = m
      /\ \A i \in 1 .. Len(s) : r[i] = s[i]
    OBVIOUS
<1> HIDE DEF r
<1>3. \A i \in 1 .. Len(r) : IsUpdate(r[i]) => i \in 1 .. Len(s)
    BY <1>1, <1>2
<1> QED
    BY <1>2, <1>3 DEF Ascending, Within, r, m

(* What is read was the first of what remains.                             *)
LEMMA OrderOfRest ==
    ASSUME NEW s \in Seq(Requests \cup Updates), s # <<>>, NEW low \in Nat, NEW high \in Nat,
           Ascending(s), Within(s, low, high)
    PROVE  /\ Ascending(Tail(s)) /\ Within(Tail(s), low, high)
           /\ IsUpdate(Head(s)) => Within(Tail(s), low + 1, high) /\ low + 1 <= high
<1> DEFINE r == Tail(s)
<1>1. Len(s) \in Nat /\ Len(s) # 0 /\ Head(s) = s[1]
    OBVIOUS
<1>2. Len(r) = Len(s) - 1 /\ \A i \in 1 .. Len(r) : r[i] = s[i + 1] /\ i + 1 \in 1 .. Len(s)
    BY <1>1
<1> HIDE DEF r
<1>3. \A i \in 1 .. Len(s) : IsUpdate(s[i]) => s[i].index \in Nat
    BY DEF IsUpdate, Requests, Updates
<1>4. Ascending(r) /\ Within(r, low, high)
    <2>1. Within(r, low, high)
        BY <1>2 DEF Within
    <2>2. ASSUME NEW i \in 1 .. Len(r), NEW j \in 1 .. Len(r), i < j, IsUpdate(r[i]),
                 IsUpdate(r[j])
          PROVE  r[i].index < r[j].index
        <3>1. /\ i + 1 \in 1 .. Len(s) /\ r[i] = s[i + 1]
              /\ j + 1 \in 1 .. Len(s) /\ r[j] = s[j + 1] /\ i + 1 < j + 1
            BY <1>1, <1>2, <2>2
        <3>2. IsUpdate(s[i + 1]) /\ IsUpdate(s[j + 1])
            BY <2>2, <3>1
        <3>3. s[i + 1].index < s[j + 1].index
            BY <3>1, <3>2 DEF Ascending
        <3> QED
            BY <3>1, <3>3
    <2> QED
        BY <2>1, <2>2 DEF Ascending
<1>5. ASSUME IsUpdate(s[1]) PROVE Within(r, low + 1, high) /\ low + 1 <= high
    <2>1. 1 \in 1 .. Len(s) /\ low < s[1].index /\ s[1].index <= high /\ s[1].index \in Nat
        BY <1>1, <1>3, <1>5 DEF Within
    <2>2. ASSUME NEW i \in 1 .. Len(r), IsUpdate(r[i])
          PROVE  low + 1 < r[i].index /\ r[i].index <= high
        <3>1. i + 1 \in 1 .. Len(s) /\ r[i] = s[i + 1] /\ 1 < i + 1
            BY <1>2
        <3>2. s[1].index < s[i + 1].index /\ s[i + 1].index \in Nat /\ s[i + 1].index <= high
            BY <1>3, <1>5, <2>1, <2>2, <3>1 DEF Ascending, Within
        <3> QED
            BY <2>1, <3>1, <3>2
    <2> QED
        BY <2>1, <2>2 DEF Within
<1> QED
    BY <1>1, <1>4, <1>5 DEF r

LEMMA HeadLeavesTheRest ==
    ASSUME NEW S, NEW s \in Seq(S), s # <<>>
    PROVE  \A x \in Members(s) : x = Head(s) \/ x \in Members(Tail(s))
<1>1. Len(s) \in Nat /\ Len(s) # 0 /\ Head(s) = s[1]
    OBVIOUS
<1>2. Len(Tail(s)) = Len(s) - 1 /\ \A i \in 1 .. Len(Tail(s)) : Tail(s)[i] = s[i + 1]
    BY <1>1
<1>3. ASSUME NEW i \in 1 .. Len(s), i # 1
      PROVE  s[i] \in Members(Tail(s))
    <2>1. i - 1 \in 1 .. Len(Tail(s)) /\ Tail(s)[i - 1] = s[i]
        BY <1>1, <1>2, <1>3
    <2> QED
        BY <2>1 DEF Members
<1> QED
    BY <1>1, <1>3 DEF Members

(* A task none of whose reports, views and runs is touched.                *)
LEMMA OrderlyUntouched ==
    ASSUME NEW t \in Tasks, Orderly(t), record'[t] = "none" => record[t] = "none",
           UNCHANGED <<run[t], status[t], body[t], produced[t], consumed[t], messages[t],
                       sending[t], heard[t]>>
    PROVE  Orderly(t)'
<1>1. UnreadInOrder(t)'
    BY DEF Orderly, UnreadInOrder
<1>2. HeardOrUnread(t)' /\ VerdictIsSent(t)' /\ VerdictIsLast(t)' /\ BeginsEmpty(t)'
    BY DEF Orderly, HeardOrUnread, VerdictIsSent, VerdictIsLast, BeginsEmpty
<1> QED
    BY <1>1, <1>2 DEF Orderly

LEMMA ReportingOfStart ==
    ASSUME Types, Silence, Reporting, NEW t \in Tasks, startTask(t) \/ claimHook(t)
    PROVE  Reporting'
<1>1. /\ UNCHANGED <<status, body, produced, consumed, messages, sending, heard>>
      /\ \A u \in Tasks : u # t => run'[u] = run[u] /\ record'[u] = record[u]
    BY DEF startTask, claimHook, bodyVars, viewVars, parentVars, stepVars, Types, ViewTypes,
           StepTypes
<1>2. \A u \in Tasks : u # t => Orderly(u)'
    BY <1>1, OrderlyUntouched DEF Reporting
<1>3. Orderly(t)
    BY DEF Reporting
<1>4. produced[t] = 0 /\ run[t] \in {"none", "started"} /\ run'[t] \in {"started", "owned"}
    BY <1>3 DEF Orderly, BeginsEmpty, startTask, claimHook, Types, ViewTypes
<1>5. UnreadInOrder(t)'
    BY <1>1, <1>3 DEF Orderly, UnreadInOrder
<1>6. HeardOrUnread(t)' /\ VerdictIsSent(t)' /\ VerdictIsLast(t)'
    BY <1>1, <1>3, <1>4 DEF Orderly, HeardOrUnread, VerdictIsSent, VerdictIsLast
<1>7. BeginsEmpty(t)'
    <2>1. CASE startTask(t)
        BY <1>1, <1>4, <2>1 DEF startTask, BeginsEmpty, Types, StepTypes, ViewTypes
    <2>2. CASE claimHook(t)
        BY <1>1, <1>3, <1>4, <2>2
           DEF claimHook, BeginsEmpty, Orderly, parentVars, stepVars, Types, ViewTypes
    <2> QED
        BY <2>1, <2>2
<1> QED
    BY <1>2, <1>5, <1>6, <1>7 DEF Reporting, Orderly

LEMMA ReportingOfParent ==
    ASSUME Types, Reporting,
           \/ UNCHANGED vars
           \/ ParentMoves /\ \A t \in Tasks : ~startTask(t)
    PROVE  Reporting'
<1>1. UNCHANGED <<run, status, body, produced, consumed, messages, sending, heard>>
    BY ZenonT(60)
       DEF ParentMoves, commit, rollback, stepDies, StepEnds, acknowledge, delegated,
           startTimesOut, route, answer, handOff, bodyVars, viewVars, runVars, vars
<1>2. \A t \in Tasks : record'[t] = "none" => record[t] = "none"
    <2>1. CASE UNCHANGED record
        BY <2>1
    <2>2. CASE \E t \in Tasks : delegated(t) \/ startTimesOut(t)
        BY <2>2 DEF delegated, startTimesOut, Types, StepTypes
    <2>3. ASSUME NEW fate \in {"indexed", "rejected", "abandoned"}, StepEnds(fate)
          PROVE  \A t \in Tasks : record'[t] = "none" => record[t] = "none"
        BY <2>3 DEF StepEnds
    <2> QED
        BY <2>1, <2>2, <2>3
           DEF ParentMoves, commit, rollback, stepDies, acknowledge, route, answer, handOff,
               stepVars, vars, parentVars
<1> QED
    BY <1>1, <1>2, OrderlyUntouched DEF Reporting

LEMMA ReportingOfControl ==
    ASSUME Types, Silence, Reporting, ControlMoves
    PROVE  Reporting'
<1>1. CASE UNCHANGED <<run, sending>>
    <2>1. UNCHANGED <<record, status, body, produced, consumed, messages, heard>>
        BY ZenonT(60)
           DEF ControlMoves, skipSettled, signalCancel, settleCancellation, notifyCancelled,
               cancellationFails, endControl, controlDies, beginControl, bodyVars, viewVars, runVars, stepVars
    <2> QED
        BY <1>1, <2>1, OrderlyUntouched DEF Reporting
<1>2. ASSUME NEW t \in Tasks, settleCancellation(t), stopped(t)
      PROVE  Reporting'
    <2>1. /\ UNCHANGED <<record, status, body, produced, consumed, messages, heard>>
          /\ \A u \in Tasks : u # t => run'[u] = run[u] /\ sending'[u] = sending[u]
          /\ run'[t] = "over" /\ sending'[t] \in {sending[t], Nothing}
          /\ control.at = t
        BY <1>2 DEF settleCancellation, stopped, bodyVars, viewVars, stepVars, Types, ViewTypes,
                    RunTypes
    <2>2. \A u \in Tasks : u # t => Orderly(u)'
        BY <2>1, OrderlyUntouched DEF Reporting
    <2>3. Orderly(t) /\ record[t] = "indexed"
        BY <2>1, TasksAssumption DEF Reporting, Silence, References, Indexed
    <2>4. UnreadInOrder(t)' /\ HeardOrUnread(t)' /\ VerdictIsSent(t)' /\ BeginsEmpty(t)'
        BY <2>1, <2>3
           DEF Orderly, UnreadInOrder, HeardOrUnread, VerdictIsSent, BeginsEmpty
    <2>5. VerdictIsLast(t)'
        BY <2>1, <2>3 DEF Orderly, VerdictIsLast, Nothing, Settled
    <2> QED
        BY <2>2, <2>4, <2>5 DEF Reporting, Orderly
<1>3. UNCHANGED <<run, sending>> \/ \E t \in Tasks : settleCancellation(t) /\ stopped(t)
    BY ZenonT(60)
       DEF ControlMoves, skipSettled, signalCancel, settleCancellation, notifyCancelled,
           cancellationFails, endControl, controlDies, beginControl, runVars
<1> QED
    BY <1>1, <1>2, <1>3

LEMMA ReportingOfBody ==
    ASSUME Types, Reporting, "report" \notin Repeats, NEW t \in Tasks, stepOfBody(t)
    PROVE  Reporting'
<1>1. /\ UNCHANGED <<record, run, status, consumed, sending, heard>>
      /\ body[t] = "running" /\ run[t] = "owned"
      /\ \A u \in Tasks : u # t => /\ UNCHANGED <<body[u], messages[u]>>
                                   /\ produced'[u] = produced[u]
    BY DEF stepOfBody, bodyReports, bodyReportsAgain, bodyAsks, bodyReturns, parentVars, stepVars,
           runVars, viewVars, Types, BodyTypes
<1>2. \A u \in Tasks : u # t => Orderly(u)'
    BY <1>1, OrderlyUntouched DEF Reporting
<1>3. Orderly(t)
    BY DEF Reporting
<1>4. /\ messages[t] \in Seq(Requests \cup Updates)
      /\ produced[t] \in Nat /\ consumed[t] \in Nat
    BY DEF Types, BodyTypes, RunTypes
<1>5. sending[t] \notin {Settled("completed"), Settled("failed")}
    BY <1>1, <1>3 DEF Orderly, VerdictIsLast, Final
<1>6. VerdictIsSent(t)' /\ VerdictIsLast(t)'
    BY <1>1, <1>3, <1>5 DEF Orderly, VerdictIsSent, VerdictIsLast
<1>7. BeginsEmpty(t)'
    BY <1>1, <1>3 DEF Orderly, BeginsEmpty
<1>8. UnreadInOrder(t)' /\ HeardOrUnread(t)'
    <2>1. CASE bodyReports(t)
        <3>1. /\ messages'[t] = Append(messages[t], Update(produced[t] + 1))
              /\ produced'[t] = produced[t] + 1
            BY <2>1 DEF bodyReports, Types, BodyTypes
        <3>2. UnreadInOrder(t)'
            BY <1>1, <1>3, <1>4, <3>1, OrderOfNewReport DEF Orderly, UnreadInOrder
        <3>3. Update(produced[t] + 1) \in Requests \cup Updates
            BY <1>4 DEF Update, Updates
        <3>4. Members(messages'[t]) = Members(messages[t]) \cup {Update(produced[t] + 1)}
            BY <1>4, <3>1, <3>3, MembersOfAppend
        <3>5. \A i \in 1 .. produced'[t] : i \in 1 .. produced[t] \/ i = produced[t] + 1
            BY <1>4, <3>1
        <3>6. HeardOrUnread(t)'
            BY <1>1, <1>3, <3>4, <3>5 DEF Orderly, HeardOrUnread
        <3> QED
            BY <3>2, <3>6
    <2>2. ASSUME NEW q \in Questions, bodyAsks(t, q)
          PROVE  UnreadInOrder(t)' /\ HeardOrUnread(t)'
        <3>1. messages'[t] = Append(messages[t], Asks(q)) /\ produced'[t] = produced[t]
            BY <2>2 DEF bodyAsks, Types, BodyTypes
        <3>2. UnreadInOrder(t)'
            BY <1>1, <1>3, <1>4, <3>1, OrderOfNewRequest DEF Orderly, UnreadInOrder
        <3>3. Asks(q) \in Requests \cup Updates
            BY DEF Asks, Requests
        <3>4. Members(messages'[t]) = Members(messages[t]) \cup {Asks(q)}
            BY <1>4, <3>1, <3>3, MembersOfAppend
        <3>5. HeardOrUnread(t)'
            BY <1>1, <1>3, <3>1, <3>4 DEF Orderly, HeardOrUnread
        <3> QED
            BY <3>2, <3>5
    <2>3. CASE \E result \in Final : bodyReturns(t, result)
        <3>1. UNCHANGED <<messages, produced>>
            BY <2>3 DEF bodyReturns
        <3> QED
            BY <1>1, <1>3, <3>1 DEF Orderly, UnreadInOrder, HeardOrUnread
    <2>4. ~bodyReportsAgain(t)
        BY DEF bodyReportsAgain, Repeat
    <2> QED
        BY <2>1, <2>2, <2>3, <2>4 DEF stepOfBody
<1> QED
    BY <1>2, <1>6, <1>7, <1>8 DEF Reporting, Orderly

(* The loop reads on only while it has settled nothing.                    *)
LEMMA ReadsBeforeVerdict ==
    ASSUME NEW t \in Tasks, Orderly(t), Reads(t)
    PROVE  status[t] \notin {"completed", "failed"}
BY DEF Orderly, VerdictIsSent, Reads, Nothing, Settled

LEMMA ReportingOfReadCommand ==
    ASSUME Types, Silence, Reporting, NEW t \in Tasks, readCommand(t)
    PROVE  Reporting'
<1> DEFINE c == Head(commands[t])
<1>1. c \in CommandSet
    BY HeadAndTail DEF readCommand, Types, CommandTypes
<1>2. Reads(t) /\ Orderly(t) /\ status[t] \notin {"completed", "failed"}
    BY ReadsBeforeVerdict DEF readCommand, Reporting
<1>3. UNCHANGED <<record, produced, messages, consumed, heard>>
    BY DEF readCommand, parentVars, stepVars
<1>4. \/ UNCHANGED <<run, status, body, sending>>
      \/ handleReady(t) /\ UNCHANGED <<run, status>>
      \/ handleReject(t) /\ UNCHANGED body
      \/ becomes(t, "cancelled") /\ UNCHANGED <<run, body, sending>>
    BY <1>1 DEF readCommand, viewVars, CommandSet
<1>5. \A u \in Tasks : u # t => UNCHANGED <<run[u], status[u], body[u], sending[u]>>
    BY <1>4 DEF handleReady, handleReject, becomes, Types, ViewTypes, RunTypes, BodyTypes
<1>6. \A u \in Tasks : u # t => Orderly(u)'
    BY <1>3, <1>5, OrderlyUntouched DEF Reporting
<1>7. CASE UNCHANGED <<run, status, body, sending>>
    BY <1>3, <1>6, <1>7, OrderlyUntouched DEF Reporting
<1>8. run[t] = "owned" /\ sending[t] = Nothing /\ UnreadInOrder(t)'
    BY <1>2, <1>3 DEF Reads, Orderly, UnreadInOrder
<1>9. CASE handleReady(t) /\ UNCHANGED <<run, status>>
    <2>1. sending'[t] = sending[t] \/ (sending'[t] = Settled("cancelled") /\ status[t] = "cancelled")
        BY <1>2, <1>9 DEF handleReady, Terminal, Final, Types, RunTypes
    <2>2. HeardOrUnread(t)' /\ VerdictIsSent(t)' /\ BeginsEmpty(t)'
        BY <1>2, <1>3, <1>9, <2>1 DEF Orderly, HeardOrUnread, VerdictIsSent, BeginsEmpty
    <2>3. VerdictIsLast(t)'
        BY <1>8, <2>1 DEF VerdictIsLast, Settled, Nothing
    <2> QED
        BY <1>6, <1>8, <2>2, <2>3 DEF Reporting, Orderly
<1>10. CASE handleReject(t) /\ UNCHANGED body
    <2>1. run'[t] = "over" /\ sending'[t] = Nothing
        BY <1>8, <1>10 DEF handleReject, Types, ViewTypes
    <2>2. HeardOrUnread(t)' /\ VerdictIsSent(t)' /\ VerdictIsLast(t)'
        BY <2>1 DEF HeardOrUnread, VerdictIsSent, VerdictIsLast, Settled, Nothing
    <2>3. BeginsEmpty(t)'
        BY <1>2, <1>3, <1>8, <2>1 DEF Orderly, BeginsEmpty
    <2> QED
        BY <1>6, <1>8, <2>2, <2>3 DEF Reporting, Orderly
<1>11. CASE becomes(t, "cancelled") /\ UNCHANGED <<run, body, sending>>
    <2>1. status'[t] = "cancelled"
        BY <1>2, <1>11 DEF becomes, Terminal, Final, Types, ViewTypes
    <2>2. HeardOrUnread(t)' /\ VerdictIsSent(t)' /\ VerdictIsLast(t)' /\ BeginsEmpty(t)'
        BY <1>2, <1>3, <1>11, <2>1
           DEF Orderly, HeardOrUnread, VerdictIsSent, VerdictIsLast, BeginsEmpty
    <2> QED
        BY <1>6, <1>8, <2>2 DEF Reporting, Orderly
<1> QED
    BY <1>4, <1>7, <1>9, <1>10, <1>11

LEMMA ReportingOfReadMessage ==
    ASSUME Types, Reporting, NEW t \in Tasks, readMessage(t)
    PROVE  Reporting'
<1> DEFINE m == Head(messages[t])
<1>1. messages[t] \in Seq(Requests \cup Updates) /\ messages[t] # <<>>
    BY DEF readMessage, Types, BodyTypes
<1>2. m \in Requests \cup Updates /\ messages'[t] = Tail(messages[t])
    BY <1>1, HeadAndTail DEF readMessage, Types, BodyTypes
<1>3. /\ Reads(t) /\ Orderly(t) /\ status[t] \notin {"completed", "failed"}
      /\ run[t] = "owned" /\ sending[t] = Nothing
    BY ReadsBeforeVerdict DEF readMessage, Reporting, Reads
<1>4. UNCHANGED <<record, run, status, body, produced, heard>>
    BY DEF readMessage, parentVars, stepVars
<1>5. \A u \in Tasks : u # t => UNCHANGED <<messages[u], sending[u], consumed[u]>>
    BY DEF readMessage, Types, BodyTypes, RunTypes
<1>6. \A u \in Tasks : u # t => Orderly(u)'
    BY <1>4, <1>5, OrderlyUntouched DEF Reporting
<1>7. consumed[t] \in Nat /\ produced[t] \in Nat
    BY DEF Types, RunTypes, BodyTypes
<1>8. /\ sending'[t] \in {Nothing, m}
      /\ IsUpdate(m) => consumed'[t] = consumed[t] + 1
      /\ ~IsUpdate(m) => consumed'[t] = consumed[t]
      /\ IsUpdate(m) /\ t \in Subagents /\ status[t] # "cancelled" => sending'[t] = m
    BY <1>3 DEF readMessage, IsUpdate, Terminal, Final, Types, RunTypes
<1>9. UnreadInOrder(t)'
    BY <1>1, <1>2, <1>3, <1>4, <1>7, <1>8, OrderOfRest DEF Orderly, UnreadInOrder
<1>10. VerdictIsSent(t)' /\ BeginsEmpty(t)'
    BY <1>3, <1>4 DEF Orderly, VerdictIsSent, BeginsEmpty
<1>11. VerdictIsLast(t)'
    <2>1. sending'[t].kind # "settled"
        BY <1>2, <1>8 DEF Nothing, Requests, Updates
    <2> QED
        BY <2>1 DEF VerdictIsLast, Settled
<1>12. HeardOrUnread(t)'
    <2> SUFFICES ASSUME t \in Subagents, status[t] # "cancelled", NEW i \in 1 .. produced[t]
                 PROVE  \/ i \in heard[t] \/ sending'[t] = Update(i)
                        \/ Update(i) \in Members(messages'[t])
        BY <1>4 DEF HeardOrUnread
    <2>1. i \in heard[t] \/ Update(i) \in Members(messages[t])
        BY <1>3 DEF Orderly, HeardOrUnread, Update, Nothing
    <2>2. Update(i) \in Members(messages[t]) => Update(i) = m \/ Update(i) \in Members(messages'[t])
        BY <1>1, <1>2, HeadLeavesTheRest
    <2>3. Update(i) = m => sending'[t] = Update(i)
        BY <1>8 DEF IsUpdate, Update
    <2> QED
        BY <2>1, <2>2, <2>3
<1> QED
    BY <1>6, <1>9, <1>10, <1>11, <1>12 DEF Reporting, Orderly

LEMMA ReportingOfSettle ==
    ASSUME Types, Reporting, NEW t \in Tasks, settle(t)
    PROVE  Reporting'
<1>1. /\ Reads(t) /\ Orderly(t) /\ status[t] \notin {"completed", "failed"}
      /\ run[t] = "owned" /\ sending[t] = Nothing
    BY ReadsBeforeVerdict DEF settle, Reporting, Reads
<1>2. UNCHANGED <<record, run, body, produced, messages, consumed, heard>>
    BY DEF settle, parentVars, stepVars, bodyVars
<1>3. /\ \A u \in Tasks : u # t => UNCHANGED <<status[u], sending[u]>>
      /\ sending'[t] = Settled(status'[t])
    BY DEF settle, becomes, Types, ViewTypes, RunTypes
<1>4. \A u \in Tasks : u # t => Orderly(u)'
    BY <1>2, <1>3, OrderlyUntouched DEF Reporting
<1>5. \/ status'[t] = "cancelled"
      \/ /\ status[t] # "cancelled" /\ body[t] \in Final /\ consumed[t] >= produced[t]
    BY <1>1 DEF settle, becomes, reportsRead, Terminal, Final, Types, ViewTypes
<1>6. UnreadInOrder(t)'
    BY <1>1, <1>2 DEF Orderly, UnreadInOrder
<1>7. VerdictIsSent(t)' /\ BeginsEmpty(t)'
    BY <1>1, <1>2, <1>3 DEF Orderly, VerdictIsSent, BeginsEmpty
<1>8. HeardOrUnread(t)'
    <2>1. status[t] = "cancelled" => status'[t] = "cancelled"
        BY DEF settle, becomes, Terminal, Final, Types, ViewTypes
    <2>2. \A i : sending[t] # Update(i)
        BY <1>1 DEF Update, Nothing
    <2> QED
        BY <1>1, <1>2, <2>1, <2>2 DEF Orderly, HeardOrUnread
<1>9. VerdictIsLast(t)'
    <2>1. CASE status'[t] = "cancelled"
        BY <1>3, <2>1 DEF VerdictIsLast, Settled
    <2>2. CASE status[t] # "cancelled" /\ body[t] \in Final /\ consumed[t] >= produced[t]
        <3>1. consumed[t] \in Nat /\ produced[t] \in Nat
            BY DEF Types, RunTypes, BodyTypes
        <3>2. ASSUME NEW i \in 1 .. produced[t], t \in Subagents PROVE i \in heard[t]
            <4>1. sending[t] # Update(i)
                BY <1>1 DEF Update, Nothing
            <4>2. Update(i) \notin Members(messages[t])
                <5> SUFFICES ASSUME NEW k \in 1 .. Len(messages[t]), messages[t][k] = Update(i)
                             PROVE  FALSE
                    BY DEF Members
                <5>1. IsUpdate(messages[t][k]) /\ messages[t][k].index = i
                    BY DEF IsUpdate, Update
                <5>2. consumed[t] < i
                    BY <1>1, <5>1 DEF Orderly, UnreadInOrder, Within
                <5> QED
                    BY <2>2, <3>1, <5>2
            <4> QED
                BY <1>1, <2>2, <3>2, <4>1, <4>2 DEF Orderly, HeardOrUnread
        <3> QED
            BY <1>2, <2>2, <3>2 DEF VerdictIsLast
    <2> QED
        BY <1>5, <2>1, <2>2
<1> QED
    BY <1>4, <1>6, <1>7, <1>8, <1>9 DEF Reporting, Orderly

LEMMA ReportingOfNotify ==
    ASSUME Types, Silence, Reporting, NEW t \in Tasks, notify(t)
    PROVE  Reporting'
<1> DEFINE n == sending[t]
<1>1. UNCHANGED <<record, status, body, produced, messages, consumed>>
    BY DEF notify, stepVars, bodyVars, viewVars
<1>2. \A u \in Tasks : u # t => UNCHANGED <<run[u], sending[u], heard[u]>>
    BY DEF notify, Types, ViewTypes, RunTypes
<1>3. \A u \in Tasks : u # t => Orderly(u)'
    BY <1>1, <1>2, OrderlyUntouched DEF Reporting
<1>4. Orderly(t) /\ record[t] = "indexed"
    BY DEF Reporting, notify, Silence, OthersAreQuiet, Quiet, Indexed
<1>5. /\ sending'[t] \in {n, Nothing} /\ run'[t] \in {run[t], "over"}
      /\ heard[t] \subseteq heard'[t]
      /\ n.kind = "update" => n.index \in heard'[t]
      /\ n.kind = "settled" /\ sending'[t] = Nothing => sending'[t] = n \/ run'[t] = "over"
    BY DEF notify, Types, ViewTypes, RunTypes
<1>6. UnreadInOrder(t)' /\ BeginsEmpty(t)'
    BY <1>1, <1>4, <1>5 DEF Orderly, UnreadInOrder, BeginsEmpty
<1>7. HeardOrUnread(t)'
    <2> SUFFICES ASSUME t \in Subagents, run[t] = "owned", status[t] # "cancelled",
                        NEW i \in 1 .. produced[t]
                 PROVE  \/ i \in heard'[t] \/ sending'[t] = Update(i)
                        \/ Update(i) \in Members(messages[t])
        BY <1>1, <1>5 DEF HeardOrUnread
    <2>1. \/ i \in heard[t] \/ n = Update(i) \/ Update(i) \in Members(messages[t])
        BY <1>4 DEF Orderly, HeardOrUnread
    <2>2. n = Update(i) => i \in heard'[t]
        BY <1>5 DEF Update
    <2> QED
        BY <1>5, <2>1, <2>2
<1>8. VerdictIsSent(t)'
    <2>1. n = Settled(status[t]) => n.kind = "settled"
        BY DEF Settled
    <2> QED
        BY <1>1, <1>4, <1>5, <2>1 DEF Orderly, VerdictIsSent
<1>9. VerdictIsLast(t)'
    BY <1>1, <1>4, <1>5 DEF Orderly, VerdictIsLast, Nothing, Settled
<1> QED
    BY <1>3, <1>6, <1>7, <1>8, <1>9 DEF Reporting, Orderly

LEMMA ReportingStep == "report" \notin Repeats /\ Inv /\ Reporting /\ [Next]_vars => Reporting'
<1> SUFFICES ASSUME "report" \notin Repeats, Types, Silence, Reporting, [Next]_vars
             PROVE  Reporting'
    BY DEF Inv
<1>1. CASE ControlMoves
    BY <1>1, ReportingOfControl
<1>2. CASE UNCHANGED vars \/ (ParentMoves /\ \A t \in Tasks : ~startTask(t))
    BY <1>2, ReportingOfParent
<1>3. CASE \E t \in Tasks : startTask(t)
    BY <1>3, ReportingOfStart
<1>4. ASSUME NEW t \in Tasks, claimHook(t) \/ stepOfBody(t) \/ stepOfRun(t) PROVE Reporting'
    BY <1>4, ReportingOfStart, ReportingOfBody, ReportingOfReadCommand, ReportingOfReadMessage,
       ReportingOfSettle, ReportingOfNotify DEF stepOfRun
<1> QED
    BY <1>1, <1>2, <1>3, <1>4, KindsOfMoves DEF RunMoves

(* A subagent's reports reach the parent before its outcome does, however  *)
(* many it makes and whatever is asked and cancelled meanwhile, if none of *)
(* them is sent twice.                                                     *)
THEOREM ReportsPrecedeOutcomes ==
    ASSUME "report" \notin Repeats PROVE Spec => []ReportsBeforeOutcome
<1>1. Init => Reporting
    BY ReportingInit
<1>2. Inv /\ Reporting /\ [Next]_vars => Reporting'
    BY ReportingStep
<1>3. Reporting => ReportsBeforeOutcome
    BY SubsetsAssumption DEF Reporting, Orderly, VerdictIsLast, ReportsBeforeOutcome
<1> QED
    BY <1>1, <1>2, <1>3, Invariance, PTL DEF Spec
=============================================================================
