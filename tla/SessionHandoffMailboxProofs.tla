--------------------- MODULE SessionHandoffMailboxProofs ---------------------
(***************************************************************************)
(* That a session is a mailbox, whichever run owns it: proofs about        *)
(* SessionHandoff and SessionMailbox for any number of successors,         *)
(* replacements, addresses and commands.                                   *)
(***************************************************************************)
EXTENDS SessionHandoffProofs, FilteringProofs

(* Commands among the payloads of u.                                       *)
Pending(u) == Only(u, Commands)

(* The run that has what the session accepted and did not take: the one    *)
(* that is responsible, or else the candidate it waits for.                *)
Holder(r) ==
    \/ pc[r] \in Owning \cup Booting \cup {"releasing", "starting", "recovering"}
    \/ pc[r] = "awaiting" /\ activation[r].kind = "failed"

(* Where it has them: those a turn will find are behind the selected one.  *)
Taken(r) == IF pc[r] \in {"parked", "turn"} THEN turns ELSE Append(turns, selected[r])
Unread(r) ==
    IF pc[r] = "recovering" THEN restored[r] \o inbox[r]
    ELSE IF pc[r] = "awaiting" THEN activation[r].payloads ELSE inbox[r]

(* Runs with a selection, and candidates that have that of their           *)
(* predecessor.                                                            *)
Selecting == {"selected", "turn", "contending"} \cup Moving \cup Booting
SelectionsExist == \A r \in Runs : pc[r] \in Selecting => selected[r] \in Commands
SameSelection ==
    \A s \in SessionRuns : pc[s] \in Booting => selected[predecessor[s]] = selected[s]

(* A command is with one channel at a time.                                *)
ContendedOnce ==
    /\ \A x \in Runs : pc[x] = "contending" => sent[selected[x]] = "contending"
    /\ \A x, y \in Runs :
          pc[x] = "contending" /\ pc[y] = "contending" /\ selected[x] = selected[y] => x = y

(* Only accepted payloads are found where accepted payloads are kept.      *)
Arrived(u) == \A p \in Members(u) \cap Timers : sent[p] = "accepted"
TimersArrived ==
    /\ \A r \in Runs : Arrived(inbox[r])
    /\ \A r \in SessionRuns :
          /\ Arrived(restored[r])
          /\ activation[r].kind = "failed" => Arrived(activation[r].payloads)
AcceptedArrived == \A c \in Members(accepted) : sent[c] = "accepted"

(* Who may hold a hook, and who has nothing to read.                       *)
Hooked ==
    \A r \in SessionRuns, t \in Tokens :
        hook[t] = r => pc[r] \in Owning \cup {"releasing", "recovering", "claiming",
                                               "withdrawing"}
Quiet == {"unused", "starting", "awaiting", "booting"}
QuietRunsHaveNone == \A r \in SessionRuns : pc[r] \in Quiet => inbox[r] = <<>>
NoneAfterTheEnd == over => \A r \in SessionRuns : ~Live(r)

(* What was accepted is what was taken and what its holder has yet to take. *)
Accounted ==
    \A r \in SessionRuns : Holder(r) => accepted = Taken(r) \o Pending(Unread(r))

USE DEF Phases, Owning, Moving, Booting, Gone

(***************************************************************************)
(* Which steps change what.                                                *)
(***************************************************************************)
LEMMA TurnsChange ==
    ASSUME [Next]_vars
    PROVE  \/ UNCHANGED turns
           \/ \E r \in SessionRuns : endSession(r) \/ retain(r) \/ recovered(r)
           \/ \E s \in Successors : activate(s)
BY ZenonT(90) DEF Next, vars, ownerStep, hookStep, candidateStep, ingressStep, activated,
   activationFailed, awaitAnchoredResult, beginTransfer, bootFails, claimHook,
   claimMarkers, claimVars, contend, disposeMarkers, endTurn, finish, historyVars,
   hookNotFound, hookVars, ignoreTimeout, isHandoffInProgress, leave, markerConflict,
   nextTurnDelivery, recover, recoveryFails, releaseHook, released, reportFailure,
   reportResultToAnchor, resumed, retryWindowPasses, runTurn, runVars, send, startFails,
   startReplacement, startSessionOwner, validated

LEMMA AcceptedChange ==
    ASSUME [Next]_vars
    PROVE  \/ UNCHANGED <<accepted, sent>>
           \/ \E p \in Payloads : send(p) \/ resumed(p) \/ hookNotFound(p) \/
                 isHandoffInProgress(p) \/ retryWindowPasses(p)
           \/ \E c \in Commands, x \in Replacements : startReplacement(c, x)
           \/ \E x \in Replacements : contend(x)
BY ZenonT(90) DEF Next, vars, ownerStep, hookStep, candidateStep, ingressStep, activate, activated,
   activationFailed, awaitAnchoredResult, beginTransfer, bootFails, claimHook,
   claimMarkers, claimVars, disposeMarkers, endSession, endTurn, finish, historyVars,
   hookVars, ignoreTimeout, leave, markerConflict, nextTurnDelivery, recover, recovered,
   recoveryFails, releaseHook, released, reportFailure, reportResultToAnchor, retain,
   runTurn, runVars, startFails, startSessionOwner, validated

LEMMA InboxChange ==
    ASSUME [Next]_vars
    PROVE  \/ UNCHANGED inbox
           \/ \E r \in SessionRuns : nextTurnDelivery(r) \/ ignoreTimeout(r) \/
                 endSession(r) \/ markerConflict(r) \/ recoveryFails(r) \/ released(r)
                 \/ recovered(r)
           \/ \E s \in Successors : reportFailure(s)
           \/ \E p \in Payloads : resumed(p)
BY ZenonT(90) DEF Next, vars, ownerStep, hookStep, candidateStep, ingressStep, activate, activated,
   activationFailed, awaitAnchoredResult, beginTransfer, bootFails, claimHook,
   claimMarkers, claimVars, contend, disposeMarkers, endTurn, finish, historyVars,
   hookNotFound, hookVars, isHandoffInProgress, leave, recover, releaseHook,
   reportResultToAnchor, retain, retryWindowPasses, runTurn, runVars, send, startFails,
   startReplacement, startSessionOwner, validated

LEMMA SelectedChange ==
    ASSUME [Next]_vars
    PROVE  \/ UNCHANGED selected
           \/ \E r \in SessionRuns : nextTurnDelivery(r) \/ endTurn(r)
           \/ \E r \in SessionRuns, s \in Successors : startSessionOwner(r, s)
           \/ \E c \in Commands, x \in Replacements : startReplacement(c, x)
BY ZenonT(90) DEF Next, vars, ownerStep, hookStep, candidateStep, ingressStep, activate, activated,
   activationFailed, awaitAnchoredResult, beginTransfer, bootFails, claimHook,
   claimMarkers, claimVars, contend, disposeMarkers, endSession, finish, historyVars,
   hookNotFound, hookVars, ignoreTimeout, isHandoffInProgress, leave, markerConflict,
   recover, recovered, recoveryFails, releaseHook, released, reportFailure,
   reportResultToAnchor, resumed, retain, retryWindowPasses, runTurn, runVars, send,
   startFails, validated

LEMMA RestoredChange ==
    ASSUME [Next]_vars
    PROVE  \/ UNCHANGED restored
           \/ \E r \in SessionRuns : released(r) \/ startFails(r) \/
                 activationFailed(r) \/ recovered(r)
BY ZenonT(90) DEF Next, vars, ownerStep, hookStep, candidateStep, ingressStep, activate, activated,
   awaitAnchoredResult, beginTransfer, bootFails, claimHook, claimMarkers, claimVars,
   contend, disposeMarkers, endSession, endTurn, finish, historyVars, hookNotFound,
   hookVars, ignoreTimeout, isHandoffInProgress, leave, markerConflict, nextTurnDelivery,
   recover, recoveryFails, releaseHook, reportFailure, reportResultToAnchor, resumed,
   retain, retryWindowPasses, runTurn, runVars, send, startReplacement, startSessionOwner,
   validated

LEMMA ActivationChange ==
    ASSUME [Next]_vars
    PROVE  \/ UNCHANGED activation
           \/ \E r \in SessionRuns : activated(r) \/ activationFailed(r)
           \/ \E s \in Successors : activate(s) \/ reportFailure(s)
BY ZenonT(90) DEF Next, vars, ownerStep, hookStep, candidateStep, ingressStep, awaitAnchoredResult,
   beginTransfer, bootFails, claimHook, claimMarkers, claimVars, contend, disposeMarkers,
   endSession, endTurn, finish, historyVars, hookNotFound, hookVars, ignoreTimeout,
   isHandoffInProgress, leave, markerConflict, nextTurnDelivery, recover, recovered,
   recoveryFails, releaseHook, released, reportResultToAnchor, resumed, retain,
   retryWindowPasses, runTurn, runVars, send, startFails, startReplacement,
   startSessionOwner, validated

LEMMA AnchorChange ==
    ASSUME [Next]_vars
    PROVE  \/ UNCHANGED anchor
           \/ \E r \in SessionRuns : endSession(r) \/ markerConflict(r) \/
                 recoveryFails(r) \/ beginTransfer(r) \/ leave(r)
           \/ awaitAnchoredResult
BY ZenonT(90) DEF Next, vars, ownerStep, hookStep, candidateStep, ingressStep, activate, activated,
   activationFailed, bootFails, claimHook, claimMarkers, claimVars, contend,
   disposeMarkers, endTurn, finish, historyVars, hookNotFound, hookVars, ignoreTimeout,
   isHandoffInProgress, nextTurnDelivery, recover, recovered, releaseHook, released,
   reportFailure, reportResultToAnchor, resumed, retain, retryWindowPasses, runTurn,
   runVars, send, startFails, startReplacement, startSessionOwner, validated

LEMMA EligibleChange ==
    ASSUME [Next]_vars
    PROVE  \/ UNCHANGED <<eligible, conflicts>>
           \/ \E r \in SessionRuns : nextTurnDelivery(r)
           \/ \E r \in SessionRuns, t \in Tokens : claimHook(r, t)
BY ZenonT(90) DEF Next, vars, ownerStep, hookStep, candidateStep, ingressStep, activate, activated,
   activationFailed, awaitAnchoredResult, beginTransfer, bootFails, claimMarkers,
   claimVars, contend, disposeMarkers, endSession, endTurn, finish, historyVars,
   hookNotFound, hookVars, ignoreTimeout, isHandoffInProgress, leave, markerConflict,
   recover, recovered, recoveryFails, releaseHook, released, reportFailure,
   reportResultToAnchor, resumed, retain, retryWindowPasses, runTurn, runVars, send,
   startFails, startReplacement, startSessionOwner, validated

LEMMA DeploymentChange ==
    ASSUME [Next]_vars
    PROVE  \/ UNCHANGED deploymentId
           \/ \E r \in SessionRuns, s \in Successors : startSessionOwner(r, s)
BY ZenonT(90) DEF Next, vars, ownerStep, hookStep, candidateStep, ingressStep, activate, activated,
   activationFailed, awaitAnchoredResult, beginTransfer, bootFails, claimHook,
   claimMarkers, claimVars, contend, disposeMarkers, endSession, endTurn, finish,
   historyVars, hookNotFound, hookVars, ignoreTimeout, isHandoffInProgress, leave,
   markerConflict, nextTurnDelivery, recover, recovered, recoveryFails, releaseHook,
   released, reportFailure, reportResultToAnchor, resumed, retain, retryWindowPasses,
   runTurn, runVars, send, startFails, startReplacement, validated

(***************************************************************************)
(* Types.  Those of SessionHandoffProofs come from HInv.                   *)
(***************************************************************************)
LEMMA SelectedTyped ==
    ASSUME TypeOK, [Next]_vars
    PROVE  selected' \in [Runs -> Commands \cup {NoCommand}]
<1> USE RunFacts DEF TypeOK
<1>1. ASSUME NEW r \in SessionRuns, nextTurnDelivery(r) \/ endTurn(r)
      PROVE  selected' \in [Runs -> Commands \cup {NoCommand}]
    <2>1. \E v \in Commands \cup {NoCommand} : selected' = [selected EXCEPT ![r] = v]
        BY <1>1 DEF nextTurnDelivery, isDelivery, endTurn
    <2> QED
        BY <2>1
<1>2. ASSUME NEW r \in SessionRuns, NEW s \in Successors, startSessionOwner(r, s)
      PROVE  selected' \in [Runs -> Commands \cup {NoCommand}]
    BY <1>2 DEF startSessionOwner
<1>3. ASSUME NEW c \in Commands, NEW x \in Replacements, startReplacement(c, x)
      PROVE  selected' \in [Runs -> Commands \cup {NoCommand}]
    BY <1>3 DEF startReplacement
<1> QED
    BY <1>1, <1>2, <1>3, SelectedChange

LEMMA InboxesTyped ==
    ASSUME TypeOK, [Next]_vars
    PROVE  inbox' \in [Runs -> Seq(Payloads)]
<1> USE RunFacts
<1>0. inbox \in [Runs -> Seq(Payloads)] /\ restored \in [SessionRuns -> Seq(Payloads)]
    BY DEF TypeOK
<1>1. ASSUME NEW r \in SessionRuns, nextTurnDelivery(r) \/ ignoreTimeout(r)
      PROVE  inbox' \in [Runs -> Seq(Payloads)]
    <2>1. inbox[r] # <<>> /\ inbox' = [inbox EXCEPT ![r] = Tail(inbox[r])]
        BY <1>1 DEF nextTurnDelivery, ignoreTimeout
    <2>2. inbox[r] \in Seq(Payloads)
        BY <1>0
    <2>3. Tail(inbox[r]) \in Seq(Payloads)
        BY <2>1, <2>2
    <2> QED
        BY <1>0, <2>1, <2>3
<1>2. ASSUME NEW r \in SessionRuns,
             endSession(r) \/ markerConflict(r) \/ recoveryFails(r) \/ released(r)
                 \/ reportFailure(r)
      PROVE  inbox' \in [Runs -> Seq(Payloads)]
    <2>1. inbox' = [inbox EXCEPT ![r] = <<>>]
        BY <1>2 DEF endSession, markerConflict, recoveryFails, finish, released, reportFailure
    <2> QED
        BY <1>0, <2>1
<1>3. ASSUME NEW r \in SessionRuns, recovered(r)
      PROVE  inbox' \in [Runs -> Seq(Payloads)]
    <2>1. inbox' = [inbox EXCEPT ![r] = restored[r] \o inbox[r]]
        BY <1>3 DEF recovered, replay
    <2>2. restored[r] \o inbox[r] \in Seq(Payloads)
        BY <1>0
    <2> QED
        BY <1>0, <2>1, <2>2
<1>4. ASSUME NEW p \in Payloads, resumed(p)
      PROVE  inbox' \in [Runs -> Seq(Payloads)]
    <2>1. inbox' = [inbox EXCEPT ![hook[addressOf(p)]] = Append(inbox[hook[addressOf(p)]], p)]
        BY <1>4 DEF resumed
    <2>2. ASSUME NEW r \in Runs PROVE Append(inbox[r], p) \in Seq(Payloads)
        BY <1>0
    <2> QED
        BY <1>0, <2>1, <2>2
<1> QED
    BY <1>0, <1>1, <1>2, <1>3, <1>4, InboxChange

LEMMA RestoredTyped ==
    ASSUME TypeOK, [Next]_vars
    PROVE  restored' \in [SessionRuns -> Seq(Payloads)]
<1> USE RunFacts
<1>0. /\ inbox \in [Runs -> Seq(Payloads)] /\ restored \in [SessionRuns -> Seq(Payloads)]
      /\ activation \in [SessionRuns -> Payload]
    BY DEF TypeOK
<1>1. ASSUME NEW r \in SessionRuns, released(r) \/ startFails(r) \/ recovered(r)
      PROVE  restored' \in [SessionRuns -> Seq(Payloads)]
    <2>1. \/ UNCHANGED restored
          \/ restored' = [restored EXCEPT ![r] = <<>>]
          \/ restored' = [restored EXCEPT ![r] = inbox[r]]
        BY <1>1 DEF released, startFails, recovered, recover
    <2>2. inbox[r] \in Seq(Payloads) /\ <<>> \in Seq(Payloads)
        BY <1>0
    <2> QED
        BY <1>0, <2>1, <2>2
<1>2. ASSUME NEW r \in SessionRuns, activationFailed(r)
      PROVE  restored' \in [SessionRuns -> Seq(Payloads)]
    <2>1. restored' = [restored EXCEPT ![r] = activation[r].payloads]
        BY <1>2 DEF activationFailed, recover
    <2>2. activation[r] \in Payload /\ activation[r].kind = "failed"
        BY <1>0, <1>2 DEF activationFailed
    <2>3. activation[r].payloads \in Seq(Payloads)
        BY <2>2 DEF Payload
    <2> QED
        BY <1>0, <2>1, <2>3
<1> QED
    BY <1>0, <1>1, <1>2, RestoredChange

LEMMA ActivationTyped ==
    ASSUME TypeOK, [Next]_vars
    PROVE  activation' \in [SessionRuns -> Payload]
<1> USE RunFacts
<1>0. inbox \in [Runs -> Seq(Payloads)] /\ activation \in [SessionRuns -> Payload]
    BY DEF TypeOK
<1>1. /\ [kind |-> "none"] \in Payload /\ [kind |-> "active"] \in Payload
      /\ \A u \in Seq(Payloads) : [kind |-> "failed", payloads |-> u] \in Payload
    BY DEF Payload
<1>2. ASSUME NEW r \in SessionRuns, activated(r) \/ activationFailed(r)
      PROVE  activation' \in [SessionRuns -> Payload]
    BY <1>0, <1>1, <1>2 DEF activated, activationFailed
<1>3. ASSUME NEW s \in Successors, activate(s) PROVE activation' \in [SessionRuns -> Payload]
    BY <1>0, <1>1, <1>3 DEF activate
<1>4. ASSUME NEW s \in Successors, reportFailure(s)
      PROVE  activation' \in [SessionRuns -> Payload]
    <2>1. inbox[s] \in Seq(Payloads)
        BY <1>0
    <2> QED
        BY <1>0, <1>1, <1>4, <2>1 DEF reportFailure
<1> QED
    BY <1>0, <1>2, <1>3, <1>4, ActivationChange

LEMMA SentTyped ==
    ASSUME TypeOK, [Next]_vars
    PROVE  sent' \in [Payloads -> {"new", "resuming", "checking", "accepted", "gone",
                                   "contending", "replaced"}]
<1> USE RunFacts DEF TypeOK
<1> DEFINE T == [Payloads -> {"new", "resuming", "checking", "accepted", "gone",
                              "contending", "replaced"}]
<1>1. ASSUME NEW p \in Payloads,
             send(p) \/ resumed(p) \/ hookNotFound(p) \/ isHandoffInProgress(p)
                 \/ retryWindowPasses(p)
      PROVE  sent' \in T
    BY <1>1 DEF send, resumed, hookNotFound, isHandoffInProgress, retryWindowPasses
<1>2. ASSUME NEW c \in Commands, NEW x \in Replacements, startReplacement(c, x)
      PROVE  sent' \in T
    BY <1>2 DEF startReplacement
<1>3. ASSUME NEW x \in Replacements, contend(x) PROVE sent' \in T
    BY <1>3 DEF contend
<1> QED
    BY <1>1, <1>2, <1>3, AcceptedChange

LEMMA HistoryTyped ==
    ASSUME TypeOK, SelectionsExist, [Next]_vars
    PROVE  accepted' \in Seq(Commands) /\ turns' \in Seq(Commands)
<1> USE RunFacts
<1>0. accepted \in Seq(Commands) /\ turns \in Seq(Commands)
    BY DEF TypeOK
<1>1. accepted' \in Seq(Commands)
    <2>1. UNCHANGED accepted \/ \E p \in Commands : accepted' = Append(accepted, p)
        BY AcceptedChange DEF send, resumed, hookNotFound, isHandoffInProgress,
           retryWindowPasses, startReplacement, contend, historyVars
    <2> QED
        BY <1>0, <2>1
<1>2. turns' \in Seq(Commands)
    <2>1. ASSUME NEW r \in SessionRuns, endSession(r)
          PROVE  UNCHANGED turns \/ \E c \in Commands : turns' = Append(turns, c)
        BY <2>1, CommandsAssumption DEF endSession
    <2>2. ASSUME NEW r \in SessionRuns, retain(r) \/ recovered(r) \/ activate(r)
          PROVE  \E c \in Commands : turns' = Append(turns, c)
        <3>1. pc[r] \in Selecting /\ turns' = Append(turns, selected[r])
            BY <2>2 DEF retain, recovered, activate, runTurn, Selecting
        <3> QED
            BY <3>1 DEF SelectionsExist
    <2>3. UNCHANGED turns \/ \E c \in Commands : turns' = Append(turns, c)
        BY <2>1, <2>2, TurnsChange
    <2> QED
        BY <1>0, <2>3
<1> QED
    BY <1>1, <1>2

LEMMA SelectionsStep ==
    ASSUME TypeOK, SelectionsExist, [Next]_vars
    PROVE  SelectionsExist'
<1> USE RunFacts DEF SelectionsExist, Selecting
<1>0. pc \in [Runs -> Phases] /\ selected \in [Runs -> Commands \cup {NoCommand}]
    BY DEF TypeOK
<1>1. ASSUME NEW r \in SessionRuns, nextTurnDelivery(r) PROVE SelectionsExist'
    BY <1>1, <1>0 DEF nextTurnDelivery, isDelivery, hookVars, claimVars, historyVars
<1>2. ASSUME NEW r \in SessionRuns, ignoreTimeout(r) PROVE SelectionsExist'
    BY <1>2, <1>0 DEF ignoreTimeout, hookVars, runVars, claimVars, historyVars
<1>3. ASSUME NEW r \in SessionRuns, endSession(r) PROVE SelectionsExist'
    BY <1>3, <1>0 DEF endSession, finish, claimVars
<1>4. ASSUME NEW r \in SessionRuns, endTurn(r) PROVE SelectionsExist'
    BY <1>4, <1>0 DEF endTurn, hookVars, claimVars, historyVars
<1>5. ASSUME NEW r \in SessionRuns, retain(r) PROVE SelectionsExist'
    BY <1>5, <1>0 DEF retain, runTurn, hookVars, claimVars
<1>6. ASSUME NEW r \in SessionRuns, beginTransfer(r) PROVE SelectionsExist'
    BY <1>6, <1>0 DEF beginTransfer, claimVars, historyVars
<1>7. ASSUME NEW r \in SessionRuns, markerConflict(r) PROVE SelectionsExist'
    BY <1>7, <1>0 DEF markerConflict, finish, claimVars, historyVars
<1>8. ASSUME NEW r \in SessionRuns, released(r) PROVE SelectionsExist'
    BY <1>8, <1>0 DEF released, recover, hookVars, historyVars
<1>9. ASSUME NEW r \in SessionRuns, startFails(r) PROVE SelectionsExist'
    BY <1>9, <1>0 DEF startFails, mayFailToStart, recover, hookVars, historyVars
<1>10. ASSUME NEW r \in SessionRuns, NEW s \in Successors, startSessionOwner(r, s)
        PROVE SelectionsExist'
    BY <1>10, <1>0 DEF startSessionOwner, hookVars, historyVars
<1>11. ASSUME NEW r \in SessionRuns, activated(r) PROVE SelectionsExist'
    BY <1>11, <1>0 DEF activated, hookVars, historyVars
<1>12. ASSUME NEW r \in SessionRuns, activationFailed(r) PROVE SelectionsExist'
    BY <1>12, <1>0 DEF activationFailed, recover, hookVars, historyVars
<1>13. ASSUME NEW r \in SessionRuns, recovered(r) PROVE SelectionsExist'
    BY <1>13, <1>0 DEF recovered, runTurn
<1>14. ASSUME NEW r \in SessionRuns, recoveryFails(r) PROVE SelectionsExist'
    BY <1>14, <1>0 DEF recoveryFails, finish, claimVars, historyVars
<1>15. ASSUME NEW r \in SessionRuns, leave(r) PROVE SelectionsExist'
    BY <1>15, <1>0 DEF leave, claimVars, historyVars
<1>16. ASSUME NEW r \in SessionRuns, NEW t \in Tokens, releaseHook(r, t) PROVE SelectionsExist'
    BY <1>16, <1>0 DEF releaseHook, runVars, claimVars, historyVars
<1>17. ASSUME NEW r \in SessionRuns, NEW t \in Tokens, claimHook(r, t) PROVE SelectionsExist'
    BY <1>17, <1>0 DEF claimHook, runVars, historyVars
<1>18. ASSUME NEW s \in Successors, validated(s) PROVE SelectionsExist'
    BY <1>18, <1>0 DEF validated, hookVars, historyVars
<1>19. ASSUME NEW s \in Successors, bootFails(s) PROVE SelectionsExist'
    BY <1>19, <1>0 DEF bootFails, hookVars, claimVars, historyVars
<1>20. ASSUME NEW s \in Successors, activate(s) PROVE SelectionsExist'
    BY <1>20, <1>0 DEF activate, runTurn, hookVars
<1>21. ASSUME NEW s \in Successors, reportFailure(s) PROVE SelectionsExist'
    BY <1>21, <1>0 DEF reportFailure, hookVars, historyVars
<1>22. CASE awaitAnchoredResult
    BY <1>22, <1>0 DEF awaitAnchoredResult, claimVars, historyVars
<1>23. ASSUME NEW p \in Payloads, send(p) PROVE SelectionsExist'
    BY <1>23, <1>0 DEF send, hookVars, runVars, claimVars, historyVars
<1>24. ASSUME NEW p \in Payloads, resumed(p) PROVE SelectionsExist'
    BY <1>24, <1>0 DEF resumed, hookVars, runVars, claimVars
<1>25. ASSUME NEW p \in Payloads, hookNotFound(p) PROVE SelectionsExist'
    BY <1>25, <1>0 DEF hookNotFound, hookVars, runVars, claimVars, historyVars
<1>26. ASSUME NEW p \in Payloads, isHandoffInProgress(p) PROVE SelectionsExist'
    BY <1>26, <1>0 DEF isHandoffInProgress, hookVars, runVars, claimVars, historyVars
<1>27. ASSUME NEW p \in Payloads, retryWindowPasses(p) PROVE SelectionsExist'
    BY <1>27, <1>0 DEF retryWindowPasses, hookVars, runVars, claimVars, historyVars
<1>28. ASSUME NEW c \in Commands, NEW x \in Replacements, startReplacement(c, x)
        PROVE SelectionsExist'
    BY <1>28, <1>0 DEF startReplacement, hookVars, claimVars, historyVars
<1>29. ASSUME NEW x \in Replacements, contend(x) PROVE SelectionsExist'
    BY <1>29, <1>0 DEF contend, claimVars, historyVars
<1>30. CASE UNCHANGED vars
    BY <1>30 DEF vars, runVars
<1> QED
    BY <1>1, <1>2, <1>3, <1>4, <1>5, <1>6, <1>7, <1>8, <1>9, <1>10, <1>11, <1>12, <1>13,
       <1>14, <1>15, <1>16, <1>17, <1>18, <1>19, <1>20, <1>21, <1>22, <1>23, <1>24, <1>25,
       <1>26, <1>27, <1>28, <1>29, <1>30 DEF Next, vars, ownerStep, hookStep,
       candidateStep, ingressStep

LEMMA TypeStep ==
    ASSUME HInv', TypeOK, SelectionsExist, [Next]_vars
    PROVE  TypeOK'
<1> USE RunFacts
<1>1. anchor' \in {"unclaimed", "held", "disposed"} \cup AnchorResults
    <2>0. anchor \in {"unclaimed", "held", "disposed"} \cup AnchorResults
        BY DEF TypeOK
    <2>1. ASSUME NEW r \in SessionRuns, endSession(r) \/ markerConflict(r) \/ recoveryFails(r)
          PROVE  anchor' \in {anchor, "disposed", "final", "error"}
        BY <2>1 DEF endSession, markerConflict, recoveryFails, finish, reportResultToAnchor
    <2>2. ASSUME NEW r \in SessionRuns, beginTransfer(r) \/ leave(r)
          PROVE  anchor' \in {anchor, "held", "disposed", "error"}
        BY <2>2 DEF beginTransfer, leave, reportResultToAnchor
    <2> QED
        BY <2>0, <2>1, <2>2, AnchorChange DEF awaitAnchoredResult, AnchorResults
<1>2. deploymentId' \in [SessionRuns -> Deployments]
    <2>0. deploymentId \in [SessionRuns -> Deployments]
        BY DEF TypeOK
    <2>2. ASSUME NEW r \in SessionRuns, NEW s \in Successors, startSessionOwner(r, s)
          PROVE  deploymentId' \in [SessionRuns -> Deployments]
        <3>1. selected[r] \in Commands
            BY <2>2 DEF startSessionOwner, SelectionsExist, Selecting
        <3> QED
            BY <2>0, <2>2, <3>1, CommandsAssumption DEF startSessionOwner
    <2> QED
        BY <2>0, <2>2, DeploymentChange
<1>3. eligible' \in SUBSET SessionRuns /\ conflicts' \in SUBSET SessionRuns
    <2>0. eligible \subseteq SessionRuns /\ conflicts \subseteq SessionRuns
        BY DEF TypeOK
    <2>1. ASSUME NEW r \in SessionRuns, nextTurnDelivery(r)
          PROVE  eligible' \subseteq eligible \cup {r} /\ conflicts' = conflicts
        BY <2>1 DEF nextTurnDelivery, claimVars
    <2>2. ASSUME NEW r \in SessionRuns, NEW t \in Tokens, claimHook(r, t)
          PROVE  eligible' = eligible /\ conflicts' \subseteq conflicts \cup {r}
        BY <2>2 DEF claimHook, runVars
    <2>3. eligible' \subseteq SessionRuns /\ conflicts' \subseteq SessionRuns
        BY <2>0, <2>1, <2>2, EligibleChange
    <2> QED
        BY <2>3
<1> QED
    BY <1>1, <1>2, <1>3, SelectedTyped, InboxesTyped, RestoredTyped, ActivationTyped, SentTyped,
       HistoryTyped DEF TypeOK, HInv, CoreTypeOK

LEMMA ContendedStep ==
    ASSUME TypeOK, SelectionsExist, ContendedOnce, [Next]_vars
    PROVE  ContendedOnce'
<1> USE RunFacts, CommandsAssumption DEF ContendedOnce, SelectionsExist, Selecting
<1>0. /\ pc \in [Runs -> Phases] /\ selected \in [Runs -> Commands \cup {NoCommand}]
      /\ sent \in [Payloads -> {"new", "resuming", "checking", "accepted", "gone",
                               "contending", "replaced"}]
    BY DEF TypeOK
<1>1. ASSUME NEW r \in SessionRuns, nextTurnDelivery(r) PROVE ContendedOnce'
    BY <1>1, <1>0 DEF nextTurnDelivery, isDelivery, hookVars, claimVars, historyVars
<1>2. ASSUME NEW r \in SessionRuns, ignoreTimeout(r) PROVE ContendedOnce'
    BY <1>2, <1>0 DEF ignoreTimeout, hookVars, runVars, claimVars, historyVars
<1>3. ASSUME NEW r \in SessionRuns, endSession(r) PROVE ContendedOnce'
    BY <1>3, <1>0 DEF endSession, finish, claimVars
<1>4. ASSUME NEW r \in SessionRuns, endTurn(r) PROVE ContendedOnce'
    BY <1>4, <1>0 DEF endTurn, hookVars, claimVars, historyVars
<1>5. ASSUME NEW r \in SessionRuns, retain(r) PROVE ContendedOnce'
    BY <1>5, <1>0 DEF retain, runTurn, hookVars, claimVars
<1>6. ASSUME NEW r \in SessionRuns, beginTransfer(r) PROVE ContendedOnce'
    BY <1>6, <1>0 DEF beginTransfer, claimVars, historyVars
<1>7. ASSUME NEW r \in SessionRuns, markerConflict(r) PROVE ContendedOnce'
    BY <1>7, <1>0 DEF markerConflict, finish, claimVars, historyVars
<1>8. ASSUME NEW r \in SessionRuns, released(r) PROVE ContendedOnce'
    BY <1>8, <1>0 DEF released, recover, hookVars, historyVars
<1>9. ASSUME NEW r \in SessionRuns, startFails(r) PROVE ContendedOnce'
    BY <1>9, <1>0 DEF startFails, mayFailToStart, recover, hookVars, historyVars
<1>10. ASSUME NEW r \in SessionRuns, NEW s \in Successors, startSessionOwner(r, s)
        PROVE ContendedOnce'
    BY <1>10, <1>0 DEF startSessionOwner, hookVars, historyVars
<1>11. ASSUME NEW r \in SessionRuns, activated(r) PROVE ContendedOnce'
    BY <1>11, <1>0 DEF activated, hookVars, historyVars
<1>12. ASSUME NEW r \in SessionRuns, activationFailed(r) PROVE ContendedOnce'
    BY <1>12, <1>0 DEF activationFailed, recover, hookVars, historyVars
<1>13. ASSUME NEW r \in SessionRuns, recovered(r) PROVE ContendedOnce'
    BY <1>13, <1>0 DEF recovered, runTurn
<1>14. ASSUME NEW r \in SessionRuns, recoveryFails(r) PROVE ContendedOnce'
    BY <1>14, <1>0 DEF recoveryFails, finish, claimVars, historyVars
<1>15. ASSUME NEW r \in SessionRuns, leave(r) PROVE ContendedOnce'
    BY <1>15, <1>0 DEF leave, claimVars, historyVars
<1>16. ASSUME NEW r \in SessionRuns, NEW t \in Tokens, releaseHook(r, t) PROVE ContendedOnce'
    BY <1>16, <1>0 DEF releaseHook, runVars, claimVars, historyVars
<1>17. ASSUME NEW r \in SessionRuns, NEW t \in Tokens, claimHook(r, t) PROVE ContendedOnce'
    BY <1>17, <1>0 DEF claimHook, runVars, historyVars
<1>18. ASSUME NEW s \in Successors, validated(s) PROVE ContendedOnce'
    BY <1>18, <1>0 DEF validated, hookVars, historyVars
<1>19. ASSUME NEW s \in Successors, bootFails(s) PROVE ContendedOnce'
    BY <1>19, <1>0 DEF bootFails, hookVars, claimVars, historyVars
<1>20. ASSUME NEW s \in Successors, activate(s) PROVE ContendedOnce'
    BY <1>20, <1>0 DEF activate, runTurn, hookVars
<1>21. ASSUME NEW s \in Successors, reportFailure(s) PROVE ContendedOnce'
    BY <1>21, <1>0 DEF reportFailure, hookVars, historyVars
<1>22. CASE awaitAnchoredResult
    BY <1>22, <1>0 DEF awaitAnchoredResult, claimVars, historyVars
<1>23. ASSUME NEW p \in Payloads, send(p) PROVE ContendedOnce'
    BY <1>23, <1>0 DEF send, hookVars, runVars, claimVars, historyVars
<1>24. ASSUME NEW p \in Payloads, resumed(p) PROVE ContendedOnce'
    BY <1>24, <1>0 DEF resumed, hookVars, runVars, claimVars
<1>25. ASSUME NEW p \in Payloads, hookNotFound(p) PROVE ContendedOnce'
    BY <1>25, <1>0 DEF hookNotFound, hookVars, runVars, claimVars, historyVars
<1>26. ASSUME NEW p \in Payloads, isHandoffInProgress(p) PROVE ContendedOnce'
    BY <1>26, <1>0 DEF isHandoffInProgress, hookVars, runVars, claimVars, historyVars
<1>27. ASSUME NEW p \in Payloads, retryWindowPasses(p) PROVE ContendedOnce'
    BY <1>27, <1>0 DEF retryWindowPasses, hookVars, runVars, claimVars, historyVars
<1>28. ASSUME NEW c \in Commands, NEW x \in Replacements, startReplacement(c, x)
        PROVE ContendedOnce'
    <2>0. Commands \subseteq Payloads
        BY DEF Payloads
    <2>1. \A y \in Runs : pc'[y] = "contending" =>
              \/ y = x /\ selected'[y] = c
              \/ /\ pc[y] = "contending" /\ selected'[y] = selected[y]
                 /\ selected[y] \in Commands \ {c}
        BY <1>28, <1>0 DEF startReplacement
    <2>2. \A d \in Commands : sent'[d] = IF d = c THEN "contending" ELSE sent[d]
        BY <1>28, <1>0, <2>0 DEF startReplacement
    <2> QED
        BY <2>1, <2>2
<1>29. ASSUME NEW x \in Replacements, contend(x) PROVE ContendedOnce'
    <2>0. Commands \subseteq Payloads
        BY DEF Payloads
    <2>1. /\ selected' = selected
          /\ \A y \in Runs : pc'[y] = "contending" => pc[y] = "contending" /\ y # x
        BY <1>29, <1>0 DEF contend
    <2>2. \A d \in Commands : d # selected[x] => sent'[d] = sent[d]
        BY <1>29, <1>0, <2>0 DEF contend
    <2>3. pc[x] = "contending"
        BY <1>29 DEF contend
    <2> QED
        BY <2>1, <2>2, <2>3
<1>30. CASE UNCHANGED vars
    BY <1>30 DEF vars, hookVars, runVars, claimVars, historyVars
<1> QED
    BY <1>1, <1>2, <1>3, <1>4, <1>5, <1>6, <1>7, <1>8, <1>9, <1>10, <1>11, <1>12, <1>13,
       <1>14, <1>15, <1>16, <1>17, <1>18, <1>19, <1>20, <1>21, <1>22, <1>23, <1>24, <1>25,
       <1>26, <1>27, <1>28, <1>29, <1>30 DEF Next, vars, ownerStep, hookStep,
       candidateStep, ingressStep

(***************************************************************************)
(* What is kept of a payload was accepted.                                 *)
(***************************************************************************)
LEMMA ArrivedForGood ==
    ASSUME TypeOK, SelectionsExist, ContendedOnce, [Next]_vars, NEW p \in Payloads,
           sent[p] = "accepted"
    PROVE  sent'[p] = "accepted"
<1>0. sent \in [Payloads -> {"new", "resuming", "checking", "accepted", "gone", "contending",
                             "replaced"}]
    BY DEF TypeOK
<1>1. ASSUME NEW q \in Payloads, send(q) \/ resumed(q) \/ hookNotFound(q)
                 \/ isHandoffInProgress(q) \/ retryWindowPasses(q)
      PROVE  sent'[p] = "accepted"
    BY <1>0, <1>1 DEF send, resumed, hookNotFound, isHandoffInProgress, retryWindowPasses
<1>2. ASSUME NEW c \in Commands, NEW x \in Replacements, startReplacement(c, x)
      PROVE  sent'[p] = "accepted"
    BY <1>0, <1>2 DEF startReplacement
<1>3. ASSUME NEW x \in Replacements, contend(x) PROVE sent'[p] = "accepted"
    <2>1. sent[selected[x]] = "contending"
        BY <1>3, RunFacts DEF contend, ContendedOnce
    <2>2. sent' = sent \/ \E v : sent' = [sent EXCEPT ![selected[x]] = v]
        BY <1>3 DEF contend
    <2> QED
        BY <1>0, <2>1, <2>2
<1> QED
    BY <1>1, <1>2, <1>3, AcceptedChange

LEMMA ResumedArrives ==
    ASSUME TypeOK, NEW p \in Payloads, resumed(p)
    PROVE  sent'[p] = "accepted"
BY DEF TypeOK, resumed

LEMMA AcceptedStep ==
    ASSUME TypeOK, SelectionsExist, ContendedOnce, AcceptedArrived, [Next]_vars
    PROVE  AcceptedArrived'
<1>0. accepted \in Seq(Commands) /\ Commands \subseteq Payloads
    BY DEF TypeOK, Payloads
<1>1. Members(accepted) \subseteq Commands
    BY <1>0 DEF Members
<1>2. ASSUME NEW c \in Members(accepted) PROVE sent'[c] = "accepted"
    BY <1>0, <1>1, <1>2, ArrivedForGood DEF AcceptedArrived
<1>3. CASE accepted' = accepted
    BY <1>2, <1>3 DEF AcceptedArrived
<1>4. ASSUME NEW p \in Payloads, resumed(p), p \in Commands, accepted' = Append(accepted, p)
      PROVE  AcceptedArrived'
    <2>1. Members(accepted') = Members(accepted) \cup {p}
        BY <1>0, <1>4, MembersOfAppend
    <2>2. sent'[p] = "accepted"
        BY <1>4, ResumedArrives
    <2> QED
        BY <1>2, <2>1, <2>2 DEF AcceptedArrived
<1>5. ASSUME NEW p \in Payloads, resumed(p) PROVE AcceptedArrived'
    BY <1>3, <1>4, <1>5 DEF resumed
<1> QED
    BY <1>3, <1>5, AcceptedChange DEF send, hookNotFound, isHandoffInProgress,
       retryWindowPasses, startReplacement, contend, historyVars

LEMMA TimersStep ==
    ASSUME TypeOK, SelectionsExist, ContendedOnce, TimersArrived, [Next]_vars
    PROVE  TimersArrived'
<1> USE RunFacts
<1>0. /\ inbox \in [Runs -> Seq(Payloads)] /\ restored \in [SessionRuns -> Seq(Payloads)]
      /\ activation \in [SessionRuns -> Payload] /\ Timers \subseteq Payloads
    BY DEF TypeOK, Payloads
<1> DEFINE Known(u) == \A p \in Members(u) \cap Timers : sent'[p] = "accepted"
<1>1. ASSUME NEW u, Arrived(u) PROVE Known(u)
    BY <1>0, <1>1, ArrivedForGood DEF Arrived
<1>2. /\ \A r \in Runs : Known(inbox[r])
      /\ \A r \in SessionRuns : Known(restored[r])
      /\ \A r \in SessionRuns : activation[r].kind = "failed" => Known(activation[r].payloads)
    BY <1>1 DEF TimersArrived
<1>3. Known(<<>>)
    BY DEF Members
<1>4. \A r \in Runs : Known(inbox'[r])
    <2>1. ASSUME NEW r \in SessionRuns, nextTurnDelivery(r) \/ ignoreTimeout(r)
          PROVE  \A q \in Runs : Known(inbox'[q])
        <3>1. inbox[r] # <<>> /\ inbox' = [inbox EXCEPT ![r] = Tail(inbox[r])]
            BY <2>1 DEF nextTurnDelivery, ignoreTimeout
        <3>2. inbox[r] \in Seq(Payloads)
            BY <1>0
        <3>3. Members(Tail(inbox[r])) \subseteq Members(inbox[r])
            BY <3>1, <3>2, HeadAndTail
        <3> QED
            BY <1>0, <1>2, <3>1, <3>3
    <2>2. ASSUME NEW r \in SessionRuns,
                 endSession(r) \/ markerConflict(r) \/ recoveryFails(r) \/ released(r)
                     \/ reportFailure(r)
          PROVE  \A q \in Runs : Known(inbox'[q])
        <3>1. inbox' = [inbox EXCEPT ![r] = <<>>]
            BY <2>2 DEF endSession, markerConflict, recoveryFails, finish, released, reportFailure
        <3> HIDE DEF Known
        <3> QED
            BY <1>0, <1>2, <1>3, <3>1
    <2>3. ASSUME NEW r \in SessionRuns, recovered(r)
          PROVE  \A q \in Runs : Known(inbox'[q])
        <3>1. inbox' = [inbox EXCEPT ![r] = restored[r] \o inbox[r]]
            BY <2>3 DEF recovered, replay
        <3>2. restored[r] \in Seq(Payloads) /\ inbox[r] \in Seq(Payloads)
            BY <1>0
        <3>3. Members(restored[r] \o inbox[r]) = Members(restored[r]) \cup Members(inbox[r])
            BY <3>2, Joined
        <3>4. Known(restored[r] \o inbox[r])
            BY <1>2, <3>3
        <3> HIDE DEF Known
        <3> QED
            BY <1>0, <1>2, <3>1, <3>4
    <2>4. ASSUME NEW p \in Payloads, resumed(p)
          PROVE  \A q \in Runs : Known(inbox'[q])
        <3> DEFINE o == hook[addressOf(p)]
        <3>1. inbox' = [inbox EXCEPT ![o] = Append(inbox[o], p)]
            BY <2>4 DEF resumed
        <3>2. sent'[p] = "accepted"
            BY <2>4, ResumedArrives
        <3> HIDE DEF o
        <3>3. ASSUME o \in Runs PROVE Known(Append(inbox[o], p))
            <4>1. inbox[o] \in Seq(Payloads)
                BY <1>0, <3>3
            <4>2. Members(Append(inbox[o], p)) = Members(inbox[o]) \cup {p}
                BY <4>1, MembersOfAppend
            <4> QED
                BY <1>2, <3>2, <3>3, <4>2
        <3> HIDE DEF Known
        <3> QED
            BY <1>0, <1>2, <3>1, <3>3
    <2> HIDE DEF Known
    <2> QED
        BY <1>2, <2>1, <2>2, <2>3, <2>4, InboxChange
<1> HIDE DEF Known
<1>5. \A r \in SessionRuns : Known(restored'[r])
    <2>1. ASSUME NEW r \in SessionRuns, released(r) \/ startFails(r) \/ recovered(r)
          PROVE  \A q \in SessionRuns : Known(restored'[q])
        <3>1. \/ UNCHANGED restored
              \/ restored' = [restored EXCEPT ![r] = <<>>]
              \/ restored' = [restored EXCEPT ![r] = inbox[r]]
            BY <2>1 DEF released, startFails, recovered, recover
        <3> QED
            BY <1>0, <1>2, <1>3, <3>1
    <2>2. ASSUME NEW r \in SessionRuns, activationFailed(r)
          PROVE  \A q \in SessionRuns : Known(restored'[q])
        <3>1. /\ restored' = [restored EXCEPT ![r] = activation[r].payloads]
              /\ activation[r].kind = "failed"
            BY <2>2 DEF activationFailed, recover
        <3> QED
            BY <1>0, <1>2, <3>1
    <2> QED
        BY <1>2, <2>1, <2>2, RestoredChange
<1>6. \A r \in SessionRuns : activation'[r].kind = "failed" => Known(activation'[r].payloads)
    <2> DEFINE Told(q, v) == /\ activation' = [activation EXCEPT ![q] = v]
                             /\ v.kind = "failed" => Known(v.payloads)
    <2>1. ASSUME NEW r \in SessionRuns, activated(r) \/ activationFailed(r)
          PROVE  Told(r, [kind |-> "none"])
        BY <2>1 DEF activated, activationFailed
    <2>2. ASSUME NEW s \in Successors, activate(s)
          PROVE  Told(predecessor[s], [kind |-> "active"])
        BY <2>2 DEF activate
    <2>3. ASSUME NEW s \in Successors, reportFailure(s)
          PROVE  Told(predecessor[s], [kind |-> "failed", payloads |-> inbox[s]])
        BY <1>2, <2>3 DEF reportFailure
    <2>4. ASSUME NEW q, NEW v, Told(q, v), NEW r \in SessionRuns, activation'[r].kind = "failed"
          PROVE  Known(activation'[r].payloads)
        <3>1. activation'[r] = IF r = q THEN v ELSE activation[r]
            BY <1>0, <2>4
        <3> QED
            BY <1>2, <2>4, <3>1
    <2> HIDE DEF Told
    <2>5. UNCHANGED activation \/ \E q, v : Told(q, v)
        BY <2>1, <2>2, <2>3, ActivationChange
    <2> QED
        BY <1>2, <2>4, <2>5
<1> QED
    BY <1>4, <1>5, <1>6 DEF TimersArrived, Arrived, Known

(***************************************************************************)
(* Where runs stand: hooks, selections, empty inboxes, the end.            *)
(***************************************************************************)
LEMMA HookedStep ==
    ASSUME TypeOK, Hooked, [Next]_vars
    PROVE  Hooked'
<1> USE RunFacts DEF Hooked, Held
<1>0. pc \in [Runs -> Phases] /\ hook \in [Tokens -> Runs \cup {NoRun}]
    BY DEF TypeOK
<1>1. ASSUME NEW r \in SessionRuns, nextTurnDelivery(r) PROVE Hooked'
    BY <1>1, <1>0 DEF nextTurnDelivery, isDelivery, hookVars, claimVars, historyVars
<1>2. ASSUME NEW r \in SessionRuns, ignoreTimeout(r) PROVE Hooked'
    BY <1>2, <1>0 DEF ignoreTimeout, hookVars, runVars, claimVars, historyVars
<1>3. ASSUME NEW r \in SessionRuns, endSession(r) PROVE Hooked'
    BY <1>3, <1>0 DEF endSession, finish, without, claimVars
<1>4. ASSUME NEW r \in SessionRuns, endTurn(r) PROVE Hooked'
    BY <1>4, <1>0 DEF endTurn, hookVars, claimVars, historyVars
<1>5. ASSUME NEW r \in SessionRuns, retain(r) PROVE Hooked'
    BY <1>5, <1>0 DEF retain, runTurn, hookVars, claimVars
<1>6. ASSUME NEW r \in SessionRuns, beginTransfer(r) PROVE Hooked'
    BY <1>6, <1>0 DEF beginTransfer, claimVars, historyVars
<1>7. ASSUME NEW r \in SessionRuns, markerConflict(r) PROVE Hooked'
    BY <1>7, <1>0 DEF markerConflict, finish, without, claimVars, historyVars
<1>8. ASSUME NEW r \in SessionRuns, released(r) PROVE Hooked'
    BY <1>8, <1>0 DEF released, recover, hookVars, historyVars
<1>9. ASSUME NEW r \in SessionRuns, startFails(r) PROVE Hooked'
    BY <1>9, <1>0 DEF startFails, mayFailToStart, recover, hookVars, historyVars
<1>10. ASSUME NEW r \in SessionRuns, NEW s \in Successors, startSessionOwner(r, s)
        PROVE Hooked'
    BY <1>10, <1>0 DEF startSessionOwner, hookVars, historyVars
<1>11. ASSUME NEW r \in SessionRuns, activated(r) PROVE Hooked'
    BY <1>11, <1>0 DEF activated, hookVars, historyVars
<1>12. ASSUME NEW r \in SessionRuns, activationFailed(r) PROVE Hooked'
    BY <1>12, <1>0 DEF activationFailed, recover, hookVars, historyVars
<1>13. ASSUME NEW r \in SessionRuns, recovered(r) PROVE Hooked'
    BY <1>13, <1>0 DEF recovered, without, runTurn
<1>14. ASSUME NEW r \in SessionRuns, recoveryFails(r) PROVE Hooked'
    BY <1>14, <1>0 DEF recoveryFails, finish, without, claimVars, historyVars
<1>15. ASSUME NEW r \in SessionRuns, leave(r) PROVE Hooked'
    BY <1>15, <1>0 DEF leave, without, claimVars, historyVars
<1>16. ASSUME NEW r \in SessionRuns, NEW t \in Tokens, releaseHook(r, t) PROVE Hooked'
    BY <1>16, <1>0 DEF releaseHook, runVars, claimVars, historyVars
<1>17. ASSUME NEW r \in SessionRuns, NEW t \in Tokens, claimHook(r, t) PROVE Hooked'
    BY <1>17, <1>0 DEF claimHook, runVars, historyVars
<1>18. ASSUME NEW s \in Successors, validated(s) PROVE Hooked'
    BY <1>18, <1>0 DEF validated, hookVars, historyVars
<1>19. ASSUME NEW s \in Successors, bootFails(s) PROVE Hooked'
    BY <1>19, <1>0 DEF bootFails, hookVars, claimVars, historyVars
<1>20. ASSUME NEW s \in Successors, activate(s) PROVE Hooked'
    BY <1>20, <1>0 DEF activate, runTurn, hookVars
<1>21. ASSUME NEW s \in Successors, reportFailure(s) PROVE Hooked'
    BY <1>21, <1>0 DEF reportFailure, hookVars, historyVars
<1>22. CASE awaitAnchoredResult
    BY <1>22, <1>0 DEF awaitAnchoredResult, claimVars, historyVars
<1>23. ASSUME NEW p \in Payloads, send(p) PROVE Hooked'
    BY <1>23, <1>0 DEF send, hookVars, runVars, claimVars, historyVars
<1>24. ASSUME NEW p \in Payloads, resumed(p) PROVE Hooked'
    BY <1>24, <1>0 DEF resumed, hookVars, runVars, claimVars
<1>25. ASSUME NEW p \in Payloads, hookNotFound(p) PROVE Hooked'
    BY <1>25, <1>0 DEF hookNotFound, hookVars, runVars, claimVars, historyVars
<1>26. ASSUME NEW p \in Payloads, isHandoffInProgress(p) PROVE Hooked'
    BY <1>26, <1>0 DEF isHandoffInProgress, hookVars, runVars, claimVars, historyVars
<1>27. ASSUME NEW p \in Payloads, retryWindowPasses(p) PROVE Hooked'
    BY <1>27, <1>0 DEF retryWindowPasses, hookVars, runVars, claimVars, historyVars
<1>28. ASSUME NEW c \in Commands, NEW x \in Replacements, startReplacement(c, x)
        PROVE Hooked'
    BY <1>28, <1>0 DEF startReplacement, hookVars, claimVars, historyVars
<1>29. ASSUME NEW x \in Replacements, contend(x) PROVE Hooked'
    BY <1>29, <1>0 DEF contend, claimVars, historyVars
<1>30. CASE UNCHANGED vars
    BY <1>30 DEF vars, hookVars, runVars, claimVars, historyVars
<1> QED
    BY <1>1, <1>2, <1>3, <1>4, <1>5, <1>6, <1>7, <1>8, <1>9, <1>10, <1>11, <1>12, <1>13,
       <1>14, <1>15, <1>16, <1>17, <1>18, <1>19, <1>20, <1>21, <1>22, <1>23, <1>24, <1>25,
       <1>26, <1>27, <1>28, <1>29, <1>30 DEF Next, vars, ownerStep, hookStep,
       candidateStep, ingressStep

LEMMA SelectionsAgree ==
    ASSUME HInv, TypeOK, SameSelection, [Next]_vars
    PROVE  SameSelection'
<1> USE RunFacts DEF SameSelection, HInv, CandidateAwaited
<1>0. /\ pc \in [Runs -> Phases] /\ selected \in [Runs -> Commands \cup {NoCommand}]
      /\ predecessor \in [Successors -> SessionRuns \cup {NoRun}]
    BY DEF TypeOK
<1>1. ASSUME NEW r \in SessionRuns, nextTurnDelivery(r) PROVE SameSelection'
    BY <1>1, <1>0 DEF nextTurnDelivery, isDelivery, hookVars, claimVars, historyVars
<1>2. ASSUME NEW r \in SessionRuns, ignoreTimeout(r) PROVE SameSelection'
    BY <1>2, <1>0 DEF ignoreTimeout, hookVars, runVars, claimVars, historyVars
<1>3. ASSUME NEW r \in SessionRuns, endSession(r) PROVE SameSelection'
    BY <1>3, <1>0 DEF endSession, finish, claimVars
<1>4. ASSUME NEW r \in SessionRuns, endTurn(r) PROVE SameSelection'
    BY <1>4, <1>0 DEF endTurn, hookVars, claimVars, historyVars
<1>5. ASSUME NEW r \in SessionRuns, retain(r) PROVE SameSelection'
    BY <1>5, <1>0 DEF retain, runTurn, hookVars, claimVars
<1>6. ASSUME NEW r \in SessionRuns, beginTransfer(r) PROVE SameSelection'
    BY <1>6, <1>0 DEF beginTransfer, claimVars, historyVars
<1>7. ASSUME NEW r \in SessionRuns, markerConflict(r) PROVE SameSelection'
    BY <1>7, <1>0 DEF markerConflict, finish, claimVars, historyVars
<1>8. ASSUME NEW r \in SessionRuns, released(r) PROVE SameSelection'
    BY <1>8, <1>0 DEF released, recover, hookVars, historyVars
<1>9. ASSUME NEW r \in SessionRuns, startFails(r) PROVE SameSelection'
    BY <1>9, <1>0 DEF startFails, mayFailToStart, recover, hookVars, historyVars
<1>10. ASSUME NEW r \in SessionRuns, NEW s \in Successors, startSessionOwner(r, s)
        PROVE SameSelection'
    BY <1>10, <1>0 DEF startSessionOwner, hookVars, historyVars
<1>11. ASSUME NEW r \in SessionRuns, activated(r) PROVE SameSelection'
    BY <1>11, <1>0 DEF activated, hookVars, historyVars
<1>12. ASSUME NEW r \in SessionRuns, activationFailed(r) PROVE SameSelection'
    BY <1>12, <1>0 DEF activationFailed, recover, hookVars, historyVars
<1>13. ASSUME NEW r \in SessionRuns, recovered(r) PROVE SameSelection'
    BY <1>13, <1>0 DEF recovered, runTurn
<1>14. ASSUME NEW r \in SessionRuns, recoveryFails(r) PROVE SameSelection'
    BY <1>14, <1>0 DEF recoveryFails, finish, claimVars, historyVars
<1>15. ASSUME NEW r \in SessionRuns, leave(r) PROVE SameSelection'
    BY <1>15, <1>0 DEF leave, claimVars, historyVars
<1>16. ASSUME NEW r \in SessionRuns, NEW t \in Tokens, releaseHook(r, t) PROVE SameSelection'
    BY <1>16, <1>0 DEF releaseHook, runVars, claimVars, historyVars
<1>17. ASSUME NEW r \in SessionRuns, NEW t \in Tokens, claimHook(r, t) PROVE SameSelection'
    BY <1>17, <1>0 DEF claimHook, runVars, historyVars
<1>18. ASSUME NEW s \in Successors, validated(s) PROVE SameSelection'
    BY <1>18, <1>0 DEF validated, hookVars, historyVars
<1>19. ASSUME NEW s \in Successors, bootFails(s) PROVE SameSelection'
    BY <1>19, <1>0 DEF bootFails, hookVars, claimVars, historyVars
<1>20. ASSUME NEW s \in Successors, activate(s) PROVE SameSelection'
    BY <1>20, <1>0 DEF activate, runTurn, hookVars
<1>21. ASSUME NEW s \in Successors, reportFailure(s) PROVE SameSelection'
    BY <1>21, <1>0 DEF reportFailure, hookVars, historyVars
<1>22. CASE awaitAnchoredResult
    BY <1>22, <1>0 DEF awaitAnchoredResult, claimVars, historyVars
<1>23. ASSUME NEW p \in Payloads, send(p) PROVE SameSelection'
    BY <1>23, <1>0 DEF send, hookVars, runVars, claimVars, historyVars
<1>24. ASSUME NEW p \in Payloads, resumed(p) PROVE SameSelection'
    BY <1>24, <1>0 DEF resumed, hookVars, runVars, claimVars
<1>25. ASSUME NEW p \in Payloads, hookNotFound(p) PROVE SameSelection'
    BY <1>25, <1>0 DEF hookNotFound, hookVars, runVars, claimVars, historyVars
<1>26. ASSUME NEW p \in Payloads, isHandoffInProgress(p) PROVE SameSelection'
    BY <1>26, <1>0 DEF isHandoffInProgress, hookVars, runVars, claimVars, historyVars
<1>27. ASSUME NEW p \in Payloads, retryWindowPasses(p) PROVE SameSelection'
    BY <1>27, <1>0 DEF retryWindowPasses, hookVars, runVars, claimVars, historyVars
<1>28. ASSUME NEW c \in Commands, NEW x \in Replacements, startReplacement(c, x)
        PROVE SameSelection'
    BY <1>28, <1>0 DEF startReplacement, hookVars, claimVars, historyVars
<1>29. ASSUME NEW x \in Replacements, contend(x) PROVE SameSelection'
    BY <1>29, <1>0 DEF contend, claimVars, historyVars
<1>30. CASE UNCHANGED vars
    BY <1>30 DEF vars, hookVars, runVars, claimVars, historyVars
<1> QED
    BY <1>1, <1>2, <1>3, <1>4, <1>5, <1>6, <1>7, <1>8, <1>9, <1>10, <1>11, <1>12, <1>13,
       <1>14, <1>15, <1>16, <1>17, <1>18, <1>19, <1>20, <1>21, <1>22, <1>23, <1>24, <1>25,
       <1>26, <1>27, <1>28, <1>29, <1>30 DEF Next, vars, ownerStep, hookStep,
       candidateStep, ingressStep

LEMMA EndStep ==
    ASSUME HInv, TypeOK, NoneAfterTheEnd, [Next]_vars
    PROVE  NoneAfterTheEnd'
<1> USE RunFacts DEF NoneAfterTheEnd, over, Live, HInv, OneLive, CandidateAwaited, SignalIsAwaited
<1>0. /\ pc \in [Runs -> Phases] /\ activation \in [SessionRuns -> Payload]
    BY DEF TypeOK
<1>1. ASSUME NEW r \in SessionRuns, nextTurnDelivery(r) PROVE NoneAfterTheEnd'
    BY <1>1, <1>0 DEF nextTurnDelivery, isDelivery, hookVars, claimVars, historyVars
<1>2. ASSUME NEW r \in SessionRuns, ignoreTimeout(r) PROVE NoneAfterTheEnd'
    BY <1>2, <1>0 DEF ignoreTimeout, hookVars, runVars, claimVars, historyVars
<1>3. ASSUME NEW r \in SessionRuns, endSession(r) PROVE NoneAfterTheEnd'
    BY <1>3, <1>0 DEF endSession, finish, claimVars
<1>4. ASSUME NEW r \in SessionRuns, endTurn(r) PROVE NoneAfterTheEnd'
    BY <1>4, <1>0 DEF endTurn, hookVars, claimVars, historyVars
<1>5. ASSUME NEW r \in SessionRuns, retain(r) PROVE NoneAfterTheEnd'
    BY <1>5, <1>0 DEF retain, runTurn, hookVars, claimVars
<1>6. ASSUME NEW r \in SessionRuns, beginTransfer(r) PROVE NoneAfterTheEnd'
    BY <1>6, <1>0 DEF beginTransfer, claimVars, historyVars
<1>7. ASSUME NEW r \in SessionRuns, markerConflict(r) PROVE NoneAfterTheEnd'
    BY <1>7, <1>0 DEF markerConflict, finish, claimVars, historyVars
<1>8. ASSUME NEW r \in SessionRuns, released(r) PROVE NoneAfterTheEnd'
    BY <1>8, <1>0 DEF released, recover, hookVars, historyVars
<1>9. ASSUME NEW r \in SessionRuns, startFails(r) PROVE NoneAfterTheEnd'
    BY <1>9, <1>0 DEF startFails, mayFailToStart, recover, hookVars, historyVars
<1>10. ASSUME NEW r \in SessionRuns, NEW s \in Successors, startSessionOwner(r, s)
        PROVE NoneAfterTheEnd'
    BY <1>10, <1>0 DEF startSessionOwner, hookVars, historyVars
<1>11. ASSUME NEW r \in SessionRuns, activated(r) PROVE NoneAfterTheEnd'
    BY <1>11, <1>0 DEF activated, hookVars, historyVars
<1>12. ASSUME NEW r \in SessionRuns, activationFailed(r) PROVE NoneAfterTheEnd'
    BY <1>12, <1>0 DEF activationFailed, recover, hookVars, historyVars
<1>13. ASSUME NEW r \in SessionRuns, recovered(r) PROVE NoneAfterTheEnd'
    BY <1>13, <1>0 DEF recovered, runTurn
<1>14. ASSUME NEW r \in SessionRuns, recoveryFails(r) PROVE NoneAfterTheEnd'
    BY <1>14, <1>0 DEF recoveryFails, finish, claimVars, historyVars
<1>15. ASSUME NEW r \in SessionRuns, leave(r) PROVE NoneAfterTheEnd'
    BY <1>15, <1>0 DEF leave, claimVars, historyVars
<1>16. ASSUME NEW r \in SessionRuns, NEW t \in Tokens, releaseHook(r, t) PROVE NoneAfterTheEnd'
    BY <1>16, <1>0 DEF releaseHook, runVars, claimVars, historyVars
<1>17. ASSUME NEW r \in SessionRuns, NEW t \in Tokens, claimHook(r, t) PROVE NoneAfterTheEnd'
    BY <1>17, <1>0 DEF claimHook, runVars, historyVars
<1>18. ASSUME NEW s \in Successors, validated(s) PROVE NoneAfterTheEnd'
    BY <1>18, <1>0 DEF validated, hookVars, historyVars
<1>19. ASSUME NEW s \in Successors, bootFails(s) PROVE NoneAfterTheEnd'
    BY <1>19, <1>0 DEF bootFails, hookVars, claimVars, historyVars
<1>20. ASSUME NEW s \in Successors, activate(s) PROVE NoneAfterTheEnd'
    BY <1>20, <1>0 DEF activate, runTurn, hookVars
<1>21. ASSUME NEW s \in Successors, reportFailure(s) PROVE NoneAfterTheEnd'
    BY <1>21, <1>0 DEF reportFailure, hookVars, historyVars
<1>22. CASE awaitAnchoredResult
    BY <1>22, <1>0 DEF awaitAnchoredResult, claimVars, historyVars
<1>23. ASSUME NEW p \in Payloads, send(p) PROVE NoneAfterTheEnd'
    BY <1>23, <1>0 DEF send, hookVars, runVars, claimVars, historyVars
<1>24. ASSUME NEW p \in Payloads, resumed(p) PROVE NoneAfterTheEnd'
    BY <1>24, <1>0 DEF resumed, hookVars, runVars, claimVars
<1>25. ASSUME NEW p \in Payloads, hookNotFound(p) PROVE NoneAfterTheEnd'
    BY <1>25, <1>0 DEF hookNotFound, hookVars, runVars, claimVars, historyVars
<1>26. ASSUME NEW p \in Payloads, isHandoffInProgress(p) PROVE NoneAfterTheEnd'
    BY <1>26, <1>0 DEF isHandoffInProgress, hookVars, runVars, claimVars, historyVars
<1>27. ASSUME NEW p \in Payloads, retryWindowPasses(p) PROVE NoneAfterTheEnd'
    BY <1>27, <1>0 DEF retryWindowPasses, hookVars, runVars, claimVars, historyVars
<1>28. ASSUME NEW c \in Commands, NEW x \in Replacements, startReplacement(c, x)
        PROVE NoneAfterTheEnd'
    BY <1>28, <1>0 DEF startReplacement, hookVars, claimVars, historyVars
<1>29. ASSUME NEW x \in Replacements, contend(x) PROVE NoneAfterTheEnd'
    BY <1>29, <1>0 DEF contend, claimVars, historyVars
<1>30. CASE UNCHANGED vars
    BY <1>30 DEF vars, hookVars, runVars, claimVars, historyVars
<1> QED
    BY <1>1, <1>2, <1>3, <1>4, <1>5, <1>6, <1>7, <1>8, <1>9, <1>10, <1>11, <1>12, <1>13,
       <1>14, <1>15, <1>16, <1>17, <1>18, <1>19, <1>20, <1>21, <1>22, <1>23, <1>24, <1>25,
       <1>26, <1>27, <1>28, <1>29, <1>30 DEF Next, vars, ownerStep, hookStep,
       candidateStep, ingressStep

LEMMA QuietStep ==
    ASSUME TypeOK, Hooked, QuietRunsHaveNone, [Next]_vars
    PROVE  QuietRunsHaveNone'
<1> USE RunFacts DEF QuietRunsHaveNone, Quiet, Hooked
<1>0. /\ pc \in [Runs -> Phases] /\ inbox \in [Runs -> Seq(Payloads)]
    BY DEF TypeOK
<1>1. ASSUME NEW r \in SessionRuns, nextTurnDelivery(r) PROVE QuietRunsHaveNone'
    BY <1>1, <1>0 DEF nextTurnDelivery, isDelivery, hookVars, claimVars, historyVars
<1>2. ASSUME NEW r \in SessionRuns, ignoreTimeout(r) PROVE QuietRunsHaveNone'
    BY <1>2, <1>0 DEF ignoreTimeout, hookVars, runVars, claimVars, historyVars
<1>3. ASSUME NEW r \in SessionRuns, endSession(r) PROVE QuietRunsHaveNone'
    BY <1>3, <1>0 DEF endSession, finish, claimVars
<1>4. ASSUME NEW r \in SessionRuns, endTurn(r) PROVE QuietRunsHaveNone'
    BY <1>4, <1>0 DEF endTurn, hookVars, claimVars, historyVars
<1>5. ASSUME NEW r \in SessionRuns, retain(r) PROVE QuietRunsHaveNone'
    BY <1>5, <1>0 DEF retain, runTurn, hookVars, claimVars
<1>6. ASSUME NEW r \in SessionRuns, beginTransfer(r) PROVE QuietRunsHaveNone'
    BY <1>6, <1>0 DEF beginTransfer, claimVars, historyVars
<1>7. ASSUME NEW r \in SessionRuns, markerConflict(r) PROVE QuietRunsHaveNone'
    BY <1>7, <1>0 DEF markerConflict, finish, claimVars, historyVars
<1>8. ASSUME NEW r \in SessionRuns, released(r) PROVE QuietRunsHaveNone'
    BY <1>8, <1>0 DEF released, recover, hookVars, historyVars
<1>9. ASSUME NEW r \in SessionRuns, startFails(r) PROVE QuietRunsHaveNone'
    BY <1>9, <1>0 DEF startFails, mayFailToStart, recover, hookVars, historyVars
<1>10. ASSUME NEW r \in SessionRuns, NEW s \in Successors, startSessionOwner(r, s)
        PROVE QuietRunsHaveNone'
    BY <1>10, <1>0 DEF startSessionOwner, hookVars, historyVars
<1>11. ASSUME NEW r \in SessionRuns, activated(r) PROVE QuietRunsHaveNone'
    BY <1>11, <1>0 DEF activated, hookVars, historyVars
<1>12. ASSUME NEW r \in SessionRuns, activationFailed(r) PROVE QuietRunsHaveNone'
    BY <1>12, <1>0 DEF activationFailed, recover, hookVars, historyVars
<1>13. ASSUME NEW r \in SessionRuns, recovered(r) PROVE QuietRunsHaveNone'
    BY <1>13, <1>0 DEF recovered, runTurn
<1>14. ASSUME NEW r \in SessionRuns, recoveryFails(r) PROVE QuietRunsHaveNone'
    BY <1>14, <1>0 DEF recoveryFails, finish, claimVars, historyVars
<1>15. ASSUME NEW r \in SessionRuns, leave(r) PROVE QuietRunsHaveNone'
    BY <1>15, <1>0 DEF leave, claimVars, historyVars
<1>16. ASSUME NEW r \in SessionRuns, NEW t \in Tokens, releaseHook(r, t) PROVE QuietRunsHaveNone'
    BY <1>16, <1>0 DEF releaseHook, runVars, claimVars, historyVars
<1>17. ASSUME NEW r \in SessionRuns, NEW t \in Tokens, claimHook(r, t) PROVE QuietRunsHaveNone'
    BY <1>17, <1>0 DEF claimHook, runVars, historyVars
<1>18. ASSUME NEW s \in Successors, validated(s) PROVE QuietRunsHaveNone'
    BY <1>18, <1>0 DEF validated, hookVars, historyVars
<1>19. ASSUME NEW s \in Successors, bootFails(s) PROVE QuietRunsHaveNone'
    BY <1>19, <1>0 DEF bootFails, hookVars, claimVars, historyVars
<1>20. ASSUME NEW s \in Successors, activate(s) PROVE QuietRunsHaveNone'
    BY <1>20, <1>0 DEF activate, runTurn, hookVars
<1>21. ASSUME NEW s \in Successors, reportFailure(s) PROVE QuietRunsHaveNone'
    BY <1>21, <1>0 DEF reportFailure, hookVars, historyVars
<1>22. CASE awaitAnchoredResult
    BY <1>22, <1>0 DEF awaitAnchoredResult, claimVars, historyVars
<1>23. ASSUME NEW p \in Payloads, send(p) PROVE QuietRunsHaveNone'
    BY <1>23, <1>0 DEF send, hookVars, runVars, claimVars, historyVars
<1>24. ASSUME NEW p \in Payloads, resumed(p) PROVE QuietRunsHaveNone'
    <2>1. addressOf(p) \in Tokens
        BY CommandsAssumption DEF addressOf
    <2>2. \A r \in SessionRuns : pc[r] \in Quiet => r # hook[addressOf(p)]
        BY <2>1
    <2> QED
        BY <1>24, <1>0, <2>2 DEF resumed, runVars
<1>25. ASSUME NEW p \in Payloads, hookNotFound(p) PROVE QuietRunsHaveNone'
    BY <1>25, <1>0 DEF hookNotFound, hookVars, runVars, claimVars, historyVars
<1>26. ASSUME NEW p \in Payloads, isHandoffInProgress(p) PROVE QuietRunsHaveNone'
    BY <1>26, <1>0 DEF isHandoffInProgress, hookVars, runVars, claimVars, historyVars
<1>27. ASSUME NEW p \in Payloads, retryWindowPasses(p) PROVE QuietRunsHaveNone'
    BY <1>27, <1>0 DEF retryWindowPasses, hookVars, runVars, claimVars, historyVars
<1>28. ASSUME NEW c \in Commands, NEW x \in Replacements, startReplacement(c, x)
        PROVE QuietRunsHaveNone'
    BY <1>28, <1>0 DEF startReplacement, hookVars, claimVars, historyVars
<1>29. ASSUME NEW x \in Replacements, contend(x) PROVE QuietRunsHaveNone'
    BY <1>29, <1>0 DEF contend, claimVars, historyVars
<1>30. CASE UNCHANGED vars
    BY <1>30 DEF vars, hookVars, runVars, claimVars, historyVars
<1> QED
    BY <1>1, <1>2, <1>3, <1>4, <1>5, <1>6, <1>7, <1>8, <1>9, <1>10, <1>11, <1>12, <1>13,
       <1>14, <1>15, <1>16, <1>17, <1>18, <1>19, <1>20, <1>21, <1>22, <1>23, <1>24, <1>25,
       <1>26, <1>27, <1>28, <1>29, <1>30 DEF Next, vars, ownerStep, hookStep,
       candidateStep, ingressStep

(* How a run comes to its end.                                             *)
Ending(q) ==
    /\ pc'[q] = "ended" => pc[q] = "ended" \/ endSession(q)
    /\ pc'[q] = "failed" => pc[q] = "failed" \/ markerConflict(q) \/ recoveryFails(q)
    /\ pc[q] \in {"ended", "failed"} => pc'[q] = pc[q]

LEMMA Endings ==
    ASSUME TypeOK, NEW q \in SessionRuns, [Next]_vars
    PROVE  Ending(q)
<1> USE RunFacts DEF Ending
<1>0. pc \in [Runs -> Phases]
    BY DEF TypeOK
<1>1. ASSUME NEW r \in SessionRuns, nextTurnDelivery(r) PROVE Ending(q)
    BY <1>1, <1>0 DEF nextTurnDelivery, isDelivery, hookVars, claimVars, historyVars
<1>2. ASSUME NEW r \in SessionRuns, ignoreTimeout(r) PROVE Ending(q)
    BY <1>2, <1>0 DEF ignoreTimeout, hookVars, runVars, claimVars, historyVars
<1>3. ASSUME NEW r \in SessionRuns, endSession(r) PROVE Ending(q)
    BY <1>3, <1>0 DEF endSession, finish, claimVars
<1>4. ASSUME NEW r \in SessionRuns, endTurn(r) PROVE Ending(q)
    BY <1>4, <1>0 DEF endTurn, hookVars, claimVars, historyVars
<1>5. ASSUME NEW r \in SessionRuns, retain(r) PROVE Ending(q)
    BY <1>5, <1>0 DEF retain, runTurn, hookVars, claimVars
<1>6. ASSUME NEW r \in SessionRuns, beginTransfer(r) PROVE Ending(q)
    BY <1>6, <1>0 DEF beginTransfer, claimVars, historyVars
<1>7. ASSUME NEW r \in SessionRuns, markerConflict(r) PROVE Ending(q)
    BY <1>7, <1>0 DEF markerConflict, finish, claimVars, historyVars
<1>8. ASSUME NEW r \in SessionRuns, released(r) PROVE Ending(q)
    BY <1>8, <1>0 DEF released, recover, hookVars, historyVars
<1>9. ASSUME NEW r \in SessionRuns, startFails(r) PROVE Ending(q)
    BY <1>9, <1>0 DEF startFails, mayFailToStart, recover, hookVars, historyVars
<1>10. ASSUME NEW r \in SessionRuns, NEW s \in Successors, startSessionOwner(r, s) PROVE Ending(q)
    BY <1>10, <1>0 DEF startSessionOwner, hookVars, historyVars
<1>11. ASSUME NEW r \in SessionRuns, activated(r) PROVE Ending(q)
    BY <1>11, <1>0 DEF activated, hookVars, historyVars
<1>12. ASSUME NEW r \in SessionRuns, activationFailed(r) PROVE Ending(q)
    BY <1>12, <1>0 DEF activationFailed, recover, hookVars, historyVars
<1>13. ASSUME NEW r \in SessionRuns, recovered(r) PROVE Ending(q)
    BY <1>13, <1>0 DEF recovered, runTurn
<1>14. ASSUME NEW r \in SessionRuns, recoveryFails(r) PROVE Ending(q)
    BY <1>14, <1>0 DEF recoveryFails, finish, claimVars, historyVars
<1>15. ASSUME NEW r \in SessionRuns, leave(r) PROVE Ending(q)
    BY <1>15, <1>0 DEF leave, claimVars, historyVars
<1>16. ASSUME NEW r \in SessionRuns, NEW t \in Tokens, releaseHook(r, t) PROVE Ending(q)
    BY <1>16, <1>0 DEF releaseHook, runVars, claimVars, historyVars
<1>17. ASSUME NEW r \in SessionRuns, NEW t \in Tokens, claimHook(r, t) PROVE Ending(q)
    BY <1>17, <1>0 DEF claimHook, runVars, historyVars
<1>18. ASSUME NEW s \in Successors, validated(s) PROVE Ending(q)
    BY <1>18, <1>0 DEF validated, hookVars, historyVars
<1>19. ASSUME NEW s \in Successors, bootFails(s) PROVE Ending(q)
    BY <1>19, <1>0 DEF bootFails, hookVars, claimVars, historyVars
<1>20. ASSUME NEW s \in Successors, activate(s) PROVE Ending(q)
    BY <1>20, <1>0 DEF activate, runTurn, hookVars
<1>21. ASSUME NEW s \in Successors, reportFailure(s) PROVE Ending(q)
    BY <1>21, <1>0 DEF reportFailure, hookVars, historyVars
<1>22. CASE awaitAnchoredResult
    BY <1>22, <1>0 DEF awaitAnchoredResult, claimVars, historyVars
<1>23. ASSUME NEW p \in Payloads, send(p) PROVE Ending(q)
    BY <1>23, <1>0 DEF send, hookVars, runVars, claimVars, historyVars
<1>24. ASSUME NEW p \in Payloads, resumed(p) PROVE Ending(q)
    BY <1>24, <1>0 DEF resumed, hookVars, runVars, claimVars
<1>25. ASSUME NEW p \in Payloads, hookNotFound(p) PROVE Ending(q)
    BY <1>25, <1>0 DEF hookNotFound, hookVars, runVars, claimVars, historyVars
<1>26. ASSUME NEW p \in Payloads, isHandoffInProgress(p) PROVE Ending(q)
    BY <1>26, <1>0 DEF isHandoffInProgress, hookVars, runVars, claimVars, historyVars
<1>27. ASSUME NEW p \in Payloads, retryWindowPasses(p) PROVE Ending(q)
    BY <1>27, <1>0 DEF retryWindowPasses, hookVars, runVars, claimVars, historyVars
<1>28. ASSUME NEW c \in Commands, NEW x \in Replacements, startReplacement(c, x) PROVE Ending(q)
    BY <1>28, <1>0 DEF startReplacement, hookVars, claimVars, historyVars
<1>29. ASSUME NEW x \in Replacements, contend(x) PROVE Ending(q)
    BY <1>29, <1>0 DEF contend, claimVars, historyVars
<1>30. CASE UNCHANGED vars
    BY <1>30 DEF vars, hookVars, runVars, claimVars, historyVars
<1> QED
    BY <1>1, <1>2, <1>3, <1>4, <1>5, <1>6, <1>7, <1>8, <1>9, <1>10, <1>11, <1>12, <1>13,
       <1>14, <1>15, <1>16, <1>17, <1>18, <1>19, <1>20, <1>21, <1>22, <1>23, <1>24, <1>25,
       <1>26, <1>27, <1>28, <1>29, <1>30 DEF Next, vars, ownerStep, hookStep,
       candidateStep, ingressStep

(***************************************************************************)
(* What is pending, as a sequence.                                         *)
(***************************************************************************)
LEMMA PendingTyped ==
    ASSUME NEW u \in Seq(Payloads)
    PROVE  Pending(u) \in Seq(Commands)
<1>1. Payloads \cap Commands = Commands
    BY DEF Payloads
<1>2. Only(u, Commands) \in Seq(Payloads \cap Commands)
    BY OnlyPicks
<1> QED
    BY <1>1, <1>2 DEF Pending

LEMMA PendingGrows ==
    ASSUME NEW u \in Seq(Payloads), NEW p \in Payloads
    PROVE  Pending(Append(u, p)) = IF p \in Commands THEN Append(Pending(u), p) ELSE Pending(u)
BY OnlyOfAppend DEF Pending

LEMMA PendingHead ==
    ASSUME NEW u \in Seq(Payloads), u # <<>>
    PROVE  Pending(u) = IF Head(u) \in Commands THEN <<Head(u)>> \o Pending(Tail(u))
                        ELSE Pending(Tail(u))
BY OnlyOfHead DEF Pending

LEMMA TakenFirst ==
    ASSUME NEW a \in Seq(Commands), NEW c \in Commands, NEW b \in Seq(Commands)
    PROVE  a \o (<<c>> \o b) = Append(a, c) \o b
<1> DEFINE l == a \o (<<c>> \o b)
           r == Append(a, c) \o b
<1>1. l \in Seq(Commands) /\ r \in Seq(Commands)
    OBVIOUS
<1>2. Len(l) = Len(a) + 1 + Len(b) /\ Len(r) = Len(a) + 1 + Len(b)
    OBVIOUS
<1>3. \A i \in 1 .. (Len(a) + 1 + Len(b)) : l[i] = r[i]
    OBVIOUS
<1> HIDE DEF l, r
<1>4. l = r
    BY <1>1, <1>2, <1>3
<1> QED
    BY <1>4 DEF l, r

(* What was accepted stays what was taken and what is to be taken when the *)
(* first of the latter is taken.                                           *)
LEMMA AcceptedAfterTaking ==
    ASSUME turns \in Seq(Commands), NEW u \in Seq(Payloads), u # <<>>,
           Head(u) \in Commands, accepted = turns \o Pending(u)
    PROVE  accepted = Append(turns, Head(u)) \o Pending(Tail(u))
<1>1. PICK c \in Commands, b \in Seq(Commands) : c = Head(u) /\ b = Pending(Tail(u))
    <2>1. Tail(u) \in Seq(Payloads)
        OBVIOUS
    <2> QED
        BY <2>1, PendingTyped
<1>2. accepted = turns \o (<<c>> \o b)
    <2>1. Pending(u) = <<c>> \o b
        BY <1>1, PendingHead
    <2> QED
        BY <2>1, Zenon
<1>3. turns \o (<<c>> \o b) = Append(turns, c) \o b
    BY TakenFirst, Zenon
<1> QED
    BY <1>1, <1>2, <1>3, Zenon

LEMMA TakingNext ==
    ASSUME NEW a \in Seq(Commands), NEW c \in Commands, NEW b \in Seq(Commands)
    PROVE  /\ a \o (<<c>> \o b) = Append(a, c) \o b
           /\ Len(a) < Len(Append(a, c) \o b) /\ (Append(a, c) \o b)[Len(a) + 1] = c
<1> DEFINE l == a \o (<<c>> \o b)
           r == Append(a, c) \o b
<1>1. l \in Seq(Commands) /\ r \in Seq(Commands)
    OBVIOUS
<1>2. Len(l) = Len(a) + 1 + Len(b) /\ Len(r) = Len(a) + 1 + Len(b)
    OBVIOUS
<1>3. \A i \in 1 .. (Len(a) + 1 + Len(b)) : l[i] = r[i]
    OBVIOUS
<1>4. Len(a) \in Nat /\ Len(b) \in Nat /\ r[Len(a) + 1] = c
    OBVIOUS
<1> HIDE DEF l, r
<1>5. l = r
    BY <1>1, <1>2, <1>3
<1>6. Len(a) < Len(r)
    BY <1>2, <1>4
<1> QED
    BY <1>4, <1>5, <1>6 DEF l, r

LEMMA AcceptedBehind ==
    ASSUME NEW a \in Seq(Commands), NEW b \in Seq(Commands), NEW c \in Commands
    PROVE  Append(a \o b, c) = a \o Append(b, c)
<1> DEFINE l == Append(a \o b, c)
           r == a \o Append(b, c)
<1>1. l \in Seq(Commands) /\ r \in Seq(Commands)
    OBVIOUS
<1>2. Len(l) = Len(a) + Len(b) + 1 /\ Len(r) = Len(a) + Len(b) + 1
    OBVIOUS
<1>3. \A i \in 1 .. (Len(a) + Len(b) + 1) : l[i] = r[i]
    OBVIOUS
<1> HIDE DEF l, r
<1>4. l = r
    BY <1>1, <1>2, <1>3
<1> QED
    BY <1>4 DEF l, r

(***************************************************************************)
(* The holder.                                                             *)
(***************************************************************************)
LEMMA OneHolder ==
    ASSUME HInv, NEW r \in SessionRuns, NEW q \in SessionRuns, Holder(r), Holder(q)
    PROVE  r = q
BY DEF HInv, OneLive, OneCandidate, CandidateAwaited, Live, Holder

LEMMA HookedIsHolder ==
    ASSUME Hooked, NEW p \in Payloads, hook[addressOf(p)] \in SessionRuns
    PROVE  Holder(hook[addressOf(p)])
<1>1. addressOf(p) \in Tokens
    BY CommandsAssumption DEF addressOf
<1> QED
    BY <1>1 DEF Hooked, Holder

LEMMA NoHolderAfterTheEnd ==
    ASSUME HInv, NoneAfterTheEnd, over, NEW r \in SessionRuns
    PROVE  ~Holder(r)
BY DEF HInv, CandidateAwaited, NoneAfterTheEnd, Live, Holder

LEMMA HolderTyped ==
    ASSUME TypeOK, SelectionsExist, NEW r \in SessionRuns, Holder(r)
    PROVE  /\ Taken(r) \in Seq(Commands) /\ Unread(r) \in Seq(Payloads)
           /\ Pending(Unread(r)) \in Seq(Commands)
<1> USE RunFacts
<1>1. /\ turns \in Seq(Commands) /\ inbox[r] \in Seq(Payloads) /\ restored[r] \in Seq(Payloads)
      /\ activation[r] \in Payload
    BY DEF TypeOK
<1>2. Taken(r) \in Seq(Commands)
    <2>1. pc[r] \in {"parked", "turn"} \/ selected[r] \in Commands
        BY DEF Holder, SelectionsExist, Selecting
    <2> QED
        BY <1>1, <2>1 DEF Taken
<1>3. Unread(r) \in Seq(Payloads)
    <2>1. restored[r] \o inbox[r] \in Seq(Payloads)
        BY <1>1
    <2>2. activation[r].kind = "failed" => activation[r].payloads \in Seq(Payloads)
        BY <1>1 DEF Payload
    <2>3. pc[r] = "awaiting" => activation[r].kind = "failed"
        BY DEF Holder
    <2> QED
        BY <1>1, <2>1, <2>2, <2>3 DEF Unread
<1> QED
    BY <1>2, <1>3, PendingTyped

(* What is accepted passes from holder to holder.                          *)
LEMMA HandedOn ==
    ASSUME HInv', Accounted, NEW q \in SessionRuns, Holder(q),
           NEW r \in SessionRuns, Holder(r)',
           accepted' = accepted, Taken(r)' = Taken(q),
           Pending(Unread(r))' = Pending(Unread(q))
    PROVE  Accounted'
<1> SUFFICES ASSUME NEW k \in SessionRuns, Holder(k)'
             PROVE  (accepted = Taken(k) \o Pending(Unread(k)))'
    BY DEF Accounted
<1>1. k = r
    BY DEF HInv, OneLive, OneCandidate, CandidateAwaited, Live, Holder
<1> QED
    BY <1>1 DEF Accounted

LEMMA LeftAlone ==
    ASSUME Accounted, accepted' = accepted,
           \A r \in SessionRuns : Holder(r)' =>
               Holder(r) /\ Taken(r)' = Taken(r) /\ Unread(r)' = Unread(r)
    PROVE  Accounted'
BY DEF Accounted, Pending

LEMMA AccountedStep ==
    ASSUME HInv, HInv', TypeOK, SelectionsExist, SameSelection, SameSelection', Hooked,
           QuietRunsHaveNone, NoneAfterTheEnd', Accounted, [Next]_vars
    PROVE  Accounted'
<1> USE RunFacts
<1>0. /\ pc \in [Runs -> Phases] /\ selected \in [Runs -> Commands \cup {NoCommand}]
      /\ inbox \in [Runs -> Seq(Payloads)] /\ restored \in [SessionRuns -> Seq(Payloads)]
      /\ activation \in [SessionRuns -> Payload] /\ turns \in Seq(Commands)
      /\ predecessor \in [Successors -> SessionRuns \cup {NoRun}]
    BY DEF TypeOK
<1>1. CASE over'
    BY <1>1 DEF Accounted, HInv, CandidateAwaited, NoneAfterTheEnd, Live, Holder
<1>2. ASSUME NEW r \in SessionRuns, nextTurnDelivery(r) PROVE Accounted'
    <2> DEFINE u == inbox[r]
    <2>1. /\ pc[r] = "parked" /\ pc' = [pc EXCEPT ![r] = "selected"]
          /\ u # <<>> /\ Head(u) \in Commands
          /\ inbox' = [inbox EXCEPT ![r] = Tail(u)]
          /\ selected' = [selected EXCEPT ![r] = Head(u)]
          /\ UNCHANGED <<turns, accepted>>
        BY <1>2 DEF nextTurnDelivery, isDelivery, historyVars
    <2>2. u \in Seq(Payloads)
        BY <1>0
    <2>3. Tail(u) \in Seq(Payloads)
        BY <2>1, <2>2
    <2>4. /\ Holder(r) /\ Taken(r) = turns /\ Unread(r) = u
          /\ Holder(r)' /\ Taken(r)' = Append(turns, Head(u)) /\ Unread(r)' = Tail(u)
        BY <1>0, <2>1 DEF Holder, Taken, Unread
    <2>5. accepted = turns \o Pending(u)
        BY <2>4 DEF Accounted
    <2>6. accepted = Append(turns, Head(u)) \o Pending(Tail(u))
        BY <1>0, <2>1, <2>2, <2>5, AcceptedAfterTaking
    <2> HIDE DEF u
    <2> SUFFICES ASSUME NEW k \in SessionRuns, Holder(k)'
                 PROVE  (accepted = Taken(k) \o Pending(Unread(k)))'
        BY DEF Accounted
    <2>7. k = r
        BY <2>4 DEF HInv, OneLive, OneCandidate, CandidateAwaited, Live, Holder
    <2> QED
        BY <2>1, <2>4, <2>6, <2>7 DEF Pending
<1>3. ASSUME NEW r \in SessionRuns, ignoreTimeout(r) PROVE Accounted'
    <2> DEFINE u == inbox[r]
    <2>1. /\ pc[r] = "parked" /\ u # <<>> /\ Head(u) \notin Commands
          /\ inbox' = [inbox EXCEPT ![r] = Tail(u)]
          /\ UNCHANGED <<pc, selected, turns, accepted>>
        BY <1>3, CommandsAssumption DEF ignoreTimeout, runVars, historyVars
    <2>2. u \in Seq(Payloads)
        BY <1>0
    <2>3. /\ Holder(r) /\ Unread(r) = u /\ Holder(r)' /\ Taken(r)' = Taken(r)
          /\ Unread(r)' = Tail(u)
        BY <1>0, <2>1 DEF Holder, Taken, Unread
    <2>4. Pending(u) = Pending(Tail(u))
        BY <2>1, <2>2, PendingHead
    <2> HIDE DEF u
    <2> QED
        BY <2>1, <2>3, <2>4, HandedOn DEF Pending
<1>4. ASSUME NEW r \in SessionRuns, endSession(r) \/ markerConflict(r) \/ recoveryFails(r)
      PROVE  Accounted'
    <2>1. over'
        BY <1>0, <1>4 DEF endSession, markerConflict, recoveryFails, finish, over
    <2> QED
        BY <1>1, <2>1
<1>5. ASSUME NEW r \in SessionRuns, endTurn(r) \/ beginTransfer(r) PROVE Accounted'
    <2>1. \A k \in SessionRuns : Holder(k)' =>
              Holder(k) /\ Taken(k)' = Taken(k) /\ Unread(k)' = Unread(k)
        BY <1>0, <1>5 DEF endTurn, beginTransfer, claimVars, historyVars, Holder, Taken, Unread
    <2> QED
        BY <1>5, <2>1, LeftAlone DEF endTurn, beginTransfer, historyVars
<1>6. ASSUME NEW r \in SessionRuns, retain(r) \/ activate(r) PROVE Accounted'
    <2>1. /\ pc[r] \in {"selected", "claiming"} /\ pc' = [pc EXCEPT ![r] = "turn"]
          /\ turns' = Append(turns, selected[r])
          /\ UNCHANGED <<selected, inbox, restored, accepted>>
        BY <1>6 DEF retain, activate, runTurn, claimVars
    <2>2. Holder(r) /\ Holder(r)' /\ Taken(r)' = Taken(r) /\ Unread(r)' = Unread(r)
        BY <1>0, <2>1 DEF Holder, Taken, Unread
    <2> QED
        BY <2>1, <2>2, HandedOn DEF Pending
<1>7. ASSUME NEW r \in SessionRuns, released(r) PROVE Accounted'
    <2>1. /\ pc[r] = "releasing"
          /\ inbox' = [inbox EXCEPT ![r] = <<>>]
          /\ \/ inbox[r] = <<>> /\ pc' = [pc EXCEPT ![r] = "starting"]
             \/ /\ pc' = [pc EXCEPT ![r] = "recovering"]
                /\ restored' = [restored EXCEPT ![r] = inbox[r]]
          /\ UNCHANGED <<selected, turns, accepted>>
        BY <1>7 DEF released, recover, drained, historyVars
    <2>2. inbox[r] \o <<>> = inbox[r]
        BY <1>0
    <2>3. Holder(r) /\ Holder(r)' /\ Taken(r)' = Taken(r) /\ Unread(r)' = Unread(r)
        BY <1>0, <2>1, <2>2 DEF Holder, Taken, Unread
    <2> QED
        BY <2>1, <2>3, HandedOn DEF Pending
<1>8. ASSUME NEW r \in SessionRuns, startFails(r) PROVE Accounted'
    <2>1. /\ pc[r] = "starting" /\ pc' = [pc EXCEPT ![r] = "recovering"]
          /\ restored' = [restored EXCEPT ![r] = <<>>]
          /\ UNCHANGED <<selected, inbox, turns, accepted>>
        BY <1>8 DEF startFails, mayFailToStart, recover, historyVars
    <2>2. <<>> \o inbox[r] = inbox[r]
        BY <1>0
    <2>3. Holder(r) /\ Holder(r)' /\ Taken(r)' = Taken(r) /\ Unread(r)' = Unread(r)
        BY <1>0, <2>1, <2>2 DEF Holder, Taken, Unread
    <2> QED
        BY <2>1, <2>3, HandedOn DEF Pending
<1>9. ASSUME NEW r \in SessionRuns, NEW s \in Successors, startSessionOwner(r, s)
      PROVE  Accounted'
    <2>1. /\ pc[r] = "starting" /\ pc[s] = "unused"
          /\ pc' = [pc EXCEPT ![r] = "awaiting", ![s] = "booting"]
          /\ selected' = [selected EXCEPT ![s] = selected[r]]
          /\ UNCHANGED <<inbox, turns, accepted>>
        BY <1>9 DEF startSessionOwner, historyVars
    <2>2. inbox[r] = <<>> /\ inbox[s] = <<>>
        BY <2>1 DEF QuietRunsHaveNone, Quiet
    <2>3. Holder(r) /\ Holder(s)' /\ Taken(s)' = Taken(r) /\ Unread(s)' = Unread(r)
        BY <1>0, <2>1, <2>2 DEF Holder, Taken, Unread
    <2> QED
        BY <2>1, <2>3, HandedOn DEF Pending
<1>10. ASSUME NEW r \in SessionRuns, activated(r) \/ leave(r)
        PROVE Accounted'
    <2>1. \A k \in SessionRuns : Holder(k)' =>
              Holder(k) /\ Taken(k)' = Taken(k) /\ Unread(k)' = Unread(k)
        BY <1>0, <1>10, ZenonT(90) DEF activated, leave, claimVars, historyVars, Holder, Taken, Unread
    <2> QED
        BY <1>10, <2>1, LeftAlone DEF activated, leave, historyVars
<1>11. ASSUME NEW r \in SessionRuns, activationFailed(r) PROVE Accounted'
    <2>1. /\ pc[r] = "awaiting" /\ activation[r].kind = "failed"
          /\ pc' = [pc EXCEPT ![r] = "recovering"]
          /\ restored' = [restored EXCEPT ![r] = activation[r].payloads]
          /\ UNCHANGED <<selected, inbox, turns, accepted>>
        BY <1>11 DEF activationFailed, recover, historyVars
    <2>2. inbox[r] = <<>>
        BY <2>1 DEF QuietRunsHaveNone, Quiet
    <2>3. activation[r].payloads \in Seq(Payloads)
        BY <1>0, <2>1 DEF Payload
    <2>4. activation[r].payloads \o <<>> = activation[r].payloads
        BY <2>3
    <2>5. Holder(r) /\ Holder(r)' /\ Taken(r)' = Taken(r) /\ Unread(r)' = Unread(r)
        BY <1>0, <2>1, <2>2, <2>4 DEF Holder, Taken, Unread
    <2> QED
        BY <2>1, <2>5, HandedOn DEF Pending
<1>12. ASSUME NEW r \in SessionRuns, recovered(r) PROVE Accounted'
    <2>1. /\ pc[r] = "recovering" /\ pc' = [pc EXCEPT ![r] = "turn"]
          /\ inbox' = [inbox EXCEPT ![r] = restored[r] \o inbox[r]]
          /\ turns' = Append(turns, selected[r])
          /\ UNCHANGED <<selected, accepted>>
        BY <1>12 DEF recovered, replay, runTurn
    <2>2. Holder(r) /\ Holder(r)' /\ Taken(r)' = Taken(r) /\ Unread(r)' = Unread(r)
        BY <1>0, <2>1 DEF Holder, Taken, Unread
    <2> QED
        BY <2>1, <2>2, HandedOn DEF Pending
<1>13. ASSUME NEW r \in SessionRuns, NEW t \in Tokens, releaseHook(r, t) \/ claimHook(r, t)
       PROVE  Accounted'
    <2>1. UNCHANGED <<pc, selected, inbox, restored, activation, turns, accepted>>
        BY <1>13 DEF releaseHook, claimHook, runVars, claimVars, historyVars
    <2> QED
        BY <2>1, LeftAlone DEF Holder, Taken, Unread
<1>14. ASSUME NEW s \in Successors, validated(s) \/ bootFails(s) PROVE Accounted'
    <2>1. \A k \in SessionRuns : Holder(k)' =>
              Holder(k) /\ Taken(k)' = Taken(k) /\ Unread(k)' = Unread(k)
        BY <1>0, <1>14 DEF validated, bootFails, claimVars, historyVars, Holder, Taken, Unread
    <2> QED
        BY <1>14, <2>1, LeftAlone DEF validated, bootFails, historyVars
<1>15. ASSUME NEW s \in Successors, reportFailure(s) PROVE Accounted'
    <2>0. PICK r : r = predecessor[s]
        OBVIOUS
    <2>1. /\ pc[s] = "withdrawing" /\ pc' = [pc EXCEPT ![s] = "exited"]
          /\ activation' = [activation EXCEPT ![r] = [kind |-> "failed", payloads |-> inbox[s]]]
          /\ UNCHANGED <<selected, turns, accepted>>
        BY <1>15, <2>0 DEF reportFailure, historyVars
    <2>2. r \in SessionRuns /\ pc[r] = "awaiting" /\ selected[r] = selected[s]
        BY <2>0, <2>1 DEF HInv, CandidateAwaited, SameSelection
    <2>3. activation'[r] = [kind |-> "failed", payloads |-> inbox[s]]
        BY <1>0, <2>1, <2>2
    <2>4. Holder(s) /\ Holder(r)' /\ Taken(r)' = Taken(s) /\ Unread(r)' = Unread(s)
        BY <1>0, <2>1, <2>2, <2>3 DEF Holder, Taken, Unread
    <2> QED
        BY <2>1, <2>2, <2>4, HandedOn DEF Pending
<1>16. ASSUME NEW p \in Payloads, resumed(p) PROVE Accounted'
    <2>0. PICK o : o = hook[addressOf(p)]
        OBVIOUS
    <2>1. /\ o # NoRun /\ inbox' = [inbox EXCEPT ![o] = Append(inbox[o], p)]
          /\ accepted' = IF p \in Commands /\ o \in SessionRuns THEN Append(accepted, p)
                         ELSE accepted
          /\ UNCHANGED <<pc, selected, restored, activation, turns>>
        BY <1>16, <2>0 DEF resumed, runVars, claimVars
    <2>2. o \in SessionRuns => Holder(o) /\ pc[o] # "awaiting"
        <3>1. addressOf(p) \in Tokens
            BY CommandsAssumption DEF addressOf
        <3> QED
            BY <2>0, <3>1 DEF Hooked, Holder
    <2>3. CASE o \notin SessionRuns
        <3>1. \A k \in SessionRuns : inbox'[k] = inbox[k]
            BY <1>0, <2>1, <2>3
        <3>2. \A k \in SessionRuns : Holder(k)' =>
                  Holder(k) /\ Taken(k)' = Taken(k) /\ Unread(k)' = Unread(k)
            BY <2>1, <3>1 DEF Holder, Taken, Unread
        <3> QED
            BY <2>1, <2>3, <3>2, LeftAlone
    <2>4. CASE o \in SessionRuns
        <3>0. PICK u, a : u = Unread(o) /\ a = Taken(o)
            OBVIOUS
        <3>1. u \in Seq(Payloads) /\ a \in Seq(Commands) /\ Pending(u) \in Seq(Commands)
            BY <2>2, <2>4, <3>0, HolderTyped
        <3>2. Unread(o)' = Append(u, p)
            <4>1. restored[o] \o Append(inbox[o], p) = Append(restored[o] \o inbox[o], p)
                BY <1>0, <2>4, AppendJoined
            <4>2. inbox'[o] = Append(inbox[o], p)
                BY <1>0, <2>1, <2>4
            <4> QED
                BY <2>1, <2>2, <2>4, <3>0, <4>1, <4>2 DEF Unread
        <3>3. Holder(o)' /\ Taken(o)' = a
            BY <2>1, <2>2, <2>4, <3>0 DEF Holder, Taken
        <3>4. accepted = a \o Pending(u)
            BY <2>2, <2>4, <3>0 DEF Accounted
        <3>5. Pending(Append(u, p)) =
                  IF p \in Commands THEN Append(Pending(u), p) ELSE Pending(u)
            BY <3>1, PendingGrows
        <3>6. accepted' = a \o Pending(Append(u, p))
            <4>1. CASE p \in Commands
                <5>0. PICK b : b = Pending(u)
                    OBVIOUS
                <5>1. Append(a \o b, p) = a \o Append(b, p)
                    BY <3>1, <4>1, <5>0, AcceptedBehind
                <5>2. accepted' = Append(a \o b, p) /\ Pending(Append(u, p)) = Append(b, p)
                    BY <2>1, <2>4, <3>4, <3>5, <4>1, <5>0
                <5> QED
                    BY <5>1, <5>2
            <4>2. CASE p \notin Commands
                BY <2>1, <3>4, <3>5, <4>2
            <4> QED
                BY <4>1, <4>2
        <3> SUFFICES ASSUME NEW k \in SessionRuns, Holder(k)'
                     PROVE  (accepted = Taken(k) \o Pending(Unread(k)))'
            BY DEF Accounted
        <3>7. k = o
            BY <2>4, <3>3 DEF HInv, OneLive, OneCandidate, CandidateAwaited, Live, Holder
        <3> QED
            BY <3>2, <3>3, <3>6, <3>7 DEF Pending
    <2> QED
        BY <2>3, <2>4
<1>17. ASSUME NEW p \in Payloads,
              send(p) \/ hookNotFound(p) \/ isHandoffInProgress(p) \/ retryWindowPasses(p)
       PROVE  Accounted'
    <2>1. UNCHANGED <<pc, selected, inbox, restored, activation, turns, accepted>>
        BY <1>17 DEF send, hookNotFound, isHandoffInProgress, retryWindowPasses, runVars,
           claimVars, historyVars
    <2> QED
        BY <2>1, LeftAlone DEF Holder, Taken, Unread
<1>18. ASSUME NEW x \in Replacements,
              (\E c \in Commands : startReplacement(c, x)) \/ contend(x)
       PROVE  Accounted'
    <2>1. \A k \in SessionRuns : pc'[k] = pc[k] /\ selected'[k] = selected[k]
        BY <1>0, <1>18 DEF startReplacement, contend
    <2>2. UNCHANGED <<inbox, restored, activation, turns, accepted>>
        BY <1>18 DEF startReplacement, contend, claimVars, historyVars
    <2> QED
        BY <2>1, <2>2, LeftAlone DEF Holder, Taken, Unread
<1>19. CASE awaitAnchoredResult \/ UNCHANGED vars
    <2>1. \A k \in SessionRuns : Holder(k)' =>
              Holder(k) /\ Taken(k)' = Taken(k) /\ Unread(k)' = Unread(k)
        BY <1>0, <1>19 DEF awaitAnchoredResult, vars, runVars, claimVars, historyVars, Holder,
           Taken, Unread
    <2> QED
        BY <1>19, <2>1, LeftAlone DEF awaitAnchoredResult, vars, historyVars
<1>20. ASSUME NEW r \in SessionRuns, ownerStep(r) PROVE Accounted'
    <2>1. CASE nextTurnDelivery(r) \/ ignoreTimeout(r) \/ endSession(r) \/ markerConflict(r)
                   \/ recoveryFails(r)
        BY <1>2, <1>3, <1>4, <2>1
    <2>2. CASE endTurn(r) \/ beginTransfer(r) \/ retain(r) \/ released(r) \/ startFails(r)
        BY <1>5, <1>6, <1>7, <1>8, <2>2
    <2>3. CASE \E s \in Successors : startSessionOwner(r, s)
        BY <1>9, <2>3
    <2>4. CASE activated(r) \/ leave(r) \/ activationFailed(r) \/ recovered(r)
        BY <1>10, <1>11, <1>12, <2>4
    <2> QED
        BY <1>20, <2>1, <2>2, <2>3, <2>4 DEF ownerStep
<1>21. ASSUME NEW r \in SessionRuns, hookStep(r) PROVE Accounted'
    BY <1>13, <1>21 DEF hookStep
<1>22. ASSUME NEW s \in Successors, candidateStep(s) PROVE Accounted'
    BY <1>6, <1>14, <1>15, <1>22 DEF candidateStep
<1>23. ASSUME NEW p \in Payloads, send(p) \/ ingressStep(p) PROVE Accounted'
    BY <1>16, <1>17, <1>23 DEF ingressStep
<1> QED
    BY <1>18, <1>19, <1>20, <1>21, <1>22, <1>23 DEF Next

(***************************************************************************)
(* The end of a session, and what it is a refinement of.                   *)
(***************************************************************************)
LEMMA OccursStays ==
    ASSUME NEW s \in Seq(Commands), NEW c, Occurs(c, s), NEW d \in Commands
    PROVE  Occurs(c, Append(s, d))
BY DEF Occurs

LEMMA OwnTimeoutStep ==
    ASSUME TypeOK, SelectionsExist, ContendedOnce, TimersArrived, EndsByOwnTimeout, [Next]_vars
    PROVE  EndsByOwnTimeout'
<1> USE RunFacts
<1>0. turns \in Seq(Commands) /\ inbox \in [Runs -> Seq(Payloads)] /\ Timers \subseteq Payloads
    BY DEF TypeOK, Payloads
<1>1. ASSUME NEW c \in Resets, Occurs(c, turns) PROVE Occurs(c, turns')
    <2>1. turns' = turns \/ \E d \in Commands : turns' = Append(turns, d)
        <3>1. ASSUME NEW r \in SessionRuns, endSession(r)
              PROVE  turns' = turns \/ \E d \in Commands : turns' = Append(turns, d)
            BY <3>1, CommandsAssumption DEF endSession
        <3>2. ASSUME NEW r \in SessionRuns, retain(r) \/ recovered(r) \/ activate(r)
              PROVE  \E d \in Commands : turns' = Append(turns, d)
            <4>1. pc[r] \in Selecting /\ turns' = Append(turns, selected[r])
                BY <3>2 DEF retain, recovered, activate, runTurn, Selecting
            <4> QED
                BY <4>1 DEF SelectionsExist
        <3> QED
            BY <3>1, <3>2, TurnsChange
    <2> QED
        BY <1>0, <1>1, <2>1, OccursStays
<1> SUFFICES ASSUME NEW r \in SessionRuns, pc'[r] = "ended"
             PROVE  \/ \E c \in Resets : Occurs(c, turns')
                    \/ r \in Timed /\ sent'[[timer |-> r]] = "accepted"
    BY DEF EndsByOwnTimeout
<1>2. ASSUME r \in Timed, sent[[timer |-> r]] = "accepted"
      PROVE  sent'[[timer |-> r]] = "accepted"
    <2>1. [timer |-> r] \in Payloads
        BY <1>0, <1>2 DEF Timers
    <2> QED
        BY <1>2, <2>1, ArrivedForGood
<1>3. CASE pc[r] = "ended"
    BY <1>1, <1>2, <1>3 DEF EndsByOwnTimeout
<1>4. CASE endSession(r)
    <2> DEFINE h == Head(inbox[r])
    <2>1. inbox[r] \in Seq(Payloads) /\ inbox[r] # <<>>
        BY <1>0, <1>4 DEF endSession
    <2>2. CASE h \in Resets /\ turns' = Append(turns, h)
        <3>1. Len(turns) + 1 \in 1 .. Len(turns') /\ turns'[Len(turns) + 1] = h
            BY <1>0, <2>2, CommandsAssumption
        <3> QED
            BY <2>2, <3>1 DEF Occurs
    <2>3. CASE ownDeadline(h, r)
        <3>1. h \in Members(inbox[r])
            BY <2>1, HeadAndTail
        <3>2. r \in Timed /\ h = [timer |-> r] /\ h \in Timers
            BY <2>3 DEF ownDeadline, Timers
        <3>3. sent[h] = "accepted"
            BY <3>1, <3>2 DEF TimersArrived, Arrived
        <3> QED
            BY <1>2, <3>2, <3>3
    <2> QED
        BY <1>4, <2>2, <2>3 DEF endSession
<1>5. pc[r] = "ended" \/ endSession(r)
    BY Endings DEF Ending
<1> QED
    BY <1>3, <1>4, <1>5

MailInv ==
    /\ HInv /\ TypeOK
    /\ SelectionsExist /\ SameSelection /\ ContendedOnce
    /\ TimersArrived /\ AcceptedArrived
    /\ Hooked /\ QuietRunsHaveNone /\ NoneAfterTheEnd
    /\ Accounted /\ EndsByOwnTimeout

LEMMA MailStarts == Init => MailInv
<1> SUFFICES ASSUME Init PROVE MailInv
    OBVIOUS
<1> USE RunFacts
<1>1. HInv
    BY InitHolds
<1>2. TypeOK
    <2>1. [kind |-> "none"] \in Payload
        BY DEF Payload
    <2> QED
        BY <2>1 DEF Init, TypeOK
<1>3. SelectionsExist /\ SameSelection /\ ContendedOnce
    BY DEF Init, SelectionsExist, SameSelection, ContendedOnce, Selecting
<1>4. TimersArrived /\ AcceptedArrived
    BY DEF Init, TimersArrived, AcceptedArrived, Arrived, Members
<1>5. Hooked /\ QuietRunsHaveNone /\ EndsByOwnTimeout
    BY DEF Init, Hooked, QuietRunsHaveNone, EndsByOwnTimeout
<1>6. NoneAfterTheEnd
    BY DEF Init, NoneAfterTheEnd, over
<1>7. Accounted
    <2> SUFFICES ASSUME NEW r \in SessionRuns, Holder(r)
                 PROVE  accepted = Taken(r) \o Pending(Unread(r))
        BY DEF Accounted
    <2>1. Taken(r) = <<>> /\ Unread(r) = <<>> /\ accepted = <<>>
        BY DEF Init, Holder, Taken, Unread
    <2>2. Pending(<<>>) = <<>>
        BY OnlyOfEmpty DEF Pending
    <2>3. <<>> \o <<>> = <<>>
        OBVIOUS
    <2> QED
        BY <2>1, <2>2, <2>3
<1> QED
    BY <1>1, <1>2, <1>3, <1>4, <1>5, <1>6, <1>7 DEF MailInv

LEMMA MailStep == MailInv /\ [Next]_vars => MailInv'
<1> SUFFICES ASSUME MailInv, [Next]_vars PROVE MailInv'
    OBVIOUS
<1>1. HInv'
    BY StepPreserves DEF MailInv
<1>2. TypeOK'
    BY <1>1, TypeStep DEF MailInv
<1>3. SelectionsExist' /\ SameSelection' /\ ContendedOnce'
    BY SelectionsStep, SelectionsAgree, ContendedStep DEF MailInv
<1>4. TimersArrived' /\ AcceptedArrived'
    BY TimersStep, AcceptedStep DEF MailInv
<1>5. Hooked' /\ QuietRunsHaveNone' /\ NoneAfterTheEnd'
    BY HookedStep, QuietStep, EndStep DEF MailInv
<1>6. Accounted'
    BY <1>1, <1>3, <1>5, AccountedStep DEF MailInv
<1>7. EndsByOwnTimeout'
    BY OwnTimeoutStep DEF MailInv
<1> QED
    BY <1>1, <1>2, <1>3, <1>4, <1>5, <1>6, <1>7 DEF MailInv

(* Whoever owns a session, what it accepted and did not take is with the   *)
(* one run that holds it: selected, in its inbox, to be replayed, or in    *)
(* the failure its candidate reported (handoff.ts, entry.ts, inbox.ts).    *)
THEOREM MailIsKept == Spec => []MailInv
BY MailStarts, MailStep, PTL DEF Spec

(* Every variable of the handoff has its type.                             *)
THEOREM HandoffTypeCorrect == Spec => []TypeOK
<1>1. MailInv => TypeOK
    BY DEF MailInv
<1> QED
    BY <1>1, MailIsKept, PTL

(* A timer ends a session only if it is the timer of the run that ends it, *)
(* whatever other owners left behind (session/timeout.ts, program.ts).     *)
THEOREM TimeoutsAreOfTheOwner == Spec => []EndsByOwnTimeout
<1>1. MailInv => EndsByOwnTimeout
    BY DEF MailInv
<1> QED
    BY <1>1, MailIsKept, PTL

LEMMA OverChange ==
    ASSUME TypeOK, [Next]_vars
    PROVE  /\ over => over'
           /\ over' => \/ over
                       \/ \E r \in SessionRuns :
                             endSession(r) \/ markerConflict(r) \/ recoveryFails(r)
BY Endings DEF Ending, over

(* What a turn takes is the next command.                                  *)
LEMMA SelectedIsNext ==
    ASSUME TypeOK, SelectionsExist, Accounted, NEW r \in SessionRuns, Holder(r),
           pc[r] \notin {"parked", "turn"}
    PROVE  Len(turns) < Len(accepted) /\ accepted[Len(turns) + 1] = selected[r]
<1>0. PICK c, b : c = selected[r] /\ b = Pending(Unread(r))
    OBVIOUS
<1>1. turns \in Seq(Commands) /\ c \in Commands /\ b \in Seq(Commands)
    BY <1>0, HolderTyped, RunFacts DEF TypeOK, SelectionsExist, Selecting, Holder
<1>2. accepted = Append(turns, c) \o b
    BY <1>0 DEF Accounted, Taken
<1> QED
    BY <1>0, <1>1, <1>2, TakingNext

LEMMA HeadIsNext ==
    ASSUME TypeOK, Accounted, NEW r \in SessionRuns, pc[r] = "parked", inbox[r] # <<>>,
           Head(inbox[r]) \in Commands
    PROVE  Len(turns) < Len(accepted) /\ accepted[Len(turns) + 1] = Head(inbox[r])
<1>0. PICK u, c, b : u = inbox[r] /\ c = Head(u) /\ b = Pending(Tail(u))
    OBVIOUS
<1>1. turns \in Seq(Commands) /\ u \in Seq(Payloads)
    BY <1>0, RunFacts DEF TypeOK
<1>2. Tail(u) \in Seq(Payloads)
    BY <1>0, <1>1
<1>3. c \in Commands /\ b \in Seq(Commands)
    BY <1>0, <1>2, PendingTyped
<1>4. accepted = turns \o Pending(u)
    BY <1>0 DEF Accounted, Holder, Taken, Unread
<1>5. Pending(u) = <<c>> \o b
    BY <1>0, <1>1, PendingHead
<1>6. accepted = Append(turns, c) \o b
    BY <1>1, <1>3, <1>4, <1>5, TakingNext
<1> QED
    BY <1>0, <1>1, <1>3, <1>6, TakingNext

LEMMA MailboxStep ==
    ASSUME MailInv, [Next]_vars
    PROVE  [Mailbox!Next]_(Mailbox!vars)
<1> USE RunFacts
<1>0. /\ HInv /\ TypeOK /\ SelectionsExist /\ AcceptedArrived /\ Hooked /\ NoneAfterTheEnd
      /\ Accounted /\ pc \in [Runs -> Phases] /\ accepted \in Seq(Commands)
    BY DEF MailInv, TypeOK
<1>1. ASSUME NEW r \in SessionRuns, Holder(r) PROVE ~over
    BY <1>0, <1>1, NoHolderAfterTheEnd
<1>2. ASSUME NEW r \in SessionRuns, retain(r) \/ recovered(r) \/ activate(r)
      PROVE  Mailbox!Take
    <2>1. /\ pc[r] \in {"selected", "recovering", "claiming"} /\ pc' = [pc EXCEPT ![r] = "turn"]
          /\ turns' = Append(turns, selected[r]) /\ accepted' = accepted
        BY <1>2 DEF retain, recovered, activate, runTurn
    <2>2. Holder(r)
        BY <2>1 DEF Holder
    <2>3. ~over /\ ~over'
        <3>1. ~over
            BY <1>1, <2>2
        <3> QED
            BY <1>0, <2>1, <3>1 DEF over
    <2>4. Len(turns) < Len(accepted) /\ accepted[Len(turns) + 1] = selected[r]
        BY <1>0, <2>1, <2>2, SelectedIsNext
    <2>5. over' = over
        BY <2>3 DEF over
    <2> QED
        BY <2>1, <2>3, <2>4, <2>5 DEF Mailbox!Take
<1>3. ASSUME NEW r \in SessionRuns, endSession(r) \/ markerConflict(r) \/ recoveryFails(r)
      PROVE  Mailbox!End
    <2>1. Holder(r) /\ accepted' = accepted
        BY <1>3 DEF endSession, markerConflict, recoveryFails, historyVars, Holder
    <2>2. ~over
        BY <1>1, <2>1
    <2>3. over'
        BY <1>0, <1>3 DEF endSession, markerConflict, recoveryFails, finish, over
    <2>4. \/ turns' = turns
          \/ /\ Len(turns) < Len(accepted)
             /\ turns' = Append(turns, accepted[Len(turns) + 1])
        <3>1. CASE endSession(r) /\ turns' # turns
            <4>1. /\ pc[r] = "parked" /\ inbox[r] # <<>> /\ Head(inbox[r]) \in Commands
                  /\ turns' = Append(turns, Head(inbox[r]))
                BY <3>1, CommandsAssumption DEF endSession
            <4> QED
                BY <1>0, <4>1, HeadIsNext
        <3> QED
            BY <1>3, <3>1 DEF markerConflict, recoveryFails, historyVars
    <2> QED
        BY <2>1, <2>2, <2>3, <2>4 DEF Mailbox!End
<1>4. ASSUME NEW p \in Payloads, resumed(p), accepted' # accepted
      PROVE  p \in Commands /\ Mailbox!Accept(p)
    <2>1. /\ p \in Commands /\ hook[addressOf(p)] \in SessionRuns
          /\ accepted' = Append(accepted, p) /\ UNCHANGED <<pc, turns>>
          /\ sent[p] = "resuming"
        BY <1>4 DEF resumed, runVars
    <2>2. ~over /\ over' = over
        BY <1>0, <1>1, <2>1, HookedIsHolder DEF over
    <2>3. \A i \in 1 .. Len(accepted) : accepted[i] # p
        BY <1>0, <2>1 DEF AcceptedArrived, Members
    <2> QED
        BY <2>1, <2>2, <2>3 DEF Mailbox!Accept
<1>5. \/ accepted' = accepted
      \/ \E p \in Payloads : resumed(p) /\ accepted' # accepted
    BY AcceptedChange DEF send, hookNotFound, isHandoffInProgress, retryWindowPasses,
       startReplacement, contend, historyVars
<1>6. \/ turns' = turns
      \/ \E r \in SessionRuns : endSession(r) \/ retain(r) \/ recovered(r) \/ activate(r)
    BY TurnsChange
<1>7. \/ over' = over
      \/ \E r \in SessionRuns : endSession(r) \/ markerConflict(r) \/ recoveryFails(r)
    BY <1>0, OverChange DEF over
<1> QED
    BY <1>2, <1>3, <1>4, <1>5, <1>6, <1>7 DEF Mailbox!Next, Mailbox!vars

(* The session is a mailbox: whichever run owns it, through releases,      *)
(* failed candidates, replays and replacements, accepted commands are      *)
(* taken once each, in the order of their acceptance, until it is over     *)
(* (handoff.ts, entry.ts, session-inbox/inbox.ts).                         *)
THEOREM SessionIsAMailbox == Spec => ImplementsMailbox
<1>1. Init => Mailbox!Init
    BY RunFacts DEF Init, Mailbox!Init, over
<1>2. MailInv /\ [Next]_vars => [Mailbox!Next]_(Mailbox!vars)
    BY MailboxStep
<1> QED
    BY <1>1, <1>2, MailIsKept, PTL DEF Spec, ImplementsMailbox, Mailbox!Spec

=============================================================================
